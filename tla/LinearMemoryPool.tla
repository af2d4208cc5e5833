-------------------------- MODULE LinearMemoryPool --------------------------
(* The buffer of a connection (linearmemorypool.cpp): memory is handed out *)
(* from the front of a chain of parts and taken back all at once.          *)
EXTENDS Integers, Sequences

CONSTANTS Base,     \* _basesize, the size of the first part and of usual others
          MinSize,  \* LINEARMEMORYPOOL_MIN_SIZE
          Sizes     \* sizes that callers ask for

ASSUME LinearAssumption ==
  /\ Base \in Nat /\ MinSize \in Nat
  /\ Sizes \subseteq Nat

VARIABLES parts,    \* the chain: _size and _current - _pool of each part
          chunks    \* what was lent since the last clear()
linearVars == <<parts, chunks>>

Chunk == [part : Nat, from : Nat, size : Nat]

Clamp(n) == IF n < MinSize THEN MinSize ELSE n
NewPart(n) == [size |-> Clamp(IF n > Base THEN n + Base ELSE Base), used |-> 0]

(* Mutation: the request itself is forgotten.                              *)
HasRoom(p, n) == p.used < p.size

Fits(p, n) == n + p.used <= p.size

(* Mutation: the pointer is left on the last byte lent.                    *)
BumpShort(ps, i, n) == [ps EXCEPT ![i].used = @ + n - 1]

Bump(ps, i, n) == [ps EXCEPT ![i].used = @ + n]

ChunkAt(ps, i, n) == [part |-> i, from |-> ps[i].used, size |-> n]

(* The first part with room for n; one past the end if there is none.      *)
PartFor(ps, n, i) ==
  /\ i \in 1..Len(ps) + 1
  /\ i <= Len(ps) => Fits(ps[i], n)
  /\ \A j \in 1..i - 1 : ~Fits(ps[j], n)

LinearInit ==
  /\ parts = <<[size |-> Clamp(Base), used |-> 0]>>
  /\ chunks = {}

Borrow(n) ==
  \E i \in 1..Len(parts) + 1 :
    /\ PartFor(parts, n, i)
    /\ LET ps == IF i > Len(parts) THEN Append(parts, NewPart(n)) ELSE parts
       IN  /\ parts' = Bump(ps, i, n)
           /\ chunks' = chunks \cup {ChunkAt(ps, i, n)}

Clear ==
  /\ parts' = <<[parts[1] EXCEPT !.used = 0]>>
  /\ chunks' = {}

LinearNext == Clear \/ \E n \in Sizes : Borrow(n)
LinearSpec == LinearInit /\ [][LinearNext]_linearVars

-----------------------------------------------------------------------------
Overlap(c, d) ==
  /\ c.part = d.part
  /\ c.from < d.from + d.size
  /\ d.from < c.from + c.size

(* Memory lent since the last clear() is never lent twice: no chunk has a  *)
(* byte of another one (borrow() skips parts and chains new ones).         *)
ChunksDisjoint == \A c, d \in chunks : c # d => ~Overlap(c, d)

(* Every chunk lies in the buffer of a part that exists, so none reaches   *)
(* the object of the next part, which sits behind the buffer.              *)
ChunksInside ==
  \A c \in chunks : c.part \in 1..Len(parts) /\ c.from + c.size <= parts[c.part].size
=============================================================================
