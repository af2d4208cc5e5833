--------------------------- MODULE ChatServerProofs ---------------------------
(* Proofs about ChatServer, for any number of users, connections and         *)
(* requests.  Four inductive invariants:                                    *)
(*   TypeInv      what the places of the listeners tell of the variables,    *)
(*                for any requests in any order;                             *)
(*   LoginInv     users who log in again, one login at a time (SerialLogin); *)
(*   ChatInv      requests that overlap in any way, where every user has one *)
(*                client and messages go to users who are logged in          *)
(*                (Regular);                                                 *)
(*   PresenceInv  what clients know of each other, where both hold.          *)
(* The runs that end in a violation show what happens without Regular and    *)
(* without SerialLogin.                                                      *)
EXTENDS ChatServer, TLAPS, FiniteSetTheorems, FunctionTheorems

-----------------------------------------------------------------------------
(* The order of a walk over the map of users.  A user's place in it is the   *)
(* number of users up to it.                                                 *)
LEMMA UpTo ==
  ASSUME NEW S \in SUBSET Nat, IsFiniteSet(S), NEW u \in S, NEW v \in S, u < v
  PROVE  Cardinality({w \in S : w <= u}) < Cardinality({w \in S : w <= v})
<1> DEFINE P == {w \in S : w <= u}
           Q == {w \in S : w <= v}
<1>1. IsFiniteSet(Q) /\ P \in SUBSET Q /\ v \in Q /\ v \notin P
  <2>1. IsFiniteSet(Q)
    BY FS_Subset
  <2>2. u \in Nat /\ v \in Nat
    OBVIOUS
  <2>3. \A w \in P : w \in Nat /\ w <= v
    BY <2>2
  <2>4. v \in Q /\ v \notin P
    BY <2>2
  <2> QED BY <2>1, <2>3, <2>4
<1>2. /\ Cardinality(P) <= Cardinality(Q)
      /\ Cardinality(P) \in Nat /\ Cardinality(Q) \in Nat
      /\ Cardinality(Q) = Cardinality(P) => Q = P
  <2> HIDE DEF P, Q
  <2>1. IsFiniteSet(P) /\ Cardinality(P) <= Cardinality(Q)
        /\ (Cardinality(Q) = Cardinality(P) => Q = P)
    BY <1>1, FS_Subset
  <2> QED BY <1>1, <2>1, FS_CardinalityType
<1>3. Q # P
  BY <1>1
<1> HIDE DEF P, Q
<1>4. Cardinality(P) < Cardinality(Q)
  BY <1>2, <1>3
<1> QED BY <1>4 DEF P, Q

LEMMA SortExists ==
  ASSUME NEW S \in SUBSET Nat, IsFiniteSet(S)
  PROVE  \E f \in [1 .. Cardinality(S) -> S] :
           \A i, j \in 1 .. Cardinality(S) : i < j => f[i] < f[j]
<1> DEFINE n == Cardinality(S)
           r == [u \in S |-> Cardinality({w \in S : w <= u})]
           f == [i \in 1 .. n |-> CHOOSE u \in S : r[u] = i]
<1>0. n \in Nat
  BY FS_CardinalityType
<1>1. ASSUME NEW u \in S
      PROVE  r[u] \in 1 .. n
  <2> DEFINE P == {w \in S : w <= u}
  <2>1. IsFiniteSet(P) /\ Cardinality(P) <= n
    BY FS_Subset
  <2>2. u \in P
    OBVIOUS
  <2>3. Cardinality(P) \in Nat /\ Cardinality(P) # 0
    <3> HIDE DEF P
    <3> QED BY <2>1, <2>2, FS_CardinalityType, FS_EmptySet
  <2>4. Cardinality(P) \in 1 .. n
    <3> HIDE DEF P, n
    <3> QED BY <2>1, <2>3, <1>0
  <2> QED BY <2>4
<1>2. \A u, v \in S : u < v => r[u] < r[v]
  BY UpTo
<1>3. r \in Injection(S, 1 .. n)
  <2>1. r \in [S -> 1 .. n]
    BY <1>1
  <2>2. ASSUME NEW u \in S, NEW v \in S, r[u] = r[v]
        PROVE  u = v
    <3>1. r[u] \in Nat /\ r[v] \in Nat /\ u \in Nat /\ v \in Nat
      BY <1>0, <1>1
    <3>2. ~(u < v) /\ ~(v < u)
      <4> HIDE DEF r
      <4> QED BY <1>2, <2>2, <3>1
    <3> QED BY <3>1, <3>2
  <2> HIDE DEF r
  <2> QED BY <2>1, <2>2, Fun_IsInj
<1>4. r \in Surjection(S, 1 .. n)
  <2>1. IsFiniteSet(1 .. n) /\ Cardinality(1 .. n) = n
    <3>1. 1 \in Int /\ n \in Int
      BY <1>0
    <3>2. IsFiniteSet(1 .. n) /\ Cardinality(1 .. n) = IF 1 > n THEN 0 ELSE n - 1 + 1
      BY <3>1, FS_Interval
    <3> HIDE DEF n
    <3> QED BY <3>2, <1>0
  <2> HIDE DEF r
  <2>2. Cardinality(S) = Cardinality(1 .. n)
    BY <2>1
  <2> HIDE DEF n
  <2> QED BY <1>3, <2>1, <2>2, FS_Injection
<1>5. ASSUME NEW i \in 1 .. n
      PROVE  f[i] \in S /\ r[f[i]] = i
  <2>1. \E u \in S : r[u] = i
    BY <1>4 DEF Surjection
  <2> HIDE DEF r
  <2> QED BY <2>1
<1>6. f \in [1 .. n -> S]
  <2> HIDE DEF r
  <2> QED BY <1>5
<1>7. ASSUME NEW i \in 1 .. n, NEW j \in 1 .. n, i < j
      PROVE  f[i] < f[j]
  <2>1. f[i] \in S /\ f[j] \in S /\ r[f[i]] = i /\ r[f[j]] = j
    BY <1>5
  <2> HIDE DEF r, f
  <2>2. f[i] \in Nat /\ f[j] \in Nat /\ i \in Nat /\ j \in Nat
    <3>1. i \in Nat /\ j \in Nat
      BY <1>0
    <3>2. \A x \in S : x \in Nat
      OBVIOUS
    <3> HIDE DEF n
    <3> QED BY <2>1, <3>1, <3>2
  <2>3. f[i] # f[j] /\ ~(f[j] < f[i])
    BY <2>1, <2>2, <1>2, <1>7
  <2> QED BY <2>2, <2>3
<1> HIDE DEF f, r
<1> QED BY <1>6, <1>7 DEF n

(* A walk meets every user once.                                             *)
LEMMA OrderRange ==
  ASSUME NEW S \in SUBSET Nat, IsFiniteSet(S)
  PROVE  /\ Cardinality(S) \in Nat
         /\ InOrder(S) \in [1 .. Cardinality(S) -> S]
         /\ \A u \in S : \E i \in 1 .. Cardinality(S) : InOrder(S)[i] = u
<1> DEFINE n == Cardinality(S)
<1>0. n \in Nat
  BY FS_CardinalityType
<1>1. PICK f : f = InOrder(S)
  OBVIOUS
<1>2. f \in [1 .. n -> S] /\ \A i, j \in 1 .. n : i < j => f[i] < f[j]
  BY <1>1, SortExists DEF InOrder
<1> HIDE DEF n
<1>3. f \in Injection(1 .. n, S)
  <2>1. ASSUME NEW i \in 1 .. n, NEW j \in 1 .. n, f[i] = f[j]
        PROVE  i = j
    <3>1. i \in Nat /\ j \in Nat
      BY <1>0
    <3>2. f[i] \in S /\ f[j] \in S
      BY <1>2
    <3>3. f[i] \in Nat /\ f[j] \in Nat
      BY <3>2
    <3>4. ~(i < j) /\ ~(j < i)
      BY <1>2, <2>1, <3>1, <3>3
    <3> QED BY <3>1, <3>4
  <2> QED BY <1>2, <2>1, Fun_IsInj
<1>4. f \in Surjection(1 .. n, S)
  <2>1. 1 \in Int /\ n \in Int
    BY <1>0
  <2>2. IsFiniteSet(1 .. n) /\ Cardinality(1 .. n) = IF 1 > n THEN 0 ELSE n - 1 + 1
    BY <2>1, FS_Interval
  <2>3. Cardinality(1 .. n) = Cardinality(S)
    BY <2>2, <1>0 DEF n
  <2> QED BY <1>3, <2>3, FS_Injection
<1>5. \A u \in S : \E i \in 1 .. n : f[i] = u
  BY <1>4 DEF Surjection
<1> QED BY <1>0, <1>1, <1>2, <1>5 DEF n

(* getAllOnlineConnections returns the connections of all online sessions.   *)
LEMMA ConnectionsOf ==
  ASSUME NEW sess, sess \in [Blocks -> Session]
  PROVE  /\ OnlineConnections(sess) \in Seq(Conns \cup {Null})
         /\ \A u \in OnlineUsers(sess) :
              \E i \in 1 .. Len(OnlineConnections(sess)) :
                OnlineConnections(sess)[i] = sess[uidSession[u]].con
<1> DEFINE S == OnlineUsers(sess)
           us == InOrder(S)
           n == Cardinality(S)
           q == [i \in DOMAIN us |-> sess[uidSession[us[i]]].con]
<1>1. S \in SUBSET Users /\ S \in SUBSET Nat /\ IsFiniteSet(S)
      /\ \A u \in S : uidSession[u] \in Blocks
  <2>1. S \in SUBSET Users /\ \A u \in S : uidSession[u] \in Blocks
    BY DEF OnlineUsers
  <2>2. Users \in SUBSET Nat /\ IsFiniteSet(Users)
    BY SessionAssumption
  <2>3. IsFiniteSet(S)
    BY <2>1, <2>2, FS_Subset
  <2> QED BY <2>1, <2>2, <2>3
<1>2. n \in Nat /\ us \in [1 .. n -> S] /\ \A u \in S : \E i \in 1 .. n : us[i] = u
  <2> HIDE DEF S
  <2> QED BY <1>1, OrderRange
<1>3. OnlineConnections(sess) = q
  BY DEF OnlineConnections
<1> HIDE DEF S, us, n
<1>4. \A i \in 1 .. n : sess[uidSession[us[i]]].con \in Conns \cup {Null}
  BY <1>1, <1>2 DEF Session
<1>5. DOMAIN us = 1 .. n
  BY <1>2
<1>6. q \in [1 .. n -> Conns \cup {Null}]
  BY <1>4, <1>5
<1>7. q \in Seq(Conns \cup {Null}) /\ Len(q) = n
  <2> HIDE DEF q
  <2> QED BY <1>2, <1>6
<1>8. ASSUME NEW u \in S
      PROVE  \E i \in 1 .. n : q[i] = sess[uidSession[u]].con
  <2>1. PICK i \in 1 .. n : us[i] = u
    BY <1>2
  <2> QED BY <2>1, <1>5
<1> HIDE DEF q
<1> QED BY <1>3, <1>7, <1>8 DEF S

-----------------------------------------------------------------------------
(* What the places of a listener tell of its own variables.                  *)
Resting  == {"none", "recv", "disc", "detach", "erasesock", "destroy", "gone"}
SendPc   == {"lookup", "golock", "waitlock", "push", "unpush"}
Entering == {"login", "replace", "erase", "insuid", "inssock"}

Local(c) ==
  /\ peer[c] = "none" => pc[c] = "none"
  /\ pc[c] \in Resting => req[c] = NoReq
  /\ pc[c] \in Entering \/ (pc[c] = "notify" /\ req[c] # NoReq) =>
       req[c] # NoReq /\ req[c].op = "login"
  /\ pc[c] \in SendPc => req[c] # NoReq /\ req[c].op = "send"
  /\ pc[c] = "online" => req[c] # NoReq /\ req[c].op = "online"
  /\ pc[c] = "reply" => req[c] # NoReq
  /\ pc[c] \in {"notify", "detach"} \cup (Entering \ {"login"}) \cup (SendPc \ {"lookup"}) =>
       mine[c] \in Blocks
  /\ pc[c] = "erase" => old[c] \in Blocks
  /\ pc[c] = "notify" => subject[c] \in Users
  /\ work[c] # {} => pc[c] = "notify"

(* Every session that can be reached has a user.                             *)
NamedBlocks == {b \in Blocks : session[b].user \in Users}
Reached ==
  /\ uidSession \in [Users -> NamedBlocks \cup {Absent, Null}]
  /\ sockSession \in [Conns -> NamedBlocks \cup {Absent, Null}]
  /\ mine \in [Conns -> NamedBlocks \cup {Null}]

TypeInv == TypeOK /\ Reached /\ \A c \in Conns : Local(c)

(* A message pushed to a connection is what the client may have got.        *)
LEMMA PushType ==
  ASSUME TypeOK, NEW d \in Conns, NEW m \in Pushed, PushMaybeFreed(d, m), fault = "none"
  PROVE  /\ UNCHANGED <<chan, peer, sent, as, listed>>
         /\ got' \in [Conns -> SUBSET Pushed] /\ view' \in [Conns -> SUBSET Users]
         /\ fault' \in {"none", "null", "freed"}
<1>0. got \in [Conns -> SUBSET Pushed] /\ view \in [Conns -> SUBSET Users]
  BY DEF TypeOK
<1>1. CASE UNCHANGED clientVars
  BY <1>0, <1>1 DEF clientVars, PushMaybeFreed, Push, NoFault
<1>2. CASE ~UNCHANGED clientVars
  <2>1. /\ got' = [got EXCEPT ![d] = got[d] \cup {m}]
        /\ view' = [view EXCEPT ![d] = CASE m.kind = "online"  -> view[d] \cup {m.user}
                                           [] m.kind = "offline" -> view[d] \ {m.user}
                                           [] OTHER              -> view[d]]
        /\ UNCHANGED <<chan, peer, sent, as, listed, fault>>
    BY <1>2 DEF PushMaybeFreed, Push, NoFault
  <2>2. m.kind \in {"online", "offline", "chat"} /\ m.user \in Users
    BY DEF Pushed
  <2>3. got' \in [Conns -> SUBSET Pushed]
    BY <1>0, <2>1
  <2>4. \E vs \in SUBSET Users : view' = [view EXCEPT ![d] = vs]
    BY <1>0, <2>1, <2>2
  <2> QED BY <1>0, <2>1, <2>3, <2>4
<1> QED BY <1>1, <1>2

(* A new connection has nothing of its own yet.                              *)
LEMMA AcceptType ==
  ASSUME TypeInv, NEW c \in Conns, Accept(c), ~NullCrash
  PROVE  TypeInv'
<1>1. /\ peer[c] = "none"
      /\ peer' = [peer EXCEPT ![c] = "ready"]
      /\ pc' = [pc EXCEPT ![c] = "recv"]
      /\ UNCHANGED <<uidSession, sockSession, session, freeBlocks, chan, sent, as, view,
                     listed, got, shut, lock, req, mine, old, subject, todo, work, target,
                     list, fault>>
  BY DEF Accept, At, Running, Goto, NoFault, sessionVars, clientVars, localVars
<1>0. TypeOK /\ Reached /\ Local(c) /\ \A d \in Conns : Local(d)
  BY DEF TypeInv
<1>2. TypeOK'
  <2>1. peer' \in [Conns -> {"none", "ready", "waiting", "closed"}]
    BY <1>0, <1>1 DEF TypeOK, SessionTypeOK
  <2>2. pc' \in [Conns -> PC]
    BY <1>0, <1>1 DEF TypeOK, SessionTypeOK, PC
  <2> QED BY <1>0, <1>1, <2>1, <2>2 DEF TypeOK, SessionTypeOK
<1>3. Reached'
  BY <1>0, <1>1 DEF Reached, NamedBlocks, TypeOK, SessionTypeOK
<1>4. Local(c)'
  BY <1>0, <1>1 DEF Local, Resting, Entering, SendPc, TypeOK, SessionTypeOK, PC
<1>5. ASSUME NEW d \in Conns \ {c} PROVE Local(d)'
  <2>1. /\ peer'[d] = peer[d] /\ pc'[d] = pc[d] /\ req'[d] = req[d] /\ mine'[d] = mine[d]
        /\ old'[d] = old[d] /\ subject'[d] = subject[d] /\ work'[d] = work[d]
    BY <1>0, <1>1 DEF TypeOK, SessionTypeOK
  <2> QED BY <1>0, <2>1 DEF Local
<1> QED BY <1>2, <1>3, <1>4, <1>5 DEF TypeInv

(* A client sends one of its requests.                                       *)
LEMMA ClientRequestType ==
  ASSUME TypeInv, NEW c \in Conns, ClientRequest(c), ~NullCrash
  PROVE  TypeInv'
<1>1. /\ peer[c] = "ready"
      /\ sent[c] < MaxReqs
      /\ chan' = [chan EXCEPT ![c] = chan'[c]]
      /\ chan'[c] \in Request
      /\ peer' = [peer EXCEPT ![c] = "waiting"]
      /\ sent' = [sent EXCEPT ![c] = sent[c] + 1]
      /\ UNCHANGED <<uidSession, sockSession, session, freeBlocks, as, view, listed, got,
                     shut, lock, pc, req, mine, old, subject, todo, work, target, list,
                     fault>>
  BY TypeInv, ServerAssumption DEF ClientRequest, At, Running, Goto, NoFault, sessionVars,
     clientVars, localVars, TypeInv, TypeOK
<1>0. TypeOK /\ Reached /\ Local(c) /\ \A d \in Conns : Local(d)
  BY DEF TypeInv
<1>2. sent[c] + 1 \in 0 .. MaxReqs
  BY <1>0, <1>1, ServerAssumption DEF TypeOK
<1>3. TypeOK'
  <2>1. chan' \in [Conns -> Request \cup {NoReq}]
    BY <1>0, <1>1, <1>2 DEF TypeOK, SessionTypeOK
  <2>2. peer' \in [Conns -> {"none", "ready", "waiting", "closed"}]
    BY <1>0, <1>1, <1>2 DEF TypeOK, SessionTypeOK
  <2>3. sent' \in [Conns -> 0 .. MaxReqs]
    BY <1>0, <1>1, <1>2 DEF TypeOK, SessionTypeOK
  <2> QED BY <1>0, <1>1, <2>1, <2>2, <2>3 DEF TypeOK, SessionTypeOK
<1>4. Reached'
  BY <1>0, <1>1, <1>2 DEF Reached, NamedBlocks, TypeOK, SessionTypeOK
<1>5. Local(c)'
  BY <1>0, <1>1, <1>2 DEF Local, Resting, Entering, SendPc, TypeOK, SessionTypeOK, PC
<1>6. ASSUME NEW d \in Conns \ {c} PROVE Local(d)'
  <2>1. /\ peer'[d] = peer[d] /\ pc'[d] = pc[d] /\ req'[d] = req[d] /\ mine'[d] = mine[d]
        /\ old'[d] = old[d] /\ subject'[d] = subject[d] /\ work'[d] = work[d]
    BY <1>0, <1>1 DEF TypeOK, SessionTypeOK
  <2> QED BY <1>0, <2>1 DEF Local
<1> QED BY <1>3, <1>4, <1>5, <1>6 DEF TypeInv

(* A client leaves.                                                          *)
LEMMA ClientCloseType ==
  ASSUME TypeInv, NEW c \in Conns, ClientClose(c), ~NullCrash
  PROVE  TypeInv'
<1>1. /\ peer[c] \in {"ready", "waiting"}
      /\ peer' = [peer EXCEPT ![c] = "closed"]
      /\ UNCHANGED <<uidSession, sockSession, session, freeBlocks, chan, sent, as, view,
                     listed, got, shut, lock, pc, req, mine, old, subject, todo, work,
                     target, list, fault>>
  BY DEF ClientClose, At, Running, Goto, NoFault, sessionVars, clientVars, localVars
<1>0. TypeOK /\ Reached /\ Local(c) /\ \A d \in Conns : Local(d)
  BY DEF TypeInv
<1>2. TypeOK'
  <2>1. peer' \in [Conns -> {"none", "ready", "waiting", "closed"}]
    BY <1>0, <1>1 DEF TypeOK, SessionTypeOK
  <2> QED BY <1>0, <1>1, <2>1 DEF TypeOK, SessionTypeOK
<1>3. Reached'
  BY <1>0, <1>1 DEF Reached, NamedBlocks, TypeOK, SessionTypeOK
<1>4. Local(c)'
  BY <1>0, <1>1 DEF Local, Resting, Entering, SendPc, TypeOK, SessionTypeOK, PC
<1>5. ASSUME NEW d \in Conns \ {c} PROVE Local(d)'
  <2>1. /\ peer'[d] = peer[d] /\ pc'[d] = pc[d] /\ req'[d] = req[d] /\ mine'[d] = mine[d]
        /\ old'[d] = old[d] /\ subject'[d] = subject[d] /\ work'[d] = work[d]
    BY <1>0, <1>1 DEF TypeOK, SessionTypeOK
  <2> QED BY <1>0, <2>1 DEF Local
<1> QED BY <1>2, <1>3, <1>4, <1>5 DEF TypeInv

(* The listener takes the request; its operation decides where it goes.      *)
LEMMA ReceiveType ==
  ASSUME TypeInv, NEW c \in Conns, Receive(c), ~NullCrash
  PROVE  TypeInv'
<1>1. /\ pc[c] = "recv"
      /\ chan[c] \in Request
      /\ lock' = [lock EXCEPT ![c] = c]
      /\ req' = [req EXCEPT ![c] = chan[c]]
      /\ chan' = [chan EXCEPT ![c] = NoReq]
      /\ \/ chan[c].op = "login" /\ pc' = [pc EXCEPT ![c] = "login"]
         \/ chan[c].op = "online" /\ pc' = [pc EXCEPT ![c] = "online"]
         \/ chan[c].op = "send" /\ pc' = [pc EXCEPT ![c] = "lookup"]
         \/ pc' = [pc EXCEPT ![c] = "reply"]
      /\ UNCHANGED <<uidSession, sockSession, session, freeBlocks, peer, sent, as, view,
                     listed, got, shut, mine, old, subject, todo, work, target, list,
                     fault>>
  BY TypeInv, ServerAssumption DEF Receive, At, Running, Goto, NoFault, sessionVars,
     clientVars, localVars, OwnLock, TypeInv, TypeOK
<1>0. TypeOK /\ Reached /\ Local(c) /\ \A d \in Conns : Local(d)
  BY DEF TypeInv
<1>2. TypeOK'
  <2>1. lock' \in [Conns -> Conns \cup {Null}]
    BY <1>0, <1>1 DEF TypeOK, SessionTypeOK
  <2>2. req' \in [Conns -> Request \cup {NoReq}]
    BY <1>0, <1>1 DEF TypeOK, SessionTypeOK
  <2>3. chan' \in [Conns -> Request \cup {NoReq}]
    BY <1>0, <1>1 DEF TypeOK, SessionTypeOK
  <2>4. pc' \in [Conns -> PC]
    BY <1>0, <1>1, ZenonT(60) DEF TypeOK, SessionTypeOK, PC
  <2> QED BY <1>0, <1>1, <2>1, <2>2, <2>3, <2>4 DEF TypeOK, SessionTypeOK
<1>3. Reached'
  BY <1>0, <1>1 DEF Reached, NamedBlocks, TypeOK, SessionTypeOK
<1>4. Local(c)'
  <2>1. /\ pc'[c] \in {"login", "online", "lookup", "reply"}
        /\ pc'[c] = "login" => chan[c].op = "login"
        /\ pc'[c] = "lookup" => chan[c].op = "send"
        /\ pc'[c] = "online" => chan[c].op = "online"
    BY <1>0, <1>1 DEF TypeOK
  <2>2. /\ req'[c] = chan[c] /\ chan[c] # NoReq
        /\ peer'[c] = peer[c] /\ work'[c] = work[c]
    BY <1>0, <1>1, ServerAssumption DEF TypeOK
  <2>3. peer[c] # "none" /\ work[c] = {}
    BY <1>0, <1>1 DEF Local
  <2> QED BY <2>1, <2>2, <2>3 DEF Local, Resting, Entering, SendPc
<1>5. ASSUME NEW d \in Conns \ {c} PROVE Local(d)'
  <2>1. /\ peer'[d] = peer[d] /\ pc'[d] = pc[d] /\ req'[d] = req[d] /\ mine'[d] = mine[d]
        /\ old'[d] = old[d] /\ subject'[d] = subject[d] /\ work'[d] = work[d]
    BY <1>0, <1>1 DEF TypeOK, SessionTypeOK
  <2> QED BY <1>0, <2>1 DEF Local
<1> QED BY <1>2, <1>3, <1>4, <1>5 DEF TypeInv

(* The listener leaves its loop without a request.                           *)
LEMMA ReceiveEofType ==
  ASSUME TypeInv, NEW c \in Conns, ReceiveEof(c), ~NullCrash
  PROVE  TypeInv'
<1>1. /\ pc[c] = "recv"
      /\ pc' = [pc EXCEPT ![c] = "disc"]
      /\ UNCHANGED <<uidSession, sockSession, session, freeBlocks, chan, peer, sent, as,
                     view, listed, got, shut, lock, req, mine, old, subject, todo, work,
                     target, list, fault>>
  BY DEF ReceiveEof, At, Running, Goto, NoFault, sessionVars, clientVars, localVars
<1>0. TypeOK /\ Reached /\ Local(c) /\ \A d \in Conns : Local(d)
  BY DEF TypeInv
<1>2. TypeOK'
  <2>1. pc' \in [Conns -> PC]
    BY <1>0, <1>1 DEF TypeOK, SessionTypeOK, PC
  <2> QED BY <1>0, <1>1, <2>1 DEF TypeOK, SessionTypeOK
<1>3. Reached'
  BY <1>0, <1>1 DEF Reached, NamedBlocks, TypeOK, SessionTypeOK
<1>4. Local(c)'
  BY <1>0, <1>1 DEF Local, Resting, Entering, SendPc, TypeOK, SessionTypeOK, PC
<1>5. ASSUME NEW d \in Conns \ {c} PROVE Local(d)'
  <2>1. /\ peer'[d] = peer[d] /\ pc'[d] = pc[d] /\ req'[d] = req[d] /\ mine'[d] = mine[d]
        /\ old'[d] = old[d] /\ subject'[d] = subject[d] /\ work'[d] = work[d]
    BY <1>0, <1>1 DEF TypeOK, SessionTypeOK
  <2> QED BY <1>0, <2>1 DEF Local
<1> QED BY <1>2, <1>3, <1>4, <1>5 DEF TypeInv

(* The client learns what its request was about.                             *)
LEMMA ReplyType ==
  ASSUME TypeInv, NEW c \in Conns, Reply(c), ~NullCrash
  PROVE  TypeInv'
<1>1. /\ pc[c] = "reply"
      /\ peer' \in {peer, [peer EXCEPT ![c] = "ready"]}
      /\ as' \in {as, [as EXCEPT ![c] = IF req[c].op = "login" THEN req[c].user ELSE as[c]]}
      /\ view' \in {view, [view EXCEPT ![c] = view[c] \cup list[c]]}
      /\ listed' \in {listed, listed \cup {c}}
      /\ lock' = [lock EXCEPT ![c] = Null]
      /\ pc' = [pc EXCEPT ![c] = IF req[c].op = "short" THEN "disc" ELSE "recv"]
      /\ req' = [req EXCEPT ![c] = NoReq]
      /\ mine' = [mine EXCEPT ![c] = Null]
      /\ old' = [old EXCEPT ![c] = Null]
      /\ target' = [target EXCEPT ![c] = Null]
      /\ list' = [list EXCEPT ![c] = {}]
      /\ UNCHANGED <<uidSession, sockSession, session, freeBlocks, chan, sent, got, shut,
                     subject, todo, work, fault>>
  BY DEF Reply, At, Running, Goto, NoFault, sessionVars, clientVars, localVars, Learn,
     Unlock
<1>0. TypeOK /\ Reached /\ Local(c) /\ \A d \in Conns : Local(d)
  BY DEF TypeInv
<1>2. /\ req[c] \in Request /\ (req[c].op = "login" => req[c].user \in Users)
      /\ view[c] \cup list[c] \in SUBSET Users
  BY <1>0, <1>1 DEF TypeOK, Local, Request
<1>3. TypeOK'
  <2>1. peer' \in [Conns -> {"none", "ready", "waiting", "closed"}]
    BY <1>0, <1>1, <1>2 DEF TypeOK, SessionTypeOK
  <2>2. as' \in [Conns -> Users \cup {NoUser}]
    BY <1>0, <1>1, <1>2, ZenonT(60) DEF TypeOK, SessionTypeOK
  <2>3. view' \in [Conns -> SUBSET Users]
    BY <1>0, <1>1, <1>2, ZenonT(60) DEF TypeOK, SessionTypeOK
  <2>4. listed' \in SUBSET Conns
    BY <1>0, <1>1, <1>2 DEF TypeOK, SessionTypeOK
  <2>5. lock' \in [Conns -> Conns \cup {Null}]
    BY <1>0, <1>1, <1>2 DEF TypeOK, SessionTypeOK
  <2>6. pc' \in [Conns -> PC]
    BY <1>0, <1>1, <1>2 DEF TypeOK, SessionTypeOK, PC
  <2>7. req' \in [Conns -> Request \cup {NoReq}]
    BY <1>0, <1>1, <1>2 DEF TypeOK, SessionTypeOK
  <2>8. mine' \in [Conns -> Blocks \cup {Null}]
    BY <1>0, <1>1, <1>2 DEF TypeOK, SessionTypeOK
  <2>9. old' \in [Conns -> Blocks \cup {Null}]
    BY <1>0, <1>1, <1>2 DEF TypeOK, SessionTypeOK
  <2>10. target' \in [Conns -> Conns \cup {Null}]
    BY <1>0, <1>1, <1>2 DEF TypeOK, SessionTypeOK
  <2>11. list' \in [Conns -> SUBSET Users]
    BY <1>0, <1>1, <1>2 DEF TypeOK, SessionTypeOK
  <2> QED BY <1>0, <1>1, <2>1, <2>2, <2>3, <2>4, <2>5, <2>6, <2>7, <2>8, <2>9, <2>10,
             <2>11 DEF TypeOK, SessionTypeOK
<1>4. Reached'
  BY <1>0, <1>1, <1>2 DEF Reached, NamedBlocks, TypeOK, SessionTypeOK
<1>5. Local(c)'
  BY <1>0, <1>1, <1>2 DEF Local, Resting, Entering, SendPc, TypeOK, SessionTypeOK, PC
<1>6. ASSUME NEW d \in Conns \ {c} PROVE Local(d)'
  <2>1. /\ peer'[d] = peer[d] /\ pc'[d] = pc[d] /\ req'[d] = req[d] /\ mine'[d] = mine[d]
        /\ old'[d] = old[d] /\ subject'[d] = subject[d] /\ work'[d] = work[d]
    BY <1>0, <1>1 DEF TypeOK, SessionTypeOK
  <2> QED BY <1>0, <2>1 DEF Local
<1> QED BY <1>3, <1>4, <1>5, <1>6 DEF TypeInv

(* The next connection gets a worker, or is the subject's own.               *)
LEMMA VisitNextType ==
  ASSUME TypeInv, NEW c \in Conns, VisitNext(c), ~NullCrash
  PROVE  TypeInv'
<1>1. /\ pc[c] = "notify"
      /\ todo[c] # <<>>
      /\ todo' = [todo EXCEPT ![c] = Tail(todo[c])]
      /\ \/ work' = work
         \/ /\ Head(todo[c]) # Null
            /\ work' = [work EXCEPT ![c] = work[c] \cup {Head(todo[c])}]
      /\ UNCHANGED <<uidSession, sockSession, session, freeBlocks, chan, peer, sent, as,
                     view, listed, got, shut, lock, pc, req, mine, old, subject, target,
                     list, fault>>
  BY TypeInv, SessionAssumption, ZenonT(60) DEF VisitNext, At, Running, Goto, NoFault, sessionVars,
     clientVars, localVars, TypeInv, TypeOK
<1>0. TypeOK /\ Reached /\ Local(c) /\ \A d \in Conns : Local(d)
  BY DEF TypeInv
<1>2. Tail(todo[c]) \in Seq(Conns \cup {Null}) /\ Head(todo[c]) \in Conns \cup {Null}
  BY <1>0, <1>1 DEF TypeOK
<1>3. TypeOK'
  <2>1. work' \in [Conns -> SUBSET Conns]
    <3>1. CASE work' = work
      BY <1>0, <3>1 DEF TypeOK
    <3>2. CASE /\ Head(todo[c]) # Null
               /\ work' = [work EXCEPT ![c] = work[c] \cup {Head(todo[c])}]
      <4>1. work[c] \cup {Head(todo[c])} \in SUBSET Conns
        BY <1>0, <1>2, <3>2 DEF TypeOK
      <4> QED BY <1>0, <3>2, <4>1 DEF TypeOK
    <3> QED BY <1>1, <3>1, <3>2
  <2>2. todo' \in [Conns -> Seq(Conns \cup {Null})]
    BY <1>0, <1>1, <1>2 DEF TypeOK, SessionTypeOK
  <2> QED BY <1>0, <1>1, <2>1, <2>2 DEF TypeOK, SessionTypeOK
<1>4. Reached'
  BY <1>0, <1>1, <1>2 DEF Reached, NamedBlocks, TypeOK, SessionTypeOK
<1>5. Local(c)'
  BY <1>0, <1>1, <1>2 DEF Local, Resting, Entering, SendPc, TypeOK, SessionTypeOK, PC
<1>6. ASSUME NEW d \in Conns \ {c} PROVE Local(d)'
  <2>1. /\ peer'[d] = peer[d] /\ pc'[d] = pc[d] /\ req'[d] = req[d] /\ mine'[d] = mine[d]
        /\ old'[d] = old[d] /\ subject'[d] = subject[d] /\ work'[d] = work[d]
    BY <1>0, <1>1 DEF TypeOK, SessionTypeOK
  <2> QED BY <1>0, <2>1 DEF Local
<1> QED BY <1>3, <1>4, <1>5, <1>6 DEF TypeInv

(* All notices are out.                                                      *)
LEMMA JoinedType ==
  ASSUME TypeInv, NEW c \in Conns, Joined(c), ~NullCrash
  PROVE  TypeInv'
<1>1. /\ pc[c] = "notify"
      /\ work[c] = {}
      /\ pc' = [pc EXCEPT ![c] = IF req[c] # NoReq THEN "replace" ELSE "detach"]
      /\ subject' = [subject EXCEPT ![c] = NoUser]
      /\ UNCHANGED <<uidSession, sockSession, session, freeBlocks, chan, peer, sent, as,
                     view, listed, got, shut, lock, req, mine, old, todo, work, target,
                     list, fault>>
  BY DEF Joined, At, Running, Goto, NoFault, sessionVars, clientVars, localVars, WorkersDone
<1>0. TypeOK /\ Reached /\ Local(c) /\ \A d \in Conns : Local(d)
  BY DEF TypeInv
<1>2. TypeOK'
  <2>1. pc' \in [Conns -> PC]
    BY <1>0, <1>1 DEF TypeOK, SessionTypeOK, PC
  <2>2. subject' \in [Conns -> Users \cup {NoUser}]
    BY <1>0, <1>1 DEF TypeOK, SessionTypeOK
  <2> QED BY <1>0, <1>1, <2>1, <2>2 DEF TypeOK, SessionTypeOK
<1>3. Reached'
  BY <1>0, <1>1 DEF Reached, NamedBlocks, TypeOK, SessionTypeOK
<1>4. Local(c)'
  BY <1>0, <1>1 DEF Local, Resting, Entering, SendPc, TypeOK, SessionTypeOK, PC
<1>5. ASSUME NEW d \in Conns \ {c} PROVE Local(d)'
  <2>1. /\ peer'[d] = peer[d] /\ pc'[d] = pc[d] /\ req'[d] = req[d] /\ mine'[d] = mine[d]
        /\ old'[d] = old[d] /\ subject'[d] = subject[d] /\ work'[d] = work[d]
    BY <1>0, <1>1 DEF TypeOK, SessionTypeOK
  <2> QED BY <1>0, <2>1 DEF Local
<1> QED BY <1>2, <1>3, <1>4, <1>5 DEF TypeInv

(* A free block becomes the session of the user who logs in.                 *)
LEMMA LoginType ==
  ASSUME TypeInv, NEW c \in Conns, Login(c), ~NullCrash
  PROVE  TypeInv'
<1>1. /\ pc[c] = "login"
      /\ mine' = [mine EXCEPT ![c] = Head(freeBlocks)]
      /\ freeBlocks # <<>> /\ freeBlocks' = Tail(freeBlocks)
      /\ session' = [session EXCEPT ![Head(freeBlocks)] = NewSession(c, req[c].user)]
      /\ subject' = [subject EXCEPT ![c] = req[c].user]
      /\ todo' = [todo EXCEPT ![c] = OnlineConnections(session)]
      /\ pc' = [pc EXCEPT ![c] = "notify"]
      /\ UNCHANGED <<uidSession, sockSession, chan, peer, sent, as, view, listed, got, shut,
                     lock, req, old, work, target, list, fault>>
  BY DEF Login, At, Running, Goto, NoFault, sessionVars, clientVars, localVars, StartNotices
<1>0. TypeOK /\ Reached /\ Local(c) /\ \A d \in Conns : Local(d)
  BY DEF TypeInv
<1>2. /\ Head(freeBlocks) \in Blocks /\ Tail(freeBlocks) \in Seq(Blocks)
      /\ req[c].user \in Users /\ NewSession(c, req[c].user) \in Session
      /\ OnlineConnections(session) \in Seq(Conns \cup {Null})
  <2>1. req[c] \in Request /\ req[c].op = "login"
    BY <1>0, <1>1 DEF TypeOK, Local, Entering
  <2>2. req[c].user \in Users
    BY <2>1 DEF Request
  <2>3. freeBlocks \in Seq(Blocks) /\ session \in [Blocks -> Session] /\ freeBlocks # <<>>
    BY <1>0, <1>1 DEF TypeOK, SessionTypeOK
  <2>4. Head(freeBlocks) \in Blocks /\ Tail(freeBlocks) \in Seq(Blocks)
    BY <2>3
  <2>5. NewSession(c, req[c].user) \in Session
    BY <2>2 DEF NewSession, Session
  <2>6. OnlineConnections(session) \in Seq(Conns \cup {Null})
    BY <2>3, ConnectionsOf
  <2> QED BY <2>2, <2>4, <2>5, <2>6
<1>3. TypeOK'
  <2>1. mine' \in [Conns -> Blocks \cup {Null}]
    BY <1>0, <1>1, <1>2 DEF TypeOK, SessionTypeOK
  <2>2. freeBlocks' \in Seq(Blocks)
    BY <1>0, <1>1, <1>2 DEF TypeOK, SessionTypeOK
  <2>3. session' \in [Blocks -> Session]
    BY <1>0, <1>1, <1>2 DEF TypeOK, SessionTypeOK
  <2>4. subject' \in [Conns -> Users \cup {NoUser}]
    BY <1>0, <1>1, <1>2 DEF TypeOK, SessionTypeOK
  <2>5. todo' \in [Conns -> Seq(Conns \cup {Null})]
    BY <1>0, <1>1, <1>2 DEF TypeOK, SessionTypeOK
  <2>6. pc' \in [Conns -> PC]
    BY <1>0, <1>1, <1>2 DEF TypeOK, SessionTypeOK, PC
  <2> QED BY <1>0, <1>1, <2>1, <2>2, <2>3, <2>4, <2>5, <2>6 DEF TypeOK, SessionTypeOK
<1>4. Reached'
  <2>1. Head(freeBlocks) \in NamedBlocks'
    BY <1>0, <1>1, <1>2 DEF NamedBlocks, NewSession, TypeOK, SessionTypeOK
  <2>2. \A b \in NamedBlocks : b \in NamedBlocks'
    BY <1>0, <1>1, <1>2 DEF NamedBlocks, NewSession, TypeOK, SessionTypeOK
  <2>3. uidSession' = uidSession /\ sockSession' = sockSession
        /\ mine' = [mine EXCEPT ![c] = Head(freeBlocks)]
    BY <1>1
  <2> QED BY <1>0, <2>1, <2>2, <2>3 DEF Reached
<1>5. Local(c)'
  BY <1>0, <1>1, <1>2 DEF Local, Resting, Entering, SendPc, TypeOK, SessionTypeOK, PC
<1>6. ASSUME NEW d \in Conns \ {c} PROVE Local(d)'
  <2>1. /\ peer'[d] = peer[d] /\ pc'[d] = pc[d] /\ req'[d] = req[d] /\ mine'[d] = mine[d]
        /\ old'[d] = old[d] /\ subject'[d] = subject[d] /\ work'[d] = work[d]
    BY <1>0, <1>1 DEF TypeOK, SessionTypeOK
  <2> QED BY <1>0, <2>1 DEF Local
<1> QED BY <1>3, <1>4, <1>5, <1>6 DEF TypeInv

(* The block of an earlier session is given back.                            *)
LEMMA ReplaceType ==
  ASSUME TypeInv, NEW c \in Conns, Replace(c), ~NullCrash
  PROVE  TypeInv'
<1>1. /\ pc[c] = "replace"
      /\ pc' = [pc EXCEPT ![c] = pc'[c]] /\ pc'[c] \in {"insuid", "erase"}
      /\ old' = [old EXCEPT ![c] = old'[c]]
      /\ old'[c] \in Blocks \cup {Null}
      /\ pc'[c] = "erase" => old'[c] \in Blocks
      /\ freeBlocks' \in Seq(Blocks)
      /\ shut' \in SUBSET Conns
      /\ UNCHANGED <<uidSession, sockSession, session, chan, peer, sent, as, view, listed,
                     got, lock, req, mine, subject, todo, work, target, list, fault>>
  <2>1. PICK b \in Blocks \cup {Absent, Null} : b = uidSession[req[c].user]
    <3>1. req[c] \in Request /\ req[c].op = "login"
      BY DEF Replace, At, TypeInv, TypeOK, Local, Entering
    <3>2. req[c].user \in Users
      BY <3>1 DEF Request
    <3> QED BY <3>2 DEF TypeInv, TypeOK, SessionTypeOK
  <2>2. /\ freeBlocks \in Seq(Blocks) /\ shut \in SUBSET Conns
        /\ pc \in [Conns -> PC] /\ old \in [Conns -> Blocks \cup {Null}]
        /\ session \in [Blocks -> Session]
    BY DEF TypeInv, TypeOK, SessionTypeOK
  <2>3. CASE b = Absent
    <3>1. /\ pc[c] = "replace" /\ pc' = [pc EXCEPT ![c] = "insuid"]
          /\ UNCHANGED <<sessionVars, clientVars, shut, lock, localVars, fault>>
      BY <2>1, <2>3 DEF Replace, At, Goto
    <3> QED BY <2>2, <3>1 DEF sessionVars, clientVars, localVars
  <2>4. CASE b # Absent
    <3>1. b # Null
      BY <2>1, <2>4 DEF Replace
    <3>2. /\ pc[c] = "replace" /\ pc' = [pc EXCEPT ![c] = "erase"]
          /\ CloseSocket(b) /\ freeBlocks' = <<b>> \o freeBlocks
          /\ old' = [old EXCEPT ![c] = b]
          /\ UNCHANGED <<uidSession, sockSession, session, clientVars, lock, req,
                         mine, subject, todo, work, target, list, fault>>
      BY <2>1, <2>4, <3>1 DEF Replace, At, Goto
    <3>3. b \in Blocks
      BY <2>1, <2>4, <3>1
    <3>4. freeBlocks' \in Seq(Blocks)
      BY <2>2, <3>2, <3>3
    <3>5. shut' \in SUBSET Conns
      BY <2>2, <3>2, <3>3 DEF CloseSocket, ConnOf, Session
    <3> QED BY <2>2, <3>2, <3>3, <3>4, <3>5 DEF clientVars
  <2> QED BY <2>3, <2>4
<1>0. TypeOK /\ Reached /\ Local(c) /\ \A d \in Conns : Local(d)
  BY DEF TypeInv
<1>2. TypeOK'
  <2>1. freeBlocks' \in Seq(Blocks)
    BY <1>0, <1>1 DEF TypeOK, SessionTypeOK
  <2>2. old' \in [Conns -> Blocks \cup {Null}]
    BY <1>0, <1>1 DEF TypeOK, SessionTypeOK
  <2>3. shut' \in SUBSET Conns
    BY <1>0, <1>1 DEF TypeOK, SessionTypeOK
  <2>4. pc' \in [Conns -> PC]
    BY <1>0, <1>1, ZenonT(60) DEF TypeOK, SessionTypeOK, PC
  <2> QED BY <1>0, <1>1, <2>1, <2>2, <2>3, <2>4 DEF TypeOK, SessionTypeOK
<1>3. Reached'
  BY <1>0, <1>1 DEF Reached, NamedBlocks, TypeOK, SessionTypeOK
<1>4. Local(c)'
  <2>1. /\ req'[c] = req[c] /\ mine'[c] = mine[c] /\ work'[c] = work[c]
        /\ peer'[c] = peer[c]
    BY <1>1
  <2> QED BY <1>0, <1>1, <2>1 DEF Local, Resting, Entering, SendPc
<1>5. ASSUME NEW d \in Conns \ {c} PROVE Local(d)'
  <2>1. /\ peer'[d] = peer[d] /\ pc'[d] = pc[d] /\ req'[d] = req[d] /\ mine'[d] = mine[d]
        /\ old'[d] = old[d] /\ subject'[d] = subject[d] /\ work'[d] = work[d]
    BY <1>0, <1>1 DEF TypeOK, SessionTypeOK
  <2> QED BY <1>0, <2>1 DEF Local
<1> QED BY <1>2, <1>3, <1>4, <1>5 DEF TypeInv

(* Both maps forget the earlier session.                                     *)
LEMMA EraseOldType ==
  ASSUME TypeInv, NEW c \in Conns, EraseOld(c), ~NullCrash
  PROVE  TypeInv'
<1>1. /\ pc[c] = "erase"
      /\ uidSession' = [uidSession EXCEPT ![req[c].user] = Absent]
      /\ \/ sockSession' = sockSession
         \/ sockSession' = [sockSession EXCEPT ![ConnOf(old[c])] = Absent]
      /\ pc' = [pc EXCEPT ![c] = "insuid"]
      /\ UNCHANGED <<session, freeBlocks, chan, peer, sent, as, view, listed, got, shut,
                     lock, req, mine, old, subject, todo, work, target, list, fault>>
  BY DEF EraseOld, At, Running, Goto, NoFault, sessionVars, clientVars, localVars, Erase
<1>0. TypeOK /\ Reached /\ Local(c) /\ \A d \in Conns : Local(d)
  BY DEF TypeInv
<1>2. TypeOK'
  <2>1. uidSession' \in [Users -> Blocks \cup {Absent, Null}]
    BY <1>0, <1>1 DEF TypeOK, SessionTypeOK
  <2>2. sockSession' \in [Conns -> Blocks \cup {Absent, Null}]
    BY <1>0, <1>1 DEF TypeOK, SessionTypeOK
  <2>3. pc' \in [Conns -> PC]
    BY <1>0, <1>1 DEF TypeOK, SessionTypeOK, PC
  <2> QED BY <1>0, <1>1, <2>1, <2>2, <2>3 DEF TypeOK, SessionTypeOK
<1>3. Reached'
  BY <1>0, <1>1 DEF Reached, NamedBlocks, TypeOK, SessionTypeOK
<1>4. Local(c)'
  BY <1>0, <1>1 DEF Local, Resting, Entering, SendPc, TypeOK, SessionTypeOK, PC
<1>5. ASSUME NEW d \in Conns \ {c} PROVE Local(d)'
  <2>1. /\ peer'[d] = peer[d] /\ pc'[d] = pc[d] /\ req'[d] = req[d] /\ mine'[d] = mine[d]
        /\ old'[d] = old[d] /\ subject'[d] = subject[d] /\ work'[d] = work[d]
    BY <1>0, <1>1 DEF TypeOK, SessionTypeOK
  <2> QED BY <1>0, <2>1 DEF Local
<1> QED BY <1>2, <1>3, <1>4, <1>5 DEF TypeInv

(* The user map gets the new session, unless it has an entry.                *)
LEMMA InsertUidType ==
  ASSUME TypeInv, NEW c \in Conns, InsertUid(c), ~NullCrash
  PROVE  TypeInv'
<1>1. /\ pc[c] = "insuid"
      /\ uidSession' \in {uidSession, [uidSession EXCEPT ![req[c].user] = mine[c]]}
      /\ pc' = [pc EXCEPT ![c] = "inssock"]
      /\ UNCHANGED <<sockSession, session, freeBlocks, chan, peer, sent, as, view, listed,
                     got, shut, lock, req, mine, old, subject, todo, work, target, list,
                     fault>>
  BY TypeInv DEF InsertUid, At, Running, Goto, NoFault, sessionVars, clientVars,
     localVars, TypeInv, TypeOK, SessionTypeOK, Local, Entering, Request, Insert
<1>0. TypeOK /\ Reached /\ Local(c) /\ \A d \in Conns : Local(d)
  BY DEF TypeInv
<1>2. mine[c] \in Blocks
  BY <1>0, <1>1 DEF Local, Entering
<1>3. TypeOK'
  <2>1. uidSession' \in [Users -> Blocks \cup {Absent, Null}]
    BY <1>0, <1>1, <1>2 DEF TypeOK, SessionTypeOK
  <2>2. pc' \in [Conns -> PC]
    BY <1>0, <1>1, <1>2 DEF TypeOK, SessionTypeOK, PC
  <2> QED BY <1>0, <1>1, <2>1, <2>2 DEF TypeOK, SessionTypeOK
<1>4. Reached'
  BY <1>0, <1>1, <1>2 DEF Reached, NamedBlocks, TypeOK, SessionTypeOK
<1>5. Local(c)'
  BY <1>0, <1>1, <1>2 DEF Local, Resting, Entering, SendPc, TypeOK, SessionTypeOK, PC
<1>6. ASSUME NEW d \in Conns \ {c} PROVE Local(d)'
  <2>1. /\ peer'[d] = peer[d] /\ pc'[d] = pc[d] /\ req'[d] = req[d] /\ mine'[d] = mine[d]
        /\ old'[d] = old[d] /\ subject'[d] = subject[d] /\ work'[d] = work[d]
    BY <1>0, <1>1 DEF TypeOK, SessionTypeOK
  <2> QED BY <1>0, <2>1 DEF Local
<1> QED BY <1>3, <1>4, <1>5, <1>6 DEF TypeInv

(* So does the socket map.                                                   *)
LEMMA InsertSockType ==
  ASSUME TypeInv, NEW c \in Conns, InsertSock(c), ~NullCrash
  PROVE  TypeInv'
<1>1. /\ pc[c] = "inssock"
      /\ sockSession' \in {sockSession, [sockSession EXCEPT ![c] = mine[c]]}
      /\ pc' = [pc EXCEPT ![c] = "reply"]
      /\ UNCHANGED <<uidSession, session, freeBlocks, chan, peer, sent, as, view, listed,
                     got, shut, lock, req, mine, old, subject, todo, work, target, list,
                     fault>>
  BY TypeInv DEF InsertSock, At, Running, Goto, NoFault, sessionVars, clientVars,
     localVars, TypeInv, TypeOK, SessionTypeOK, Insert
<1>0. TypeOK /\ Reached /\ Local(c) /\ \A d \in Conns : Local(d)
  BY DEF TypeInv
<1>2. mine[c] \in Blocks
  BY <1>0, <1>1 DEF Local, Entering
<1>3. TypeOK'
  <2>1. sockSession' \in [Conns -> Blocks \cup {Absent, Null}]
    BY <1>0, <1>1, <1>2 DEF TypeOK, SessionTypeOK
  <2>2. pc' \in [Conns -> PC]
    BY <1>0, <1>1, <1>2 DEF TypeOK, SessionTypeOK, PC
  <2> QED BY <1>0, <1>1, <2>1, <2>2 DEF TypeOK, SessionTypeOK
<1>4. Reached'
  BY <1>0, <1>1, <1>2 DEF Reached, NamedBlocks, TypeOK, SessionTypeOK
<1>5. Local(c)'
  BY <1>0, <1>1, <1>2 DEF Local, Resting, Entering, SendPc, TypeOK, SessionTypeOK, PC
<1>6. ASSUME NEW d \in Conns \ {c} PROVE Local(d)'
  <2>1. /\ peer'[d] = peer[d] /\ pc'[d] = pc[d] /\ req'[d] = req[d] /\ mine'[d] = mine[d]
        /\ old'[d] = old[d] /\ subject'[d] = subject[d] /\ work'[d] = work[d]
    BY <1>0, <1>1 DEF TypeOK, SessionTypeOK
  <2> QED BY <1>0, <2>1 DEF Local
<1> QED BY <1>3, <1>4, <1>5, <1>6 DEF TypeInv

(* The list has users only.                                                  *)
LEMMA GetOnlineType ==
  ASSUME TypeInv, NEW c \in Conns, GetOnline(c), ~NullCrash
  PROVE  TypeInv'
<1>1. /\ pc[c] = "online"
      /\ list' = [list EXCEPT ![c] = OnlineUsers(session)]
      /\ pc' = [pc EXCEPT ![c] = "reply"]
      /\ UNCHANGED <<uidSession, sockSession, session, freeBlocks, chan, peer, sent, as,
                     view, listed, got, shut, lock, req, mine, old, subject, todo, work,
                     target, fault>>
  BY DEF GetOnline, At, Running, Goto, NoFault, sessionVars, clientVars, localVars
<1>0. TypeOK /\ Reached /\ Local(c) /\ \A d \in Conns : Local(d)
  BY DEF TypeInv
<1>2. OnlineUsers(session) \in SUBSET Users
  BY DEF OnlineUsers
<1>3. TypeOK'
  <2>1. list' \in [Conns -> SUBSET Users]
    BY <1>0, <1>1, <1>2 DEF TypeOK, SessionTypeOK
  <2>2. pc' \in [Conns -> PC]
    BY <1>0, <1>1, <1>2 DEF TypeOK, SessionTypeOK, PC
  <2> QED BY <1>0, <1>1, <2>1, <2>2 DEF TypeOK, SessionTypeOK
<1>4. Reached'
  BY <1>0, <1>1, <1>2 DEF Reached, NamedBlocks, TypeOK, SessionTypeOK
<1>5. Local(c)'
  BY <1>0, <1>1, <1>2 DEF Local, Resting, Entering, SendPc, TypeOK, SessionTypeOK, PC
<1>6. ASSUME NEW d \in Conns \ {c} PROVE Local(d)'
  <2>1. /\ peer'[d] = peer[d] /\ pc'[d] = pc[d] /\ req'[d] = req[d] /\ mine'[d] = mine[d]
        /\ old'[d] = old[d] /\ subject'[d] = subject[d] /\ work'[d] = work[d]
    BY <1>0, <1>1 DEF TypeOK, SessionTypeOK
  <2> QED BY <1>0, <2>1 DEF Local
<1> QED BY <1>3, <1>4, <1>5, <1>6 DEF TypeInv

(* The addressee's entry is read, or made null.                              *)
LEMMA LookupType ==
  ASSUME TypeInv, NEW c \in Conns, Lookup(c), ~NullCrash
  PROVE  TypeInv'
<1>1. /\ pc[c] = "lookup"
      /\ pc' = [pc EXCEPT ![c] = pc'[c]] /\ pc'[c] \in {"reply", "golock"}
      /\ mine' = [mine EXCEPT ![c] = mine'[c]]
      /\ mine'[c] \in NamedBlocks \cup {Null}
      /\ pc'[c] = "golock" => mine'[c] \in NamedBlocks
      /\ uidSession' \in {uidSession, [uidSession EXCEPT ![req[c].to] = Null]}
      /\ UNCHANGED <<sockSession, session, freeBlocks, chan, peer, sent, as, view, listed,
                     got, shut, lock, req, old, subject, todo, work, target, list, fault>>
  <2>1. PICK b \in NamedBlocks \cup {Absent, Null} : b = SessionByUid(req[c].to)
    <3>1. req[c] \in Request /\ req[c].op = "send"
      BY DEF Lookup, At, TypeInv, TypeOK, Local, SendPc
    <3>2. req[c].to \in Users
      BY <3>1 DEF Request
    <3> QED BY <3>2 DEF TypeInv, Reached, SessionByUid
  <2>2. pc \in [Conns -> PC] /\ mine \in [Conns -> NamedBlocks \cup {Null}]
        /\ uidSession \in [Users -> Blocks \cup {Absent, Null}]
    BY DEF TypeInv, TypeOK, Reached, SessionTypeOK
  <2>3. uidSession' \in {uidSession, [uidSession EXCEPT ![req[c].to] = Null]}
    BY <2>2 DEF Lookup, Touch, Insert
  <2>4. /\ pc[c] = "lookup"
        /\ \/ /\ pc' = [pc EXCEPT ![c] = "reply"]
              /\ mine' = mine
           \/ /\ b \in NamedBlocks
              /\ pc' = [pc EXCEPT ![c] = "golock"]
              /\ mine' = [mine EXCEPT ![c] = b]
        /\ UNCHANGED <<sockSession, session, freeBlocks, clientVars, shut, lock, req, old,
                        subject, todo, work, target, list, fault>>
    BY <2>1 DEF Lookup, At, Goto
  <2>5. mine' = [mine EXCEPT ![c] = mine'[c]] /\ mine'[c] \in NamedBlocks \cup {Null}
    BY <2>2, <2>4
  <2>6. pc' = [pc EXCEPT ![c] = pc'[c]] /\ pc'[c] \in {"reply", "golock"}
        /\ (pc'[c] = "golock" => mine'[c] \in NamedBlocks)
    BY <2>2, <2>4
  <2> QED BY <2>3, <2>4, <2>5, <2>6 DEF clientVars
<1>0. TypeOK /\ Reached /\ Local(c) /\ \A d \in Conns : Local(d)
  BY DEF TypeInv
<1>2. NamedBlocks \subseteq Blocks
  BY DEF NamedBlocks
<1>3. TypeOK'
  <2>1. uidSession' \in [Users -> Blocks \cup {Absent, Null}]
    BY <1>0, <1>1, <1>2 DEF TypeOK, SessionTypeOK
  <2>2. mine' \in [Conns -> Blocks \cup {Null}]
    BY <1>0, <1>1 DEF TypeOK, NamedBlocks
  <2>3. pc' \in [Conns -> PC]
    BY <1>0, <1>1, <1>2, ZenonT(60) DEF TypeOK, SessionTypeOK, PC
  <2> QED BY <1>0, <1>1, <2>1, <2>2, <2>3 DEF TypeOK, SessionTypeOK
<1>4. Reached'
  <2>1. NamedBlocks' = NamedBlocks
    BY <1>1 DEF NamedBlocks
  <2>2. uidSession' \in [Users -> NamedBlocks' \cup {Absent, Null}]
    BY <1>0, <1>1, <2>1 DEF Reached
  <2>3. mine' \in [Conns -> NamedBlocks' \cup {Null}]
    BY <1>0, <1>1, <2>1 DEF Reached
  <2> QED BY <1>0, <1>1, <2>1, <2>2, <2>3 DEF Reached
<1>5. Local(c)'
  <2>1. /\ req'[c] = req[c] /\ work'[c] = work[c] /\ peer'[c] = peer[c]
    BY <1>1
  <2> QED BY <1>0, <1>1, <2>1, <1>2 DEF Local, Resting, Entering, SendPc
<1>6. ASSUME NEW d \in Conns \ {c} PROVE Local(d)'
  <2>1. /\ peer'[d] = peer[d] /\ pc'[d] = pc[d] /\ req'[d] = req[d] /\ mine'[d] = mine[d]
        /\ old'[d] = old[d] /\ subject'[d] = subject[d] /\ work'[d] = work[d]
    BY <1>0, <1>1 DEF TypeOK, SessionTypeOK
  <2> QED BY <1>0, <2>1 DEF Local
<1> QED BY <1>3, <1>4, <1>5, <1>6 DEF TypeInv

(* The connection of the session is read.                                    *)
LEMMA GoLockType ==
  ASSUME TypeInv, NEW c \in Conns, GoLock(c), ~NullCrash
  PROVE  TypeInv'
<1>1. /\ pc[c] = "golock"
      /\ \E d \in Conns : target' = [target EXCEPT ![c] = d]
      /\ pc' = [pc EXCEPT ![c] = "waitlock"]
      /\ UNCHANGED <<uidSession, sockSession, session, freeBlocks, chan, peer, sent, as,
                     view, listed, got, shut, lock, req, mine, old, subject, todo, work,
                     list, fault>>
  <2>1. pc[c] = "golock"
    BY DEF GoLock, At
  <2>2. mine[c] \in Blocks
    BY <2>1 DEF TypeInv, Local, SendPc
  <2>3. session[mine[c]] \in Session
    BY <2>2 DEF TypeInv, TypeOK, SessionTypeOK
  <2>4. PICK d : d = ConnOf(mine[c])
    OBVIOUS
  <2>5. d \in Conns \cup {Null}
    BY <2>3, <2>4 DEF Session, ConnOf
  <2>6. d # Null /\ target' = [target EXCEPT ![c] = d]
    BY <2>4 DEF GoLock
  <2> QED
    BY <2>1, <2>4, <2>5, <2>6 DEF GoLock, Goto, sessionVars, clientVars
<1>0. TypeOK /\ Reached /\ Local(c) /\ \A d \in Conns : Local(d)
  BY DEF TypeInv
<1>2. TypeOK'
  <2>1. target' \in [Conns -> Conns \cup {Null}]
    BY <1>0, <1>1 DEF TypeOK, SessionTypeOK
  <2>2. pc' \in [Conns -> PC]
    BY <1>0, <1>1 DEF TypeOK, SessionTypeOK, PC
  <2> QED BY <1>0, <1>1, <2>1, <2>2 DEF TypeOK, SessionTypeOK
<1>3. Reached'
  BY <1>0, <1>1 DEF Reached, NamedBlocks, TypeOK, SessionTypeOK
<1>4. Local(c)'
  BY <1>0, <1>1 DEF Local, Resting, Entering, SendPc, TypeOK, SessionTypeOK, PC
<1>5. ASSUME NEW d \in Conns \ {c} PROVE Local(d)'
  <2>1. /\ peer'[d] = peer[d] /\ pc'[d] = pc[d] /\ req'[d] = req[d] /\ mine'[d] = mine[d]
        /\ old'[d] = old[d] /\ subject'[d] = subject[d] /\ work'[d] = work[d]
    BY <1>0, <1>1 DEF TypeOK, SessionTypeOK
  <2> QED BY <1>0, <2>1 DEF Local
<1> QED BY <1>2, <1>3, <1>4, <1>5 DEF TypeInv

(* The mutex of the addressee is taken.                                      *)
LEMMA WaitLockType ==
  ASSUME TypeInv, NEW c \in Conns, WaitLock(c), ~NullCrash
  PROVE  TypeInv'
<1>1. /\ pc[c] = "waitlock"
      /\ lock' = [lock EXCEPT ![target[c]] = c]
      /\ pc' = [pc EXCEPT ![c] = "push"]
      /\ UNCHANGED <<uidSession, sockSession, session, freeBlocks, chan, peer, sent, as,
                     view, listed, got, shut, req, mine, old, subject, todo, work, target,
                     list, fault>>
  BY DEF WaitLock, At, Running, Goto, NoFault, sessionVars, clientVars, localVars
<1>0. TypeOK /\ Reached /\ Local(c) /\ \A d \in Conns : Local(d)
  BY DEF TypeInv
<1>2. TypeOK'
  <2>1. lock' \in [Conns -> Conns \cup {Null}]
    BY <1>0, <1>1 DEF TypeOK, SessionTypeOK
  <2>2. pc' \in [Conns -> PC]
    BY <1>0, <1>1 DEF TypeOK, SessionTypeOK, PC
  <2> QED BY <1>0, <1>1, <2>1, <2>2 DEF TypeOK, SessionTypeOK
<1>3. Reached'
  BY <1>0, <1>1 DEF Reached, NamedBlocks, TypeOK, SessionTypeOK
<1>4. Local(c)'
  BY <1>0, <1>1 DEF Local, Resting, Entering, SendPc, TypeOK, SessionTypeOK, PC
<1>5. ASSUME NEW d \in Conns \ {c} PROVE Local(d)'
  <2>1. /\ peer'[d] = peer[d] /\ pc'[d] = pc[d] /\ req'[d] = req[d] /\ mine'[d] = mine[d]
        /\ old'[d] = old[d] /\ subject'[d] = subject[d] /\ work'[d] = work[d]
    BY <1>0, <1>1 DEF TypeOK, SessionTypeOK
  <2> QED BY <1>0, <2>1 DEF Local
<1> QED BY <1>2, <1>3, <1>4, <1>5 DEF TypeInv

(* A mutex is released.                                                      *)
LEMMA UnPushType ==
  ASSUME TypeInv, NEW c \in Conns, UnPush(c), ~NullCrash
  PROVE  TypeInv'
<1>1. /\ pc[c] = "unpush"
      /\ lock' = [lock EXCEPT ![ConnOf(mine[c])] = Null]
      /\ pc' = [pc EXCEPT ![c] = "reply"]
      /\ UNCHANGED <<uidSession, sockSession, session, freeBlocks, chan, peer, sent, as,
                     view, listed, got, shut, req, mine, old, subject, todo, work, target,
                     list, fault>>
  BY DEF UnPush, At, Running, Goto, NoFault, sessionVars, clientVars, localVars, Unlock
<1>0. TypeOK /\ Reached /\ Local(c) /\ \A d \in Conns : Local(d)
  BY DEF TypeInv
<1>2. TypeOK'
  <2>1. lock' \in [Conns -> Conns \cup {Null}]
    BY <1>0, <1>1 DEF TypeOK, SessionTypeOK
  <2>2. pc' \in [Conns -> PC]
    BY <1>0, <1>1 DEF TypeOK, SessionTypeOK, PC
  <2> QED BY <1>0, <1>1, <2>1, <2>2 DEF TypeOK, SessionTypeOK
<1>3. Reached'
  BY <1>0, <1>1 DEF Reached, NamedBlocks, TypeOK, SessionTypeOK
<1>4. Local(c)'
  BY <1>0, <1>1 DEF Local, Resting, Entering, SendPc, TypeOK, SessionTypeOK, PC
<1>5. ASSUME NEW d \in Conns \ {c} PROVE Local(d)'
  <2>1. /\ peer'[d] = peer[d] /\ pc'[d] = pc[d] /\ req'[d] = req[d] /\ mine'[d] = mine[d]
        /\ old'[d] = old[d] /\ subject'[d] = subject[d] /\ work'[d] = work[d]
    BY <1>0, <1>1 DEF TypeOK, SessionTypeOK
  <2> QED BY <1>0, <2>1 DEF Local
<1> QED BY <1>2, <1>3, <1>4, <1>5 DEF TypeInv

(* A chat message is pushed into a connection.                               *)
LEMMA PushChatType ==
  ASSUME TypeInv, NEW c \in Conns, PushChat(c), ~NullCrash
  PROVE  TypeInv'
<1>1. /\ pc[c] = "push"
      /\ got' \in [Conns -> SUBSET Pushed]
      /\ view' \in [Conns -> SUBSET Users]
      /\ fault' \in {"none", "null", "freed"}
      /\ pc' = [pc EXCEPT ![c] = "unpush"]
      /\ UNCHANGED <<uidSession, sockSession, session, freeBlocks, chan, peer, sent, as,
                     listed, shut, lock, req, mine, old, subject, todo, work, target, list>>
  <2>1. TypeOK /\ Local(c)
    BY DEF TypeInv
  <2>2. /\ pc[c] = "push" /\ fault = "none"
        /\ ConnOf(mine[c]) # Null
        /\ PushMaybeFreed(ConnOf(mine[c]), [kind |-> "chat", user |-> req[c].to])
        /\ pc' = [pc EXCEPT ![c] = "unpush"]
        /\ UNCHANGED <<sessionVars, shut, lock, localVars>>
    BY DEF PushChat, At, Running, Goto
  <2>3. req[c] \in Request /\ req[c].op = "send" /\ mine[c] \in Blocks
    BY <2>1, <2>2 DEF TypeOK, Local, SendPc
  <2>4. [kind |-> "chat", user |-> req[c].to] \in Pushed
    BY <2>3 DEF Request, Pushed
  <2>5. ConnOf(mine[c]) \in Conns
    BY <2>1, <2>2, <2>3 DEF TypeOK, SessionTypeOK, Session, ConnOf
  <2>6. /\ UNCHANGED <<chan, peer, sent, as, listed>>
        /\ got' \in [Conns -> SUBSET Pushed] /\ view' \in [Conns -> SUBSET Users]
        /\ fault' \in {"none", "null", "freed"}
    BY <2>1, <2>2, <2>4, <2>5, PushType
  <2> QED BY <2>2, <2>6 DEF sessionVars, localVars
<1>0. TypeOK /\ Reached /\ Local(c) /\ \A d \in Conns : Local(d)
  BY DEF TypeInv
<1>2. TypeOK'
  <2>1. got' \in [Conns -> SUBSET Pushed]
    BY <1>1
  <2>2. view' \in [Conns -> SUBSET Users]
    BY <1>1
  <2>3. pc' \in [Conns -> PC]
    BY <1>0, <1>1 DEF TypeOK, SessionTypeOK, PC
  <2>4. fault' \in {"none", "null", "freed"}
    BY <1>1
  <2> QED BY <1>0, <1>1, <2>1, <2>2, <2>3, <2>4 DEF TypeOK, SessionTypeOK
<1>3. Reached'
  BY <1>0, <1>1 DEF Reached, NamedBlocks, TypeOK, SessionTypeOK
<1>4. Local(c)'
  BY <1>0, <1>1 DEF Local, Resting, Entering, SendPc, TypeOK, SessionTypeOK, PC
<1>5. ASSUME NEW d \in Conns \ {c} PROVE Local(d)'
  <2>1. /\ peer'[d] = peer[d] /\ pc'[d] = pc[d] /\ req'[d] = req[d] /\ mine'[d] = mine[d]
        /\ old'[d] = old[d] /\ subject'[d] = subject[d] /\ work'[d] = work[d]
    BY <1>0, <1>1 DEF TypeOK, SessionTypeOK
  <2> QED BY <1>0, <2>1 DEF Local
<1> QED BY <1>2, <1>3, <1>4, <1>5 DEF TypeInv

(* A notice is pushed into a connection.                                     *)
LEMMA WorkerType ==
  ASSUME TypeInv, NEW c \in Conns, NEW d \in Conns, Worker(c, d), ~NullCrash
  PROVE  TypeInv'
<1>1. /\ d \in work[c]
      /\ work' = [work EXCEPT ![c] = work[c] \ {d}]
      /\ got' \in [Conns -> SUBSET Pushed]
      /\ view' \in [Conns -> SUBSET Users]
      /\ fault' \in {"none", "null", "freed"}
      /\ UNCHANGED <<uidSession, sockSession, session, freeBlocks, chan, peer, sent, as,
                     listed, shut, lock, pc, req, mine, old, subject, todo, target, list>>
  <2>1. TypeOK /\ Local(c)
    BY DEF TypeInv
  <2>2. /\ d \in work[c] /\ fault = "none"
        /\ PushMaybeFreed(d, [kind |-> IF req[c] # NoReq THEN "online" ELSE "offline",
                              user |-> subject[c]])
        /\ work' = [work EXCEPT ![c] = work[c] \ {d}]
        /\ UNCHANGED <<sessionVars, shut, lock, pc, req, mine, old, subject, todo,
                       target, list>>
    BY DEF Worker, Running
  <2>3. subject[c] \in Users
    BY <2>1, <2>2 DEF Local
  <2>4. [kind |-> IF req[c] # NoReq THEN "online" ELSE "offline",
    user |-> subject[c]] \in Pushed
    BY <2>3 DEF Pushed
  <2>5. /\ UNCHANGED <<chan, peer, sent, as, listed>>
        /\ got' \in [Conns -> SUBSET Pushed] /\ view' \in [Conns -> SUBSET Users]
        /\ fault' \in {"none", "null", "freed"}
    BY <2>1, <2>2, <2>4, PushType
  <2> QED BY <2>2, <2>5 DEF sessionVars
<1>0. TypeOK /\ Reached /\ Local(c) /\ \A e \in Conns : Local(e)
  BY DEF TypeInv
<1>2. TypeOK'
  <2>1. work' \in [Conns -> SUBSET Conns]
    BY <1>0, <1>1 DEF TypeOK, SessionTypeOK
  <2>2. got' \in [Conns -> SUBSET Pushed]
    BY <1>1
  <2>3. view' \in [Conns -> SUBSET Users]
    BY <1>1
  <2>4. fault' \in {"none", "null", "freed"}
    BY <1>1
  <2> QED BY <1>0, <1>1, <2>1, <2>2, <2>3, <2>4 DEF TypeOK, SessionTypeOK
<1>3. Reached'
  BY <1>0, <1>1 DEF Reached, NamedBlocks, TypeOK, SessionTypeOK
<1>4. Local(c)'
  BY <1>0, <1>1 DEF Local, Resting, Entering, SendPc, TypeOK, SessionTypeOK, PC
<1>5. ASSUME NEW e \in Conns \ {c} PROVE Local(e)'
  <2>1. /\ peer'[e] = peer[e] /\ pc'[e] = pc[e] /\ req'[e] = req[e] /\ mine'[e] = mine[e]
        /\ old'[e] = old[e] /\ subject'[e] = subject[e] /\ work'[e] = work[e]
    BY <1>0, <1>1 DEF TypeOK, SessionTypeOK
  <2> QED BY <1>0, <2>1 DEF Local
<1> QED BY <1>2, <1>3, <1>4, <1>5 DEF TypeInv

(* The session of the connection goes offline.                               *)
LEMMA DisconnectType ==
  ASSUME TypeInv, NEW c \in Conns, Disconnect(c), ~NullCrash
  PROVE  TypeInv'
<1>1. /\ pc[c] = "disc"
      /\ pc' = [pc EXCEPT ![c] = pc'[c]] /\ pc'[c] \in {"destroy", "notify"}
      /\ mine' = [mine EXCEPT ![c] = mine'[c]] /\ mine'[c] \in NamedBlocks \cup {Null}
      /\ subject' = [subject EXCEPT ![c] = subject'[c]]
      /\ subject'[c] \in Users \cup {NoUser}
      /\ pc'[c] = "notify" => mine'[c] \in NamedBlocks /\ subject'[c] \in Users
      /\ todo' \in [Conns -> Seq(Conns \cup {Null})]
      /\ session' \in [Blocks -> Session]
      /\ \A b \in Blocks : session'[b].user = session[b].user
      /\ UNCHANGED <<uidSession, sockSession, freeBlocks, chan, peer, sent, as, view,
                     listed, got, shut, lock, req, old, work, target, list, fault>>
  <2>1. PICK b \in NamedBlocks \cup {Absent, Null} : b = sockSession[c]
    BY DEF TypeInv, Reached
  <2>2. /\ pc \in [Conns -> PC] /\ mine \in [Conns -> NamedBlocks \cup {Null}]
        /\ subject \in [Conns -> Users \cup {NoUser}]
        /\ todo \in [Conns -> Seq(Conns \cup {Null})]
        /\ session \in [Blocks -> Session] /\ pc[c] = "disc"
    BY DEF TypeInv, TypeOK, Reached, SessionTypeOK, Disconnect, At
  <2>3. CASE b = Absent
    <3>1. /\ pc' = [pc EXCEPT ![c] = "destroy"]
          /\ UNCHANGED <<sessionVars, clientVars, shut, lock, localVars, fault>>
      BY <2>1, <2>3 DEF Disconnect, At, Goto
    <3> QED BY <2>2, <3>1 DEF sessionVars, clientVars, localVars
  <2>4. CASE b # Absent
    <3>1. b # Null /\ b \in NamedBlocks
      BY <2>1, <2>4 DEF Disconnect
    <3>2. PICK sess : sess = Offline(b)
      OBVIOUS
    <3>3. PICK q : q = OnlineConnections(sess)
      OBVIOUS
    <3>4. /\ session' = sess /\ mine' = [mine EXCEPT ![c] = b]
          /\ subject' = [subject EXCEPT ![c] = UserOf(b)]
          /\ todo' = [todo EXCEPT ![c] = q]
          /\ pc' = [pc EXCEPT ![c] = "notify"]
          /\ UNCHANGED <<uidSession, sockSession, freeBlocks, clientVars, shut, lock,
                         req, old, work, target, list, fault>>
      BY <2>1, <2>4, <3>1, <3>2, <3>3 DEF Disconnect, StartNotices, Goto
    <3>5. sess \in [Blocks -> Session] /\ \A x \in Blocks : sess[x].user = session[x].user
      BY <2>2, <3>1, <3>2 DEF Offline, NamedBlocks, Session
    <3>6. q \in Seq(Conns \cup {Null})
      BY <3>3, <3>5, ConnectionsOf
    <3>7. UserOf(b) \in Users
      BY <3>1 DEF NamedBlocks, UserOf
    <3> HIDE DEF NamedBlocks
    <3> QED BY <2>2, <3>1, <3>4, <3>5, <3>6, <3>7 DEF clientVars
  <2> QED BY <2>3, <2>4
<1>0. TypeOK /\ Reached /\ Local(c) /\ \A d \in Conns : Local(d)
  BY DEF TypeInv
<1>2. TypeOK'
  <2>1. session' \in [Blocks -> Session]
    BY <1>1
  <2>2. mine' \in [Conns -> Blocks \cup {Null}]
    BY <1>0, <1>1 DEF TypeOK, NamedBlocks
  <2>3. subject' \in [Conns -> Users \cup {NoUser}]
    BY <1>0, <1>1 DEF TypeOK
  <2>4. todo' \in [Conns -> Seq(Conns \cup {Null})]
    BY <1>1
  <2>5. pc' \in [Conns -> PC]
    <3>1. PICK l \in PC : l = pc'[c]
      BY <1>1 DEF PC
    <3>2. pc' = [pc EXCEPT ![c] = l]
      BY <1>1, <3>1
    <3> QED BY <1>0, <3>1, <3>2 DEF TypeOK
  <2> QED BY <1>0, <1>1, <2>1, <2>2, <2>3, <2>4, <2>5 DEF TypeOK, SessionTypeOK
<1>3. Reached'
  <2>1. NamedBlocks' = NamedBlocks
    BY <1>1 DEF NamedBlocks
  <2>2. mine' \in [Conns -> NamedBlocks' \cup {Null}]
    BY <1>0, <1>1, <2>1 DEF Reached
  <2> QED BY <1>0, <1>1, <2>1, <2>2 DEF Reached
<1>4. Local(c)'
  <2>1. /\ req'[c] = req[c] /\ work'[c] = work[c] /\ peer'[c] = peer[c]
    BY <1>1
  <2>2. NamedBlocks \subseteq Blocks
    BY DEF NamedBlocks
  <2>3. req[c] = NoReq /\ work[c] = {} /\ peer[c] # "none"
    BY <1>0, <1>1 DEF Local, Resting
  <2> QED BY <1>0, <1>1, <2>1, <2>2, <2>3 DEF Local, Resting, Entering, SendPc
<1>5. ASSUME NEW d \in Conns \ {c} PROVE Local(d)'
  <2>1. /\ peer'[d] = peer[d] /\ pc'[d] = pc[d] /\ req'[d] = req[d] /\ mine'[d] = mine[d]
        /\ old'[d] = old[d] /\ subject'[d] = subject[d] /\ work'[d] = work[d]
    BY <1>0, <1>1 DEF TypeOK, SessionTypeOK
  <2> QED BY <1>0, <2>1 DEF Local
<1> QED BY <1>2, <1>3, <1>4, <1>5 DEF TypeInv

(* The session loses its connection.                                         *)
LEMMA DetachType ==
  ASSUME TypeInv, NEW c \in Conns, Detach(c), ~NullCrash
  PROVE  TypeInv'
<1>1. /\ pc[c] = "detach"
      /\ session' = [session EXCEPT ![mine[c]].con = Null]
      /\ pc' = [pc EXCEPT ![c] = "erasesock"]
      /\ UNCHANGED <<uidSession, sockSession, freeBlocks, chan, peer, sent, as, view,
                     listed, got, shut, lock, req, mine, old, subject, todo, work, target,
                     list, fault>>
  BY DEF Detach, At, Running, Goto, NoFault, sessionVars, clientVars, localVars
<1>0. TypeOK /\ Reached /\ Local(c) /\ \A d \in Conns : Local(d)
  BY DEF TypeInv
<1>2. mine[c] \in Blocks /\ [session[mine[c]] EXCEPT !.con = Null] \in Session
  <2>1. mine[c] \in Blocks
    BY <1>0, <1>1 DEF Local
  <2>2. PICK s \in Session : s = session[mine[c]]
    BY <1>0, <2>1 DEF TypeOK, SessionTypeOK
  <2>3. [s EXCEPT !.con = Null] \in Session
    BY <2>2 DEF Session
  <2> QED BY <2>1, <2>2, <2>3
<1>3. TypeOK'
  <2>1. session' \in [Blocks -> Session]
    BY <1>0, <1>1, <1>2 DEF TypeOK, SessionTypeOK
  <2>2. pc' \in [Conns -> PC]
    BY <1>0, <1>1, <1>2 DEF TypeOK, SessionTypeOK, PC
  <2> QED BY <1>0, <1>1, <2>1, <2>2 DEF TypeOK, SessionTypeOK
<1>4. Reached'
  BY <1>0, <1>1, <1>2 DEF Reached, NamedBlocks, TypeOK, SessionTypeOK
<1>5. Local(c)'
  BY <1>0, <1>1, <1>2 DEF Local, Resting, Entering, SendPc, TypeOK, SessionTypeOK, PC
<1>6. ASSUME NEW d \in Conns \ {c} PROVE Local(d)'
  <2>1. /\ peer'[d] = peer[d] /\ pc'[d] = pc[d] /\ req'[d] = req[d] /\ mine'[d] = mine[d]
        /\ old'[d] = old[d] /\ subject'[d] = subject[d] /\ work'[d] = work[d]
    BY <1>0, <1>1 DEF TypeOK, SessionTypeOK
  <2> QED BY <1>0, <2>1 DEF Local
<1> QED BY <1>3, <1>4, <1>5, <1>6 DEF TypeInv

(* The socket map forgets the session.                                       *)
LEMMA EraseSockType ==
  ASSUME TypeInv, NEW c \in Conns, EraseSock(c), ~NullCrash
  PROVE  TypeInv'
<1>1. /\ pc[c] = "erasesock"
      /\ sockSession' = [sockSession EXCEPT ![c] = Absent]
      /\ mine' = [mine EXCEPT ![c] = Null]
      /\ pc' = [pc EXCEPT ![c] = "destroy"]
      /\ UNCHANGED <<uidSession, session, freeBlocks, chan, peer, sent, as, view, listed,
                     got, shut, lock, req, old, subject, todo, work, target, list, fault>>
  BY DEF EraseSock, At, Running, Goto, NoFault, sessionVars, clientVars, localVars, Erase
<1>0. TypeOK /\ Reached /\ Local(c) /\ \A d \in Conns : Local(d)
  BY DEF TypeInv
<1>2. TypeOK'
  <2>1. sockSession' \in [Conns -> Blocks \cup {Absent, Null}]
    BY <1>0, <1>1 DEF TypeOK, SessionTypeOK
  <2>2. mine' \in [Conns -> Blocks \cup {Null}]
    BY <1>0, <1>1 DEF TypeOK, SessionTypeOK
  <2>3. pc' \in [Conns -> PC]
    BY <1>0, <1>1 DEF TypeOK, SessionTypeOK, PC
  <2> QED BY <1>0, <1>1, <2>1, <2>2, <2>3 DEF TypeOK, SessionTypeOK
<1>3. Reached'
  BY <1>0, <1>1 DEF Reached, NamedBlocks, TypeOK, SessionTypeOK
<1>4. Local(c)'
  BY <1>0, <1>1 DEF Local, Resting, Entering, SendPc, TypeOK, SessionTypeOK, PC
<1>5. ASSUME NEW d \in Conns \ {c} PROVE Local(d)'
  <2>1. /\ peer'[d] = peer[d] /\ pc'[d] = pc[d] /\ req'[d] = req[d] /\ mine'[d] = mine[d]
        /\ old'[d] = old[d] /\ subject'[d] = subject[d] /\ work'[d] = work[d]
    BY <1>0, <1>1 DEF TypeOK, SessionTypeOK
  <2> QED BY <1>0, <2>1 DEF Local
<1> QED BY <1>2, <1>3, <1>4, <1>5 DEF TypeInv

(* The connection is gone.                                                   *)
LEMMA DestroyType ==
  ASSUME TypeInv, NEW c \in Conns, Destroy(c), ~NullCrash
  PROVE  TypeInv'
<1>1. /\ pc[c] = "destroy"
      /\ pc' = [pc EXCEPT ![c] = "gone"]
      /\ peer' = [peer EXCEPT ![c] = "closed"]
      /\ UNCHANGED <<uidSession, sockSession, session, freeBlocks, chan, sent, as, view,
                     listed, got, shut, lock, req, mine, old, subject, todo, work, target,
                     list, fault>>
  BY DEF Destroy, At, Running, Goto, NoFault, sessionVars, clientVars, localVars
<1>0. TypeOK /\ Reached /\ Local(c) /\ \A d \in Conns : Local(d)
  BY DEF TypeInv
<1>2. TypeOK'
  <2>1. pc' \in [Conns -> PC]
    BY <1>0, <1>1 DEF TypeOK, SessionTypeOK, PC
  <2>2. peer' \in [Conns -> {"none", "ready", "waiting", "closed"}]
    BY <1>0, <1>1 DEF TypeOK, SessionTypeOK
  <2> QED BY <1>0, <1>1, <2>1, <2>2 DEF TypeOK, SessionTypeOK
<1>3. Reached'
  BY <1>0, <1>1 DEF Reached, NamedBlocks, TypeOK, SessionTypeOK
<1>4. Local(c)'
  BY <1>0, <1>1 DEF Local, Resting, Entering, SendPc, TypeOK, SessionTypeOK, PC
<1>5. ASSUME NEW d \in Conns \ {c} PROVE Local(d)'
  <2>1. /\ peer'[d] = peer[d] /\ pc'[d] = pc[d] /\ req'[d] = req[d] /\ mine'[d] = mine[d]
        /\ old'[d] = old[d] /\ subject'[d] = subject[d] /\ work'[d] = work[d]
    BY <1>0, <1>1 DEF TypeOK, SessionTypeOK
  <2> QED BY <1>0, <2>1 DEF Local
<1> QED BY <1>2, <1>3, <1>4, <1>5 DEF TypeInv

(* At the start every block is free, once.                                   *)
LEMMA FreeInit ==
  ASSUME Init
  PROVE  /\ freeBlocks \in Seq(Blocks)
         /\ \A i, j \in 1..Len(freeBlocks) : freeBlocks[i] = freeBlocks[j] => i = j
<1>1. Cardinality(Blocks) \in Nat /\ ExistsBijection(1..Cardinality(Blocks), Blocks)
  BY SessionAssumption, FS_CardinalityType
<1>2. \E f \in [1..Cardinality(Blocks) -> Blocks] : IsInjective(f)
  BY <1>1 DEF ExistsBijection, Bijection, Injection
<1>3. freeBlocks \in [1..Cardinality(Blocks) -> Blocks] /\ IsInjective(freeBlocks)
  BY <1>2 DEF Init, SessionInit, SetToSeq
<1>4. freeBlocks \in Seq(Blocks) /\ Len(freeBlocks) = Cardinality(Blocks)
  BY <1>1, <1>3
<1> QED BY <1>3, <1>4 DEF IsInjective

(* Nothing is registered at the start.                                       *)
LEMMA TypeInit == Init => TypeInv
<1> SUFFICES ASSUME Init PROVE TypeInv
  OBVIOUS
<1>1. TypeOK
  BY FreeInit, ServerAssumption DEF Init, SessionInit, TypeOK, SessionTypeOK, Session, PC
<1>2. Reached /\ \A c \in Conns : Local(c)
  BY DEF Init, SessionInit, Reached, Local, Resting, Entering, SendPc
<1> QED BY <1>1, <1>2 DEF TypeInv

(* Every step keeps it.                                                      *)
LEMMA TypeNext == TypeInv /\ [Next]_vars => TypeInv'
<1> SUFFICES ASSUME TypeInv, [Next]_vars PROVE TypeInv'
  OBVIOUS
<1>1. CASE UNCHANGED vars
  BY <1>1 DEF vars, sessionVars, clientVars, localVars, TypeInv, TypeOK, SessionTypeOK, Reached,
     NamedBlocks, Local
<1>2. CASE NullCrash
  BY <1>2 DEF NullCrash, Crash, sessionVars, clientVars, localVars, TypeInv, TypeOK,
     SessionTypeOK, Reached, NamedBlocks, Local
<1>3. CASE Next /\ ~NullCrash
  <2>1. ASSUME NEW c \in Conns, Listener(c)
        PROVE  TypeInv'
    BY <1>3, <2>1, ReceiveType, ReceiveEofType, ReplyType, VisitNextType, JoinedType, LoginType, ReplaceType, EraseOldType, InsertUidType, InsertSockType, GetOnlineType, LookupType, GoLockType, WaitLockType, PushChatType, UnPushType, DisconnectType, DetachType, EraseSockType, DestroyType DEF Listener
  <2>2. ASSUME NEW c \in Conns, NEW d \in Conns, Worker(c, d)
        PROVE  TypeInv'
    BY <1>3, <2>2, WorkerType
  <2>3. ASSUME NEW c \in Conns, Accept(c) \/ ClientRequest(c) \/ ClientClose(c)
        PROVE  TypeInv'
    BY <1>3, <2>3, AcceptType, ClientRequestType, ClientCloseType
  <2> QED BY <1>3, <2>1, <2>2, <2>3 DEF Next, Server, Client
<1> QED BY <1>1, <1>2, <1>3

(* Whatever clients send, in whatever order and with however many threads at *)
(* once, no table, session or variable of a listener takes a value it should *)
(* not have: the code never uses the session of a request that has none, and *)
(* never pushes a notice without a user.                                     *)
THEOREM ChatTypes == Spec => []TypeOK
<1>1. TypeInv => TypeOK
  BY DEF TypeInv
<1> QED BY <1>1, TypeInit, TypeNext, PTL DEF Spec


-----------------------------------------------------------------------------
(* A user who logs in again while the earlier connection is still there.     *)

(* A block that is on no stack.                                              *)
NotFree(b) == \A i \in 1..Len(freeBlocks) : freeBlocks[i] # b

(* A login of client c is on its way or served.                              *)
Serving(c) ==
  \/ chan[c] # NoReq /\ chan[c].op = "login"
  \/ req[c] # NoReq /\ req[c].op = "login"

(* Its session is made; no table leads to it yet; the tables have been told. *)
Placing(c) == pc[c] \in {"replace", "erase", "insuid"} \/ (pc[c] = "notify" /\ req[c] # NoReq)
Placed(c) == pc[c] = "inssock" \/ (pc[c] = "reply" /\ req[c].op = "login")

(* The login of c is still to make its session.                              *)
Fresh(c) ==
  \/ as[c] = NoUser /\ peer[c] \in {"none", "ready"}
  \/ chan[c] # NoReq /\ chan[c].op = "login"
  \/ pc[c] = "login"

OneRequest(c) ==
  /\ peer[c] = "none" => as[c] = NoUser
  /\ peer[c] \in {"none", "ready"} => chan[c] = NoReq /\ req[c] = NoReq
  /\ chan[c] # NoReq => req[c] = NoReq /\ ((chan[c].op = "login") <=> (as[c] = NoUser))
  /\ req[c] # NoReq => ((req[c].op = "login") <=> (as[c] = NoUser))

(* The only session that leads to c is the one its login made.               *)
OneSession(c) ==
  /\ Fresh(c) => ~Known(c)
  /\ Placing(c) \/ Placed(c) => \A b \in Blocks : session[b].con = c => b = mine[c]

OwnBlock(c) ==
  /\ Placing(c) => NotFree(mine[c]) /\ \A u \in Users : uidSession[u] # mine[c]
  /\ pc[c] = "erase" => uidSession[req[c].user] = old[c]
  /\ pc[c] = "insuid" => uidSession[req[c].user] \in {Absent, Null}
  /\ Placed(c) => uidSession[req[c].user] \in {Null, mine[c]}

(* Whoever was logged in as the user has been shut down before the new       *)
(* session takes the place of the earlier one.                               *)
Alone(c) ==
  pc[c] \in {"erase", "insuid"} \/ Placed(c) =>
    \A d \in Conns : LoggedIn(d) /\ Known(d) => as[d] # req[c].user

Entry(c) ==
  LoggedIn(c) /\ Known(c) =>
    \/ uidSession[as[c]] = Null
    \/ uidSession[as[c]] \in Blocks /\ session[uidSession[as[c]]].con = c

LoginPart(c) == OneRequest(c) /\ OneSession(c) /\ OwnBlock(c) /\ Alone(c) /\ Entry(c)

BlockPart ==
  /\ \A i, j \in 1..Len(freeBlocks) : freeBlocks[i] = freeBlocks[j] => i = j
  /\ \A u, v \in Users : uidSession[u] \in Blocks /\ uidSession[u] = uidSession[v] => u = v
  /\ \A u \in Users : uidSession[u] \in Blocks =>
       \/ NotFree(uidSession[u])
       \/ \E c \in Conns : pc[c] = "erase" /\ req[c].user = u
  /\ \A a, b \in Blocks : session[a].con \in Conns /\ session[a].con = session[b].con => a = b

LoginInv ==
  /\ \A c, d \in Conns : Serving(c) /\ Serving(d) => c = d
  /\ BlockPart
  /\ \A c \in Conns : LoginPart(c)
  /\ SingleLogin

-----------------------------------------------------------------------------
(* What a step of another listener leaves as it was.                         *)
Still(d) ==
  /\ pc'[d] = pc[d] /\ req'[d] = req[d] /\ chan'[d] = chan[d] /\ peer'[d] = peer[d]
  /\ as'[d] = as[d] /\ mine'[d] = mine[d] /\ old'[d] = old[d]

(* A step of c that gives no block, moves no session to another place in the *)
(* tables and lets nobody log in.                                            *)
Calm(c) ==
  /\ \A d \in Conns \ {c} : Still(d)
  /\ UNCHANGED <<freeBlocks, as, shut>>
  /\ \A u \in Users : \/ uidSession'[u] = uidSession[u]
                      \/ uidSession[u] = Absent /\ uidSession'[u] = Null
  /\ \A b \in Blocks : session'[b].con \in {session[b].con, Null}
  /\ LoggedIn(c)' => LoggedIn(c)
  /\ pc[c] = "erase" => pc'[c] = "erase"
  /\ pc'[c] \in {"erase", "insuid"} => pc'[c] = pc[c] /\ req'[c] = req[c] /\ old'[c] = old[c]
  /\ OneRequest(c)'
  /\ Fresh(c)' => Fresh(c)
  /\ Placing(c)' => Placing(c) /\ mine'[c] = mine[c]
  /\ Placed(c)' => Placed(c) /\ mine'[c] = mine[c] /\ req'[c] = req[c]
  /\ Serving(c)' => Serving(c) \/ ~LoginServed

LEMMA StillLoggedIn ==
  ASSUME NEW d \in Conns, Still(d), shut \subseteq shut'
  PROVE  LoggedIn(d)' => LoggedIn(d)
BY DEF Still, LoggedIn, Leaving, Open

LEMMA StillSame ==
  ASSUME NEW d \in Conns, Still(d)
  PROVE  /\ Serving(d)' <=> Serving(d)
         /\ Fresh(d)' <=> Fresh(d)
         /\ Placing(d)' <=> Placing(d)
         /\ Placed(d)' <=> Placed(d)
         /\ OneRequest(d)' <=> OneRequest(d)
BY DEF Still, Serving, Fresh, Placing, Placed, OneRequest

LEMMA KnownLess ==
  ASSUME \A b \in Blocks : session'[b].con \in {session[b].con, Null}, NEW d \in Conns
  PROVE  Known(d)' => Known(d)
BY SessionAssumption DEF Known

(* Who is in the middle of a login serves it.                                *)
LEMMA InLogin ==
  ASSUME TypeInv, NEW c \in Conns
  PROVE  /\ Placing(c) \/ Placed(c) \/ pc[c] \in {"login", "erase"} =>
              Serving(c) /\ req[c] # NoReq /\ req[c].op = "login" /\ req[c].user \in Users
         /\ Placing(c) => mine[c] \in Blocks
         /\ mine[c] \in Blocks \cup {Null}
         /\ pc[c] = "erase" => old[c] \in Blocks
<1>1. Local(c) /\ (req[c] = NoReq \/ req[c] \in Request) /\ mine[c] \in Blocks \cup {Null}
  BY DEF TypeInv, TypeOK
<1>2. Placing(c) \/ Placed(c) \/ pc[c] \in {"login", "erase"} =>
        req[c] # NoReq /\ req[c].op = "login"
  BY <1>1 DEF Placing, Placed, Local, Entering
<1>3. Placing(c) => mine[c] \in Blocks
  BY <1>1 DEF Placing, Local, Entering
<1>4. pc[c] = "erase" => old[c] \in Blocks
  BY <1>1 DEF Local
<1> QED BY <1>1, <1>2, <1>3, <1>4 DEF Serving, Request

LEMMA CalmOthers ==
  ASSUME TypeInv, LoginInv, NEW c \in Conns, Calm(c)
  PROVE  /\ \A d \in Conns : LoggedIn(d)' => LoggedIn(d)
         /\ \A d \in Conns : Known(d)' => Known(d)
         /\ \A d \in Conns : d # c => Still(d)
<1>1. \A d \in Conns : Known(d)' => Known(d)
  BY KnownLess DEF Calm
<1>2. ASSUME NEW d \in Conns PROVE LoggedIn(d)' => LoggedIn(d)
  <2>1. shut \subseteq shut'
    BY DEF Calm
  <2> QED BY <2>1, StillLoggedIn DEF Calm
<1> QED BY <1>1, <1>2 DEF Calm

LEMMA CalmPart ==
  ASSUME TypeInv, LoginInv, NEW c \in Conns, Calm(c), NEW d \in Conns
  PROVE  LoginPart(d)'
<1>0. /\ OneRequest(d) /\ OneSession(d) /\ OwnBlock(d) /\ Alone(d) /\ Entry(d)
      /\ \A a, b \in Blocks : session[a].con \in Conns /\ session[a].con = session[b].con => a = b
  BY DEF LoginInv, LoginPart, BlockPart
<1>1. /\ \A e \in Conns : LoggedIn(e)' => LoggedIn(e)
      /\ \A e \in Conns : Known(e)' => Known(e)
      /\ d # c => Still(d)
  BY CalmOthers
<1>2. /\ OneRequest(d)'
      /\ Fresh(d)' => Fresh(d)
      /\ Placing(d)' => Placing(d) /\ mine'[d] = mine[d]
      /\ Placed(d)' => Placed(d) /\ mine'[d] = mine[d] /\ req'[d] = req[d]
      /\ pc'[d] \in {"erase", "insuid"} => /\ pc[d] = pc'[d] /\ req'[d] = req[d]
                                           /\ old'[d] = old[d]
  BY <1>0, <1>1, StillSame DEF Calm, Still
<1>3. /\ as' = as /\ freeBlocks' = freeBlocks
      /\ \A b \in Blocks : session'[b].con \in {session[b].con, Null}
  BY DEF Calm
<1>8. \A u \in Users : \/ uidSession'[u] = uidSession[u]
                       \/ uidSession[u] = Absent /\ uidSession'[u] = Null
  BY DEF Calm
<1>4. OneSession(d)'
  <2>1. Fresh(d)' => ~Known(d)'
    BY <1>0, <1>1, <1>2 DEF OneSession
  <2>2. ASSUME Placing(d)' \/ Placed(d)', NEW b \in Blocks, session'[b].con = d
        PROVE  b = mine'[d]
    <3>1. session[b].con = d
      BY <1>3, <2>2, SessionAssumption
    <3> QED BY <1>0, <1>2, <2>2, <3>1 DEF OneSession
  <2> QED BY <2>1, <2>2 DEF OneSession
<1>5. OwnBlock(d)'
  <2>1. ASSUME Placing(d)'
        PROVE  NotFree(mine[d])' /\ \A u \in Users : uidSession'[u] # mine'[d]
    <3>0. mine'[d] = mine[d]
      BY <1>2, <2>1
    <3>1. /\ Placing(d) /\ mine[d] \in Blocks /\ NotFree(mine[d])
          /\ \A u \in Users : uidSession[u] # mine[d]
      BY <1>0, <1>2, <2>1, InLogin DEF OwnBlock
    <3>2. NotFree(mine[d])'
      BY <1>3, <3>0, <3>1 DEF NotFree
    <3>3. \A u \in Users : uidSession'[u] # mine[d]
      BY <1>8, <3>1, SessionAssumption
    <3> QED BY <3>0, <3>2, <3>3
  <2>2. ASSUME pc'[d] = "erase"
        PROVE  uidSession'[req[d].user] = old[d]
    <3>1. pc[d] = "erase" /\ old[d] \in Blocks /\ req[d].user \in Users
      BY <1>2, <2>2, InLogin
    <3> QED BY <1>0, <1>8, <3>1, SessionAssumption DEF OwnBlock
  <2>3. ASSUME pc'[d] = "insuid"
        PROVE  uidSession'[req[d].user] \in {Absent, Null}
    <3>1. pc[d] = "insuid" /\ req[d].user \in Users
      BY <1>2, <2>3, InLogin DEF Placing
    <3> QED BY <1>0, <1>8, <3>1 DEF OwnBlock
  <2>4. ASSUME Placed(d)'
        PROVE  uidSession'[req[d].user] \in {Null, mine[d]}
    <3>1. Placed(d) /\ mine[d] \in Blocks \cup {Null} /\ req[d].user \in Users
      BY <1>2, <2>4, InLogin
    <3> QED BY <1>0, <1>8, <3>1, SessionAssumption DEF OwnBlock
  <2> QED BY <1>2, <2>1, <2>2, <2>3, <2>4 DEF OwnBlock
<1>6. Alone(d)'
  BY <1>0, <1>1, <1>2, <1>3 DEF Alone
<1>7. Entry(d)'
  <2> SUFFICES ASSUME LoggedIn(d)', Known(d)'
               PROVE  \/ uidSession'[as[d]] = Null
                      \/ uidSession'[as[d]] \in Blocks /\ session'[uidSession'[as[d]]].con = d
    BY <1>3 DEF Entry
  <2>1. LoggedIn(d) /\ Known(d) /\ as[d] \in Users
    BY <1>1 DEF LoggedIn, TypeInv, TypeOK
  <2>2. \/ uidSession[as[d]] = Null
        \/ uidSession[as[d]] \in Blocks /\ session[uidSession[as[d]]].con = d
    BY <1>0, <2>1 DEF Entry
  <2>3. uidSession'[as[d]] = uidSession[as[d]]
    <3>1. uidSession[as[d]] # Absent
      BY <2>2, SessionAssumption
    <3> QED BY <1>8, <2>1, <3>1
  <2>4. PICK b \in Blocks : session'[b].con = d
    BY DEF Known
  <2>5. session[b].con = d
    BY <1>3, <2>4, SessionAssumption
  <2>6. uidSession[as[d]] \in Blocks => uidSession[as[d]] = b
    BY <1>0, <2>2, <2>5, SessionAssumption
  <2> QED BY <2>2, <2>3, <2>4, <2>6
<1> QED BY <1>2, <1>4, <1>5, <1>6, <1>7 DEF LoginPart

LEMMA CalmKeeps ==
  ASSUME TypeInv, LoginInv, NEW c \in Conns, Calm(c)
  PROVE  LoginInv'
<1>0. /\ \A d \in Conns : LoggedIn(d)' => LoggedIn(d)
      /\ \A d \in Conns : Known(d)' => Known(d)
      /\ \A d \in Conns : d # c => Still(d)
  BY CalmOthers
<1>1. \A d, e \in Conns : Serving(d)' /\ Serving(e)' => d = e
  <2>1. \A d \in Conns : d # c => (Serving(d)' <=> Serving(d))
    BY <1>0, StillSame
  <2>2. \A d \in Conns : Serving(d) => LoginServed
    BY DEF LoginServed, Serving
  <2> QED BY <2>1, <2>2 DEF LoginInv, Calm
<1>2. BlockPart'
  <2>1. /\ freeBlocks' = freeBlocks
        /\ \A u \in Users : \/ uidSession'[u] = uidSession[u]
                            \/ uidSession[u] = Absent /\ uidSession'[u] = Null
        /\ \A b \in Blocks : session'[b].con \in {session[b].con, Null}
    BY DEF Calm
  <2>2. \A i, j \in 1..Len(freeBlocks') : freeBlocks'[i] = freeBlocks'[j] => i = j
    BY <2>1 DEF LoginInv, BlockPart
  <2>3. \A u \in Users : uidSession'[u] \in Blocks => uidSession'[u] = uidSession[u]
    BY <2>1, SessionAssumption
  <2>4. \A u, v \in Users : uidSession'[u] \in Blocks /\ uidSession'[u] = uidSession'[v] => u = v
    BY <2>3 DEF LoginInv, BlockPart
  <2>5. ASSUME NEW u \in Users, uidSession'[u] \in Blocks
        PROVE  NotFree(uidSession[u])' \/ \E d \in Conns : pc'[d] = "erase" /\ req'[d].user = u
    <3>1. \/ NotFree(uidSession[u])
          \/ \E d \in Conns : pc[d] = "erase" /\ req[d].user = u
      BY <2>3, <2>5 DEF LoginInv, BlockPart
    <3>2. ASSUME NEW d \in Conns, pc[d] = "erase", req[d].user = u
          PROVE  pc'[d] = "erase" /\ req'[d].user = u
      BY <1>0, <3>2 DEF Calm, Still
    <3> QED BY <2>1, <2>3, <2>5, <3>1, <3>2 DEF NotFree
  <2>6. \A a, b \in Blocks :
          session'[a].con \in Conns /\ session'[a].con = session'[b].con => a = b
    BY <2>1, SessionAssumption DEF LoginInv, BlockPart
  <2> QED BY <2>2, <2>4, <2>5, <2>6 DEF BlockPart
<1>3. \A d \in Conns : LoginPart(d)'
  BY CalmPart
<1>4. SingleLogin'
  BY <1>0 DEF SingleLogin, LoginInv, Calm
<1> QED BY <1>1, <1>2, <1>3, <1>4 DEF LoginInv

(* A pushed message changes nothing else of the clients.                     *)
LEMMA PushOnly ==
  ASSUME NEW d, NEW m, PushMaybeFreed(d, m)
  PROVE  UNCHANGED <<chan, peer, sent, as, listed>>
BY DEF PushMaybeFreed, Push, clientVars

(* A new connection has nothing of its own yet.                              *)
LEMMA AcceptLogin ==
  ASSUME TypeInv, LoginInv, NEW c \in Conns, Accept(c), ~NullCrash
  PROVE  LoginInv'
<1>0. TypeOK /\ Local(c) /\ OneRequest(c)
  BY DEF TypeInv, LoginInv, LoginPart
<1>1. /\ peer[c] = "none"
      /\ peer' = [peer EXCEPT ![c] = "ready"]
      /\ pc' = [pc EXCEPT ![c] = "recv"]
      /\ UNCHANGED <<uidSession, session, freeBlocks, chan, as, shut, req, mine, old>>
  BY TypeInv DEF Accept, At, Running, Goto, NoFault, sessionVars, clientVars, localVars
<1>2. /\ peer'[c] = "ready"
      /\ pc'[c] = "recv"
  BY <1>0, <1>1 DEF TypeOK, SessionTypeOK
<1>3. \A d \in Conns \ {c} : Still(d)
  BY <1>0, <1>1 DEF TypeOK, SessionTypeOK, Still
<1>4. OneRequest(c)'
  BY <1>0, <1>1, <1>2, ServerAssumption DEF OneRequest, Local, Resting, Entering, SendPc
<1>5. LoggedIn(c)' => LoggedIn(c)
  BY <1>0, <1>1, <1>2 DEF LoggedIn, Leaving, Open, OneRequest, Local, Resting, Entering,
     SendPc
<1>6. /\ pc[c] = "erase" => pc'[c] = "erase"
      /\ pc'[c] \in {"erase", "insuid"} =>
           pc'[c] = pc[c] /\ req'[c] = req[c] /\ old'[c] = old[c]
      /\ Fresh(c)' => Fresh(c)
      /\ Placing(c)' => Placing(c) /\ mine'[c] = mine[c]
      /\ Placed(c)' => Placed(c) /\ mine'[c] = mine[c] /\ req'[c] = req[c]
      /\ Serving(c)' => Serving(c) \/ ~LoginServed
  BY <1>0, <1>1, <1>2 DEF Fresh, Placing, Placed, Serving, OneRequest, Local, Resting,
     Entering, SendPc
<1>7. /\ \A u \in Users : \/ uidSession'[u] = uidSession[u]
                          \/ uidSession[u] = Absent /\ uidSession'[u] = Null
      /\ \A b \in Blocks : session'[b].con \in {session[b].con, Null}
  BY <1>1
<1> QED BY <1>1, <1>3, <1>4, <1>5, <1>6, <1>7, CalmKeeps DEF Calm

(* A client sends one of its requests.                                       *)
LEMMA ClientRequestLogin ==
  ASSUME TypeInv, LoginInv, NEW c \in Conns, ClientRequest(c), ~NullCrash, SerialLogin
  PROVE  LoginInv'
<1>0. TypeOK /\ Local(c) /\ OneRequest(c)
  BY DEF TypeInv, LoginInv, LoginPart
<1>1. /\ peer[c] = "ready"
      /\ chan' = [chan EXCEPT ![c] = chan'[c]]
      /\ chan'[c] \in Request
      /\ (chan'[c].op = "login") <=> (as[c] = NoUser)
      /\ LoginServed => chan'[c].op # "login"
      /\ peer' = [peer EXCEPT ![c] = "waiting"]
      /\ UNCHANGED <<uidSession, session, freeBlocks, as, shut, pc, req, mine, old>>
  <2>1. PICK r \in Requests[c] :
          /\ (r.op = "login") <=> (as[c] = NoUser)
          /\ r.op = "login" => ~LoginServed
          /\ chan' = [chan EXCEPT ![c] = r]
    BY DEF ClientRequest
  <2>2. r \in Request /\ chan'[c] = r
    BY <1>0, <2>1, ServerAssumption DEF TypeOK
  <2>3. /\ peer[c] = "ready" /\ peer' = [peer EXCEPT ![c] = "waiting"]
        /\ UNCHANGED <<uidSession, session, freeBlocks, as, shut, pc, req, mine, old>>
    BY DEF ClientRequest, sessionVars, localVars
  <2> QED BY <2>1, <2>2, <2>3
<1>2. /\ peer'[c] = "waiting"
  BY <1>0, <1>1 DEF TypeOK, SessionTypeOK
<1>3. \A d \in Conns \ {c} : Still(d)
  BY <1>0, <1>1 DEF TypeOK, SessionTypeOK, Still
<1>4. OneRequest(c)'
  BY <1>0, <1>1, <1>2, ServerAssumption DEF OneRequest, Local, Resting, Entering, SendPc
<1>5. LoggedIn(c)' => LoggedIn(c)
  BY <1>0, <1>1, <1>2 DEF LoggedIn, Leaving, Open, OneRequest, Local, Resting, Entering,
     SendPc
<1>6. /\ pc[c] = "erase" => pc'[c] = "erase"
      /\ pc'[c] \in {"erase", "insuid"} =>
           pc'[c] = pc[c] /\ req'[c] = req[c] /\ old'[c] = old[c]
      /\ Fresh(c)' => Fresh(c)
      /\ Placing(c)' => Placing(c) /\ mine'[c] = mine[c]
      /\ Placed(c)' => Placed(c) /\ mine'[c] = mine[c] /\ req'[c] = req[c]
      /\ Serving(c)' => Serving(c) \/ ~LoginServed
  BY <1>0, <1>1, <1>2 DEF Fresh, Placing, Placed, Serving, OneRequest, Local, Resting,
     Entering, SendPc
<1>7. /\ \A u \in Users : \/ uidSession'[u] = uidSession[u]
                          \/ uidSession[u] = Absent /\ uidSession'[u] = Null
      /\ \A b \in Blocks : session'[b].con \in {session[b].con, Null}
  BY <1>1
<1> QED BY <1>1, <1>3, <1>4, <1>5, <1>6, <1>7, CalmKeeps DEF Calm

(* A client leaves.                                                          *)
LEMMA ClientCloseLogin ==
  ASSUME TypeInv, LoginInv, NEW c \in Conns, ClientClose(c), ~NullCrash
  PROVE  LoginInv'
<1>0. TypeOK /\ Local(c) /\ OneRequest(c)
  BY DEF TypeInv, LoginInv, LoginPart
<1>1. /\ peer[c] \in {"ready", "waiting"}
      /\ peer' = [peer EXCEPT ![c] = "closed"]
      /\ UNCHANGED <<uidSession, session, freeBlocks, chan, as, shut, pc, req, mine, old>>
  BY TypeInv DEF ClientClose, At, Running, Goto, NoFault, sessionVars, clientVars, localVars
<1>2. /\ peer'[c] = "closed"
  BY <1>0, <1>1 DEF TypeOK, SessionTypeOK
<1>3. \A d \in Conns \ {c} : Still(d)
  BY <1>0, <1>1 DEF TypeOK, SessionTypeOK, Still
<1>4. OneRequest(c)'
  BY <1>0, <1>1, <1>2, ServerAssumption DEF OneRequest, Local, Resting, Entering, SendPc
<1>5. LoggedIn(c)' => LoggedIn(c)
  BY <1>0, <1>1, <1>2 DEF LoggedIn, Leaving, Open, OneRequest, Local, Resting, Entering,
     SendPc
<1>6. /\ pc[c] = "erase" => pc'[c] = "erase"
      /\ pc'[c] \in {"erase", "insuid"} =>
           pc'[c] = pc[c] /\ req'[c] = req[c] /\ old'[c] = old[c]
      /\ Fresh(c)' => Fresh(c)
      /\ Placing(c)' => Placing(c) /\ mine'[c] = mine[c]
      /\ Placed(c)' => Placed(c) /\ mine'[c] = mine[c] /\ req'[c] = req[c]
      /\ Serving(c)' => Serving(c) \/ ~LoginServed
  BY <1>0, <1>1, <1>2 DEF Fresh, Placing, Placed, Serving, OneRequest, Local, Resting,
     Entering, SendPc
<1>7. /\ \A u \in Users : \/ uidSession'[u] = uidSession[u]
                          \/ uidSession[u] = Absent /\ uidSession'[u] = Null
      /\ \A b \in Blocks : session'[b].con \in {session[b].con, Null}
  BY <1>1
<1> QED BY <1>1, <1>3, <1>4, <1>5, <1>6, <1>7, CalmKeeps DEF Calm

(* The listener takes the request; its operation decides where it goes.      *)
LEMMA ReceiveLogin ==
  ASSUME TypeInv, LoginInv, NEW c \in Conns, Receive(c), ~NullCrash
  PROVE  LoginInv'
<1>0. TypeOK /\ Local(c) /\ OneRequest(c)
  BY DEF TypeInv, LoginInv, LoginPart
<1>1. /\ pc[c] = "recv"
      /\ chan[c] # NoReq
      /\ req' = [req EXCEPT ![c] = chan[c]]
      /\ chan' = [chan EXCEPT ![c] = NoReq]
      /\ pc' = [pc EXCEPT ![c] = pc'[c]]
      /\ UNCHANGED <<uidSession, session, freeBlocks, peer, as, shut, mine, old>>
  <2>1. pc' = [pc EXCEPT ![c] = pc'[c]]
    BY <1>0 DEF Receive, Goto, TypeOK
  <2> QED BY <2>1 DEF Receive, At, Running, sessionVars
<1>2. /\ req'[c] = chan[c]
      /\ chan'[c] = NoReq
      /\ chan[c] # NoReq
      /\ pc'[c] \in {"login", "online", "lookup", "reply"}
      /\ (pc'[c] = "login") <=> (chan[c].op = "login")
  <2>1. chan[c] # NoReq /\ chan[c] \in Request /\ req'[c] = chan[c] /\ chan'[c] = NoReq
    BY <1>0, <1>1, ServerAssumption DEF TypeOK
  <2>2. pc' = [pc EXCEPT ![c] = CASE chan[c].op = "login"  -> "login"
                                  [] chan[c].op = "online" -> "online"
                                  [] chan[c].op = "send"   -> "lookup"
                                  [] OTHER                 -> "reply"]
    BY DEF Receive, Goto
  <2>3. pc'[c] = CASE chan[c].op = "login"  -> "login"
                   [] chan[c].op = "online" -> "online"
                   [] chan[c].op = "send"   -> "lookup"
                   [] OTHER                 -> "reply"
    BY <1>0, <2>2 DEF TypeOK
  <2> QED BY <2>1, <2>3
<1>3. \A d \in Conns \ {c} : Still(d)
  BY <1>0, <1>1 DEF TypeOK, SessionTypeOK, Still
<1>4. OneRequest(c)'
  BY <1>0, <1>1, <1>2, ServerAssumption DEF OneRequest, Local, Resting, Entering, SendPc
<1>5. LoggedIn(c)' => LoggedIn(c)
  BY <1>0, <1>1, <1>2 DEF LoggedIn, Leaving, Open, OneRequest, Local, Resting, Entering,
     SendPc
<1>6. /\ pc[c] = "erase" => pc'[c] = "erase"
      /\ pc'[c] \in {"erase", "insuid"} =>
           pc'[c] = pc[c] /\ req'[c] = req[c] /\ old'[c] = old[c]
      /\ Fresh(c)' => Fresh(c)
      /\ Placing(c)' => Placing(c) /\ mine'[c] = mine[c]
      /\ Placed(c)' => Placed(c) /\ mine'[c] = mine[c] /\ req'[c] = req[c]
      /\ Serving(c)' => Serving(c) \/ ~LoginServed
  BY <1>0, <1>1, <1>2 DEF Fresh, Placing, Placed, Serving, OneRequest, Local, Resting,
     Entering, SendPc
<1>7. /\ \A u \in Users : \/ uidSession'[u] = uidSession[u]
                          \/ uidSession[u] = Absent /\ uidSession'[u] = Null
      /\ \A b \in Blocks : session'[b].con \in {session[b].con, Null}
  BY <1>1
<1> QED BY <1>1, <1>3, <1>4, <1>5, <1>6, <1>7, CalmKeeps DEF Calm

(* The listener leaves its loop without a request.                           *)
LEMMA ReceiveEofLogin ==
  ASSUME TypeInv, LoginInv, NEW c \in Conns, ReceiveEof(c), ~NullCrash
  PROVE  LoginInv'
<1>0. TypeOK /\ Local(c) /\ OneRequest(c)
  BY DEF TypeInv, LoginInv, LoginPart
<1>1. /\ pc[c] = "recv"
      /\ pc' = [pc EXCEPT ![c] = "disc"]
      /\ UNCHANGED <<uidSession, session, freeBlocks, chan, peer, as, shut, req, mine, old>>
  BY TypeInv DEF ReceiveEof, At, Running, Goto, NoFault, sessionVars, clientVars, localVars
<1>2. /\ pc'[c] = "disc"
  BY <1>0, <1>1 DEF TypeOK, SessionTypeOK
<1>3. \A d \in Conns \ {c} : Still(d)
  BY <1>0, <1>1 DEF TypeOK, SessionTypeOK, Still
<1>4. OneRequest(c)'
  BY <1>0, <1>1, <1>2, ServerAssumption DEF OneRequest, Local, Resting, Entering, SendPc
<1>5. LoggedIn(c)' => LoggedIn(c)
  BY <1>0, <1>1, <1>2 DEF LoggedIn, Leaving, Open, OneRequest, Local, Resting, Entering,
     SendPc
<1>6. /\ pc[c] = "erase" => pc'[c] = "erase"
      /\ pc'[c] \in {"erase", "insuid"} =>
           pc'[c] = pc[c] /\ req'[c] = req[c] /\ old'[c] = old[c]
      /\ Fresh(c)' => Fresh(c)
      /\ Placing(c)' => Placing(c) /\ mine'[c] = mine[c]
      /\ Placed(c)' => Placed(c) /\ mine'[c] = mine[c] /\ req'[c] = req[c]
      /\ Serving(c)' => Serving(c) \/ ~LoginServed
  BY <1>0, <1>1, <1>2 DEF Fresh, Placing, Placed, Serving, OneRequest, Local, Resting,
     Entering, SendPc
<1>7. /\ \A u \in Users : \/ uidSession'[u] = uidSession[u]
                          \/ uidSession[u] = Absent /\ uidSession'[u] = Null
      /\ \A b \in Blocks : session'[b].con \in {session[b].con, Null}
  BY <1>1
<1> QED BY <1>1, <1>3, <1>4, <1>5, <1>6, <1>7, CalmKeeps DEF Calm

(* The next connection gets a worker, or is the subject's own.               *)
LEMMA VisitNextLogin ==
  ASSUME TypeInv, LoginInv, NEW c \in Conns, VisitNext(c), ~NullCrash
  PROVE  LoginInv'
<1>0. TypeOK /\ Local(c) /\ OneRequest(c)
  BY DEF TypeInv, LoginInv, LoginPart
<1>1. /\ pc[c] = "notify"
      /\ UNCHANGED <<uidSession, session, freeBlocks, chan, peer, as, shut, pc, req, mine,
                     old>>
  BY TypeInv DEF VisitNext, At, Running, Goto, NoFault, sessionVars, clientVars,
     localVars, TypeInv, TypeOK
<1>3. \A d \in Conns \ {c} : Still(d)
  BY <1>0, <1>1 DEF TypeOK, SessionTypeOK, Still
<1>4. OneRequest(c)'
  BY <1>0, <1>1, ServerAssumption DEF OneRequest, Local, Resting, Entering, SendPc
<1>5. LoggedIn(c)' => LoggedIn(c)
  BY <1>0, <1>1 DEF LoggedIn, Leaving, Open, OneRequest, Local, Resting, Entering, SendPc
<1>6. /\ pc[c] = "erase" => pc'[c] = "erase"
      /\ pc'[c] \in {"erase", "insuid"} =>
           pc'[c] = pc[c] /\ req'[c] = req[c] /\ old'[c] = old[c]
      /\ Fresh(c)' => Fresh(c)
      /\ Placing(c)' => Placing(c) /\ mine'[c] = mine[c]
      /\ Placed(c)' => Placed(c) /\ mine'[c] = mine[c] /\ req'[c] = req[c]
      /\ Serving(c)' => Serving(c) \/ ~LoginServed
  BY <1>0, <1>1 DEF Fresh, Placing, Placed, Serving, OneRequest, Local, Resting, Entering,
     SendPc
<1>7. /\ \A u \in Users : \/ uidSession'[u] = uidSession[u]
                          \/ uidSession[u] = Absent /\ uidSession'[u] = Null
      /\ \A b \in Blocks : session'[b].con \in {session[b].con, Null}
  BY <1>1
<1> QED BY <1>1, <1>3, <1>4, <1>5, <1>6, <1>7, CalmKeeps DEF Calm

(* A notice is pushed into a connection.                                     *)
LEMMA WorkerLogin ==
  ASSUME TypeInv, LoginInv, NEW c \in Conns, NEW d \in Conns, Worker(c, d), ~NullCrash
  PROVE  LoginInv'
<1>0. TypeOK /\ Local(c) /\ OneRequest(c)
  BY DEF TypeInv, LoginInv, LoginPart
<1>1. /\ d \in work[c]
      /\ UNCHANGED <<uidSession, session, freeBlocks, chan, peer, as, shut, pc, req, mine,
                     old>>
  BY PushOnly DEF Worker, sessionVars
<1>3. \A e \in Conns \ {c} : Still(e)
  BY <1>0, <1>1 DEF TypeOK, SessionTypeOK, Still
<1>4. OneRequest(c)'
  BY <1>0, <1>1, ServerAssumption DEF OneRequest, Local, Resting, Entering, SendPc
<1>5. LoggedIn(c)' => LoggedIn(c)
  BY <1>0, <1>1 DEF LoggedIn, Leaving, Open, OneRequest, Local, Resting, Entering, SendPc
<1>6. /\ pc[c] = "erase" => pc'[c] = "erase"
      /\ pc'[c] \in {"erase", "insuid"} =>
           pc'[c] = pc[c] /\ req'[c] = req[c] /\ old'[c] = old[c]
      /\ Fresh(c)' => Fresh(c)
      /\ Placing(c)' => Placing(c) /\ mine'[c] = mine[c]
      /\ Placed(c)' => Placed(c) /\ mine'[c] = mine[c] /\ req'[c] = req[c]
      /\ Serving(c)' => Serving(c) \/ ~LoginServed
  BY <1>0, <1>1 DEF Fresh, Placing, Placed, Serving, OneRequest, Local, Resting, Entering,
     SendPc
<1>7. /\ \A u \in Users : \/ uidSession'[u] = uidSession[u]
                          \/ uidSession[u] = Absent /\ uidSession'[u] = Null
      /\ \A b \in Blocks : session'[b].con \in {session[b].con, Null}
  BY <1>1
<1> QED BY <1>1, <1>3, <1>4, <1>5, <1>6, <1>7, CalmKeeps DEF Calm

(* All notices are out.                                                      *)
LEMMA JoinedLogin ==
  ASSUME TypeInv, LoginInv, NEW c \in Conns, Joined(c), ~NullCrash
  PROVE  LoginInv'
<1>0. TypeOK /\ Local(c) /\ OneRequest(c)
  BY DEF TypeInv, LoginInv, LoginPart
<1>1. /\ pc[c] = "notify"
      /\ pc' = [pc EXCEPT ![c] = IF req[c] # NoReq THEN "replace" ELSE "detach"]
      /\ UNCHANGED <<uidSession, session, freeBlocks, chan, peer, as, shut, req, mine, old>>
  BY TypeInv DEF Joined, At, Running, Goto, NoFault, sessionVars, clientVars, localVars,
     WorkersDone
<1>2. /\ pc'[c] = IF req[c] # NoReq THEN "replace" ELSE "detach"
  BY <1>0, <1>1 DEF TypeOK, SessionTypeOK
<1>3. \A d \in Conns \ {c} : Still(d)
  BY <1>0, <1>1 DEF TypeOK, SessionTypeOK, Still
<1>4. OneRequest(c)'
  BY <1>0, <1>1, <1>2, ServerAssumption DEF OneRequest, Local, Resting, Entering, SendPc
<1>5. LoggedIn(c)' => LoggedIn(c)
  BY <1>0, <1>1, <1>2 DEF LoggedIn, Leaving, Open, OneRequest, Local, Resting, Entering,
     SendPc
<1>6. /\ pc[c] = "erase" => pc'[c] = "erase"
      /\ pc'[c] \in {"erase", "insuid"} =>
           pc'[c] = pc[c] /\ req'[c] = req[c] /\ old'[c] = old[c]
      /\ Fresh(c)' => Fresh(c)
      /\ Placing(c)' => Placing(c) /\ mine'[c] = mine[c]
      /\ Placed(c)' => Placed(c) /\ mine'[c] = mine[c] /\ req'[c] = req[c]
      /\ Serving(c)' => Serving(c) \/ ~LoginServed
  <2>1. CASE req[c] = NoReq
    <3>1. pc'[c] = "detach"
      BY <1>2, <2>1
    <3> QED BY <1>1, <2>1, <3>1 DEF Fresh, Placing, Placed, Serving
  <2>2. CASE req[c] # NoReq
    <3>1. pc'[c] = "replace"
      BY <1>2, <2>2
    <3> QED BY <1>1, <2>2, <3>1 DEF Fresh, Placing, Placed, Serving
  <2> QED BY <2>1, <2>2
<1>7. /\ \A u \in Users : \/ uidSession'[u] = uidSession[u]
                          \/ uidSession[u] = Absent /\ uidSession'[u] = Null
      /\ \A b \in Blocks : session'[b].con \in {session[b].con, Null}
  BY <1>1
<1> QED BY <1>1, <1>3, <1>4, <1>5, <1>6, <1>7, CalmKeeps DEF Calm

(* So does the socket map.                                                   *)
LEMMA InsertSockLogin ==
  ASSUME TypeInv, LoginInv, NEW c \in Conns, InsertSock(c), ~NullCrash
  PROVE  LoginInv'
<1>0. TypeOK /\ Local(c) /\ OneRequest(c)
  BY DEF TypeInv, LoginInv, LoginPart
<1>1. /\ pc[c] = "inssock"
      /\ pc' = [pc EXCEPT ![c] = "reply"]
      /\ UNCHANGED <<uidSession, session, freeBlocks, chan, peer, as, shut, req, mine, old>>
  BY TypeInv DEF InsertSock, At, Running, Goto, NoFault, sessionVars, clientVars,
     localVars, TypeInv, TypeOK, SessionTypeOK, Insert
<1>2. /\ pc'[c] = "reply"
  BY <1>0, <1>1 DEF TypeOK, SessionTypeOK
<1>3. \A d \in Conns \ {c} : Still(d)
  BY <1>0, <1>1 DEF TypeOK, SessionTypeOK, Still
<1>4. OneRequest(c)'
  BY <1>0, <1>1, <1>2, ServerAssumption DEF OneRequest, Local, Resting, Entering, SendPc
<1>5. LoggedIn(c)' => LoggedIn(c)
  BY <1>0, <1>1, <1>2 DEF LoggedIn, Leaving, Open, OneRequest, Local, Resting, Entering,
     SendPc
<1>6. /\ pc[c] = "erase" => pc'[c] = "erase"
      /\ pc'[c] \in {"erase", "insuid"} =>
           pc'[c] = pc[c] /\ req'[c] = req[c] /\ old'[c] = old[c]
      /\ Fresh(c)' => Fresh(c)
      /\ Placing(c)' => Placing(c) /\ mine'[c] = mine[c]
      /\ Placed(c)' => Placed(c) /\ mine'[c] = mine[c] /\ req'[c] = req[c]
      /\ Serving(c)' => Serving(c) \/ ~LoginServed
  BY <1>0, <1>1, <1>2 DEF Fresh, Placing, Placed, Serving, OneRequest, Local, Resting,
     Entering, SendPc
<1>7. /\ \A u \in Users : \/ uidSession'[u] = uidSession[u]
                          \/ uidSession[u] = Absent /\ uidSession'[u] = Null
      /\ \A b \in Blocks : session'[b].con \in {session[b].con, Null}
  BY <1>1
<1> QED BY <1>1, <1>3, <1>4, <1>5, <1>6, <1>7, CalmKeeps DEF Calm

(* The list has users only.                                                  *)
LEMMA GetOnlineLogin ==
  ASSUME TypeInv, LoginInv, NEW c \in Conns, GetOnline(c), ~NullCrash
  PROVE  LoginInv'
<1>0. TypeOK /\ Local(c) /\ OneRequest(c)
  BY DEF TypeInv, LoginInv, LoginPart
<1>1. /\ pc[c] = "online"
      /\ pc' = [pc EXCEPT ![c] = "reply"]
      /\ UNCHANGED <<uidSession, session, freeBlocks, chan, peer, as, shut, req, mine, old>>
  BY TypeInv DEF GetOnline, At, Running, Goto, NoFault, sessionVars, clientVars, localVars
<1>2. /\ pc'[c] = "reply"
  BY <1>0, <1>1 DEF TypeOK, SessionTypeOK
<1>3. \A d \in Conns \ {c} : Still(d)
  BY <1>0, <1>1 DEF TypeOK, SessionTypeOK, Still
<1>4. OneRequest(c)'
  BY <1>0, <1>1, <1>2, ServerAssumption DEF OneRequest, Local, Resting, Entering, SendPc
<1>5. LoggedIn(c)' => LoggedIn(c)
  BY <1>0, <1>1, <1>2 DEF LoggedIn, Leaving, Open, OneRequest, Local, Resting, Entering,
     SendPc
<1>6. /\ pc[c] = "erase" => pc'[c] = "erase"
      /\ pc'[c] \in {"erase", "insuid"} =>
           pc'[c] = pc[c] /\ req'[c] = req[c] /\ old'[c] = old[c]
      /\ Fresh(c)' => Fresh(c)
      /\ Placing(c)' => Placing(c) /\ mine'[c] = mine[c]
      /\ Placed(c)' => Placed(c) /\ mine'[c] = mine[c] /\ req'[c] = req[c]
      /\ Serving(c)' => Serving(c) \/ ~LoginServed
  BY <1>0, <1>1, <1>2 DEF Fresh, Placing, Placed, Serving, OneRequest, Local, Resting,
     Entering, SendPc
<1>7. /\ \A u \in Users : \/ uidSession'[u] = uidSession[u]
                          \/ uidSession[u] = Absent /\ uidSession'[u] = Null
      /\ \A b \in Blocks : session'[b].con \in {session[b].con, Null}
  BY <1>1
<1> QED BY <1>1, <1>3, <1>4, <1>5, <1>6, <1>7, CalmKeeps DEF Calm

(* The addressee's entry is read, or made null.                              *)
LEMMA LookupLogin ==
  ASSUME TypeInv, LoginInv, NEW c \in Conns, Lookup(c), ~NullCrash
  PROVE  LoginInv'
<1>0. TypeOK /\ Local(c) /\ OneRequest(c)
  BY DEF TypeInv, LoginInv, LoginPart
<1>1. /\ pc[c] = "lookup"
      /\ \E l \in {"reply", "golock"} : pc' = [pc EXCEPT ![c] = l]
      /\ \E b : mine' = [mine EXCEPT ![c] = b]
      /\ uidSession' = Touch(uidSession, req[c].to)
      /\ UNCHANGED <<session, freeBlocks, chan, peer, as, shut, req, old>>
  <2>1. mine = [mine EXCEPT ![c] = mine[c]]
    BY <1>0 DEF TypeOK
  <2> QED BY <2>1, Zenon DEF Lookup, At, Goto, clientVars
<1>2. /\ pc'[c] \in {"reply", "golock"}
  BY <1>0, <1>1 DEF TypeOK, SessionTypeOK
<1>3. \A d \in Conns \ {c} : Still(d)
  BY <1>0, <1>1 DEF TypeOK, SessionTypeOK, Still
<1>4. OneRequest(c)'
  BY <1>0, <1>1, <1>2, ServerAssumption DEF OneRequest, Local, Resting, Entering, SendPc
<1>5. LoggedIn(c)' => LoggedIn(c)
  BY <1>0, <1>1, <1>2 DEF LoggedIn, Leaving, Open, OneRequest, Local, Resting, Entering,
     SendPc
<1>6. /\ pc[c] = "erase" => pc'[c] = "erase"
      /\ pc'[c] \in {"erase", "insuid"} =>
           pc'[c] = pc[c] /\ req'[c] = req[c] /\ old'[c] = old[c]
      /\ Fresh(c)' => Fresh(c)
      /\ Placing(c)' => Placing(c) /\ mine'[c] = mine[c]
      /\ Placed(c)' => Placed(c) /\ mine'[c] = mine[c] /\ req'[c] = req[c]
      /\ Serving(c)' => Serving(c) \/ ~LoginServed
  BY <1>0, <1>1, <1>2 DEF Fresh, Placing, Placed, Serving, OneRequest, Local, Resting,
     Entering, SendPc
<1>7. /\ \A u \in Users : \/ uidSession'[u] = uidSession[u]
                          \/ uidSession[u] = Absent /\ uidSession'[u] = Null
      /\ \A b \in Blocks : session'[b].con \in {session[b].con, Null}
  BY <1>0, <1>1 DEF Touch, Insert, TypeOK, SessionTypeOK
<1> QED BY <1>1, <1>3, <1>4, <1>5, <1>6, <1>7, CalmKeeps DEF Calm

(* The connection of the session is read.                                    *)
LEMMA GoLockLogin ==
  ASSUME TypeInv, LoginInv, NEW c \in Conns, GoLock(c), ~NullCrash
  PROVE  LoginInv'
<1>0. TypeOK /\ Local(c) /\ OneRequest(c)
  BY DEF TypeInv, LoginInv, LoginPart
<1>1. /\ pc[c] = "golock"
      /\ pc' = [pc EXCEPT ![c] = "waitlock"]
      /\ UNCHANGED <<uidSession, session, freeBlocks, chan, peer, as, shut, req, mine, old>>
  BY TypeInv DEF GoLock, At, Running, Goto, NoFault, sessionVars, clientVars, localVars,
     TypeInv, TypeOK, SessionTypeOK, Local, SendPc, Session, ConnOf
<1>2. /\ pc'[c] = "waitlock"
  BY <1>0, <1>1 DEF TypeOK, SessionTypeOK
<1>3. \A d \in Conns \ {c} : Still(d)
  BY <1>0, <1>1 DEF TypeOK, SessionTypeOK, Still
<1>4. OneRequest(c)'
  BY <1>0, <1>1, <1>2, ServerAssumption DEF OneRequest, Local, Resting, Entering, SendPc
<1>5. LoggedIn(c)' => LoggedIn(c)
  BY <1>0, <1>1, <1>2 DEF LoggedIn, Leaving, Open, OneRequest, Local, Resting, Entering,
     SendPc
<1>6. /\ pc[c] = "erase" => pc'[c] = "erase"
      /\ pc'[c] \in {"erase", "insuid"} =>
           pc'[c] = pc[c] /\ req'[c] = req[c] /\ old'[c] = old[c]
      /\ Fresh(c)' => Fresh(c)
      /\ Placing(c)' => Placing(c) /\ mine'[c] = mine[c]
      /\ Placed(c)' => Placed(c) /\ mine'[c] = mine[c] /\ req'[c] = req[c]
      /\ Serving(c)' => Serving(c) \/ ~LoginServed
  BY <1>0, <1>1, <1>2 DEF Fresh, Placing, Placed, Serving, OneRequest, Local, Resting,
     Entering, SendPc
<1>7. /\ \A u \in Users : \/ uidSession'[u] = uidSession[u]
                          \/ uidSession[u] = Absent /\ uidSession'[u] = Null
      /\ \A b \in Blocks : session'[b].con \in {session[b].con, Null}
  BY <1>1
<1> QED BY <1>1, <1>3, <1>4, <1>5, <1>6, <1>7, CalmKeeps DEF Calm

(* The mutex of the addressee is taken.                                      *)
LEMMA WaitLockLogin ==
  ASSUME TypeInv, LoginInv, NEW c \in Conns, WaitLock(c), ~NullCrash
  PROVE  LoginInv'
<1>0. TypeOK /\ Local(c) /\ OneRequest(c)
  BY DEF TypeInv, LoginInv, LoginPart
<1>1. /\ pc[c] = "waitlock"
      /\ pc' = [pc EXCEPT ![c] = "push"]
      /\ UNCHANGED <<uidSession, session, freeBlocks, chan, peer, as, shut, req, mine, old>>
  BY TypeInv DEF WaitLock, At, Running, Goto, NoFault, sessionVars, clientVars, localVars
<1>2. /\ pc'[c] = "push"
  BY <1>0, <1>1 DEF TypeOK, SessionTypeOK
<1>3. \A d \in Conns \ {c} : Still(d)
  BY <1>0, <1>1 DEF TypeOK, SessionTypeOK, Still
<1>4. OneRequest(c)'
  BY <1>0, <1>1, <1>2, ServerAssumption DEF OneRequest, Local, Resting, Entering, SendPc
<1>5. LoggedIn(c)' => LoggedIn(c)
  BY <1>0, <1>1, <1>2 DEF LoggedIn, Leaving, Open, OneRequest, Local, Resting, Entering,
     SendPc
<1>6. /\ pc[c] = "erase" => pc'[c] = "erase"
      /\ pc'[c] \in {"erase", "insuid"} =>
           pc'[c] = pc[c] /\ req'[c] = req[c] /\ old'[c] = old[c]
      /\ Fresh(c)' => Fresh(c)
      /\ Placing(c)' => Placing(c) /\ mine'[c] = mine[c]
      /\ Placed(c)' => Placed(c) /\ mine'[c] = mine[c] /\ req'[c] = req[c]
      /\ Serving(c)' => Serving(c) \/ ~LoginServed
  BY <1>0, <1>1, <1>2 DEF Fresh, Placing, Placed, Serving, OneRequest, Local, Resting,
     Entering, SendPc
<1>7. /\ \A u \in Users : \/ uidSession'[u] = uidSession[u]
                          \/ uidSession[u] = Absent /\ uidSession'[u] = Null
      /\ \A b \in Blocks : session'[b].con \in {session[b].con, Null}
  BY <1>1
<1> QED BY <1>1, <1>3, <1>4, <1>5, <1>6, <1>7, CalmKeeps DEF Calm

(* A chat message is pushed into a connection.                               *)
LEMMA PushChatLogin ==
  ASSUME TypeInv, LoginInv, NEW c \in Conns, PushChat(c), ~NullCrash
  PROVE  LoginInv'
<1>0. TypeOK /\ Local(c) /\ OneRequest(c)
  BY DEF TypeInv, LoginInv, LoginPart
<1>1. /\ pc[c] = "push"
      /\ pc' = [pc EXCEPT ![c] = "unpush"]
      /\ UNCHANGED <<uidSession, session, freeBlocks, chan, peer, as, shut, req, mine, old>>
  BY PushOnly DEF PushChat, At, Goto, sessionVars, localVars
<1>2. /\ pc'[c] = "unpush"
  BY <1>0, <1>1 DEF TypeOK, SessionTypeOK
<1>3. \A d \in Conns \ {c} : Still(d)
  BY <1>0, <1>1 DEF TypeOK, SessionTypeOK, Still
<1>4. OneRequest(c)'
  BY <1>0, <1>1, <1>2, ServerAssumption DEF OneRequest, Local, Resting, Entering, SendPc
<1>5. LoggedIn(c)' => LoggedIn(c)
  BY <1>0, <1>1, <1>2 DEF LoggedIn, Leaving, Open, OneRequest, Local, Resting, Entering,
     SendPc
<1>6. /\ pc[c] = "erase" => pc'[c] = "erase"
      /\ pc'[c] \in {"erase", "insuid"} =>
           pc'[c] = pc[c] /\ req'[c] = req[c] /\ old'[c] = old[c]
      /\ Fresh(c)' => Fresh(c)
      /\ Placing(c)' => Placing(c) /\ mine'[c] = mine[c]
      /\ Placed(c)' => Placed(c) /\ mine'[c] = mine[c] /\ req'[c] = req[c]
      /\ Serving(c)' => Serving(c) \/ ~LoginServed
  BY <1>0, <1>1, <1>2 DEF Fresh, Placing, Placed, Serving, OneRequest, Local, Resting,
     Entering, SendPc
<1>7. /\ \A u \in Users : \/ uidSession'[u] = uidSession[u]
                          \/ uidSession[u] = Absent /\ uidSession'[u] = Null
      /\ \A b \in Blocks : session'[b].con \in {session[b].con, Null}
  BY <1>1
<1> QED BY <1>1, <1>3, <1>4, <1>5, <1>6, <1>7, CalmKeeps DEF Calm

(* A mutex is released.                                                      *)
LEMMA UnPushLogin ==
  ASSUME TypeInv, LoginInv, NEW c \in Conns, UnPush(c), ~NullCrash
  PROVE  LoginInv'
<1>0. TypeOK /\ Local(c) /\ OneRequest(c)
  BY DEF TypeInv, LoginInv, LoginPart
<1>1. /\ pc[c] = "unpush"
      /\ pc' = [pc EXCEPT ![c] = "reply"]
      /\ UNCHANGED <<uidSession, session, freeBlocks, chan, peer, as, shut, req, mine, old>>
  BY TypeInv DEF UnPush, At, Running, Goto, NoFault, sessionVars, clientVars, localVars,
     Unlock
<1>2. /\ pc'[c] = "reply"
  BY <1>0, <1>1 DEF TypeOK, SessionTypeOK
<1>3. \A d \in Conns \ {c} : Still(d)
  BY <1>0, <1>1 DEF TypeOK, SessionTypeOK, Still
<1>4. OneRequest(c)'
  BY <1>0, <1>1, <1>2, ServerAssumption DEF OneRequest, Local, Resting, Entering, SendPc
<1>5. LoggedIn(c)' => LoggedIn(c)
  BY <1>0, <1>1, <1>2 DEF LoggedIn, Leaving, Open, OneRequest, Local, Resting, Entering,
     SendPc
<1>6. /\ pc[c] = "erase" => pc'[c] = "erase"
      /\ pc'[c] \in {"erase", "insuid"} =>
           pc'[c] = pc[c] /\ req'[c] = req[c] /\ old'[c] = old[c]
      /\ Fresh(c)' => Fresh(c)
      /\ Placing(c)' => Placing(c) /\ mine'[c] = mine[c]
      /\ Placed(c)' => Placed(c) /\ mine'[c] = mine[c] /\ req'[c] = req[c]
      /\ Serving(c)' => Serving(c) \/ ~LoginServed
  BY <1>0, <1>1, <1>2 DEF Fresh, Placing, Placed, Serving, OneRequest, Local, Resting,
     Entering, SendPc
<1>7. /\ \A u \in Users : \/ uidSession'[u] = uidSession[u]
                          \/ uidSession[u] = Absent /\ uidSession'[u] = Null
      /\ \A b \in Blocks : session'[b].con \in {session[b].con, Null}
  BY <1>1
<1> QED BY <1>1, <1>3, <1>4, <1>5, <1>6, <1>7, CalmKeeps DEF Calm

(* The session of the connection goes offline.                               *)
LEMMA DisconnectLogin ==
  ASSUME TypeInv, LoginInv, NEW c \in Conns, Disconnect(c), ~NullCrash
  PROVE  LoginInv'
<1>0. TypeOK /\ Local(c) /\ OneRequest(c)
  BY DEF TypeInv, LoginInv, LoginPart
<1>1. /\ pc[c] = "disc"
      /\ \E l \in {"destroy", "notify"} : pc' = [pc EXCEPT ![c] = l]
      /\ \E b : mine' = [mine EXCEPT ![c] = b]
      /\ \A b \in Blocks : session'[b].con = session[b].con
      /\ UNCHANGED <<uidSession, freeBlocks, chan, peer, as, shut, req, old>>
  <2>1. mine = [mine EXCEPT ![c] = mine[c]] /\ session \in [Blocks -> Session]
        /\ sockSession[c] \in Blocks \cup {Absent, Null}
    BY <1>0 DEF TypeOK, SessionTypeOK
  <2>2. CASE sockSession[c] = Absent
    BY <2>1, <2>2 DEF Disconnect, At, Goto, sessionVars, clientVars, localVars
  <2>3. CASE sockSession[c] # Absent
    <3>1. PICK b \in Blocks : b = sockSession[c]
      BY <2>1, <2>3 DEF Disconnect
    <3>2. /\ session' = Offline(b) /\ mine' = [mine EXCEPT ![c] = b]
          /\ pc[c] = "disc" /\ pc' = [pc EXCEPT ![c] = "notify"]
          /\ UNCHANGED <<uidSession, freeBlocks, chan, peer, as, shut, req, old>>
      BY <2>3, <3>1 DEF Disconnect, At, StartNotices, Goto, clientVars
    <3>3. \A x \in Blocks : session'[x].con = session[x].con
      BY <2>1, <3>2 DEF Offline, Session
    <3> QED BY <3>2, <3>3
  <2> QED BY <2>2, <2>3
<1>2. /\ pc'[c] \in {"destroy", "notify"}
  BY <1>0, <1>1 DEF TypeOK, SessionTypeOK
<1>3. \A d \in Conns \ {c} : Still(d)
  BY <1>0, <1>1 DEF TypeOK, SessionTypeOK, Still
<1>4. OneRequest(c)'
  BY <1>0, <1>1, <1>2, ServerAssumption DEF OneRequest, Local, Resting, Entering, SendPc
<1>5. LoggedIn(c)' => LoggedIn(c)
  BY <1>0, <1>1, <1>2 DEF LoggedIn, Leaving, Open, OneRequest, Local, Resting, Entering,
     SendPc
<1>6. /\ pc[c] = "erase" => pc'[c] = "erase"
      /\ pc'[c] \in {"erase", "insuid"} =>
           pc'[c] = pc[c] /\ req'[c] = req[c] /\ old'[c] = old[c]
      /\ Fresh(c)' => Fresh(c)
      /\ Placing(c)' => Placing(c) /\ mine'[c] = mine[c]
      /\ Placed(c)' => Placed(c) /\ mine'[c] = mine[c] /\ req'[c] = req[c]
      /\ Serving(c)' => Serving(c) \/ ~LoginServed
  BY <1>0, <1>1, <1>2 DEF Fresh, Placing, Placed, Serving, OneRequest, Local, Resting,
     Entering, SendPc
<1>7. /\ \A u \in Users : \/ uidSession'[u] = uidSession[u]
                          \/ uidSession[u] = Absent /\ uidSession'[u] = Null
      /\ \A b \in Blocks : session'[b].con \in {session[b].con, Null}
  BY <1>1
<1> QED BY <1>1, <1>3, <1>4, <1>5, <1>6, <1>7, CalmKeeps DEF Calm

(* The session loses its connection.                                         *)
LEMMA DetachLogin ==
  ASSUME TypeInv, LoginInv, NEW c \in Conns, Detach(c), ~NullCrash
  PROVE  LoginInv'
<1>0. TypeOK /\ Local(c) /\ OneRequest(c)
  BY DEF TypeInv, LoginInv, LoginPart
<1>1. /\ pc[c] = "detach"
      /\ session' = [session EXCEPT ![mine[c]].con = Null]
      /\ pc' = [pc EXCEPT ![c] = "erasesock"]
      /\ UNCHANGED <<uidSession, freeBlocks, chan, peer, as, shut, req, mine, old>>
  BY TypeInv DEF Detach, At, Running, Goto, NoFault, sessionVars, clientVars, localVars
<1>2. /\ pc'[c] = "erasesock"
  BY <1>0, <1>1 DEF TypeOK, SessionTypeOK
<1>3. \A d \in Conns \ {c} : Still(d)
  BY <1>0, <1>1 DEF TypeOK, SessionTypeOK, Still
<1>4. OneRequest(c)'
  BY <1>0, <1>1, <1>2, ServerAssumption DEF OneRequest, Local, Resting, Entering, SendPc
<1>5. LoggedIn(c)' => LoggedIn(c)
  BY <1>0, <1>1, <1>2 DEF LoggedIn, Leaving, Open, OneRequest, Local, Resting, Entering,
     SendPc
<1>6. /\ pc[c] = "erase" => pc'[c] = "erase"
      /\ pc'[c] \in {"erase", "insuid"} =>
           pc'[c] = pc[c] /\ req'[c] = req[c] /\ old'[c] = old[c]
      /\ Fresh(c)' => Fresh(c)
      /\ Placing(c)' => Placing(c) /\ mine'[c] = mine[c]
      /\ Placed(c)' => Placed(c) /\ mine'[c] = mine[c] /\ req'[c] = req[c]
      /\ Serving(c)' => Serving(c) \/ ~LoginServed
  BY <1>0, <1>1, <1>2 DEF Fresh, Placing, Placed, Serving, OneRequest, Local, Resting,
     Entering, SendPc
<1>7. /\ \A u \in Users : \/ uidSession'[u] = uidSession[u]
                          \/ uidSession[u] = Absent /\ uidSession'[u] = Null
      /\ \A b \in Blocks : session'[b].con \in {session[b].con, Null}
  BY <1>0, <1>1, InLogin DEF TypeOK, SessionTypeOK, Session
<1> QED BY <1>1, <1>3, <1>4, <1>5, <1>6, <1>7, CalmKeeps DEF Calm

(* The socket map forgets the session.                                       *)
LEMMA EraseSockLogin ==
  ASSUME TypeInv, LoginInv, NEW c \in Conns, EraseSock(c), ~NullCrash
  PROVE  LoginInv'
<1>0. TypeOK /\ Local(c) /\ OneRequest(c)
  BY DEF TypeInv, LoginInv, LoginPart
<1>1. /\ pc[c] = "erasesock"
      /\ mine' = [mine EXCEPT ![c] = Null]
      /\ pc' = [pc EXCEPT ![c] = "destroy"]
      /\ UNCHANGED <<uidSession, session, freeBlocks, chan, peer, as, shut, req, old>>
  BY TypeInv DEF EraseSock, At, Running, Goto, NoFault, sessionVars, clientVars,
     localVars, Erase
<1>2. /\ mine'[c] = Null
      /\ pc'[c] = "destroy"
  BY <1>0, <1>1 DEF TypeOK, SessionTypeOK
<1>3. \A d \in Conns \ {c} : Still(d)
  BY <1>0, <1>1 DEF TypeOK, SessionTypeOK, Still
<1>4. OneRequest(c)'
  BY <1>0, <1>1, <1>2, ServerAssumption DEF OneRequest, Local, Resting, Entering, SendPc
<1>5. LoggedIn(c)' => LoggedIn(c)
  BY <1>0, <1>1, <1>2 DEF LoggedIn, Leaving, Open, OneRequest, Local, Resting, Entering,
     SendPc
<1>6. /\ pc[c] = "erase" => pc'[c] = "erase"
      /\ pc'[c] \in {"erase", "insuid"} =>
           pc'[c] = pc[c] /\ req'[c] = req[c] /\ old'[c] = old[c]
      /\ Fresh(c)' => Fresh(c)
      /\ Placing(c)' => Placing(c) /\ mine'[c] = mine[c]
      /\ Placed(c)' => Placed(c) /\ mine'[c] = mine[c] /\ req'[c] = req[c]
      /\ Serving(c)' => Serving(c) \/ ~LoginServed
  BY <1>0, <1>1, <1>2 DEF Fresh, Placing, Placed, Serving, OneRequest, Local, Resting,
     Entering, SendPc
<1>7. /\ \A u \in Users : \/ uidSession'[u] = uidSession[u]
                          \/ uidSession[u] = Absent /\ uidSession'[u] = Null
      /\ \A b \in Blocks : session'[b].con \in {session[b].con, Null}
  BY <1>1
<1> QED BY <1>1, <1>3, <1>4, <1>5, <1>6, <1>7, CalmKeeps DEF Calm

(* The connection is gone.                                                   *)
LEMMA DestroyLogin ==
  ASSUME TypeInv, LoginInv, NEW c \in Conns, Destroy(c), ~NullCrash
  PROVE  LoginInv'
<1>0. TypeOK /\ Local(c) /\ OneRequest(c)
  BY DEF TypeInv, LoginInv, LoginPart
<1>1. /\ pc[c] = "destroy"
      /\ pc' = [pc EXCEPT ![c] = "gone"]
      /\ peer' = [peer EXCEPT ![c] = "closed"]
      /\ UNCHANGED <<uidSession, session, freeBlocks, chan, as, shut, req, mine, old>>
  BY TypeInv DEF Destroy, At, Running, Goto, NoFault, sessionVars, clientVars, localVars
<1>2. /\ pc'[c] = "gone"
      /\ peer'[c] = "closed"
  BY <1>0, <1>1 DEF TypeOK, SessionTypeOK
<1>3. \A d \in Conns \ {c} : Still(d)
  BY <1>0, <1>1 DEF TypeOK, SessionTypeOK, Still
<1>4. OneRequest(c)'
  BY <1>0, <1>1, <1>2, ServerAssumption DEF OneRequest, Local, Resting, Entering, SendPc
<1>5. LoggedIn(c)' => LoggedIn(c)
  BY <1>0, <1>1, <1>2 DEF LoggedIn, Leaving, Open, OneRequest, Local, Resting, Entering,
     SendPc
<1>6. /\ pc[c] = "erase" => pc'[c] = "erase"
      /\ pc'[c] \in {"erase", "insuid"} =>
           pc'[c] = pc[c] /\ req'[c] = req[c] /\ old'[c] = old[c]
      /\ Fresh(c)' => Fresh(c)
      /\ Placing(c)' => Placing(c) /\ mine'[c] = mine[c]
      /\ Placed(c)' => Placed(c) /\ mine'[c] = mine[c] /\ req'[c] = req[c]
      /\ Serving(c)' => Serving(c) \/ ~LoginServed
  BY <1>0, <1>1, <1>2 DEF Fresh, Placing, Placed, Serving, OneRequest, Local, Resting,
     Entering, SendPc
<1>7. /\ \A u \in Users : \/ uidSession'[u] = uidSession[u]
                          \/ uidSession[u] = Absent /\ uidSession'[u] = Null
      /\ \A b \in Blocks : session'[b].con \in {session[b].con, Null}
  BY <1>1
<1> QED BY <1>1, <1>3, <1>4, <1>5, <1>6, <1>7, CalmKeeps DEF Calm

(* While c serves a login, nobody else does; what a step of c must leave to  *)
(* the others is then little.                                                *)
LEMMA Bystander ==
  ASSUME TypeInv, LoginInv, NEW c \in Conns, NEW d \in Conns, c # d, Serving(c), Still(d),
         Known(d)' => Known(d), Entry(d)'
  PROVE  LoginPart(d)'
<1>1. ~Serving(d) /\ OneRequest(d) /\ OneSession(d)
  BY DEF LoginInv, LoginPart
<1>2. ~Placing(d) /\ ~Placed(d) /\ pc[d] \notin {"erase", "insuid", "login"}
  BY <1>1, InLogin DEF Placing
<1>3. OneRequest(d)' /\ ~Placing(d)' /\ ~Placed(d)'
  BY <1>1, <1>2, StillSame
<1>4. OneSession(d)'
  BY <1>1, <1>3, StillSame DEF OneSession
<1>5. OwnBlock(d)' /\ Alone(d)'
  BY <1>2, <1>3 DEF OwnBlock, Alone, Still
<1> QED BY <1>3, <1>4, <1>5 DEF LoginPart

(* Who is logged in stays, with its session and its entry.                   *)
LEMMA EntryStays ==
  ASSUME LoginInv, NEW d \in Conns, as'[d] = as[d], LoggedIn(d)' => LoggedIn(d),
         Known(d)' => Known(d),
         LoggedIn(d) /\ Known(d) => uidSession'[as[d]] = uidSession[as[d]],
         LoggedIn(d) /\ uidSession[as[d]] \in Blocks =>
           session'[uidSession[as[d]]] = session[uidSession[as[d]]]
  PROVE  Entry(d)'
BY DEF LoginInv, LoginPart, Entry

(* One login is served at a time, also after a step that starts none.        *)
LEMMA OneServed ==
  ASSUME LoginInv, NEW c \in Conns, \A d \in Conns \ {c} : Still(d),
         Serving(c)' => Serving(c)
  PROVE  \A d, e \in Conns : Serving(d)' /\ Serving(e)' => d = e
<1>1. ASSUME NEW d \in Conns PROVE Serving(d)' => Serving(d)
  BY StillSame
<1> QED BY <1>1 DEF LoginInv

(* A session is made in a free block, which leads nowhere yet.               *)
LEMMA LoginLogin ==
  ASSUME TypeInv, LoginInv, NEW c \in Conns, Login(c), ~NullCrash
  PROVE  LoginInv'
<1>0. TypeOK /\ Local(c) /\ LoginPart(c) /\ BlockPart
  BY DEF TypeInv, LoginInv
<1>1. PICK b : b = Head(freeBlocks)
  OBVIOUS
<1>2. /\ pc[c] = "login" /\ freeBlocks # <<>>
      /\ mine' = [mine EXCEPT ![c] = b] /\ freeBlocks' = Tail(freeBlocks)
      /\ session' = [session EXCEPT ![b] = NewSession(c, req[c].user)]
      /\ pc' = [pc EXCEPT ![c] = "notify"]
      /\ UNCHANGED <<uidSession, chan, peer, as, shut, req, old>>
  BY <1>1 DEF Login, At, Goto, StartNotices, clientVars
<1>3. /\ Serving(c) /\ req[c] # NoReq /\ req[c].op = "login" /\ as[c] = NoUser /\ chan[c] = NoReq
  BY <1>0, <1>2, InLogin DEF LoginPart, OneRequest
<1>4. /\ b \in Blocks /\ ~NotFree(b)
      /\ \A i \in 1..Len(freeBlocks') : freeBlocks'[i] # b
      /\ \A x \in Blocks : NotFree(x) => \A i \in 1..Len(freeBlocks') : freeBlocks'[i] # x
      /\ \A i, j \in 1..Len(freeBlocks') : freeBlocks'[i] = freeBlocks'[j] => i = j
  <2>1. freeBlocks \in Seq(Blocks) /\ Len(freeBlocks) \in Nat
    BY <1>0 DEF TypeOK, SessionTypeOK
  <2>2. /\ 1 \in 1..Len(freeBlocks) /\ freeBlocks[1] = b /\ b \in Blocks
        /\ \A i \in 1..Len(freeBlocks') : /\ i + 1 \in 1..Len(freeBlocks) /\ i \in Nat
                                          /\ freeBlocks'[i] = freeBlocks[i + 1]
    BY <1>1, <1>2, <2>1
  <2>3. \A i, j \in 1..Len(freeBlocks) : freeBlocks[i] = freeBlocks[j] => i = j
    BY <1>0 DEF BlockPart
  <2> HIDE <1>2
  <2>4. \A i \in 1..Len(freeBlocks') : freeBlocks'[i] # b
    BY <2>2, <2>3
  <2>5. \A x \in Blocks : NotFree(x) => \A i \in 1..Len(freeBlocks') : freeBlocks'[i] # x
    BY <2>2 DEF NotFree
  <2>6. \A i, j \in 1..Len(freeBlocks') : freeBlocks'[i] = freeBlocks'[j] => i = j
    <3> SUFFICES ASSUME NEW i \in 1..Len(freeBlocks'), NEW j \in 1..Len(freeBlocks'),
                        freeBlocks'[i] = freeBlocks'[j]
                 PROVE  i = j
      OBVIOUS
    <3>1. i + 1 = j + 1 /\ i \in Nat /\ j \in Nat
      BY <2>2, <2>3
    <3> QED BY <3>1
  <2> QED BY <2>2, <2>4, <2>5, <2>6 DEF NotFree
<1>5. \A u \in Users : uidSession[u] # b /\ (uidSession[u] \in Blocks => NotFree(uidSession[u]))
  <2> SUFFICES ASSUME NEW u \in Users
               PROVE  uidSession[u] # b /\ (uidSession[u] \in Blocks => NotFree(uidSession[u]))
    OBVIOUS
  <2>1. ASSUME NEW d \in Conns, pc[d] = "erase" PROVE FALSE
    <3>1. Serving(d)
      BY <2>1, InLogin
    <3> QED BY <1>2, <1>3, <2>1, <3>1 DEF LoginInv
  <2> QED BY <1>0, <1>4, <2>1 DEF BlockPart
<1>6. /\ \A x \in Blocks \ {b} : session'[x] = session[x]
      /\ session'[b].con = c
      /\ \A x \in Blocks : session[x].con # c
  <2>1. ~Known(c)
    BY <1>0, <1>2 DEF LoginPart, OneSession, Fresh
  <2> QED BY <1>0, <1>2, <1>4, <2>1 DEF TypeOK, SessionTypeOK, NewSession, Known
<1>7. \A d \in Conns \ {c} : Still(d)
  BY <1>0, <1>2 DEF TypeOK, SessionTypeOK, Still
<1>8. pc'[c] = "notify" /\ req'[c] = req[c] /\ mine'[c] = b
  BY <1>0, <1>2 DEF TypeOK
<1>9. ASSUME NEW d \in Conns
      PROVE  (LoggedIn(d)' => LoggedIn(d)) /\ (d # c => (Known(d)' => Known(d)))
  <2>1. LoggedIn(d)' => LoggedIn(d)
    <3>1. CASE d = c
      BY <1>2, <1>3, <3>1 DEF LoggedIn
    <3>2. CASE d # c
      BY <1>2, <1>7, <3>2, StillLoggedIn
    <3> QED BY <3>1, <3>2
  <2>2. d # c => (Known(d)' => Known(d))
    BY <1>6 DEF Known
  <2> QED BY <2>1, <2>2
<1>a. BlockPart'
  <2>1. \A u \in Users : uidSession'[u] \in Blocks => NotFree(uidSession[u])'
    BY <1>2, <1>4, <1>5 DEF NotFree
  <2>2. \A x, y \in Blocks :
          session'[x].con \in Conns /\ session'[x].con = session'[y].con => x = y
    BY <1>0, <1>6 DEF BlockPart
  <2>3. \A u, v \in Users : uidSession'[u] \in Blocks /\ uidSession'[u] = uidSession'[v] => u = v
    BY <1>0, <1>2 DEF BlockPart
  <2> QED BY <1>4, <2>1, <2>2, <2>3 DEF BlockPart
<1>b. LoginPart(c)'
  <2>1. OneRequest(c)'
    BY <1>0, <1>2, <1>3, <1>8 DEF LoginPart, OneRequest
  <2>2. OneSession(c)'
    <3>1. ~Fresh(c)'
      BY <1>0, <1>2, <1>3, <1>8 DEF Fresh, LoginPart, OneRequest
    <3> QED BY <1>6, <1>8, <3>1 DEF OneSession
  <2>3. OwnBlock(c)'
    <3>1. NotFree(mine[c])'
      BY <1>4, <1>8 DEF NotFree
    <3>2. \A u \in Users : uidSession'[u] # mine'[c]
      BY <1>2, <1>5, <1>8
    <3> QED BY <1>8, <3>1, <3>2 DEF OwnBlock, Placed
  <2>4. Alone(c)' /\ Entry(c)'
    BY <1>2, <1>3, <1>8 DEF Alone, Entry, Placed, LoggedIn
  <2> QED BY <2>1, <2>2, <2>3, <2>4 DEF LoginPart
<1>c. ASSUME NEW d \in Conns, d # c PROVE LoginPart(d)'
  <2>1. Entry(d)'
    <3>1. LoggedIn(d) => as[d] \in Users
      BY <1>0 DEF LoggedIn, TypeOK
    <3>2. LoggedIn(d) /\ uidSession[as[d]] \in Blocks =>
            session'[uidSession[as[d]]] = session[uidSession[as[d]]]
      BY <1>5, <1>6, <3>1
    <3> QED BY <1>2, <1>9, <1>c, <3>1, <3>2, EntryStays
  <2> QED BY <1>3, <1>7, <1>9, <1>c, <2>1, Bystander
<1>d. SingleLogin'
  <2>1. \A d \in Conns : LoggedIn(d)' => d # c
    BY <1>2, <1>3 DEF LoggedIn
  <2> QED BY <1>2, <1>9, <2>1 DEF SingleLogin, LoginInv
<1>e. \A d, e \in Conns : Serving(d)' /\ Serving(e)' => d = e
  BY <1>3, <1>7, OneServed
<1> QED BY <1>a, <1>b, <1>c, <1>d, <1>e DEF LoginInv

(* The step that is left of an earlier session's end.  While one login is    *)
(* served, no other listener erases.                                         *)
LEMMA OneErases ==
  ASSUME TypeInv, LoginInv, NEW c \in Conns, Serving(c), NEW d \in Conns, pc[d] = "erase"
  PROVE  d = c
BY InLogin DEF LoginInv

(* The user has no session yet: nobody the server knows is logged in as it.  *)
LEMMA ReplaceNone ==
  ASSUME TypeInv, LoginInv, NEW c \in Conns, Replace(c), ~NullCrash,
         uidSession[req[c].user] = Absent
  PROVE  LoginInv'
<1>0. TypeOK /\ Local(c) /\ LoginPart(c) /\ BlockPart
  BY DEF TypeInv, LoginInv
<1>1. /\ pc[c] = "replace" /\ pc' = [pc EXCEPT ![c] = "insuid"]
      /\ UNCHANGED <<uidSession, session, freeBlocks, chan, peer, as, shut, req, mine, old>>
  BY DEF Replace, At, Goto, sessionVars, clientVars, localVars
<1>2. Placing(c) /\ Serving(c) /\ req[c] # NoReq /\ req[c].user \in Users /\ as[c] = NoUser
  BY <1>0, <1>1, InLogin DEF LoginPart, OneRequest, Placing
<1>3. pc'[c] = "insuid" /\ \A d \in Conns \ {c} : Still(d)
  BY <1>0, <1>1 DEF TypeOK, Still
<1>4. \A d \in Conns : /\ Known(d)' => Known(d)
                       /\ LoggedIn(d)' => LoggedIn(d)
  <2>1. LoggedIn(c)' => LoggedIn(c)
    BY <1>1, <1>2 DEF LoggedIn
  <2> QED BY <1>1, <1>3, <2>1, StillLoggedIn DEF Known
<1>5. ASSUME NEW d \in Conns PROVE Entry(d)'
  BY <1>1, <1>4, EntryStays
<1>6. LoginPart(c)'
  <2>1. OneRequest(c)' /\ OneSession(c)'
    BY <1>0, <1>1, <1>2, <1>3 DEF LoginPart, OneRequest, OneSession, Fresh, Placing, Placed, Known
  <2>2. OwnBlock(c)'
    BY <1>0, <1>1, <1>2, <1>3 DEF LoginPart, OwnBlock, Placed, NotFree
  <2>3. ASSUME NEW d \in Conns, LoggedIn(d), Known(d) PROVE as[d] # req[c].user
    BY <2>3, SessionAssumption DEF LoginInv, LoginPart, Entry
  <2>4. Alone(c)'
    BY <1>1, <1>4, <2>3 DEF Alone
  <2> QED BY <1>5, <2>1, <2>2, <2>4 DEF LoginPart
<1>7. ASSUME NEW d \in Conns, d # c PROVE LoginPart(d)'
  BY <1>2, <1>3, <1>4, <1>5, <1>7, Bystander
<1>8. BlockPart'
  <2>1. ASSUME NEW d \in Conns, pc[d] = "erase" PROVE FALSE
    BY <1>1, <1>2, <2>1, OneErases
  <2> QED BY <1>0, <1>1, <2>1 DEF BlockPart, NotFree
<1>9. SingleLogin'
  BY <1>1, <1>4 DEF SingleLogin, LoginInv
<1>a. \A d, e \in Conns : Serving(d)' /\ Serving(e)' => d = e
  BY <1>2, <1>3, OneServed
<1> QED BY <1>6, <1>7, <1>8, <1>9, <1>a DEF LoginInv

(* An earlier session is shut down, and its block, which was not free, is    *)
(* given back.                                                               *)
LEMMA ReplaceSome ==
  ASSUME TypeInv, LoginInv, NEW c \in Conns, Replace(c), ~NullCrash,
         uidSession[req[c].user] # Absent
  PROVE  LoginInv'
<1>0. TypeOK /\ Local(c) /\ LoginPart(c) /\ BlockPart
  BY DEF TypeInv, LoginInv
<1>1. pc[c] = "replace"
  BY DEF Replace, At
<1>2. Placing(c) /\ Serving(c) /\ req[c] # NoReq /\ req[c].user \in Users /\ as[c] = NoUser
      /\ req[c].op = "login"
  BY <1>0, <1>1, InLogin DEF LoginPart, OneRequest, Placing
<1>3. PICK b \in Blocks : b = uidSession[req[c].user]
  <2>1. uidSession[req[c].user] # Null
    BY DEF Replace
  <2> QED BY <1>0, <1>2, <2>1 DEF TypeOK, SessionTypeOK
<1>4. /\ pc' = [pc EXCEPT ![c] = "erase"] /\ old' = [old EXCEPT ![c] = b]
      /\ freeBlocks' = <<b>> \o freeBlocks
      /\ shut' = shut \cup ({session[b].con} \ {Null})
      /\ UNCHANGED <<uidSession, session, chan, peer, as, req, mine>>
  BY <1>3, SessionAssumption DEF Replace, Goto, CloseSocket, ConnOf, clientVars
<1>5. pc'[c] = "erase" /\ old'[c] = b /\ \A d \in Conns \ {c} : Still(d)
  BY <1>0, <1>4 DEF TypeOK, Still
<1>6. \A d \in Conns : /\ Known(d)' => Known(d)
                       /\ LoggedIn(d)' => LoggedIn(d)
  <2>1. LoggedIn(c)' => LoggedIn(c)
    BY <1>2, <1>4 DEF LoggedIn
  <2>2. shut \subseteq shut'
    BY <1>4
  <2>3. \A d \in Conns : Known(d)' => Known(d)
    BY <1>4 DEF Known
  <2> QED BY <1>5, <2>1, <2>2, <2>3, StillLoggedIn
<1>7. ASSUME NEW d \in Conns PROVE Entry(d)'
  BY <1>4, <1>6, EntryStays
<1>8. \A d \in Conns : pc[d] # "erase"
  BY <1>1, <1>2, OneErases
<1>9. /\ NotFree(b)
      /\ \A i, j \in 1..Len(freeBlocks') : freeBlocks'[i] = freeBlocks'[j] => i = j
      /\ \A x \in Blocks \ {b} : NotFree(x) => \A i \in 1..Len(freeBlocks') : freeBlocks'[i] # x
  <2>1. NotFree(b)
    BY <1>0, <1>2, <1>3, <1>8 DEF BlockPart
  <2>2. freeBlocks \in Seq(Blocks) /\ Len(freeBlocks) \in Nat
    BY <1>0 DEF TypeOK, SessionTypeOK
  <2>3. ASSUME NEW i \in 1..Len(freeBlocks')
        PROVE  /\ i \in Nat
               /\ i = 1 => freeBlocks'[i] = b
               /\ i # 1 => i - 1 \in 1..Len(freeBlocks) /\ freeBlocks'[i] = freeBlocks[i - 1]
    BY <1>4, <2>2
  <2>4. \A i, j \in 1..Len(freeBlocks) : freeBlocks[i] = freeBlocks[j] => i = j
    BY <1>0 DEF BlockPart
  <2>5. ASSUME NEW i \in 1..Len(freeBlocks'), NEW j \in 1..Len(freeBlocks'),
               freeBlocks'[i] = freeBlocks'[j]
        PROVE  i = j
    <3>1. CASE i = 1 \/ j = 1
      BY <2>1, <2>3, <2>5, <3>1 DEF NotFree
    <3>2. CASE i # 1 /\ j # 1
      <4>1. i - 1 = j - 1
        BY <2>3, <2>4, <2>5, <3>2
      <4> QED BY <2>3, <4>1
    <3> QED BY <3>1, <3>2
  <2>6. \A x \in Blocks \ {b} : NotFree(x) => \A i \in 1..Len(freeBlocks') : freeBlocks'[i] # x
    BY <2>3 DEF NotFree
  <2> QED BY <2>1, <2>5, <2>6
<1>a. LoginPart(c)'
  <2>1. OneRequest(c)' /\ OneSession(c)'
    BY <1>0, <1>2, <1>4, <1>5 DEF LoginPart, OneRequest, OneSession, Fresh, Placing, Placed, Known
  <2>2. OwnBlock(c)'
    <3>1. mine[c] \in Blocks /\ NotFree(mine[c]) /\ \A u \in Users : uidSession[u] # mine[c]
      BY <1>0, <1>2, InLogin DEF LoginPart, OwnBlock
    <3>2. NotFree(mine[c])'
      BY <1>2, <1>3, <1>4, <1>9, <3>1 DEF NotFree
    <3>3. \A u \in Users : uidSession'[u] # mine'[c]
      BY <1>4, <3>1
    <3>4. uidSession'[req'[c].user] = old'[c]
      BY <1>3, <1>4, <1>5
    <3> QED BY <1>5, <3>2, <3>3, <3>4 DEF OwnBlock, Placed
  <2>3. ASSUME NEW d \in Conns, LoggedIn(d)', Known(d)' PROVE as[d] # req[c].user
    <3> SUFFICES ASSUME as[d] = req[c].user PROVE FALSE
      OBVIOUS
    <3>1. session[b].con = d
      BY <1>3, <1>6, <2>3, SessionAssumption DEF LoginInv, LoginPart, Entry
    <3>2. d \in shut'
      BY <1>4, <3>1, SessionAssumption
    <3> QED BY <2>3, <3>2 DEF LoggedIn, Open
  <2>4. Alone(c)'
    BY <1>4, <2>3 DEF Alone
  <2> QED BY <1>7, <2>1, <2>2, <2>4 DEF LoginPart
<1>b. ASSUME NEW d \in Conns, d # c PROVE LoginPart(d)'
  BY <1>2, <1>5, <1>6, <1>7, <1>b, Bystander
<1>c. BlockPart'
  <2>1. ASSUME NEW u \in Users, uidSession'[u] \in Blocks
        PROVE  NotFree(uidSession[u])' \/ \E d \in Conns : pc'[d] = "erase" /\ req'[d].user = u
    <3>1. CASE uidSession[u] = b
      <4>1. u = req[c].user
        BY <1>0, <1>2, <1>3, <3>1 DEF BlockPart
      <4> QED BY <1>4, <1>5, <4>1
    <3>2. CASE uidSession[u] # b
      <4>1. uidSession[u] \in Blocks \ {b} /\ NotFree(uidSession[u])
        BY <1>0, <1>4, <1>8, <2>1, <3>2 DEF BlockPart
      <4> QED BY <1>4, <1>9, <4>1 DEF NotFree
    <3> QED BY <3>1, <3>2
  <2>2. /\ \A u, v \in Users : uidSession'[u] \in Blocks /\ uidSession'[u] = uidSession'[v] => u = v
        /\ \A x, y \in Blocks :
             session'[x].con \in Conns /\ session'[x].con = session'[y].con => x = y
    BY <1>0, <1>4 DEF BlockPart
  <2> QED BY <1>9, <2>1, <2>2 DEF BlockPart
<1>d. SingleLogin'
  BY <1>4, <1>6 DEF SingleLogin, LoginInv
<1>e. \A d, e \in Conns : Serving(d)' /\ Serving(e)' => d = e
  <2>1. Serving(c)' => Serving(c)
    BY <1>2
  <2> QED BY <1>5, <2>1, OneServed
<1> QED BY <1>a, <1>b, <1>c, <1>d, <1>e DEF LoginInv

(* The entry of the earlier session goes; by now nobody depends on it.       *)
LEMMA EraseOldLogin ==
  ASSUME TypeInv, LoginInv, NEW c \in Conns, EraseOld(c)
  PROVE  LoginInv'
<1>0. TypeOK /\ Local(c) /\ LoginPart(c) /\ BlockPart
  BY DEF TypeInv, LoginInv
<1>1. /\ pc[c] = "erase" /\ pc' = [pc EXCEPT ![c] = "insuid"]
      /\ uidSession' = [uidSession EXCEPT ![req[c].user] = Absent]
      /\ UNCHANGED <<session, freeBlocks, chan, peer, as, shut, req, mine, old>>
  BY DEF EraseOld, Erase, At, Goto, clientVars, localVars
<1>2. Placing(c) /\ Serving(c) /\ req[c] # NoReq /\ req[c].user \in Users /\ as[c] = NoUser
      /\ req[c].op = "login"
  BY <1>0, <1>1, InLogin DEF LoginPart, OneRequest, Placing
<1>3. pc'[c] = "insuid" /\ \A d \in Conns \ {c} : Still(d)
  BY <1>0, <1>1 DEF TypeOK, Still
<1>4. \A d \in Conns : /\ Known(d)' => Known(d)
                       /\ LoggedIn(d)' => LoggedIn(d)
  <2>1. LoggedIn(c)' => LoggedIn(c)
    BY <1>1, <1>2 DEF LoggedIn
  <2> QED BY <1>1, <1>3, <2>1, StillLoggedIn DEF Known
<1>5. /\ uidSession'[req[c].user] = Absent
      /\ \A u \in Users \ {req[c].user} : uidSession'[u] = uidSession[u]
  BY <1>0, <1>1, <1>2 DEF TypeOK, SessionTypeOK
<1>6. \A d \in Conns : LoggedIn(d) /\ Known(d) => as[d] # req[c].user
  BY <1>0, <1>1 DEF LoginPart, Alone
<1>7. ASSUME NEW d \in Conns PROVE Entry(d)'
  <2>1. LoggedIn(d) => as[d] \in Users
    BY <1>0 DEF LoggedIn, TypeOK
  <2>2. LoggedIn(d) /\ Known(d) => uidSession'[as[d]] = uidSession[as[d]]
    BY <1>5, <1>6, <2>1
  <2> QED BY <1>1, <1>4, <2>2, EntryStays
<1>8. LoginPart(c)'
  <2>1. OneRequest(c)' /\ OneSession(c)'
    BY <1>0, <1>1, <1>2, <1>3 DEF LoginPart, OneRequest, OneSession, Fresh, Placing, Placed, Known
  <2>2. OwnBlock(c)'
    <3>1. NotFree(mine[c]) /\ mine[c] \in Blocks /\ \A u \in Users : uidSession[u] # mine[c]
      BY <1>0, <1>2, InLogin DEF LoginPart, OwnBlock
    <3>2. NotFree(mine[c])'
      BY <1>1, <3>1 DEF NotFree
    <3>3. \A u \in Users : uidSession'[u] # mine'[c]
      BY <1>1, <1>5, <3>1, SessionAssumption
    <3>4. uidSession'[req'[c].user] \in {Absent, Null}
      BY <1>1, <1>5
    <3> QED BY <1>3, <3>2, <3>3, <3>4 DEF OwnBlock, Placed
  <2>3. Alone(c)'
    BY <1>1, <1>4, <1>6 DEF Alone
  <2> QED BY <1>7, <2>1, <2>2, <2>3 DEF LoginPart
<1>9. ASSUME NEW d \in Conns, d # c PROVE LoginPart(d)'
  BY <1>2, <1>3, <1>4, <1>7, <1>9, Bystander
<1>a. BlockPart'
  <2>1. \A u \in Users : uidSession'[u] \in Blocks =>
          u # req[c].user /\ uidSession'[u] = uidSession[u]
    BY <1>5, SessionAssumption
  <2>2. ASSUME NEW u \in Users, uidSession'[u] \in Blocks PROVE NotFree(uidSession[u])'
    <3>1. ASSUME NEW d \in Conns, pc[d] = "erase", req[d].user = u PROVE FALSE
      BY <1>2, <2>1, <2>2, <3>1, OneErases
    <3>2. NotFree(uidSession[u])
      BY <1>0, <2>1, <2>2, <3>1 DEF BlockPart
    <3> QED BY <1>1, <2>1, <2>2, <3>2 DEF NotFree
  <2>3. \A u, v \in Users : uidSession'[u] \in Blocks /\ uidSession'[u] = uidSession'[v] => u = v
    BY <1>0, <2>1 DEF BlockPart
  <2> QED BY <1>0, <1>1, <2>2, <2>3 DEF BlockPart
<1>b. SingleLogin'
  BY <1>1, <1>4 DEF SingleLogin, LoginInv
<1>c. \A d, e \in Conns : Serving(d)' /\ Serving(e)' => d = e
  BY <1>2, <1>3, OneServed
<1> QED BY <1>8, <1>9, <1>a, <1>b, <1>c DEF LoginInv

(* The new session becomes the entry, unless a message to the user has left  *)
(* a null pointer there.                                                     *)
LEMMA InsertUidLogin ==
  ASSUME TypeInv, LoginInv, NEW c \in Conns, InsertUid(c)
  PROVE  LoginInv'
<1>0. TypeOK /\ Local(c) /\ LoginPart(c) /\ BlockPart
  BY DEF TypeInv, LoginInv
<1>1. /\ pc[c] = "insuid" /\ pc' = [pc EXCEPT ![c] = "inssock"]
      /\ uidSession' = Insert(uidSession, req[c].user, mine[c])
      /\ UNCHANGED <<session, freeBlocks, chan, peer, as, shut, req, mine, old>>
  BY DEF InsertUid, At, Goto, clientVars, localVars
<1>2. Placing(c) /\ Serving(c) /\ req[c] # NoReq /\ req[c].user \in Users /\ as[c] = NoUser
      /\ req[c].op = "login" /\ mine[c] \in Blocks
  BY <1>0, <1>1, InLogin DEF LoginPart, OneRequest, Placing
<1>3. pc'[c] = "inssock" /\ \A d \in Conns \ {c} : Still(d)
  BY <1>0, <1>1 DEF TypeOK, Still
<1>4. \A d \in Conns : /\ Known(d)' => Known(d)
                       /\ LoggedIn(d)' => LoggedIn(d)
  <2>1. LoggedIn(c)' => LoggedIn(c)
    BY <1>1, <1>2 DEF LoggedIn
  <2> QED BY <1>1, <1>3, <2>1, StillLoggedIn DEF Known
<1>5. /\ uidSession'[req[c].user] \in {Null, mine[c]}
      /\ \A u \in Users \ {req[c].user} : uidSession'[u] = uidSession[u]
  <2>1. uidSession[req[c].user] \in {Absent, Null}
    BY <1>0, <1>1 DEF LoginPart, OwnBlock
  <2> QED BY <1>0, <1>1, <1>2, <2>1 DEF TypeOK, SessionTypeOK, Insert
<1>6. \A d \in Conns : LoggedIn(d) /\ Known(d) => as[d] # req[c].user
  BY <1>0, <1>1 DEF LoginPart, Alone
<1>7. ASSUME NEW d \in Conns PROVE Entry(d)'
  <2>1. LoggedIn(d) => as[d] \in Users
    BY <1>0 DEF LoggedIn, TypeOK
  <2>2. LoggedIn(d) /\ Known(d) => uidSession'[as[d]] = uidSession[as[d]]
    BY <1>5, <1>6, <2>1
  <2> QED BY <1>1, <1>4, <2>2, EntryStays
<1>8. LoginPart(c)'
  <2>1. OneRequest(c)' /\ OneSession(c)'
    BY <1>0, <1>1, <1>2, <1>3 DEF LoginPart, OneRequest, OneSession, Fresh, Placing, Placed, Known
  <2>2. OwnBlock(c)'
    BY <1>1, <1>3, <1>5 DEF OwnBlock, Placing
  <2>3. Alone(c)'
    BY <1>1, <1>4, <1>6 DEF Alone
  <2> QED BY <1>7, <2>1, <2>2, <2>3 DEF LoginPart
<1>9. ASSUME NEW d \in Conns, d # c PROVE LoginPart(d)'
  BY <1>2, <1>3, <1>4, <1>7, <1>9, Bystander
<1>a. BlockPart'
  <2>1. NotFree(mine[c]) /\ \A u \in Users : uidSession[u] # mine[c]
    BY <1>0, <1>2 DEF LoginPart, OwnBlock
  <2>2. ASSUME NEW d \in Conns, pc[d] = "erase" PROVE FALSE
    BY <1>1, <1>2, <2>2, OneErases
  <2>3. \A u \in Users : uidSession'[u] \in Blocks => NotFree(uidSession'[u])
    <3>1. \A u \in Users : uidSession[u] \in Blocks => NotFree(uidSession[u])
      BY <1>0, <2>2 DEF BlockPart
    <3> QED BY <1>5, <2>1, <3>1, SessionAssumption
  <2>4. \A u \in Users : uidSession'[u] \in Blocks => NotFree(uidSession[u])'
    BY <1>1, <2>3 DEF NotFree
  <2>5. ASSUME NEW u \in Users, NEW v \in Users, uidSession'[u] \in Blocks,
               uidSession'[u] = uidSession'[v]
        PROVE  u = v
    <3>1. CASE u = req[c].user
      BY <1>5, <2>1, <2>5, <3>1, SessionAssumption
    <3>2. CASE v = req[c].user
      BY <1>5, <2>1, <2>5, <3>2, SessionAssumption
    <3>3. CASE u # req[c].user /\ v # req[c].user
      BY <1>0, <1>5, <2>5, <3>3 DEF BlockPart
    <3> QED BY <3>1, <3>2, <3>3
  <2> QED BY <1>0, <1>1, <2>4, <2>5 DEF BlockPart
<1>b. SingleLogin'
  BY <1>1, <1>4 DEF SingleLogin, LoginInv
<1>c. \A d, e \in Conns : Serving(d)' /\ Serving(e)' => d = e
  BY <1>2, <1>3, OneServed
<1> QED BY <1>8, <1>9, <1>a, <1>b, <1>c DEF LoginInv

(* A reply that tells nobody that it is logged in.                           *)
LEMMA ReplyOther ==
  ASSUME TypeInv, LoginInv, NEW c \in Conns, Reply(c), ~NullCrash,
         req[c].op # "login" \/ ~Open(c)
  PROVE  LoginInv'
<1>0. TypeOK /\ Local(c) /\ OneRequest(c)
  BY DEF TypeInv, LoginInv, LoginPart
<1>1. /\ pc[c] = "reply" /\ req' = [req EXCEPT ![c] = NoReq]
      /\ mine' = [mine EXCEPT ![c] = Null] /\ old' = [old EXCEPT ![c] = Null]
      /\ pc' = [pc EXCEPT ![c] = IF req[c].op = "short" THEN "disc" ELSE "recv"]
      /\ UNCHANGED <<uidSession, session, freeBlocks, chan, shut>>
      /\ IF Open(c) THEN Learn(c) ELSE UNCHANGED <<peer, as>>
  BY DEF Reply, At, Goto, sessionVars
<1>2. /\ as' = as
      /\ peer' = (IF Open(c) THEN [peer EXCEPT ![c] = "ready"] ELSE peer)
  <2>1. CASE Open(c)
    <3>1. as' = [as EXCEPT ![c] = as[c]] /\ peer' = [peer EXCEPT ![c] = "ready"]
      BY <1>1, <2>1 DEF Learn
    <3> QED BY <1>0, <2>1, <3>1 DEF TypeOK
  <2>2. CASE ~Open(c)
    BY <1>1, <2>2
  <2> QED BY <2>1, <2>2
<1>3. /\ pc'[c] \in {"disc", "recv"} /\ req'[c] = NoReq
      /\ peer'[c] = (IF Open(c) THEN "ready" ELSE peer[c])
      /\ \A d \in Conns \ {c} : Still(d)
  BY <1>0, <1>1, <1>2 DEF TypeOK, Still
<1>4. req[c] # NoReq /\ chan[c] = NoReq /\ peer[c] \notin {"none", "ready"}
  BY <1>0, <1>1 DEF Local, OneRequest
<1>5. OneRequest(c)'
  <2>1. chan'[c] = NoReq /\ peer'[c] # "none"
    BY <1>1, <1>3, <1>4
  <2> QED BY <1>3, <2>1 DEF OneRequest
<1>6. as[c] = NoUser => ~Open(c)
  BY <1>0, <1>4 DEF OneRequest
<1>7. LoggedIn(c)' => LoggedIn(c)
  BY <1>1, <1>2, <1>3, <1>6 DEF LoggedIn, Leaving, Open
<1>8. /\ ~Fresh(c)' /\ ~Placing(c)' /\ ~Placed(c)' /\ ~Serving(c)'
      /\ pc[c] # "erase" /\ pc'[c] \notin {"erase", "insuid"}
  BY <1>1, <1>2, <1>3, <1>4, <1>6 DEF Fresh, Placing, Placed, Serving
<1> QED BY <1>1, <1>2, <1>3, <1>5, <1>7, <1>8, CalmKeeps DEF Calm

(* The reply to a login: of those the server knows, no other is logged in as *)
(* the user.                                                                 *)
LEMMA ReplyLogin ==
  ASSUME TypeInv, LoginInv, NEW c \in Conns, Reply(c), ~NullCrash,
         req[c].op = "login", Open(c)
  PROVE  LoginInv'
<1>0. TypeOK /\ Local(c) /\ LoginPart(c) /\ BlockPart
  BY DEF TypeInv, LoginInv
<1>1. /\ pc[c] = "reply" /\ req' = [req EXCEPT ![c] = NoReq]
      /\ mine' = [mine EXCEPT ![c] = Null] /\ old' = [old EXCEPT ![c] = Null]
      /\ pc' = [pc EXCEPT ![c] = "recv"]
      /\ peer' = [peer EXCEPT ![c] = "ready"]
      /\ as' = [as EXCEPT ![c] = req[c].user]
      /\ UNCHANGED <<uidSession, session, freeBlocks, chan, shut>>
  BY DEF Reply, Learn, At, Goto, sessionVars
<1>2. Placed(c) /\ Serving(c) /\ req[c] # NoReq /\ req[c].user \in Users /\ as[c] = NoUser
      /\ chan[c] = NoReq
  BY <1>0, <1>1, InLogin DEF LoginPart, OneRequest, Placed
<1>3. /\ pc'[c] = "recv" /\ req'[c] = NoReq /\ peer'[c] = "ready" /\ as'[c] = req[c].user
      /\ \A d \in Conns \ {c} : Still(d)
  BY <1>0, <1>1 DEF TypeOK, Still
<1>4. \A d \in Conns : /\ Known(d)' => Known(d)
                       /\ d # c => (LoggedIn(d)' => LoggedIn(d))
  BY <1>1, <1>3, StillLoggedIn DEF Known
<1>5. ASSUME NEW d \in Conns, d # c PROVE LoginPart(d)'
  <2>1. Entry(d)'
    BY <1>1, <1>3, <1>4, <1>5, EntryStays DEF Still
  <2> QED BY <1>2, <1>3, <1>4, <1>5, <2>1, Bystander
<1>6. LoginPart(c)'
  <2>1. OneRequest(c)'
    BY <1>1, <1>2, <1>3 DEF OneRequest
  <2>2. ~Fresh(c)' /\ ~Placing(c)' /\ ~Placed(c)'
    BY <1>1, <1>2, <1>3, SessionAssumption DEF Fresh, Placing, Placed
  <2>3. OneSession(c)' /\ OwnBlock(c)' /\ Alone(c)'
    BY <1>3, <2>2 DEF OneSession, OwnBlock, Alone
  <2>4. Entry(c)'
    <3>1. uidSession[req[c].user] \in {Null, mine[c]}
      BY <1>0, <1>2 DEF LoginPart, OwnBlock
    <3>2. ASSUME Known(c)
          PROVE  mine[c] \in Blocks /\ session[mine[c]].con = c
      <4>1. PICK b \in Blocks : session[b].con = c
        BY <3>2 DEF Known
      <4>2. b = mine[c]
        BY <1>0, <1>2, <4>1 DEF LoginPart, OneSession
      <4> QED BY <4>1, <4>2
    <3> QED BY <1>1, <1>3, <1>4, <3>1, <3>2 DEF Entry
  <2> QED BY <2>1, <2>3, <2>4 DEF LoginPart
<1>7. BlockPart'
  <2>1. \A d \in Conns : pc[d] # "erase"
    BY <1>1, <1>2, OneErases
  <2> QED BY <1>0, <1>1, <2>1 DEF BlockPart, NotFree
<1>8. SingleLogin'
  <2>1. \A d \in Conns : LoggedIn(d) /\ Known(d) => as[d] # req[c].user
    BY <1>0, <1>2 DEF LoginPart, Alone
  <2>2. \A d \in Conns \ {c} : LoggedIn(d)' /\ Known(d)' =>
                                 LoggedIn(d) /\ Known(d) /\ as'[d] = as[d]
    BY <1>3, <1>4 DEF Still
  <2> QED BY <1>3, <2>1, <2>2 DEF SingleLogin, LoginInv
<1>9. \A d, e \in Conns : Serving(d)' /\ Serving(e)' => d = e
  BY <1>2, <1>3, OneServed
<1> QED BY <1>5, <1>6, <1>7, <1>8, <1>9 DEF LoginInv

LEMMA LoginInit == Init => LoginInv
<1> SUFFICES ASSUME Init PROVE LoginInv
  OBVIOUS
<1>1. BlockPart
  BY FreeInit, SessionAssumption DEF Init, SessionInit, BlockPart
<1>2. ASSUME NEW c \in Conns PROVE ~Known(c) /\ ~Serving(c) /\ ~Placing(c) /\ ~Placed(c)
  BY <1>2, SessionAssumption DEF Init, SessionInit, Known, Serving, Placing, Placed
<1>3. ASSUME NEW c \in Conns PROVE LoginPart(c)
  <2>1. pc[c] = "none" /\ as[c] = NoUser /\ chan[c] = NoReq /\ req[c] = NoReq
    BY DEF Init
  <2> QED BY <1>2, <2>1 DEF LoginPart, OneRequest, OneSession, OwnBlock, Alone, Entry
<1> QED BY <1>1, <1>2, <1>3 DEF LoginInv, SingleLogin

LEMMA LoginStands ==
  ASSUME TypeInv, LoginInv, NullCrash \/ UNCHANGED vars
  PROVE  LoginInv'
<1>1. UNCHANGED <<uidSession, session, freeBlocks, chan, peer, as, shut, pc, req, mine, old>>
  BY DEF NullCrash, vars, sessionVars, clientVars, localVars
<1>2. ASSUME NEW c \in Conns PROVE LoginPart(c)'
  BY <1>1, ZenonT(60) DEF LoginInv, LoginPart, OneRequest, OneSession, OwnBlock, Alone, Entry, Fresh, Placing,
     Placed, Known, LoggedIn, Leaving, Open, NotFree
<1>3. BlockPart'
  BY <1>1 DEF LoginInv, BlockPart, NotFree
<1>4. SingleLogin' /\ \A c, d \in Conns : Serving(c)' /\ Serving(d)' => c = d
  BY <1>1 DEF LoginInv, SingleLogin, LoggedIn, Leaving, Open, Known, Serving
<1> QED BY <1>2, <1>3, <1>4 DEF LoginInv

LEMMA LoginNext ==
  ASSUME SerialLogin, TypeInv, LoginInv, [Next]_vars
  PROVE  LoginInv'
<1>1. CASE NullCrash \/ UNCHANGED vars
  BY <1>1, LoginStands
<1>2. CASE Next /\ ~NullCrash
  <2>1. ASSUME NEW c \in Conns, Receive(c) \/ ReceiveEof(c) \/ VisitNext(c) \/ Joined(c)
                                 \/ InsertSock(c) \/ GetOnline(c)
        PROVE  LoginInv'
    BY <1>2, <2>1, ReceiveLogin, ReceiveEofLogin, VisitNextLogin, JoinedLogin, InsertSockLogin,
       GetOnlineLogin
  <2>2. ASSUME NEW c \in Conns, \/ Lookup(c) \/ GoLock(c) \/ WaitLock(c) \/ PushChat(c) \/ UnPush(c)
                                 \/ Disconnect(c) \/ Detach(c) \/ EraseSock(c) \/ Destroy(c)
        PROVE  LoginInv'
    BY <1>2, <2>2, LookupLogin, GoLockLogin, WaitLockLogin, PushChatLogin, UnPushLogin,
       DisconnectLogin, DetachLogin, EraseSockLogin, DestroyLogin
  <2>3. ASSUME NEW c \in Conns, Login(c) \/ Replace(c) \/ EraseOld(c) \/ InsertUid(c) \/ Reply(c)
        PROVE  LoginInv'
    BY <1>2, <2>3, LoginLogin, ReplaceNone, ReplaceSome, EraseOldLogin, InsertUidLogin,
       ReplyOther, ReplyLogin
  <2>4. ASSUME NEW c \in Conns, NEW d \in Conns, Worker(c, d)
        PROVE  LoginInv'
    BY <1>2, <2>4, WorkerLogin
  <2>5. ASSUME NEW c \in Conns, Accept(c) \/ ClientRequest(c) \/ ClientClose(c)
        PROVE  LoginInv'
    BY <1>2, <2>5, AcceptLogin, ClientRequestLogin, ClientCloseLogin
  <2> QED BY <1>2, <2>1, <2>2, <2>3, <2>4, <2>5 DEF Next, Server, Client, Listener
<1> QED BY <1>1, <1>2

LEMMA LoginInvariant ==
  ASSUME SerialLogin
  PROVE  Spec => [](TypeInv /\ LoginInv)
<1>1. TypeInv /\ LoginInv /\ [Next]_vars => (TypeInv /\ LoginInv)'
  BY TypeNext, LoginNext
<1> QED BY <1>1, TypeInit, LoginInit, PTL DEF Spec

(* However often users log in again, and whatever connections are torn down  *)
(* meanwhile: as long as logins come one at a time, no block of the session  *)
(* pool is given back twice, and the map of users leads to a block that was  *)
(* given back only between the two halves of destroySessionByUid.            *)
THEOREM SessionsSound ==
  ASSUME SerialLogin
  PROVE  Spec => []BlocksSound
<1>1. TypeInv /\ LoginInv => BlocksSound
  <2> SUFFICES ASSUME TypeInv, LoginInv PROVE BlocksSound
    OBVIOUS
  <2>1. freeBlocks \in Seq(Blocks) /\ DOMAIN freeBlocks = 1..Len(freeBlocks)
    BY DEF TypeInv, TypeOK, SessionTypeOK
  <2>2. IsInjective(freeBlocks)
    BY <2>1 DEF LoginInv, BlockPart, IsInjective
  <2>3. ASSUME NEW u \in Users, uidSession[u] \in Range(freeBlocks)
        PROVE  \E c \in Conns : pc[c] = "erase" /\ old[c] = uidSession[u]
    <3>1. uidSession[u] \in Blocks /\ ~NotFree(uidSession[u])
      BY <2>1, <2>3 DEF Range, NotFree
    <3>2. PICK c \in Conns : pc[c] = "erase" /\ req[c].user = u
      BY <3>1 DEF LoginInv, BlockPart
    <3>3. old[c] = uidSession[u]
      BY <3>2 DEF LoginInv, LoginPart, OwnBlock
    <3> QED BY <3>2, <3>3
  <2> QED BY <2>2, <2>3 DEF BlocksSound
<1> QED BY <1>1, LoginInvariant, PTL

(* Then a user is logged in on one connection the server knows: a second     *)
(* login has shut the socket of the first before it takes its entry.         *)
THEOREM LoginMovesOver ==
  ASSUME SerialLogin
  PROVE  Spec => []SingleLogin
<1>1. TypeInv /\ LoginInv => SingleLogin
  BY DEF LoginInv
<1> QED BY <1>1, LoginInvariant, PTL

-----------------------------------------------------------------------------
(* One client per user.                                                      *)
Regular ==
  /\ ToLoggedIn
  /\ \A c, d \in Conns : \A r \in Requests[c], s \in Requests[d] :
       r.op = "login" /\ s.op = "login" /\ r.user = s.user => c = d

ChatType ==
  /\ uidSession \in [Users -> Blocks \cup {Absent}]
  /\ sockSession \in [Conns -> Blocks \cup {Absent}]
  /\ session \in [Blocks -> Session] /\ freeBlocks \in Seq(Blocks)
  /\ chan \in [Conns -> Request \cup {NoReq}] /\ req \in [Conns -> Request \cup {NoReq}]
  /\ peer \in [Conns -> {"none", "ready", "waiting", "closed"}]
  /\ as \in [Conns -> Users \cup {NoUser}]
  /\ pc \in [Conns -> PC] /\ lock \in [Conns -> Conns \cup {Null}]
  /\ mine \in [Conns -> Blocks \cup {Null}] /\ target \in [Conns -> Conns \cup {Null}]
  /\ DOMAIN got = Conns /\ DOMAIN work = Conns
  /\ shut = {}

(* A listener serves a request exactly in these places, with its mutex.      *)
LoginPc == {"login", "replace", "insuid", "inssock"}
Making(c) == pc[c] \in LoginPc \/ (pc[c] = "notify" /\ req[c] # NoReq)

(* A request a client may have sent: the first one is its login, and a       *)
(* message has an addressee with a session.                                  *)
Proper(c, r) ==
  /\ r \in Requests[c]
  /\ (r.op = "login") <=> (as[c] = NoUser)
  /\ r.op = "send" => r.to # as[c] /\ uidSession[r.to] \in Blocks

ReqOf(c) ==
  /\ pc[c] # "erase"
  /\ pc[c] \in LoginPc \cup SendPc \cup {"online", "reply"} => req[c] # NoReq
  /\ req[c] # NoReq => pc[c] \in LoginPc \cup SendPc \cup {"online", "reply", "notify"}
  /\ Making(c) => req[c].op = "login"
  /\ pc[c] \in SendPc => req[c].op = "send"
  /\ pc[c] = "online" => req[c].op = "online"
  /\ req[c] # NoReq => lock[c] = c /\ chan[c] = NoReq /\ Proper(c, req[c])
  /\ chan[c] # NoReq => Proper(c, chan[c])
  /\ peer[c] \in {"none", "ready"} => chan[c] = NoReq /\ req[c] = NoReq
  /\ peer[c] = "none" => pc[c] = "none"
  /\ as[c] # NoUser => uidSession[as[c]] \in Blocks

(* The session a listener works on, or its client has logged in with.        *)
MineOf(c) ==
  /\ Making(c) /\ pc[c] # "login" =>
       mine[c] \in Blocks /\ NotFree(mine[c]) /\ session[mine[c]] = NewSession(c, req[c].user)
  /\ pc[c] = "inssock" => uidSession[req[c].user] = mine[c] /\ sockSession[c] = Absent
  /\ pc[c] = "reply" /\ req[c].op = "login" =>
       /\ sockSession[c] \in Blocks /\ uidSession[req[c].user] = sockSession[c]
       /\ session[sockSession[c]] = NewSession(c, req[c].user)
  /\ as[c] # NoUser /\ ~Leaving(c) =>
       /\ sockSession[c] \in Blocks /\ uidSession[as[c]] = sockSession[c]
       /\ session[sockSession[c]] = NewSession(c, as[c])
  /\ pc[c] \in {"detach", "erasesock"} \/ (pc[c] = "notify" /\ req[c] = NoReq) =>
       mine[c] \in Blocks /\ mine[c] = sockSession[c]

(* A message is sent on the connection of the addressee's session, or on     *)
(* none.                                                                     *)
TargetOf(c) ==
  /\ pc[c] \in SendPc \ {"lookup"} => mine[c] = uidSession[req[c].to]
  /\ pc[c] \in {"waitlock", "push", "unpush"} =>
       target[c] \in Conns /\ session[mine[c]].con \in {target[c], Null}
  /\ pc[c] \in {"push", "unpush"} => lock[target[c]] = c

(* Whoever is the connection of a user's session has logged in as the user.  *)
OwnerOf(c) ==
  \A u \in Users : uidSession[u] \in Blocks /\ session[uidSession[u]].con = c =>
    \/ as[c] = u
    \/ as[c] = NoUser /\ peer[c] = "closed"
    \/ as[c] = NoUser /\ pc[c] \in {"inssock", "reply"} /\ req[c].user = u

(* The socket table leads to a session with this connection, until it is     *)
(* detached.                                                                 *)
SockOf(c) ==
  sockSession[c] \in Blocks =>
    /\ NotFree(sockSession[c])
    /\ session[sockSession[c]].con = (IF pc[c] = "erasesock" THEN Null ELSE c)

UserOK(u) == uidSession[u] \in Blocks => NotFree(uidSession[u]) /\ session[uidSession[u]].user = u

(* The tables lead to sessions of their own.                                 *)
TableInv ==
  /\ \A i, j \in 1..Len(freeBlocks) : freeBlocks[i] = freeBlocks[j] => i = j
  /\ \A u \in Users : UserOK(u)
  /\ \A c, d \in Conns : sockSession[c] \in Blocks /\ sockSession[c] = sockSession[d] => c = d

(* The login of c has come as far as the tables; c may have gone since, and  *)
(* have no request left.                                                     *)
Past(c) ==
  \/ as[c] # NoUser
  \/ pc[c] \in {"inssock", "reply"}
  \/ peer[c] = "closed" /\ chan[c] = NoReq /\ req[c] = NoReq

LoginOf(c, u) == \E r \in Requests[c] : r.op = "login" /\ r.user = u

(* Only such a connection is in a table or has a worker.                     *)
PastInv ==
  /\ \A c \in Conns : sockSession[c] \in Blocks => Past(c)
  /\ \A u \in Users : uidSession[u] \in Blocks => \E c \in Conns : Past(c) /\ LoginOf(c, u)
  /\ \A c, d \in Conns : d \in work[c] => Past(d)

Parts(c) == ReqOf(c) /\ MineOf(c) /\ TargetOf(c) /\ OwnerOf(c) /\ SockOf(c)
ChatInv ==
  /\ ChatType /\ TableInv /\ PastInv
  /\ \A c \in Conns : Parts(c)
  /\ NoEarlyPush /\ Addressed

-----------------------------------------------------------------------------
(* What a step of c leaves to the others.                                    *)
Same(d) ==
  /\ pc'[d] = pc[d] /\ req'[d] = req[d] /\ chan'[d] = chan[d] /\ peer'[d] = peer[d]
  /\ as'[d] = as[d] /\ mine'[d] = mine[d] /\ target'[d] = target[d]
  /\ sockSession'[d] = sockSession[d]
  /\ \A x \in Conns : lock[x] = d => lock'[x] = d

Frame(c) ==
  /\ \A d \in Conns \ {c} : Same(d)
  /\ \A u \in Users : uidSession[u] \in Blocks => uidSession'[u] = uidSession[u]
  /\ \A u \in Users : uidSession'[u] \in Blocks /\ uidSession[u] \notin Blocks =>
       session'[uidSession'[u]].con = c
  /\ \A b \in Blocks : NotFree(b) =>
       /\ NotFree(b)' /\ session'[b].con \in {session[b].con, Null}
       /\ session'[b].user = session[b].user
       /\ session[b].con # c => session'[b] = session[b]

LEMMA Here ==
  ASSUME ChatInv, NEW c \in Conns
  PROVE  /\ ReqOf(c) /\ MineOf(c) /\ TargetOf(c) /\ OwnerOf(c) /\ SockOf(c)
         /\ \A u \in Users : uidSession[u] \in Blocks => NotFree(uidSession[u])
         /\ req[c] # NoReq => req[c] \in Request
  BY DEF ChatInv, Parts, ChatType, TableInv, UserOK

(* Then what holds of another connection still holds.                        *)
LEMMA OtherReq ==
  ASSUME ChatInv, NEW c \in Conns, Frame(c), NEW d \in Conns, d # c
  PROVE  ReqOf(d)'
<1>1. ReqOf(d) /\ Same(d)
  BY Here DEF Frame
<1>2. /\ Making(d)' <=> Making(d)
      /\ lock[d] = d => lock'[d] = d
  BY <1>1 DEF Same, Making
<1>3. as[d] # NoUser => as[d] \in Users /\ uidSession'[as[d]] \in Blocks
  BY <1>1 DEF ChatInv, ChatType, Frame, ReqOf
<1>4. ASSUME NEW r \in Request, Proper(d, r) PROVE Proper(d, r)'
  <2>1. r.op = "send" => r.to \in Users
    BY DEF Request
  <2> QED
    BY <1>1, <1>4, <2>1 DEF Same, Proper, Frame
<1>5. (req[d] = NoReq \/ req[d] \in Request) /\ (chan[d] = NoReq \/ chan[d] \in Request)
  BY DEF ChatInv, ChatType
<1> QED
  BY <1>1, <1>2, <1>3, <1>4, <1>5 DEF ReqOf, Same

LEMMA OtherMine ==
  ASSUME ChatInv, NEW c \in Conns, Frame(c), NEW d \in Conns, d # c
  PROVE  MineOf(d)'
<1>1. MineOf(d) /\ ReqOf(d) /\ SockOf(d) /\ Same(d)
  BY Here DEF Frame
<1>2. (Making(d)' <=> Making(d)) /\ (Leaving(d)' <=> Leaving(d))
  BY <1>1 DEF Same, Making, Leaving
<1>3. ASSUME NEW b \in Blocks, NEW u, NotFree(b), session[b] = NewSession(d, u)
      PROVE  NotFree(b)' /\ session'[b] = NewSession(d, u)
  BY <1>3 DEF Frame, NewSession
<1>4. \A u \in Users : uidSession[u] \in Blocks => uidSession'[u] = uidSession[u]
  BY DEF Frame
<1>5. /\ req[d] # NoReq /\ req[d].op = "login" => req[d].user \in Users
      /\ as[d] # NoUser => as[d] \in Users
  BY DEF ChatInv, ChatType, Request
<1>6. Making(d) => req[d] # NoReq /\ req[d].op = "login"
  BY <1>1 DEF ReqOf, Making
<1>7. pc[d] = "reply" => req[d] # NoReq
  BY <1>1 DEF ReqOf
<1>8. pc[d] = "inssock" => Making(d)
  BY DEF Making, LoginPc
<1>9. /\ pc'[d] = pc[d] /\ req'[d] = req[d] /\ as'[d] = as[d] /\ mine'[d] = mine[d]
      /\ sockSession'[d] = sockSession[d]
  BY <1>1 DEF Same
<1>a. Making(d) /\ pc[d] # "login" => /\ mine[d] \in Blocks /\ NotFree(mine[d])'
                                     /\ session'[mine[d]] = NewSession(d, req[d].user)
  BY <1>1, <1>3, <1>9 DEF MineOf, NotFree
<1>b. pc[d] = "inssock" => uidSession'[req[d].user] = mine[d] /\ sockSession[d] = Absent
  BY <1>1, <1>4, <1>5, <1>6, <1>8 DEF MineOf
<1>c. pc[d] = "reply" /\ req[d].op = "login" =>
        /\ sockSession[d] \in Blocks /\ uidSession'[req[d].user] = sockSession[d]
        /\ session'[sockSession[d]] = NewSession(d, req[d].user)
  BY <1>1, <1>3, <1>4, <1>5, <1>7 DEF MineOf, SockOf
<1>d. as[d] # NoUser /\ ~Leaving(d) =>
        /\ sockSession[d] \in Blocks /\ uidSession'[as[d]] = sockSession[d]
        /\ session'[sockSession[d]] = NewSession(d, as[d])
  BY <1>1, <1>3, <1>4, <1>5 DEF MineOf, SockOf
<1>e. pc[d] \in {"detach", "erasesock"} \/ (pc[d] = "notify" /\ req[d] = NoReq) =>
        mine[d] \in Blocks /\ mine[d] = sockSession[d]
  BY <1>1 DEF MineOf
<1> QED
  BY <1>2, <1>9, <1>a, <1>b, <1>c, <1>d, <1>e DEF MineOf, NewSession

LEMMA OtherTarget ==
  ASSUME ChatInv, NEW c \in Conns, Frame(c), NEW d \in Conns, d # c
  PROVE  TargetOf(d)'
<1>1. TargetOf(d) /\ ReqOf(d) /\ Same(d)
  BY Here DEF Frame
<1>2. pc[d] \in SendPc => req[d] # NoReq /\ req[d].op = "send" /\ req[d] \in Request
        /\ req[d].to \in Users /\ uidSession[req[d].to] \in Blocks
  <2>1. req[d] = NoReq \/ req[d] \in Request
    BY DEF ChatInv, ChatType
  <2> QED
    BY <1>1, <2>1 DEF ReqOf, Proper, Request
<1>3. pc[d] \in SendPc => /\ uidSession'[req[d].to] = uidSession[req[d].to]
                          /\ NotFree(uidSession[req[d].to])
  BY <1>2, Here DEF Frame
<1>4. \A b \in Blocks : NotFree(b) => session'[b].con \in {session[b].con, Null}
  BY DEF Frame
<1> QED
  BY <1>1, <1>2, <1>3, <1>4 DEF TargetOf, SendPc, Same

LEMMA OtherTables ==
  ASSUME ChatInv, NEW c \in Conns, Frame(c), NEW d \in Conns, d # c
  PROVE  OwnerOf(d)' /\ SockOf(d)' /\ (Past(d) => Past(d)')
<1>1. OwnerOf(d) /\ SockOf(d) /\ Same(d)
  BY Here DEF Frame
<1>2. OwnerOf(d)'
  <2> SUFFICES ASSUME NEW u \in Users, uidSession'[u] \in Blocks, session'[uidSession'[u]].con = d
               PROVE  (\/ as[d] = u
                       \/ as[d] = NoUser /\ peer[d] = "closed"
                       \/ as[d] = NoUser /\ pc[d] \in {"inssock", "reply"} /\ req[d].user = u)
    BY <1>1 DEF OwnerOf, Same
  <2>1. uidSession[u] \in Blocks /\ uidSession'[u] = uidSession[u]
    BY DEF Frame
  <2>2. session[uidSession[u]].con = d
    BY <2>1, Here, SessionAssumption DEF Frame
  <2> QED
    BY <1>1, <2>1, <2>2 DEF OwnerOf
<1>3. SockOf(d)'
  <2> SUFFICES ASSUME sockSession[d] \in Blocks
               PROVE  /\ NotFree(sockSession[d])'
                      /\ session'[sockSession[d]].con = (IF pc[d] = "erasesock" THEN Null ELSE d)
    BY <1>1 DEF SockOf, Same, NotFree
  <2>1. /\ NotFree(sockSession[d])
        /\ session[sockSession[d]].con = (IF pc[d] = "erasesock" THEN Null ELSE d)
    BY <1>1 DEF SockOf
  <2>2. session[sockSession[d]].con # c
    BY <2>1, SessionAssumption
  <2> QED
    BY <1>1, <2>1, <2>2 DEF Frame, Same, NotFree
<1>4. Past(d) => Past(d)'
  BY <1>1 DEF Past, Same
<1> QED
  BY <1>2, <1>3, <1>4

(* A step of c that keeps its own parts keeps those of all.                  *)
LEMMA AllParts ==
  ASSUME ChatInv, NEW c \in Conns, Frame(c), Parts(c)', Past(c) => Past(c)'
  PROVE  /\ \A d \in Conns : Parts(d)'
         /\ \A d \in Conns : Past(d) => Past(d)'
<1>1. ASSUME NEW d \in Conns, d # c PROVE Parts(d)' /\ (Past(d) => Past(d)')
  BY <1>1, OtherReq, OtherMine, OtherTarget, OtherTables DEF Parts
<1> QED
  BY <1>1

(* A step that leaves the tables and the messages pushed so far alone.       *)
LEMMA PartsKept ==
  ASSUME ChatInv, ChatType', NEW c \in Conns, Frame(c), Parts(c)', Past(c) => Past(c)',
         uidSession' = uidSession, sockSession' = sockSession, session' = session,
         freeBlocks' = freeBlocks,
         \A d, e \in Conns : e \in work'[d] => e \in work[d] \/ Past(e)
  PROVE  ChatType' /\ TableInv' /\ PastInv' /\ \A d \in Conns : Parts(d)'
<1>1. /\ \A d \in Conns : Parts(d)'
      /\ \A d \in Conns : Past(d) => Past(d)'
  BY AllParts
<1>2. TableInv'
  BY DEF ChatInv, TableInv, UserOK, NotFree
<1>3. PastInv'
  BY <1>1 DEF ChatInv, PastInv, LoginOf
<1> QED
  BY <1>1, <1>2, <1>3

LEMMA QuietKeeps ==
  ASSUME ChatInv, ChatType', NEW c \in Conns, Frame(c), Parts(c)', Past(c) => Past(c)',
         uidSession' = uidSession, sockSession' = sockSession, session' = session,
         freeBlocks' = freeBlocks, got' = got,
         \A d, e \in Conns : e \in work'[d] => e \in work[d] \/ Past(e),
         as[c] # NoUser => as'[c] = as[c]
  PROVE  ChatInv'
<1>1. \A d \in Conns : as[d] # NoUser => as'[d] = as[d]
  BY DEF Frame, Same
<1>2. NoEarlyPush' /\ Addressed'
  BY <1>1 DEF ChatInv, NoEarlyPush, Addressed
<1>3. ChatType' /\ TableInv' /\ PastInv' /\ \A d \in Conns : Parts(d)'
  BY PartsKept
<1> QED
  BY <1>2, <1>3 DEF ChatInv

(* When the process has died, nothing else has changed.                      *)
LEMMA CrashKeeps ==
  ASSUME ChatInv, NullCrash \/ UNCHANGED vars
  PROVE  ChatInv'
<1>1. UNCHANGED <<uidSession, sockSession, session, freeBlocks, chan, peer, as, got, shut, lock, pc,
                  req, mine, work, target>>
  BY DEF NullCrash, vars, sessionVars, clientVars, localVars
<1>2. ChatType' /\ TableInv' /\ PastInv'
  <2>1. ChatType'
    BY <1>1 DEF ChatInv, ChatType
  <2>2. TableInv'
    BY <1>1 DEF ChatInv, TableInv, UserOK, NotFree
  <2>3. PastInv'
    BY <1>1 DEF ChatInv, PastInv, Past
  <2> QED
    BY <2>1, <2>2, <2>3
<1>3. \A c \in Conns : ReqOf(c) /\ MineOf(c) /\ TargetOf(c) /\ OwnerOf(c) /\ SockOf(c)
  BY Here
<1>4. ASSUME NEW c \in Conns PROVE Parts(c)'
  <2>1. ReqOf(c)'
    BY <1>1, <1>3 DEF ReqOf, Making, Proper
  <2>2. MineOf(c)'
    BY <1>1, <1>3 DEF MineOf, Making, Leaving, NotFree
  <2>3. TargetOf(c)' /\ OwnerOf(c)' /\ SockOf(c)'
    BY <1>1, <1>3 DEF TargetOf, OwnerOf, SockOf, NotFree
  <2> QED
    BY <2>1, <2>2, <2>3 DEF Parts
<1>5. NoEarlyPush' /\ Addressed'
  BY <1>1 DEF ChatInv, NoEarlyPush, Addressed
<1> QED
  BY <1>2, <1>4, <1>5 DEF ChatInv

(* Until its entry is made, nobody has the user of a login that is served.   *)
LEMMA Unplaced ==
  ASSUME Regular, ChatInv, NEW c \in Conns, Making(c), pc[c] # "inssock"
  PROVE  /\ req[c] \in Request /\ req[c].user \in Users /\ req[c].op = "login" /\ as[c] = NoUser
         /\ uidSession[req[c].user] = Absent /\ sockSession[c] = Absent /\ ~Past(c)
<1>1. ReqOf(c) /\ (req[c] # NoReq => req[c] \in Request)
  BY Here
<1>2. req[c] # NoReq /\ req[c].op = "login" /\ pc[c] # "reply" /\ pc[c] # "inssock"
  BY <1>1 DEF ReqOf, Making, LoginPc
<1>3. req[c] \in Request /\ req[c] \in Requests[c] /\ req[c].user \in Users /\ as[c] = NoUser
  BY <1>1, <1>2 DEF ReqOf, Proper, Request
<1>4. ~Past(c)
  BY <1>2, <1>3 DEF Past
<1>5. sockSession[c] = Absent
  BY <1>4 DEF ChatInv, ChatType, PastInv
<1>6. uidSession[req[c].user] \notin Blocks
  <2> SUFFICES ASSUME uidSession[req[c].user] \in Blocks PROVE FALSE
    OBVIOUS
  <2>1. PICK d \in Conns : Past(d) /\ LoginOf(d, req[c].user)
    BY <1>3 DEF ChatInv, PastInv
  <2>2. d = c
    BY <1>2, <1>3, <2>1 DEF Regular, LoginOf
  <2> QED
    BY <1>4, <2>1, <2>2
<1> QED
  BY <1>2, <1>3, <1>4, <1>5, <1>6 DEF ChatInv, ChatType

(* A message that is being sent has its addressee's session.                 *)
LEMMA Sending ==
  ASSUME ChatInv, NEW c \in Conns, pc[c] \in SendPc
  PROVE  /\ req[c] \in Request /\ req[c].to \in Users /\ req[c].op = "send" /\ lock[c] = c
         /\ as[c] # NoUser /\ as[c] # req[c].to /\ uidSession[req[c].to] \in Blocks
         /\ NotFree(uidSession[req[c].to]) /\ session[uidSession[req[c].to]] \in Session
<1>1. ReqOf(c) /\ (req[c] # NoReq => req[c] \in Request)
  BY Here
<1>2. req[c] # NoReq /\ req[c].op = "send" /\ lock[c] = c /\ Proper(c, req[c])
  BY <1>1 DEF ReqOf
<1>3. req[c] \in Request /\ req[c].to \in Users
  BY <1>1, <1>2 DEF Request
<1> QED
  BY <1>2, <1>3, Here DEF Proper, ChatInv, ChatType

(* The connection a message is pushed on is another one, it is not logging   *)
(* in, and it belongs to the addressee if its client is there.               *)
LEMMA Addressee ==
  ASSUME ChatInv, NEW c \in Conns, pc[c] \in {"push", "unpush"}, session[mine[c]].con # Null
  PROVE  /\ session[mine[c]].con = target[c] /\ target[c] \in Conns
         /\ target[c] # c /\ lock[target[c]] = c
         /\ as[target[c]] = req[c].to \/ (as[target[c]] = NoUser /\ peer[target[c]] = "closed")
<1>1. /\ session[mine[c]].con = target[c] /\ target[c] \in Conns /\ lock[target[c]] = c
      /\ mine[c] = uidSession[req[c].to] /\ pc[c] \in SendPc
  BY Here DEF TargetOf, SendPc
<1>2. /\ req[c].to \in Users /\ uidSession[req[c].to] \in Blocks /\ lock[c] = c
      /\ as[c] # NoUser /\ as[c] # req[c].to
  BY <1>1, Sending
<1>3. OwnerOf(target[c]) /\ ReqOf(target[c])
  BY <1>1, Here
<1>4. \/ as[target[c]] = req[c].to
      \/ as[target[c]] = NoUser /\ peer[target[c]] = "closed"
      \/ as[target[c]] = NoUser /\ pc[target[c]] \in {"inssock", "reply"}
  BY <1>1, <1>2, <1>3 DEF OwnerOf
<1>5. target[c] # c
  BY <1>2, <1>4 DEF SendPc
<1>6. pc[target[c]] \notin {"inssock", "reply"}
  BY <1>1, <1>3, <1>5 DEF ReqOf, LoginPc
<1> QED
  BY <1>1, <1>4, <1>5, <1>6

(* A step that changes the tables.                                           *)
LEMMA TablesKeep ==
  ASSUME ChatInv, ChatType', NEW c \in Conns, Frame(c), Parts(c)', Past(c) => Past(c)',
         TableInv', PastInv', got' = got, as' = as
  PROVE  ChatInv'
<1>1. \A d \in Conns : Parts(d)'
  BY AllParts
<1>2. NoEarlyPush' /\ Addressed'
  BY DEF ChatInv, NoEarlyPush, Addressed
<1> QED
  BY <1>1, <1>2 DEF ChatInv

(* A new connection has no session and nothing to serve.                     *)
LEMMA AcceptKeeps ==
  ASSUME Regular, ChatInv, NEW c \in Conns, Accept(c), ~NullCrash
  PROVE  ChatInv'
<1>1. /\ peer[c] = "none"
      /\ peer' = [peer EXCEPT ![c] = "ready"]
      /\ pc' = [pc EXCEPT ![c] = "recv"]
      /\ UNCHANGED <<uidSession, sockSession, session, freeBlocks, chan, as, got, shut,
                     lock, req, mine, work, target>>
  BY DEF Accept, At, Running, Goto, NoFault, sessionVars, clientVars, localVars
<1>2. /\ peer'[c] = "ready" /\ pc'[c] = "recv"
      /\ \A d \in Conns \ {c} : Same(d)
  BY <1>1, SessionAssumption, ServerAssumption DEF ChatInv, ChatType, Same
<1>3. /\ ReqOf(c) /\ MineOf(c) /\ TargetOf(c) /\ OwnerOf(c) /\ SockOf(c)
      /\ \A u \in Users : uidSession[u] \in Blocks => NotFree(uidSession[u])
      /\ req[c] # NoReq => req[c] \in Request
  BY Here
<1>4. ChatType'
  BY <1>1, SessionAssumption, ServerAssumption DEF ChatInv, ChatType, PC
<1>5. Frame(c)
  BY <1>1, <1>2 DEF ChatInv, ChatType, Frame, NotFree
<1>6. ReqOf(c)'
  BY <1>1, <1>2, <1>3, SessionAssumption, ServerAssumption, ZenonT(60)
     DEF ReqOf, Making, LoginPc, SendPc, Proper
<1>7. MineOf(c)'
  BY <1>1, <1>2, <1>3, SessionAssumption, ServerAssumption, ZenonT(60)
     DEF MineOf, ReqOf, Making, LoginPc, SendPc, Leaving, NotFree, Proper
<1>8. TargetOf(c)'
  BY <1>1, <1>2, <1>3 DEF TargetOf, ReqOf, SendPc, LoginPc
<1>9. OwnerOf(c)'
  BY <1>1, <1>2, <1>3 DEF OwnerOf, ReqOf, Proper
<1>10. SockOf(c)'
  BY <1>1, <1>2, <1>3 DEF SockOf, ReqOf, NotFree
<1>11. Past(c) => Past(c)'
  BY <1>1, <1>2, <1>3 DEF Past, ReqOf, LoginPc, SendPc, Proper
<1> QED
  BY <1>1, <1>2, <1>4, <1>5, <1>6, <1>7, <1>8, <1>9, <1>10, <1>11, QuietKeeps DEF Parts

(* A client that leaves keeps its entries until its listener notices.        *)
LEMMA ClientCloseKeeps ==
  ASSUME Regular, ChatInv, NEW c \in Conns, ClientClose(c), ~NullCrash
  PROVE  ChatInv'
<1>1. /\ peer[c] \in {"ready", "waiting"}
      /\ peer' = [peer EXCEPT ![c] = "closed"]
      /\ UNCHANGED <<uidSession, sockSession, session, freeBlocks, chan, as, got, shut,
                     lock, pc, req, mine, work, target>>
  BY DEF ClientClose, At, Running, Goto, NoFault, sessionVars, clientVars, localVars
<1>2. /\ peer'[c] = "closed"
      /\ \A d \in Conns \ {c} : Same(d)
  BY <1>1, SessionAssumption, ServerAssumption DEF ChatInv, ChatType, Same
<1>3. /\ ReqOf(c) /\ MineOf(c) /\ TargetOf(c) /\ OwnerOf(c) /\ SockOf(c)
      /\ \A u \in Users : uidSession[u] \in Blocks => NotFree(uidSession[u])
      /\ req[c] # NoReq => req[c] \in Request
  BY Here
<1>4. ChatType'
  BY <1>1, SessionAssumption, ServerAssumption DEF ChatInv, ChatType, PC
<1>5. Frame(c)
  BY <1>1, <1>2 DEF ChatInv, ChatType, Frame, NotFree
<1>6. ReqOf(c)'
  BY <1>1, <1>2, <1>3, SessionAssumption, ServerAssumption, ZenonT(60)
     DEF ReqOf, Making, LoginPc, SendPc, Proper
<1>7. MineOf(c)'
  BY <1>1, <1>2, <1>3, SessionAssumption, ServerAssumption, ZenonT(60)
     DEF MineOf, ReqOf, Making, LoginPc, SendPc, Leaving, NotFree, Proper
<1>8. TargetOf(c)'
  BY <1>1, <1>2, <1>3 DEF TargetOf, ReqOf, SendPc, LoginPc
<1>9. OwnerOf(c)'
  BY <1>1, <1>2, <1>3 DEF OwnerOf, ReqOf, Proper
<1>10. SockOf(c)'
  BY <1>1, <1>2, <1>3 DEF SockOf, ReqOf, NotFree
<1>11. Past(c) => Past(c)'
  BY <1>1, <1>2, <1>3 DEF Past, ReqOf, LoginPc, SendPc, Proper
<1> QED
  BY <1>1, <1>2, <1>4, <1>5, <1>6, <1>7, <1>8, <1>9, <1>10, <1>11, QuietKeeps DEF Parts

(* The listener leaves its loop.                                             *)
LEMMA ReceiveEofKeeps ==
  ASSUME Regular, ChatInv, NEW c \in Conns, ReceiveEof(c), ~NullCrash
  PROVE  ChatInv'
<1>1. /\ pc[c] = "recv"
      /\ pc' = [pc EXCEPT ![c] = "disc"]
      /\ UNCHANGED <<uidSession, sockSession, session, freeBlocks, chan, peer, as, got,
                     shut, lock, req, mine, work, target>>
  BY DEF ReceiveEof, At, Running, Goto, NoFault, sessionVars, clientVars, localVars
<1>2. /\ pc'[c] = "disc"
      /\ \A d \in Conns \ {c} : Same(d)
  BY <1>1, SessionAssumption, ServerAssumption DEF ChatInv, ChatType, Same
<1>3. /\ ReqOf(c) /\ MineOf(c) /\ TargetOf(c) /\ OwnerOf(c) /\ SockOf(c)
      /\ \A u \in Users : uidSession[u] \in Blocks => NotFree(uidSession[u])
      /\ req[c] # NoReq => req[c] \in Request
  BY Here
<1>4. ChatType'
  BY <1>1, SessionAssumption, ServerAssumption DEF ChatInv, ChatType, PC
<1>5. Frame(c)
  BY <1>1, <1>2 DEF ChatInv, ChatType, Frame, NotFree
<1>6. ReqOf(c)'
  BY <1>1, <1>2, <1>3, SessionAssumption, ServerAssumption, ZenonT(60)
     DEF ReqOf, Making, LoginPc, SendPc, Proper
<1>7. MineOf(c)'
  BY <1>1, <1>2, <1>3, SessionAssumption, ServerAssumption, ZenonT(60)
     DEF MineOf, ReqOf, Making, LoginPc, SendPc, Leaving, NotFree, Proper
<1>8. TargetOf(c)'
  BY <1>1, <1>2, <1>3 DEF TargetOf, ReqOf, SendPc, LoginPc
<1>9. OwnerOf(c)'
  BY <1>1, <1>2, <1>3 DEF OwnerOf, ReqOf, Proper
<1>10. SockOf(c)'
  BY <1>1, <1>2, <1>3 DEF SockOf, ReqOf, NotFree
<1>11. Past(c) => Past(c)'
  BY <1>1, <1>2, <1>3 DEF Past, ReqOf, LoginPc, SendPc, Proper
<1> QED
  BY <1>1, <1>2, <1>4, <1>5, <1>6, <1>7, <1>8, <1>9, <1>10, <1>11, QuietKeeps DEF Parts

(* The listener takes its mutex with the request.                            *)
LEMMA ReceiveKeeps ==
  ASSUME Regular, ChatInv, NEW c \in Conns, Receive(c), ~NullCrash
  PROVE  ChatInv'
<1>1. /\ pc[c] = "recv" /\ chan[c] # NoReq /\ lock[c] = Null
      /\ lock' = [lock EXCEPT ![c] = c]
      /\ req' = [req EXCEPT ![c] = chan[c]]
      /\ chan' = [chan EXCEPT ![c] = NoReq]
      /\ pc' = [pc EXCEPT ![c] = CASE chan[c].op = "login"  -> "login"
                                  [] chan[c].op = "online" -> "online"
                                  [] chan[c].op = "send"   -> "lookup"
                                  [] OTHER                 -> "reply"]
      /\ UNCHANGED <<uidSession, sockSession, session, freeBlocks, peer, as, got, shut,
                     mine, work, target>>
  BY DEF Receive, At, Running, Goto, NoFault, sessionVars, clientVars, localVars, OwnLock
<1>2. /\ lock'[c] = c /\ req'[c] = chan[c] /\ chan'[c] = NoReq
      /\ pc'[c] = "login" <=> chan[c].op = "login"
      /\ pc'[c] = "online" <=> chan[c].op = "online"
      /\ pc'[c] = "lookup" <=> chan[c].op = "send"
      /\ pc'[c] \in {"login", "online", "lookup", "reply"}
      /\ \A d \in Conns \ {c} : Same(d)
  BY <1>1, SessionAssumption, ServerAssumption DEF ChatInv, ChatType, Same
<1>3. /\ ReqOf(c) /\ MineOf(c) /\ TargetOf(c) /\ OwnerOf(c) /\ SockOf(c)
      /\ \A u \in Users : uidSession[u] \in Blocks => NotFree(uidSession[u])
      /\ req[c] # NoReq => req[c] \in Request
  BY Here
<1>4. ChatType'
  BY <1>1, SessionAssumption, ServerAssumption DEF ChatInv, ChatType, PC
<1>5. Frame(c)
  BY <1>1, <1>2 DEF ChatInv, ChatType, Frame, NotFree
<1>6. ReqOf(c)'
  BY <1>1, <1>2, <1>3, SessionAssumption, ServerAssumption, ZenonT(60)
     DEF ReqOf, Making, LoginPc, SendPc, Proper
<1>7. MineOf(c)'
  BY <1>1, <1>2, <1>3, SessionAssumption, ServerAssumption, ZenonT(60)
     DEF MineOf, ReqOf, Making, LoginPc, SendPc, Leaving, NotFree, Proper
<1>8. TargetOf(c)'
  BY <1>1, <1>2, <1>3 DEF TargetOf, ReqOf, SendPc, LoginPc
<1>9. OwnerOf(c)'
  BY <1>1, <1>2, <1>3 DEF OwnerOf, ReqOf, Proper
<1>10. SockOf(c)'
  BY <1>1, <1>2, <1>3 DEF SockOf, ReqOf, NotFree
<1>11. Past(c) => Past(c)'
  BY <1>1, <1>2, <1>3 DEF Past, ReqOf, LoginPc, SendPc, Proper
<1> QED
  BY <1>1, <1>2, <1>4, <1>5, <1>6, <1>7, <1>8, <1>9, <1>10, <1>11, QuietKeeps DEF Parts

(* Only connections whose login came as far as the tables get a worker.      *)
LEMMA VisitNextKeeps ==
  ASSUME Regular, ChatInv, NEW c \in Conns, VisitNext(c), ~NullCrash
  PROVE  ChatInv'
<1>1. /\ pc[c] = "notify"
      /\ UNCHANGED <<uidSession, sockSession, session, freeBlocks, chan, peer, as, got,
                     shut, lock, pc, req, mine, target>>
  BY SessionAssumption DEF VisitNext, At, Running, Goto, NoFault, sessionVars, clientVars,
     localVars
<1>2. /\ \A d, e \in Conns : e \in work'[d] => e \in work[d] \/ sockSession[e] \notin {Null, Absent}
      /\ DOMAIN work' = Conns
      /\ \A d \in Conns \ {c} : Same(d)
  <2> DEFINE d == Head(todo[c])
  <2>1. /\ d \in Conns => sockSession[d] \notin {Null, Absent}
        /\ work' = work \/ work' = [work EXCEPT ![c] = @ \cup {d}] \/ work' = [work EXCEPT ![c] = @]
    BY SessionAssumption DEF VisitNext
  <2> HIDE DEF d
  <2>0. DOMAIN work = Conns
    BY DEF ChatInv, ChatType
  <2>2. DOMAIN work' = Conns /\ \A e, f \in Conns : f \in work'[e] => f \in work[e] \/ f = d
    <3>1. CASE work' = work
      BY <2>0, <3>1
    <3>2. CASE work' = [work EXCEPT ![c] = @ \cup {d}]
      BY <2>0, <3>2
    <3>3. CASE work' = [work EXCEPT ![c] = @]
      BY <2>0, <3>3
    <3> QED
      BY <2>1, <3>1, <3>2, <3>3
  <2>3. \A e \in Conns \ {c} : Same(e)
    BY <1>1 DEF Same
  <2> QED
    BY <2>1, <2>2, <2>3
<1>3. /\ ReqOf(c) /\ MineOf(c) /\ TargetOf(c) /\ OwnerOf(c) /\ SockOf(c)
      /\ \A u \in Users : uidSession[u] \in Blocks => NotFree(uidSession[u])
      /\ req[c] # NoReq => req[c] \in Request
  BY Here
<1>4. ChatType'
  BY <1>1, <1>2 DEF ChatInv, ChatType
<1>5. Frame(c)
  BY <1>1, <1>2 DEF ChatInv, ChatType, Frame, NotFree
<1>6. ReqOf(c)'
  BY <1>1, <1>2, <1>3, SessionAssumption, ServerAssumption, ZenonT(60)
     DEF ReqOf, Making, LoginPc, SendPc, Proper
<1>7. MineOf(c)'
  BY <1>1, <1>2, <1>3, SessionAssumption, ServerAssumption, ZenonT(60)
     DEF MineOf, ReqOf, Making, LoginPc, SendPc, Leaving, NotFree, Proper
<1>8. TargetOf(c)'
  BY <1>1, <1>2, <1>3 DEF TargetOf, ReqOf, SendPc, LoginPc
<1>9. OwnerOf(c)'
  BY <1>1, <1>2, <1>3 DEF OwnerOf, ReqOf, Proper
<1>10. SockOf(c)'
  BY <1>1, <1>2, <1>3 DEF SockOf, ReqOf, NotFree
<1>11. Past(c) => Past(c)'
  BY <1>1, <1>2, <1>3 DEF Past, ReqOf, LoginPc, SendPc, Proper
<1>12. \A d, e \in Conns : e \in work'[d] => e \in work[d] \/ Past(e)
  BY <1>2 DEF ChatInv, ChatType, PastInv
<1> QED
  BY <1>1, <1>2, <1>4, <1>5, <1>6, <1>7, <1>8, <1>9, <1>10, <1>11, <1>12, QuietKeeps
     DEF Parts

(* After the notices the listener goes on where it was.                      *)
LEMMA JoinedKeeps ==
  ASSUME Regular, ChatInv, NEW c \in Conns, Joined(c), ~NullCrash
  PROVE  ChatInv'
<1>1. /\ pc[c] = "notify"
      /\ pc' = [pc EXCEPT ![c] = IF req[c] # NoReq THEN "replace" ELSE "detach"]
      /\ UNCHANGED <<uidSession, sockSession, session, freeBlocks, chan, peer, as, got,
                     shut, lock, req, mine, work, target>>
  BY DEF Joined, At, Running, Goto, NoFault, sessionVars, clientVars, localVars
<1>2. /\ req[c] # NoReq => pc'[c] = "replace"
      /\ req[c] = NoReq => pc'[c] = "detach"
      /\ \A d \in Conns \ {c} : Same(d)
  BY <1>1, SessionAssumption, ServerAssumption DEF ChatInv, ChatType, Same
<1>3. /\ ReqOf(c) /\ MineOf(c) /\ TargetOf(c) /\ OwnerOf(c) /\ SockOf(c)
      /\ \A u \in Users : uidSession[u] \in Blocks => NotFree(uidSession[u])
      /\ req[c] # NoReq => req[c] \in Request
  BY Here
<1>4. ChatType'
  BY <1>1, SessionAssumption, ServerAssumption DEF ChatInv, ChatType, PC
<1>5. Frame(c)
  BY <1>1, <1>2 DEF ChatInv, ChatType, Frame, NotFree
<1>6. ReqOf(c)'
  BY <1>1, <1>2, <1>3, SessionAssumption, ServerAssumption, ZenonT(60)
     DEF ReqOf, Making, LoginPc, SendPc, Proper
<1>7. MineOf(c)'
  BY <1>1, <1>2, <1>3, SessionAssumption, ServerAssumption, ZenonT(60)
     DEF MineOf, ReqOf, Making, LoginPc, SendPc, Leaving, NotFree, Proper
<1>8. TargetOf(c)'
  BY <1>1, <1>2, <1>3 DEF TargetOf, ReqOf, SendPc, LoginPc
<1>9. OwnerOf(c)'
  BY <1>1, <1>2, <1>3 DEF OwnerOf, ReqOf, Proper
<1>10. SockOf(c)'
  BY <1>1, <1>2, <1>3 DEF SockOf, ReqOf, NotFree
<1>11. Past(c) => Past(c)'
  BY <1>1, <1>2, <1>3 DEF Past, ReqOf, LoginPc, SendPc, Proper
<1> QED
  BY <1>1, <1>2, <1>4, <1>5, <1>6, <1>7, <1>8, <1>9, <1>10, <1>11, QuietKeeps DEF Parts

(* The list is read and nothing written.                                     *)
LEMMA GetOnlineKeeps ==
  ASSUME Regular, ChatInv, NEW c \in Conns, GetOnline(c), ~NullCrash
  PROVE  ChatInv'
<1>1. /\ pc[c] = "online"
      /\ pc' = [pc EXCEPT ![c] = "reply"]
      /\ UNCHANGED <<uidSession, sockSession, session, freeBlocks, chan, peer, as, got,
                     shut, lock, req, mine, work, target>>
  BY DEF GetOnline, At, Running, Goto, NoFault, sessionVars, clientVars, localVars
<1>2. /\ pc'[c] = "reply"
      /\ \A d \in Conns \ {c} : Same(d)
  BY <1>1, SessionAssumption, ServerAssumption DEF ChatInv, ChatType, Same
<1>3. /\ ReqOf(c) /\ MineOf(c) /\ TargetOf(c) /\ OwnerOf(c) /\ SockOf(c)
      /\ \A u \in Users : uidSession[u] \in Blocks => NotFree(uidSession[u])
      /\ req[c] # NoReq => req[c] \in Request
  BY Here
<1>4. ChatType'
  BY <1>1, SessionAssumption, ServerAssumption DEF ChatInv, ChatType, PC
<1>5. Frame(c)
  BY <1>1, <1>2 DEF ChatInv, ChatType, Frame, NotFree
<1>6. ReqOf(c)'
  BY <1>1, <1>2, <1>3, SessionAssumption, ServerAssumption, ZenonT(60)
     DEF ReqOf, Making, LoginPc, SendPc, Proper
<1>7. MineOf(c)'
  BY <1>1, <1>2, <1>3, SessionAssumption, ServerAssumption, ZenonT(60)
     DEF MineOf, ReqOf, Making, LoginPc, SendPc, Leaving, NotFree, Proper
<1>8. TargetOf(c)'
  BY <1>1, <1>2, <1>3 DEF TargetOf, ReqOf, SendPc, LoginPc
<1>9. OwnerOf(c)'
  BY <1>1, <1>2, <1>3 DEF OwnerOf, ReqOf, Proper
<1>10. SockOf(c)'
  BY <1>1, <1>2, <1>3 DEF SockOf, ReqOf, NotFree
<1>11. Past(c) => Past(c)'
  BY <1>1, <1>2, <1>3 DEF Past, ReqOf, LoginPc, SendPc, Proper
<1> QED
  BY <1>1, <1>2, <1>4, <1>5, <1>6, <1>7, <1>8, <1>9, <1>10, <1>11, QuietKeeps DEF Parts

(* The connection of the session was read; its session may lose it later.    *)
LEMMA GoLockKeeps ==
  ASSUME Regular, ChatInv, NEW c \in Conns, GoLock(c), ~NullCrash
  PROVE  ChatInv'
<1>1. /\ pc[c] = "golock" /\ ConnOf(mine[c]) # Null
      /\ target' = [target EXCEPT ![c] = ConnOf(mine[c])]
      /\ pc' = [pc EXCEPT ![c] = "waitlock"]
      /\ UNCHANGED <<uidSession, sockSession, session, freeBlocks, chan, peer, as, got,
                     shut, lock, req, mine, work>>
  BY DEF GoLock, At, Running, Goto, NoFault, sessionVars, clientVars, localVars
<1>2. /\ target'[c] = session[mine[c]].con /\ pc'[c] = "waitlock"
      /\ \A d \in Conns \ {c} : Same(d)
  BY <1>1, SessionAssumption DEF ChatInv, ChatType, Same, ConnOf
<1>3. /\ ReqOf(c) /\ MineOf(c) /\ TargetOf(c) /\ OwnerOf(c) /\ SockOf(c)
      /\ \A u \in Users : uidSession[u] \in Blocks => NotFree(uidSession[u])
      /\ req[c] # NoReq => req[c] \in Request
  BY Here
<1>4. ChatType'
  <2>1. mine[c] = uidSession[req[c].to] /\ mine[c] \in Blocks /\ session[mine[c]] \in Session
    BY <1>1, <1>3 DEF TargetOf, ReqOf, SendPc, Proper, ChatInv, ChatType
  <2> QED
    BY <1>1, <2>1 DEF ChatInv, ChatType, Session, ConnOf, PC
<1>5. Frame(c)
  BY <1>1, <1>2 DEF ChatInv, ChatType, Frame, NotFree
<1>6. ReqOf(c)'
  BY <1>1, <1>2, <1>3, SessionAssumption, ServerAssumption, ZenonT(60)
     DEF ReqOf, Making, LoginPc, SendPc, Proper
<1>7. MineOf(c)'
  BY <1>1, <1>2, <1>3, SessionAssumption, ServerAssumption, ZenonT(60)
     DEF MineOf, ReqOf, Making, LoginPc, SendPc, Leaving, NotFree, Proper
<1>8. TargetOf(c)'
  <2>1. mine[c] = uidSession[req[c].to] /\ mine[c] \in Blocks /\ session[mine[c]] \in Session
    BY <1>1, <1>3 DEF TargetOf, ReqOf, SendPc, Proper, ChatInv, ChatType
  <2> QED
    BY <1>1, <1>2, <1>3, <2>1 DEF TargetOf, ReqOf, SendPc, Session, ConnOf
<1>9. OwnerOf(c)'
  BY <1>1, <1>2, <1>3 DEF OwnerOf, ReqOf, Proper
<1>10. SockOf(c)'
  BY <1>1, <1>2, <1>3 DEF SockOf, ReqOf, NotFree
<1>11. Past(c) => Past(c)'
  BY <1>1, <1>2, <1>3 DEF Past, ReqOf, LoginPc, SendPc, Proper
<1> QED
  BY <1>1, <1>2, <1>4, <1>5, <1>6, <1>7, <1>8, <1>9, <1>10, <1>11, QuietKeeps DEF Parts

(* The mutex of another connection is taken, never one's own.                *)
LEMMA WaitLockKeeps ==
  ASSUME Regular, ChatInv, NEW c \in Conns, WaitLock(c), ~NullCrash
  PROVE  ChatInv'
<1>1. /\ pc[c] = "waitlock" /\ lock[target[c]] = Null
      /\ lock' = [lock EXCEPT ![target[c]] = c]
      /\ pc' = [pc EXCEPT ![c] = "push"]
      /\ UNCHANGED <<uidSession, sockSession, session, freeBlocks, chan, peer, as, got,
                     shut, req, mine, work, target>>
  BY DEF WaitLock, At, Running, Goto, NoFault, sessionVars, clientVars, localVars
<1>2. /\ target[c] \in Conns /\ lock[c] = c
      /\ pc'[c] = "push" /\ lock'[target[c]] = c
      /\ c # target[c] /\ lock'[c] = c
      /\ \A d \in Conns \ {c} : Same(d)
  <2>1. target[c] \in Conns /\ lock[c] = c
    BY <1>1, Here DEF TargetOf, ReqOf, SendPc
  <2> QED
    BY <1>1, <2>1, SessionAssumption DEF ChatInv, ChatType, Same
<1>3. /\ ReqOf(c) /\ MineOf(c) /\ TargetOf(c) /\ OwnerOf(c) /\ SockOf(c)
      /\ \A u \in Users : uidSession[u] \in Blocks => NotFree(uidSession[u])
      /\ req[c] # NoReq => req[c] \in Request
  BY Here
<1>4. ChatType'
  BY <1>1, SessionAssumption, ServerAssumption DEF ChatInv, ChatType, PC
<1>5. Frame(c)
  BY <1>1, <1>2 DEF ChatInv, ChatType, Frame, NotFree
<1>6. ReqOf(c)'
  BY <1>1, <1>2, <1>3, SessionAssumption, ServerAssumption, ZenonT(60)
     DEF ReqOf, Making, LoginPc, SendPc, Proper
<1>7. MineOf(c)'
  BY <1>1, <1>2, <1>3, SessionAssumption, ServerAssumption, ZenonT(60)
     DEF MineOf, ReqOf, Making, LoginPc, SendPc, Leaving, NotFree, Proper
<1>8. TargetOf(c)'
  BY <1>1, <1>2, <1>3 DEF TargetOf, ReqOf, SendPc, LoginPc
<1>9. OwnerOf(c)'
  BY <1>1, <1>2, <1>3 DEF OwnerOf, ReqOf, Proper
<1>10. SockOf(c)'
  BY <1>1, <1>2, <1>3 DEF SockOf, ReqOf, NotFree
<1>11. Past(c) => Past(c)'
  BY <1>1, <1>2, <1>3 DEF Past, ReqOf, LoginPc, SendPc, Proper
<1> QED
  BY <1>1, <1>2, <1>4, <1>5, <1>6, <1>7, <1>8, <1>9, <1>10, <1>11, QuietKeeps DEF Parts

(* A connection ends after its entries are gone.                             *)
LEMMA DestroyKeeps ==
  ASSUME Regular, ChatInv, NEW c \in Conns, Destroy(c), ~NullCrash
  PROVE  ChatInv'
<1>1. /\ pc[c] = "destroy"
      /\ peer' = [peer EXCEPT ![c] = "closed"]
      /\ pc' = [pc EXCEPT ![c] = "gone"]
      /\ UNCHANGED <<uidSession, sockSession, session, freeBlocks, chan, as, got, shut,
                     lock, req, mine, work, target>>
  BY DEF Destroy, At, Running, Goto, NoFault, sessionVars, clientVars, localVars
<1>2. /\ peer'[c] = "closed" /\ pc'[c] = "gone"
      /\ \A d \in Conns \ {c} : Same(d)
  BY <1>1, SessionAssumption, ServerAssumption DEF ChatInv, ChatType, Same
<1>3. /\ ReqOf(c) /\ MineOf(c) /\ TargetOf(c) /\ OwnerOf(c) /\ SockOf(c)
      /\ \A u \in Users : uidSession[u] \in Blocks => NotFree(uidSession[u])
      /\ req[c] # NoReq => req[c] \in Request
  BY Here
<1>4. ChatType'
  BY <1>1, SessionAssumption, ServerAssumption DEF ChatInv, ChatType, PC
<1>5. Frame(c)
  BY <1>1, <1>2 DEF ChatInv, ChatType, Frame, NotFree
<1>6. ReqOf(c)'
  BY <1>1, <1>2, <1>3, SessionAssumption, ServerAssumption, ZenonT(60)
     DEF ReqOf, Making, LoginPc, SendPc, Proper
<1>7. MineOf(c)'
  BY <1>1, <1>2, <1>3, SessionAssumption, ServerAssumption, ZenonT(60)
     DEF MineOf, ReqOf, Making, LoginPc, SendPc, Leaving, NotFree, Proper
<1>8. TargetOf(c)'
  BY <1>1, <1>2, <1>3 DEF TargetOf, ReqOf, SendPc, LoginPc
<1>9. OwnerOf(c)'
  BY <1>1, <1>2, <1>3 DEF OwnerOf, ReqOf, Proper
<1>10. SockOf(c)'
  BY <1>1, <1>2, <1>3 DEF SockOf, ReqOf, NotFree
<1>11. Past(c) => Past(c)'
  BY <1>1, <1>2, <1>3 DEF Past, ReqOf, LoginPc, SendPc, Proper
<1> QED
  BY <1>1, <1>2, <1>4, <1>5, <1>6, <1>7, <1>8, <1>9, <1>10, <1>11, QuietKeeps DEF Parts

(* A message goes to a user who is logged in and so has a session.           *)
LEMMA ClientRequestKeeps ==
  ASSUME Regular, ChatInv, NEW c \in Conns, ClientRequest(c), ~NullCrash
  PROVE  ChatInv'
<1>1. /\ peer[c] = "ready"
      /\ peer' = [peer EXCEPT ![c] = "waiting"]
      /\ UNCHANGED <<uidSession, sockSession, session, freeBlocks, as, got, shut, lock, pc,
                     req, mine, work, target>>
  BY DEF ClientRequest, At, Running, Goto, NoFault, sessionVars, clientVars, localVars
<1>2. /\ chan'[c] \in Request /\ Proper(c, chan'[c]) /\ peer'[c] = "waiting"
      /\ chan' = [chan EXCEPT ![c] = chan'[c]]
      /\ \A d \in Conns \ {c} : Same(d)
  <2>1. PICK r \in Requests[c] :
          /\ (r.op = "login") <=> (as[c] = NoUser)
          /\ r.op = "send" => r.to # as[c]
          /\ r.op = "send" => \E d \in Conns : as[d] = r.to
          /\ chan' = [chan EXCEPT ![c] = r]
    BY DEF ClientRequest, Regular
  <2>2. r \in Request
    BY ServerAssumption
  <2>3. r.op = "send" => uidSession[r.to] \in Blocks
    <3> SUFFICES ASSUME r.op = "send" PROVE uidSession[r.to] \in Blocks
      OBVIOUS
    <3>1. PICK d \in Conns : as[d] = r.to
      BY <2>1
    <3>2. r.to \in Users
      BY <2>2 DEF Request
    <3>3. ReqOf(d)
      BY Here
    <3> QED
      BY <3>1, <3>2, <3>3, SessionAssumption DEF ReqOf
  <2>4. Proper(c, r) /\ chan'[c] = r /\ chan' = [chan EXCEPT ![c] = chan'[c]]
    BY <2>1, <2>3 DEF Proper, ChatInv, ChatType
  <2>5. \A d \in Conns \ {c} : Same(d)
    BY <1>1, <2>4 DEF ChatInv, ChatType, Same
  <2> QED
    BY <1>1, <2>2, <2>4, <2>5 DEF ChatInv, ChatType
<1>3. /\ ReqOf(c) /\ MineOf(c) /\ TargetOf(c) /\ OwnerOf(c) /\ SockOf(c)
      /\ \A u \in Users : uidSession[u] \in Blocks => NotFree(uidSession[u])
      /\ req[c] # NoReq => req[c] \in Request
  BY Here
<1>4. ChatType'
  BY <1>1, <1>2 DEF ChatInv, ChatType
<1>5. Frame(c)
  BY <1>1, <1>2 DEF ChatInv, ChatType, Frame, NotFree
<1>6. ReqOf(c)'
  BY <1>1, <1>2, <1>3, SessionAssumption, ServerAssumption, ZenonT(60)
     DEF ReqOf, Making, LoginPc, SendPc, Proper
<1>7. MineOf(c)'
  BY <1>1, <1>2, <1>3, SessionAssumption, ServerAssumption, ZenonT(60)
     DEF MineOf, ReqOf, Making, LoginPc, SendPc, Leaving, NotFree, Proper
<1>8. TargetOf(c)'
  BY <1>1, <1>2, <1>3 DEF TargetOf, ReqOf, SendPc, LoginPc
<1>9. OwnerOf(c)'
  BY <1>1, <1>2, <1>3 DEF OwnerOf, ReqOf, Proper
<1>10. SockOf(c)'
  BY <1>1, <1>2, <1>3 DEF SockOf, ReqOf, NotFree
<1>11. Past(c) => Past(c)'
  BY <1>1, <1>2, <1>3 DEF Past, ReqOf, LoginPc, SendPc, Proper
<1> QED
  BY <1>1, <1>2, <1>4, <1>5, <1>6, <1>7, <1>8, <1>9, <1>10, <1>11, QuietKeeps DEF Parts

(* The client learns of its login when both tables have it.                  *)
LEMMA ReplyKeeps ==
  ASSUME Regular, ChatInv, NEW c \in Conns, Reply(c), ~NullCrash
  PROVE  ChatInv'
<1>1. /\ pc[c] = "reply"
      /\ \/ /\ peer' = [peer EXCEPT ![c] = "ready"]
            /\ as' = [as EXCEPT ![c] = IF req[c].op = "login" THEN req[c].user ELSE @]
            /\ Open(c)
         \/ peer' = peer /\ as' = as /\ ~Open(c)
      /\ lock' = [lock EXCEPT ![c] = Null]
      /\ pc' = [pc EXCEPT ![c] = IF req[c].op = "short" THEN "disc" ELSE "recv"]
      /\ req' = [req EXCEPT ![c] = NoReq]
      /\ mine' = [mine EXCEPT ![c] = Null]
      /\ target' = [target EXCEPT ![c] = Null]
      /\ UNCHANGED <<uidSession, sockSession, session, freeBlocks, chan, got, shut, work>>
  BY DEF Reply, At, Running, Goto, NoFault, sessionVars, clientVars, localVars, Learn,
     Unlock
<1>2. /\ \/ peer'[c] = "ready" /\ peer[c] # "closed" /\ as'[c] = IF req[c].op = "login" THEN req[c].user ELSE as[c]
         \/ peer'[c] = "closed" /\ as'[c] = as[c]
      /\ lock'[c] = Null /\ req'[c] = NoReq /\ mine'[c] = Null /\ target'[c] = Null
      /\ pc'[c] \in {"disc", "recv"} /\ lock[c] = c /\ chan[c] = NoReq
      /\ as[c] # NoUser => as'[c] = as[c]
      /\ as[c] = NoUser <=> req[c].op = "login"
      /\ as'[c] \in Users \cup {NoUser} /\ (req[c].op = "login" => req[c].user \in Users)
      /\ \A d \in Conns \ {c} : Same(d)
  <2>1. lock[c] = c /\ chan[c] = NoReq /\ req[c] \in Request /\ (req[c].op = "login" <=> as[c] = NoUser)
        /\ (req[c].op = "login" => req[c].user \in Users)
    BY <1>1, Here DEF ReqOf, Proper, Request
  <2>2. ~Open(c) => peer[c] = "closed"
    BY <1>1, Here DEF ReqOf, Open, ChatInv, ChatType
  <2>0. Open(c) => peer[c] # "closed"
    BY DEF Open
  <2>3. \A d \in Conns \ {c} : Same(d)
    BY <1>1, <2>1 DEF ChatInv, ChatType, Same
  <2> QED
    BY <1>1, <2>0, <2>1, <2>2, <2>3 DEF ChatInv, ChatType
<1>3. /\ ReqOf(c) /\ MineOf(c) /\ TargetOf(c) /\ OwnerOf(c) /\ SockOf(c)
      /\ \A u \in Users : uidSession[u] \in Blocks => NotFree(uidSession[u])
      /\ req[c] # NoReq => req[c] \in Request
  BY Here
<1>4. ChatType'
  <2>1. as' \in [Conns -> Users \cup {NoUser}] /\ peer' \in [Conns -> {"none", "ready", "waiting", "closed"}]
    <3>1. as \in [Conns -> Users \cup {NoUser}] /\ peer \in [Conns -> {"none", "ready", "waiting", "closed"}]
      BY DEF ChatInv, ChatType
    <3>2. as' = as \/ as' = [as EXCEPT ![c] = as'[c]]
      BY <1>1, <3>1
    <3>3. peer' = peer \/ peer' = [peer EXCEPT ![c] = "ready"]
      BY <1>1
    <3> QED
      BY <1>2, <3>1, <3>2, <3>3
  <2> QED
    BY <1>1, <2>1 DEF ChatInv, ChatType, PC
<1>5. Frame(c)
  BY <1>1, <1>2 DEF ChatInv, ChatType, Frame, NotFree
<1>6. ReqOf(c)'
  BY <1>1, <1>2, <1>3, SessionAssumption DEF ReqOf, MineOf, Making, LoginPc, SendPc
<1>7. MineOf(c)'
  BY <1>1, <1>2, <1>3, SessionAssumption, ServerAssumption, ZenonT(60)
     DEF MineOf, ReqOf, Making, LoginPc, SendPc, Leaving, NotFree, Proper
<1>8. TargetOf(c)'
  BY <1>1, <1>2, <1>3 DEF TargetOf, ReqOf, SendPc, LoginPc
<1>9. OwnerOf(c)'
  BY <1>1, <1>2, <1>3, SessionAssumption DEF OwnerOf
<1>10. SockOf(c)'
  BY <1>1, <1>2, <1>3 DEF SockOf, ReqOf, NotFree
<1>11. Past(c) => Past(c)'
  BY <1>1, <1>2, <1>3, SessionAssumption DEF Past, ReqOf
<1> QED
  BY <1>1, <1>2, <1>4, <1>5, <1>6, <1>7, <1>8, <1>9, <1>10, <1>11, QuietKeeps DEF Parts

(* The user of a login that is served has no earlier session.                *)
LEMMA ReplaceKeeps ==
  ASSUME Regular, ChatInv, NEW c \in Conns, Replace(c), ~NullCrash
  PROVE  ChatInv'
<1>0. uidSession[req[c].user] = Absent
  BY Unplaced DEF Replace, At, Making, LoginPc
<1>1. /\ pc[c] = "replace"
      /\ pc' = [pc EXCEPT ![c] = "insuid"]
      /\ UNCHANGED <<uidSession, sockSession, session, freeBlocks, chan, peer, as, got,
                     shut, lock, req, mine, work, target>>
  BY <1>0, SessionAssumption DEF Replace, At, Running, Goto, NoFault, sessionVars,
     clientVars, localVars
<1>2. /\ pc'[c] = "insuid"
      /\ \A d \in Conns \ {c} : Same(d)
  BY <1>1, SessionAssumption, ServerAssumption DEF ChatInv, ChatType, Same
<1>3. /\ ReqOf(c) /\ MineOf(c) /\ TargetOf(c) /\ OwnerOf(c) /\ SockOf(c)
      /\ \A u \in Users : uidSession[u] \in Blocks => NotFree(uidSession[u])
      /\ req[c] # NoReq => req[c] \in Request
  BY Here
<1>4. ChatType'
  BY <1>1, SessionAssumption, ServerAssumption DEF ChatInv, ChatType, PC
<1>5. Frame(c)
  BY <1>1, <1>2 DEF ChatInv, ChatType, Frame, NotFree
<1>6. ReqOf(c)'
  BY <1>1, <1>2, <1>3, SessionAssumption, ServerAssumption, ZenonT(60)
     DEF ReqOf, Making, LoginPc, SendPc, Proper
<1>7. MineOf(c)'
  BY <1>1, <1>2, <1>3, SessionAssumption, ServerAssumption, ZenonT(60)
     DEF MineOf, ReqOf, Making, LoginPc, SendPc, Leaving, NotFree, Proper
<1>8. TargetOf(c)'
  BY <1>1, <1>2, <1>3 DEF TargetOf, ReqOf, SendPc, LoginPc
<1>9. OwnerOf(c)'
  BY <1>1, <1>2, <1>3 DEF OwnerOf, ReqOf, Proper
<1>10. SockOf(c)'
  BY <1>1, <1>2, <1>3 DEF SockOf, ReqOf, NotFree
<1>11. Past(c) => Past(c)'
  BY <1>1, <1>2, <1>3 DEF Past, ReqOf, LoginPc, SendPc, Proper
<1> QED
  BY <1>1, <1>2, <1>4, <1>5, <1>6, <1>7, <1>8, <1>9, <1>10, <1>11, QuietKeeps DEF Parts

(* The addressee has a session, so that no null entry is made.               *)
LEMMA LookupKeeps ==
  ASSUME Regular, ChatInv, NEW c \in Conns, Lookup(c), ~NullCrash
  PROVE  ChatInv'
<1>0. /\ uidSession[req[c].to] \in Blocks /\ uidSession[req[c].to] \notin {Null, Absent}
      /\ Touch(uidSession, req[c].to) = uidSession
  <2>1. pc[c] \in SendPc
    BY DEF Lookup, At, SendPc
  <2>2. uidSession[req[c].to] \in Blocks /\ req[c].to \in Users
    BY <2>1, Sending
  <2>3. uidSession[req[c].to] \notin {Null, Absent}
    BY <2>2, SessionAssumption
  <2>4. Touch(uidSession, req[c].to) = uidSession
    BY <2>2, <2>3 DEF Touch, Insert, ChatInv, ChatType
  <2> QED
    BY <2>2, <2>3, <2>4
<1>1. /\ pc[c] = "lookup"
      /\ pc' = [pc EXCEPT ![c] = "golock"]
      /\ mine' = [mine EXCEPT ![c] = uidSession[req[c].to]]
      /\ UNCHANGED <<uidSession, sockSession, session, freeBlocks, chan, peer, as, got,
                     shut, lock, req, work, target>>
  BY <1>0, SessionAssumption DEF Lookup, At, Running, Goto, NoFault, sessionVars,
     clientVars, localVars, SessionByUid
<1>2. /\ pc'[c] = "golock" /\ mine'[c] = uidSession[req[c].to]
      /\ \A d \in Conns \ {c} : Same(d)
  BY <1>1, SessionAssumption, ServerAssumption DEF ChatInv, ChatType, Same
<1>3. /\ ReqOf(c) /\ MineOf(c) /\ TargetOf(c) /\ OwnerOf(c) /\ SockOf(c)
      /\ \A u \in Users : uidSession[u] \in Blocks => NotFree(uidSession[u])
      /\ req[c] # NoReq => req[c] \in Request
  BY Here
<1>4. ChatType'
  BY <1>0, <1>1 DEF ChatInv, ChatType, PC
<1>5. Frame(c)
  BY <1>1, <1>2 DEF ChatInv, ChatType, Frame, NotFree
<1>6. ReqOf(c)'
  BY <1>1, <1>2, <1>3, SessionAssumption, ServerAssumption, ZenonT(60)
     DEF ReqOf, Making, LoginPc, SendPc, Proper
<1>7. MineOf(c)'
  BY <1>1, <1>2, <1>3, SessionAssumption, ServerAssumption, ZenonT(60)
     DEF MineOf, ReqOf, Making, LoginPc, SendPc, Leaving, NotFree, Proper
<1>8. TargetOf(c)'
  BY <1>1, <1>2, <1>3 DEF TargetOf, ReqOf, SendPc, LoginPc
<1>9. OwnerOf(c)'
  BY <1>1, <1>2, <1>3 DEF OwnerOf, ReqOf, Proper
<1>10. SockOf(c)'
  BY <1>1, <1>2, <1>3 DEF SockOf, ReqOf, NotFree
<1>11. Past(c) => Past(c)'
  BY <1>1, <1>2, <1>3 DEF Past, ReqOf, LoginPc, SendPc, Proper
<1> QED
  BY <1>1, <1>2, <1>4, <1>5, <1>6, <1>7, <1>8, <1>9, <1>10, <1>11, QuietKeeps DEF Parts

(* The mutex that is released is the one that was taken.                     *)
LEMMA UnPushKeeps ==
  ASSUME Regular, ChatInv, NEW c \in Conns, UnPush(c), ~NullCrash
  PROVE  ChatInv'
<1>1. /\ pc[c] = "unpush"
      /\ session[mine[c]].con # Null
      /\ lock' = [lock EXCEPT ![target[c]] = Null]
      /\ pc' = [pc EXCEPT ![c] = "reply"]
      /\ UNCHANGED <<uidSession, sockSession, session, freeBlocks, chan, peer, as, got,
                     shut, req, mine, work, target>>
  BY Addressee DEF UnPush, At, Running, Goto, NoFault, sessionVars, clientVars, localVars,
     Unlock, ConnOf
<1>2. /\ pc'[c] = "reply" /\ lock'[c] = lock[c]
      /\ \A d \in Conns \ {c} : Same(d)
  BY <1>1, Addressee DEF ChatInv, ChatType, Same
<1>3. /\ ReqOf(c) /\ MineOf(c) /\ TargetOf(c) /\ OwnerOf(c) /\ SockOf(c)
      /\ \A u \in Users : uidSession[u] \in Blocks => NotFree(uidSession[u])
      /\ req[c] # NoReq => req[c] \in Request
  BY Here
<1>4. ChatType'
  BY <1>1, SessionAssumption, ServerAssumption DEF ChatInv, ChatType, PC
<1>5. Frame(c)
  BY <1>1, <1>2 DEF ChatInv, ChatType, Frame, NotFree
<1>6. ReqOf(c)'
  BY <1>1, <1>2, <1>3, SessionAssumption, ServerAssumption, ZenonT(60)
     DEF ReqOf, Making, LoginPc, SendPc, Proper
<1>7. MineOf(c)'
  BY <1>1, <1>2, <1>3, SessionAssumption, ServerAssumption, ZenonT(60)
     DEF MineOf, ReqOf, Making, LoginPc, SendPc, Leaving, NotFree, Proper
<1>8. TargetOf(c)'
  BY <1>1, <1>2, <1>3 DEF TargetOf, ReqOf, SendPc, LoginPc
<1>9. OwnerOf(c)'
  BY <1>1, <1>2, <1>3 DEF OwnerOf, ReqOf, Proper
<1>10. SockOf(c)'
  BY <1>1, <1>2, <1>3 DEF SockOf, ReqOf, NotFree
<1>11. Past(c) => Past(c)'
  BY <1>1, <1>2, <1>3 DEF Past, ReqOf, LoginPc, SendPc, Proper
<1> QED
  BY <1>1, <1>2, <1>4, <1>5, <1>6, <1>7, <1>8, <1>9, <1>10, <1>11, QuietKeeps DEF Parts

(* The user map gets the session of the login.                               *)
LEMMA InsertUidKeeps ==
  ASSUME Regular, ChatInv, NEW c \in Conns, InsertUid(c), ~NullCrash
  PROVE  ChatInv'
<1>0. /\ req[c] \in Request /\ req[c].user \in Users /\ req[c].op = "login" /\ as[c] = NoUser
      /\ uidSession[req[c].user] = Absent /\ sockSession[c] = Absent /\ ~Past(c)
  BY Unplaced DEF InsertUid, At, Making, LoginPc
<1>1. /\ pc[c] = "insuid"
      /\ uidSession' = [uidSession EXCEPT ![req[c].user] = mine[c]]
      /\ pc' = [pc EXCEPT ![c] = "inssock"]
      /\ UNCHANGED <<sockSession, session, freeBlocks, chan, peer, as, got, shut, lock,
                     req, mine, work, target>>
  BY <1>0 DEF InsertUid, At, Running, Goto, NoFault, sessionVars, clientVars, localVars,
     Insert
<1>2. /\ /\ mine[c] \in Blocks /\ NotFree(mine[c])
      /\ session[mine[c]] = NewSession(c, req[c].user) /\ session[mine[c]].con = c
      /\ session[mine[c]].user = req[c].user /\ req[c] # NoReq /\ req[c] \in Requests[c]
      /\ pc'[c] = "inssock" /\ uidSession'[req[c].user] = mine[c]
      /\ \A u \in Users : u # req[c].user => uidSession'[u] = uidSession[u]
      /\ \A d \in Conns \ {c} : Same(d)
  <2>1. /\ mine[c] \in Blocks /\ NotFree(mine[c]) /\ req[c] # NoReq /\ req[c] \in Requests[c]
        /\ session[mine[c]] = NewSession(c, req[c].user)
    BY <1>1, Here DEF MineOf, ReqOf, Making, LoginPc, Proper
  <2>2. session[mine[c]].con = c /\ session[mine[c]].user = req[c].user
    BY <2>1 DEF NewSession
  <2> QED
    BY <1>0, <1>1, <2>1, <2>2, SessionAssumption DEF ChatInv, ChatType, Same
<1>3. /\ ReqOf(c) /\ MineOf(c) /\ TargetOf(c) /\ OwnerOf(c) /\ SockOf(c)
      /\ \A u \in Users : uidSession[u] \in Blocks => NotFree(uidSession[u])
      /\ req[c] # NoReq => req[c] \in Request
  BY Here
<1>4. ChatType'
  BY <1>0, <1>1, <1>2 DEF ChatInv, ChatType, PC
<1>5. Frame(c)
  BY <1>0, <1>1, <1>2, SessionAssumption DEF Frame, NotFree
<1>6. ReqOf(c)'
  BY <1>0, <1>1, <1>2, <1>3, ZenonT(60) DEF ReqOf, Making, LoginPc, SendPc, Proper
<1>7. MineOf(c)'
  BY <1>0, <1>1, <1>2, <1>3, ZenonT(60) DEF MineOf, Making, LoginPc, SendPc, Leaving,
     NotFree
<1>8. TargetOf(c)'
  BY <1>1, <1>2, <1>3 DEF TargetOf, ReqOf, SendPc, LoginPc
<1>9. OwnerOf(c)'
  BY <1>0, <1>1, <1>2, <1>3 DEF OwnerOf
<1>10. SockOf(c)'
  BY <1>1, <1>2, <1>3 DEF SockOf, ReqOf, NotFree
<1>11. Past(c) => Past(c)'
  BY <1>1, <1>2 DEF Past
<1>12. TableInv'
  BY <1>0, <1>1, <1>2, <1>3 DEF ChatInv, TableInv, UserOK, NotFree
<1>13. PastInv'
  <2>1. Past(c)' /\ LoginOf(c, req[c].user)
    BY <1>0, <1>2 DEF Past, LoginOf
  <2>2. \A d \in Conns : Past(d) => Past(d)'
    BY <1>2, <2>1 DEF Same, Past
  <2> QED
    BY <1>1, <1>2, <2>1, <2>2 DEF ChatInv, PastInv, LoginOf
<1> QED
  BY <1>1, <1>4, <1>5, <1>6, <1>7, <1>8, <1>9, <1>10, <1>11, <1>12, <1>13, TablesKeep
     DEF Parts

(* The socket map gets it; from here the login can be answered.              *)
LEMMA InsertSockKeeps ==
  ASSUME Regular, ChatInv, NEW c \in Conns, InsertSock(c), ~NullCrash
  PROVE  ChatInv'
<1>0. sockSession[c] = Absent
  BY Here DEF InsertSock, At, MineOf
<1>1. /\ pc[c] = "inssock"
      /\ sockSession' = [sockSession EXCEPT ![c] = mine[c]]
      /\ pc' = [pc EXCEPT ![c] = "reply"]
      /\ UNCHANGED <<uidSession, session, freeBlocks, chan, peer, as, got, shut, lock, req,
                     mine, work, target>>
  BY <1>0 DEF InsertSock, At, Running, Goto, NoFault, sessionVars, clientVars, localVars,
     Insert
<1>2. /\ /\ mine[c] \in Blocks /\ NotFree(mine[c]) /\ req[c] # NoReq /\ req[c].op = "login"
      /\ session[mine[c]] = NewSession(c, req[c].user) /\ session[mine[c]].con = c
      /\ uidSession[req[c].user] = mine[c] /\ as[c] = NoUser
      /\ pc'[c] = "reply" /\ sockSession'[c] = mine[c]
      /\ \A d \in Conns \ {c} : sockSession[d] # mine[c]
      /\ \A d \in Conns \ {c} : Same(d)
  <2>1. /\ req[c] # NoReq /\ req[c].op = "login" /\ as[c] = NoUser
    BY <1>1, Here DEF ReqOf, Making, LoginPc, Proper
  <2>2. /\ mine[c] \in Blocks /\ NotFree(mine[c]) /\ session[mine[c]] = NewSession(c, req[c].user)
        /\ uidSession[req[c].user] = mine[c]
    BY <1>1, Here DEF MineOf, Making, LoginPc
  <2>3. session[mine[c]].con = c
    BY <2>2 DEF NewSession
  <2>4. ASSUME NEW d \in Conns \ {c} PROVE sockSession[d] # mine[c]
    <3>1. sockSession[d] \in Blocks => session[sockSession[d]].con \in {d, Null}
      BY Here DEF SockOf
    <3> QED
      BY <2>2, <2>3, <3>1, SessionAssumption
  <2>5. \A d \in Conns \ {c} : Same(d)
    BY <1>1 DEF ChatInv, ChatType, Same
  <2> QED
    BY <1>1, <2>1, <2>2, <2>3, <2>4, <2>5 DEF ChatInv, ChatType
<1>3. /\ ReqOf(c) /\ MineOf(c) /\ TargetOf(c) /\ OwnerOf(c) /\ SockOf(c)
      /\ \A u \in Users : uidSession[u] \in Blocks => NotFree(uidSession[u])
      /\ req[c] # NoReq => req[c] \in Request
  BY Here
<1>4. ChatType'
  BY <1>1, <1>2 DEF ChatInv, ChatType, PC
<1>5. Frame(c)
  BY <1>1, <1>2 DEF ChatInv, ChatType, Frame, NotFree
<1>6. ReqOf(c)'
  BY <1>1, <1>2, <1>3, SessionAssumption, ServerAssumption, ZenonT(60)
     DEF ReqOf, Making, LoginPc, SendPc, Proper
<1>7. MineOf(c)'
  BY <1>1, <1>2, <1>3, SessionAssumption, ServerAssumption, ZenonT(60)
     DEF MineOf, ReqOf, Making, LoginPc, SendPc, Leaving, NotFree, Proper
<1>8. TargetOf(c)'
  BY <1>1, <1>2, <1>3 DEF TargetOf, ReqOf, SendPc, LoginPc
<1>9. OwnerOf(c)'
  BY <1>1, <1>2, <1>3 DEF OwnerOf, ReqOf, Proper
<1>10. SockOf(c)'
  BY <1>1, <1>2, <1>3 DEF SockOf, ReqOf, NotFree
<1>11. Past(c) => Past(c)'
  BY <1>1, <1>2, <1>3 DEF Past, ReqOf, LoginPc, SendPc, Proper
<1>12. TableInv'
  <2>1. \A d, e \in Conns : sockSession'[d] \in Blocks /\ sockSession'[d] = sockSession'[e] => d = e
    <3> SUFFICES ASSUME NEW d \in Conns, NEW e \in Conns, sockSession'[d] \in Blocks,
                        sockSession'[d] = sockSession'[e]
                 PROVE  d = e
      OBVIOUS
    <3>1. /\ d # c => sockSession'[d] = sockSession[d] /\ sockSession[d] # mine[c]
          /\ e # c => sockSession'[e] = sockSession[e] /\ sockSession[e] # mine[c]
      BY <1>2 DEF Same
    <3> QED
      BY <1>2, <3>1 DEF ChatInv, TableInv
  <2> QED
    BY <1>1, <2>1 DEF ChatInv, TableInv, UserOK, NotFree
<1>13. PastInv'
  <2>1. \A d \in Conns : Past(d) => Past(d)'
    BY <1>2, <1>11 DEF Past, Same
  <2>2. Past(c)' /\ (\A d \in Conns \ {c} : sockSession'[d] = sockSession[d])
    BY <1>2 DEF Past, Same
  <2>3. \A d \in Conns : sockSession'[d] \in Blocks => Past(d)'
    BY <2>1, <2>2 DEF ChatInv, PastInv
  <2> QED
    BY <2>3, <1>1, <1>2, <2>1, SessionAssumption DEF ChatInv, PastInv, LoginOf
<1> QED
  BY <1>1, <1>4, <1>5, <1>6, <1>7, <1>8, <1>9, <1>10, <1>11, <1>12, <1>13, TablesKeep
     DEF Parts

(* A free block becomes the session, which no table knows yet.               *)
LEMMA LoginKeeps ==
  ASSUME Regular, ChatInv, NEW c \in Conns, Login(c), ~NullCrash
  PROVE  ChatInv'
<1>0. /\ req[c] \in Request /\ req[c].user \in Users /\ req[c].op = "login" /\ as[c] = NoUser
      /\ uidSession[req[c].user] = Absent /\ sockSession[c] = Absent /\ ~Past(c)
  BY Unplaced DEF Login, At, Making, LoginPc
<1>1. /\ pc[c] = "login" /\ freeBlocks # <<>>
      /\ mine' = [mine EXCEPT ![c] = Head(freeBlocks)]
      /\ freeBlocks' = Tail(freeBlocks)
      /\ session' = [session EXCEPT ![Head(freeBlocks)] = NewSession(c, req[c].user)]
      /\ pc' = [pc EXCEPT ![c] = "notify"]
      /\ UNCHANGED <<uidSession, sockSession, chan, peer, as, got, shut, lock, req, work,
                     target>>
  BY <1>0 DEF Login, At, Running, Goto, NoFault, sessionVars, clientVars, localVars,
     StartNotices
<1>2. /\ /\ Head(freeBlocks) \in Blocks /\ mine'[c] = Head(freeBlocks) /\ pc'[c] = "notify"
      /\ session'[mine'[c]] = NewSession(c, req[c].user)
      /\ NewSession(c, req[c].user) \in Session
      /\ /\ freeBlocks' \in Seq(Blocks) /\ Len(freeBlocks') = Len(freeBlocks) - 1 /\ Len(freeBlocks) \in Nat \ {0}
      /\ \A i \in 1..Len(freeBlocks') : freeBlocks'[i] = freeBlocks[i + 1]
      /\ Head(freeBlocks) = freeBlocks[1]
      /\ \A b \in Blocks : NotFree(b) => b # Head(freeBlocks) /\ NotFree(b)' /\ session'[b] = session[b]
      /\ \A i \in 1..Len(freeBlocks') : freeBlocks'[i] # mine'[c]
      /\ \A d \in Conns \ {c} : Same(d)
  <2>1. /\ freeBlocks \in Seq(Blocks) /\ freeBlocks # <<>>
        /\ \A i, j \in 1..Len(freeBlocks) : freeBlocks[i] = freeBlocks[j] => i = j
    BY <1>1 DEF ChatInv, ChatType, TableInv
  <2>2. /\ freeBlocks' \in Seq(Blocks) /\ Len(freeBlocks') = Len(freeBlocks) - 1
        /\ Len(freeBlocks) \in Nat \ {0} /\ Head(freeBlocks) = freeBlocks[1]
        /\ Head(freeBlocks) \in Blocks
        /\ \A i \in 1..Len(freeBlocks') : freeBlocks'[i] = freeBlocks[i + 1]
    BY <1>1, <2>1
  <2>3. \A b \in Blocks : NotFree(b) => b # Head(freeBlocks) /\ NotFree(b)'
    BY <2>2 DEF NotFree
  <2>4. /\ mine'[c] = Head(freeBlocks) /\ pc'[c] = "notify"
        /\ session'[mine'[c]] = NewSession(c, req[c].user)
        /\ \A b \in Blocks : b # Head(freeBlocks) => session'[b] = session[b]
    BY <1>1, <2>2 DEF ChatInv, ChatType
  <2>5. NewSession(c, req[c].user) \in Session
    BY <1>0 DEF NewSession, Session
  <2>6. \A i \in 1..Len(freeBlocks') : freeBlocks'[i] # mine'[c]
    BY <2>1, <2>2, <2>4
  <2>7. \A d \in Conns \ {c} : Same(d)
    BY <1>1 DEF ChatInv, ChatType, Same
  <2> QED
    BY <2>2, <2>3, <2>4, <2>5, <2>6, <2>7
<1>3. /\ ReqOf(c) /\ MineOf(c) /\ TargetOf(c) /\ OwnerOf(c) /\ SockOf(c)
      /\ \A u \in Users : uidSession[u] \in Blocks => NotFree(uidSession[u])
      /\ req[c] # NoReq => req[c] \in Request
  BY Here
<1>4. ChatType'
  BY <1>1, <1>2 DEF ChatInv, ChatType, PC
<1>5. Frame(c)
  BY <1>1, <1>2 DEF Frame
<1>6. ReqOf(c)'
  BY <1>0, <1>1, <1>2, <1>3, ZenonT(60) DEF ReqOf, Making, LoginPc, SendPc, Proper
<1>7. MineOf(c)'
  BY <1>0, <1>1, <1>2, <1>3, ZenonT(60) DEF MineOf, ReqOf, Making, LoginPc, SendPc,
     Leaving, NotFree
<1>8. TargetOf(c)'
  BY <1>1, <1>2, <1>3 DEF TargetOf, ReqOf, SendPc, LoginPc
<1>9. OwnerOf(c)'
  <2> SUFFICES ASSUME NEW u \in Users, uidSession[u] \in Blocks, session'[uidSession[u]].con = c
               PROVE  as[c] = u \/ (as[c] = NoUser /\ peer[c] = "closed")
    BY <1>1 DEF OwnerOf
  <2>1. session[uidSession[u]].con = c
    BY <1>1, <1>2, <1>3
  <2> QED
    BY <1>1, <1>3, <2>1 DEF OwnerOf
<1>10. SockOf(c)'
  BY <1>0, <1>1, SessionAssumption DEF SockOf
<1>11. Past(c) => Past(c)'
  BY <1>0
<1>12. TableInv'
  BY <1>1, <1>2, <1>3 DEF ChatInv, TableInv, UserOK
<1>13. PastInv'
  <2>1. \A d \in Conns : Past(d) => Past(d)'
    BY <1>2, <1>11 DEF Past, Same
  <2>2. \A d \in Conns : sockSession'[d] \in Blocks => sockSession[d] \in Blocks
    BY <1>1, SessionAssumption DEF ChatInv, ChatType
  <2>3. \A d \in Conns : sockSession'[d] \in Blocks => Past(d)'
    BY <2>1, <2>2 DEF ChatInv, PastInv
  <2>4. \A u \in Users : uidSession'[u] \in Blocks => \E d \in Conns : Past(d)' /\ LoginOf(d, u)
    BY <1>1, <2>1 DEF ChatInv, PastInv
  <2>5. \A d, e \in Conns : e \in work'[d] => Past(e)'
    BY <1>1, <2>1 DEF ChatInv, PastInv
  <2> QED
    BY <2>3, <2>4, <2>5 DEF PastInv, LoginOf
<1> QED
  BY <1>1, <1>4, <1>5, <1>6, <1>7, <1>8, <1>9, <1>10, <1>11, <1>12, <1>13, TablesKeep
     DEF Parts

(* A connection without a session just ends.                                 *)
LEMMA LeaveKeeps ==
  ASSUME Regular, ChatInv, NEW c \in Conns, Disconnect(c), ~NullCrash, sockSession[c] = Absent
  PROVE  ChatInv'
<1>1. /\ pc[c] = "disc"
      /\ pc' = [pc EXCEPT ![c] = "destroy"]
      /\ UNCHANGED <<uidSession, sockSession, session, freeBlocks, chan, peer, as, got,
                     shut, lock, req, mine, work, target>>
  BY DEF Disconnect, At, Running, Goto, NoFault, sessionVars, clientVars, localVars
<1>2. /\ pc'[c] = "destroy"
      /\ \A d \in Conns \ {c} : Same(d)
  BY <1>1, SessionAssumption, ServerAssumption DEF ChatInv, ChatType, Same
<1>3. /\ ReqOf(c) /\ MineOf(c) /\ TargetOf(c) /\ OwnerOf(c) /\ SockOf(c)
      /\ \A u \in Users : uidSession[u] \in Blocks => NotFree(uidSession[u])
      /\ req[c] # NoReq => req[c] \in Request
  BY Here
<1>4. ChatType'
  BY <1>1, SessionAssumption, ServerAssumption DEF ChatInv, ChatType, PC
<1>5. Frame(c)
  BY <1>1, <1>2 DEF ChatInv, ChatType, Frame, NotFree
<1>6. ReqOf(c)'
  BY <1>1, <1>2, <1>3, SessionAssumption, ServerAssumption, ZenonT(60)
     DEF ReqOf, Making, LoginPc, SendPc, Proper
<1>7. MineOf(c)'
  BY <1>1, <1>2, <1>3, SessionAssumption, ServerAssumption, ZenonT(60)
     DEF MineOf, ReqOf, Making, LoginPc, SendPc, Leaving, NotFree, Proper
<1>8. TargetOf(c)'
  BY <1>1, <1>2, <1>3 DEF TargetOf, ReqOf, SendPc, LoginPc
<1>9. OwnerOf(c)'
  BY <1>1, <1>2, <1>3 DEF OwnerOf, ReqOf, Proper
<1>10. SockOf(c)'
  BY <1>1, <1>2, <1>3 DEF SockOf, ReqOf, NotFree
<1>11. Past(c) => Past(c)'
  BY <1>1, <1>2, <1>3 DEF Past, ReqOf, LoginPc, SendPc, Proper
<1> QED
  BY <1>1, <1>2, <1>4, <1>5, <1>6, <1>7, <1>8, <1>9, <1>10, <1>11, QuietKeeps DEF Parts

(* The session goes offline and keeps its connection for now.                *)
LEMMA DisconnectKeeps ==
  ASSUME Regular, ChatInv, NEW c \in Conns, Disconnect(c), ~NullCrash, sockSession[c] # Absent
  PROVE  ChatInv'
<1>0. sockSession[c] # Null
  BY SessionAssumption DEF ChatInv, ChatType
<1>1. /\ pc[c] = "disc"
      /\ session' = [session EXCEPT ![sockSession[c]].online = FALSE]
      /\ mine' = [mine EXCEPT ![c] = sockSession[c]]
      /\ pc' = [pc EXCEPT ![c] = "notify"]
      /\ UNCHANGED <<uidSession, sockSession, freeBlocks, chan, peer, as, got, shut, lock,
                     req, work, target>>
  BY SessionAssumption, <1>0 DEF Disconnect, At, Running, Goto, NoFault, sessionVars,
     clientVars, localVars, StartNotices, Offline
<1>2. /\ /\ sockSession[c] \in Blocks /\ session[sockSession[c]].con = c
      /\ session'[sockSession[c]] \in Session /\ NotFree(sockSession[c])
      /\ /\ session'[sockSession[c]].con = c
      /\ session'[sockSession[c]].user = session[sockSession[c]].user
      /\ \A b \in Blocks : b # sockSession[c] => session'[b] = session[b]
      /\ pc'[c] = "notify" /\ mine'[c] = sockSession[c]
      /\ \A d \in Conns \ {c} : Same(d)
  <2>1. sockSession[c] \in Blocks
    BY DEF ChatInv, ChatType
  <2>2. /\ session[sockSession[c]].con = c /\ NotFree(sockSession[c])
        /\ session[sockSession[c]] \in Session
    BY <1>1, <2>1, Here DEF SockOf, ChatInv, ChatType
  <2>3. session' = [session EXCEPT ![sockSession[c]] = [session[sockSession[c]] EXCEPT !.online = FALSE]]
    BY <1>1
  <2>4. /\ [session[sockSession[c]] EXCEPT !.online = FALSE] \in Session
        /\ [session[sockSession[c]] EXCEPT !.online = FALSE].con = c
        /\ [session[sockSession[c]] EXCEPT !.online = FALSE].user = session[sockSession[c]].user
    BY <2>2 DEF Session
  <2>5. \A d \in Conns \ {c} : Same(d)
    BY <1>1 DEF ChatInv, ChatType, Same
  <2> QED
    BY <1>1, <2>1, <2>2, <2>3, <2>4, <2>5 DEF ChatInv, ChatType
<1>3. /\ ReqOf(c) /\ MineOf(c) /\ TargetOf(c) /\ OwnerOf(c) /\ SockOf(c)
      /\ \A u \in Users : uidSession[u] \in Blocks => NotFree(uidSession[u])
      /\ req[c] # NoReq => req[c] \in Request
  BY Here
<1>4. ChatType'
  <2>1. session' \in [Blocks -> Session]
    BY <1>1, <1>2 DEF ChatInv, ChatType
  <2> QED
    BY <1>1, <1>2, <2>1 DEF ChatInv, ChatType, PC
<1>5. Frame(c)
  BY <1>1, <1>2 DEF ChatInv, ChatType, Frame, NotFree
<1>6. ReqOf(c)'
  BY <1>1, <1>2, <1>3, SessionAssumption, ServerAssumption, ZenonT(60)
     DEF ReqOf, Making, LoginPc, SendPc, Proper
<1>7. MineOf(c)'
  BY <1>1, <1>2, <1>3, SessionAssumption, ServerAssumption, ZenonT(60)
     DEF MineOf, ReqOf, Making, LoginPc, SendPc, Leaving, NotFree, Proper
<1>8. TargetOf(c)'
  BY <1>1, <1>2, <1>3 DEF TargetOf, ReqOf, SendPc, LoginPc
<1>9. OwnerOf(c)'
  <2> SUFFICES ASSUME NEW u \in Users, uidSession[u] \in Blocks, session'[uidSession[u]].con = c
               PROVE  as[c] = u \/ (as[c] = NoUser /\ peer[c] = "closed")
    BY <1>1 DEF OwnerOf
  <2>1. session[uidSession[u]].con = c
    BY <1>1, <1>2, <1>3, SessionAssumption
  <2> QED
    BY <1>1, <1>3, <2>1 DEF OwnerOf
<1>10. SockOf(c)'
  BY <1>1, <1>2, <1>3 DEF SockOf, ReqOf, NotFree
<1>11. Past(c) => Past(c)'
  BY <1>1, <1>2, <1>3 DEF Past, ReqOf, LoginPc, SendPc, Proper
<1>12. TableInv'
  BY <1>1, <1>2, <1>3 DEF ChatInv, ChatType, TableInv, UserOK, NotFree
<1>13. PastInv'
  <2>1. \A d \in Conns : Past(d) => Past(d)'
    BY <1>2, <1>11 DEF Past, Same
  <2>2. \A d \in Conns : sockSession'[d] \in Blocks => sockSession[d] \in Blocks
    BY <1>1, SessionAssumption DEF ChatInv, ChatType
  <2>3. \A d \in Conns : sockSession'[d] \in Blocks => Past(d)'
    BY <2>1, <2>2 DEF ChatInv, PastInv
  <2>4. \A u \in Users : uidSession'[u] \in Blocks => \E d \in Conns : Past(d)' /\ LoginOf(d, u)
    BY <1>1, <2>1 DEF ChatInv, PastInv
  <2>5. \A d, e \in Conns : e \in work'[d] => Past(e)'
    BY <1>1, <2>1 DEF ChatInv, PastInv
  <2> QED
    BY <2>3, <2>4, <2>5 DEF PastInv, LoginOf
<1> QED
  BY <1>1, <1>4, <1>5, <1>6, <1>7, <1>8, <1>9, <1>10, <1>11, <1>12, <1>13, TablesKeep
     DEF Parts

(* The session loses its connection and stays in both tables.                *)
LEMMA DetachKeeps ==
  ASSUME Regular, ChatInv, NEW c \in Conns, Detach(c), ~NullCrash
  PROVE  ChatInv'
<1>1. /\ pc[c] = "detach"
      /\ session' = [session EXCEPT ![mine[c]].con = Null]
      /\ pc' = [pc EXCEPT ![c] = "erasesock"]
      /\ UNCHANGED <<uidSession, sockSession, freeBlocks, chan, peer, as, got, shut, lock,
                     req, mine, work, target>>
  BY DEF Detach, At, Running, Goto, NoFault, sessionVars, clientVars, localVars
<1>2. /\ /\ mine[c] \in Blocks /\ mine[c] = sockSession[c] /\ session[mine[c]].con = c
      /\ session[mine[c]] \in Session /\ NotFree(mine[c]) /\ session'[mine[c]] \in Session
      /\ session'[mine[c]].con = Null /\ session'[mine[c]].user = session[mine[c]].user
      /\ \A b \in Blocks : b # mine[c] => session'[b] = session[b]
      /\ pc'[c] = "erasesock"
      /\ \A d \in Conns \ {c} : Same(d)
  <2>1. mine[c] \in Blocks /\ mine[c] = sockSession[c]
    BY <1>1, Here DEF MineOf
  <2>2. /\ session[mine[c]].con = c /\ NotFree(mine[c]) /\ session[mine[c]] \in Session
    BY <1>1, <2>1, Here DEF SockOf, ChatInv, ChatType
  <2>3. session' = [session EXCEPT ![mine[c]] = [session[mine[c]] EXCEPT !.con = Null]]
    BY <1>1
  <2>4. /\ [session[mine[c]] EXCEPT !.con = Null] \in Session
        /\ [session[mine[c]] EXCEPT !.con = Null].con = Null
        /\ [session[mine[c]] EXCEPT !.con = Null].user = session[mine[c]].user
    BY <2>2 DEF Session
  <2>5. \A d \in Conns \ {c} : Same(d)
    BY <1>1 DEF ChatInv, ChatType, Same
  <2> QED
    BY <1>1, <2>1, <2>2, <2>3, <2>4, <2>5 DEF ChatInv, ChatType
<1>3. /\ ReqOf(c) /\ MineOf(c) /\ TargetOf(c) /\ OwnerOf(c) /\ SockOf(c)
      /\ \A u \in Users : uidSession[u] \in Blocks => NotFree(uidSession[u])
      /\ req[c] # NoReq => req[c] \in Request
  BY Here
<1>4. ChatType'
  <2>1. session' \in [Blocks -> Session]
    BY <1>1, <1>2 DEF ChatInv, ChatType
  <2> QED
    BY <1>1, <2>1 DEF ChatInv, ChatType, PC
<1>5. Frame(c)
  BY <1>1, <1>2 DEF ChatInv, ChatType, Frame, NotFree
<1>6. ReqOf(c)'
  BY <1>1, <1>2, <1>3, SessionAssumption, ServerAssumption, ZenonT(60)
     DEF ReqOf, Making, LoginPc, SendPc, Proper
<1>7. MineOf(c)'
  BY <1>1, <1>2, <1>3, SessionAssumption, ServerAssumption, ZenonT(60)
     DEF MineOf, ReqOf, Making, LoginPc, SendPc, Leaving, NotFree, Proper
<1>8. TargetOf(c)'
  BY <1>1, <1>2, <1>3 DEF TargetOf, ReqOf, SendPc, LoginPc
<1>9. OwnerOf(c)'
  <2> SUFFICES ASSUME NEW u \in Users, uidSession[u] \in Blocks, session'[uidSession[u]].con = c
               PROVE  as[c] = u \/ (as[c] = NoUser /\ peer[c] = "closed")
    BY <1>1 DEF OwnerOf
  <2>1. session[uidSession[u]].con = c
    BY <1>1, <1>2, <1>3, SessionAssumption
  <2> QED
    BY <1>1, <1>3, <2>1 DEF OwnerOf
<1>10. SockOf(c)'
  BY <1>1, <1>2, <1>3 DEF SockOf, ReqOf, NotFree
<1>11. Past(c) => Past(c)'
  BY <1>1, <1>2, <1>3 DEF Past, ReqOf, LoginPc, SendPc, Proper
<1>12. TableInv'
  BY <1>1, <1>2, <1>3 DEF ChatInv, ChatType, TableInv, UserOK, NotFree
<1>13. PastInv'
  <2>1. \A d \in Conns : Past(d) => Past(d)'
    BY <1>2, <1>11 DEF Past, Same
  <2>2. \A d \in Conns : sockSession'[d] \in Blocks => sockSession[d] \in Blocks
    BY <1>1, SessionAssumption DEF ChatInv, ChatType
  <2>3. \A d \in Conns : sockSession'[d] \in Blocks => Past(d)'
    BY <2>1, <2>2 DEF ChatInv, PastInv
  <2>4. \A u \in Users : uidSession'[u] \in Blocks => \E d \in Conns : Past(d)' /\ LoginOf(d, u)
    BY <1>1, <2>1 DEF ChatInv, PastInv
  <2>5. \A d, e \in Conns : e \in work'[d] => Past(e)'
    BY <1>1, <2>1 DEF ChatInv, PastInv
  <2> QED
    BY <2>3, <2>4, <2>5 DEF PastInv, LoginOf
<1> QED
  BY <1>1, <1>4, <1>5, <1>6, <1>7, <1>8, <1>9, <1>10, <1>11, <1>12, <1>13, TablesKeep
     DEF Parts

(* The socket map forgets it.                                                *)
LEMMA EraseSockKeeps ==
  ASSUME Regular, ChatInv, NEW c \in Conns, EraseSock(c), ~NullCrash
  PROVE  ChatInv'
<1>1. /\ pc[c] = "erasesock"
      /\ sockSession' = [sockSession EXCEPT ![c] = Absent]
      /\ mine' = [mine EXCEPT ![c] = Null]
      /\ pc' = [pc EXCEPT ![c] = "destroy"]
      /\ UNCHANGED <<uidSession, session, freeBlocks, chan, peer, as, got, shut, lock, req,
                     work, target>>
  BY DEF EraseSock, At, Running, Goto, NoFault, sessionVars, clientVars, localVars, Erase
<1>2. /\ sockSession'[c] = Absent /\ mine'[c] = Null /\ pc'[c] = "destroy"
      /\ \A d \in Conns \ {c} : Same(d)
  BY <1>1, SessionAssumption, ServerAssumption DEF ChatInv, ChatType, Same
<1>3. /\ ReqOf(c) /\ MineOf(c) /\ TargetOf(c) /\ OwnerOf(c) /\ SockOf(c)
      /\ \A u \in Users : uidSession[u] \in Blocks => NotFree(uidSession[u])
      /\ req[c] # NoReq => req[c] \in Request
  BY Here
<1>4. ChatType'
  BY <1>1, SessionAssumption, ServerAssumption DEF ChatInv, ChatType, PC
<1>5. Frame(c)
  BY <1>1, <1>2 DEF ChatInv, ChatType, Frame, NotFree
<1>6. ReqOf(c)'
  BY <1>1, <1>2, <1>3, SessionAssumption, ServerAssumption, ZenonT(60)
     DEF ReqOf, Making, LoginPc, SendPc, Proper
<1>7. MineOf(c)'
  BY <1>1, <1>2, <1>3, SessionAssumption, ServerAssumption, ZenonT(60)
     DEF MineOf, ReqOf, Making, LoginPc, SendPc, Leaving, NotFree, Proper
<1>8. TargetOf(c)'
  BY <1>1, <1>2, <1>3 DEF TargetOf, ReqOf, SendPc, LoginPc
<1>9. OwnerOf(c)'
  BY <1>1, <1>2, <1>3 DEF OwnerOf, ReqOf, Proper
<1>10. SockOf(c)'
  BY <1>2, SessionAssumption DEF SockOf
<1>11. Past(c) => Past(c)'
  BY <1>1, <1>2, <1>3 DEF Past, ReqOf, LoginPc, SendPc, Proper
<1>12. TableInv'
  BY <1>1, <1>2, <1>3, SessionAssumption DEF ChatInv, ChatType, TableInv, UserOK, NotFree,
     Same
<1>13. PastInv'
  <2>1. \A d \in Conns : Past(d) => Past(d)'
    BY <1>2, <1>11 DEF Past, Same
  <2>2. \A d \in Conns : sockSession'[d] \in Blocks => sockSession[d] \in Blocks
    BY <1>1, SessionAssumption DEF ChatInv, ChatType
  <2>3. \A d \in Conns : sockSession'[d] \in Blocks => Past(d)'
    BY <2>1, <2>2 DEF ChatInv, PastInv
  <2>4. \A u \in Users : uidSession'[u] \in Blocks => \E d \in Conns : Past(d)' /\ LoginOf(d, u)
    BY <1>1, <2>1 DEF ChatInv, PastInv
  <2>5. \A d, e \in Conns : e \in work'[d] => Past(e)'
    BY <1>1, <2>1 DEF ChatInv, PastInv
  <2> QED
    BY <2>3, <2>4, <2>5 DEF PastInv, LoginOf
<1> QED
  BY <1>1, <1>4, <1>5, <1>6, <1>7, <1>8, <1>9, <1>10, <1>11, <1>12, <1>13, TablesKeep
     DEF Parts

(* A message reaches the addressee or nobody.                                *)
LEMMA PushChatKeeps ==
  ASSUME Regular, ChatInv, NEW c \in Conns, PushChat(c), ~NullCrash
  PROVE  ChatInv'
<1>1. /\ pc[c] = "push" /\ session[mine[c]].con # Null
      /\ \/ got' = got
         \/ /\ Open(session[mine[c]].con)
            /\ got' = [got EXCEPT ![session[mine[c]].con] = @ \cup {[kind |-> "chat", user |-> req[c].to]}]
      /\ pc' = [pc EXCEPT ![c] = "unpush"]
      /\ UNCHANGED <<uidSession, sockSession, session, freeBlocks, chan, peer, as, shut,
                     lock, req, mine, work, target>>
  BY DEF PushChat, At, Running, Goto, NoFault, sessionVars, clientVars, localVars,
     PushMaybeFreed, Push, ConnOf
<1>2. /\ pc'[c] = "unpush"
      /\ \A d \in Conns \ {c} : Same(d)
  BY <1>1, SessionAssumption, ServerAssumption DEF ChatInv, ChatType, Same
<1>3. /\ ReqOf(c) /\ MineOf(c) /\ TargetOf(c) /\ OwnerOf(c) /\ SockOf(c)
      /\ \A u \in Users : uidSession[u] \in Blocks => NotFree(uidSession[u])
      /\ req[c] # NoReq => req[c] \in Request
  BY Here
<1>4. ChatType'
  BY <1>1, SessionAssumption DEF ChatInv, ChatType, PC
<1>5. Frame(c)
  BY <1>1, <1>2 DEF ChatInv, ChatType, Frame, NotFree
<1>6. ReqOf(c)'
  BY <1>1, <1>2, <1>3, SessionAssumption, ServerAssumption, ZenonT(60)
     DEF ReqOf, Making, LoginPc, SendPc, Proper
<1>7. MineOf(c)'
  BY <1>1, <1>2, <1>3, SessionAssumption, ServerAssumption, ZenonT(60)
     DEF MineOf, ReqOf, Making, LoginPc, SendPc, Leaving, NotFree, Proper
<1>8. TargetOf(c)'
  BY <1>1, <1>2, <1>3 DEF TargetOf, ReqOf, SendPc, LoginPc
<1>9. OwnerOf(c)'
  BY <1>1, <1>2, <1>3 DEF OwnerOf, ReqOf, Proper
<1>10. SockOf(c)'
  BY <1>1, <1>2, <1>3 DEF SockOf, ReqOf, NotFree
<1>11. Past(c) => Past(c)'
  BY <1>1, <1>2, <1>3 DEF Past, ReqOf, LoginPc, SendPc, Proper
<1>12. NoEarlyPush' /\ Addressed'
  <2>1. /\ session[mine[c]].con = target[c] /\ target[c] \in Conns
        /\ as[target[c]] = req[c].to \/ peer[target[c]] = "closed"
    BY <1>1, Addressee
  <2>2. as[target[c]] = req[c].to => as[target[c]] # NoUser
    <3>1. pc[c] \in SendPc
      BY <1>1 DEF SendPc
    <3>2. req[c].to \in Users
      BY <3>1, Sending
    <3> QED
      BY <3>2, SessionAssumption
  <2>3. \/ got' = got
        \/ /\ as[target[c]] = req[c].to
           /\ got' = [got EXCEPT ![target[c]] = @ \cup {[kind |-> "chat", user |-> req[c].to]}]
    BY <1>1, <2>1 DEF Open
  <2>4. \A d \in Conns : got'[d] = got[d] \/ (d = target[c] /\ as[d] = req[c].to
          /\ got'[d] = got[d] \cup {[kind |-> "chat", user |-> req[c].to]})
    BY <2>1, <2>3 DEF ChatInv, ChatType
  <2>5. NoEarlyPush'
    BY <1>1, <2>2, <2>4 DEF ChatInv, NoEarlyPush
  <2>6. ASSUME NEW d \in Conns, NEW m \in got'[d], m.kind = "chat" PROVE m.user = as[d]
    <3>1. CASE m \in got[d]
      BY <2>6, <3>1 DEF ChatInv, Addressed
    <3>2. CASE m \notin got[d]
      <4>1. as[d] = req[c].to /\ m = [kind |-> "chat", user |-> req[c].to]
        BY <2>4, <2>6, <3>2
      <4> QED
        BY <4>1
    <3> QED
      BY <3>1, <3>2
  <2> QED
    BY <1>1, <2>5, <2>6 DEF Addressed
<1> QED
  <2>1. TableInv' /\ PastInv' /\ \A d \in Conns : Parts(d)'
    BY <1>1, <1>2, <1>4, <1>5, <1>6, <1>7, <1>8, <1>9, <1>10, <1>11, PartsKept DEF Parts
  <2> QED
    BY <1>4, <2>1, <1>12 DEF ChatInv

(* A notice reaches a client that has been told of its login.                *)
LEMMA WorkerKeeps ==
  ASSUME Regular, ChatInv, NEW c \in Conns, NEW e \in Conns, Worker(c, e), ~NullCrash
  PROVE  ChatInv'
<1>1. /\ e \in work[c] /\ lock[e] = Null
      /\ \/ got' = got
         \/ /\ Open(e)
            /\ \E k \in {"online", "offline"} :
                 got' = [got EXCEPT ![e] = @ \cup {[kind |-> k, user |-> subject[c]]}]
      /\ work' = [work EXCEPT ![c] = @ \ {e}]
      /\ UNCHANGED <<uidSession, sockSession, session, freeBlocks, chan, peer, as, shut,
                     lock, pc, req, mine, target>>
  BY DEF Worker, At, Running, Goto, NoFault, sessionVars, clientVars, localVars,
     PushMaybeFreed, Push
<1>2. /\ TRUE
      /\ \A d \in Conns \ {c} : Same(d)
  BY <1>1, SessionAssumption, ServerAssumption DEF ChatInv, ChatType, Same
<1>3. /\ ReqOf(c) /\ MineOf(c) /\ TargetOf(c) /\ OwnerOf(c) /\ SockOf(c)
      /\ \A u \in Users : uidSession[u] \in Blocks => NotFree(uidSession[u])
      /\ req[c] # NoReq => req[c] \in Request
  BY Here
<1>4. ChatType'
  BY <1>1, SessionAssumption DEF ChatInv, ChatType
<1>5. Frame(c)
  BY <1>1, <1>2 DEF ChatInv, ChatType, Frame, NotFree
<1>6. ReqOf(c)'
  BY <1>1, <1>2, <1>3, SessionAssumption, ServerAssumption, ZenonT(60)
     DEF ReqOf, Making, LoginPc, SendPc, Proper
<1>7. MineOf(c)'
  BY <1>1, <1>2, <1>3, SessionAssumption, ServerAssumption, ZenonT(60)
     DEF MineOf, ReqOf, Making, LoginPc, SendPc, Leaving, NotFree, Proper
<1>8. TargetOf(c)'
  BY <1>1, <1>2, <1>3 DEF TargetOf, ReqOf, SendPc, LoginPc
<1>9. OwnerOf(c)'
  BY <1>1, <1>2, <1>3 DEF OwnerOf, ReqOf, Proper
<1>10. SockOf(c)'
  BY <1>1, <1>2, <1>3 DEF SockOf, ReqOf, NotFree
<1>11. Past(c) => Past(c)'
  BY <1>1, <1>2, <1>3 DEF Past, ReqOf, LoginPc, SendPc, Proper
<1>12. \A d, f \in Conns : f \in work'[d] => f \in work[d] \/ Past(f)
  BY <1>1 DEF ChatInv, ChatType
<1>13. NoEarlyPush' /\ Addressed'
  <2>1. Past(e) /\ ReqOf(e) /\ lock[e] # e
    BY <1>1, Here, SessionAssumption DEF ChatInv, PastInv
  <2>2. Open(e) => as[e] # NoUser
    BY <2>1 DEF Past, ReqOf, Open, LoginPc
  <2>3. \A d \in Conns : got'[d] = got[d] \/ (d = e /\ as[d] # NoUser /\ \E k \in {"online", "offline"} :
          got'[d] = got[d] \cup {[kind |-> k, user |-> subject[c]]})
    BY <1>1, <2>2 DEF ChatInv, ChatType
  <2>4. NoEarlyPush'
    BY <1>1, <2>3 DEF ChatInv, NoEarlyPush
  <2>5. ASSUME NEW d \in Conns, NEW m \in got'[d], m.kind = "chat" PROVE m.user = as[d]
    <3>1. m \in got[d]
      <4>1. ASSUME NEW k \in {"online", "offline"}, m = [kind |-> k, user |-> subject[c]] PROVE FALSE
        BY <2>5, <4>1
      <4> QED
        BY <2>3, <4>1
    <3> QED
      BY <2>5, <3>1 DEF ChatInv, Addressed
  <2> QED
    BY <1>1, <2>4, <2>5 DEF Addressed
<1> QED
  <2>1. TableInv' /\ PastInv' /\ \A d \in Conns : Parts(d)'
    BY <1>1, <1>2, <1>4, <1>5, <1>6, <1>7, <1>8, <1>9, <1>10, <1>11, <1>12, PartsKept
       DEF Parts
  <2> QED
    BY <1>4, <2>1, <1>13 DEF ChatInv

-----------------------------------------------------------------------------
(* A user logs in once, so there is no earlier session to destroy.           *)
LEMMA NothingToErase ==
  ASSUME ChatInv, NEW c \in Conns
  PROVE  ~EraseOld(c)
  BY Here DEF ReqOf, EraseOld, At

(* Initially the tables are empty and all blocks are free.                   *)
LEMMA ChatInit ==
  ASSUME Regular, Init
  PROVE  ChatInv
<1>1. /\ freeBlocks \in Seq(Blocks)
      /\ \A i, j \in 1..Len(freeBlocks) : freeBlocks[i] = freeBlocks[j] => i = j
  BY FreeInit
<1>2. ChatType
  <2>1. session \in [Blocks -> Session]
    BY DEF Init, SessionInit, Session
  <2> QED
    BY <1>1, <2>1 DEF Init, SessionInit, ChatType, PC
<1>3. TableInv /\ PastInv
  BY <1>1, SessionAssumption DEF Init, SessionInit, TableInv, UserOK, PastInv
<1>4. ASSUME NEW c \in Conns PROVE Parts(c)
  <2>1. ReqOf(c)
    BY <1>4 DEF Init, ReqOf, Making, LoginPc, SendPc
  <2>2. MineOf(c) /\ TargetOf(c)
    BY <1>4 DEF Init, MineOf, TargetOf, Making, LoginPc, SendPc
  <2>3. OwnerOf(c) /\ SockOf(c)
    BY <1>4, SessionAssumption DEF Init, SessionInit, OwnerOf, SockOf
  <2> QED
    BY <2>1, <2>2, <2>3 DEF Parts
<1>5. NoEarlyPush /\ Addressed
  BY DEF Init, NoEarlyPush, Addressed
<1> QED
  BY <1>2, <1>3, <1>4, <1>5 DEF ChatInv

(* Every step keeps the invariant.                                           *)
LEMMA ChatStep ==
  ASSUME Regular, ChatInv, [Next]_vars
  PROVE  ChatInv'
<1>1. CASE NullCrash \/ UNCHANGED vars
  BY <1>1, CrashKeeps
<1>2. ASSUME NEW c \in Conns, ~NullCrash, Listener(c) PROVE ChatInv'
  <2>1. CASE Receive(c) \/ ReceiveEof(c) \/ Reply(c) \/ VisitNext(c) \/ Joined(c) \/ GetOnline(c)
    BY <1>2, <2>1, ReceiveKeeps, ReceiveEofKeeps, ReplyKeeps, VisitNextKeeps, JoinedKeeps,
       GetOnlineKeeps
  <2>2. CASE Login(c) \/ Replace(c) \/ EraseOld(c) \/ InsertUid(c) \/ InsertSock(c)
    BY <1>2, <2>2, LoginKeeps, ReplaceKeeps, NothingToErase, InsertUidKeeps, InsertSockKeeps
  <2>3. CASE Lookup(c) \/ GoLock(c) \/ WaitLock(c) \/ PushChat(c) \/ UnPush(c)
    BY <1>2, <2>3, LookupKeeps, GoLockKeeps, WaitLockKeeps, PushChatKeeps, UnPushKeeps
  <2>4. CASE Disconnect(c) \/ Detach(c) \/ EraseSock(c) \/ Destroy(c)
    BY <1>2, <2>4, LeaveKeeps, DisconnectKeeps, DetachKeeps, EraseSockKeeps, DestroyKeeps
  <2> QED
    BY <1>2, <2>1, <2>2, <2>3, <2>4 DEF Listener
<1>3. ASSUME NEW c \in Conns, ~NullCrash,
             Accept(c) \/ ClientRequest(c) \/ ClientClose(c) \/ (\E d \in Conns : Worker(c, d))
      PROVE  ChatInv'
  BY <1>3, AcceptKeeps, ClientRequestKeeps, ClientCloseKeeps, WorkerKeeps
<1> QED
  BY <1>1, <1>2, <1>3 DEF Next, Server, Client

LEMMA ChatInvariant ==
  ASSUME Regular
  PROVE  Spec => []ChatInv
<1>1. Init => ChatInv
  BY ChatInit
<1>2. ChatInv /\ [Next]_vars => ChatInv'
  BY ChatStep
<1> QED
  BY <1>1, <1>2, PTL DEF Spec

-----------------------------------------------------------------------------
(* The listener of a logged-in client's connection stands where both tables  *)
(* lead to its session.                                                      *)
LEMMA LoggedInSession ==
  ASSUME ChatInv, NEW c \in Conns, LoggedIn(c)
  PROVE  /\ as[c] \in Users /\ uidSession[as[c]] \in Blocks
         /\ sockSession[c] = uidSession[as[c]]
         /\ session[sockSession[c]] = NewSession(c, as[c])
<1>1. MineOf(c) /\ as[c] \in Users /\ as[c] # NoUser /\ ~Leaving(c)
  BY Here DEF LoggedIn, ChatInv, ChatType
<1> QED
  BY <1>1 DEF MineOf

(* For any number of clients, logins, messages and disconnections that       *)
(* overlap, a client whose login was answered has one session, online, that  *)
(* both maps of usersession.cpp lead to, as long as its listener is in       *)
(* _doListen.                                                                *)
THEOREM LoggedInRegistered ==
  ASSUME Regular
  PROVE  Spec => []Registered
<1>1. ChatInv => Registered
  BY LoggedInSession DEF Registered
<1> QED
  BY <1>1, ChatInvariant, PTL

(* getOnlineList, which walks the map of users without a lock, never misses  *)
(* a user whose login has been answered.                                     *)
THEOREM LoggedInListed ==
  ASSUME Regular
  PROVE  Spec => []ListComplete
<1>1. ChatInv => ListComplete
  <2> SUFFICES ASSUME ChatInv, NEW c \in Conns, LoggedIn(c)
               PROVE  as[c] \in OnlineUsers(session)
    BY DEF ListComplete
  <2>1. /\ as[c] \in Users /\ uidSession[as[c]] \in Blocks
        /\ session[uidSession[as[c]]] = NewSession(c, as[c])
    BY LoggedInSession
  <2>2. session[uidSession[as[c]]].online = TRUE
    BY <2>1 DEF NewSession
  <2> QED
    BY <2>1, <2>2, Zenon DEF OnlineUsers
<1> QED
  BY <1>1, ChatInvariant, PTL

(* The notices and messages other threads push into a connection never reach *)
(* a client that still waits for the reply to its login: _doListen holds     *)
(* _send_mutex from the request to the reply, and a session becomes visible  *)
(* to others only in between.                                                *)
THEOREM LoginReplyFirst ==
  ASSUME Regular
  PROVE  Spec => []NoEarlyPush
<1>1. ChatInv => NoEarlyPush
  BY DEF ChatInv
<1> QED
  BY <1>1, ChatInvariant, PTL

(* _send_message looks the addressee up, waits for the mutex of a connection *)
(* and reads the connection of the session again: whatever happens between,  *)
(* only a client logged in as the addressee gets the message.                *)
THEOREM ChatToAddressee ==
  ASSUME Regular
  PROVE  Spec => []Addressed
<1>1. ChatInv => Addressed
  BY DEF ChatInv
<1> QED
  BY <1>1, ChatInvariant, PTL

-----------------------------------------------------------------------------
(* Presence: who has been told about whom, when every user has one client    *)
(* and logins come one at a time.                                            *)

(* _change_online of d has not told c yet.                                   *)
Pending(d, c) ==
  /\ pc[d] = "notify"
  /\ c \in work[d] \/ \E i \in 1 .. Len(todo[d]) : todo[d][i] = c

Notice(u) == [kind |-> "online", user |-> u]
Parting(d) == pc[d] = "notify" /\ req[d] = NoReq

(* Everybody who is logged in hears of a login before it is answered, and    *)
(* believes it before the table of users knows.                              *)
Announced(d) ==
  /\ Placing(d) \/ Placed(d) =>
       \A c \in Conns : LoggedIn(c) => Pending(d, c) \/ Notice(req[d].user) \in got[c]
  /\ Placing(d) =>
       \A c \in Conns : LoggedIn(c) => Pending(d, c) \/ req[d].user \in view[c]
  /\ pc[d] = "notify" =>
       subject[d] = (IF req[d] # NoReq THEN req[d].user ELSE session[mine[d]].user)

(* Both tables lead to the session of a connection; an online one belongs to *)
(* a connection that has not begun to leave.                                 *)
InTables(c) ==
  sockSession[c] \in Blocks => uidSession[session[sockSession[c]].user] = sockSession[c]

Staying(c) == pc[c] \notin {"none", "detach", "erasesock", "destroy", "gone"} /\ ~Parting(c)

OnlineEntry(u) ==
  u \in OnlineUsers(session) =>
    \E c \in Conns :
      /\ session[uidSession[u]].con = c
      /\ \/ pc[c] = "inssock"
         \/ sockSession[c] = uidSession[u] /\ Staying(c)

(* What client c may believe of u: it is true, it will be when a login has    *)
(* come as far as the tables, or a notice that it is not is on its way to c. *)
Accounted(u, c) ==
  \/ u \in OnlineUsers(session)
  \/ \E d \in Conns : Placing(d) /\ req[d].user = u
  \/ \E d \in Conns : Parting(d) /\ Pending(d, c) /\ subject[d] = u

Believes(c) ==
  /\ c \in listed => as[c] # NoUser
  /\ as[c] = NoUser /\ got[c] = {} => view[c] = {}
  /\ list[c] # {} => pc[c] = "reply" /\ req[c].op = "online"
  /\ LoggedIn(c) => \A u \in (view[c] \cup list[c]) \ {as[c]} : Accounted(u, c)

(* Once it has the list it misses nobody.                                    *)
Misses(c) ==
  LoggedIn(c) => \A u \in OnlineUsers(session) \ {as[c]} :
    /\ c \in listed => u \in view[c]
    /\ pc[c] = "reply" /\ req[c].op = "online" => u \in view[c] \cup list[c]

PresencePart(c) == Announced(c) /\ InTables(c) /\ Believes(c) /\ Misses(c)

PresenceInv ==
  /\ \A c \in Conns : PresencePart(c)
  /\ \A u \in Users : OnlineEntry(u)
  /\ OneIsTold

(* A step of c that no client sees: nobody is told, comes or goes.           *)
Unseen(c) ==
  /\ \A d \in Conns \ {c} : Still(d) /\ subject'[d] = subject[d]
  /\ UNCHANGED <<as, view, listed, list, todo, work, shut>>
  /\ \A d \in Conns : got[d] \subseteq got'[d]
  /\ OnlineUsers(session)' = OnlineUsers(session)
  /\ \A b \in Blocks : session'[b].user = session[b].user
  /\ \A d \in Conns : InTables(d)'
  /\ \A u \in Users : OnlineEntry(u)'
  /\ LoggedIn(c)' => LoggedIn(c)
  /\ Placing(c)' <=> Placing(c)
  /\ Placing(c) => req'[c] = req[c]
  /\ Placed(c)' => (Placing(c) \/ Placed(c)) /\ req'[c] = req[c]
  /\ pc'[c] = "notify" =>
       /\ pc[c] = "notify" /\ mine'[c] = mine[c] /\ req'[c] = req[c] /\ subject'[c] = subject[c]
  /\ pc[c] = "notify" => pc'[c] = "notify" \/ (todo[c] = <<>> /\ work[c] = {})
  /\ list[c] # {} => pc'[c] = pc[c] /\ req'[c] = req[c]
  /\ pc'[c] = "reply" /\ req'[c].op = "online" => pc[c] = "reply" /\ req'[c] = req[c]

LEMMA UnseenPart ==
  ASSUME TypeInv, PresenceInv, NEW c \in Conns, Unseen(c), NEW d \in Conns
  PROVE  PresencePart(d)'
<1>0. Announced(d) /\ Believes(d) /\ Misses(d)
  BY DEF PresenceInv, PresencePart
<1>1. \A e \in Conns : LoggedIn(e)' => LoggedIn(e)
  <2>1. shut \subseteq shut'
    BY DEF Unseen
  <2> QED BY <2>1, StillLoggedIn DEF Unseen
<1>2. ASSUME NEW e \in Conns, NEW f \in Conns PROVE Pending(e, f)' <=> Pending(e, f)
  <2>1. todo' = todo /\ work' = work
    BY DEF Unseen
  <2>2. CASE e = c
    <3>1. pc'[c] = "notify" => pc[c] = "notify"
      BY DEF Unseen
    <3>2. pc[c] = "notify" => pc'[c] = "notify" \/ (todo[c] = <<>> /\ work[c] = {})
      BY DEF Unseen
    <3> QED BY <2>1, <2>2, <3>1, <3>2 DEF Pending
  <2>3. CASE e # c
    <3>1. pc'[e] = pc[e]
      BY <2>3 DEF Unseen, Still
    <3> QED BY <2>1, <3>1 DEF Pending
  <2> QED BY <2>2, <2>3
<1>3. ASSUME NEW e \in Conns
      PROVE  /\ Placing(e)' <=> Placing(e)
             /\ Placing(e) => req'[e] = req[e]
             /\ Placed(e)' => (Placing(e) \/ Placed(e)) /\ req'[e] = req[e]
             /\ pc'[e] = "notify" => /\ pc[e] = "notify" /\ mine'[e] = mine[e]
                                     /\ req'[e] = req[e] /\ subject'[e] = subject[e]
             /\ list[e] # {} => pc'[e] = pc[e] /\ req'[e] = req[e]
             /\ pc'[e] = "reply" /\ req'[e].op = "online" =>
                  pc[e] = "reply" /\ req'[e] = req[e]
  <2>1. CASE e = c
    BY <2>1 DEF Unseen
  <2>2. CASE e # c
    BY <2>2, StillSame DEF Unseen, Still
  <2> QED BY <2>1, <2>2
<1>4. UNCHANGED <<as, view, listed, list>> /\ \A e \in Conns : got[e] \subseteq got'[e]
  BY DEF Unseen
<1>5. \A b \in Blocks : session'[b].user = session[b].user
  BY DEF Unseen
<1>6. Announced(d)'
  <2>1. ASSUME Placing(d)' \/ Placed(d)', NEW e \in Conns, LoggedIn(e)'
        PROVE  Pending(d, e)' \/ Notice(req'[d].user) \in got'[e]
    BY <1>0, <1>1, <1>2, <1>3, <1>4, <2>1 DEF Announced
  <2>2. ASSUME Placing(d)', NEW e \in Conns, LoggedIn(e)'
        PROVE  Pending(d, e)' \/ req'[d].user \in view'[e]
    BY <1>0, <1>1, <1>2, <1>3, <1>4, <2>2 DEF Announced
  <2>3. ASSUME pc'[d] = "notify"
        PROVE  subject'[d] = (IF req'[d] # NoReq THEN req'[d].user ELSE session'[mine'[d]].user)
    <3>1. Local(d)
      BY DEF TypeInv
    <3>2. mine[d] \in Blocks
      BY <1>3, <2>3, <3>1 DEF Local
    <3> QED BY <1>0, <1>3, <1>5, <2>3, <3>2 DEF Announced
  <2> QED BY <2>1, <2>2, <2>3 DEF Announced, Notice
<1>7. Believes(d)'
  <2>1. /\ d \in listed' => as'[d] # NoUser
        /\ as'[d] = NoUser /\ got'[d] = {} => view'[d] = {}
        /\ list'[d] # {} => pc'[d] = "reply" /\ req'[d].op = "online"
    BY <1>0, <1>3, <1>4 DEF Believes
  <2>2. ASSUME LoggedIn(d)', NEW u \in (view[d] \cup list[d]) \ {as[d]}
        PROVE  \/ u \in OnlineUsers(session)'
               \/ \E e \in Conns : Placing(e)' /\ req'[e].user = u
               \/ \E e \in Conns : Parting(e)' /\ Pending(e, d)' /\ subject'[e] = u
    <3>1. \/ u \in OnlineUsers(session)
          \/ \E e \in Conns : Placing(e) /\ req[e].user = u
          \/ \E e \in Conns : Parting(e) /\ Pending(e, d) /\ subject[e] = u
      BY <1>0, <1>1, <2>2 DEF Believes, Accounted
    <3>2. CASE u \in OnlineUsers(session)
      BY <3>2 DEF Unseen
    <3>3. ASSUME NEW e \in Conns, Placing(e), req[e].user = u
          PROVE  Placing(e)' /\ req'[e].user = u
      BY <1>3, <3>3
    <3>4. ASSUME NEW e \in Conns, Parting(e), Pending(e, d), subject[e] = u
          PROVE  Parting(e)' /\ Pending(e, d)' /\ subject'[e] = u
      <4>1. Pending(e, d)' /\ pc'[e] = "notify"
        BY <1>2, <3>4 DEF Pending
      <4> QED BY <1>3, <3>4, <4>1 DEF Parting
    <3> QED BY <3>1, <3>2, <3>3, <3>4
  <2> QED BY <1>4, <2>1, <2>2 DEF Believes, Accounted
<1>8. Misses(d)'
  <2>1. OnlineUsers(session)' = OnlineUsers(session)
    BY DEF Unseen
  <2> QED BY <1>0, <1>1, <1>3, <1>4, <2>1 DEF Misses
<1>9. InTables(d)'
  BY DEF Unseen
<1> QED BY <1>6, <1>7, <1>8, <1>9 DEF PresencePart

LEMMA UnseenKeeps ==
  ASSUME TypeInv, PresenceInv, NEW c \in Conns, Unseen(c)
  PROVE  PresenceInv'
<1>1. \A d \in Conns : PresencePart(d)'
  BY UnseenPart
<1>2. OneIsTold'
  <2>1. shut \subseteq shut'
    BY DEF Unseen
  <2>2. \A d \in Conns : LoggedIn(d)' => LoggedIn(d)
    BY <2>1, StillLoggedIn DEF Unseen
  <2>3. as' = as /\ \A d \in Conns : got[d] \subseteq got'[d]
    BY DEF Unseen
  <2> QED BY <2>2, <2>3 DEF OneIsTold, PresenceInv
<1>3. \A u \in Users : OnlineEntry(u)'
  BY DEF Unseen
<1> QED BY <1>1, <1>2, <1>3 DEF PresenceInv

(* A step that leaves the tables alone.                                      *)
LEMMA TablesLeft ==
  ASSUME TypeInv, PresenceInv, NEW c \in Conns, \A d \in Conns \ {c} : Still(d),
         UNCHANGED <<uidSession, sockSession, session>>,
         pc[c] = "inssock" => pc'[c] = "inssock",
         Staying(c) => Staying(c)' \/ sockSession[c] = Absent
  PROVE  /\ OnlineUsers(session)' = OnlineUsers(session)
         /\ \A b \in Blocks : session'[b].user = session[b].user
         /\ \A d \in Conns : InTables(d)'
         /\ \A u \in Users : OnlineEntry(u)'
<1>1. OnlineUsers(session)' = OnlineUsers(session)
  BY DEF OnlineUsers
<1>2. \A d \in Conns : InTables(d)'
  BY DEF PresenceInv, PresencePart, InTables
<1>3. ASSUME NEW u \in Users, u \in OnlineUsers(session)
      PROVE  \E d \in Conns : /\ session[uidSession[u]].con = d
                              /\ pc'[d] = "inssock" \/ (sockSession[d] = uidSession[u] /\ Staying(d)')
  <2>1. PICK d \in Conns : /\ session[uidSession[u]].con = d
                           /\ pc[d] = "inssock" \/ (sockSession[d] = uidSession[u] /\ Staying(d))
    BY <1>3 DEF PresenceInv, OnlineEntry
  <2>2. uidSession[u] # Absent
    BY <1>3, SessionAssumption DEF OnlineUsers
  <2>3. CASE d = c
    BY <2>1, <2>2, <2>3
  <2>4. CASE d # c
    BY <2>1, <2>4 DEF Still, Staying, Parting
  <2> QED BY <2>3, <2>4
<1> QED BY <1>1, <1>2, <1>3 DEF OnlineEntry

(* Who is logged in is in the table of users, and its session leads to it.   *)
LEMMA LoggedInOnline ==
  ASSUME ChatInv, NEW c \in Conns, LoggedIn(c)
  PROVE  /\ as[c] \in OnlineUsers(session) /\ session[uidSession[as[c]]].con = c
         /\ session[sockSession[c]].user = as[c] /\ sockSession[c] \in Blocks
<1>1. /\ as[c] \in Users /\ uidSession[as[c]] \in Blocks
      /\ sockSession[c] = uidSession[as[c]] /\ session[sockSession[c]] = NewSession(c, as[c])
  BY LoggedInSession
<1>2. /\ session[sockSession[c]].user = as[c] /\ session[sockSession[c]].con = c
      /\ session[sockSession[c]].online
  BY <1>1 DEF NewSession
<1> QED BY <1>1, <1>2 DEF OnlineUsers

(* A connection that the step leaves alone has told what it had told.        *)
LEMMA StillAnnounced ==
  ASSUME PresenceInv, NEW d \in Conns, Still(d), subject'[d] = subject[d],
         \A e \in Conns : LoggedIn(e)' => LoggedIn(e),
         \A e \in Conns : Pending(d, e) => Pending(d, e)',
         \A e \in Conns : got[e] \subseteq got'[e],
         Placing(d) => \A e \in Conns : req[d].user \in view[e] => req[d].user \in view'[e],
         pc[d] = "notify" /\ req[d] = NoReq => session'[mine[d]].user = session[mine[d]].user
  PROVE  Announced(d)'
<1>0. Announced(d) /\ pc'[d] = pc[d] /\ req'[d] = req[d] /\ mine'[d] = mine[d]
  BY DEF PresenceInv, PresencePart, Still
<1>1. (Placing(d)' <=> Placing(d)) /\ (Placed(d)' <=> Placed(d))
  BY StillSame
<1>2. ASSUME Placing(d)' \/ Placed(d)', NEW e \in Conns, LoggedIn(e)'
      PROVE  Pending(d, e)' \/ Notice(req'[d].user) \in got'[e]
  BY <1>0, <1>1, <1>2 DEF Announced
<1>3. ASSUME Placing(d)', NEW e \in Conns, LoggedIn(e)'
      PROVE  Pending(d, e)' \/ req'[d].user \in view'[e]
  BY <1>0, <1>1, <1>3 DEF Announced
<1>4. ASSUME pc'[d] = "notify"
      PROVE  subject'[d] = (IF req'[d] # NoReq THEN req'[d].user ELSE session'[mine'[d]].user)
  BY <1>0, <1>4 DEF Announced
<1> QED BY <1>2, <1>3, <1>4 DEF Announced, Notice

(* What a client believes, when the step tells it nothing.                   *)
LEMMA BelievesKept ==
  ASSUME PresenceInv, NEW e \in Conns, UNCHANGED <<as, view, listed>>,
         got[e] \subseteq got'[e], list'[e] = list[e],
         list[e] # {} => pc'[e] = pc[e] /\ req'[e] = req[e],
         LoggedIn(e)' => LoggedIn(e),
         \A u : LoggedIn(e)' /\ u # as[e] /\ Accounted(u, e) => Accounted(u, e)'
  PROVE  Believes(e)'
<1>0. Believes(e)
  BY DEF PresenceInv, PresencePart
<1>1. ASSUME LoggedIn(e)', NEW u \in (view'[e] \cup list'[e]) \ {as'[e]}
      PROVE  Accounted(u, e)'
  BY <1>0, <1>1 DEF Believes
<1> QED BY <1>0, <1>1 DEF Believes

LEMMA MissesKept ==
  ASSUME PresenceInv, NEW e \in Conns, UNCHANGED <<as, view, listed>>, list'[e] = list[e],
         LoggedIn(e)' => LoggedIn(e),
         \A u \in OnlineUsers(session)' : u \in OnlineUsers(session),
         pc'[e] = "reply" /\ req'[e].op = "online" => pc[e] = "reply" /\ req'[e] = req[e]
  PROVE  Misses(e)'
  BY DEF PresenceInv, PresencePart, Misses

(* A new connection has nothing of its own yet.                              *)
LEMMA AcceptPresence ==
  ASSUME TypeInv, LoginInv, ChatInv, PresenceInv, NEW c \in Conns, Accept(c), ~NullCrash
  PROVE  PresenceInv'
<1>0. TypeOK /\ Local(c) /\ OneRequest(c) /\ Believes(c)
  BY DEF TypeInv, LoginInv, LoginPart, PresenceInv, PresencePart
<1>1. /\ peer[c] = "none"
      /\ peer' = [peer EXCEPT ![c] = "ready"]
      /\ pc' = [pc EXCEPT ![c] = "recv"]
      /\ UNCHANGED <<uidSession, sockSession, session, as, view, listed, got, list, todo,
                     work, shut, subject, chan, req, mine, old>>
  BY TypeInv DEF Accept, At, Running, Goto, NoFault, sessionVars, clientVars, localVars
<1>2. /\ peer'[c] = "ready"
      /\ pc'[c] = "recv"
  BY <1>0, <1>1 DEF TypeOK, SessionTypeOK
<1>3. \A d \in Conns \ {c} : Still(d) /\ subject'[d] = subject[d]
  BY <1>0, <1>1 DEF TypeOK, SessionTypeOK, Still
<1>4. LoggedIn(c)' => LoggedIn(c)
  BY <1>0, <1>1, <1>2 DEF LoggedIn, Leaving, Open, OneRequest, Local, Resting, Entering,
     SendPc
<1>5. /\ pc[c] # "inssock" \/ pc'[c] = "inssock"
      /\ Staying(c) => Staying(c)' \/ sockSession[c] = Absent
  BY <1>0, <1>1, <1>2 DEF Staying, Parting, OneRequest, Local, Resting, Entering, SendPc
<1>6. /\ OnlineUsers(session)' = OnlineUsers(session)
      /\ \A b \in Blocks : session'[b].user = session[b].user
      /\ \A d \in Conns : InTables(d)'
      /\ \A u \in Users : OnlineEntry(u)'
  BY <1>1, <1>3, <1>5, TablesLeft
<1>7. /\ Placing(c)' <=> Placing(c)
      /\ Placing(c) => req'[c] = req[c]
      /\ Placed(c)' => (Placing(c) \/ Placed(c)) /\ req'[c] = req[c]
      /\ pc'[c] = "notify" => /\ pc[c] = "notify" /\ mine'[c] = mine[c] /\ req'[c] = req[c]
                              /\ subject'[c] = subject[c]
      /\ pc[c] = "notify" => pc'[c] = "notify" \/ (todo[c] = <<>> /\ work[c] = {})
      /\ list[c] # {} => pc'[c] = pc[c] /\ req'[c] = req[c]
      /\ pc'[c] = "reply" /\ req'[c].op = "online" => pc[c] = "reply" /\ req'[c] = req[c]
  BY <1>0, <1>1, <1>2 DEF Placing, Placed, Believes, OneRequest, Local, Resting, Entering,
     SendPc
<1>8. \A d \in Conns : got[d] \subseteq got'[d]
  BY <1>1
<1> QED BY <1>1, <1>3, <1>4, <1>6, <1>7, <1>8, UnseenKeeps DEF Unseen

(* A client sends one of its requests.                                       *)
LEMMA ClientRequestPresence ==
  ASSUME TypeInv, LoginInv, ChatInv, PresenceInv, NEW c \in Conns, ClientRequest(c),
         ~NullCrash
  PROVE  PresenceInv'
<1>0. TypeOK /\ Local(c) /\ OneRequest(c) /\ Believes(c)
  BY DEF TypeInv, LoginInv, LoginPart, PresenceInv, PresencePart
<1>1. /\ peer[c] = "ready"
      /\ chan' = [chan EXCEPT ![c] = chan'[c]]
      /\ peer' = [peer EXCEPT ![c] = "waiting"]
      /\ UNCHANGED <<uidSession, sockSession, session, as, view, listed, got, list, todo,
                     work, shut, subject, pc, req, mine, old>>
  <2>1. chan' = [chan EXCEPT ![c] = chan'[c]]
    BY <1>0 DEF ClientRequest, TypeOK
  <2> QED BY <2>1 DEF ClientRequest, sessionVars, localVars
<1>2. /\ peer'[c] = "waiting"
  BY <1>0, <1>1 DEF TypeOK, SessionTypeOK
<1>3. \A d \in Conns \ {c} : Still(d) /\ subject'[d] = subject[d]
  BY <1>0, <1>1 DEF TypeOK, SessionTypeOK, Still
<1>4. LoggedIn(c)' => LoggedIn(c)
  BY <1>0, <1>1, <1>2 DEF LoggedIn, Leaving, Open, OneRequest, Local, Resting, Entering,
     SendPc
<1>5. /\ pc[c] # "inssock" \/ pc'[c] = "inssock"
      /\ Staying(c) => Staying(c)' \/ sockSession[c] = Absent
  BY <1>0, <1>1, <1>2 DEF Staying, Parting, OneRequest, Local, Resting, Entering, SendPc
<1>6. /\ OnlineUsers(session)' = OnlineUsers(session)
      /\ \A b \in Blocks : session'[b].user = session[b].user
      /\ \A d \in Conns : InTables(d)'
      /\ \A u \in Users : OnlineEntry(u)'
  BY <1>1, <1>3, <1>5, TablesLeft
<1>7. /\ Placing(c)' <=> Placing(c)
      /\ Placing(c) => req'[c] = req[c]
      /\ Placed(c)' => (Placing(c) \/ Placed(c)) /\ req'[c] = req[c]
      /\ pc'[c] = "notify" => /\ pc[c] = "notify" /\ mine'[c] = mine[c] /\ req'[c] = req[c]
                              /\ subject'[c] = subject[c]
      /\ pc[c] = "notify" => pc'[c] = "notify" \/ (todo[c] = <<>> /\ work[c] = {})
      /\ list[c] # {} => pc'[c] = pc[c] /\ req'[c] = req[c]
      /\ pc'[c] = "reply" /\ req'[c].op = "online" => pc[c] = "reply" /\ req'[c] = req[c]
  BY <1>0, <1>1, <1>2 DEF Placing, Placed, Believes, OneRequest, Local, Resting, Entering,
     SendPc
<1>8. \A d \in Conns : got[d] \subseteq got'[d]
  BY <1>1
<1> QED BY <1>1, <1>3, <1>4, <1>6, <1>7, <1>8, UnseenKeeps DEF Unseen

(* A client leaves.                                                          *)
LEMMA ClientClosePresence ==
  ASSUME TypeInv, LoginInv, ChatInv, PresenceInv, NEW c \in Conns, ClientClose(c),
         ~NullCrash
  PROVE  PresenceInv'
<1>0. TypeOK /\ Local(c) /\ OneRequest(c) /\ Believes(c)
  BY DEF TypeInv, LoginInv, LoginPart, PresenceInv, PresencePart
<1>1. /\ peer[c] \in {"ready", "waiting"}
      /\ peer' = [peer EXCEPT ![c] = "closed"]
      /\ UNCHANGED <<uidSession, sockSession, session, as, view, listed, got, list, todo,
                     work, shut, subject, chan, pc, req, mine, old>>
  BY TypeInv DEF ClientClose, At, Running, Goto, NoFault, sessionVars, clientVars, localVars
<1>2. /\ peer'[c] = "closed"
  BY <1>0, <1>1 DEF TypeOK, SessionTypeOK
<1>3. \A d \in Conns \ {c} : Still(d) /\ subject'[d] = subject[d]
  BY <1>0, <1>1 DEF TypeOK, SessionTypeOK, Still
<1>4. LoggedIn(c)' => LoggedIn(c)
  BY <1>0, <1>1, <1>2 DEF LoggedIn, Leaving, Open, OneRequest, Local, Resting, Entering,
     SendPc
<1>5. /\ pc[c] # "inssock" \/ pc'[c] = "inssock"
      /\ Staying(c) => Staying(c)' \/ sockSession[c] = Absent
  BY <1>0, <1>1, <1>2 DEF Staying, Parting, OneRequest, Local, Resting, Entering, SendPc
<1>6. /\ OnlineUsers(session)' = OnlineUsers(session)
      /\ \A b \in Blocks : session'[b].user = session[b].user
      /\ \A d \in Conns : InTables(d)'
      /\ \A u \in Users : OnlineEntry(u)'
  BY <1>1, <1>3, <1>5, TablesLeft
<1>7. /\ Placing(c)' <=> Placing(c)
      /\ Placing(c) => req'[c] = req[c]
      /\ Placed(c)' => (Placing(c) \/ Placed(c)) /\ req'[c] = req[c]
      /\ pc'[c] = "notify" => /\ pc[c] = "notify" /\ mine'[c] = mine[c] /\ req'[c] = req[c]
                              /\ subject'[c] = subject[c]
      /\ pc[c] = "notify" => pc'[c] = "notify" \/ (todo[c] = <<>> /\ work[c] = {})
      /\ list[c] # {} => pc'[c] = pc[c] /\ req'[c] = req[c]
      /\ pc'[c] = "reply" /\ req'[c].op = "online" => pc[c] = "reply" /\ req'[c] = req[c]
  BY <1>0, <1>1, <1>2 DEF Placing, Placed, Believes, OneRequest, Local, Resting, Entering,
     SendPc
<1>8. \A d \in Conns : got[d] \subseteq got'[d]
  BY <1>1
<1> QED BY <1>1, <1>3, <1>4, <1>6, <1>7, <1>8, UnseenKeeps DEF Unseen

(* The listener takes the request; its operation decides where it goes.      *)
LEMMA ReceivePresence ==
  ASSUME TypeInv, LoginInv, ChatInv, PresenceInv, NEW c \in Conns, Receive(c),
         ~NullCrash
  PROVE  PresenceInv'
<1>0. TypeOK /\ Local(c) /\ OneRequest(c) /\ Believes(c)
  BY DEF TypeInv, LoginInv, LoginPart, PresenceInv, PresencePart
<1>1. /\ pc[c] = "recv"
      /\ chan[c] # NoReq
      /\ req' = [req EXCEPT ![c] = chan[c]]
      /\ chan' = [chan EXCEPT ![c] = NoReq]
      /\ pc' = [pc EXCEPT ![c] = pc'[c]]
      /\ UNCHANGED <<uidSession, sockSession, session, as, view, listed, got, list, todo,
                     work, shut, subject, peer, mine, old>>
  <2>1. pc' = [pc EXCEPT ![c] = pc'[c]]
    BY <1>0 DEF Receive, Goto, TypeOK
  <2> QED BY <2>1 DEF Receive, At, Running, sessionVars
<1>2. /\ req'[c] = chan[c]
      /\ chan'[c] = NoReq
      /\ chan[c] # NoReq
      /\ pc'[c] \in {"login", "online", "lookup", "reply"}
      /\ (pc'[c] = "login") <=> (chan[c].op = "login")
      /\ pc'[c] = "reply" => chan[c].op \notin {"online", "login"}
  <2>1. chan[c] # NoReq /\ chan[c] \in Request /\ req'[c] = chan[c] /\ chan'[c] = NoReq
    BY <1>0, <1>1, ServerAssumption DEF TypeOK
  <2>2. pc' = [pc EXCEPT ![c] = CASE chan[c].op = "login"  -> "login"
                                  [] chan[c].op = "online" -> "online"
                                  [] chan[c].op = "send"   -> "lookup"
                                  [] OTHER                 -> "reply"]
    BY DEF Receive, Goto
  <2>3. pc'[c] = CASE chan[c].op = "login"  -> "login"
                   [] chan[c].op = "online" -> "online"
                   [] chan[c].op = "send"   -> "lookup"
                   [] OTHER                 -> "reply"
    BY <1>0, <2>2 DEF TypeOK
  <2> QED BY <2>1, <2>3
<1>3. \A d \in Conns \ {c} : Still(d) /\ subject'[d] = subject[d]
  BY <1>0, <1>1 DEF TypeOK, SessionTypeOK, Still
<1>4. LoggedIn(c)' => LoggedIn(c)
  BY <1>0, <1>1, <1>2 DEF LoggedIn, Leaving, Open, OneRequest, Local, Resting, Entering,
     SendPc
<1>5. /\ pc[c] # "inssock" \/ pc'[c] = "inssock"
      /\ Staying(c) => Staying(c)' \/ sockSession[c] = Absent
  BY <1>0, <1>1, <1>2 DEF Staying, Parting, OneRequest, Local, Resting, Entering, SendPc
<1>6. /\ OnlineUsers(session)' = OnlineUsers(session)
      /\ \A b \in Blocks : session'[b].user = session[b].user
      /\ \A d \in Conns : InTables(d)'
      /\ \A u \in Users : OnlineEntry(u)'
  BY <1>1, <1>3, <1>5, TablesLeft
<1>7. /\ Placing(c)' <=> Placing(c)
      /\ Placing(c) => req'[c] = req[c]
      /\ Placed(c)' => (Placing(c) \/ Placed(c)) /\ req'[c] = req[c]
      /\ pc'[c] = "notify" => /\ pc[c] = "notify" /\ mine'[c] = mine[c] /\ req'[c] = req[c]
                              /\ subject'[c] = subject[c]
      /\ pc[c] = "notify" => pc'[c] = "notify" \/ (todo[c] = <<>> /\ work[c] = {})
      /\ list[c] # {} => pc'[c] = pc[c] /\ req'[c] = req[c]
      /\ pc'[c] = "reply" /\ req'[c].op = "online" => pc[c] = "reply" /\ req'[c] = req[c]
  BY <1>0, <1>1, <1>2 DEF Placing, Placed, Believes, OneRequest, Local, Resting, Entering,
     SendPc
<1>8. \A d \in Conns : got[d] \subseteq got'[d]
  BY <1>1
<1> QED BY <1>1, <1>3, <1>4, <1>6, <1>7, <1>8, UnseenKeeps DEF Unseen

(* The listener leaves its loop without a request.                           *)
LEMMA ReceiveEofPresence ==
  ASSUME TypeInv, LoginInv, ChatInv, PresenceInv, NEW c \in Conns, ReceiveEof(c),
         ~NullCrash
  PROVE  PresenceInv'
<1>0. TypeOK /\ Local(c) /\ OneRequest(c) /\ Believes(c)
  BY DEF TypeInv, LoginInv, LoginPart, PresenceInv, PresencePart
<1>1. /\ pc[c] = "recv"
      /\ pc' = [pc EXCEPT ![c] = "disc"]
      /\ UNCHANGED <<uidSession, sockSession, session, as, view, listed, got, list, todo,
                     work, shut, subject, chan, peer, req, mine, old>>
  BY TypeInv DEF ReceiveEof, At, Running, Goto, NoFault, sessionVars, clientVars, localVars
<1>2. /\ pc'[c] = "disc"
  BY <1>0, <1>1 DEF TypeOK, SessionTypeOK
<1>3. \A d \in Conns \ {c} : Still(d) /\ subject'[d] = subject[d]
  BY <1>0, <1>1 DEF TypeOK, SessionTypeOK, Still
<1>4. LoggedIn(c)' => LoggedIn(c)
  BY <1>0, <1>1, <1>2 DEF LoggedIn, Leaving, Open, OneRequest, Local, Resting, Entering,
     SendPc
<1>5. /\ pc[c] # "inssock" \/ pc'[c] = "inssock"
      /\ Staying(c) => Staying(c)' \/ sockSession[c] = Absent
  BY <1>0, <1>1, <1>2 DEF Staying, Parting, OneRequest, Local, Resting, Entering, SendPc
<1>6. /\ OnlineUsers(session)' = OnlineUsers(session)
      /\ \A b \in Blocks : session'[b].user = session[b].user
      /\ \A d \in Conns : InTables(d)'
      /\ \A u \in Users : OnlineEntry(u)'
  BY <1>1, <1>3, <1>5, TablesLeft
<1>7. /\ Placing(c)' <=> Placing(c)
      /\ Placing(c) => req'[c] = req[c]
      /\ Placed(c)' => (Placing(c) \/ Placed(c)) /\ req'[c] = req[c]
      /\ pc'[c] = "notify" => /\ pc[c] = "notify" /\ mine'[c] = mine[c] /\ req'[c] = req[c]
                              /\ subject'[c] = subject[c]
      /\ pc[c] = "notify" => pc'[c] = "notify" \/ (todo[c] = <<>> /\ work[c] = {})
      /\ list[c] # {} => pc'[c] = pc[c] /\ req'[c] = req[c]
      /\ pc'[c] = "reply" /\ req'[c].op = "online" => pc[c] = "reply" /\ req'[c] = req[c]
  BY <1>0, <1>1, <1>2 DEF Placing, Placed, Believes, OneRequest, Local, Resting, Entering,
     SendPc
<1>8. \A d \in Conns : got[d] \subseteq got'[d]
  BY <1>1
<1> QED BY <1>1, <1>3, <1>4, <1>6, <1>7, <1>8, UnseenKeeps DEF Unseen

(* All notices are out.                                                      *)
LEMMA JoinedPresence ==
  ASSUME TypeInv, LoginInv, ChatInv, PresenceInv, NEW c \in Conns, Joined(c), ~NullCrash
  PROVE  PresenceInv'
<1>0. TypeOK /\ Local(c) /\ OneRequest(c) /\ Believes(c)
  BY DEF TypeInv, LoginInv, LoginPart, PresenceInv, PresencePart
<1>1. /\ pc[c] = "notify"
      /\ todo[c] = <<>> /\ work[c] = {}
      /\ pc' = [pc EXCEPT ![c] = IF req[c] # NoReq THEN "replace" ELSE "detach"]
      /\ subject' = [subject EXCEPT ![c] = NoUser]
      /\ UNCHANGED <<uidSession, sockSession, session, as, view, listed, got, list, todo,
                     work, shut, chan, peer, req, mine, old>>
  BY TypeInv DEF Joined, At, Running, Goto, NoFault, sessionVars, clientVars, localVars,
     WorkersDone
<1>2. /\ pc'[c] = IF req[c] # NoReq THEN "replace" ELSE "detach"
  BY <1>0, <1>1 DEF TypeOK, SessionTypeOK
<1>3. \A d \in Conns \ {c} : Still(d) /\ subject'[d] = subject[d]
  BY <1>0, <1>1 DEF TypeOK, SessionTypeOK, Still
<1>4. LoggedIn(c)' => LoggedIn(c)
  BY <1>0, <1>1, <1>2 DEF LoggedIn, Leaving, Open, OneRequest, Local, Resting, Entering,
     SendPc
<1>5. /\ pc[c] # "inssock" \/ pc'[c] = "inssock"
      /\ Staying(c) => Staying(c)' \/ sockSession[c] = Absent
  <2>1. ~Staying(c) \/ pc'[c] = "replace"
    BY <1>1, <1>2 DEF Staying, Parting
  <2> QED BY <1>1, <2>1 DEF Staying, Parting
<1>6. /\ OnlineUsers(session)' = OnlineUsers(session)
      /\ \A b \in Blocks : session'[b].user = session[b].user
      /\ \A d \in Conns : InTables(d)'
      /\ \A u \in Users : OnlineEntry(u)'
  BY <1>1, <1>3, <1>5, TablesLeft
<1>7. /\ Placing(c)' <=> Placing(c)
      /\ Placing(c) => req'[c] = req[c]
      /\ Placed(c)' => (Placing(c) \/ Placed(c)) /\ req'[c] = req[c]
      /\ pc'[c] = "notify" => /\ pc[c] = "notify" /\ mine'[c] = mine[c] /\ req'[c] = req[c]
                              /\ subject'[c] = subject[c]
      /\ pc[c] = "notify" => pc'[c] = "notify" \/ (todo[c] = <<>> /\ work[c] = {})
      /\ list[c] # {} => pc'[c] = pc[c] /\ req'[c] = req[c]
      /\ pc'[c] = "reply" /\ req'[c].op = "online" => pc[c] = "reply" /\ req'[c] = req[c]
  BY <1>0, <1>1, <1>2 DEF Placing, Placed, Believes, OneRequest, Local, Resting, Entering,
     SendPc
<1>8. \A d \in Conns : got[d] \subseteq got'[d]
  BY <1>1
<1> QED BY <1>1, <1>3, <1>4, <1>6, <1>7, <1>8, UnseenKeeps DEF Unseen

(* The user of a login has no earlier session.                               *)
LEMMA ReplacePresence ==
  ASSUME Regular, TypeInv, LoginInv, ChatInv, PresenceInv, NEW c \in Conns, Replace(c),
         ~NullCrash
  PROVE  PresenceInv'
<1>0. TypeOK /\ Local(c) /\ OneRequest(c) /\ Believes(c)
  BY DEF TypeInv, LoginInv, LoginPart, PresenceInv, PresencePart
<1>1. /\ pc[c] = "replace"
      /\ pc' = [pc EXCEPT ![c] = "insuid"]
      /\ UNCHANGED <<uidSession, sockSession, session, as, view, listed, got, list, todo,
                     work, shut, subject, chan, peer, req, mine, old>>
  <2>1. pc[c] = "replace"
    BY DEF Replace, At
  <2>2. uidSession[req[c].user] = Absent
    BY <2>1, Unplaced DEF Making, LoginPc
  <2> QED BY <2>1, <2>2 DEF Replace, Goto, sessionVars, clientVars, localVars
<1>2. /\ pc'[c] = "insuid"
  BY <1>0, <1>1 DEF TypeOK, SessionTypeOK
<1>3. \A d \in Conns \ {c} : Still(d) /\ subject'[d] = subject[d]
  BY <1>0, <1>1 DEF TypeOK, SessionTypeOK, Still
<1>4. LoggedIn(c)' => LoggedIn(c)
  BY <1>0, <1>1, <1>2 DEF LoggedIn, Leaving, Open, OneRequest, Local, Resting, Entering,
     SendPc
<1>5. /\ pc[c] # "inssock" \/ pc'[c] = "inssock"
      /\ Staying(c) => Staying(c)' \/ sockSession[c] = Absent
  BY <1>0, <1>1, <1>2 DEF Staying, Parting, OneRequest, Local, Resting, Entering, SendPc
<1>6. /\ OnlineUsers(session)' = OnlineUsers(session)
      /\ \A b \in Blocks : session'[b].user = session[b].user
      /\ \A d \in Conns : InTables(d)'
      /\ \A u \in Users : OnlineEntry(u)'
  BY <1>1, <1>3, <1>5, TablesLeft
<1>7. /\ Placing(c)' <=> Placing(c)
      /\ Placing(c) => req'[c] = req[c]
      /\ Placed(c)' => (Placing(c) \/ Placed(c)) /\ req'[c] = req[c]
      /\ pc'[c] = "notify" => /\ pc[c] = "notify" /\ mine'[c] = mine[c] /\ req'[c] = req[c]
                              /\ subject'[c] = subject[c]
      /\ pc[c] = "notify" => pc'[c] = "notify" \/ (todo[c] = <<>> /\ work[c] = {})
      /\ list[c] # {} => pc'[c] = pc[c] /\ req'[c] = req[c]
      /\ pc'[c] = "reply" /\ req'[c].op = "online" => pc[c] = "reply" /\ req'[c] = req[c]
  BY <1>0, <1>1, <1>2 DEF Placing, Placed, Believes, OneRequest, Local, Resting, Entering,
     SendPc
<1>8. \A d \in Conns : got[d] \subseteq got'[d]
  BY <1>1
<1> QED BY <1>1, <1>3, <1>4, <1>6, <1>7, <1>8, UnseenKeeps DEF Unseen

(* The online session of a login is now the socket's as well.                *)
LEMMA InsertSockPresence ==
  ASSUME TypeInv, LoginInv, ChatInv, PresenceInv, NEW c \in Conns, InsertSock(c),
         ~NullCrash
  PROVE  PresenceInv'
<1>0. TypeOK /\ Local(c) /\ OneRequest(c) /\ Believes(c)
  BY DEF TypeInv, LoginInv, LoginPart, PresenceInv, PresencePart
<1>1. /\ pc[c] = "inssock"
      /\ pc' = [pc EXCEPT ![c] = "reply"]
      /\ sockSession' = Insert(sockSession, c, mine[c])
      /\ UNCHANGED <<uidSession, session, as, view, listed, got, list, todo, work, shut,
                     subject, chan, peer, req, mine, old>>
  BY DEF InsertSock, At, Goto, clientVars, localVars
<1>2. /\ pc'[c] = "reply"
  BY <1>0, <1>1 DEF TypeOK, SessionTypeOK
<1>3. \A d \in Conns \ {c} : Still(d) /\ subject'[d] = subject[d]
  BY <1>0, <1>1 DEF TypeOK, SessionTypeOK, Still
<1>4. LoggedIn(c)' => LoggedIn(c)
  BY <1>0, <1>1, <1>2 DEF LoggedIn, Leaving, Open, OneRequest, Local, Resting, Entering,
     SendPc
<1>6. /\ OnlineUsers(session)' = OnlineUsers(session)
      /\ \A b \in Blocks : session'[b].user = session[b].user
      /\ \A d \in Conns : InTables(d)'
      /\ \A u \in Users : OnlineEntry(u)'
  <2>1. /\ mine[c] \in Blocks /\ session[mine[c]].user = req[c].user
        /\ uidSession[req[c].user] = mine[c] /\ sockSession[c] = Absent
    <3>1. MineOf(c) /\ Making(c)
      BY <1>1, Here DEF Making, LoginPc
    <3>2. mine[c] \in Blocks /\ session[mine[c]] = NewSession(c, req[c].user)
          /\ uidSession[req[c].user] = mine[c] /\ sockSession[c] = Absent
      BY <1>1, <3>1 DEF MineOf
    <3> QED BY <3>2 DEF NewSession
  <2>2. sockSession'[c] = mine[c] /\ \A d \in Conns \ {c} : sockSession'[d] = sockSession[d]
    BY <1>0, <1>1, <2>1 DEF TypeOK, SessionTypeOK, Insert
  <2>3. OnlineUsers(session)' = OnlineUsers(session)
    BY <1>1 DEF OnlineUsers
  <2>4. \A d \in Conns : InTables(d)'
    BY <1>1, <2>1, <2>2 DEF PresenceInv, PresencePart, InTables
  <2>5. ASSUME NEW u \in Users, u \in OnlineUsers(session)
        PROVE  \E d \in Conns : /\ session[uidSession[u]].con = d
                                /\ \/ pc'[d] = "inssock"
                                   \/ sockSession'[d] = uidSession[u] /\ Staying(d)'
    <3>1. PICK d \in Conns : /\ session[uidSession[u]].con = d
                             /\ \/ pc[d] = "inssock"
                                \/ sockSession[d] = uidSession[u] /\ Staying(d)
      BY <2>5 DEF PresenceInv, OnlineEntry
    <3>2. CASE d = c
      <4>1. uidSession[u] = mine[c]
        BY <1>1, <2>5, <3>1, <3>2 DEF OnlineUsers, LoginInv, LoginPart, OneSession, Placed
      <4>2. Staying(c)'
        BY <1>2 DEF Staying, Parting
      <4> QED BY <2>2, <3>1, <3>2, <4>1, <4>2
    <3>3. CASE d # c
      BY <1>3, <2>2, <3>1, <3>3 DEF Still, Staying, Parting
    <3> QED BY <3>2, <3>3
  <2> QED BY <1>1, <2>3, <2>4, <2>5 DEF OnlineEntry
<1>7. /\ Placing(c)' <=> Placing(c)
      /\ Placing(c) => req'[c] = req[c]
      /\ Placed(c)' => (Placing(c) \/ Placed(c)) /\ req'[c] = req[c]
      /\ pc'[c] = "notify" => /\ pc[c] = "notify" /\ mine'[c] = mine[c] /\ req'[c] = req[c]
                              /\ subject'[c] = subject[c]
      /\ pc[c] = "notify" => pc'[c] = "notify" \/ (todo[c] = <<>> /\ work[c] = {})
      /\ list[c] # {} => pc'[c] = pc[c] /\ req'[c] = req[c]
      /\ pc'[c] = "reply" /\ req'[c].op = "online" => pc[c] = "reply" /\ req'[c] = req[c]
  BY <1>0, <1>1, <1>2 DEF Placing, Placed, Believes, OneRequest, Local, Resting, Entering,
     SendPc
<1>8. \A d \in Conns : got[d] \subseteq got'[d]
  BY <1>1
<1> QED BY <1>1, <1>3, <1>4, <1>6, <1>7, <1>8, UnseenKeeps DEF Unseen

(* The addressee's entry is read, or made null.                              *)
LEMMA LookupPresence ==
  ASSUME TypeInv, LoginInv, ChatInv, PresenceInv, NEW c \in Conns, Lookup(c), ~NullCrash
  PROVE  PresenceInv'
<1>0. TypeOK /\ Local(c) /\ OneRequest(c) /\ Believes(c)
  BY DEF TypeInv, LoginInv, LoginPart, PresenceInv, PresencePart
<1>1. /\ pc[c] = "lookup"
      /\ \E l \in {"reply", "golock"} : pc' = [pc EXCEPT ![c] = l]
      /\ \E b : mine' = [mine EXCEPT ![c] = b]
      /\ UNCHANGED <<uidSession, sockSession, session, as, view, listed, got, list, todo,
                     work, shut, subject, chan, peer, req, old>>
  <2>1. mine = [mine EXCEPT ![c] = mine[c]]
    BY <1>0 DEF TypeOK
  <2>2. uidSession[req[c].to] \in Blocks
    BY Sending DEF Lookup, At, SendPc
  <2>3. uidSession' = uidSession
    BY <1>0, <2>2, SessionAssumption DEF Lookup, Touch, Insert, TypeOK, SessionTypeOK
  <2> QED BY <2>1, <2>3, Zenon DEF Lookup, At, Goto, clientVars, localVars
<1>2. /\ pc'[c] \in {"reply", "golock"}
  BY <1>0, <1>1 DEF TypeOK, SessionTypeOK
<1>3. \A d \in Conns \ {c} : Still(d) /\ subject'[d] = subject[d]
  BY <1>0, <1>1 DEF TypeOK, SessionTypeOK, Still
<1>4. LoggedIn(c)' => LoggedIn(c)
  BY <1>0, <1>1, <1>2 DEF LoggedIn, Leaving, Open, OneRequest, Local, Resting, Entering,
     SendPc
<1>5. /\ pc[c] # "inssock" \/ pc'[c] = "inssock"
      /\ Staying(c) => Staying(c)' \/ sockSession[c] = Absent
  BY <1>0, <1>1, <1>2 DEF Staying, Parting, OneRequest, Local, Resting, Entering, SendPc
<1>6. /\ OnlineUsers(session)' = OnlineUsers(session)
      /\ \A b \in Blocks : session'[b].user = session[b].user
      /\ \A d \in Conns : InTables(d)'
      /\ \A u \in Users : OnlineEntry(u)'
  BY <1>1, <1>3, <1>5, TablesLeft
<1>7. /\ Placing(c)' <=> Placing(c)
      /\ Placing(c) => req'[c] = req[c]
      /\ Placed(c)' => (Placing(c) \/ Placed(c)) /\ req'[c] = req[c]
      /\ pc'[c] = "notify" => /\ pc[c] = "notify" /\ mine'[c] = mine[c] /\ req'[c] = req[c]
                              /\ subject'[c] = subject[c]
      /\ pc[c] = "notify" => pc'[c] = "notify" \/ (todo[c] = <<>> /\ work[c] = {})
      /\ list[c] # {} => pc'[c] = pc[c] /\ req'[c] = req[c]
      /\ pc'[c] = "reply" /\ req'[c].op = "online" => pc[c] = "reply" /\ req'[c] = req[c]
  BY <1>0, <1>1, <1>2, Sending DEF Placing, Placed, Believes, OneRequest, Local, Resting,
     Entering, SendPc
<1>8. \A d \in Conns : got[d] \subseteq got'[d]
  BY <1>1
<1> QED BY <1>1, <1>3, <1>4, <1>6, <1>7, <1>8, UnseenKeeps DEF Unseen

(* The connection of the session is read.                                    *)
LEMMA GoLockPresence ==
  ASSUME TypeInv, LoginInv, ChatInv, PresenceInv, NEW c \in Conns, GoLock(c), ~NullCrash
  PROVE  PresenceInv'
<1>0. TypeOK /\ Local(c) /\ OneRequest(c) /\ Believes(c)
  BY DEF TypeInv, LoginInv, LoginPart, PresenceInv, PresencePart
<1>1. /\ pc[c] = "golock"
      /\ pc' = [pc EXCEPT ![c] = "waitlock"]
      /\ UNCHANGED <<uidSession, sockSession, session, as, view, listed, got, list, todo,
                     work, shut, subject, chan, peer, req, mine, old>>
  BY TypeInv DEF GoLock, At, Running, Goto, NoFault, sessionVars, clientVars, localVars,
     TypeInv, TypeOK, SessionTypeOK, Local, SendPc, Session, ConnOf
<1>2. /\ pc'[c] = "waitlock"
  BY <1>0, <1>1 DEF TypeOK, SessionTypeOK
<1>3. \A d \in Conns \ {c} : Still(d) /\ subject'[d] = subject[d]
  BY <1>0, <1>1 DEF TypeOK, SessionTypeOK, Still
<1>4. LoggedIn(c)' => LoggedIn(c)
  BY <1>0, <1>1, <1>2 DEF LoggedIn, Leaving, Open, OneRequest, Local, Resting, Entering,
     SendPc
<1>5. /\ pc[c] # "inssock" \/ pc'[c] = "inssock"
      /\ Staying(c) => Staying(c)' \/ sockSession[c] = Absent
  BY <1>0, <1>1, <1>2 DEF Staying, Parting, OneRequest, Local, Resting, Entering, SendPc
<1>6. /\ OnlineUsers(session)' = OnlineUsers(session)
      /\ \A b \in Blocks : session'[b].user = session[b].user
      /\ \A d \in Conns : InTables(d)'
      /\ \A u \in Users : OnlineEntry(u)'
  BY <1>1, <1>3, <1>5, TablesLeft
<1>7. /\ Placing(c)' <=> Placing(c)
      /\ Placing(c) => req'[c] = req[c]
      /\ Placed(c)' => (Placing(c) \/ Placed(c)) /\ req'[c] = req[c]
      /\ pc'[c] = "notify" => /\ pc[c] = "notify" /\ mine'[c] = mine[c] /\ req'[c] = req[c]
                              /\ subject'[c] = subject[c]
      /\ pc[c] = "notify" => pc'[c] = "notify" \/ (todo[c] = <<>> /\ work[c] = {})
      /\ list[c] # {} => pc'[c] = pc[c] /\ req'[c] = req[c]
      /\ pc'[c] = "reply" /\ req'[c].op = "online" => pc[c] = "reply" /\ req'[c] = req[c]
  BY <1>0, <1>1, <1>2 DEF Placing, Placed, Believes, OneRequest, Local, Resting, Entering,
     SendPc
<1>8. \A d \in Conns : got[d] \subseteq got'[d]
  BY <1>1
<1> QED BY <1>1, <1>3, <1>4, <1>6, <1>7, <1>8, UnseenKeeps DEF Unseen

(* The mutex of the addressee is taken.                                      *)
LEMMA WaitLockPresence ==
  ASSUME TypeInv, LoginInv, ChatInv, PresenceInv, NEW c \in Conns, WaitLock(c),
         ~NullCrash
  PROVE  PresenceInv'
<1>0. TypeOK /\ Local(c) /\ OneRequest(c) /\ Believes(c)
  BY DEF TypeInv, LoginInv, LoginPart, PresenceInv, PresencePart
<1>1. /\ pc[c] = "waitlock"
      /\ pc' = [pc EXCEPT ![c] = "push"]
      /\ UNCHANGED <<uidSession, sockSession, session, as, view, listed, got, list, todo,
                     work, shut, subject, chan, peer, req, mine, old>>
  BY TypeInv DEF WaitLock, At, Running, Goto, NoFault, sessionVars, clientVars, localVars
<1>2. /\ pc'[c] = "push"
  BY <1>0, <1>1 DEF TypeOK, SessionTypeOK
<1>3. \A d \in Conns \ {c} : Still(d) /\ subject'[d] = subject[d]
  BY <1>0, <1>1 DEF TypeOK, SessionTypeOK, Still
<1>4. LoggedIn(c)' => LoggedIn(c)
  BY <1>0, <1>1, <1>2 DEF LoggedIn, Leaving, Open, OneRequest, Local, Resting, Entering,
     SendPc
<1>5. /\ pc[c] # "inssock" \/ pc'[c] = "inssock"
      /\ Staying(c) => Staying(c)' \/ sockSession[c] = Absent
  BY <1>0, <1>1, <1>2 DEF Staying, Parting, OneRequest, Local, Resting, Entering, SendPc
<1>6. /\ OnlineUsers(session)' = OnlineUsers(session)
      /\ \A b \in Blocks : session'[b].user = session[b].user
      /\ \A d \in Conns : InTables(d)'
      /\ \A u \in Users : OnlineEntry(u)'
  BY <1>1, <1>3, <1>5, TablesLeft
<1>7. /\ Placing(c)' <=> Placing(c)
      /\ Placing(c) => req'[c] = req[c]
      /\ Placed(c)' => (Placing(c) \/ Placed(c)) /\ req'[c] = req[c]
      /\ pc'[c] = "notify" => /\ pc[c] = "notify" /\ mine'[c] = mine[c] /\ req'[c] = req[c]
                              /\ subject'[c] = subject[c]
      /\ pc[c] = "notify" => pc'[c] = "notify" \/ (todo[c] = <<>> /\ work[c] = {})
      /\ list[c] # {} => pc'[c] = pc[c] /\ req'[c] = req[c]
      /\ pc'[c] = "reply" /\ req'[c].op = "online" => pc[c] = "reply" /\ req'[c] = req[c]
  BY <1>0, <1>1, <1>2 DEF Placing, Placed, Believes, OneRequest, Local, Resting, Entering,
     SendPc
<1>8. \A d \in Conns : got[d] \subseteq got'[d]
  BY <1>1
<1> QED BY <1>1, <1>3, <1>4, <1>6, <1>7, <1>8, UnseenKeeps DEF Unseen

(* A chat message is pushed into a connection.                               *)
LEMMA PushChatPresence ==
  ASSUME TypeInv, LoginInv, ChatInv, PresenceInv, NEW c \in Conns, PushChat(c),
         ~NullCrash
  PROVE  PresenceInv'
<1>0. TypeOK /\ Local(c) /\ OneRequest(c) /\ Believes(c)
  BY DEF TypeInv, LoginInv, LoginPart, PresenceInv, PresencePart
<1>1. /\ pc[c] = "push"
      /\ pc' = [pc EXCEPT ![c] = "unpush"]
      /\ \A d \in Conns : got[d] \subseteq got'[d]
      /\ UNCHANGED <<uidSession, sockSession, session, as, view, listed, list, todo, work,
                     shut, subject, chan, peer, req, mine, old>>
  <2>1. /\ pc[c] = "push" /\ pc' = [pc EXCEPT ![c] = "unpush"]
        /\ UNCHANGED <<sessionVars, shut, localVars>>
    BY DEF PushChat, At, Goto
  <2>2. PICK b : PushMaybeFreed(b, [kind |-> "chat", user |-> req[c].to])
    BY DEF PushChat
  <2>3. UNCHANGED <<chan, peer, as, listed,
    view>> /\ \A d \in Conns : got[d] \subseteq got'[d]
    <3>1. view = [view EXCEPT ![b] = view[b]] /\ DOMAIN got = Conns
      BY <1>0 DEF TypeOK
    <3>2. CASE UNCHANGED clientVars
      BY <3>2 DEF clientVars
    <3>3. CASE ~UNCHANGED clientVars
      <4>1. PICK m : m.kind = "chat" /\ Push(b, m)
        BY <2>2, <3>3 DEF PushMaybeFreed
      <4>2. UNCHANGED <<chan, peer, as, listed>> /\ got' = [got EXCEPT ![b] = @ \cup {m}]
        BY <3>3, <4>1 DEF Push
      <4>3. view' = view
        BY <3>1, <3>3, <4>1 DEF Push
      <4> QED BY <3>1, <4>2, <4>3
    <3> QED BY <3>2, <3>3
  <2> QED BY <2>1, <2>2, <2>3 DEF sessionVars, localVars
<1>2. /\ pc'[c] = "unpush"
  BY <1>0, <1>1 DEF TypeOK, SessionTypeOK
<1>3. \A d \in Conns \ {c} : Still(d) /\ subject'[d] = subject[d]
  BY <1>0, <1>1 DEF TypeOK, SessionTypeOK, Still
<1>4. LoggedIn(c)' => LoggedIn(c)
  BY <1>0, <1>1, <1>2 DEF LoggedIn, Leaving, Open, OneRequest, Local, Resting, Entering,
     SendPc
<1>5. /\ pc[c] # "inssock" \/ pc'[c] = "inssock"
      /\ Staying(c) => Staying(c)' \/ sockSession[c] = Absent
  BY <1>0, <1>1, <1>2 DEF Staying, Parting, OneRequest, Local, Resting, Entering, SendPc
<1>6. /\ OnlineUsers(session)' = OnlineUsers(session)
      /\ \A b \in Blocks : session'[b].user = session[b].user
      /\ \A d \in Conns : InTables(d)'
      /\ \A u \in Users : OnlineEntry(u)'
  BY <1>1, <1>3, <1>5, TablesLeft
<1>7. /\ Placing(c)' <=> Placing(c)
      /\ Placing(c) => req'[c] = req[c]
      /\ Placed(c)' => (Placing(c) \/ Placed(c)) /\ req'[c] = req[c]
      /\ pc'[c] = "notify" => /\ pc[c] = "notify" /\ mine'[c] = mine[c] /\ req'[c] = req[c]
                              /\ subject'[c] = subject[c]
      /\ pc[c] = "notify" => pc'[c] = "notify" \/ (todo[c] = <<>> /\ work[c] = {})
      /\ list[c] # {} => pc'[c] = pc[c] /\ req'[c] = req[c]
      /\ pc'[c] = "reply" /\ req'[c].op = "online" => pc[c] = "reply" /\ req'[c] = req[c]
  BY <1>0, <1>1, <1>2 DEF Placing, Placed, Believes, OneRequest, Local, Resting, Entering,
     SendPc
<1>8. \A d \in Conns : got[d] \subseteq got'[d]
  BY <1>1
<1> QED BY <1>1, <1>3, <1>4, <1>6, <1>7, <1>8, UnseenKeeps DEF Unseen

(* A mutex is released.                                                      *)
LEMMA UnPushPresence ==
  ASSUME TypeInv, LoginInv, ChatInv, PresenceInv, NEW c \in Conns, UnPush(c), ~NullCrash
  PROVE  PresenceInv'
<1>0. TypeOK /\ Local(c) /\ OneRequest(c) /\ Believes(c)
  BY DEF TypeInv, LoginInv, LoginPart, PresenceInv, PresencePart
<1>1. /\ pc[c] = "unpush"
      /\ pc' = [pc EXCEPT ![c] = "reply"]
      /\ UNCHANGED <<uidSession, sockSession, session, as, view, listed, got, list, todo,
                     work, shut, subject, chan, peer, req, mine, old>>
  BY TypeInv DEF UnPush, At, Running, Goto, NoFault, sessionVars, clientVars, localVars,
     Unlock
<1>2. /\ pc'[c] = "reply"
  BY <1>0, <1>1 DEF TypeOK, SessionTypeOK
<1>3. \A d \in Conns \ {c} : Still(d) /\ subject'[d] = subject[d]
  BY <1>0, <1>1 DEF TypeOK, SessionTypeOK, Still
<1>4. LoggedIn(c)' => LoggedIn(c)
  BY <1>0, <1>1, <1>2 DEF LoggedIn, Leaving, Open, OneRequest, Local, Resting, Entering,
     SendPc
<1>5. /\ pc[c] # "inssock" \/ pc'[c] = "inssock"
      /\ Staying(c) => Staying(c)' \/ sockSession[c] = Absent
  BY <1>0, <1>1, <1>2 DEF Staying, Parting, OneRequest, Local, Resting, Entering, SendPc
<1>6. /\ OnlineUsers(session)' = OnlineUsers(session)
      /\ \A b \in Blocks : session'[b].user = session[b].user
      /\ \A d \in Conns : InTables(d)'
      /\ \A u \in Users : OnlineEntry(u)'
  BY <1>1, <1>3, <1>5, TablesLeft
<1>7. /\ Placing(c)' <=> Placing(c)
      /\ Placing(c) => req'[c] = req[c]
      /\ Placed(c)' => (Placing(c) \/ Placed(c)) /\ req'[c] = req[c]
      /\ pc'[c] = "notify" => /\ pc[c] = "notify" /\ mine'[c] = mine[c] /\ req'[c] = req[c]
                              /\ subject'[c] = subject[c]
      /\ pc[c] = "notify" => pc'[c] = "notify" \/ (todo[c] = <<>> /\ work[c] = {})
      /\ list[c] # {} => pc'[c] = pc[c] /\ req'[c] = req[c]
      /\ pc'[c] = "reply" /\ req'[c].op = "online" => pc[c] = "reply" /\ req'[c] = req[c]
  BY <1>0, <1>1, <1>2 DEF Placing, Placed, Believes, OneRequest, Local, Resting, Entering,
     SendPc
<1>8. \A d \in Conns : got[d] \subseteq got'[d]
  BY <1>1
<1> QED BY <1>1, <1>3, <1>4, <1>6, <1>7, <1>8, UnseenKeeps DEF Unseen

(* A connection without a session just ends.                                 *)
LEMMA LeavePresence ==
  ASSUME TypeInv, LoginInv, ChatInv, PresenceInv, NEW c \in Conns, Disconnect(c),
         ~NullCrash, sockSession[c] = Absent
  PROVE  PresenceInv'
<1>0. TypeOK /\ Local(c) /\ OneRequest(c) /\ Believes(c)
  BY DEF TypeInv, LoginInv, LoginPart, PresenceInv, PresencePart
<1>1. /\ pc[c] = "disc"
      /\ pc' = [pc EXCEPT ![c] = "destroy"]
      /\ UNCHANGED <<uidSession, sockSession, session, as, view, listed, got, list, todo,
                     work, shut, subject, chan, peer, req, mine, old>>
  BY DEF Disconnect, At, Goto, sessionVars, clientVars, localVars
<1>2. /\ pc'[c] = "destroy"
  BY <1>0, <1>1 DEF TypeOK, SessionTypeOK
<1>3. \A d \in Conns \ {c} : Still(d) /\ subject'[d] = subject[d]
  BY <1>0, <1>1 DEF TypeOK, SessionTypeOK, Still
<1>4. LoggedIn(c)' => LoggedIn(c)
  BY <1>0, <1>1, <1>2 DEF LoggedIn, Leaving, Open, OneRequest, Local, Resting, Entering,
     SendPc
<1>5. /\ pc[c] # "inssock" \/ pc'[c] = "inssock"
      /\ Staying(c) => Staying(c)' \/ sockSession[c] = Absent
  BY <1>1, <1>2
<1>6. /\ OnlineUsers(session)' = OnlineUsers(session)
      /\ \A b \in Blocks : session'[b].user = session[b].user
      /\ \A d \in Conns : InTables(d)'
      /\ \A u \in Users : OnlineEntry(u)'
  BY <1>1, <1>3, <1>5, TablesLeft
<1>7. /\ Placing(c)' <=> Placing(c)
      /\ Placing(c) => req'[c] = req[c]
      /\ Placed(c)' => (Placing(c) \/ Placed(c)) /\ req'[c] = req[c]
      /\ pc'[c] = "notify" => /\ pc[c] = "notify" /\ mine'[c] = mine[c] /\ req'[c] = req[c]
                              /\ subject'[c] = subject[c]
      /\ pc[c] = "notify" => pc'[c] = "notify" \/ (todo[c] = <<>> /\ work[c] = {})
      /\ list[c] # {} => pc'[c] = pc[c] /\ req'[c] = req[c]
      /\ pc'[c] = "reply" /\ req'[c].op = "online" => pc[c] = "reply" /\ req'[c] = req[c]
  BY <1>0, <1>1, <1>2 DEF Placing, Placed, Believes, OneRequest, Local, Resting, Entering,
     SendPc
<1>8. \A d \in Conns : got[d] \subseteq got'[d]
  BY <1>1
<1> QED BY <1>1, <1>3, <1>4, <1>6, <1>7, <1>8, UnseenKeeps DEF Unseen

(* The session that loses its connection is no longer online.                *)
LEMMA DetachPresence ==
  ASSUME TypeInv, LoginInv, ChatInv, PresenceInv, NEW c \in Conns, Detach(c), ~NullCrash
  PROVE  PresenceInv'
<1>0. TypeOK /\ Local(c) /\ OneRequest(c) /\ Believes(c)
  BY DEF TypeInv, LoginInv, LoginPart, PresenceInv, PresencePart
<1>1. /\ pc[c] = "detach"
      /\ pc' = [pc EXCEPT ![c] = "erasesock"]
      /\ session' = [session EXCEPT ![mine[c]].con = Null]
      /\ UNCHANGED <<uidSession, sockSession, as, view, listed, got, list, todo, work, shut,
                     subject, chan, peer, req, mine, old>>
  BY DEF Detach, At, Goto, clientVars, localVars
<1>2. /\ pc'[c] = "erasesock"
  BY <1>0, <1>1 DEF TypeOK, SessionTypeOK
<1>3. \A d \in Conns \ {c} : Still(d) /\ subject'[d] = subject[d]
  BY <1>0, <1>1 DEF TypeOK, SessionTypeOK, Still
<1>4. LoggedIn(c)' => LoggedIn(c)
  BY <1>0, <1>1, <1>2 DEF LoggedIn, Leaving, Open, OneRequest, Local, Resting, Entering,
     SendPc
<1>6. /\ OnlineUsers(session)' = OnlineUsers(session)
      /\ \A b \in Blocks : session'[b].user = session[b].user
      /\ \A d \in Conns : InTables(d)'
      /\ \A u \in Users : OnlineEntry(u)'
  <2>1. /\ mine[c] \in Blocks /\ mine[c] = sockSession[c] /\ session[sockSession[c]].con = c
        /\ \A d, e \in Conns :
             sockSession[d] \in Blocks /\ sockSession[d] = sockSession[e] => d = e
    BY <1>1, Here DEF MineOf, SockOf, ChatInv, TableInv
  <2>2. \A b \in Blocks : /\ session'[b].user = session[b].user
                          /\ session'[b].online = session[b].online
                          /\ b # mine[c] => session'[b] = session[b]
    BY <1>0, <1>1, <2>1 DEF TypeOK, SessionTypeOK, Session
  <2>3. OnlineUsers(session)' = OnlineUsers(session)
    BY <1>1, <2>2 DEF OnlineUsers
  <2>4. \A d \in Conns : InTables(d)'
    BY <1>1, <2>2 DEF PresenceInv, PresencePart, InTables
  <2>5. ASSUME NEW u \in Users, u \in OnlineUsers(session)
        PROVE  \E d \in Conns : /\ session'[uidSession[u]].con = d
                                /\ \/ pc'[d] = "inssock"
                                   \/ sockSession[d] = uidSession[u] /\ Staying(d)'
    <3>1. PICK d \in Conns : /\ session[uidSession[u]].con = d
                             /\ \/ pc[d] = "inssock"
                                \/ sockSession[d] = uidSession[u] /\ Staying(d)
      BY <2>5 DEF PresenceInv, OnlineEntry
    <3>2. d # c
      BY <1>1, <3>1 DEF Staying
    <3>3. uidSession[u] \in Blocks /\ uidSession[u] # mine[c]
      BY <2>1, <2>5, <3>1, <3>2 DEF OnlineUsers
    <3> QED BY <1>3, <2>2, <3>1, <3>2, <3>3 DEF Still, Staying, Parting
  <2>6. uidSession' = uidSession /\ sockSession' = sockSession
    BY <1>1
  <2>7. \A u \in Users : OnlineEntry(u)'
    BY <2>3, <2>5, <2>6 DEF OnlineEntry
  <2> QED BY <2>2, <2>3, <2>4, <2>7
<1>7. /\ Placing(c)' <=> Placing(c)
      /\ Placing(c) => req'[c] = req[c]
      /\ Placed(c)' => (Placing(c) \/ Placed(c)) /\ req'[c] = req[c]
      /\ pc'[c] = "notify" => /\ pc[c] = "notify" /\ mine'[c] = mine[c] /\ req'[c] = req[c]
                              /\ subject'[c] = subject[c]
      /\ pc[c] = "notify" => pc'[c] = "notify" \/ (todo[c] = <<>> /\ work[c] = {})
      /\ list[c] # {} => pc'[c] = pc[c] /\ req'[c] = req[c]
      /\ pc'[c] = "reply" /\ req'[c].op = "online" => pc[c] = "reply" /\ req'[c] = req[c]
  BY <1>0, <1>1, <1>2 DEF Placing, Placed, Believes, OneRequest, Local, Resting, Entering,
     SendPc
<1>8. \A d \in Conns : got[d] \subseteq got'[d]
  BY <1>1
<1> QED BY <1>1, <1>3, <1>4, <1>6, <1>7, <1>8, UnseenKeeps DEF Unseen

(* The connection is not the one an online session belongs to.               *)
LEMMA EraseSockPresence ==
  ASSUME TypeInv, LoginInv, ChatInv, PresenceInv, NEW c \in Conns, EraseSock(c),
         ~NullCrash
  PROVE  PresenceInv'
<1>0. TypeOK /\ Local(c) /\ OneRequest(c) /\ Believes(c)
  BY DEF TypeInv, LoginInv, LoginPart, PresenceInv, PresencePart
<1>1. /\ pc[c] = "erasesock"
      /\ pc' = [pc EXCEPT ![c] = "destroy"]
      /\ mine' = [mine EXCEPT ![c] = Null]
      /\ sockSession' = [sockSession EXCEPT ![c] = Absent]
      /\ UNCHANGED <<uidSession, session, as, view, listed, got, list, todo, work, shut,
                     subject, chan, peer, req, old>>
  BY DEF EraseSock, At, Goto, clientVars, Erase
<1>2. /\ pc'[c] = "destroy"
  BY <1>0, <1>1 DEF TypeOK, SessionTypeOK
<1>3. \A d \in Conns \ {c} : Still(d) /\ subject'[d] = subject[d]
  BY <1>0, <1>1 DEF TypeOK, SessionTypeOK, Still
<1>4. LoggedIn(c)' => LoggedIn(c)
  BY <1>0, <1>1, <1>2 DEF LoggedIn, Leaving, Open, OneRequest, Local, Resting, Entering,
     SendPc
<1>6. /\ OnlineUsers(session)' = OnlineUsers(session)
      /\ \A b \in Blocks : session'[b].user = session[b].user
      /\ \A d \in Conns : InTables(d)'
      /\ \A u \in Users : OnlineEntry(u)'
  <2>1. sockSession'[c] = Absent /\ \A d \in Conns \ {c} : sockSession'[d] = sockSession[d]
    BY <1>0, <1>1 DEF TypeOK, SessionTypeOK
  <2>2. OnlineUsers(session)' = OnlineUsers(session)
    BY <1>1 DEF OnlineUsers
  <2>3. \A d \in Conns : InTables(d)'
    BY <1>1, <2>1, SessionAssumption DEF PresenceInv, PresencePart, InTables
  <2>4. ASSUME NEW u \in Users, u \in OnlineUsers(session)
        PROVE  \E d \in Conns : /\ session[uidSession[u]].con = d
                                /\ \/ pc'[d] = "inssock"
                                   \/ sockSession'[d] = uidSession[u] /\ Staying(d)'
    <3>1. PICK d \in Conns : /\ session[uidSession[u]].con = d
                             /\ \/ pc[d] = "inssock"
                                \/ sockSession[d] = uidSession[u] /\ Staying(d)
      BY <2>4 DEF PresenceInv, OnlineEntry
    <3>2. d # c
      BY <1>1, <3>1 DEF Staying
    <3> QED BY <1>3, <2>1, <3>1, <3>2 DEF Still, Staying, Parting
  <2> QED BY <1>1, <2>2, <2>3, <2>4 DEF OnlineEntry
<1>7. /\ Placing(c)' <=> Placing(c)
      /\ Placing(c) => req'[c] = req[c]
      /\ Placed(c)' => (Placing(c) \/ Placed(c)) /\ req'[c] = req[c]
      /\ pc'[c] = "notify" => /\ pc[c] = "notify" /\ mine'[c] = mine[c] /\ req'[c] = req[c]
                              /\ subject'[c] = subject[c]
      /\ pc[c] = "notify" => pc'[c] = "notify" \/ (todo[c] = <<>> /\ work[c] = {})
      /\ list[c] # {} => pc'[c] = pc[c] /\ req'[c] = req[c]
      /\ pc'[c] = "reply" /\ req'[c].op = "online" => pc[c] = "reply" /\ req'[c] = req[c]
  BY <1>0, <1>1, <1>2 DEF Placing, Placed, Believes, OneRequest, Local, Resting, Entering,
     SendPc
<1>8. \A d \in Conns : got[d] \subseteq got'[d]
  BY <1>1
<1> QED BY <1>1, <1>3, <1>4, <1>6, <1>7, <1>8, UnseenKeeps DEF Unseen

(* The connection is gone.                                                   *)
LEMMA DestroyPresence ==
  ASSUME TypeInv, LoginInv, ChatInv, PresenceInv, NEW c \in Conns, Destroy(c),
         ~NullCrash
  PROVE  PresenceInv'
<1>0. TypeOK /\ Local(c) /\ OneRequest(c) /\ Believes(c)
  BY DEF TypeInv, LoginInv, LoginPart, PresenceInv, PresencePart
<1>1. /\ pc[c] = "destroy"
      /\ pc' = [pc EXCEPT ![c] = "gone"]
      /\ peer' = [peer EXCEPT ![c] = "closed"]
      /\ UNCHANGED <<uidSession, sockSession, session, as, view, listed, got, list, todo,
                     work, shut, subject, chan, req, mine, old>>
  BY TypeInv DEF Destroy, At, Running, Goto, NoFault, sessionVars, clientVars, localVars
<1>2. /\ pc'[c] = "gone"
      /\ peer'[c] = "closed"
  BY <1>0, <1>1 DEF TypeOK, SessionTypeOK
<1>3. \A d \in Conns \ {c} : Still(d) /\ subject'[d] = subject[d]
  BY <1>0, <1>1 DEF TypeOK, SessionTypeOK, Still
<1>4. LoggedIn(c)' => LoggedIn(c)
  BY <1>0, <1>1, <1>2 DEF LoggedIn, Leaving, Open, OneRequest, Local, Resting, Entering,
     SendPc
<1>5. /\ pc[c] # "inssock" \/ pc'[c] = "inssock"
      /\ Staying(c) => Staying(c)' \/ sockSession[c] = Absent
  BY <1>0, <1>1, <1>2 DEF Staying, Parting, OneRequest, Local, Resting, Entering, SendPc
<1>6. /\ OnlineUsers(session)' = OnlineUsers(session)
      /\ \A b \in Blocks : session'[b].user = session[b].user
      /\ \A d \in Conns : InTables(d)'
      /\ \A u \in Users : OnlineEntry(u)'
  BY <1>1, <1>3, <1>5, TablesLeft
<1>7. /\ Placing(c)' <=> Placing(c)
      /\ Placing(c) => req'[c] = req[c]
      /\ Placed(c)' => (Placing(c) \/ Placed(c)) /\ req'[c] = req[c]
      /\ pc'[c] = "notify" => /\ pc[c] = "notify" /\ mine'[c] = mine[c] /\ req'[c] = req[c]
                              /\ subject'[c] = subject[c]
      /\ pc[c] = "notify" => pc'[c] = "notify" \/ (todo[c] = <<>> /\ work[c] = {})
      /\ list[c] # {} => pc'[c] = pc[c] /\ req'[c] = req[c]
      /\ pc'[c] = "reply" /\ req'[c].op = "online" => pc[c] = "reply" /\ req'[c] = req[c]
  BY <1>0, <1>1, <1>2 DEF Placing, Placed, Believes, OneRequest, Local, Resting, Entering,
     SendPc
<1>8. \A d \in Conns : got[d] \subseteq got'[d]
  BY <1>1
<1> QED BY <1>1, <1>3, <1>4, <1>6, <1>7, <1>8, UnseenKeeps DEF Unseen

(* A login begins: everybody who is logged in is on its round, as the table  *)
(* of users leads to them all.                                               *)
LEMMA LoginPresence ==
  ASSUME Regular, TypeInv, LoginInv, ChatInv, PresenceInv, NEW c \in Conns, Login(c),
         ~NullCrash
  PROVE  PresenceInv'
<1>0. /\ TypeOK /\ req[c].user \in Users /\ req[c] # NoReq /\ as[c] = NoUser
      /\ sockSession[c] = Absent
  <2>1. pc[c] = "login"
    BY DEF Login, At
  <2>2. Making(c) /\ pc[c] # "inssock"
    BY <2>1 DEF Making, LoginPc
  <2>3. req[c] # NoReq
    BY <2>1, Here DEF ReqOf, LoginPc
  <2> QED BY <2>2, <2>3, Unplaced DEF TypeInv
<1>1. PICK b \in Blocks : b = Head(freeBlocks) /\ ~NotFree(b)
  <2>1. freeBlocks # <<>> /\ freeBlocks \in Seq(Blocks)
    BY <1>0 DEF Login, TypeOK, SessionTypeOK
  <2>2. Head(freeBlocks) \in Blocks /\ Head(freeBlocks) = freeBlocks[1] /\ 1 \in 1 .. Len(freeBlocks)
    BY <2>1
  <2> QED BY <2>2 DEF NotFree
<1>2. PICK r : r = NewSession(c, req[c].user)
  OBVIOUS
<1>3. /\ pc[c] = "login" /\ session' = [session EXCEPT ![b] = r]
      /\ mine' = [mine EXCEPT ![c] = b] /\ subject' = [subject EXCEPT ![c] = req[c].user]
      /\ \E t : t = OnlineConnections(session) /\ todo' = [todo EXCEPT ![c] = t]
      /\ pc' = [pc EXCEPT ![c] = "notify"]
      /\ UNCHANGED <<uidSession, sockSession, as, view, listed, got, list, work, shut, peer,
                     chan, req, old>>
  <2>1. /\ pc[c] = "login" /\ session' = [session EXCEPT ![b] = r]
        /\ mine' = [mine EXCEPT ![c] = b] /\ StartNotices(c, req[c].user, session)
        /\ UNCHANGED <<uidSession, sockSession, clientVars, shut, req, old, work, list>>
    BY <1>1, <1>2 DEF Login, At
  <2> QED BY <2>1 DEF StartNotices, Goto, clientVars
<1>4. /\ req'[c] = req[c] /\ pc'[c] = "notify" /\ subject'[c] = req[c].user
      /\ todo'[c] = OnlineConnections(session)
      /\ \A d \in Conns \ {c} : Still(d) /\ subject'[d] = subject[d] /\ todo'[d] = todo[d]
  BY <1>0, <1>3 DEF TypeOK, SessionTypeOK, Still
<1>5. \A x \in Blocks : NotFree(x) => session'[x] = session[x]
  BY <1>0, <1>1, <1>3 DEF TypeOK, SessionTypeOK
<1>6. /\ \A v \in Users : uidSession[v] \in Blocks => NotFree(uidSession[v])
      /\ \A d \in Conns : sockSession[d] \in Blocks => NotFree(sockSession[d])
      /\ uidSession' = uidSession /\ sockSession' = sockSession
  BY <1>3, Here DEF SockOf
<1>7. OnlineUsers(session)' = OnlineUsers(session)
  BY <1>5, <1>6 DEF OnlineUsers
<1>8. /\ \A e \in Conns : LoggedIn(e)' => LoggedIn(e) /\ e # c
      /\ UNCHANGED <<as, view, listed, got, list, work>>
  <2>1. ~LoggedIn(c)'
    BY <1>0, <1>3 DEF LoggedIn
  <2>2. shut \subseteq shut'
    BY <1>3
  <2> QED BY <1>3, <1>4, <2>1, <2>2, StillLoggedIn
<1>9. ~Placing(c) /\ ~Parting(c) /\ pc[c] # "notify"
  BY <1>3 DEF Placing, Parting
<1>10. ASSUME NEW d \in Conns, d # c
       PROVE  /\ Placing(d)' <=> Placing(d)
              /\ req'[d] = req[d] /\ pc'[d] = pc[d] /\ mine'[d] = mine[d]
              /\ subject'[d] = subject[d] /\ (Parting(d)' <=> Parting(d))
              /\ \A e \in Conns : Pending(d, e)' <=> Pending(d, e)
  BY <1>4, <1>8, <1>10, StillSame DEF Still, Pending, Parting
<1>11. ASSUME NEW e \in Conns, LoggedIn(e)'
       PROVE  Pending(c, e)'
  <2>1. as[e] \in OnlineUsers(session) /\ session[uidSession[as[e]]].con = e
    BY <1>8, <1>11, LoggedInOnline
  <2>2. \E i \in 1 .. Len(OnlineConnections(session)) : OnlineConnections(session)[i] = e
    <3>1. session \in [Blocks -> Session]
      BY <1>0 DEF TypeOK, SessionTypeOK
    <3> QED BY <2>1, <3>1, ConnectionsOf
  <2>3. todo'[c] = OnlineConnections(session)
    BY <1>4
  <2> QED BY <1>4, <2>2, <2>3 DEF Pending
<1>12. ASSUME NEW d \in Conns PROVE Announced(d)'
  <2>1. CASE d = c
    BY <1>0, <1>4, <1>11, <2>1 DEF Announced
  <2>2. CASE d # c
    <3>2. pc[d] = "notify" /\ req[d] = NoReq => session'[mine[d]].user = session[mine[d]].user
      BY <1>5, <1>6, Here DEF MineOf
    <3>3. /\ \A e \in Conns : LoggedIn(e)' => LoggedIn(e)
          /\ \A e \in Conns : Pending(d, e) => Pending(d, e)'
          /\ \A e \in Conns : got[e] \subseteq got'[e]
          /\ \A e \in Conns : req[d].user \in view[e] => req[d].user \in view'[e]
      BY <1>8, <1>10, <2>2
    <3> QED BY <1>4, <2>2, <3>2, <3>3, StillAnnounced
  <2> QED BY <2>1, <2>2
<1>13. ASSUME NEW d \in Conns PROVE InTables(d)'
  <2>1. InTables(d)
    BY DEF PresenceInv, PresencePart
  <2> QED BY <1>5, <1>6, <2>1 DEF InTables
<1>14. ASSUME NEW e \in Conns PROVE Believes(e)'
  <2>1. list[e] # {} => pc'[e] = pc[e] /\ req'[e] = req[e]
    BY <1>3, <1>10 DEF PresenceInv, PresencePart, Believes
  <2>2. ASSUME NEW v, Accounted(v, e)
        PROVE  Accounted(v, e)'
    <3>1. CASE v \in OnlineUsers(session)
      BY <1>7, <3>1 DEF Accounted
    <3>2. ASSUME NEW d \in Conns, Placing(d), req[d].user = v PROVE Accounted(v, e)'
      <4>1. d # c
        BY <1>9, <3>2
      <4> QED BY <1>10, <3>2, <4>1 DEF Accounted
    <3>3. ASSUME NEW d \in Conns, Parting(d), Pending(d, e), subject[d] = v
          PROVE  Accounted(v, e)'
      <4>1. d # c
        BY <1>9, <3>3
      <4> QED BY <1>10, <3>3, <4>1 DEF Accounted
    <3> QED BY <2>2, <3>1, <3>2, <3>3 DEF Accounted
  <2> QED BY <1>8, <2>1, <2>2, BelievesKept
<1>15. ASSUME NEW e \in Conns PROVE Misses(e)'
  <2>1. pc'[e] = "reply" /\ req'[e].op = "online" => pc[e] = "reply" /\ req'[e] = req[e]
    BY <1>4, <1>10
  <2> QED BY <1>7, <1>8, <2>1, MissesKept
<1>16. ASSUME NEW v \in Users PROVE OnlineEntry(v)'
  <2> SUFFICES ASSUME v \in OnlineUsers(session)'
               PROVE  \E d \in Conns :
                        /\ session'[uidSession'[v]].con = d
                        /\ \/ pc'[d] = "inssock"
                           \/ sockSession'[d] = uidSession'[v] /\ Staying(d)'
    BY DEF OnlineEntry
  <2>1. v \in OnlineUsers(session) /\ uidSession[v] \in Blocks
    BY <1>7 DEF OnlineUsers
  <2>2. PICK d \in Conns : /\ session[uidSession[v]].con = d
                           /\ \/ pc[d] = "inssock"
                              \/ sockSession[d] = uidSession[v] /\ Staying(d)
    BY <2>1 DEF PresenceInv, OnlineEntry
  <2>3. d # c
    BY <1>0, <1>3, <2>1, <2>2, SessionAssumption
  <2>4. Staying(d) => Staying(d)'
    BY <1>10, <2>3 DEF Staying
  <2> QED BY <1>5, <1>6, <1>10, <2>1, <2>2, <2>3, <2>4
<1>17. OneIsTold'
  BY <1>8 DEF OneIsTold, PresenceInv
<1> QED BY <1>12, <1>13, <1>14, <1>15, <1>16, <1>17 DEF PresenceInv, PresencePart

(* Only the subject of a round is left out of it.                            *)
LEMMA VisitNextPresence ==
  ASSUME Regular, TypeInv, LoginInv, ChatInv, PresenceInv, NEW c \in Conns, VisitNext(c),
         ~NullCrash
  PROVE  PresenceInv'
<1>0. TypeOK /\ Announced(c)
  BY DEF TypeInv, PresenceInv, PresencePart
<1>1. PICK d : d = Head(todo[c])
  OBVIOUS
<1>2. PICK s : s = IF session[sockSession[d]].user = subject[c] THEN work[c] ELSE work[c] \cup {d}
  OBVIOUS
<1>3. /\ pc[c] = "notify" /\ todo[c] # <<>> /\ d # Null
      /\ work' = [work EXCEPT ![c] = s] /\ todo' = [todo EXCEPT ![c] = Tail(todo[c])]
      /\ UNCHANGED <<uidSession, sockSession, session, as, view, listed, got, list, shut,
                     peer, chan, pc, req, mine, old, subject>>
  BY <1>1, <1>2 DEF VisitNext, At, IsSubject, UserOf, sessionVars, clientVars
<1>4. /\ UNCHANGED <<as, view, listed, got, list, pc, req, subject, session, mine>>
      /\ \A e \in Conns : Still(e)
      /\ work'[c] = s /\ todo'[c] = Tail(todo[c])
      /\ \A e \in Conns \ {c} : work'[e] = work[e] /\ todo'[e] = todo[e]
  BY <1>0, <1>3 DEF TypeOK, SessionTypeOK, Still
<1>5. ASSUME NEW e \in Conns, Pending(c, e)
      PROVE  Pending(c, e)' \/ (e = d /\ session[sockSession[e]].user = subject[c])
  <2>1. CASE e \in work[c]
    BY <1>2, <1>3, <1>4, <2>1 DEF Pending
  <2>2. CASE \E i \in 1 .. Len(todo[c]) : todo[c][i] = e
    <3>1. PICK i \in 1 .. Len(todo[c]) : todo[c][i] = e
      BY <2>2
    <3>2. todo[c] \in Seq(Conns \cup {Null}) /\ Len(todo[c]) \in Nat
      BY <1>0 DEF TypeOK
    <3>3. CASE i = 1
      <4>1. e = d
        BY <1>1, <1>3, <3>1, <3>2, <3>3
      <4> QED BY <1>2, <1>3, <1>4, <4>1 DEF Pending
    <3>4. CASE i # 1
      <4>1. PICK q : q = todo[c]
        OBVIOUS
      <4>2. q \in Seq(Conns \cup {Null}) /\ q # <<>> /\ i \in 1 .. Len(q) /\ q[i] = e
        BY <1>3, <3>1, <3>2, <4>1
      <4>3. i - 1 \in 1 .. Len(Tail(q)) /\ Tail(q)[i - 1] = e
        BY <3>4, <4>2
      <4>4. todo'[c] = Tail(q) /\ pc'[c] = "notify"
        BY <1>3, <1>4, <4>1
      <4> QED BY <4>3, <4>4 DEF Pending
    <3> QED BY <3>3, <3>4
  <2> QED BY <1>5, <2>1, <2>2 DEF Pending
<1>6. ASSUME NEW e \in Conns, LoggedIn(e), Pending(c, e)
      PROVE  Pending(c, e)' \/ as[e] = subject[c]
  BY <1>5, <1>6, LoggedInOnline
<1>7. ASSUME NEW e \in Conns, NEW f \in Conns, e # c
      PROVE  Pending(e, f)' <=> Pending(e, f)
  BY <1>4, <1>7 DEF Pending
<1>8. \A e \in Conns : LoggedIn(e)' => LoggedIn(e)
  BY <1>3, <1>4, StillLoggedIn
<1>9. /\ OnlineUsers(session)' = OnlineUsers(session)
      /\ \A e \in Conns : InTables(e)'
      /\ \A u \in Users : OnlineEntry(u)'
  <2>1. Staying(c)' <=> Staying(c)
    BY <1>4 DEF Staying, Parting
  <2> QED BY <1>3, <1>4, <2>1, TablesLeft
<1>10. \A e \in Conns : (Placing(e)' <=> Placing(e)) /\ (Placed(e)' <=> Placed(e))
  BY <1>4, StillSame
<1>11. ASSUME NEW e \in Conns PROVE Announced(e)'
  <2>1. CASE e = c
    <3>1. ASSUME NEW f \in Conns, LoggedIn(f), req[c] # NoReq PROVE as[f] # subject[c]
      <4>1. Making(c) /\ pc[c] # "inssock"
        BY <1>3, <3>1 DEF Making
      <4>2. uidSession[req[c].user] = Absent /\ subject[c] = req[c].user
        BY <1>0, <1>3, <3>1, <4>1, Unplaced DEF Announced
      <4>3. uidSession[as[f]] \in Blocks
        BY <3>1, LoggedInOnline DEF OnlineUsers
      <4> QED BY <4>2, <4>3, SessionAssumption
    <3>2. Placed(c) => req[c] # NoReq
      BY <1>3 DEF Placed
    <3>3. Placing(c) => req[c] # NoReq
      BY <1>3 DEF Placing
    <3>4. ASSUME Placing(c) \/ Placed(c), NEW f \in Conns, LoggedIn(f)'
          PROVE  Pending(c, f)' \/ Notice(req[c].user) \in got[f]
      BY <1>0, <1>6, <1>8, <3>1, <3>2, <3>3, <3>4 DEF Announced
    <3>5. ASSUME Placing(c), NEW f \in Conns, LoggedIn(f)'
          PROVE  Pending(c, f)' \/ req[c].user \in view[f]
      BY <1>0, <1>6, <1>8, <3>1, <3>3, <3>5 DEF Announced
    <3>6. subject[c] = (IF req[c] # NoReq THEN req[c].user ELSE session[mine[c]].user)
      BY <1>0, <1>3 DEF Announced
    <3> QED BY <1>4, <1>10, <2>1, <3>4, <3>5, <3>6 DEF Announced, Notice
  <2>2. CASE e # c
    <3>1. /\ \A f \in Conns : LoggedIn(f)' => LoggedIn(f)
          /\ \A f \in Conns : Pending(e, f) => Pending(e, f)'
          /\ \A f \in Conns : got[f] \subseteq got'[f]
          /\ \A f \in Conns : req[e].user \in view[f] => req[e].user \in view'[f]
          /\ session'[mine[e]].user = session[mine[e]].user
      BY <1>4, <1>7, <1>8, <2>2
    <3> QED BY <1>4, <2>2, <3>1, StillAnnounced
  <2> QED BY <2>1, <2>2
<1>12. ASSUME NEW e \in Conns PROVE Believes(e)'
  <2>1. ASSUME NEW v, LoggedIn(e)', v # as[e], Accounted(v, e)
        PROVE  Accounted(v, e)'
    <3>1. CASE v \in OnlineUsers(session)
      BY <1>9, <3>1 DEF Accounted
    <3>2. ASSUME NEW f \in Conns, Placing(f), req[f].user = v PROVE Accounted(v, e)'
      BY <1>4, <1>10, <3>2 DEF Accounted
    <3>3. ASSUME NEW f \in Conns, Parting(f), Pending(f, e), subject[f] = v
          PROVE  Accounted(v, e)'
      <4>1. Parting(f)' /\ subject'[f] = v
        BY <1>4, <3>3 DEF Parting
      <4>2. Pending(f, e)'
        BY <1>6, <1>7, <1>8, <2>1, <3>3
      <4> QED BY <4>1, <4>2 DEF Accounted
    <3> QED BY <2>1, <3>1, <3>2, <3>3 DEF Accounted
  <2>2. /\ UNCHANGED <<as, view, listed>> /\ got[e] \subseteq got'[e] /\ list'[e] = list[e]
        /\ pc'[e] = pc[e] /\ req'[e] = req[e]
    BY <1>4
  <2> QED BY <1>8, <2>1, <2>2, BelievesKept
<1>13. ASSUME NEW e \in Conns PROVE Misses(e)'
  <2>1. UNCHANGED <<as, view, listed>> /\ list'[e] = list[e] /\ pc'[e] = pc[e] /\ req'[e] = req[e]
    BY <1>4
  <2> QED BY <1>8, <1>9, <2>1, MissesKept
<1>14. OneIsTold'
  BY <1>4, <1>8 DEF OneIsTold, PresenceInv
<1> QED BY <1>9, <1>11, <1>12, <1>13, <1>14 DEF PresenceInv, PresencePart

(* A worker tells one client, who then believes what is or soon will be so.  *)
LEMMA WorkerPresence ==
  ASSUME Regular, TypeInv, LoginInv, ChatInv, PresenceInv, NEW c \in Conns, NEW e \in Conns,
         Worker(c, e), ~NullCrash
  PROVE  PresenceInv'
<1>0. TypeOK /\ Local(c) /\ Announced(c) /\ InTables(c)
  BY DEF TypeInv, PresenceInv, PresencePart
<1>1. PICK u \in Users : u = subject[c]
  BY <1>0 DEF Worker, Local
<1>2. PICK m : m = [kind |-> IF req[c] # NoReq THEN "online" ELSE "offline", user |-> u]
  OBVIOUS
<1>3. /\ e \in work[c] /\ lock[e] = Null /\ pc[c] = "notify"
      /\ work' = [work EXCEPT ![c] = @ \ {e}]
      /\ PushMaybeFreed(e, m)
      /\ UNCHANGED <<uidSession, sockSession, session, list, todo, shut, chan, peer, as, listed,
                     pc, req, mine, old, subject>>
  <2>1. /\ e \in work[c] /\ lock[e] = Null /\ work' = [work EXCEPT ![c] = @ \ {e}]
        /\ PushMaybeFreed(e, m)
        /\ UNCHANGED <<sessionVars, shut, pc, req, mine, old, subject, todo, list>>
    BY <1>1, <1>2 DEF Worker
  <2>2. pc[c] = "notify"
    BY <1>0, <2>1 DEF Local
  <2>3. UNCHANGED <<chan, peer, as, listed>>
    BY <2>1 DEF PushMaybeFreed, Push, clientVars
  <2> QED BY <2>1, <2>2, <2>3 DEF sessionVars
<1>4. /\ UNCHANGED <<as, listed, list, todo, pc, req, subject, session, mine, uidSession,
                     sockSession>>
      /\ \A f \in Conns : Still(f)
      /\ \A f \in Conns \ {c} : work'[f] = work[f]
      /\ \A f \in Conns : f # e => (f \in work'[c] <=> f \in work[c])
  BY <1>0, <1>3 DEF TypeOK, Still
<1>5. /\ \A f \in Conns : got[f] \subseteq got'[f]
      /\ \A f \in Conns \ {e} : view'[f] = view[f]
      /\ \A v \in view'[e] : v \in view[e] \/ (v = u /\ req[c] # NoReq)
      /\ \A v \in view[e] : v \in view'[e] \/ (v = u /\ req[c] = NoReq)
      /\ got'[e] = got[e] => view'[e] = view[e] \/ got'[e] # {}
      /\ LoggedIn(e) /\ req[c] # NoReq => Notice(u) \in got'[e] /\ u \in view'[e]
      /\ LoggedIn(e) /\ req[c] = NoReq => u \notin view'[e]
  <2>1. CASE UNCHANGED clientVars /\ ~(Open(e) /\ ~Destroyed(e))
    BY <2>1 DEF clientVars, LoggedIn, Leaving, Destroyed
  <2>2. CASE ~UNCHANGED clientVars \/ (Open(e) /\ ~Destroyed(e))
    <3>1. Push(e, m) /\ Open(e)
      BY <1>3, <2>2 DEF PushMaybeFreed, Push
    <3>2. got' = [got EXCEPT ![e] = @ \cup {m}]
      BY <3>1 DEF Push
    <3>3. PICK s : s = CASE m.kind = "online"  -> view[e] \cup {m.user}
                         [] m.kind = "offline" -> view[e] \ {m.user}
                         [] OTHER              -> view[e]
      OBVIOUS
    <3>4. view' = [view EXCEPT ![e] = s]
      BY <3>1, <3>3 DEF Push
    <3>5. s = IF req[c] # NoReq THEN view[e] \cup {u} ELSE view[e] \ {u}
      BY <1>2, <3>3
    <3>6. /\ view'[e] = s /\ m \in got'[e]
          /\ \A f \in Conns \ {e} : view'[f] = view[f]
          /\ \A f \in Conns : got[f] \subseteq got'[f]
      BY <1>0, <3>2, <3>4 DEF TypeOK
    <3>7. req[c] # NoReq => m = Notice(u)
      BY <1>2 DEF Notice
    <3>8. CASE req[c] # NoReq
      <4>1. view'[e] = view[e] \cup {u}
        BY <3>5, <3>6, <3>8
      <4> QED BY <3>6, <3>7, <3>8, <4>1
    <3>9. CASE req[c] = NoReq
      <4>1. view'[e] = view[e] \ {u}
        BY <3>5, <3>6, <3>9
      <4> QED BY <3>6, <3>9, <4>1
    <3> QED BY <3>8, <3>9
  <2>3. UNCHANGED clientVars \/ ~UNCHANGED clientVars
    OBVIOUS
  <2> QED BY <2>1, <2>2
<1>6. as[e] = NoUser /\ got'[e] = {} => view'[e] = {}
  BY <1>5 DEF PresenceInv, PresencePart, Believes
<1>7. req[e] = NoReq /\ pc[e] # "reply" /\ list[e] = {}
  <2>1. ReqOf(e) /\ Believes(e)
    BY Here DEF PresenceInv, PresencePart
  <2>2. req[e] = NoReq
    BY <1>3, <2>1, SessionAssumption DEF ReqOf
  <2> QED BY <2>1, <2>2 DEF ReqOf, Believes
<1>8. req[c] = NoReq => /\ uidSession[u] = sockSession[c] /\ sockSession[c] \in Blocks
                        /\ u \notin OnlineUsers(session)
  <2> SUFFICES ASSUME req[c] = NoReq
               PROVE  /\ uidSession[u] = sockSession[c] /\ sockSession[c] \in Blocks
                      /\ u \notin OnlineUsers(session)
    OBVIOUS
  <2>1. mine[c] \in Blocks /\ mine[c] = sockSession[c]
    BY <1>3, Here DEF MineOf
  <2>2. session[sockSession[c]].user = u
    BY <1>0, <1>1, <1>3, <2>1 DEF Announced
  <2>3. uidSession[u] = sockSession[c]
    BY <1>0, <2>1, <2>2 DEF InTables
  <2>4. session[sockSession[c]].con = c
    BY <1>3, <2>1, Here DEF SockOf
  <2>5. ~Staying(c)
    BY <1>3 DEF Staying, Parting
  <2>6. u \notin OnlineUsers(session)
    BY <1>3, <2>3, <2>4, <2>5 DEF PresenceInv, OnlineEntry
  <2> QED BY <2>1, <2>3, <2>6
<1>9. ASSUME NEW d \in Conns, NEW f \in Conns, d # c \/ f # e
      PROVE  Pending(d, f)' <=> Pending(d, f)
  BY <1>4, <1>9 DEF Pending
<1>10. \A f \in Conns : LoggedIn(f)' => LoggedIn(f)
  BY <1>3, <1>4, StillLoggedIn
<1>11. /\ OnlineUsers(session)' = OnlineUsers(session)
       /\ \A f \in Conns : InTables(f)'
       /\ \A v \in Users : OnlineEntry(v)'
  <2>1. Staying(c)' <=> Staying(c)
    BY <1>4 DEF Staying, Parting
  <2> QED BY <1>3, <1>4, <2>1, TablesLeft
<1>12. \A d \in Conns : /\ Placing(d)' <=> Placing(d)
                        /\ Placed(d)' <=> Placed(d)
                        /\ Parting(d)' <=> Parting(d)
  BY <1>4, StillSame DEF Parting
<1>13. /\ Placing(c) \/ Placed(c) => req[c] # NoReq
       /\ Parting(c) => req[c] = NoReq
       /\ req[c] # NoReq => Placing(c) /\ req[c].user = u
  BY <1>0, <1>1, <1>3 DEF Placing, Placed, Parting, Announced
<1>14. ASSUME NEW d \in Conns PROVE Announced(d)'
  <2>1. CASE d = c
    <3>1. ASSUME Placing(c) \/ Placed(c), NEW f \in Conns, LoggedIn(f)
          PROVE  Pending(c, f)' \/ Notice(req[c].user) \in got'[f]
      <4>1. CASE f = e
        BY <1>5, <1>13, <3>1, <4>1
      <4>2. CASE f # e
        BY <1>0, <1>5, <1>9, <3>1, <4>2 DEF Announced
      <4> QED BY <4>1, <4>2
    <3>2. ASSUME Placing(c), NEW f \in Conns, LoggedIn(f)
          PROVE  Pending(c, f)' \/ req[c].user \in view'[f]
      <4>1. CASE f = e
        BY <1>5, <1>13, <3>2, <4>1
      <4>2. CASE f # e
        BY <1>0, <1>5, <1>9, <3>2, <4>2 DEF Announced
      <4> QED BY <4>1, <4>2
    <3>3. subject[c] = (IF req[c] # NoReq THEN req[c].user ELSE session[mine[c]].user)
      BY <1>0, <1>3 DEF Announced
    <3> QED BY <1>4, <1>10, <1>12, <2>1, <3>1, <3>2, <3>3 DEF Announced, Notice
  <2>2. CASE d # c
    <3>1. ASSUME Placing(d), NEW f \in Conns, req[d].user \in view[f]
          PROVE  req[d].user \in view'[f]
      <4>1. CASE f = e /\ req[d].user = u /\ req[c] = NoReq
        <5>1. Making(d) /\ pc[d] # "inssock"
          BY <3>1, Here DEF Placing, Making, LoginPc, ReqOf
        <5> QED BY <1>8, <4>1, <5>1, Unplaced, SessionAssumption
      <4>2. CASE ~(f = e /\ req[d].user = u /\ req[c] = NoReq)
        BY <1>5, <3>1, <4>2
      <4> QED BY <4>1, <4>2
    <3>2. /\ \A f \in Conns : LoggedIn(f)' => LoggedIn(f)
          /\ \A f \in Conns : Pending(d, f) => Pending(d, f)'
          /\ \A f \in Conns : got[f] \subseteq got'[f]
          /\ session'[mine[d]].user = session[mine[d]].user
          /\ subject'[d] = subject[d]
      BY <1>4, <1>5, <1>9, <1>10, <2>2
    <3> QED BY <1>4, <3>1, <3>2, StillAnnounced
  <2> QED BY <2>1, <2>2
<1>15. ASSUME NEW f \in Conns PROVE Believes(f)'
  <2>1. /\ f \in listed' => as'[f] # NoUser
        /\ as'[f] = NoUser /\ got'[f] = {} => view'[f] = {}
        /\ list'[f] # {} => pc'[f] = "reply" /\ req'[f].op = "online"
    <3>1. Believes(f)
      BY DEF PresenceInv, PresencePart
    <3>2. f # e /\ got'[f] = {} => got[f] = {}
      BY <1>5
    <3> QED BY <1>4, <1>5, <1>6, <3>1, <3>2 DEF Believes
  <2>2. ASSUME LoggedIn(f)', NEW v \in (view'[f] \cup list'[f]) \ {as'[f]}
        PROVE  Accounted(v, f)'
    <3>1. CASE v = u /\ req[c] # NoReq
      BY <1>4, <1>12, <1>13, <3>1 DEF Accounted
    <3>2. CASE ~(v = u /\ req[c] # NoReq)
      <4>1. v \in (view[f] \cup list[f]) \ {as[f]}
        BY <1>4, <1>5, <2>2, <3>2
      <4>2. Accounted(v, f)
        BY <1>10, <2>2, <4>1 DEF PresenceInv, PresencePart, Believes
      <4>3. CASE v \in OnlineUsers(session)
        BY <1>11, <4>3 DEF Accounted
      <4>4. ASSUME NEW d \in Conns, Placing(d), req[d].user = v PROVE Accounted(v, f)'
        BY <1>4, <1>12, <4>4 DEF Accounted
      <4>5. ASSUME NEW d \in Conns, Parting(d), Pending(d, f), subject[d] = v
            PROVE  Accounted(v, f)'
        <5>1. ~(d = c /\ f = e)
          <6> SUFFICES ASSUME d = c, f = e PROVE FALSE
            OBVIOUS
          <6>1. v = u /\ req[c] = NoReq
            BY <1>1, <1>13, <4>5
          <6>2. LoggedIn(e) /\ v \in view'[e]
            BY <1>4, <1>7, <1>10, <2>2
          <6> QED BY <1>5, <6>1, <6>2
        <5> QED BY <1>4, <1>9, <1>12, <4>5, <5>1 DEF Accounted
      <4> QED BY <4>2, <4>3, <4>4, <4>5 DEF Accounted
    <3> QED BY <3>1, <3>2
  <2> QED BY <2>1, <2>2 DEF Believes
<1>16. ASSUME NEW f \in Conns PROVE Misses(f)'
  <2>1. Misses(f)
    BY DEF PresenceInv, PresencePart
  <2>2. \A v \in OnlineUsers(session) : v \in view[f] => v \in view'[f]
    BY <1>5, <1>8
  <2> QED BY <1>4, <1>10, <1>11, <2>1, <2>2 DEF Misses
<1>17. OneIsTold'
  BY <1>4, <1>5, <1>10 DEF OneIsTold, PresenceInv
<1> QED BY <1>11, <1>14, <1>15, <1>16, <1>17 DEF PresenceInv, PresencePart

(* The table of users learns of a login when every client already does.      *)
LEMMA InsertUidPresence ==
  ASSUME Regular, TypeInv, LoginInv, ChatInv, PresenceInv, NEW c \in Conns, InsertUid(c),
         ~NullCrash
  PROVE  PresenceInv'
<1>0. /\ TypeOK /\ pc[c] = "insuid" /\ req[c].user \in Users /\ as[c] = NoUser
      /\ uidSession[req[c].user] = Absent /\ sockSession[c] = Absent
      /\ mine[c] \in Blocks /\ session[mine[c]] = NewSession(c, req[c].user)
  <2>1. pc[c] = "insuid"
    BY DEF InsertUid, At
  <2>2. Making(c) /\ pc[c] # "inssock"
    BY <2>1 DEF Making, LoginPc
  <2>3. mine[c] \in Blocks /\ session[mine[c]] = NewSession(c, req[c].user)
    BY <2>1, <2>2, Here DEF MineOf
  <2> QED BY <2>1, <2>2, <2>3, Unplaced DEF TypeInv
<1>1. PICK u \in Users : u = req[c].user
  BY <1>0
<1>2. session[mine[c]].online /\ session[mine[c]].con = c
  BY <1>0 DEF NewSession
<1>3. /\ uidSession' = [uidSession EXCEPT ![u] = mine[c]]
      /\ pc' = [pc EXCEPT ![c] = "inssock"]
      /\ UNCHANGED <<sockSession, session, as, view, listed, got, list, work, todo, shut,
                     peer, chan, req, mine, old, subject>>
  BY <1>0, <1>1 DEF InsertUid, Insert, Goto, clientVars, localVars
<1>4. /\ pc'[c] = "inssock" /\ uidSession'[u] = mine[c]
      /\ \A v \in Users : v # u => uidSession'[v] = uidSession[v]
      /\ \A d \in Conns \ {c} : Still(d) /\ subject'[d] = subject[d]
  BY <1>0, <1>3 DEF TypeOK, SessionTypeOK, Still
<1>5. /\ UNCHANGED <<as, view, listed, got, list, work, todo, req, subject, session,
                     sockSession, mine>>
  BY <1>3
<1>6. OnlineUsers(session)' = OnlineUsers(session) \cup {u}
  BY <1>0, <1>2, <1>4, <1>5 DEF OnlineUsers
<1>7. \A e \in Conns : LoggedIn(e)' => LoggedIn(e) /\ e # c
  <2>1. ~LoggedIn(c)'
    BY <1>0, <1>5 DEF LoggedIn
  <2>2. shut \subseteq shut'
    BY <1>3
  <2> QED BY <1>4, <2>1, <2>2, StillLoggedIn
<1>8. /\ Placing(c) /\ pc[c] # "notify" /\ pc'[c] # "notify" /\ ~Placing(c)'
      /\ ~Parting(c) /\ \A e \in Conns : ~Pending(c, e)
  BY <1>0, <1>4 DEF Placing, Parting, Pending
<1>9. ASSUME NEW d \in Conns, d # c
      PROVE  /\ Placing(d)' <=> Placing(d)
             /\ pc'[d] = pc[d] /\ (Parting(d)' <=> Parting(d))
             /\ \A e \in Conns : Pending(d, e)' <=> Pending(d, e)
  BY <1>4, <1>5, <1>9, StillSame DEF Still, Pending, Parting
<1>10. \A e \in Conns : LoggedIn(e) => Notice(u) \in got[e] /\ u \in view[e]
  BY <1>1, <1>8 DEF PresenceInv, PresencePart, Announced
<1>11. ASSUME NEW d \in Conns PROVE Announced(d)'
  <2>1. CASE d = c
    BY <1>1, <1>5, <1>7, <1>8, <1>10, <2>1 DEF Announced, Notice
  <2>2. CASE d # c
    <3>1. /\ \A e \in Conns : LoggedIn(e)' => LoggedIn(e)
          /\ \A e \in Conns : Pending(d, e) => Pending(d, e)'
          /\ \A e \in Conns : got[e] \subseteq got'[e]
          /\ \A e \in Conns : req[d].user \in view[e] => req[d].user \in view'[e]
          /\ session'[mine[d]].user = session[mine[d]].user
      BY <1>5, <1>7, <1>9, <2>2
    <3> QED BY <1>4, <2>2, <3>1, StillAnnounced
  <2> QED BY <2>1, <2>2
<1>12. ASSUME NEW d \in Conns PROVE InTables(d)'
  <2> SUFFICES ASSUME sockSession[d] \in Blocks
               PROVE  uidSession'[session[sockSession[d]].user] = sockSession[d]
    BY <1>5 DEF InTables
  <2>1. uidSession[session[sockSession[d]].user] = sockSession[d]
    BY DEF PresenceInv, PresencePart, InTables
  <2>2. session[sockSession[d]].user \in Users
    BY SessionAssumption DEF TypeInv, Reached, NamedBlocks
  <2> QED BY <1>0, <1>1, <1>4, <2>1, <2>2, SessionAssumption
<1>13. ASSUME NEW e \in Conns PROVE Believes(e)'
  <2>1. list[e] # {} => pc'[e] = pc[e] /\ req'[e] = req[e]
    BY <1>0, <1>5, <1>9 DEF PresenceInv, PresencePart, Believes
  <2>2. ASSUME NEW v, Accounted(v, e)
        PROVE  Accounted(v, e)'
    <3>1. CASE v \in OnlineUsers(session)
      BY <1>6, <3>1 DEF Accounted
    <3>2. ASSUME NEW d \in Conns, Placing(d), req[d].user = v PROVE Accounted(v, e)'
      <4>1. CASE d = c
        BY <1>1, <1>6, <3>2, <4>1 DEF Accounted
      <4>2. CASE d # c
        BY <1>5, <1>9, <3>2, <4>2 DEF Accounted
      <4> QED BY <4>1, <4>2
    <3>3. ASSUME NEW d \in Conns, Parting(d), Pending(d, e), subject[d] = v
          PROVE  Accounted(v, e)'
      <4>1. d # c
        BY <1>8, <3>3
      <4> QED BY <1>5, <1>9, <3>3, <4>1 DEF Accounted
    <3> QED BY <2>2, <3>1, <3>2, <3>3 DEF Accounted
  <2>3. UNCHANGED <<as, view, listed>> /\ got[e] \subseteq got'[e] /\ list'[e] = list[e]
    BY <1>5
  <2> QED BY <1>7, <2>1, <2>2, <2>3, BelievesKept
<1>14. ASSUME NEW e \in Conns PROVE Misses(e)'
  <2>1. pc'[e] = "reply" => pc[e] = "reply"
    BY <1>4, <1>9
  <2>2. LoggedIn(e) => u \in view[e]
    BY <1>10
  <2>3. Misses(e)
    BY DEF PresenceInv, PresencePart
  <2> QED BY <1>5, <1>6, <1>7, <2>1, <2>2, <2>3 DEF Misses
<1>15. ASSUME NEW v \in Users PROVE OnlineEntry(v)'
  <2> SUFFICES ASSUME v \in OnlineUsers(session)'
               PROVE  \E d \in Conns :
                        /\ session'[uidSession'[v]].con = d
                        /\ \/ pc'[d] = "inssock"
                           \/ sockSession'[d] = uidSession'[v] /\ Staying(d)'
    BY DEF OnlineEntry
  <2>1. CASE v = u
    BY <1>2, <1>4, <1>5, <2>1
  <2>2. CASE v # u
    <3>1. v \in OnlineUsers(session) /\ uidSession[v] \in Blocks
      BY <1>6, <2>2 DEF OnlineUsers
    <3>2. PICK d \in Conns : /\ session[uidSession[v]].con = d
                             /\ \/ pc[d] = "inssock"
                                \/ sockSession[d] = uidSession[v] /\ Staying(d)
      BY <3>1 DEF PresenceInv, OnlineEntry
    <3>3. d # c
      BY <1>0, <3>1, <3>2, SessionAssumption
    <3>4. Staying(d) => Staying(d)'
      BY <1>9, <3>3 DEF Staying
    <3> QED BY <1>4, <1>5, <1>9, <2>2, <3>2, <3>3, <3>4
  <2> QED BY <2>1, <2>2
<1>16. OneIsTold'
  BY <1>5, <1>7 DEF OneIsTold, PresenceInv
<1> QED BY <1>11, <1>12, <1>13, <1>14, <1>15, <1>16 DEF PresenceInv, PresencePart

(* The list is who is online now.                                            *)
LEMMA GetOnlinePresence ==
  ASSUME TypeInv, LoginInv, ChatInv, PresenceInv, NEW c \in Conns, GetOnline(c),
         ~NullCrash
  PROVE  PresenceInv'
<1>0. TypeOK /\ Believes(c) /\ req[c].op = "online"
  <2>1. req[c].op = "online"
    BY Here DEF ReqOf, GetOnline, At
  <2> QED BY <2>1 DEF TypeInv, PresenceInv, PresencePart
<1>1. PICK l : l = OnlineUsers(session)
  OBVIOUS
<1>2. /\ pc[c] = "online" /\ pc' = [pc EXCEPT ![c] = "reply"] /\ list' = [list EXCEPT ![c] = l]
      /\ UNCHANGED <<uidSession, sockSession, session, as, view, listed, got, work, todo,
                     shut, peer, chan, req, mine, old, subject>>
  BY <1>1 DEF GetOnline, At, Goto, sessionVars, clientVars
<1>3. /\ pc'[c] = "reply" /\ list'[c] = l
      /\ \A d \in Conns \ {c} : Still(d) /\ list'[d] = list[d]
      /\ UNCHANGED <<as, view, listed, got, work, todo, req, subject, session, mine>>
  BY <1>0, <1>2 DEF TypeOK, SessionTypeOK, Still
<1>4. \A e \in Conns : LoggedIn(e)' => LoggedIn(e)
  <2>1. LoggedIn(c)' => LoggedIn(c)
    BY <1>2, <1>3 DEF LoggedIn, Leaving, Open
  <2> QED BY <1>2, <1>3, <2>1, StillLoggedIn
<1>5. /\ OnlineUsers(session)' = l
      /\ \A e \in Conns : InTables(e)'
      /\ \A u \in Users : OnlineEntry(u)'
  <2>1. pc[c] # "inssock" /\ Staying(c)'
    BY <1>2, <1>3 DEF Staying, Parting
  <2> QED BY <1>1, <1>2, <1>3, <2>1, TablesLeft
<1>6. /\ ~Placing(c) /\ ~Placing(c)' /\ ~Placed(c)' /\ ~Parting(c)
      /\ \A e \in Conns : ~Pending(c, e)
  BY <1>0, <1>2, <1>3 DEF Placing, Placed, Parting, Pending
<1>7. ASSUME NEW d \in Conns, d # c
      PROVE  /\ Placing(d)' <=> Placing(d)
             /\ pc'[d] = pc[d] /\ (Parting(d)' <=> Parting(d))
             /\ \A e \in Conns : Pending(d, e)' <=> Pending(d, e)
  BY <1>3, <1>7, StillSame DEF Still, Pending, Parting
<1>8. ASSUME NEW d \in Conns PROVE Announced(d)'
  <2>1. CASE d = c
    BY <1>3, <1>6, <2>1 DEF Announced
  <2>2. CASE d # c
    <3>1. /\ \A f \in Conns : Pending(d, f) => Pending(d, f)'
          /\ \A f \in Conns : got[f] \subseteq got'[f]
          /\ \A f \in Conns : req[d].user \in view[f] => req[d].user \in view'[f]
          /\ session'[mine[d]].user = session[mine[d]].user
          /\ subject'[d] = subject[d]
      BY <1>3, <1>7, <2>2
    <3> QED BY <1>3, <1>4, <2>2, <3>1, StillAnnounced
  <2> QED BY <2>1, <2>2
<1>9. ASSUME NEW e \in Conns PROVE Believes(e)'
  <2>1. ASSUME NEW v, Accounted(v, e)
        PROVE  Accounted(v, e)'
    <3>1. CASE v \in OnlineUsers(session)
      BY <1>1, <1>5, <3>1 DEF Accounted
    <3>2. ASSUME NEW d \in Conns, Placing(d), req[d].user = v PROVE Accounted(v, e)'
      <4>1. d # c
        BY <1>6, <3>2
      <4> QED BY <1>3, <1>7, <3>2, <4>1 DEF Accounted
    <3>3. ASSUME NEW d \in Conns, Parting(d), Pending(d, e), subject[d] = v
          PROVE  Accounted(v, e)'
      <4>1. d # c
        BY <1>6, <3>3
      <4> QED BY <1>3, <1>7, <3>3, <4>1 DEF Accounted
    <3> QED BY <2>1, <3>1, <3>2, <3>3 DEF Accounted
  <2>2. Believes(e)
    BY DEF PresenceInv, PresencePart
  <2>3. /\ e \in listed' => as'[e] # NoUser
        /\ as'[e] = NoUser /\ got'[e] = {} => view'[e] = {}
    BY <1>3, <2>2 DEF Believes
  <2>4. list'[e] # {} => pc'[e] = "reply" /\ req'[e].op = "online"
    BY <1>0, <1>3, <1>7, <2>2 DEF Believes
  <2>5. ASSUME LoggedIn(e)', NEW u \in (view'[e] \cup list'[e]) \ {as'[e]}
        PROVE  Accounted(u, e)'
    <3>1. CASE u \in l
      BY <1>5, <3>1 DEF Accounted
    <3>2. CASE u \notin l
      <4>1. u \in (view[e] \cup list[e]) \ {as[e]}
        BY <1>3, <2>5, <3>2
      <4> QED BY <1>4, <2>1, <2>2, <2>5, <4>1 DEF Believes
    <3> QED BY <3>1, <3>2
  <2> QED BY <2>3, <2>4, <2>5 DEF Believes
<1>10. ASSUME NEW e \in Conns PROVE Misses(e)'
  <2>1. Misses(e)
    BY DEF PresenceInv, PresencePart
  <2>2. CASE e = c
    BY <1>1, <1>3, <1>4, <1>5, <2>1, <2>2 DEF Misses
  <2>3. CASE e # c
    BY <1>1, <1>3, <1>4, <1>5, <1>7, <2>1, <2>3 DEF Misses
  <2> QED BY <2>2, <2>3
<1>11. OneIsTold'
  BY <1>3, <1>4 DEF OneIsTold, PresenceInv
<1> QED BY <1>5, <1>8, <1>9, <1>10, <1>11 DEF PresenceInv, PresencePart

(* The answer to a login makes its client one of those who hear of others;   *)
(* the list makes its client miss nobody.                                    *)
LEMMA ReplyPresence ==
  ASSUME TypeInv, LoginInv, ChatInv, PresenceInv, NEW c \in Conns, Reply(c), ~NullCrash
  PROVE  PresenceInv'
<1>0. TypeOK /\ Announced(c) /\ Believes(c) /\ Misses(c) /\ ReqOf(c)
  BY Here DEF TypeInv, PresenceInv, PresencePart
<1>1. /\ pc[c] = "reply" /\ req[c] # NoReq /\ req[c] \in Request
      /\ (req[c].op = "login") <=> (as[c] = NoUser)
      /\ req[c].op = "login" => req[c].user \in Users
  <2>1. pc[c] = "reply"
    BY DEF Reply, At
  <2>2. req[c] # NoReq /\ req[c] \in Request
    BY <1>0, <2>1, Here DEF ReqOf
  <2> QED BY <1>0, <2>1, <2>2 DEF ReqOf, Proper, Request
<1>2. PICK l \in {"recv", "disc"} : pc' = [pc EXCEPT ![c] = l]
  BY DEF Reply, Goto
<1>3. /\ req' = [req EXCEPT ![c] = NoReq] /\ mine' = [mine EXCEPT ![c] = Null]
      /\ old' = [old EXCEPT ![c] = Null] /\ list' = [list EXCEPT ![c] = {}]
      /\ UNCHANGED <<uidSession, sockSession, session, chan, got, shut, subject, todo, work>>
  BY DEF Reply, sessionVars
<1>4. /\ Open(c) => Learn(c)
      /\ ~Open(c) => UNCHANGED <<peer, as, view, listed>>
  BY DEF Reply
<1>5. /\ \A d \in Conns \ {c} : as'[d] = as[d] /\ view'[d] = view[d] /\ peer'[d] = peer[d]
      /\ \A d \in Conns : d # c => (d \in listed' <=> d \in listed)
      /\ Open(c) => /\ as'[c] = (IF req[c].op = "login" THEN req[c].user ELSE as[c])
                    /\ view'[c] = view[c] \cup list[c]
                    /\ c \in listed' <=> c \in listed \/ req[c].op = "online"
      /\ ~Open(c) => /\ as'[c] = as[c] /\ view'[c] = view[c] /\ peer' = peer
                     /\ c \in listed' <=> c \in listed
  <2>1. CASE Open(c)
    <3>1. PICK u : u = IF req[c].op = "login" THEN req[c].user ELSE as[c]
      OBVIOUS
    <3>2. /\ peer' = [peer EXCEPT ![c] = "ready"] /\ as' = [as EXCEPT ![c] = u]
          /\ view' = [view EXCEPT ![c] = view[c] \cup list[c]]
          /\ listed' = IF req[c].op = "online" THEN listed \cup {c} ELSE listed
      BY <1>4, <2>1, <3>1 DEF Learn
    <3>3. /\ \A d \in Conns \ {c} : as'[d] = as[d] /\ view'[d] = view[d] /\ peer'[d] = peer[d]
          /\ as'[c] = u /\ view'[c] = view[c] \cup list[c]
      BY <1>0, <3>2 DEF TypeOK
    <3>4. /\ \A d \in Conns : d # c => (d \in listed' <=> d \in listed)
          /\ c \in listed' <=> c \in listed \/ req[c].op = "online"
      BY <3>2
    <3> QED BY <2>1, <3>1, <3>3, <3>4
  <2>2. CASE ~Open(c)
    BY <1>4, <2>2
  <2> QED BY <2>1, <2>2
<1>6. /\ pc'[c] = l /\ list'[c] = {} /\ req'[c] = NoReq
      /\ \A d \in Conns \ {c} : Still(d) /\ list'[d] = list[d]
      /\ UNCHANGED <<got, subject, session>>
  BY <1>0, <1>2, <1>3, <1>5 DEF TypeOK, SessionTypeOK, Still
<1>7. /\ OnlineUsers(session)' = OnlineUsers(session)
      /\ \A e \in Conns : InTables(e)'
      /\ \A u \in Users : OnlineEntry(u)'
  <2>1. pc[c] # "inssock" /\ Staying(c)'
    BY <1>1, <1>2, <1>6 DEF Staying, Parting
  <2> QED BY <1>3, <1>6, <2>1, TablesLeft
<1>8. /\ ~Placing(c) /\ ~Placing(c)' /\ ~Placed(c)' /\ ~Parting(c) /\ pc'[c] # "notify"
      /\ pc'[c] # "reply" /\ \A e \in Conns : ~Pending(c, e)
  BY <1>1, <1>2, <1>6 DEF Placing, Placed, Parting, Pending
<1>9. ASSUME NEW d \in Conns, d # c
      PROVE  /\ Placing(d)' <=> Placing(d)
             /\ Placed(d)' <=> Placed(d)
             /\ pc'[d] = pc[d] /\ req'[d] = req[d] /\ mine'[d] = mine[d]
             /\ (Parting(d)' <=> Parting(d))
             /\ \A e \in Conns : Pending(d, e)' <=> Pending(d, e)
  BY <1>3, <1>6, <1>9, StillSame DEF Still, Pending, Parting
<1>10. \A e \in Conns \ {c} : LoggedIn(e)' => LoggedIn(e)
  BY <1>3, <1>6, StillLoggedIn
<1>11. LoggedIn(c)' => Open(c) /\ (LoggedIn(c) \/ req[c].op = "login")
  <2>1. LoggedIn(c)' => Open(c)
    BY <1>3, <1>5 DEF LoggedIn, Open
  <2> QED BY <1>1, <1>5, <2>1 DEF LoggedIn, Leaving
<1>12. req[c].op = "login" =>
         /\ \A d \in Conns \ {c} : ~Placing(d) /\ ~Placed(d)
         /\ view[c] = {} /\ list[c] = {} /\ c \notin listed
         /\ \A e \in Conns : LoggedIn(e) => Notice(req[c].user) \in got[e]
  <2> SUFFICES ASSUME req[c].op = "login"
               PROVE  /\ \A d \in Conns \ {c} : ~Placing(d) /\ ~Placed(d)
                      /\ view[c] = {} /\ list[c] = {} /\ c \notin listed
                      /\ \A e \in Conns : LoggedIn(e) => Notice(req[c].user) \in got[e]
    OBVIOUS
  <2>1. Serving(c) /\ Placed(c)
    BY <1>1 DEF Serving, Placed
  <2>2. \A d \in Conns \ {c} : ~Placing(d) /\ ~Placed(d)
    BY <2>1, InLogin DEF LoginInv
  <2>3. got[c] = {}
    BY <1>1 DEF ChatInv, NoEarlyPush
  <2>4. view[c] = {} /\ list[c] = {} /\ c \notin listed
    BY <1>0, <1>1, <2>3 DEF Believes
  <2> QED BY <1>0, <1>8, <2>1, <2>2, <2>4 DEF Announced
<1>13. ASSUME NEW d \in Conns PROVE Announced(d)'
  <2>1. CASE d = c
    BY <1>8, <2>1 DEF Announced
  <2>2. CASE d # c /\ req[c].op = "login"
    <3>1. ~Placing(d)' /\ ~Placed(d)'
      BY <1>9, <1>12, <2>2
    <3>2. Announced(d)
      BY DEF PresenceInv, PresencePart
    <3> QED BY <1>6, <1>9, <2>2, <3>1, <3>2 DEF Announced
  <2>3. CASE d # c /\ req[c].op # "login"
    <3>1. /\ \A f \in Conns : LoggedIn(f)' => LoggedIn(f)
          /\ \A f \in Conns : Pending(d, f) => Pending(d, f)'
          /\ \A f \in Conns : got[f] \subseteq got'[f]
          /\ \A f \in Conns : req[d].user \in view[f] => req[d].user \in view'[f]
          /\ session'[mine[d]].user = session[mine[d]].user
          /\ subject'[d] = subject[d]
      BY <1>5, <1>6, <1>9, <1>10, <1>11, <2>3
    <3> QED BY <1>6, <2>3, <3>1, StillAnnounced
  <2> QED BY <2>1, <2>2, <2>3
<1>14. ASSUME NEW v, NEW e \in Conns, Accounted(v, e)
       PROVE  Accounted(v, e)'
  <2>1. CASE v \in OnlineUsers(session)
    BY <1>7, <2>1 DEF Accounted
  <2>2. ASSUME NEW d \in Conns, Placing(d), req[d].user = v PROVE Accounted(v, e)'
    <3>1. d # c
      BY <1>8, <2>2
    <3> QED BY <1>9, <2>2, <3>1 DEF Accounted
  <2>3. ASSUME NEW d \in Conns, Parting(d), Pending(d, e), subject[d] = v
        PROVE  Accounted(v, e)'
    <3>1. d # c
      BY <1>8, <2>3
    <3> QED BY <1>6, <1>9, <2>3, <3>1 DEF Accounted
  <2> QED BY <1>14, <2>1, <2>2, <2>3 DEF Accounted
<1>15. ASSUME NEW e \in Conns PROVE Believes(e)'
  <2>0. Believes(e)
    BY DEF PresenceInv, PresencePart
  <2>1. CASE e # c
    <3>1. /\ as'[e] = as[e] /\ view'[e] = view[e] /\ list'[e] = list[e] /\ got'[e] = got[e]
          /\ (e \in listed' <=> e \in listed) /\ (LoggedIn(e)' => LoggedIn(e))
          /\ pc'[e] = pc[e] /\ req'[e] = req[e]
      BY <1>5, <1>6, <1>9, <1>10, <2>1
    <3> QED BY <1>14, <2>0, <3>1 DEF Believes
  <2>2. CASE e = c
    <3>1. c \in listed' => as'[c] # NoUser
      BY <1>0, <1>1, <1>5, SessionAssumption DEF Believes
    <3>2. as'[c] = NoUser /\ got'[c] = {} => view'[c] = {}
      BY <1>0, <1>1, <1>5, <1>6, SessionAssumption DEF Believes
    <3>3. ASSUME LoggedIn(c)', NEW u \in view'[c] \ {as'[c]}
          PROVE  Accounted(u, c)'
      <4>1. req[c].op # "login" /\ LoggedIn(c) /\ u \in (view[c] \cup list[c]) \ {as[c]}
        BY <1>5, <1>11, <1>12, <3>3
      <4> QED BY <1>0, <1>14, <4>1 DEF Believes
    <3> QED BY <1>6, <2>2, <3>1, <3>2, <3>3 DEF Believes
  <2> QED BY <2>1, <2>2
<1>16. ASSUME NEW e \in Conns PROVE Misses(e)'
  <2>1. CASE e # c
    <3>1. /\ as'[e] = as[e] /\ view'[e] = view[e] /\ list'[e] = list[e]
          /\ (e \in listed' <=> e \in listed) /\ (LoggedIn(e)' => LoggedIn(e))
          /\ pc'[e] = pc[e] /\ req'[e] = req[e]
      BY <1>5, <1>6, <1>9, <1>10, <2>1
    <3> QED BY <1>7, <3>1 DEF PresenceInv, PresencePart, Misses
  <2>2. CASE e = c /\ req[c].op = "login"
    BY <1>5, <1>8, <1>12, <2>2 DEF Misses
  <2>3. CASE e = c /\ req[c].op # "login"
    BY <1>0, <1>1, <1>5, <1>7, <1>8, <1>11, <2>3 DEF Misses
  <2> QED BY <2>1, <2>2, <2>3
<1>17. OneIsTold'
  <2> SUFFICES ASSUME NEW d \in Conns, NEW e \in Conns, LoggedIn(d)', LoggedIn(e)',
                      as'[d] # as'[e]
               PROVE  Notice(as'[d]) \in got[e] \/ Notice(as'[e]) \in got[d]
    BY <1>6 DEF OneIsTold, Notice
  <2>1. \A f \in Conns : LoggedIn(f)' /\ (f = c => req[c].op # "login") => LoggedIn(f) /\ as'[f] = as[f]
    BY <1>5, <1>10, <1>11
  <2>2. CASE req[c].op = "login" /\ d = c
    <3>1. LoggedIn(e) /\ as'[c] = req[c].user
      BY <1>5, <1>11, <2>1, <2>2
    <3> QED BY <1>12, <2>2, <3>1
  <2>3. CASE req[c].op = "login" /\ e = c
    <3>1. LoggedIn(d) /\ as'[c] = req[c].user
      BY <1>5, <1>11, <2>1, <2>3
    <3> QED BY <1>12, <2>3, <3>1
  <2>4. CASE req[c].op # "login" \/ (d # c /\ e # c)
    <3>1. LoggedIn(d) /\ as'[d] = as[d] /\ LoggedIn(e) /\ as'[e] = as[e]
      BY <2>1, <2>4
    <3> QED BY <3>1 DEF PresenceInv, OneIsTold, Notice
  <2> QED BY <2>2, <2>3, <2>4
<1> QED BY <1>7, <1>13, <1>15, <1>16, <1>17 DEF PresenceInv, PresencePart

(* The user of a connection that leaves is off the list at once, and every   *)
(* client that is logged in will be told.                                    *)
LEMMA DisconnectPresence ==
  ASSUME TypeInv, LoginInv, ChatInv, PresenceInv, NEW c \in Conns, Disconnect(c), ~NullCrash,
         sockSession[c] # Absent
  PROVE  PresenceInv'
<1>0. TypeOK /\ Local(c) /\ Reached
  BY DEF TypeInv
<1>1. PICK b \in Blocks : b = sockSession[c]
  BY DEF ChatInv, ChatType
<1>2. PICK u \in Users : u = session[b].user
  BY <1>0, <1>1, SessionAssumption DEF Reached, NamedBlocks
<1>3. /\ pc[c] = "disc" /\ session' = [session EXCEPT ![b].online = FALSE]
      /\ mine' = [mine EXCEPT ![c] = b] /\ subject' = [subject EXCEPT ![c] = u]
      /\ \E t : t = OnlineConnections(session') /\ todo' = [todo EXCEPT ![c] = t]
      /\ pc' = [pc EXCEPT ![c] = "notify"]
      /\ UNCHANGED <<uidSession, sockSession, as, view, listed, got, list, work, shut, peer,
                     chan, req, old>>
  <2>1. b # Absent /\ sockSession[c] = b
    BY <1>1
  <2>2. /\ pc[c] = "disc" /\ session' = Offline(b) /\ mine' = [mine EXCEPT ![c] = b]
        /\ StartNotices(c, UserOf(b), Offline(b))
        /\ UNCHANGED <<uidSession, sockSession, clientVars, shut, req, old, work, list>>
    BY <2>1 DEF Disconnect, At
  <2> QED BY <1>2, <2>2 DEF StartNotices, Goto, clientVars, Offline, UserOf
<1>4. /\ req[c] = NoReq /\ req'[c] = NoReq /\ pc'[c] = "notify" /\ mine'[c] = b
      /\ subject'[c] = u /\ todo'[c] = OnlineConnections(session')
      /\ \A d \in Conns \ {c} : Still(d) /\ subject'[d] = subject[d] /\ todo'[d] = todo[d]
  BY <1>0, <1>3 DEF TypeOK, SessionTypeOK, Still, Local, Resting
<1>5. /\ session' \in [Blocks -> Session]
      /\ \A x \in Blocks : /\ session'[x].user = session[x].user
                           /\ session'[x].con = session[x].con
                           /\ x # b => session'[x] = session[x]
      /\ ~session'[b].online
  <2>1. session \in [Blocks -> Session] /\ session[b] \in Session
    BY <1>0 DEF TypeOK, SessionTypeOK
  <2>2. PICK r : r = [session[b] EXCEPT !.online = FALSE]
    OBVIOUS
  <2>3. r \in Session /\ r.user = session[b].user /\ r.con = session[b].con /\ ~r.online
    BY <2>1, <2>2 DEF Session
  <2>4. session' = [session EXCEPT ![b] = r]
    BY <1>3, <2>2
  <2> QED BY <2>1, <2>3, <2>4
<1>6. /\ uidSession[u] = b /\ \A v \in Users : uidSession[v] = b => v = u
      /\ uidSession' = uidSession /\ sockSession' = sockSession
  <2>1. InTables(c) /\ \A v \in Users : UserOK(v)
    BY DEF PresenceInv, PresencePart, ChatInv, TableInv
  <2> QED BY <1>1, <1>2, <1>3, <2>1 DEF InTables, UserOK
<1>7. /\ \A v \in OnlineUsers(session)' : v \in OnlineUsers(session) /\ v # u
      /\ \A v \in OnlineUsers(session) : v # u => v \in OnlineUsers(session)'
  BY <1>5, <1>6 DEF OnlineUsers
<1>8. /\ \A e \in Conns : LoggedIn(e)' => LoggedIn(e) /\ e # c
      /\ UNCHANGED <<as, view, listed, got, list, work>>
  <2>1. ~LoggedIn(c)'
    BY <1>4 DEF LoggedIn, Leaving
  <2>2. shut \subseteq shut'
    BY <1>3
  <2> QED BY <1>3, <1>4, <2>1, <2>2, StillLoggedIn
<1>9. ~Placing(c) /\ ~Parting(c) /\ ~Placing(c)' /\ ~Placed(c)' /\ Parting(c)'
  BY <1>3, <1>4 DEF Placing, Placed, Parting
<1>10. ASSUME NEW d \in Conns, d # c
       PROVE  /\ Placing(d)' <=> Placing(d)
              /\ req'[d] = req[d] /\ pc'[d] = pc[d] /\ mine'[d] = mine[d]
              /\ subject'[d] = subject[d] /\ (Parting(d)' <=> Parting(d))
              /\ \A e \in Conns : Pending(d, e)' <=> Pending(d, e)
  BY <1>4, <1>8, <1>10, StillSame DEF Still, Pending, Parting
<1>11. ASSUME NEW e \in Conns, LoggedIn(e)', as[e] # u
       PROVE  Pending(c, e)'
  <2>1. /\ as[e] \in OnlineUsers(session) /\ session[uidSession[as[e]]].con = e
        /\ uidSession[as[e]] \in Blocks
    BY <1>8, <1>11, LoggedInOnline DEF OnlineUsers
  <2>2. as[e] \in OnlineUsers(session') /\ session'[uidSession[as[e]]].con = e
    BY <1>5, <1>6, <1>7, <1>11, <2>1 DEF OnlineUsers
  <2>3. \E i \in 1 .. Len(OnlineConnections(session')) : OnlineConnections(session')[i] = e
    <3>1. \A v \in OnlineUsers(session') :
            \E i \in 1 .. Len(OnlineConnections(session')) :
              OnlineConnections(session')[i] = session'[uidSession[v]].con
      BY <1>5, ConnectionsOf
    <3> QED BY <2>2, <3>1
  <2>4. todo'[c] = OnlineConnections(session')
    BY <1>4
  <2> QED BY <1>4, <2>3, <2>4 DEF Pending
<1>12. ASSUME NEW d \in Conns PROVE Announced(d)'
  <2>1. CASE d = c
    BY <1>2, <1>4, <1>5, <1>9, <2>1 DEF Announced
  <2>2. CASE d # c
    <3>1. pc[d] = "notify" => mine[d] \in Blocks
      BY DEF TypeInv, Local
    <3>2. pc[d] = "notify" /\ req[d] = NoReq => session'[mine[d]].user = session[mine[d]].user
      BY <1>5, <3>1
    <3>3. /\ \A e \in Conns : LoggedIn(e)' => LoggedIn(e)
          /\ \A e \in Conns : Pending(d, e) => Pending(d, e)'
          /\ \A e \in Conns : got[e] \subseteq got'[e]
          /\ \A e \in Conns : req[d].user \in view[e] => req[d].user \in view'[e]
      BY <1>8, <1>10, <2>2
    <3> QED BY <1>4, <2>2, <3>2, <3>3, StillAnnounced
  <2> QED BY <2>1, <2>2
<1>13. ASSUME NEW d \in Conns PROVE InTables(d)'
  BY <1>5, <1>6 DEF PresenceInv, PresencePart, InTables
<1>14. ASSUME NEW e \in Conns PROVE Believes(e)'
  <2>1. list[e] # {} => pc'[e] = pc[e] /\ req'[e] = req[e]
    BY <1>3, <1>10 DEF PresenceInv, PresencePart, Believes
  <2>2. ASSUME NEW v, LoggedIn(e)', v # as[e], Accounted(v, e)
        PROVE  Accounted(v, e)'
    <3>1. CASE v \in OnlineUsers(session) /\ v # u
      BY <1>7, <3>1 DEF Accounted
    <3>2. CASE v = u
      BY <1>4, <1>9, <1>11, <2>2, <3>2 DEF Accounted
    <3>3. ASSUME NEW d \in Conns, Placing(d), req[d].user = v PROVE Accounted(v, e)'
      <4>1. d # c
        BY <1>9, <3>3
      <4> QED BY <1>10, <3>3, <4>1 DEF Accounted
    <3>4. ASSUME NEW d \in Conns, Parting(d), Pending(d, e), subject[d] = v
          PROVE  Accounted(v, e)'
      <4>1. d # c
        BY <1>9, <3>4
      <4> QED BY <1>10, <3>4, <4>1 DEF Accounted
    <3> QED BY <2>2, <3>1, <3>2, <3>3, <3>4 DEF Accounted
  <2> QED BY <1>8, <2>1, <2>2, BelievesKept
<1>15. ASSUME NEW e \in Conns PROVE Misses(e)'
  <2>1. pc'[e] = "reply" /\ req'[e].op = "online" => pc[e] = "reply" /\ req'[e] = req[e]
    BY <1>4, <1>10
  <2> QED BY <1>7, <1>8, <2>1, MissesKept
<1>16. ASSUME NEW v \in Users PROVE OnlineEntry(v)'
  <2> SUFFICES ASSUME v \in OnlineUsers(session)'
               PROVE  \E d \in Conns :
                        /\ session'[uidSession'[v]].con = d
                        /\ \/ pc'[d] = "inssock"
                           \/ sockSession'[d] = uidSession'[v] /\ Staying(d)'
    BY DEF OnlineEntry
  <2>1. v \in OnlineUsers(session) /\ v # u /\ uidSession[v] \in Blocks
    BY <1>7 DEF OnlineUsers
  <2>2. PICK d \in Conns : /\ session[uidSession[v]].con = d
                           /\ \/ pc[d] = "inssock"
                              \/ sockSession[d] = uidSession[v] /\ Staying(d)
    BY <2>1 DEF PresenceInv, OnlineEntry
  <2>3. d # c
    BY <1>1, <1>3, <1>6, <2>1, <2>2
  <2>4. Staying(d) => Staying(d)'
    BY <1>10, <2>3 DEF Staying
  <2> QED BY <1>5, <1>6, <1>10, <2>1, <2>2, <2>3, <2>4
<1>17. OneIsTold'
  BY <1>8 DEF OneIsTold, PresenceInv
<1> QED BY <1>12, <1>13, <1>14, <1>15, <1>16, <1>17 DEF PresenceInv, PresencePart

(* Nobody is there at first.                                                 *)
LEMMA PresenceInit ==
  ASSUME Init
  PROVE  PresenceInv
<1>1. \A c \in Conns : /\ pc[c] = "none" /\ as[c] = NoUser /\ view[c] = {} /\ list[c] = {}
                       /\ c \notin listed /\ sockSession[c] = Absent
  BY DEF Init, SessionInit
<1>2. OnlineUsers(session) = {}
  BY SessionAssumption DEF Init, SessionInit, OnlineUsers
<1>3. \A c \in Conns : ~LoggedIn(c)
  BY <1>1 DEF LoggedIn
<1>4. ASSUME NEW c \in Conns PROVE PresencePart(c)
  <2>1. Announced(c)
    BY <1>1 DEF Announced, Placing, Placed
  <2>2. InTables(c)
    BY <1>1, SessionAssumption DEF InTables
  <2>3. Believes(c) /\ Misses(c)
    BY <1>1, <1>3 DEF Believes, Misses
  <2> QED BY <2>1, <2>2, <2>3 DEF PresencePart
<1> QED BY <1>2, <1>3, <1>4 DEF PresenceInv, OnlineEntry, OneIsTold

LEMMA PresenceStands ==
  ASSUME TypeInv, PresenceInv, NullCrash \/ UNCHANGED vars
  PROVE  PresenceInv'
<1>1. UNCHANGED <<uidSession, sockSession, session, as, view, listed, got, list, todo, work, shut,
                  subject, chan, peer, pc, req, mine, old>>
  BY DEF NullCrash, vars, sessionVars, clientVars, localVars
<1>2. OnlineUsers(session)' = OnlineUsers(session)
  BY <1>1 DEF OnlineUsers
<1>3. /\ \A c \in Conns : (LoggedIn(c)' <=> LoggedIn(c)) /\ (Placing(c)' <=> Placing(c))
      /\ \A c \in Conns : (Placed(c)' <=> Placed(c)) /\ (Parting(c)' <=> Parting(c))
      /\ \A c, d \in Conns : Pending(c, d)' <=> Pending(c, d)
      /\ \A c \in Conns : (Staying(c)' <=> Staying(c)) /\ (InTables(c)' <=> InTables(c))
  BY <1>1 DEF LoggedIn, Leaving, Open, Placing, Placed, Parting, Pending, Staying, InTables
<1>4. \A u, c : c \in Conns => (Accounted(u, c)' <=> Accounted(u, c))
  BY <1>1, <1>2, <1>3 DEF Accounted
<1>5. ASSUME NEW c \in Conns PROVE PresencePart(c)'
  <2>1. Announced(c)'
    BY <1>1, <1>3 DEF PresenceInv, PresencePart, Announced, Notice
  <2>2. Believes(c)'
    BY <1>1, <1>3, <1>4 DEF PresenceInv, PresencePart, Believes
  <2>3. Misses(c)'
    BY <1>1, <1>2, <1>3 DEF PresenceInv, PresencePart, Misses
  <2> QED BY <1>3, <2>1, <2>2, <2>3 DEF PresenceInv, PresencePart
<1>6. \A u \in Users : OnlineEntry(u)'
  BY <1>1, <1>2, <1>3 DEF PresenceInv, OnlineEntry
<1>7. OneIsTold'
  BY <1>1, <1>3 DEF PresenceInv, OneIsTold
<1> QED BY <1>5, <1>6, <1>7 DEF PresenceInv

LEMMA PresenceNext ==
  ASSUME Regular, TypeInv, LoginInv, ChatInv, PresenceInv, [Next]_vars
  PROVE  PresenceInv'
<1>1. CASE NullCrash \/ UNCHANGED vars
  BY <1>1, PresenceStands
<1>2. CASE Next /\ ~NullCrash
  <2>1. ASSUME NEW c \in Conns, \/ Receive(c) \/ ReceiveEof(c) \/ Reply(c) \/ VisitNext(c)
                                \/ Joined(c) \/ GetOnline(c)
        PROVE  PresenceInv'
    BY <1>2, <2>1, ReceivePresence, ReceiveEofPresence, ReplyPresence, VisitNextPresence,
       JoinedPresence, GetOnlinePresence
  <2>2. ASSUME NEW c \in Conns, Login(c) \/ Replace(c) \/ EraseOld(c) \/ InsertUid(c) \/ InsertSock(c)
        PROVE  PresenceInv'
    BY <1>2, <2>2, LoginPresence, ReplacePresence, NothingToErase, InsertUidPresence,
       InsertSockPresence
  <2>3. ASSUME NEW c \in Conns, Lookup(c) \/ GoLock(c) \/ WaitLock(c) \/ PushChat(c) \/ UnPush(c)
        PROVE  PresenceInv'
    BY <1>2, <2>3, LookupPresence, GoLockPresence, WaitLockPresence, PushChatPresence,
       UnPushPresence
  <2>4. ASSUME NEW c \in Conns, Disconnect(c) \/ Detach(c) \/ EraseSock(c) \/ Destroy(c)
        PROVE  PresenceInv'
    BY <1>2, <2>4, LeavePresence, DisconnectPresence, DetachPresence, EraseSockPresence,
       DestroyPresence
  <2>5. ASSUME NEW c \in Conns, NEW d \in Conns, Worker(c, d)
        PROVE  PresenceInv'
    BY <1>2, <2>5, WorkerPresence
  <2>6. ASSUME NEW c \in Conns, Accept(c) \/ ClientRequest(c) \/ ClientClose(c)
        PROVE  PresenceInv'
    BY <1>2, <2>6, AcceptPresence, ClientRequestPresence, ClientClosePresence
  <2> QED BY <1>2, <2>1, <2>2, <2>3, <2>4, <2>5, <2>6 DEF Next, Server, Client, Listener
<1> QED BY <1>1, <1>2

LEMMA PresenceInvariant ==
  ASSUME Regular, SerialLogin
  PROVE  Spec => [](TypeInv /\ LoginInv /\ ChatInv /\ PresenceInv)
<1>1. Init => TypeInv /\ LoginInv /\ ChatInv /\ PresenceInv
  BY TypeInit, LoginInit, ChatInit, PresenceInit
<1>2. TypeInv /\ LoginInv /\ ChatInv /\ PresenceInv /\ [Next]_vars
        => (TypeInv /\ LoginInv /\ ChatInv /\ PresenceInv)'
  BY TypeNext, LoginNext, ChatStep, PresenceNext
<1> QED BY <1>1, <1>2, PTL DEF Spec

(* createSession sends its notices before the maps know the session, and     *)
(* whoever logs in at the same time is not told.  When logins come one at a  *)
(* time and every user has one client, of two clients that are logged in one *)
(* has been told about the other, whatever else is going on.                 *)
THEOREM OneHearsOfTheOther ==
  ASSUME Regular, SerialLogin
  PROVE  Spec => []OneIsTold
<1>1. PresenceInv => OneIsTold
  BY DEF PresenceInv
<1> QED BY <1>1, PresenceInvariant, PTL

(* Then the online list and the notices together miss no arrival and no      *)
(* departure, although list, notices and tables are read and written without *)
(* a common lock: when the server has nothing left to do, a client that has  *)
(* fetched the list knows exactly who is logged in.                          *)
THEOREM ViewsExact ==
  ASSUME Regular, SerialLogin
  PROVE  Spec => []ViewExact
<1>1. TypeInv /\ LoginInv /\ ChatInv /\ PresenceInv => ViewExact
  <2> SUFFICES ASSUME TypeInv, LoginInv, ChatInv, PresenceInv, Quiet, NEW c \in Conns,
                      LoggedIn(c), c \in listed
               PROVE  view[c] \ {as[c]} = {as[d] : d \in {e \in Conns : LoggedIn(e)}} \ {as[c]}
    BY DEF ViewExact
  <2>1. \A d \in Conns : \/ pc[d] \in {"none", "gone"}
                         \/ pc[d] = "recv" /\ chan[d] = NoReq /\ Open(d)
    BY DEF Quiet
  <2>2. \A d \in Conns : ~Placing(d) /\ ~Parting(d)
    BY <2>1 DEF Placing, Parting
  <2>3. ASSUME NEW u \in OnlineUsers(session)
        PROVE  \E d \in Conns : LoggedIn(d) /\ as[d] = u
    <3>1. u \in Users /\ uidSession[u] \in Blocks
      BY DEF OnlineUsers
    <3>2. PICK d \in Conns : /\ session[uidSession[u]].con = d
                             /\ pc[d] = "inssock" \/ (sockSession[d] = uidSession[u] /\ Staying(d))
      BY <3>1 DEF PresenceInv, OnlineEntry
    <3>3. pc[d] = "recv" /\ Open(d)
      BY <2>1, <3>2 DEF Staying
    <3>4. as[d] = u
      <4>1. OwnerOf(d)
        BY Here
      <4>2. \/ as[d] = u
            \/ as[d] = NoUser /\ peer[d] = "closed"
            \/ as[d] = NoUser /\ pc[d] \in {"inssock", "reply"} /\ req[d].user = u
        BY <3>1, <3>2, <4>1 DEF OwnerOf
      <4> QED BY <3>3, <4>2 DEF Open
    <3> QED BY <3>1, <3>3, <3>4, SessionAssumption DEF LoggedIn, Leaving
  <2>4. ASSUME NEW d \in Conns, LoggedIn(d)
        PROVE  as[d] \in OnlineUsers(session)
    BY <2>4, LoggedInOnline
  <2>5. ASSUME NEW u \in view[c], u # as[c]
        PROVE  u \in OnlineUsers(session)
    BY <2>2, <2>5 DEF PresenceInv, PresencePart, Believes, Accounted
  <2>6. ASSUME NEW u \in OnlineUsers(session), u # as[c]
        PROVE  u \in view[c]
    BY <2>6 DEF PresenceInv, PresencePart, Misses
  <2> QED BY <2>3, <2>4, <2>5, <2>6
<1> QED BY <1>1, PresenceInvariant, PTL

===============================================================================
