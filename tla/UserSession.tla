----------------------------- MODULE UserSession -----------------------------
(***************************************************************************)
(* The session tables of the chat server (server/src/usersession.cpp):     *)
(* session objects in blocks of a LIFO pool, found through two maps, by    *)
(* user id and by socket.  No mutex protects them.  Each operator below is *)
(* one access of a table or of an object as the code makes it; the threads *)
(* that interleave these accesses are in ChatServer.                       *)
(*                                                                         *)
(* A map entry is Absent, a session block, or Null: operator[] of std::map *)
(* inserts a null pointer for a key it does not find.                      *)
(***************************************************************************)
EXTENDS Naturals, Sequences, FiniteSetsExt, SequencesExt

CONSTANTS
  Users,     \* user ids; positive numbers, std::map visits them in order
  Conns,     \* client connections, each with a socket of its own
  Blocks,    \* blocks of UserSession::_pool
  Absent,    \* no entry in a map
  Null,      \* nullptr
  NoUser     \* no user id

ASSUME SessionAssumption ==
  /\ Users \subseteq Nat \ {0} /\ IsFiniteSet(Users)
  /\ IsFiniteSet(Blocks)
  /\ NoUser \notin Users
  /\ Null \notin Blocks \cup Conns
  /\ Absent \notin Blocks \cup {Null}

VARIABLES
  uidSession,   \* _uid_session_map
  sockSession,  \* _sockfd_session_map
  session,      \* the session object in each block: user, connection, online
  freeBlocks    \* the stack of UserSession::_pool, top first

sessionVars == <<uidSession, sockSession, session, freeBlocks>>

Session == [user : Users \cup {NoUser}, con : Conns \cup {Null}, online : BOOLEAN]

SessionTypeOK ==
  /\ uidSession \in [Users -> Blocks \cup {Absent, Null}]
  /\ sockSession \in [Conns -> Blocks \cup {Absent, Null}]
  /\ session \in [Blocks -> Session]
  /\ freeBlocks \in Seq(Blocks)

SessionInit ==
  /\ uidSession = [u \in Users |-> Absent]
  /\ sockSession = [c \in Conns |-> Absent]
  /\ session = [b \in Blocks |-> [user |-> NoUser, con |-> Null, online |-> FALSE]]
  /\ freeBlocks = SetToSeq(Blocks)

-----------------------------------------------------------------------------
(* std::map                                                                *)

(* insert() keeps the entry that is there.                                 *)
Insert(map, key, b) ==
  [map EXCEPT ![key] = IF map[key] = Absent THEN b ELSE map[key]]

(* operator[] leaves a null pointer behind.                                *)
Touch(map, key) == Insert(map, key, Null)

(* Mutation: erase() is forgotten.                                         *)
EraseNothing(map, key) == map
Erase(map, key) == [map EXCEPT ![key] = Absent]

(* A walk over _uid_session_map that calls online() on every entry ends at *)
(* a null one.                                                             *)
WalkHitsNull == \E u \in Users : uidSession[u] = Null

(* getOnlineList: the users whose sessions say online.                     *)
OnlineUsers(sess) ==
  {u \in Users : uidSession[u] \in Blocks /\ sess[uidSession[u]].online}

(* The order of a walk over _uid_session_map.                              *)
InOrder(S) ==
  CHOOSE f \in [1 .. Cardinality(S) -> S] :
    \A i, j \in 1 .. Cardinality(S) : i < j => f[i] < f[j]

(* Mutation: the sessions are collected instead of their connections.      *)
OnlineSessions(sess) ==
  LET us == InOrder(OnlineUsers(sess))
  IN  [i \in DOMAIN us |-> uidSession[us[i]]]

(* getAllOnlineConnections: their connections, in the order of user ids.   *)
OnlineConnections(sess) ==
  LET us == InOrder(OnlineUsers(sess))
  IN  [i \in DOMAIN us |-> sess[uidSession[us[i]]].con]

(* getSessionByUid: the session of a user, if there is one.                *)
(* Mutation: the first user above the id is found (upper_bound).           *)
SessionAbove(u) ==
  LET above == {v \in Users : v > u}
  IN  IF above = {} THEN Absent ELSE uidSession[Min(above)]
SessionByUid(u) == uidSession[u]

-----------------------------------------------------------------------------
(* The objects.                                                            *)

(* createSession: a block from the pool, constructed and set online.       *)
(* Mutation: toOnline() is not called.                                     *)
NewSessionOffline(c, u) == [user |-> u, con |-> c, online |-> FALSE]
NewSession(c, u) == [user |-> u, con |-> c, online |-> TRUE]

(* toOffline() of connectionDisconnected.                                  *)
(* Mutation: the flag is left alone.                                       *)
StillOnline(b) == session
Offline(b) == [session EXCEPT ![b].online = FALSE]

(* getSessionBySockFd(fd)->user() and getSessionByUid(id)->connection()    *)
(* with a pointer that may be stale: a restored block keeps its contents   *)
(* until it is borrowed again.                                             *)
UserOf(b) == session[b].user
ConnOf(b) == session[b].con
=============================================================================
