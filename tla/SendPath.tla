------------------------------ MODULE SendPath ------------------------------
(* Who uses the buffer pool and the socket of one connection, and when:    *)
(* its listener (clientconnection.cpp, _doListen) clears the pool after it *)
(* has unlocked the send mutex; a thread that pushes a message to the      *)
(* connection (fxserver.cpp, ___sendmsg and _send_message) clears it       *)
(* before. borrow() and clear() of linearmemorypool.cpp are walked step by *)
(* step, since they take no lock of their own.                             *)
EXTENDS LinearMemoryPool, SequencesExt, FiniteSets

CONSTANTS Listener, Pushers,
          Sections(_),   \* what a thread may do while it holds the mutex
          MaxTurns(_),   \* bound: how often a thread takes the mutex
          None

Threads == {Listener} \cup Pushers

(* A section says what it borrows and how many packages it sends.          *)
ASSUME SendAssumption ==
  /\ Listener \notin Pushers /\ None \notin Threads
  /\ \A t \in Threads : \A s \in Sections(t) : s.needs \in Seq(Nat) /\ s.packages \in Nat

VARIABLES holder,   \* of _send_mutex
          pc, doing, \* where a thread stands, and in which section
          at,       \* the part of the chain its borrow() or clear() is at
          mine,     \* the chunks it has borrowed in this section
          sent,     \* how many packages of its message it has sent
          turns, wire, socket,
          disturbed, \* history: threads in whose section the listener cleared
          alive
sendVars == <<holder, pc, doing, at, mine, sent, turns, wire, socket, disturbed, alive>>
vars == <<linearVars, sendVars>>

Needed(t) == doing[t].needs[Len(mine[t]) + 1]
Done(t)   == Len(mine[t]) = Len(doing[t].needs)

Init ==
  /\ LinearInit
  /\ holder = None /\ socket = "up" /\ wire = <<>> /\ disturbed = {} /\ alive = TRUE
  /\ pc = [t \in Threads |-> "idle"]
  /\ doing \in [Threads -> {None}]
  /\ at = [t \in Threads |-> 1] /\ sent = [t \in Threads |-> 0]
  /\ mine = [t \in Threads |-> <<>>]
  /\ turns = [t \in Threads |-> 0]

-----------------------------------------------------------------------------
(* Mutation: the mutex is not looked at.                                   *)
Always == TRUE

Free == holder = None

Lock(t) ==
  /\ pc[t] = "idle" /\ Free /\ turns[t] < MaxTurns(t)
  /\ holder' = t
  /\ turns' = [turns EXCEPT ![t] = @ + 1]
  /\ \E s \in Sections(t) : doing' = [doing EXCEPT ![t] = s]
  /\ pc' = [pc EXCEPT ![t] = "look"]
  /\ UNCHANGED <<linearVars, at, mine, sent, wire, socket, disturbed, alive>>

(* borrow(): a part is looked at; the last one without room gets a         *)
(* successor; the next one is looked at.                                   *)
Look(t) ==
  /\ pc[t] = "look" /\ ~Done(t) /\ at[t] <= Len(parts)
  /\ IF Fits(parts[at[t]], Needed(t))
     THEN pc' = [pc EXCEPT ![t] = "take"] /\ UNCHANGED <<parts, at>>
     ELSE /\ parts' = IF at[t] = Len(parts) THEN Append(parts, NewPart(Needed(t))) ELSE parts
          /\ at' = [at EXCEPT ![t] = @ + 1]
          /\ UNCHANGED pc
  /\ UNCHANGED <<chunks, holder, doing, mine, sent, turns, wire, socket, disturbed, alive>>

Take(t) ==
  /\ pc[t] = "take" /\ at[t] <= Len(parts)
  /\ LET c == ChunkAt(parts, at[t], Needed(t))
     IN  /\ mine' = [mine EXCEPT ![t] = Append(@, c)]
         /\ chunks' = chunks \cup {c}
  /\ parts' = Bump(parts, at[t], Needed(t))
  /\ at' = [at EXCEPT ![t] = 1]
  /\ pc' = [pc EXCEPT ![t] = "look"]
  /\ UNCHANGED <<holder, doing, sent, turns, wire, socket, disturbed, alive>>

(* The part has been destroyed meanwhile; whatever happens is out of the   *)
(* model, which ends here.                                                 *)
UseFreed(t) ==
  /\ pc[t] \in {"look", "take"} /\ ~Done(t) /\ at[t] > Len(parts)
  /\ alive' = FALSE
  /\ UNCHANGED <<linearVars, holder, pc, doing, at, mine, sent, turns, wire, socket, disturbed>>

(* _doSend: package after package while the socket takes them.             *)
Send(t) ==
  /\ pc[t] = "look" /\ Done(t) /\ sent[t] < doing[t].packages /\ socket = "up"
  /\ sent' = [sent EXCEPT ![t] = @ + 1]
  /\ wire' = Append(wire, [thread |-> t, no |-> sent[t] + 1, sum |-> doing[t].packages])
  /\ UNCHANGED <<linearVars, holder, pc, doing, at, mine, turns, socket, disturbed, alive>>

(* All packages are sent, or the third try has failed. *)
(* Mutation: _doSend ends with the first package that is taken.            *)
SentOne(t) == Done(t) /\ (sent[t] > 0 \/ socket = "down")

SentAll(t) == Done(t) /\ (sent[t] = doing[t].packages \/ socket = "down")
(* Mutation: a pusher that leaves the pool as it is.                       *)
AfterSendUnlock(t) == "unlock"

AfterSend(t) == IF t = Listener THEN "unlock" ELSE "drop"

EndSend(t) ==
  /\ pc[t] = "look" /\ SentAll(t)
  /\ pc' = [pc EXCEPT ![t] = AfterSend(t)]
  /\ UNCHANGED <<linearVars, holder, doing, at, mine, sent, turns, wire, socket, disturbed, alive>>

(* clear(): the chain behind the first part goes, then the pointer is      *)
(* reset.                                                                  *)
Disturb(t) == disturbed' = IF t = Listener THEN disturbed \cup ({holder} \ {None}) ELSE disturbed
Drop(t) ==
  /\ pc[t] = "drop"
  /\ parts' = <<parts[1]>>
  /\ chunks' = {c \in chunks : c.part = 1}
  /\ Disturb(t)
  /\ pc' = [pc EXCEPT ![t] = "reset"]
  /\ UNCHANGED <<holder, doing, at, mine, sent, turns, wire, socket, alive>>

Cleared == [parts EXCEPT ![1].used = 0]
Reset(t) ==
  /\ pc[t] = "reset"
  /\ parts' = Cleared
  /\ chunks' = {c \in chunks : c.part > 1}
  /\ Disturb(t)
  /\ pc' = [pc EXCEPT ![t] = IF t = Listener THEN "idle" ELSE "unlock"]
  /\ UNCHANGED <<holder, doing, at, mine, sent, turns, wire, socket, alive>>

Unlock(t) ==
  /\ pc[t] = "unlock"
  /\ holder' = None
  /\ disturbed' = disturbed \ {t}
  /\ mine' = [mine EXCEPT ![t] = <<>>] /\ sent' = [sent EXCEPT ![t] = 0]
  /\ doing' = [doing EXCEPT ![t] = None]
  /\ pc' = [pc EXCEPT ![t] = IF t = Listener THEN "drop" ELSE "idle"]
  /\ UNCHANGED <<linearVars, at, turns, wire, socket, alive>>

(* The client or the network goes; every later send fails.                 *)
Fail == socket = "up" /\ socket' = "down"
        /\ UNCHANGED <<linearVars, holder, pc, doing, at, mine, sent, turns, wire, disturbed, alive>>

Step(t) == \/ Lock(t) \/ Look(t) \/ Take(t) \/ UseFreed(t) \/ Send(t) \/ EndSend(t)
           \/ Drop(t) \/ Reset(t) \/ Unlock(t)
Next == alive /\ (Fail \/ \E t \in Threads : Step(t))
Spec == Init /\ [][Next]_vars

-----------------------------------------------------------------------------
(* The chunks of a section are live, and no two of them share a byte.      *)
Safe(t) ==
  /\ Range(mine[t]) \subseteq chunks
  /\ \A i, j \in DOMAIN mine[t] : i # j => ~Overlap(mine[t][i], mine[t][j])

(* Whoever holds the mutex keeps its memory until it unlocks, unless the   *)
(* listener's late clear() (clientconnection.cpp:125) falls into its       *)
(* section; the listener itself is never the victim.                       *)
Using(t) == alive /\ holder = t /\ pc[t] \in {"look", "take"}
SectionSafe == \A t \in Threads : Using(t) /\ t \notin disturbed => Safe(t)

(* However late clears and pushes meet, the listener starts each message   *)
(* with an empty pool: the pool of a connection does not grow with time.   *)
StartsEmpty ==
  (alive /\ holder = Listener /\ mine[Listener] = <<>> /\ pc[Listener] = "look" /\ at[Listener] = 1)
     => parts = <<[size |-> Clamp(Base), used |-> 0]>>

(* The packages of a message follow each other on the socket, whoever else *)
(* sends (the send mutex and _doSend's loop).                              *)
Whole ==
  \A i \in 2..Len(wire) :
    IF wire[i].no = 1 THEN wire[i - 1].no = wire[i - 1].sum
    ELSE wire[i] = [wire[i - 1] EXCEPT !.no = @ + 1]
=============================================================================
