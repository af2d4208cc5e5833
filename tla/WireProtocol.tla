---------------------------- MODULE WireProtocol ----------------------------
(***************************************************************************)
(* One direction of a connection: a sender that cuts messages into         *)
(* packages (Packaging) and writes each as two send() calls, a byte        *)
(* stream, and a reader.  The reader is the server's _doListen/_doRead     *)
(* (clientconnection.cpp), which takes what recv() gives it, or the        *)
(* client's _doRead/whileread (fxconnection.cpp), which waits until all    *)
(* it asks for is there, or gives up.                                      *)
(***************************************************************************)
EXTENDS Packaging, SequencesExt

CONSTANTS MaxMsgs,      \* bound: messages one sender sends
          SplitPaged    \* may a message of several packages reach the server
                        \* in other pieces than send() wrote?

ASSUME WireAssumption == MaxMsgs \in Nat /\ SplitPaged \in BOOLEAN

VARIABLES reader,     \* "server" or "client": who reads
          spc,        \* where the sender stands
          nsent,      \* messages handed to send()
          page,       \* the package being sent
          sent,       \* history: messages that were cut into packages
          closed,     \* the sender closed the socket or died
          flight,     \* pieces written and not yet arrived
          arrived,    \* bytes in the reader's socket
          rpc,        \* where the reader stands
          hdr,        \* the header of the current package
          need,       \* body bytes of the package still to come
          room,       \* size of the body's buffer (first bodylength)
          body,       \* bytes written to it
          fno,        \* function number of the message
          got         \* history: messages _doRead returned

sendVars == <<spc, nsent, page, sent>>
readVars == <<rpc, hdr, need, room, body, fno, got>>
vars == <<packVars, reader, sendVars, closed, flight, arrived, readVars>>

NoMessage == [fno |-> 0, ends |-> <<>>]
NoHeader == [len |-> 0, pagesize |-> 0, pageno |-> 0, fno |-> 0]

-----------------------------------------------------------------------------
(* The sender: FxConnection::send, ClientConnection::_doSend.              *)

(* toPackages of a message of too many packages returns 0: there is        *)
(* nothing to send, and the caller is told of success.                     *)
SendTooLong ==
  /\ spc = "idle" /\ nsent < MaxMsgs
  /\ \E m \in Messages : PackageSum(m) > BlockMax
  /\ nsent' = nsent + 1
  /\ UNCHANGED <<packVars, reader, spc, page, sent, closed, flight, arrived, readVars>>

SendBegin ==
  /\ spc = "idle" /\ nsent < MaxMsgs
  /\ \E m \in Messages :
       /\ PackageSum(m) <= BlockMax
       /\ StartPackages(m)
       /\ sent' = Append(sent, m)
  /\ spc' = "pack" /\ nsent' = nsent + 1 /\ page' = 1
  /\ UNCHANGED <<reader, closed, flight, arrived, readVars>>

SendPack ==
  /\ spc = "pack"
  /\ AddToBody
  /\ UNCHANGED <<reader, sendVars, closed, flight, arrived, readVars>>

SendReady ==
  /\ spc = "pack" /\ Packed
  /\ spc' = "header"
  /\ UNCHANGED <<packVars, reader, nsent, page, sent, closed, flight, arrived, readVars>>

(* _fx_tcp_send: the eight bytes of the header, then the rest.             *)
SendHeader ==
  /\ spc = "header"
  /\ flight' = Append(flight, SubSeq(Package(page), 1, 8))
  /\ spc' = "body"
  /\ UNCHANGED <<packVars, reader, nsent, page, sent, closed, arrived, readVars>>

(* A client waits for the server's reply; a server goes on.                *)
SendBody ==
  /\ spc = "body"
  /\ flight' = Append(flight, SubSeq(Package(page), 9, plengths[page]))
  /\ IF page < PackageSum(msg)
     THEN page' = page + 1 /\ spc' = "header"
     ELSE page' = page /\ spc' = IF reader = "server" THEN "reply" ELSE "idle"
  /\ UNCHANGED <<packVars, reader, nsent, sent, closed, arrived, readVars>>

SendReplied ==
  /\ spc = "reply" /\ Len(got) = Len(sent)
  /\ spc' = "idle"
  /\ UNCHANGED <<packVars, reader, nsent, page, sent, closed, flight, arrived, readVars>>

(* The sender goes away at any time.                                       *)
Close ==
  /\ spc # "closed"
  /\ spc' = "closed" /\ closed' = TRUE
  /\ UNCHANGED <<packVars, reader, nsent, page, sent, flight, arrived, readVars>>

-----------------------------------------------------------------------------
(* The stream keeps the order of the bytes, not the pieces.                *)

MaySplit == reader = "client" \/ SplitPaged \/ PackageSum(msg) = 1

Arrive ==
  /\ flight # <<>>
  /\ LET piece == Head(flight) IN
     \E k \in (IF MaySplit THEN 1 .. Len(piece) ELSE {Len(piece)}) :
       /\ arrived' = arrived \o SubSeq(piece, 1, k)
       /\ flight' = IF k = Len(piece) THEN Tail(flight)
                    ELSE <<SubSeq(piece, k + 1, Len(piece))>> \o Tail(flight)
  /\ UNCHANGED <<packVars, reader, sendVars, closed, readVars>>

-----------------------------------------------------------------------------
(* The reader.                                                             *)

Eof == closed /\ flight = <<>> /\ arrived = <<>>

Parse(b) == [len |-> Get(b[1], b[2]), pagesize |-> Get(b[3], b[4]),
             pageno |-> Get(b[5], b[6]), fno |-> Get(b[7], b[8])]

(* Mutation: room for one package only.                                    *)
RoomForOne(h) == h.len

(* The buffer for the whole message, borrowed at its first package.        *)
RoomFor(h) == h.len * h.pagesize

(* A header is read, and with the first one the buffer is borrowed.        *)
ReadHeader ==
  /\ rpc \in {"first", "next"}
  /\ Len(arrived) >= 8
  /\ LET h == Parse(arrived) IN
       /\ hdr' = h
       /\ need' = h.len
       /\ IF rpc = "first"
          THEN room' = RoomFor(h) /\ body' = <<>> /\ fno' = h.fno
          ELSE UNCHANGED <<room, body, fno>>
  /\ arrived' = SubSeq(arrived, 9, Len(arrived))
  /\ rpc' = "body"
  /\ UNCHANGED <<packVars, reader, sendVars, closed, flight, got>>

(* Fewer than eight bytes.  The server peeks at the first header, and      *)
(* drops the connection (too short, or closed).  It does not look at what  *)
(* recv() returns for later ones, the client not at whileread's timeout:   *)
(* the header is then whatever the buffer held, and the model ends.        *)
ReadShortHeader ==
  /\ rpc \in {"first", "next"}
  /\ Len(arrived) < 8
  /\ reader = "client" \/ arrived # <<>> \/ Eof
  /\ arrived' = <<>>
  /\ rpc' = IF reader = "server" /\ rpc = "first" THEN "dropped" ELSE "blind"
  /\ UNCHANGED <<packVars, reader, sendVars, closed, flight, hdr, need, room, body, fno, got>>

(* What one read may take: recv() is asked for msg_body_length bytes each  *)
(* time, whatever is still needed, and gives what there is; whileread      *)
(* takes all or nothing.                                                   *)
Takes == IF reader = "server" THEN Min({hdr.len, Len(arrived)})
         ELSE IF Len(arrived) >= hdr.len THEN hdr.len ELSE 0

ReadBody ==
  /\ rpc = "body" /\ need > 0 /\ Takes > 0
  /\ body' = body \o SubSeq(arrived, 1, Takes)
  /\ arrived' = SubSeq(arrived, Takes + 1, Len(arrived))
  /\ need' = need - Takes
  /\ UNCHANGED <<packVars, reader, sendVars, closed, flight, rpc, hdr, room, fno, got>>

(* FXM_SOCKET_ERR: the peer is gone, or the client's patience is.          *)
ReadFail ==
  /\ rpc = "body" /\ need > 0 /\ Takes = 0
  /\ reader = "client" \/ Eof
  /\ rpc' = "dropped"
  /\ UNCHANGED <<packVars, reader, sendVars, closed, flight, arrived, hdr, need, room, body, fno, got>>

MorePages == hdr.pagesize > hdr.pageno

ReadNextPage ==
  /\ rpc = "body" /\ need <= 0 /\ MorePages
  /\ rpc' = "next"
  /\ UNCHANGED <<packVars, reader, sendVars, closed, flight, arrived, hdr, need, room, body, fno, got>>

(* Mutation: the buffer is taken for full.                                 *)
LengthOfRoom == room

(* bodylength, corrected by what the last page falls short.                *)
BodyLength == IF hdr.pagesize > 1 /\ hdr.pagesize = hdr.pageno
              THEN room - (BlockSize - hdr.len) ELSE room

(* _doRead returns; bytes it did not write are whatever was there.         *)
ReadDone ==
  /\ rpc = "body" /\ need <= 0 /\ ~MorePages
  /\ got' = Append(got, [fno |-> fno,
                         body |-> [i \in 1 .. BodyLength |->
                                     IF i <= Len(body) THEN body[i] ELSE 0]])
  /\ rpc' = "first"
  /\ UNCHANGED <<packVars, reader, sendVars, closed, flight, arrived, hdr, need, room, body, fno>>

-----------------------------------------------------------------------------
Init ==
  /\ msg = NoMessage /\ part = 1 /\ pos = 0 /\ current = 0 /\ pageno = 1
  /\ buffer = <<>> /\ packages = <<>> /\ plengths = <<>>
  /\ reader \in {"server", "client"}
  /\ spc = "idle" /\ nsent = 0 /\ page = 1 /\ sent = <<>>
  /\ closed = FALSE /\ flight = <<>> /\ arrived = <<>>
  /\ rpc = "first" /\ hdr = NoHeader /\ need = 0 /\ room = 0
  /\ body = <<>> /\ fno = 0 /\ got = <<>>

Sender == SendTooLong \/ SendBegin \/ SendPack \/ SendReady \/ SendHeader
            \/ SendBody \/ SendReplied
Reader == ReadHeader \/ ReadShortHeader \/ ReadBody \/ ReadFail
            \/ ReadNextPage \/ ReadDone

Next == Sender \/ Close \/ Arrive \/ Reader

(* The sender's thread runs on, the network delivers, the reader reads;    *)
(* nothing makes the sender close, nor the client give up.                 *)
Fairness == /\ WF_vars(Sender) /\ WF_vars(Arrive)
            /\ WF_vars(ReadHeader \/ ReadBody \/ ReadNextPage \/ ReadDone)
            /\ WF_vars(reader = "server" /\ (ReadShortHeader \/ ReadFail))

Spec == Init /\ [][Next]_vars
FairSpec == Spec /\ Fairness

-----------------------------------------------------------------------------
(* Sequences of bytes, and the counters within their bounds; packages and  *)
(* plengths, arrays of package_sum elements, are written within them.      *)
TypeOK ==
  /\ reader \in {"server", "client"}
  /\ spc \in {"idle", "pack", "header", "body", "reply", "closed"}
  /\ rpc \in {"first", "next", "body", "dropped", "blind"}
  /\ msg \in Messages \cup {NoMessage}
  /\ pos \in Nat /\ current \in 0 .. BlockSize
  /\ msg # NoMessage => pageno \in 1 .. PackageSum(msg)
  /\ nsent \in 0 .. MaxMsgs /\ page \in 1 .. BlockMax /\ closed \in BOOLEAN
  /\ buffer \in Seq(0 .. 255) /\ arrived \in Seq(0 .. 255) /\ body \in Seq(0 .. 255)
  /\ \A k \in DOMAIN flight : flight[k] \in Seq(0 .. 255)
  /\ need \in Int /\ room \in Nat

(* When toPackages returns, the packages tile its buffer: there are        *)
(* package_sum of them, each begins where the one before it ends, all but  *)
(* the last are full, and together they hold the body and its headers.     *)
Paged ==
  spc \in {"header", "body"} =>
    LET sum == PackageSum(msg) IN
      /\ DOMAIN packages = 1 .. sum /\ DOMAIN plengths = 1 .. sum
      /\ packages[1] = 1
      /\ \A k \in 1 .. sum - 1 : /\ packages[k + 1] = packages[k] + plengths[k]
                                 /\ plengths[k] = BlockSize + 8
      /\ packages[sum] + plengths[sum] = Len(buffer) + 1
      /\ Len(buffer) = FullLen(msg) + 8 * sum

(* _doRead never writes past the buffer it borrowed for the message.       *)
InBuffer == Len(body) <= room

Whole(m) == [fno |-> m.fno, body |-> Body(m, 0, FullLen(m))]

(* What _doRead returns is what was sent, in order, and neither cut nor    *)
(* lengthened: sends and reads may overlap, a connection may close.        *)
Intact == /\ Len(got) <= Len(sent)
          /\ \A k \in DOMAIN got : got[k] = Whole(sent[k])

(* "Large messages can be sent in blocks, in order, from the first to the  *)
(* last" (protocol document, lines 95-96), however the stream cuts them.   *)
BlocksIntact == Intact

(* A message that was sent is read, unless the sender goes away or the     *)
(* reader gave the connection up.                                          *)
Delivered ==
  \A k \in 1 .. MaxMsgs :
    Len(sent) >= k ~> (Len(got) >= k \/ closed \/ rpc \in {"dropped", "blind"})
=============================================================================
