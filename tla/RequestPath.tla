----------------------------- MODULE RequestPath ------------------------------
(* The path of a message (SendPath) on which the listener serves requests  *)
(* (Requests): what arrives is what was meant, in both directions, and     *)
(* every text fits the memory borrowed for it.                             *)
EXTENDS SendPath, Requests

(* What the database and the session tables may hold.                      *)
Users == [id : Numbers, name : Texts, department : Numbers, trueName : Texts]
Databases ==
  [userid : Numbers, users : Seq(Users), online : Seq(Numbers), exists : BOOLEAN, left : BOOLEAN]

(* The listener's sections are the requests a program writes.              *)
ASSUME RequestAssumption ==
  /\ NoList \notin ValuesTo(Depth) /\ Depth >= 3
  /\ \A s \in Sections(Listener) :
       s = Handle(s.fno, s.sent, s.db) /\ s.sent \in Messages /\ s.db \in Databases

-----------------------------------------------------------------------------
(* The listener has just locked, and serves a request.                     *)
Serving == doing[Listener] # None /\ mine[Listener] = <<>>
served == doing[Listener]

(* What a client wrote into a message is what the server's scanner finds,  *)
(* but for the body, which takes all that follows it; only a line that     *)
(* begins with a colon is refused.                                         *)
TextReceived ==
  Serving =>
    IF served.parsed.ok THEN served.parsed.fields = AsReceived(served.sent)
    ELSE \E i \in DOMAIN served.sent : served.sent[i].name = <<>>

(* A reply is a message the client can scan, and a list in it, names with  *)
(* quotes and newlines included, is the list of the server.                *)
ReplyReceived ==
  Serving =>
    LET text == BodyText(served.reply)
        got  == Parse(text)
    IN  /\ got = [ok |-> TRUE, fields |-> served.reply]
        /\ served.list # NoList => ParseValue(got.fields[1].val, 1) = Ok(served.list, Len(got.fields[1].val) + 1)

(* No text is longer than the memory borrowed for it: those of the printer *)
(* with their terminator, and the packages with their headers.             *)
TextFits ==
  Serving =>
    /\ served.list # NoList => \A v \in Parts[served.list] : Len(Text[v]) < Size(v)
    /\ Len(BodyText(served.reply)) <= BodyLen(served.reply)
=============================================================================
