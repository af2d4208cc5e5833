----------------------------- MODULE MCSendPath -----------------------------
(* Model-checking instance of SendPath: the listener serves the requests   *)
(* of Requests, others push notices and chat messages.                     *)
EXTENDS RequestPath

CONSTANTS l, p1, p2

(* The characters and the words of the requests.                           *)
MCChars ==
  {":", "\n", "\t", "\\", Quote, Control, "{", "[", ",", "]", "}", "n", "t", "u", "a", "b", "h", "x"}
  \cup {DigitChars[k] : k \in 1..10}
  \cup {"body", "name", "password", "userid", "toid", "fno", "reason", "stat", "userlist", "fail", "succ"}
  \cup {"id", "department", "true_name", "0004", "0006", "0007", "0009"}

MCPushers == {p1, p2}
MCSizes == 0..4000
MCMaxTurns(t) == IF t = Listener THEN 2 ELSE 1

(* Users whose names need escapes, lists that are empty or not.            *)
U(i, n) == [id |-> i, name |-> n, department |-> 0, trueName |-> n]
Db(uid, users, online, exists, left) ==
  [userid |-> uid, users |-> users, online |-> online, exists |-> exists, left |-> left]
Full  == Db(7, <<U(20, <<"\"", "\\", "\n", "n">>)>>, <<1, 20, 305>>, TRUE, FALSE)
Empty == Db(0, <<>>, <<>>, FALSE, TRUE)
One   == Db(10, <<U(0, <<Control, "\t">>)>>, <<0>>, TRUE, TRUE)

LoginText == <<Field("name", <<"a", "b">>), Field("password", <<":">>)>>
ChatText  == <<Field("userid", <<"1">>), Field("toid", <<"2">>), Field("body", <<"h", ":", "\n">>)>>
SelfText  == <<Field("userid", <<"2">>), Field("toid", <<"2">>), Field("body", <<>>)>>
NoTo      == <<Field("userid", <<"1">>), Field("body", <<"x">>), Field("toid", <<"2">>)>>
Broken    == <<[name |-> <<>>, val |-> <<"x">>]>>

Served ==
  {Handle(1, LoginText, db) : db \in {Full, Empty, One}} \cup {Handle(1, ChatText, Full)}
  \cup {Handle(fno, <<Field("x", <<>>)>>, db) : fno \in {2, 6}, db \in {Full, Empty, One}}
  \cup {Handle(8, ChatText, db) : db \in {Full, Empty}}
  \cup {Handle(8, SelfText, One), Handle(8, NoTo, Full), Handle(9, ChatText, One),
        Handle(8, Broken, Full)}

Notices == {Push(<<Field("userid", <<"1">>)>>), Push(AsReceived(ChatText))}
MCSections(t) == IF t = Listener THEN Served ELSE Notices

=============================================================================
