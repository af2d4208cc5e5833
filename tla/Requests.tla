------------------------------ MODULE Requests ------------------------------
(* What the server makes of one request (clientconnection.cpp, _doListen;  *)
(* fxserver.cpp, doOperation): its text is parsed, the operation answers   *)
(* with a message, the message is laid out in packages; and the sizes that *)
(* each of these borrows from the connection's pool. A word counts as one  *)
(* character.                                                              *)
EXTENDS MessageText, JsonText

CONSTANTS BlockSize,  \* FXMESSAGE_BLOCK_SIZE
          NoList      \* the reply has no list

(* sizeof FxMessage, FxMessageParam, login_pack and msg_pack, User.        *)
Message == 24
Param == 32
Pack == 16
User == 248
Field(n, v) == [name |-> <<n>>, val |-> v]
ASSUME WordsAssumption ==
  {"fno", "fail", "reason", "0004", "0006", "0007", "0009", "name", "stat", "succ", "userid",
   "userlist", "id", "department", "true_name"} \subseteq Chars

Failure(reason) == <<Field("fno", <<"fail">>), Field("reason", <<reason>>)>>

(* A parameter: getName and getVal copy it, the last of a name counts. An  *)
(* unset member of login_pack or msg_pack is what the memory held before   *)
(* ("left"), so a check for null passes a parameter that is not there.     *)
Places(fields, n) == {i \in 1..Len(fields) : fields[i].name = <<n>>}
Has(fields, n)    == Places(fields, n) # {}
Val(fields, n)    == fields[Max(Places(fields, n))].val
CopySizes(fields) ==
  FlattenSeq([i \in DOMAIN fields |-> <<Len(fields[i].name) + 1, Len(fields[i].val) + 1>>])

Answer(err, reply, sizes) == [err |-> err, reply |-> reply, sizes |-> sizes, list |-> NoList]
Refuse(err, reason, sizes) == Answer(err, Failure(reason), sizes \o <<3, 4, 6, 4>>)
NoReply == <<>>

Login(fields, db) ==
  LET given == Has(fields, "name") /\ Has(fields, "password")
      copies == <<Pack>> \o CopySizes(fields)
  IN  CASE ~given /\ ~db.left -> Refuse("check", "0007", copies)
        [] ~given /\ db.left  -> Answer("undefined", NoReply, copies)
        [] given -> Answer("none",
             IF db.userid = 0
             THEN <<Field("name", Val(fields, "name")), Field("stat", <<"fail">>)>>
             ELSE <<Field("name", Val(fields, "name")), Field("stat", <<"succ">>),
                    Field("userid", NumberText(db.userid))>>,
             copies \o IF db.userid = 0 THEN <<>> ELSE <<11>>)

UserObject(u) ==
  Object(<<[name |-> <<"id">>, value |-> Number(u.id)], [name |-> <<"name">>, value |-> String(u.name)],
           [name |-> <<"department">>, value |-> Number(u.department)],
           [name |-> <<"true_name">>, value |-> String(u.trueName)]>>)
UserList(users)  == Array([i \in DOMAIN users |-> UserObject(users[i])])
OnlineList(uids) == Array([i \in DOMAIN uids |-> Number(uids[i])])

ListReply(json, rows) ==
  [Answer("none", <<Field("userlist", Text[json])>>, rows \o BuildSizes[json] \o PrintSizes[json])
     EXCEPT !.list = json]

SendMessage(fields, db) ==
  LET given == Has(fields, "toid") /\ Has(fields, "userid") /\ Has(fields, "body")
      self  == given /\ Val(fields, "toid") = Val(fields, "userid")
      copies == <<Pack>> \o CopySizes(fields)
  IN  CASE self \/ (~given /\ ~db.left) -> Refuse("check", "0007", copies)
        [] ~given /\ db.left            -> Answer("undefined", NoReply, copies)
        [] given /\ ~self /\ ~db.exists -> Refuse("not_exist", "0009", copies)
        [] given /\ ~self /\ db.exists  -> Answer("none", <<Field("stat", <<"succ">>)>>, copies)

(* The operations 3, 4, 5 and 7 succeed without a message.                 *)
Operation(fno, fields, db) ==
  CASE fno = 1            -> Login(fields, db)
    [] fno = 2            -> ListReply(UserList(db.users),
                               IF db.users = <<>> THEN <<>> ELSE <<User * Len(db.users)>>)
    [] fno = 6            -> ListReply(OnlineList(db.online), <<>>)
    [] fno = 8            -> SendMessage(fields, db)
    [] fno \in {3, 4, 5, 7} -> Answer("undefined", NoReply, <<>>)
    [] OTHER              -> Refuse("unknown", "0006", <<>>)

(* toPackages and the receive buffer that _doSend borrows and never uses.  *)
PackageSum(fields)   == (BodyLen(fields) - 1) \div BlockSize + 1
PackageSizes(fields) ==
  <<8 * PackageSum(fields), 4 * PackageSum(fields), BodyLen(fields) + 8 * PackageSum(fields), 19>>

MessageSizes(fields) == <<Message>> \o [i \in DOMAIN fields |-> Param]

(* One round of the listener: everything it borrows between its lock and   *)
(* its unlock, and how many packages it sends.                             *)
Handle(fno, sent, db) ==
  LET text   == BodyText(sent)
      parsed == Parse(text)
      answer == IF parsed.ok THEN Operation(fno, parsed.fields, db)
                ELSE Refuse("parse", "0004", <<>>)
  IN  [fno |-> fno, sent |-> sent, db |-> db, parsed |-> parsed, reply |-> answer.reply, list |-> answer.list,
       packages |-> PackageSum(answer.reply),
       needs |-> <<8, Len(text)>> \o MessageSizes(parsed.fields) \o answer.sizes
                   \o MessageSizes(answer.reply) \o PackageSizes(answer.reply)]

(* A thread that pushes a message: it only lays it out in packages.        *)
Push(fields) == [reply |-> fields, needs |-> PackageSizes(fields), packages |-> PackageSum(fields)]
=============================================================================
