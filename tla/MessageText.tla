---------------------------- MODULE MessageText -----------------------------
(* The body of a message as text: lines "name:value\n" (FxMessage,         *)
(* fxmessage.cpp) and the scanner that takes it apart (_doParse of         *)
(* clientconnection.cpp and fxconnection.cpp).                             *)
EXTENDS Characters, SequencesExt

IsBody(field) == field.name # <<>> /\ field.name[1] = BodyName

(* FxMessage: what addParam counts and what toPackages and bodyStr write.  *)
Line(field) == field.name \o <<":">> \o field.val \o <<"\n">>
BodyText(fields) == FlattenSeq([k \in 1..Len(fields) |-> Line(fields[k])])
BodyLen(fields) ==
  LET len[k \in 0..Len(fields)] ==
        IF k = 0 THEN 0 ELSE len[k - 1] + Len(fields[k].name) + Len(fields[k].val) + 2
  IN  len[Len(fields)]

-----------------------------------------------------------------------------
(* The scanner: the start of its line, the last colon, what it looks for,  *)
(* the fields so far, and why it stopped.                                  *)
ScanStart == [line |-> 1, colon |-> 1, seek |-> ":", fields |-> <<>>, stop |-> "no"]

Colon(text, s, i) ==
  IF s.line = i THEN [s EXCEPT !.stop = "fail"]
  ELSE [s EXCEPT !.colon = i, !.seek = "\n",
                 !.stop = IF text[s.line] = BodyName THEN "body" ELSE "no"]

FieldTo(text, s, last) ==
  [name |-> SubSeq(text, s.line, s.colon - 1), val |-> SubSeq(text, s.colon + 1, last)]

(* Mutation: the colon is not forgotten, so a line without one is a field. *)
NewlineKeeps(text, s, i) == [s EXCEPT !.line = i + 1, !.fields = Append(@, FieldTo(text, s, i - 1))]

Newline(text, s, i) ==
  [line |-> i + 1, colon |-> i + 1, seek |-> ":", stop |-> "no",
   fields |-> Append(s.fields, FieldTo(text, s, i - 1))]

ScanChar(text, s, i) ==
  CASE s.stop # "no"                      -> s
    [] s.stop = "no" /\ text[i] # s.seek  -> s
    [] s.stop = "no" /\ text[i] = s.seek  ->
         IF s.seek = ":" THEN Colon(text, s, i) ELSE Newline(text, s, i)

(* The loop over the characters.                                           *)
Scan(text) ==
  LET after[i \in 0..Len(text)] == IF i = 0 THEN ScanStart ELSE ScanChar(text, after[i - 1], i)
  IN  after[Len(text)]

(* The fields of a body, or that it cannot be parsed.                      *)
Parse(text) ==
  LET s == Scan(text)
  IN  [ok     |-> s.stop # "fail",
       fields |-> IF s.stop = "body" THEN Append(s.fields, FieldTo(text, s, Len(text)))
                  ELSE s.fields]

-----------------------------------------------------------------------------
(* What a message is for its receiver: a field whose name begins with      *)
(* "body" takes all that follows, the newline that ends it included.       *)
FirstBody(fields) == SelectInSeq(fields, IsBody)

AsReceived(fields) ==
  LET k == FirstBody(fields)
  IN  IF k = 0 THEN fields
      ELSE Append(SubSeq(fields, 1, k - 1),
                  [name |-> fields[k].name,
                   val  |-> fields[k].val \o <<"\n">>
                              \o BodyText(SubSeq(fields, k + 1, Len(fields)))])

(* The messages the programs write: neither side escapes anything, so that *)
(* up to the body no name holds a colon and no value a newline.            *)
Plain(field) ==
  /\ \A i \in 1..Len(field.name) : field.name[i] # ":"
  /\ IsBody(field) \/ \A i \in 1..Len(field.val) : field.val[i] # "\n"
Messages ==
  {fields \in Seq(Fields) :
     \A k \in 1..Len(fields) : Plain(fields[k]) \/ \E j \in 1..(k - 1) : IsBody(fields[j])}
=============================================================================
