------------------------------ MODULE JsonText ------------------------------
(* fxcjson.cpp: the unformatted printer, which borrows every piece of text *)
(* from a buffer pool, and the parser, which reads the text back.          *)
EXTENDS Characters, SequencesExt

CONSTANT Depth   \* bound: how many values are inside each other, from the outermost on
ASSUME DepthAssumption == Depth \in Nat

Number(n)   == [type |-> "number", num |-> n]
String(s)   == [type |-> "string", str |-> s]
Array(vs)   == [type |-> "array", items |-> vs]
Object(ms)  == [type |-> "object", members |-> ms]  \* of [name, value]

(* The values with parts in a set, and those of a depth. Numbers are int,  *)
(* as far as ids need them.                                                *)
Numbers == {n \in Nat : n <= 2147483647}
ValuesOver(S) ==
  [type : {"number"}, num : Numbers] \cup [type : {"string"}, str : Texts]
  \cup [type : {"array"}, items : Seq(S)]
  \cup [type : {"object"}, members : Seq([name : Texts, value : S])]
ValuesTo(n) ==
  LET values[k \in 0..n] == IF k = 0 THEN {} ELSE ValuesOver(values[k - 1])
  IN  values[n]

(* A recursion over values: what Of makes of a value, given what it makes  *)
(* of every value of the next depth.                                       *)
Recursive(Of(_, _)) ==
  LET at[k \in 0..Depth] == IF k = 0 THEN <<>> ELSE [v \in ValuesTo(k) |-> Of(v, at[k - 1])]
  IN  at[Depth]

-----------------------------------------------------------------------------
(* Strings: what is written, and the size borrowed for it beforehand.      *)
Letter  == [c \in {Quote, "\\", "\n", "\t"} |->
              CASE c = Quote -> Quote [] c = "\\" -> "\\" [] c = "\n" -> "n" [] c = "\t" -> "t"]

Escape(c) ==
  CASE c \in DOMAIN Letter -> <<"\\", Letter[c]>>
    [] c = Control         -> <<"\\", "u", "0", "0", "0", "1">>
    [] OTHER               -> <<c>>

StringText(s) == <<Quote>> \o FlattenSeq([i \in 1..Len(s) |-> Escape(s[i])]) \o <<Quote>>

(* Mutation: the escaped characters are counted once.                      *)
EscapeSizeOne(c) == 1 + (CASE c = Control -> 5 [] OTHER -> 0)

EscapeSize(c) == 1 + (CASE c \in DOMAIN Letter -> 1 [] c = Control -> 5 [] OTHER -> 0)

StringSize(s) ==
  LET size[i \in 0..Len(s)] == IF i = 0 THEN 3 ELSE size[i - 1] + EscapeSize(s[i])
  IN  size[Len(s)]

NumberText(n) ==
  LET text[m \in 0..n] == IF m < 10 THEN <<DigitChars[m + 1]>>
                          ELSE Append(text[m \div 10], DigitChars[(m % 10) + 1])
  IN  text[n]
NumberSize(n) == IF n = 0 THEN 2 ELSE 21

-----------------------------------------------------------------------------
(* print_value: the texts of the parts first, then the text around them.   *)
Joined(texts) ==
  FlattenSeq([i \in 1..Len(texts) |->
                IF i = Len(texts) THEN texts[i] ELSE Append(texts[i], ",")])
LenSum(texts) ==
  LET sum[i \in 0..Len(texts)] == IF i = 0 THEN 0 ELSE sum[i - 1] + Len(texts[i]) + 2
  IN  sum[Len(texts)]

ItemTexts(v, text) == [i \in 1..Len(v.items) |-> text[v.items[i]]]
MemberTexts(v, text) ==
  [i \in 1..Len(v.members) |->
     StringText(v.members[i].name) \o <<":">> \o text[v.members[i].value]]
TextOf(v, text) ==
  CASE v.type = "number" -> NumberText(v.num)
    [] v.type = "string" -> StringText(v.str)
    [] v.type = "array"  -> <<"[">> \o Joined(ItemTexts(v, text)) \o <<"]">>
    [] v.type = "object" -> <<"{">> \o Joined(MemberTexts(v, text)) \o <<"}">>
Text == Recursive(TextOf)

(* The size borrowed for the text of a value itself. (A member's text has  *)
(* the colon, which the code counts in the 2 of the pair.)                 *)
Size(v) ==
  CASE v.type = "number" -> NumberSize(v.num)
    [] v.type = "string" -> StringSize(v.str)
    [] v.type = "array"  -> IF v.items = <<>> THEN 3 ELSE 5 + LenSum(ItemTexts(v, Text))
    [] v.type = "object" -> IF v.members = <<>> THEN 3 ELSE
                              7 + LenSum(MemberTexts(v, Text)) - Len(v.members)

(* Every size borrowed while a value is printed, in order; Pointer is that *)
(* of an entry in the tables of texts.                                     *)
Pointer == 8
PrintSizesOf(v, sizes) ==
  CASE v.type \in {"number", "string"} -> <<Size(v)>>
    [] v.type = "array"  -> IF v.items = <<>> THEN <<3>>
         ELSE <<Pointer * Len(v.items)>>
              \o FlattenSeq([i \in DOMAIN v.items |-> sizes[v.items[i]]]) \o <<Size(v)>>
    [] v.type = "object" -> IF v.members = <<>> THEN <<3>>
         ELSE <<Pointer * Len(v.members), Pointer * Len(v.members)>>
              \o FlattenSeq([i \in DOMAIN v.members |->
                   <<StringSize(v.members[i].name)>> \o sizes[v.members[i].value]])
              \o <<Size(v)>>
PrintSizes == Recursive(PrintSizesOf)

(* The sizes borrowed while it is built: a node (64 bytes), and a copy of  *)
(* each string and name.                                                   *)
Node == 64
BuildSizesOf(v, sizes) ==
  CASE v.type = "number" -> <<Node>>
    [] v.type = "string" -> <<Node, Len(v.str) + 1>>
    [] v.type = "array"  -> <<Node>> \o FlattenSeq([i \in DOMAIN v.items |-> sizes[v.items[i]]])
    [] v.type = "object" -> <<Node>> \o FlattenSeq([i \in DOMAIN v.members |->
         sizes[v.members[i].value] \o <<Len(v.members[i].name) + 1>>])
BuildSizes == Recursive(BuildSizesOf)

(* A value and all that it is made of.                                     *)
PartsOf(v, parts) ==
  {v} \cup (CASE v.type \in {"number", "string"} -> {}
              [] v.type = "array"  -> UNION {parts[v.items[i]] : i \in 1..Len(v.items)}
              [] v.type = "object" -> UNION {parts[v.members[i].value] : i \in 1..Len(v.members)})
Parts == Recursive(PartsOf)

-----------------------------------------------------------------------------
(* parse_value: a result has the value and the place after it, or has not. *)
At(t, i)   == IF i \in 1..Len(t) THEN t[i] ELSE End
Ok(v, i)   == [ok |-> TRUE, value |-> v, next |-> i]
Failed     == [ok |-> FALSE, value |-> Number(0), next |-> 0]

Blank == {" ", "\n", "\t", Control}
Skip(t, i) == IF At(t, i) \notin Blank THEN i
              ELSE CHOOSE j \in i..(Len(t) + 1) :
                     At(t, j) \notin Blank /\ \A k \in i..(j - 1) : At(t, k) \in Blank

Digit(c) == IF \E d \in 0..9 : DigitChars[d + 1] = c
            THEN CHOOSE d \in 0..9 : DigitChars[d + 1] = c ELSE -1
DigitsEnd(t, i) == CHOOSE j \in i..(Len(t) + 1) :
                     Digit(At(t, j)) < 0 /\ \A k \in i..(j - 1) : Digit(At(t, k)) >= 0
ParseDigits(t, i) ==
  LET end == DigitsEnd(t, i)
      num[k \in 0..(end - i)] == IF k = 0 THEN 0 ELSE num[k - 1] * 10 + Digit(t[i + k - 1])
  IN  Ok(Number(num[end - i]), end)

(* Mutation: escapes are copied as they are.                               *)
UnescapeNot(c) == c

Unescape(c) == IF \E k \in DOMAIN Letter : Letter[k] = c
               THEN CHOOSE k \in DOMAIN Letter : Letter[k] = c ELSE c

(* A string up to its quote: str is what has been copied.                  *)
CharStep(t, s) ==
  LET c == t[s.next]
      e == At(t, s.next + 1)
  IN  CASE c = Quote             -> s
        [] c = "\\" /\ e # "u"   -> [str |-> Append(s.str, Unescape(e)), next |-> s.next + 2]
        [] c = "\\" /\ e = "u"   -> [str |-> Append(s.str, Control), next |-> s.next + 6]
        [] OTHER                 -> [str |-> Append(s.str, c), next |-> s.next + 1]
ParseChars(t, i) ==
  LET after[k \in 0..(Len(t) + 1 - i)] ==
        IF k = 0 THEN [str |-> <<>>, next |-> i]
        ELSE LET s == after[k - 1] IN IF s.next > Len(t) THEN s ELSE CharStep(t, s)
      last == after[Len(t) + 1 - i]
  IN  Ok(String(last.str), IF At(t, last.next) = Quote THEN last.next + 1 ELSE last.next)
ParseString(t, i) == IF At(t, i) = Quote THEN ParseChars(t, i + 1) ELSE Failed

(* The elements of a list, as functions of the place where each begins;     *)
(* parse is the parser of their values.                                    *)
ParseItem(t, parse) == [i \in Nat |-> parse[Skip(t, i)]]
ParseMember(t, parse) ==
  [i \in Nat |->
     LET n == ParseString(t, Skip(t, i))
         c == Skip(t, n.next)
         r == IF n.ok /\ At(t, c) = ":" THEN parse[Skip(t, c + 1)] ELSE Failed
     IN  IF r.ok THEN Ok([name |-> n.value.str, value |-> r.value], r.next) ELSE Failed]

(* An element, and a comma or what closes the list, while there is more.   *)
ElementStep(t, close, parseOne, s) ==
  LET r == parseOne[s.next]
      k == Skip(t, r.next)
  IN  [ok   |-> r.ok /\ At(t, k) \in {",", close}, more |-> r.ok /\ At(t, k) = ",",
       list |-> Append(s.list, r.value), next |-> k + 1]
ParseElements(t, i, close, parseOne) ==
  LET n == (Len(t) + 1 - i) \div 2
      after[k \in 0..n] ==
        IF k = 0 THEN [ok |-> TRUE, more |-> TRUE, list |-> <<>>, next |-> i]
        ELSE LET s == after[k - 1] IN IF s.more THEN ElementStep(t, close, parseOne, s) ELSE s
  IN  after[n]

ParseList(t, i, close, parseOne) ==
  LET k == Skip(t, i)
      s == ParseElements(t, k, close, parseOne)
  IN  CASE At(t, k) = close             -> Ok(<<>>, k + 1)
        [] At(t, k) # close /\ s.ok     -> Ok(s.list, s.next)
        [] At(t, k) # close /\ ~s.ok    -> Failed

ParseArray(t, i, parse) ==
  LET r == ParseList(t, i, "]", ParseItem(t, parse))
  IN  IF r.ok THEN Ok(Array(r.value), r.next) ELSE Failed
ParseObject(t, i, parse) ==
  LET r == ParseList(t, i, "}", ParseMember(t, parse))
  IN  IF r.ok THEN Ok(Object(r.value), r.next) ELSE Failed

ParseOf(t, i, parse) ==
  CASE At(t, i) = Quote       -> ParseString(t, i)
    [] Digit(At(t, i)) >= 0   -> ParseDigits(t, i)
    [] At(t, i) = "["         -> ParseArray(t, i + 1, parse)
    [] At(t, i) = "{"         -> ParseObject(t, i + 1, parse)
    [] OTHER                  -> Failed
ParseValue(t, i) ==
  LET at[k \in 0..Depth] == IF k = 0 THEN [j \in Nat |-> Failed]
                            ELSE [j \in Nat |-> ParseOf(t, j, at[k - 1])]
  IN  at[Depth][i]
=============================================================================
