----------------------------- MODULE Characters ------------------------------
(* The texts of messages and lists. A character is a string of one letter; *)
(* BodyName stands for the four letters of "body", Control for a character *)
(* below 32 that has no letter of its own, and a word that need not be     *)
(* taken apart for all of its letters. End is the byte that ends a text:   *)
(* no text holds it.                                                       *)
EXTENDS Integers, Sequences

CONSTANT Chars

BodyName == "body"
Control  == "control"
End      == "end"
Quote    == "\""
DigitChars == <<"0", "1", "2", "3", "4", "5", "6", "7", "8", "9">>

ASSUME CharsAssumption ==
  /\ {":", "\n", "\t", "\\", Quote, Control} \subseteq Chars
  /\ {"{", "[", ",", "]", "}", "n", "t", "u"} \subseteq Chars
  /\ {DigitChars[d] : d \in 1..10} \subseteq Chars
  /\ End \notin Chars

Texts  == Seq(Chars)
Fields == [name : Texts, val : Texts]
=============================================================================
