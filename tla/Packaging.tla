------------------------------ MODULE Packaging ------------------------------
(***************************************************************************)
(* FxMessage::toPackages (fxmessage.cpp, the same file on both sides): one *)
(* message is cut into packages of at most BlockSize body bytes, each      *)
(* behind a header of eight bytes, all in one buffer.                      *)
(*                                                                         *)
(* A message is its function number and the positions in its body where    *)
(* its fields (name, ":", value, "\n", ...) end.                           *)
(***************************************************************************)
EXTENDS HeaderCodec, Sequences

CONSTANTS Messages,     \* the messages a sender may be asked to send
          BlockSize,    \* FXMESSAGE_BLOCK_SIZE
          BlockMax      \* FXMESSAGE_BLOCK_MAX

FullLen(m) == m.ends[Len(m.ends)]

(* A message has a field, its first name is not empty, and its fields      *)
(* follow one another.                                                     *)
ASSUME PackagingAssumption ==
  /\ BlockSize \in Nat \ {0} /\ BlockSize <= 32767
  /\ BlockMax \in Nat \ {0} /\ BlockMax <= 32767
  /\ \A m \in Messages :
       /\ m.fno \in Nat /\ m.fno <= 32767
       /\ m.ends \in Seq(Nat) /\ m.ends # <<>>
       /\ m.ends[1] > 0
       /\ \A i, j \in 1 .. Len(m.ends) : i <= j => m.ends[i] <= m.ends[j]

VARIABLES msg,        \* the message being cut
          part,       \* the field _add_to_body is called for
          pos,        \* body bytes appended so far
          current,    \* current_len: body bytes in the current package
          pageno,     \* package_num
          buffer,     \* headers and bodies, as written
          packages,   \* packages[k]: where package k starts in buffer
          plengths    \* plengths[k]: header and body of package k

packVars == <<msg, part, pos, current, pageno, buffer, packages, plengths>>

(* Byte i of the body of m, which differs from those of other messages.    *)
BodyByte(m, i) == (16 * m.fno + i) % 256
Body(m, from, to) == [i \in 1 .. to - from |-> BodyByte(m, from + i)]

PackageSum(m) == (FullLen(m) - 1) \div BlockSize + 1

(* Mutation: a last package that is full is announced as empty.            *)
MsgLenRest(m, n) ==
  IF FullLen(m) < BlockSize THEN FullLen(m)
  ELSE IF n = PackageSum(m) THEN FullLen(m) % BlockSize ELSE BlockSize

(* The body length announced by package n.                                 *)
MsgLen(m, n) ==
  IF FullLen(m) < BlockSize \/ (n = PackageSum(m) /\ FullLen(m) % BlockSize # 0)
  THEN FullLen(m) % BlockSize
  ELSE BlockSize

(* _make_header                                                            *)
Header(m, n) == Put(MsgLen(m, n)) \o Put(PackageSum(m)) \o Put(n) \o Put(m.fno)

(* The locals of toPackages before its loop.                               *)
StartPackages(m) ==
  /\ msg' = m
  /\ part' = 1 /\ pos' = 0 /\ current' = 0 /\ pageno' = 1
  /\ buffer' = <<>> /\ packages' = <<>> /\ plengths' = <<>>

(* A new package begins when nothing is in the current one.                *)
NewPackage == current = 0

Head8 == IF NewPackage THEN Header(msg, pageno) ELSE <<>>

WriteHeader ==
  IF NewPackage
  THEN /\ packages' = [k \in DOMAIN packages \cup {pageno} |->
                         IF k = pageno THEN Len(buffer) + 1 ELSE packages[k]]
       /\ plengths' = [k \in DOMAIN plengths \cup {pageno} |->
                         IF k = pageno THEN MsgLen(msg, pageno) + 8 ELSE plengths[k]]
  ELSE UNCHANGED <<packages, plengths>>

Remaining == msg.ends[part] - pos

(* Mutation: a field that just fills the package is taken to cross it.     *)
CrossesWhenFull == current + Remaining >= BlockSize

(* The field does not fit into what is left of the package.                *)
Crosses == current + Remaining > BlockSize

Write(n) ==
  /\ buffer' = buffer \o Head8 \o Body(msg, pos, pos + n)
  /\ pos' = pos + n

(* _add_to_body at a border: fill the package, go on with the rest.        *)
Cross ==
  /\ Crosses
  /\ WriteHeader
  /\ Write(BlockSize - current)
  /\ pageno' = pageno + 1
  /\ current' = 0
  /\ UNCHANGED <<msg, part>>

(* _add_to_body otherwise: append the field, the loop takes the next one.  *)
Fit ==
  /\ ~Crosses
  /\ WriteHeader
  /\ Write(Remaining)
  /\ current' = current + Remaining
  /\ part' = part + 1
  /\ UNCHANGED <<msg, pageno>>

Packed == part > Len(msg.ends)
AddToBody == ~Packed /\ (Cross \/ Fit)

(* The bytes send() is given for package k.                                *)
Package(k) == SubSeq(buffer, packages[k], packages[k] + plengths[k] - 1)
=============================================================================
