--------------------------- MODULE RequestProofs ----------------------------
(* Proofs about RequestPath, for every set of characters, every depth of   *)
(* lists and every message: what a client writes is what the listener      *)
(* scans, what the printer prints is what the parser reads, and no text is *)
(* longer than the memory borrowed for it. The loops of the models are     *)
(* recursive functions; Loop proves once what such a function is.          *)
EXTENDS RequestPath, SequenceTheorems, TLAPS

-----------------------------------------------------------------------------
(* Texts. Every loop of the models is one instance of Loop: what it leaves *)
(* after k rounds.                                                         *)
NoText(seqs) == <<>>
AddText(seqs, text, k) == text \o seqs[k]
Flat == INSTANCE Loop WITH Start <- NoText, Step <- AddText

(* The text of the first k pieces.                                         *)
Prefix(seqs, k) == Flat!After(seqs, k)

(* The text t has the piece u after its first p characters.                *)
Holds(t, p, u) ==
  /\ p \in Nat /\ p + Len(u) <= Len(t)
  /\ \A j \in 1..Len(u) : t[p + j] = u[j]

LEMMA Induction ==
  ASSUME NEW S, 0 \in S, \A n \in Nat : n \in S => n + 1 \in S
  PROVE  Nat \subseteq S
BY Flat!SetInduction

LEMMA TextConcat ==
  ASSUME NEW a \in Texts, NEW b \in Texts
  PROVE  /\ a \o b \in Texts /\ Len(a) \in Nat /\ Len(b) \in Nat
         /\ Len(a \o b) = Len(a) + Len(b)
         /\ \A i \in 1..(Len(a) + Len(b)) : (a \o b)[i] = IF i <= Len(a) THEN a[i] ELSE b[i - Len(a)]
BY DEF Texts

LEMMA TextJoin ==
  ASSUME NEW a \in Texts, NEW b \in Texts
  PROVE  a \o b \in Texts /\ Len(a \o b) = Len(a) + Len(b) /\ Len(a) \in Nat /\ Len(b) \in Nat
BY DEF Texts

(* Two texts of one length with the same characters are one text.          *)
LEMMA TextEqual ==
  ASSUME NEW a \in Texts, NEW b \in Texts, Len(a) = Len(b), \A i \in 1..Len(a) : a[i] = b[i]
  PROVE  a = b
BY SeqEqual DEF Texts

LEMMA TextAssociative ==
  ASSUME NEW a \in Texts, NEW b \in Texts, NEW c \in Texts
  PROVE  (a \o b) \o c = a \o (b \o c)
BY ConcatAssociative DEF Texts

LEMMA TextEmpty ==
  /\ <<>> \in Texts /\ Len(<<>>) = 0
  /\ \A a \in Texts : <<>> \o a = a /\ a \o <<>> = a
BY DEF Texts

LEMMA TextOne ==
  ASSUME NEW c \in Chars
  PROVE  <<c>> \in Texts /\ Len(<<c>>) = 1 /\ <<c>>[1] = c
BY DEF Texts

LEMMA TextChars ==
  ASSUME NEW a \in Texts
  PROVE  Len(a) \in Nat /\ \A i \in 1..Len(a) : a[i] \in Chars
BY DEF Texts

LEMMA TextAppend ==
  ASSUME NEW a \in Texts, NEW c \in Chars
  PROVE  /\ Append(a, c) \in Texts /\ Append(a, c) = a \o <<c>> /\ Len(Append(a, c)) = Len(a) + 1
BY DEF Texts

(* A part of a text, character by character.                               *)
LEMMA TextSub ==
  ASSUME NEW t \in Texts, NEW a \in 1..(Len(t) + 1), NEW b \in (a - 1)..Len(t)
  PROVE  /\ SubSeq(t, a, b) \in Texts /\ Len(SubSeq(t, a, b)) = b - a + 1
         /\ \A i \in 1..(b - a + 1) : SubSeq(t, a, b)[i] = t[a + i - 1]
BY DEF Texts

(* A prefix of the pieces grows by one piece.                              *)
LEMMA PrefixNext ==
  ASSUME NEW seqs \in Seq(Texts)
  PROVE  /\ Prefix(seqs, 0) = <<>>
         /\ \A k \in 0..(Len(seqs) - 1) : Prefix(seqs, k + 1) = Prefix(seqs, k) \o seqs[k + 1]
<1>1. Prefix(seqs, 0) = <<>>
  BY Flat!AfterZero DEF Prefix, NoText
<1>2. ASSUME NEW k \in 0..(Len(seqs) - 1)
      PROVE  Prefix(seqs, k + 1) = Prefix(seqs, k) \o seqs[k + 1]
  <2>1. k \in Nat
    OBVIOUS
  <2> QED
    BY <2>1, Flat!AfterNext DEF Prefix, AddText
<1> QED
  BY <1>1, <1>2

LEMMA PrefixType ==
  ASSUME NEW seqs \in Seq(Texts), NEW k \in 0..Len(seqs)
  PROVE  Prefix(seqs, k) \in Texts
<1>1. PICK T : T = {m \in Nat : m <= Len(seqs) => Prefix(seqs, m) \in Texts}
  OBVIOUS
<1>2. 0 \in T
  <2>1. Prefix(seqs, 0) = <<>> /\ <<>> \in Texts
    BY PrefixNext, TextEmpty
  <2> QED
    BY <1>1, <2>1
<1>3. ASSUME NEW m \in Nat, m \in T
      PROVE  m + 1 \in T
  <2> SUFFICES ASSUME m + 1 <= Len(seqs) PROVE Prefix(seqs, m + 1) \in Texts
    BY <1>1
  <2>1. Prefix(seqs, m) \in Texts /\ seqs[m + 1] \in Texts
    BY <1>1, <1>3
  <2>2. Prefix(seqs, m + 1) = Prefix(seqs, m) \o seqs[m + 1]
    <3>1. m \in 0..(Len(seqs) - 1)
      OBVIOUS
    <3> QED
      BY <3>1, PrefixNext
  <2>3. Prefix(seqs, m) \o seqs[m + 1] \in Texts
    BY <2>1, TextConcat
  <2> QED
    BY <2>2, <2>3
<1>4. Nat \subseteq T
  BY <1>2, <1>3, Induction
<1> QED
  BY <1>1, <1>4

(* FlattenSeq is the prefix of all pieces.                                 *)
LEMMA FlattenIsPrefix ==
  ASSUME NEW seqs \in Seq(Texts)
  PROVE  FlattenSeq(seqs) = Prefix(seqs, Len(seqs))
<1>1. CASE Len(seqs) = 0
  <2>1. FlattenSeq(seqs) = <<>>
    BY <1>1 DEF FlattenSeq
  <2> QED
    BY <1>1, <2>1, PrefixNext
<1>2. CASE Len(seqs) # 0
  <2>1. PICK n \in Nat : n = Len(seqs) /\ n > 0
    BY <1>2
  <2>2. PICK g : g = [i \in 1..n |-> Prefix(seqs, i)]
    OBVIOUS
  <2>3. \A i \in 1..n : g[i] = IF i = 1 THEN seqs[i] ELSE g[i - 1] \o seqs[i]
    <3> SUFFICES ASSUME NEW i \in 1..n PROVE g[i] = IF i = 1 THEN seqs[i] ELSE g[i - 1] \o seqs[i]
      OBVIOUS
    <3>1. i - 1 \in 0..(Len(seqs) - 1) /\ (i - 1) + 1 = i
      BY <2>1
    <3>2. Prefix(seqs, i) = Prefix(seqs, i - 1) \o seqs[i]
      BY <3>1, PrefixNext
    <3>3. CASE i = 1
      <4>1. Prefix(seqs, i - 1) = <<>> /\ seqs[i] \in Texts
        BY <3>3, <2>1, PrefixNext
      <4>2. <<>> \o seqs[i] = seqs[i]
        BY <4>1, TextEmpty
      <4> QED
        BY <2>2, <3>2, <3>3, <4>1, <4>2
    <3>4. CASE i # 1
      <4>1. g[i - 1] = Prefix(seqs, i - 1)
        BY <2>2, <3>4
      <4> QED
        BY <2>2, <3>2, <3>4, <4>1
    <3> QED
      BY <3>3, <3>4
  <2>4. g = [i \in 1..n |-> IF i = 1 THEN seqs[i] ELSE g[i - 1] \o seqs[i]]
    BY <2>2, <2>3
  <2>5. PICK f : f = CHOOSE h : h = [i \in 1..n |-> IF i = 1 THEN seqs[i] ELSE h[i - 1] \o seqs[i]]
    OBVIOUS
  <2>6. f = [i \in 1..n |-> IF i = 1 THEN seqs[i] ELSE f[i - 1] \o seqs[i]]
    BY <2>4, <2>5
  <2>7. FlattenSeq(seqs) = f[n]
    BY <2>1, <2>5, <1>2 DEF FlattenSeq
  <2>8. \A i \in 1..n : f[i] = IF i = 1 THEN seqs[i] ELSE f[i - 1] \o seqs[i]
    BY <2>6
  <2>9. PICK T : T = {m \in Nat : m + 1 <= n => f[m + 1] = g[m + 1]}
    OBVIOUS
  <2>10. 0 \in T
    BY <2>1, <2>3, <2>8, <2>9
  <2>11. ASSUME NEW m \in Nat, m \in T
         PROVE  m + 1 \in T
    <3> SUFFICES ASSUME (m + 1) + 1 <= n PROVE f[(m + 1) + 1] = g[(m + 1) + 1]
      BY <2>9
    <3>1. PICK i \in 1..n : i = (m + 1) + 1
      BY <2>11
    <3>2. i # 1 /\ i - 1 = m + 1 /\ m + 1 <= n
      BY <3>1
    <3>3. f[i - 1] = g[i - 1]
      BY <2>9, <2>11, <3>2
    <3>4. f[i] = f[i - 1] \o seqs[i] /\ g[i] = g[i - 1] \o seqs[i]
      BY <2>3, <2>8, <3>2
    <3> QED
      BY <3>1, <3>3, <3>4
  <2>12. Nat \subseteq T
    BY <2>10, <2>11, Induction
  <2>13. f[n] = g[n]
    <3>0. n - 1 \in Nat /\ (n - 1) + 1 = n
      BY <2>1
    <3>1. PICK m \in Nat : m + 1 = n
      BY <3>0
    <3>2. m \in T
      BY <2>12
    <3> QED
      BY <2>9, <3>1, <3>2
  <2> QED
    BY <2>1, <2>2, <2>7, <2>13
<1> QED
  BY <1>1, <1>2

(* A text holds u and then w exactly where it holds both joined.           *)
LEMMA HoldsConcat ==
  ASSUME NEW t \in Texts, NEW u \in Texts, NEW w \in Texts, NEW p
  PROVE  Holds(t, p, u \o w) <=> Holds(t, p, u) /\ Holds(t, p + Len(u), w)
<1>1. /\ Len(u \o w) = Len(u) + Len(w) /\ Len(u) \in Nat /\ Len(w) \in Nat /\ Len(t) \in Nat
      /\ \A i \in 1 .. Len(u) + Len(w) : (u \o w)[i] = IF i <= Len(u) THEN u[i] ELSE w[i - Len(u)]
  BY TextConcat
<1>2. ASSUME Holds(t, p, u \o w)
      PROVE  Holds(t, p, u) /\ Holds(t, p + Len(u), w)
  <2>1. p \in Nat /\ p + Len(u) + Len(w) <= Len(t)
    BY <1>1, <1>2 DEF Holds
  <2>2. ASSUME NEW j \in 1..Len(u) PROVE t[p + j] = u[j]
    <3>1. j \in 1..Len(u \o w) /\ (u \o w)[j] = u[j]
      BY <1>1
    <3> QED BY <3>1, <1>2 DEF Holds
  <2>3. ASSUME NEW j \in 1..Len(w) PROVE t[(p + Len(u)) + j] = w[j]
    <3>1. PICK i : i = Len(u) + j
      OBVIOUS
    <3>2. i \in 1..(Len(u) + Len(w)) /\ ~(i <= Len(u)) /\ i - Len(u) = j /\ (p + Len(u)) + j = p + i
      BY <1>1, <2>1, <3>1
    <3>3. (u \o w)[i] = w[j]
      BY <1>1, <3>2
    <3>4. t[p + i] = (u \o w)[i]
      BY <1>1, <1>2, <3>2 DEF Holds
    <3> QED BY <3>2, <3>3, <3>4
  <2> QED
    BY <1>1, <2>1, <2>2, <2>3 DEF Holds
<1>3. ASSUME Holds(t, p, u), Holds(t, p + Len(u), w)
      PROVE  Holds(t, p, u \o w)
  <2>1. p \in Nat /\ p + (Len(u) + Len(w)) <= Len(t)
    BY <1>1, <1>3 DEF Holds
  <2>2. ASSUME NEW j \in 1..(Len(u) + Len(w)) PROVE t[p + j] = (u \o w)[j]
    <3>1. CASE j <= Len(u)
      <4>1. j \in 1..Len(u) /\ (u \o w)[j] = u[j]
        BY <1>1, <3>1
      <4> QED BY <4>1, <1>3 DEF Holds
    <3>2. CASE j > Len(u)
      <4>1. PICK i : i = j - Len(u)
        OBVIOUS
      <4>2. i \in 1..Len(w) /\ p + j = (p + Len(u)) + i
        BY <1>1, <2>1, <3>2, <4>1
      <4>3. t[(p + Len(u)) + i] = w[i]
        BY <4>2, <1>3 DEF Holds
      <4>4. (u \o w)[j] = w[i]
        BY <1>1, <3>2, <4>1
      <4> QED BY <4>2, <4>3, <4>4
    <3> QED BY <1>1, <3>1, <3>2
  <2> QED
    BY <1>1, <2>1, <2>2 DEF Holds
<1> QED
  BY <1>2, <1>3

(* Cut out what a text holds.                                              *)
LEMMA HoldsSub ==
  ASSUME NEW t \in Texts, NEW u \in Texts, NEW p, Holds(t, p, u)
  PROVE  SubSeq(t, p + 1, p + Len(u)) = u
<1>1. p \in Nat /\ Len(u) \in Nat /\ Len(t) \in Nat /\ p + Len(u) <= Len(t)
  BY TextChars DEF Holds
<1>2. PICK a, b : a = p + 1 /\ b = p + Len(u)
  OBVIOUS
<1>3. a \in 1..(Len(t) + 1) /\ b \in (a - 1)..Len(t) /\ b - a + 1 = Len(u)
  BY <1>1, <1>2
<1>4. PICK w : w = SubSeq(t, a, b)
  OBVIOUS
<1>5. w \in Texts /\ Len(w) = Len(u) /\ \A i \in 1..Len(u) : w[i] = t[a + i - 1]
  BY <1>3, <1>4, TextSub
<1>6. ASSUME NEW i \in 1..Len(u) PROVE w[i] = u[i]
  <2>1. a + i - 1 = p + i
    BY <1>1, <1>2
  <2>2. t[p + i] = u[i]
    BY DEF Holds
  <2> QED BY <1>5, <2>1, <2>2
<1>7. w = u
  BY <1>5, <1>6, TextEqual
<1> QED
  BY <1>2, <1>4, <1>7

LEMMA HoldsSelf ==
  ASSUME NEW t \in Texts
  PROVE  Holds(t, 0, t)
BY TextChars DEF Holds

(* A text that holds pieces joined holds each at the end of those before   *)
(* it.                                                                     *)
LEMMA HoldsPieces ==
  ASSUME NEW t \in Texts, NEW seqs \in Seq(Texts), NEW p, Holds(t, p, FlattenSeq(seqs))
  PROVE  /\ \A k \in 0..Len(seqs) : Holds(t, p, Prefix(seqs, k))
         /\ \A k \in 0..(Len(seqs) - 1) : Holds(t, p + Len(Prefix(seqs, k)), seqs[k + 1])
<1>1. PICK n \in Nat : n = Len(seqs)
  OBVIOUS
<1>2. ASSUME NEW k \in 0..(n - 1), Holds(t, p, Prefix(seqs, k + 1))
      PROVE  Holds(t, p, Prefix(seqs, k)) /\ Holds(t, p + Len(Prefix(seqs, k)), seqs[k + 1])
  <2>1. Prefix(seqs, k) \in Texts
    BY <1>1, PrefixType
  <2>2. seqs[k + 1] \in Texts
    BY <1>1
  <2>3. Prefix(seqs, k + 1) = Prefix(seqs, k) \o seqs[k + 1]
    BY <1>1, PrefixNext
  <2>4. Holds(t, p, Prefix(seqs, k) \o seqs[k + 1])
    BY <1>2, <2>3
  <2> QED
    BY <2>1, <2>2, <2>4, HoldsConcat
<1>3. PICK T : T = {m \in Nat : m <= n => Holds(t, p, Prefix(seqs, n - m))}
  OBVIOUS
<1>4. 0 \in T
  <2>1. n - 0 = n /\ Holds(t, p, Prefix(seqs, n))
    BY <1>1, FlattenIsPrefix
  <2> QED
    BY <1>3, <2>1
<1>5. ASSUME NEW m \in Nat, m \in T
      PROVE  m + 1 \in T
  <2> SUFFICES ASSUME m + 1 <= n PROVE Holds(t, p, Prefix(seqs, n - (m + 1)))
    BY <1>3
  <2>1. n - (m + 1) \in 0..(n - 1) /\ (n - (m + 1)) + 1 = n - m
    OBVIOUS
  <2>2. PICK k \in 0..(n - 1) : k = n - (m + 1) /\ k + 1 = n - m
    BY <2>1
  <2>3. Holds(t, p, Prefix(seqs, n - m))
    BY <1>3, <1>5
  <2> QED
    BY <1>2, <2>2, <2>3
<1>6. Nat \subseteq T
  BY <1>4, <1>5, Induction
<1>7. \A k \in 0..n : Holds(t, p, Prefix(seqs, k))
  <2> SUFFICES ASSUME NEW k \in 0..n PROVE Holds(t, p, Prefix(seqs, k))
    OBVIOUS
  <2>1. n - k \in Nat /\ n - (n - k) = k /\ n - k <= n
    OBVIOUS
  <2>2. PICK m \in Nat : m = n - k /\ n - m = k /\ m <= n
    BY <2>1
  <2>3. m \in T
    BY <1>6
  <2> QED
    BY <1>3, <2>2, <2>3
<1>8. \A k \in 0..(n - 1) : Holds(t, p + Len(Prefix(seqs, k)), seqs[k + 1])
  <2> SUFFICES ASSUME NEW k \in 0..(n - 1) PROVE Holds(t, p + Len(Prefix(seqs, k)), seqs[k + 1])
    OBVIOUS
  <2>1. k + 1 \in 0..n
    OBVIOUS
  <2>2. Holds(t, p, Prefix(seqs, k + 1))
    BY <1>7, <2>1
  <2> QED
    BY <1>2, <2>2
<1> QED
  BY <1>1, <1>7, <1>8

(* All pieces joined are the first k, and then the others.                 *)
LEMMA PrefixRest ==
  ASSUME NEW seqs \in Seq(Texts), NEW k \in 0..Len(seqs), NEW rest \in Seq(Texts),
         Len(rest) = Len(seqs) - k, \A i \in 1..Len(rest) : rest[i] = seqs[k + i]
  PROVE  FlattenSeq(seqs) = Prefix(seqs, k) \o FlattenSeq(rest)
<1>1. PICK n \in Nat : n = Len(rest) /\ Len(seqs) = k + n /\ k \in Nat
  <2>1. Len(rest) \in Nat /\ Len(seqs) \in Nat /\ k \in Nat
    OBVIOUS
  <2>2. Len(seqs) = k + Len(rest)
    BY <2>1
  <2> QED
    BY <2>1, <2>2
<1>2. PICK T : T = {m \in Nat : m <= n => Prefix(seqs, k + m) = Prefix(seqs, k) \o Prefix(rest, m)}
  OBVIOUS
<1>3. \A m \in 0..n : Prefix(rest, m) \in Texts
  BY <1>1, PrefixType
<1>4. Prefix(seqs, k) \in Texts
  BY PrefixType
<1>5. 0 \in T
  <2>1. Prefix(rest, 0) = <<>> /\ k + 0 = k
    BY <1>1, PrefixNext
  <2>2. Prefix(seqs, k) \o <<>> = Prefix(seqs, k)
    BY <1>4, TextEmpty
  <2> QED
    BY <1>2, <2>1, <2>2
<1>6. ASSUME NEW m \in Nat, m \in T
      PROVE  m + 1 \in T
  <2> SUFFICES ASSUME m + 1 <= n PROVE Prefix(seqs, k + (m + 1)) = Prefix(seqs, k) \o Prefix(rest, m + 1)
    BY <1>2
  <2>1. Prefix(seqs, k + m) = Prefix(seqs, k) \o Prefix(rest, m)
    BY <1>2, <1>6
  <2>2. PICK i \in 0..(Len(seqs) - 1) : i = k + m /\ i + 1 = k + (m + 1)
    BY <1>1
  <2>3. Prefix(seqs, i + 1) = Prefix(seqs, i) \o seqs[i + 1]
    BY PrefixNext
  <2>4. m \in 0..(Len(rest) - 1)
    BY <1>1
  <2>5. Prefix(rest, m + 1) = Prefix(rest, m) \o rest[m + 1]
    BY <2>4, PrefixNext
  <2>6. rest[m + 1] = seqs[i + 1] /\ rest[m + 1] \in Texts
    BY <1>1, <2>2, <2>4
  <2>7. Prefix(rest, m) \in Texts
    BY <1>1, <1>3, <2>4
  <2>8. (Prefix(seqs, k) \o Prefix(rest, m)) \o rest[m + 1] = Prefix(seqs, k) \o (Prefix(rest, m) \o rest[m + 1])
    <3>1. PICK a, b, c : a = Prefix(seqs, k) /\ b = Prefix(rest, m) /\ c = rest[m + 1]
      OBVIOUS
    <3>2. a \in Texts /\ b \in Texts /\ c \in Texts
      BY <1>4, <2>6, <2>7, <3>1
    <3>3. (a \o b) \o c = a \o (b \o c)
      BY <3>2, TextAssociative
    <3> QED
      BY <3>1, <3>3
  <2> QED
    BY <2>1, <2>2, <2>3, <2>5, <2>6, <2>8
<1>7. Nat \subseteq T
  BY <1>5, <1>6, Induction
<1>8. Prefix(seqs, k + n) = Prefix(seqs, k) \o Prefix(rest, n)
  <2>1. n \in T
    BY <1>7
  <2> QED
    BY <1>2, <2>1
<1>9. FlattenSeq(seqs) = Prefix(seqs, k + n) /\ FlattenSeq(rest) = Prefix(rest, n)
  BY <1>1, FlattenIsPrefix
<1> QED
  BY <1>8, <1>9

LEMMA FlattenType ==
  ASSUME NEW seqs \in Seq(Texts)
  PROVE  FlattenSeq(seqs) \in Texts
<1>1. Len(seqs) \in 0..Len(seqs)
  OBVIOUS
<1> QED
  BY <1>1, FlattenIsPrefix, PrefixType

-----------------------------------------------------------------------------
(* Messages as text: what toPackages writes and addParam counts.           *)
NoLength(fields) == 0
AddLength(fields, n, k) == n + Len(fields[k].name) + Len(fields[k].val) + 2
Length == INSTANCE Loop WITH Start <- NoLength, Step <- AddLength

(* The lines of a message, each as a piece of its text.                    *)
Lines(fields) == [k \in 1..Len(fields) |-> Line(fields[k])]

(* A line is as long as its name, its value, the colon and the newline.    *)
LEMMA LineType ==
  ASSUME NEW field \in Fields
  PROVE  /\ Line(field) \in Texts
         /\ Len(Line(field)) = Len(field.name) + Len(field.val) + 2
         /\ Len(field.name) \in Nat /\ Len(field.val) \in Nat
<1>1. field.name \in Texts /\ field.val \in Texts
  BY DEF Fields
<1>2. PICK n, v, c, e : n = field.name /\ v = field.val /\ c = <<":">> /\ e = <<"\n">>
  OBVIOUS
<1>3. n \in Texts /\ v \in Texts /\ c \in Texts /\ e \in Texts /\ Len(c) = 1 /\ Len(e) = 1
  BY <1>1, <1>2, CharsAssumption, TextOne
<1>9. Len(n) \in Nat /\ Len(v) \in Nat
  BY <1>3, TextChars
<1>4. n \o c \in Texts /\ Len(n \o c) = Len(n) + 1
  <2>1. n \o c \in Texts /\ Len(n \o c) = Len(n) + Len(c)
    BY <1>3, TextJoin
  <2> QED
    BY <1>3, <2>1
<1>5. (n \o c) \o v \in Texts /\ Len((n \o c) \o v) = Len(n) + 1 + Len(v)
  BY <1>3, <1>4, <1>9, TextJoin
<1>6. ((n \o c) \o v) \o e \in Texts /\ Len(((n \o c) \o v) \o e) = Len(n) + 1 + Len(v) + 1
  BY <1>3, <1>5, <1>9, TextJoin
<1>7. Line(field) = ((n \o c) \o v) \o e
  BY <1>2 DEF Line
<1>8. Len(Line(field)) = Len(n) + Len(v) + 2
  BY <1>6, <1>7, <1>9
<1> QED
  BY <1>2, <1>6, <1>7, <1>8, <1>9

(* The text of a message is its lines joined.                              *)
LEMMA LinesType ==
  ASSUME NEW fields \in Seq(Fields)
  PROVE  /\ Lines(fields) \in Seq(Texts) /\ Len(Lines(fields)) = Len(fields)
         /\ BodyText(fields) = FlattenSeq(Lines(fields)) /\ BodyText(fields) \in Texts
<1>1. ASSUME NEW k \in 1..Len(fields)
      PROVE  Line(fields[k]) \in Texts
  <2>1. fields[k] \in Fields
    OBVIOUS
  <2> QED
    BY <2>1, LineType
<1>2. Lines(fields) \in Seq(Texts) /\ Len(Lines(fields)) = Len(fields)
  BY <1>1 DEF Lines
<1>3. BodyText(fields) = FlattenSeq(Lines(fields))
  BY DEF BodyText, Lines
<1> QED
  BY <1>2, <1>3, FlattenType

(* What addParam counts is the length of the text that is written.         *)
THEOREM LengthCounted ==
  ASSUME NEW fields \in Seq(Fields)
  PROVE  Len(BodyText(fields)) = BodyLen(fields)
<1>1. BodyLen(fields) = Length!After(fields, Len(fields))
  BY DEF BodyLen, Length!After, NoLength, AddLength
<1>2. PICK ls \in Seq(Texts) : ls = Lines(fields) /\ Len(ls) = Len(fields)
  BY LinesType
<1>3. PICK T : T = {k \in Nat : k <= Len(fields) => Len(Prefix(ls, k)) = Length!After(fields, k)}
  OBVIOUS
<1>4. 0 \in T
  <2>1. Length!After(fields, 0) = 0
    BY Length!AfterZero DEF NoLength
  <2>2. Prefix(ls, 0) = <<>> /\ Len(<<>>) = 0
    BY PrefixNext
  <2> QED
    BY <1>3, <2>1, <2>2
<1>5. ASSUME NEW k \in Nat, k \in T
      PROVE  k + 1 \in T
  <2> SUFFICES ASSUME k + 1 <= Len(fields) PROVE Len(Prefix(ls, k + 1)) = Length!After(fields, k + 1)
    BY <1>3
  <2>1. Length!After(fields, k + 1) = Length!After(fields, k) + Len(fields[k + 1].name) + Len(fields[k + 1].val) + 2
    BY Length!AfterNext DEF AddLength
  <2>2. k \in 0..(Len(ls) - 1) /\ k + 1 \in 1..Len(fields)
    BY <1>2
  <2>3. Prefix(ls, k + 1) = Prefix(ls, k) \o ls[k + 1]
    BY <2>2, PrefixNext
  <2>4. ls[k + 1] = Line(fields[k + 1]) /\ fields[k + 1] \in Fields
    BY <1>2, <2>2 DEF Lines
  <2>5. ls[k + 1] \in Texts /\ Len(ls[k + 1]) = Len(fields[k + 1].name) + Len(fields[k + 1].val) + 2
        /\ Len(fields[k + 1].name) \in Nat /\ Len(fields[k + 1].val) \in Nat
    BY <2>4, LineType
  <2>6. Prefix(ls, k) \in Texts
    BY <2>2, PrefixType
  <2>7. Len(Prefix(ls, k + 1)) = Len(Prefix(ls, k)) + Len(ls[k + 1]) /\ Len(Prefix(ls, k)) \in Nat
    BY <2>3, <2>5, <2>6, TextJoin
  <2>8. Len(Prefix(ls, k)) = Length!After(fields, k)
    BY <1>3, <1>5, <2>2
  <2>9. PICK a, b, c : a = Len(Prefix(ls, k)) /\ b = Len(fields[k + 1].name) /\ c = Len(fields[k + 1].val)
    OBVIOUS
  <2>10. Len(Prefix(ls, k + 1)) = a + (b + c + 2)
    BY <2>5, <2>7, <2>9
  <2>11. Length!After(fields, k + 1) = a + b + c + 2
    BY <2>1, <2>8, <2>9
  <2>12. a \in Nat /\ b \in Nat /\ c \in Nat
    BY <2>5, <2>7, <2>9
  <2> QED
    BY <2>10, <2>11, <2>12
<1>6. Nat \subseteq T
  BY <1>4, <1>5, Induction
<1>7. Len(fields) \in T
  BY <1>6
<1>8. Len(Prefix(ls, Len(ls))) = Length!After(fields, Len(fields))
  BY <1>2, <1>3, <1>7
<1>9. BodyText(fields) = Prefix(ls, Len(ls))
  BY <1>2, LinesType, FlattenIsPrefix
<1> QED
  BY <1>1, <1>8, <1>9

-----------------------------------------------------------------------------
(* The scanner, line by line.                                              *)
ScanBegin(text) == ScanStart
ScanNext(text, s, i) == ScanChar(text, s, i)
Scanner == INSTANCE Loop WITH Start <- ScanBegin, Step <- ScanNext

(* The scanner after the first i characters.                               *)
Scanned(text, i) == Scanner!After(text, i)

(* The scanner at the start of a line, after p characters.                 *)
Fresh(fields, p) == [line |-> p + 1, colon |-> p + 1, seek |-> ":", fields |-> fields, stop |-> "no"]

(* The scanner takes one character at a time.                              *)
LEMMA ScannedNext ==
  ASSUME NEW t, NEW i \in Nat
  PROVE  Scanned(t, i + 1) = ScanChar(t, Scanned(t, i), i + 1)
BY Scanner!AfterNext DEF Scanned, ScanNext

LEMMA ScannedStart ==
  ASSUME NEW t
  PROVE  Scanned(t, 0) = Fresh(<<>>, 0)
BY Scanner!AfterZero DEF Scanned, ScanBegin, ScanStart, Fresh

LEMMA ScannedAll ==
  ASSUME NEW t \in Texts
  PROVE  Scan(t) = Scanned(t, Len(t))
BY DEF Scan, Scanned, Scanner!After, ScanBegin, ScanNext

(* Characters that a scanner does not look for leave it as it is.          *)
LEMMA ScannedStays ==
  ASSUME NEW t, NEW p \in Nat, NEW n \in Nat,
         \A j \in 1..n : Scanned(t, p).stop # "no" \/ t[p + j] # Scanned(t, p).seek
  PROVE  Scanned(t, p + n) = Scanned(t, p)
<1>0. PICK s : s = Scanned(t, p) /\ \A j \in 1..n : s.stop # "no" \/ t[p + j] # s.seek
  OBVIOUS
<1>1. PICK T : T = {m \in Nat : m <= n => Scanned(t, p + m) = s}
  OBVIOUS
<1>2. 0 \in T
  <2>1. p + 0 = p
    OBVIOUS
  <2> QED
    BY <1>0, <1>1, <2>1
<1>3. ASSUME NEW m \in Nat, m \in T
      PROVE  m + 1 \in T
  <2> SUFFICES ASSUME m + 1 <= n PROVE Scanned(t, p + (m + 1)) = s
    BY <1>1
  <2>1. p + m \in Nat /\ (p + m) + 1 = p + (m + 1) /\ m + 1 \in 1..n
    OBVIOUS
  <2>2. Scanned(t, p + (m + 1)) = ScanChar(t, Scanned(t, p + m), p + (m + 1))
    BY <2>1, ScannedNext
  <2>3. Scanned(t, p + m) = s
    BY <1>1, <1>3
  <2>4. s.stop # "no" \/ t[p + (m + 1)] # s.seek
    BY <1>0, <2>1
  <2>5. ScanChar(t, s, p + (m + 1)) = s
    BY <2>4, Zenon DEF ScanChar
  <2> QED
    BY <2>2, <2>3, <2>5
<1>4. Nat \subseteq T
  BY <1>2, <1>3, Induction
<1>5. n \in T
  BY <1>4
<1> QED
  BY <1>0, <1>1, <1>5

LEMMA LineSum ==
  ASSUME NEW p \in Nat, NEW n \in Nat, NEW v \in Nat
  PROVE  (p + (n + 1 + v)) + 1 = p + n + v + 2
OBVIOUS

LEMMA HoldsOne ==
  ASSUME NEW t \in Texts, NEW q, NEW e \in Texts, Len(e) = 1, Holds(t, q, e)
  PROVE  q \in Nat /\ t[q + 1] = e[1] /\ q + 1 <= Len(t)
BY DEF Holds

(* The parts of a line, where the text holds them.                         *)
LineAt(t, p, field, n, v) ==
  /\ p \in Nat /\ n \in Nat /\ v \in Nat /\ p + n + v + 2 <= Len(t)
  /\ Holds(t, p, field.name) /\ t[p + n + 1] = ":"
  /\ Holds(t, p + n + 1, field.val) /\ t[p + n + v + 2] = "\n"

(* Where a text has a line, it has its name, colon, value and newline.     *)
LEMMA LineHeld ==
  ASSUME NEW t \in Texts, NEW p, NEW field \in Fields, Holds(t, p, Line(field)),
         NEW n, NEW v, n = Len(field.name), v = Len(field.val)
  PROVE  LineAt(t, p, field, n, v)
<1>1. PICK a, b, c, e : a = field.name /\ b = field.val /\ c = <<":">> /\ e = <<"\n">>
  OBVIOUS
<1>2. a \in Texts /\ b \in Texts
  BY <1>1 DEF Fields
<1>3. c \in Texts /\ e \in Texts /\ Len(c) = 1 /\ Len(e) = 1 /\ c[1] = ":" /\ e[1] = "\n"
  BY <1>1, CharsAssumption, TextOne
<1>4. n = Len(a) /\ v = Len(b)
  BY <1>1
<1>5. n \in Nat /\ v \in Nat
  BY <1>2, <1>4, TextChars
<1>6. Holds(t, p, ((a \o c) \o b) \o e)
  BY <1>1 DEF Line
<1>7. a \o c \in Texts /\ Len(a \o c) = n + 1
  <2>1. a \o c \in Texts /\ Len(a \o c) = Len(a) + Len(c)
    BY <1>2, <1>3, TextJoin
  <2> QED
    BY <1>3, <1>4, <2>1
<1>8. (a \o c) \o b \in Texts /\ Len((a \o c) \o b) = n + 1 + v
  <2>1. (a \o c) \o b \in Texts /\ Len((a \o c) \o b) = Len(a \o c) + Len(b)
    BY <1>2, <1>7, TextJoin
  <2> QED
    BY <1>4, <1>7, <2>1
<1>9. Holds(t, p, (a \o c) \o b) /\ Holds(t, p + (n + 1 + v), e)
  BY <1>3, <1>6, <1>8, HoldsConcat
<1>10. Holds(t, p, a \o c) /\ Holds(t, p + (n + 1), b)
  BY <1>2, <1>7, <1>9, HoldsConcat
<1>11. Holds(t, p, a) /\ Holds(t, p + n, c)
  BY <1>2, <1>3, <1>4, <1>10, HoldsConcat
<1>12. p \in Nat
  BY <1>11 DEF Holds
<1>13. t[p + n + 1] = ":"
  <2>1. t[(p + n) + 1] = c[1]
    BY <1>3, <1>11 DEF Holds
  <2> QED
    BY <1>3, <2>1
<1>14. t[p + n + v + 2] = "\n" /\ p + n + v + 2 <= Len(t)
  <2>1. t[(p + (n + 1 + v)) + 1] = e[1] /\ (p + (n + 1 + v)) + 1 <= Len(t)
    BY <1>3, <1>9, HoldsOne
  <2>2. (p + (n + 1 + v)) + 1 = p + n + v + 2
    BY <1>5, <1>12, LineSum, Zenon
  <2> QED
    BY <1>3, <2>1, <2>2
<1>15. p + (n + 1) = p + n + 1
  BY <1>5, <1>12
<1> QED
  BY <1>1, <1>5, <1>10, <1>11, <1>12, <1>13, <1>14, <1>15 DEF LineAt

(* The start of a line, up to its colon.                                   *)
LEMMA NameScanned ==
  ASSUME NEW t \in Texts, NEW fields, NEW p, NEW field \in Fields, Holds(t, p, Line(field)),
         Plain(field), Scanned(t, p) = Fresh(fields, p), NEW n, n = Len(field.name), n # 0
  PROVE  Scanned(t, p + n + 1) =
           [line |-> p + 1, colon |-> p + n + 1, seek |-> "\n", fields |-> fields,
            stop |-> IF IsBody(field) THEN "body" ELSE "no"]
<1>1. p \in Nat /\ n \in Nat /\ Holds(t, p, field.name) /\ t[p + n + 1] = ":"
  BY LineHeld DEF LineAt
<1>2. \A j \in 1..n : t[p + j] = field.name[j] /\ field.name[j] # ":"
  BY <1>1 DEF Holds, Plain
<1>3. Scanned(t, p + n) = Fresh(fields, p)
  <2>1. PICK s : s = Fresh(fields, p)
    OBVIOUS
  <2>2. s.seek = ":"
    BY <2>1 DEF Fresh
  <2>3. \A j \in 1..n : s.stop # "no" \/ t[p + j] # s.seek
    BY <1>2, <2>2
  <2>4. \A j \in 1..n : Scanned(t, p).stop # "no" \/ t[p + j] # Scanned(t, p).seek
    BY <2>1, <2>3
  <2> QED
    BY <1>1, <2>4, ScannedStays
<1>4. Scanned(t, p + n + 1) = ScanChar(t, Fresh(fields, p), p + n + 1)
  <2>1. p + n \in Nat
    BY <1>1
  <2> QED
    BY <1>3, <2>1, ScannedNext
<1>5. ScanChar(t, Fresh(fields, p), p + n + 1) = Colon(t, Fresh(fields, p), p + n + 1)
  BY <1>1 DEF ScanChar, Fresh
<1>6. t[p + 1] = field.name[1] /\ field.name # <<>> /\ p + 1 # p + n + 1
  <2>1. field.name \in Texts /\ 1 \in 1..n
    BY <1>1 DEF Fields
  <2>2. field.name # <<>>
    BY TextEmpty
  <2> QED
    BY <1>1, <1>2, <2>1, <2>2
<1>7. Colon(t, Fresh(fields, p), p + n + 1) =
        [line |-> p + 1, colon |-> p + n + 1, seek |-> "\n", fields |-> fields,
         stop |-> IF t[p + 1] = BodyName THEN "body" ELSE "no"]
  BY <1>6 DEF Colon, Fresh
<1>8. (t[p + 1] = BodyName) <=> IsBody(field)
  BY <1>6 DEF IsBody
<1> QED
  BY <1>4, <1>5, <1>7, <1>8

(* From colon and newline the scanner cuts out the field of the line.      *)
LEMMA FieldScanned ==
  ASSUME NEW t \in Texts, NEW p, NEW field \in Fields, Holds(t, p, Line(field)),
         NEW s, NEW n, n = Len(field.name), s.line = p + 1, s.colon = p + n + 1
  PROVE  FieldTo(t, s, p + n + Len(field.val) + 1) = field
<1>1. PICK v : v = Len(field.val)
  OBVIOUS
<1>2. p \in Nat /\ n \in Nat /\ v \in Nat /\ Holds(t, p, field.name) /\ Holds(t, p + n + 1, field.val)
  BY <1>1, LineHeld DEF LineAt
<1>3. field.name \in Texts /\ field.val \in Texts /\ field = [name |-> field.name, val |-> field.val]
  BY DEF Fields
<1>4. SubSeq(t, p + 1, p + n) = field.name
  BY <1>2, <1>3, HoldsSub
<1>5. SubSeq(t, (p + n + 1) + 1, (p + n + 1) + v) = field.val
  BY <1>1, <1>2, <1>3, HoldsSub
<1>6. s.colon - 1 = p + n /\ (p + n + 1) + v = p + n + v + 1
  BY <1>2
<1> QED
  BY <1>1, <1>3, <1>4, <1>5, <1>6 DEF FieldTo

(* A line that is no body is a field of its own.                           *)
LEMMA LineScanned ==
  ASSUME NEW t \in Texts, NEW fields, NEW p, NEW field \in Fields, Holds(t, p, Line(field)),
         Plain(field), Scanned(t, p) = Fresh(fields, p), field.name # <<>>, ~IsBody(field)
  PROVE  Scanned(t, p + Len(Line(field))) = Fresh(Append(fields, field), p + Len(Line(field)))
<1>1. PICK n, v : n = Len(field.name) /\ v = Len(field.val)
  OBVIOUS
<1>2. /\ p \in Nat /\ n \in Nat /\ v \in Nat /\ Holds(t, p + n + 1, field.val)
      /\ t[p + n + v + 2] = "\n"
  BY <1>1, LineHeld DEF LineAt
<1>3. n # 0
  <2>1. field.name \in Texts
    BY DEF Fields
  <2> QED
    BY <1>1, <2>1 DEF Texts
<1>4. PICK s : s = [line |-> p + 1, colon |-> p + n + 1, seek |-> "\n", fields |-> fields, stop |-> "no"]
  OBVIOUS
<1>5. Scanned(t, p + n + 1) = s
  BY <1>1, <1>3, <1>4, NameScanned
<1>6. PICK q \in Nat : q = p + n + 1
  BY <1>2
<1>7. \A j \in 1..v : t[q + j] # s.seek
  <2>1. \A j \in 1..v : t[q + j] = field.val[j] /\ field.val[j] # "\n"
    BY <1>1, <1>2, <1>6 DEF Holds, Plain
  <2> QED
    BY <1>4, <2>1
<1>8. Scanned(t, q + v) = s
  <2>1. Scanned(t, q) = s /\ v \in Nat
    BY <1>2, <1>5, <1>6
  <2>2. \A j \in 1..v : s.stop # "no" \/ t[q + j] # s.seek
    BY <1>7
  <2> QED
    BY <2>1, <2>2, ScannedStays
<1>9. PICK e \in Nat : e = q + v /\ e + 1 = p + n + v + 2 /\ e + 1 = p + Len(Line(field)) /\ e = p + n + v + 1
  <2>1. Len(Line(field)) = n + v + 2
    BY <1>1, LineType
  <2> QED
    BY <1>2, <1>6, <2>1
<1>10. Scanned(t, e + 1) = ScanChar(t, s, e + 1)
  BY <1>8, <1>9, ScannedNext
<1>11. ScanChar(t, s, e + 1) = Newline(t, s, e + 1)
  <2>1. t[e + 1] = "\n"
    BY <1>2, <1>9
  <2> QED
    BY <1>4, <2>1 DEF ScanChar
<1>12. FieldTo(t, s, (e + 1) - 1) = field
  <2>1. s.line = p + 1 /\ s.colon = p + n + 1 /\ (e + 1) - 1 = p + n + v + 1
    BY <1>4, <1>9
  <2>2. FieldTo(t, s, p + n + v + 1) = field
    BY <1>1, <2>1, FieldScanned
  <2> QED
    BY <2>1, <2>2
<1>13. Newline(t, s, e + 1) = Fresh(Append(fields, field), e + 1)
  BY <1>4, <1>12 DEF Newline, Fresh
<1> QED
  BY <1>9, <1>10, <1>11, <1>13

(* A line without a name stops the scanner.                                *)
LEMMA EmptyScanned ==
  ASSUME NEW t \in Texts, NEW fields, NEW p, NEW field \in Fields, Holds(t, p, Line(field)),
         Scanned(t, p) = Fresh(fields, p), field.name = <<>>
  PROVE  Scan(t).stop = "fail"
<1>1. p \in Nat /\ t[p + 1] = ":" /\ p + 1 <= Len(t)
  <2>1. PICK n, v : n = Len(field.name) /\ v = Len(field.val) /\ n = 0
    OBVIOUS
  <2>2. p \in Nat /\ v \in Nat /\ t[p + n + 1] = ":" /\ p + n + v + 2 <= Len(t)
    BY <2>1, LineHeld DEF LineAt
  <2>3. p + n + 1 = p + 1
    BY <2>1, <2>2
  <2>4. Len(t) \in Nat
    BY TextChars
  <2> QED
    BY <2>1, <2>2, <2>3, <2>4
<1>2. Scanned(t, p + 1) = ScanChar(t, Fresh(fields, p), p + 1)
  BY <1>1, ScannedNext
<1>3. ScanChar(t, Fresh(fields, p), p + 1) = Colon(t, Fresh(fields, p), p + 1)
  BY <1>1 DEF ScanChar, Fresh
<1>4. PICK s : s = Colon(t, Fresh(fields, p), p + 1) /\ s.stop = "fail"
  <2>1. PICK u : u = Fresh(fields, p)
    OBVIOUS
  <2>2. u.line = p + 1 /\ [u EXCEPT !.stop = "fail"].stop = "fail"
    BY <2>1 DEF Fresh
  <2>3. Colon(t, u, p + 1) = [u EXCEPT !.stop = "fail"]
    BY <2>2 DEF Colon
  <2> QED
    BY <2>1, <2>2, <2>3
<1>5. PICK q \in Nat, m \in Nat : q = p + 1 /\ q + m = Len(t)
  <2>1. p + 1 \in Nat /\ Len(t) - (p + 1) \in Nat /\ (p + 1) + (Len(t) - (p + 1)) = Len(t)
    BY <1>1, TextChars
  <2> QED
    BY <2>1
<1>6. Scanned(t, q) = s
  BY <1>2, <1>3, <1>4, <1>5
<1>7. Scanned(t, q + m) = s
  BY <1>4, <1>6, ScannedStays
<1> QED
  BY <1>4, <1>5, <1>7, ScannedAll

(* A body takes all that follows it.                                       *)
BodyAt(t, p, fields, field, rest, all) ==
  /\ Plain(field) /\ IsBody(field) /\ Scanned(t, p) = Fresh(fields, p)
  /\ all = field.val \o <<"\n">> \o rest
  /\ Holds(t, p, Line(field)) /\ Holds(t, p + Len(Line(field)), rest)
  /\ p + Len(Line(field)) + Len(rest) = Len(t)

(* At the colon of a body the scanner stops and takes what is left.        *)
LEMMA BodyScanned ==
  ASSUME NEW t \in Texts, NEW fields, NEW p, NEW field \in Fields, NEW rest \in Texts, NEW all \in Texts,
         BodyAt(t, p, fields, field, rest, all)
  PROVE  Parse(t) = [ok |-> TRUE, fields |-> Append(fields, [name |-> field.name, val |-> all])]
<1> USE DEF BodyAt
<1>1. PICK n, v : n = Len(field.name) /\ v = Len(field.val)
  OBVIOUS
<1>2. /\ p \in Nat /\ n \in Nat /\ v \in Nat /\ Holds(t, p, field.name) /\ Holds(t, p + n + 1, field.val)
      /\ t[p + n + v + 2] = "\n" /\ p + n + v + 2 <= Len(t)
  <2>1. n = Len(field.name) /\ v = Len(field.val) /\ Holds(t, p, Line(field))
    BY <1>1
  <2>2. LineAt(t, p, field, n, v)
    BY <2>1, LineHeld, Zenon
  <2> QED
    BY <2>2 DEF LineAt
<1>3. field.name \in Texts /\ field.val \in Texts
  BY DEF Fields
<1>4. n # 0
  BY <1>1, <1>3 DEF IsBody, Texts
<1>5. PICK s : s = [line |-> p + 1, colon |-> p + n + 1, seek |-> "\n", fields |-> fields, stop |-> "body"]
  OBVIOUS
<1>6. Scanned(t, p + n + 1) = s
  BY <1>1, <1>4, <1>5, NameScanned
<1>7. PICK q \in Nat, m \in Nat : q = p + n + 1 /\ q + m = Len(t)
  <2>1. p + n + 1 \in Nat /\ Len(t) - (p + n + 1) \in Nat /\ (p + n + 1) + (Len(t) - (p + n + 1)) = Len(t)
    BY <1>2, TextChars
  <2> QED
    BY <2>1
<1>8. Scanned(t, q + m) = s
  BY <1>5, <1>6, <1>7, ScannedStays
<1>9. Scan(t) = s
  BY <1>7, <1>8, ScannedAll
<1>10. SubSeq(t, p + 1, p + n) = field.name
  BY <1>1, <1>2, <1>3, HoldsSub
<1>11. Holds(t, q, all) /\ q + Len(all) = Len(t)
  <2>1. PICK a, e : a = field.val /\ e = <<"\n">>
    OBVIOUS
  <2>2. a \in Texts /\ e \in Texts /\ Len(e) = 1 /\ e[1] = "\n" /\ Len(a) = v
    BY <1>1, <1>3, <2>1, CharsAssumption, TextOne
  <2>3. Holds(t, q, a)
    BY <1>2, <1>7, <2>1
  <2>4. Holds(t, q + v, e)
    <3>1. q + v \in Nat /\ (q + v) + 1 = p + n + v + 2
      BY <1>2, <1>7
    <3>2. \A j \in 1..Len(e) : t[(q + v) + j] = e[j]
      <4> SUFFICES ASSUME NEW j \in 1..Len(e) PROVE t[(q + v) + j] = e[j]
        OBVIOUS
      <4>1. j = 1
        BY <2>2
      <4>2. t[(q + v) + 1] = e[1]
        BY <1>2, <2>2, <3>1
      <4> QED
        BY <4>1, <4>2
    <3> QED
      BY <1>2, <2>2, <3>1, <3>2 DEF Holds
  <2>5. a \o e \in Texts /\ Len(a \o e) = v + 1
    <3>1. a \o e \in Texts /\ Len(a \o e) = Len(a) + Len(e)
      BY <2>2, TextJoin
    <3> QED
      BY <2>2, <3>1
  <2>6. Holds(t, q, a \o e)
    BY <2>2, <2>3, <2>4, HoldsConcat
  <2>7. q + Len(a \o e) = p + Len(Line(field))
    <3>1. Len(Line(field)) = n + v + 2
      BY <1>1, LineType
    <3> QED
      BY <1>2, <1>7, <2>5, <3>1
  <2>8. all = (a \o e) \o rest
    BY <2>1
  <2>9. Holds(t, q, (a \o e) \o rest)
    BY <2>5, <2>6, <2>7, HoldsConcat
  <2>10. Len((a \o e) \o rest) = Len(a \o e) + Len(rest) /\ Len(rest) \in Nat /\ Len(a \o e) \in Nat
    BY <2>5, TextJoin
  <2>11. PICK x, y : x = Len(a \o e) /\ y = Len(rest)
    OBVIOUS
  <2>12. Len(all) = x + y /\ x \in Nat /\ y \in Nat /\ q + x + y = Len(t)
    BY <2>7, <2>8, <2>10, <2>11
  <2>13. q + Len(all) = Len(t)
    BY <2>12
  <2> QED
    BY <2>8, <2>9, <2>13
<1>12. SubSeq(t, q + 1, Len(t)) = all
  <2>1. SubSeq(t, q + 1, q + Len(all)) = all
    BY <1>11, HoldsSub
  <2> QED
    BY <1>11, <2>1
<1>13. FieldTo(t, s, Len(t)) = [name |-> field.name, val |-> all]
  <2>1. s.line = p + 1 /\ s.colon = q /\ s.colon - 1 = p + n
    BY <1>2, <1>5, <1>7
  <2> QED
    BY <1>10, <1>12, <2>1 DEF FieldTo
<1>14. Scan(t).stop = "body" /\ Scan(t).fields = fields /\ FieldTo(t, Scan(t), Len(t)) = [name |-> field.name, val |-> all]
  BY <1>5, <1>9, <1>13
<1> QED
  BY <1>14, Zenon DEF Parse

(* A field that the scanner takes as it was written.                       *)
Clean(field) == Plain(field) /\ ~IsBody(field) /\ field.name # <<>>

LEMMA FrontNext ==
  ASSUME NEW S, NEW fields \in Seq(S), NEW k \in Nat, k + 1 <= Len(fields)
  PROVE  /\ SubSeq(fields, 1, k + 1) = Append(SubSeq(fields, 1, k), fields[k + 1])
         /\ SubSeq(fields, 1, 0) = <<>> /\ SubSeq(fields, 1, Len(fields)) = fields
<1>2. fields \in Seq(S)
  OBVIOUS
<1>3. SubSeq(fields, 1, k) \in Seq(S) /\ Len(SubSeq(fields, 1, k)) = k
  BY <1>2
<1>4. SubSeq(fields, 1, k + 1) \in Seq(S) /\ Len(SubSeq(fields, 1, k + 1)) = k + 1
  BY <1>2
<1>5. Append(SubSeq(fields, 1, k), fields[k + 1]) \in Seq(S) /\ Len(Append(SubSeq(fields, 1, k), fields[k + 1])) = k + 1
  BY <1>2, <1>3
<1>6. \A i \in 1..(k + 1) : SubSeq(fields, 1, k + 1)[i] = Append(SubSeq(fields, 1, k), fields[k + 1])[i]
  BY <1>2, <1>3
<1>7. SubSeq(fields, 1, k + 1) = Append(SubSeq(fields, 1, k), fields[k + 1])
  BY <1>4, <1>5, <1>6, SeqEqual
<1>8. SubSeq(fields, 1, 0) = <<>>
  BY <1>2
<1>9. SubSeq(fields, 1, Len(fields)) = fields
  BY <1>2
<1> QED
  BY <1>7, <1>8, <1>9

(* The text of a message, line by line.                                    *)
LEMMA LinesHeld ==
  ASSUME NEW fields \in Seq(Fields), NEW k \in Nat, k + 1 <= Len(fields)
  PROVE  /\ Len(Prefix(Lines(fields), k)) \in Nat
         /\ Holds(BodyText(fields), Len(Prefix(Lines(fields), k)), Line(fields[k + 1]))
         /\ Len(Prefix(Lines(fields), k + 1)) = Len(Prefix(Lines(fields), k)) + Len(Line(fields[k + 1]))
<1>1. PICK ls \in Seq(Texts) : ls = Lines(fields) /\ Len(ls) = Len(fields) /\ BodyText(fields) = FlattenSeq(ls)
  BY LinesType
<1>2. k \in 0..(Len(ls) - 1) /\ k + 1 \in 1..Len(ls) /\ k \in 0..Len(ls)
  BY <1>1
<1>3. ls[k + 1] = Line(fields[k + 1]) /\ ls[k + 1] \in Texts
  BY <1>1, <1>2 DEF Lines
<1>4. Prefix(ls, k) \in Texts
  BY <1>2, PrefixType
<1>5. Prefix(ls, k + 1) = Prefix(ls, k) \o ls[k + 1]
  BY <1>2, PrefixNext
<1>6. Len(Prefix(ls, k + 1)) = Len(Prefix(ls, k)) + Len(ls[k + 1]) /\ Len(Prefix(ls, k)) \in Nat
  BY <1>3, <1>4, <1>5, TextJoin
<1>7. PICK t \in Texts : t = FlattenSeq(ls)
  BY FlattenType
<1>8. Holds(t, 0, t)
  BY HoldsSelf
<1>9. Holds(t, 0 + Len(Prefix(ls, k)), ls[k + 1])
  <2>1. Holds(t, 0, FlattenSeq(ls))
    BY <1>7, <1>8
  <2> QED
    BY <1>2, <2>1, HoldsPieces
<1>10. Holds(t, Len(Prefix(ls, k)), ls[k + 1])
  BY <1>6, <1>9
<1> QED
  BY <1>1, <1>3, <1>6, <1>7, <1>10

(* After n clean lines the scanner has their fields and starts a line.     *)
LEMMA BeforeScanned ==
  ASSUME NEW fields \in Seq(Fields), NEW n \in 0..Len(fields), \A j \in 1..n : Clean(fields[j])
  PROVE  Scanned(BodyText(fields), Len(Prefix(Lines(fields), n))) =
           Fresh(SubSeq(fields, 1, n), Len(Prefix(Lines(fields), n)))
<1>1. PICK t \in Texts : t = BodyText(fields)
  BY LinesType
<1>2. PICK T : T = {k \in Nat : k <= n =>
                      Scanned(t, Len(Prefix(Lines(fields), k))) =
                        Fresh(SubSeq(fields, 1, k), Len(Prefix(Lines(fields), k)))}
  OBVIOUS
<1>3. 0 \in T
  <2>1. Prefix(Lines(fields), 0) = <<>> /\ Len(<<>>) = 0
    BY LinesType, PrefixNext
  <2>2. SubSeq(fields, 1, 0) = <<>>
    OBVIOUS
  <2>3. Scanned(t, 0) = Fresh(<<>>, 0)
    BY ScannedStart
  <2>4. Len(Prefix(Lines(fields), 0)) = 0
    BY <2>1
  <2>5. Scanned(t, Len(Prefix(Lines(fields), 0))) = Fresh(SubSeq(fields, 1, 0), Len(Prefix(Lines(fields), 0)))
    BY <2>2, <2>3, <2>4
  <2> QED
    BY <1>2, <2>5
<1>4. ASSUME NEW k \in Nat, k \in T
      PROVE  k + 1 \in T
  <2> SUFFICES ASSUME k + 1 <= n
               PROVE  Scanned(t, Len(Prefix(Lines(fields), k + 1))) =
                        Fresh(SubSeq(fields, 1, k + 1), Len(Prefix(Lines(fields), k + 1)))
    BY <1>2
  <2>1. k + 1 <= Len(fields) /\ k + 1 \in 1..n /\ k <= n
    OBVIOUS
  <2>2. PICK p, q, field : p = Len(Prefix(Lines(fields), k)) /\ q = Len(Prefix(Lines(fields), k + 1))
                           /\ field = fields[k + 1]
    OBVIOUS
  <2>3. field \in Fields /\ Clean(field)
    BY <2>1, <2>2
  <2>4. p \in Nat /\ Holds(t, p, Line(field)) /\ q = p + Len(Line(field))
    BY <1>1, <2>1, <2>2, LinesHeld
  <2>5. PICK before : before = SubSeq(fields, 1, k) /\ SubSeq(fields, 1, k + 1) = Append(before, field)
    BY <2>1, <2>2, FrontNext
  <2>6. Scanned(t, p) = Fresh(before, p)
    BY <1>2, <1>4, <2>1, <2>2, <2>5
  <2>7. Plain(field) /\ ~IsBody(field) /\ field.name # <<>>
    BY <2>3 DEF Clean
  <2>8. Scanned(t, q) = Fresh(Append(before, field), q)
    BY <2>3, <2>4, <2>6, <2>7, LineScanned
  <2> QED
    BY <2>2, <2>5, <2>8
<1>5. Nat \subseteq T
  BY <1>3, <1>4, Induction
<1>6. n \in T
  BY <1>5
<1> QED
  BY <1>1, <1>2, <1>6

(* A message of clean fields is scanned as it was written.                 *)
THEOREM CleanParsed ==
  ASSUME NEW fields \in Seq(Fields), \A j \in 1..Len(fields) : Clean(fields[j])
  PROVE  Parse(BodyText(fields)) = [ok |-> TRUE, fields |-> fields]
<1>1. PICK t \in Texts : t = BodyText(fields)
  BY LinesType
<1>2. PICK n \in 0..Len(fields) : n = Len(fields)
  OBVIOUS
<1>3. Len(Prefix(Lines(fields), n)) = Len(t)
  <2>1. PICK ls \in Seq(Texts) : ls = Lines(fields) /\ Len(ls) = Len(fields) /\ BodyText(fields) = FlattenSeq(ls)
    BY LinesType
  <2>2. FlattenSeq(ls) = Prefix(ls, Len(ls))
    BY FlattenIsPrefix
  <2> QED
    BY <1>1, <1>2, <2>1, <2>2
<1>4. SubSeq(fields, 1, n) = fields
  BY <1>2
<1>5. \A j \in 1..n : Clean(fields[j])
  BY <1>2
<1>6. Scanned(t, Len(t)) = Fresh(fields, Len(t))
  BY <1>1, <1>3, <1>4, <1>5, BeforeScanned
<1>7. PICK s : s = Scan(t) /\ s = Fresh(fields, Len(t))
  BY <1>6, ScannedAll
<1>8. s.stop = "no" /\ s.fields = fields
  BY <1>7 DEF Fresh
<1> QED
  BY <1>1, <1>7, <1>8 DEF Parse

(* The first of the fields at which the scanner does not go on.            *)
LEMMA FirstStop ==
  ASSUME NEW fields \in Seq(Fields)
  PROVE  \/ \A j \in 1..Len(fields) : ~IsBody(fields[j]) /\ fields[j].name # <<>>
         \/ \E k \in Nat : /\ k + 1 <= Len(fields)
                           /\ IsBody(fields[k + 1]) \/ fields[k + 1].name = <<>>
                           /\ \A j \in 1..k : ~IsBody(fields[j]) /\ fields[j].name # <<>>
<1> DEFINE Goes(j) == ~IsBody(fields[j]) /\ fields[j].name # <<>>
<1> SUFFICES ASSUME \A k \in Nat : ~(k + 1 <= Len(fields) /\ ~Goes(k + 1) /\ \A j \in 1..k : Goes(j))
             PROVE  \A j \in 1..Len(fields) : Goes(j)
  OBVIOUS
<1> HIDE DEF Goes
<1>1. PICK n \in Nat : n = Len(fields)
  OBVIOUS
<1>2. PICK T : T = {k \in Nat : k <= n => \A j \in 1..k : Goes(j)}
  OBVIOUS
<1>3. 0 \in T
  BY <1>2
<1>4. ASSUME NEW k \in Nat, k \in T
      PROVE  k + 1 \in T
  <2> SUFFICES ASSUME k + 1 <= n, NEW j \in 1..(k + 1) PROVE Goes(j)
    BY <1>2
  <2>1. \A i \in 1..k : Goes(i)
    BY <1>2, <1>4
  <2>2. Goes(k + 1)
    BY <1>1, <2>1
  <2>3. j = k + 1 \/ j \in 1..k
    OBVIOUS
  <2> QED
    BY <2>1, <2>2, <2>3
<1>5. Nat \subseteq T
  BY <1>3, <1>4, Induction
<1>6. n \in T
  BY <1>5
<1> QED
  BY <1>1, <1>2, <1>6

(* FirstBody is the first field that is a body, 0 if none is.              *)
LEMMA FirstBodyIs ==
  ASSUME NEW fields \in Seq(Fields)
  PROVE  /\ (\A j \in 1..Len(fields) : ~IsBody(fields[j])) => FirstBody(fields) = 0
         /\ \A k \in Nat : k + 1 <= Len(fields) /\ IsBody(fields[k + 1]) /\ (\A j \in 1..k : ~IsBody(fields[j]))
                             => FirstBody(fields) = k + 1
<1>1. PICK B : B = {j \in 1..Len(fields) : IsBody(fields[j])}
  OBVIOUS
<1>2. FirstBody(fields) = IF B # {} THEN Min(B) ELSE 0
  BY <1>1 DEF FirstBody, SelectInSeq
<1>3. ASSUME \A j \in 1..Len(fields) : ~IsBody(fields[j])
      PROVE  FirstBody(fields) = 0
  BY <1>1, <1>2, <1>3
<1>4. ASSUME NEW k \in Nat, k + 1 <= Len(fields), IsBody(fields[k + 1]), \A j \in 1..k : ~IsBody(fields[j])
      PROVE  FirstBody(fields) = k + 1
  <2>1. k + 1 \in B
    BY <1>1, <1>4
  <2>2. \A j \in B : j \in Nat /\ k + 1 <= j
    BY <1>1, <1>4
  <2>3. Min(B) \in B /\ \A j \in B : Min(B) <= j
    BY <2>1, <2>2 DEF Min
  <2>4. Min(B) = k + 1
    BY <2>1, <2>2, <2>3
  <2> QED
    BY <1>2, <2>1, <2>4
<1> QED
  BY <1>3, <1>4

(* The text after the first k lines is that of the fields after them.      *)
LEMMA RestText ==
  ASSUME NEW fields \in Seq(Fields), NEW k \in 0..Len(fields), NEW rest, rest = SubSeq(fields, k + 1, Len(fields))
  PROVE  /\ BodyText(rest) \in Texts
         /\ BodyText(fields) = Prefix(Lines(fields), k) \o BodyText(rest)
<1>1. PICK S : S = Fields
  OBVIOUS
<1>2. rest \in Seq(S) /\ Len(rest) = Len(fields) - k
  BY <1>1
<1>3. \A i \in 1..Len(rest) : rest[i] = fields[k + i]
  BY <1>1, <1>2
<1>4. PICK ls \in Seq(Texts), rs \in Seq(Texts) :
        /\ ls = Lines(fields) /\ Len(ls) = Len(fields) /\ BodyText(fields) = FlattenSeq(ls)
        /\ rs = Lines(rest) /\ Len(rs) = Len(rest) /\ BodyText(rest) = FlattenSeq(rs)
  BY <1>1, <1>2, LinesType
<1>5. \A i \in 1..Len(rs) : rs[i] = ls[k + i]
  <2> SUFFICES ASSUME NEW i \in 1..Len(rs) PROVE rs[i] = ls[k + i]
    OBVIOUS
  <2>1. i \in 1..Len(rest) /\ k + i \in 1..Len(fields)
    BY <1>2, <1>4
  <2> QED
    BY <1>3, <1>4, <2>1 DEF Lines
<1>6. Len(rs) = Len(ls) - k /\ k \in 0..Len(ls)
  BY <1>2, <1>4
<1>7. FlattenSeq(ls) = Prefix(ls, k) \o FlattenSeq(rs)
  BY <1>5, <1>6, PrefixRest
<1>8. FlattenSeq(rs) \in Texts
  BY FlattenType
<1> QED
  BY <1>4, <1>7, <1>8

(* What a program wrote is what a scanner finds: field by field, up to a   *)
(* body, which takes all that follows; only a line without a name stops it. *)
THEOREM ScanReceived ==
  ASSUME NEW fields \in Messages
  PROVE  IF Parse(BodyText(fields)).ok THEN Parse(BodyText(fields)).fields = AsReceived(fields)
         ELSE \E i \in DOMAIN fields : fields[i].name = <<>>
<1>1. fields \in Seq(Fields)
  BY DEF Messages
<1>2. \A j \in 1..Len(fields) : Plain(fields[j]) \/ \E i \in 1..(j - 1) : IsBody(fields[i])
  BY DEF Messages
<1>3. PICK t \in Texts : t = BodyText(fields)
  BY <1>1, LinesType
<1>4. CASE \A j \in 1..Len(fields) : ~IsBody(fields[j]) /\ fields[j].name # <<>>
  <2>1. \A j \in 1..Len(fields) : Clean(fields[j])
    BY <1>2, <1>4 DEF Clean
  <2>2. PICK r : r = Parse(t) /\ r = [ok |-> TRUE, fields |-> fields]
    BY <1>1, <1>3, <2>1, CleanParsed
  <2>3. FirstBody(fields) = 0
    BY <1>1, <1>4, FirstBodyIs
  <2>4. AsReceived(fields) = fields
    BY <2>3 DEF AsReceived
  <2>5. r.ok /\ r.fields = fields
    BY <2>2
  <2> QED
    BY <1>3, <2>2, <2>4, <2>5
<1>5. ASSUME NEW k \in Nat, k + 1 <= Len(fields), IsBody(fields[k + 1]) \/ fields[k + 1].name = <<>>,
             \A j \in 1..k : ~IsBody(fields[j]) /\ fields[j].name # <<>>
      PROVE  IF Parse(t).ok THEN Parse(t).fields = AsReceived(fields)
             ELSE \E i \in DOMAIN fields : fields[i].name = <<>>
  <2>1. \A j \in 1..(k + 1) : Plain(fields[j])
    <3> SUFFICES ASSUME NEW j \in 1..(k + 1) PROVE Plain(fields[j])
      OBVIOUS
    <3>1. j \in 1..Len(fields) /\ \A i \in 1..(j - 1) : i \in 1..k
      BY <1>1, <1>5
    <3> QED
      BY <1>2, <1>5, <3>1
  <2>2. \A j \in 1..k : Clean(fields[j])
    BY <1>5, <2>1 DEF Clean
  <2>3. PICK field \in Fields : field = fields[k + 1] /\ Plain(field)
    BY <1>1, <1>5, <2>1
  <2>4. PICK p, before : p = Len(Prefix(Lines(fields), k)) /\ before = SubSeq(fields, 1, k)
    OBVIOUS
  <2>5. k \in 0..Len(fields) /\ k + 1 \in 0..Len(fields)
    BY <1>1, <1>5
  <2>6. Scanned(t, p) = Fresh(before, p)
    BY <1>1, <1>3, <2>2, <2>4, <2>5, BeforeScanned
  <2>7. p \in Nat /\ Holds(t, p, Line(field)) /\ Len(Prefix(Lines(fields), k + 1)) = p + Len(Line(field))
    BY <1>1, <1>3, <1>5, <2>3, <2>4, LinesHeld
  <2>8. CASE field.name = <<>>
    <3>1. Scan(t).stop = "fail"
      BY <2>3, <2>6, <2>7, <2>8, EmptyScanned
    <3>2. ~Parse(t).ok
      BY <3>1 DEF Parse
    <3>3. k + 1 \in DOMAIN fields
      BY <1>1, <1>5
    <3> QED
      BY <2>3, <2>8, <3>2, <3>3
  <2>9. CASE field.name # <<>>
    <3>1. IsBody(field)
      BY <1>5, <2>3, <2>9
    <3>2. PICK rest : rest = BodyText(SubSeq(fields, k + 2, Len(fields)))
      OBVIOUS
    <3>3. (k + 1) + 1 = k + 2
      OBVIOUS
    <3>4. PICK pre : pre = Prefix(Lines(fields), k + 1)
      OBVIOUS
    <3>5. rest \in Texts /\ t = pre \o rest
      BY <1>1, <1>3, <2>5, <3>2, <3>3, <3>4, RestText
    <3>6. pre \in Texts
      <4>1. Lines(fields) \in Seq(Texts) /\ Len(Lines(fields)) = Len(fields)
        BY <1>1, LinesType
      <4> QED
        BY <2>5, <3>4, <4>1, PrefixType
    <3>7. Holds(t, 0, pre \o rest)
      BY <3>5, HoldsSelf
    <3>8. Holds(t, 0 + Len(pre), rest)
      BY <3>5, <3>6, <3>7, HoldsConcat
    <3>9. Len(t) = Len(pre) + Len(rest) /\ Len(pre) \in Nat
      BY <3>5, <3>6, TextJoin
    <3>10. Len(pre) = p + Len(Line(field)) /\ 0 + Len(pre) = Len(pre)
      BY <2>7, <3>4, <3>9
    <3>11. Holds(t, p + Len(Line(field)), rest) /\ p + Len(Line(field)) + Len(rest) = Len(t)
      BY <3>8, <3>9, <3>10
    <3>12. PICK all : all = field.val \o <<"\n">> \o rest
      OBVIOUS
    <3>13. all \in Texts
      <4>1. PICK a, e : a = field.val /\ e = <<"\n">>
        OBVIOUS
      <4>2. a \in Texts
        BY <4>1 DEF Fields
      <4>3. e \in Texts
        BY <4>1, CharsAssumption, TextOne
      <4>4. a \o e \in Texts
        BY <4>2, <4>3, TextJoin
      <4>5. (a \o e) \o rest \in Texts
        BY <3>5, <4>4, TextJoin
      <4> QED
        BY <3>12, <4>1, <4>5
    <3>14. PICK r : r = Parse(t) /\ r = [ok |-> TRUE, fields |-> Append(before, [name |-> field.name, val |-> all])]
      <4>1. Plain(field) /\ Holds(t, p, Line(field))
        BY <2>3, <2>7
      <4>2. Parse(t) = [ok |-> TRUE, fields |-> Append(before, [name |-> field.name, val |-> all])]
        <5>1. BodyAt(t, p, before, field, rest, all)
          BY <2>6, <3>1, <3>11, <3>12, <4>1 DEF BodyAt
        <5> QED
          BY <3>5, <3>13, <5>1, BodyScanned
      <4> QED
        BY <4>2
    <3>15. FirstBody(fields) = k + 1
      BY <1>1, <1>5, <2>3, <3>1, FirstBodyIs
    <3>16. AsReceived(fields) = Append(before, [name |-> field.name, val |-> all])
      <4>1. k + 1 # 0 /\ (k + 1) - 1 = k
        OBVIOUS
      <4>2. all = fields[k + 1].val \o <<"\n">> \o BodyText(SubSeq(fields, (k + 1) + 1, Len(fields)))
        BY <2>3, <3>2, <3>3, <3>12
      <4> QED
        BY <2>3, <2>4, <3>15, <4>1, <4>2 DEF AsReceived
    <3>17. r.ok /\ r.fields = AsReceived(fields)
      BY <3>14, <3>16
    <3> QED
      BY <3>14, <3>17
  <2> QED
    BY <2>8, <2>9
<1> QED
  BY <1>1, <1>3, <1>4, <1>5, FirstStop

-----------------------------------------------------------------------------
(* Strings of the printer and parser, escapes included.                    *)
LEMMA LetterFacts ==
  /\ DOMAIN Letter = {Quote, "\\", "\n", "\t"}
  /\ Letter[Quote] = Quote /\ Letter["\\"] = "\\" /\ Letter["\n"] = "n" /\ Letter["\t"] = "t"
BY DEF Letter, Quote

(* The parser undoes each escape of the printer.                           *)
LEMMA UnescapeFacts ==
  ASSUME NEW c \in DOMAIN Letter
  PROVE  Unescape(Letter[c]) = c /\ Letter[c] # "u" /\ Letter[c] # "\n"
<1>1. \A k \in DOMAIN Letter : Letter[k] = Letter[c] => k = c
  BY LetterFacts DEF Quote
<1>2. Unescape(Letter[c]) = CHOOSE k \in DOMAIN Letter : Letter[k] = Letter[c]
  BY DEF Unescape
<1>3. Unescape(Letter[c]) = c
  BY <1>1, <1>2
<1> QED
  BY <1>3, LetterFacts DEF Quote

(* What is written for a character: as long as it was counted, and         *)
(* without a newline.                                                      *)
LEMMA EscapeFacts ==
  ASSUME NEW c \in Chars
  PROVE  /\ Escape(c) \in Texts /\ Len(Escape(c)) = EscapeSize(c) /\ EscapeSize(c) \in Nat \ {0}
         /\ \A i \in 1..Len(Escape(c)) : Escape(c)[i] # "\n"
<1>1. CASE c \in DOMAIN Letter
  <2>0. c # Control
    BY <1>1, LetterFacts DEF Control, Quote
  <2>1. Escape(c) = <<"\\", Letter[c]>> /\ EscapeSize(c) = 2
    BY <1>1, <2>0 DEF Escape, EscapeSize
  <2>2. "\\" \in Chars /\ Letter[c] \in Chars /\ Letter[c] # "\n"
    BY <1>1, LetterFacts, CharsAssumption DEF Quote
  <2>3. <<"\\", Letter[c]>> \in Texts
    BY <2>2 DEF Texts
  <2> QED
    BY <2>1, <2>2, <2>3
<1>2. CASE c = Control
  <2>1. c \notin DOMAIN Letter
    BY <1>2, LetterFacts DEF Control, Quote
  <2>2. Escape(c) = <<"\\", "u", "0", "0", "0", "1">> /\ EscapeSize(c) = 6
    BY <1>2, <2>1 DEF Escape, EscapeSize
  <2>3. "0" \in Chars /\ "1" \in Chars
    <3>1. DigitChars[1] = "0" /\ DigitChars[2] = "1"
      BY DEF DigitChars
    <3>2. \A k \in 1..10 : DigitChars[k] \in Chars
      BY CharsAssumption
    <3> QED
      BY <3>1, <3>2
  <2>4. "\\" \in Chars /\ "u" \in Chars
    BY CharsAssumption
  <2>5. <<"\\", "u", "0", "0", "0", "1">> \in Texts
    BY <2>3, <2>4 DEF Texts
  <2> QED
    BY <2>2, <2>5
<1>3. CASE c \notin DOMAIN Letter /\ c # Control
  <2>1. Escape(c) = <<c>> /\ EscapeSize(c) = 1
    BY <1>3 DEF Escape, EscapeSize
  <2>2. c # "\n"
    BY <1>3, LetterFacts
  <2> QED
    BY <2>1, <2>2, TextOne
<1> QED
  BY <1>1, <1>2, <1>3

(* The pieces that are written for a string.                               *)
Escapes(s) == [i \in 1..Len(s) |-> Escape(s[i])]

(* The text of a string is its characters as written, in quotes.           *)
LEMMA EscapesType ==
  ASSUME NEW s \in Texts
  PROVE  /\ Escapes(s) \in Seq(Texts) /\ Len(Escapes(s)) = Len(s)
         /\ FlattenSeq(Escapes(s)) \in Texts
         /\ StringText(s) = <<Quote>> \o FlattenSeq(Escapes(s)) \o <<Quote>>
<1>1. \A i \in 1..Len(s) : Escape(s[i]) \in Texts
  BY TextChars, EscapeFacts
<1>2. Len(s) \in Nat
  BY TextChars
<1>3. Escapes(s) \in Seq(Texts) /\ Len(Escapes(s)) = Len(s)
  BY <1>1, <1>2 DEF Escapes
<1>4. StringText(s) = <<Quote>> \o FlattenSeq(Escapes(s)) \o <<Quote>>
  BY DEF StringText, Escapes
<1> QED
  BY <1>3, <1>4, FlattenType

NoSize(s) == 3
AddSize(s, n, i) == n + EscapeSize(s[i])
Sizing == INSTANCE Loop WITH Start <- NoSize, Step <- AddSize

(* The text of a string is shorter than what is borrowed for it.           *)
LEMMA StringFits ==
  ASSUME NEW s \in Texts
  PROVE  StringText(s) \in Texts /\ Len(StringText(s)) + 1 = StringSize(s)
<1>1. PICK es \in Seq(Texts) : es = Escapes(s) /\ Len(es) = Len(s)
  BY EscapesType
<1>2. PICK n \in Nat : n = Len(s)
  BY TextChars
<1>3. PICK T : T = {k \in Nat : k <= n => Len(Prefix(es, k)) + 3 = Sizing!After(s, k)}
  OBVIOUS
<1>4. 0 \in T
  <2>1. Sizing!After(s, 0) = 3
    BY Sizing!AfterZero DEF NoSize
  <2>2. Prefix(es, 0) = <<>> /\ Len(<<>>) = 0
    BY PrefixNext
  <2> QED
    BY <1>3, <2>1, <2>2
<1>5. ASSUME NEW k \in Nat, k \in T
      PROVE  k + 1 \in T
  <2> SUFFICES ASSUME k + 1 <= n PROVE Len(Prefix(es, k + 1)) + 3 = Sizing!After(s, k + 1)
    BY <1>3
  <2>1. Sizing!After(s, k + 1) = Sizing!After(s, k) + EscapeSize(s[k + 1])
    BY Sizing!AfterNext DEF AddSize
  <2>2. k \in 0..(Len(es) - 1) /\ k + 1 \in 1..Len(s)
    BY <1>1, <1>2
  <2>3. Prefix(es, k + 1) = Prefix(es, k) \o es[k + 1]
    BY <2>2, PrefixNext
  <2>4. es[k + 1] = Escape(s[k + 1]) /\ s[k + 1] \in Chars
    BY <1>1, <2>2, TextChars DEF Escapes
  <2>5. es[k + 1] \in Texts /\ Len(es[k + 1]) = EscapeSize(s[k + 1])
    BY <2>4, EscapeFacts
  <2>6. Prefix(es, k) \in Texts
    BY <2>2, PrefixType
  <2>7. Len(Prefix(es, k + 1)) = Len(Prefix(es, k)) + Len(es[k + 1]) /\ Len(Prefix(es, k)) \in Nat /\ Len(es[k + 1]) \in Nat
    BY <2>3, <2>5, <2>6, TextJoin
  <2>8. Len(Prefix(es, k)) + 3 = Sizing!After(s, k)
    BY <1>3, <1>5, <2>2
  <2>9. PICK a \in Nat, b \in Nat : a = Len(Prefix(es, k)) /\ b = Len(es[k + 1])
    BY <2>7
  <2>10. Len(Prefix(es, k + 1)) = a + b /\ Sizing!After(s, k + 1) = (a + 3) + b
    BY <2>1, <2>5, <2>7, <2>8, <2>9
  <2> QED
    BY <2>10
<1>6. Nat \subseteq T
  BY <1>4, <1>5, Induction
<1>7. Len(Prefix(es, n)) + 3 = Sizing!After(s, n)
  <2>1. n \in T
    BY <1>6
  <2> QED
    BY <1>3, <2>1
<1>8. StringSize(s) = Sizing!After(s, Len(s))
  BY DEF StringSize, Sizing!After, NoSize, AddSize
<1>9. PICK q, f : q = <<Quote>> /\ f = FlattenSeq(es)
  OBVIOUS
<1>10. q \in Texts /\ Len(q) = 1
  BY <1>9, CharsAssumption, TextOne
<1>11. f \in Texts /\ Len(f) = Len(Prefix(es, n))
  BY <1>1, <1>2, <1>9, FlattenType, FlattenIsPrefix
<1>12. q \o f \in Texts /\ Len(q \o f) = Len(q) + Len(f) /\ Len(f) \in Nat
  BY <1>10, <1>11, TextJoin
<1>13. (q \o f) \o q \in Texts /\ Len((q \o f) \o q) = Len(q \o f) + Len(q)
  BY <1>10, <1>12, TextJoin
<1>14. StringText(s) = (q \o f) \o q
  BY <1>1, <1>9, EscapesType
<1>15. PICK m \in Nat : m = Len(f)
  BY <1>12
<1>16. Len(StringText(s)) = m + 2 /\ m + 3 = StringSize(s)
  BY <1>2, <1>7, <1>8, <1>10, <1>11, <1>12, <1>13, <1>14, <1>15
<1> QED
  BY <1>13, <1>14, <1>16

(* A text without a newline.                                               *)
Unbroken(t) == \A i \in 1..Len(t) : t[i] # "\n"

LEMMA UnbrokenJoin ==
  ASSUME NEW a \in Texts, NEW b \in Texts, Unbroken(a), Unbroken(b)
  PROVE  Unbroken(a \o b)
<1>1. PICK m, n : m = Len(a) /\ n = Len(b)
  OBVIOUS
<1>2. /\ m \in Nat /\ n \in Nat /\ Len(a \o b) = m + n
      /\ \A i \in 1..(m + n) : (a \o b)[i] = IF i <= m THEN a[i] ELSE b[i - m]
  BY <1>1, TextConcat
<1>3. ASSUME NEW i \in 1..(m + n)
      PROVE  (a \o b)[i] # "\n"
  <2>1. CASE i <= m
    <3>1. i \in 1..Len(a) /\ (a \o b)[i] = a[i]
      BY <1>1, <1>2, <2>1
    <3> QED
      BY <3>1 DEF Unbroken
  <2>2. CASE ~(i <= m)
    <3>1. i - m \in 1..Len(b) /\ (a \o b)[i] = b[i - m]
      BY <1>1, <1>2, <2>2
    <3> QED
      BY <3>1 DEF Unbroken
  <2> QED
    BY <2>1, <2>2
<1> QED
  BY <1>2, <1>3 DEF Unbroken

LEMMA UnbrokenFlatten ==
  ASSUME NEW seqs \in Seq(Texts), \A k \in 1..Len(seqs) : Unbroken(seqs[k])
  PROVE  Unbroken(FlattenSeq(seqs))
<1>1. PICK n \in Nat : n = Len(seqs)
  OBVIOUS
<1>2. PICK T : T = {k \in Nat : k <= n => Unbroken(Prefix(seqs, k))}
  OBVIOUS
<1>3. 0 \in T
  <2>1. Prefix(seqs, 0) = <<>> /\ Len(<<>>) = 0
    BY PrefixNext
  <2>2. Unbroken(<<>>)
    BY <2>1 DEF Unbroken
  <2> QED
    BY <1>2, <2>1, <2>2
<1>4. ASSUME NEW k \in Nat, k \in T
      PROVE  k + 1 \in T
  <2> SUFFICES ASSUME k + 1 <= n PROVE Unbroken(Prefix(seqs, k + 1))
    BY <1>2
  <2>1. k \in 0..(Len(seqs) - 1) /\ k + 1 \in 1..Len(seqs) /\ k \in 0..Len(seqs)
    BY <1>1
  <2>2. Prefix(seqs, k + 1) = Prefix(seqs, k) \o seqs[k + 1]
    BY <2>1, PrefixNext
  <2>3. Prefix(seqs, k) \in Texts /\ seqs[k + 1] \in Texts
    BY <2>1, PrefixType
  <2>4. Unbroken(Prefix(seqs, k)) /\ Unbroken(seqs[k + 1])
    BY <1>2, <1>4, <2>1
  <2> QED
    BY <2>2, <2>3, <2>4, UnbrokenJoin
<1>5. Nat \subseteq T
  BY <1>3, <1>4, Induction
<1>6. n \in T
  BY <1>5
<1> QED
  BY <1>1, <1>2, <1>6, FlattenIsPrefix

LEMMA UnbrokenOne ==
  ASSUME NEW c \in Chars, c # "\n"
  PROVE  Unbroken(<<c>>)
BY DEF Unbroken

(* The text of a string has no newline: it is escaped.                     *)
LEMMA StringUnbroken ==
  ASSUME NEW s \in Texts
  PROVE  Unbroken(StringText(s))
<1>1. PICK es \in Seq(Texts) : es = Escapes(s) /\ Len(es) = Len(s)
  BY EscapesType
<1>2. ASSUME NEW k \in 1..Len(es)
      PROVE  Unbroken(es[k])
  <2>1. s[k] \in Chars /\ es[k] = Escape(s[k])
    BY <1>1, TextChars DEF Escapes
  <2> QED
    BY <2>1, EscapeFacts DEF Unbroken
<1>3. PICK q, f : q = <<Quote>> /\ f = FlattenSeq(es)
  OBVIOUS
<1>4. q \in Texts /\ Unbroken(q)
  <2>1. Quote \in Chars /\ Quote # "\n"
    BY CharsAssumption DEF Quote
  <2> QED
    BY <1>3, <2>1, TextOne, UnbrokenOne
<1>5. f \in Texts /\ Unbroken(f)
  BY <1>2, <1>3, FlattenType, UnbrokenFlatten
<1>6. q \o f \in Texts /\ Unbroken(q \o f)
  BY <1>4, <1>5, TextJoin, UnbrokenJoin
<1>7. Unbroken((q \o f) \o q)
  BY <1>4, <1>6, UnbrokenJoin
<1> QED
  BY <1>1, <1>3, <1>7, EscapesType

LEMMA AtFacts ==
  ASSUME NEW t \in Texts, NEW i
  PROVE  /\ i \in 1..Len(t) => At(t, i) = t[i]
         /\ i \notin 1..Len(t) => At(t, i) = End
BY DEF At

(* The parser reads what was written for a character as that character.    *)
LEMMA CharRead ==
  ASSUME NEW t \in Texts, NEW p, NEW c \in Chars, Holds(t, p, Escape(c)), NEW x
  PROVE  /\ p \in Nat /\ p + 1 <= Len(t)
         /\ CharStep(t, [str |-> x, next |-> p + 1]) =
              [str |-> Append(x, c), next |-> p + 1 + EscapeSize(c)]
<1>1. PICK e, n : e = Escape(c) /\ n = EscapeSize(c)
  OBVIOUS
<1>2. e \in Texts /\ Len(e) = n /\ n \in Nat \ {0}
  BY <1>1, EscapeFacts
<1>3. p \in Nat /\ p + n <= Len(t) /\ \A j \in 1..n : t[p + j] = e[j]
  BY <1>1, <1>2 DEF Holds
<1>4. Len(t) \in Nat
  BY TextChars
<1>5. PICK s : s = [str |-> x, next |-> p + 1]
  OBVIOUS
<1>6. s.str = x /\ s.next = p + 1 /\ s.next + 1 = p + 2 /\ s.next + 2 = p + 1 + 2 /\ s.next + 6 = p + 1 + 6
      /\ s.next + 1 = p + 1 + 1
  BY <1>3, <1>5
<1>7. t[p + 1] = e[1] /\ p + 1 <= Len(t)
  BY <1>2, <1>3, <1>4
<1>8. CASE c \in DOMAIN Letter
  <2>0. c # Control
    BY <1>8, LetterFacts DEF Control, Quote
  <2>1. e = <<"\\", Letter[c]>> /\ n = 2
    BY <1>1, <1>8, <2>0 DEF Escape, EscapeSize
  <2>2. t[s.next] = "\\" /\ At(t, s.next + 1) = Letter[c]
    <3>1. t[p + 1] = "\\" /\ t[p + 2] = Letter[c] /\ p + 2 \in 1..Len(t)
      BY <1>3, <1>4, <2>1
    <3> QED
      BY <1>6, <3>1, AtFacts
  <2>3. Letter[c] # "u" /\ Unescape(Letter[c]) = c /\ "\\" # Quote
    BY <1>8, UnescapeFacts DEF Quote
  <2>4. CharStep(t, s) = [str |-> Append(s.str, Unescape(At(t, s.next + 1))), next |-> s.next + 2]
    BY <2>2, <2>3 DEF CharStep
  <2>5. CharStep(t, s) = [str |-> Append(x, c), next |-> p + 1 + n]
    BY <1>6, <2>1, <2>2, <2>3, <2>4
  <2> QED
    BY <1>1, <1>3, <1>5, <1>7, <2>5
<1>9. CASE c = Control
  <2>1. c \notin DOMAIN Letter
    BY <1>9, LetterFacts DEF Control, Quote
  <2>2. e = <<"\\", "u", "0", "0", "0", "1">> /\ n = 6
    BY <1>1, <1>9, <2>1 DEF Escape, EscapeSize
  <2>3. t[s.next] = "\\" /\ At(t, s.next + 1) = "u"
    <3>1. t[p + 1] = "\\" /\ t[p + 2] = "u" /\ p + 2 \in 1..Len(t)
      BY <1>3, <1>4, <2>2
    <3> QED
      BY <1>6, <3>1, AtFacts
  <2>4. CharStep(t, s) = [str |-> Append(s.str, Control), next |-> s.next + 6]
    BY <2>3 DEF CharStep, Quote
  <2>5. CharStep(t, s) = [str |-> Append(x, c), next |-> p + 1 + n]
    BY <1>6, <1>9, <2>2, <2>4
  <2> QED
    BY <1>1, <1>3, <1>5, <1>7, <2>5
<1>10. CASE c \notin DOMAIN Letter /\ c # Control
  <2>1. e = <<c>> /\ n = 1
    BY <1>1, <1>10 DEF Escape, EscapeSize
  <2>2. c # Quote /\ c # "\\"
    BY <1>10, LetterFacts
  <2>3. t[s.next] = c
    BY <1>6, <1>7, <2>1
  <2>4. CharStep(t, s) = [str |-> Append(s.str, c), next |-> s.next + 1]
    BY <2>2, <2>3 DEF CharStep
  <2>5. CharStep(t, s) = [str |-> Append(x, c), next |-> p + 1 + n]
    BY <1>6, <2>1, <2>4
  <2> QED
    BY <1>1, <1>3, <1>5, <1>7, <2>5
<1> QED
  BY <1>8, <1>9, <1>10

CharsFrom(from) == [str |-> <<>>, next |-> from.place]
CharNext(from, s, k) == IF s.next > Len(from.text) THEN s ELSE CharStep(from.text, s)
CharReader == INSTANCE Loop WITH Start <- CharsFrom, Step <- CharNext

(* The string that has been read after k rounds of the parser's loop.      *)
CharsRead(t, i, k) == CharReader!After([text |-> t, place |-> i], k)

(* The rounds of the parser's loop over the characters of a string.        *)
LEMMA CharsReadNext ==
  ASSUME NEW t, NEW i
  PROVE  /\ CharsRead(t, i, 0) = [str |-> <<>>, next |-> i]
         /\ \A k \in Nat : CharsRead(t, i, k + 1) =
              IF CharsRead(t, i, k).next > Len(t) THEN CharsRead(t, i, k) ELSE CharStep(t, CharsRead(t, i, k))
<1>1. PICK from : from = [text |-> t, place |-> i]
  OBVIOUS
<1>2. from.text = t /\ from.place = i
  BY <1>1
<1>3. CharsRead(t, i, 0) = [str |-> <<>>, next |-> i]
  BY <1>1, <1>2, CharReader!AfterZero DEF CharsRead, CharsFrom
<1>4. ASSUME NEW k \in Nat
      PROVE  CharsRead(t, i, k + 1) =
              IF CharsRead(t, i, k).next > Len(t) THEN CharsRead(t, i, k) ELSE CharStep(t, CharsRead(t, i, k))
  <2>1. CharReader!After(from, k + 1) = CharNext(from, CharReader!After(from, k), k + 1)
    BY CharReader!AfterNext
  <2> QED
    BY <1>1, <1>2, <2>1 DEF CharsRead, CharNext
<1> QED
  BY <1>3, <1>4

(* The text is long enough for as many rounds as the string needs.         *)
LEMMA CharsReadLast ==
  ASSUME NEW t, NEW i
  PROVE  ParseChars(t, i) =
           Ok(String(CharsRead(t, i, Len(t) + 1 - i).str),
              IF At(t, CharsRead(t, i, Len(t) + 1 - i).next) = Quote
              THEN CharsRead(t, i, Len(t) + 1 - i).next + 1 ELSE CharsRead(t, i, Len(t) + 1 - i).next)
BY DEF ParseChars, CharsRead, CharReader!After, CharsFrom, CharNext

(* The quotes around what is written for a string.                         *)
LEMMA QuotesHeld ==
  ASSUME NEW t \in Texts, NEW s \in Texts, NEW p, Holds(t, p, StringText(s)),
         NEW m, m = Len(FlattenSeq(Escapes(s)))
  PROVE  /\ p \in Nat /\ m \in Nat /\ p + m + 2 <= Len(t) /\ Len(StringText(s)) = m + 2
         /\ t[p + 1] = Quote /\ t[p + m + 2] = Quote /\ Holds(t, p + 1, FlattenSeq(Escapes(s)))
<1>1. PICK q, f : q = <<Quote>> /\ f = FlattenSeq(Escapes(s))
  OBVIOUS
<1>2. q \in Texts /\ Len(q) = 1 /\ q[1] = Quote
  BY <1>1, CharsAssumption, TextOne
<1>3. f \in Texts /\ Len(f) = m /\ m \in Nat
  BY <1>1, EscapesType, TextChars
<1>4. q \o f \in Texts /\ Len(q \o f) = m + 1
  <2>1. q \o f \in Texts /\ Len(q \o f) = Len(q) + Len(f)
    BY <1>2, <1>3, TextJoin
  <2> QED
    BY <1>2, <1>3, <2>1
<1>5. StringText(s) = (q \o f) \o q
  BY <1>1, EscapesType
<1>6. Holds(t, p, q \o f) /\ Holds(t, p + (m + 1), q)
  <2>1. Holds(t, p, (q \o f) \o q)
    BY <1>5
  <2> QED
    BY <1>2, <1>4, <2>1, HoldsConcat
<1>7. Holds(t, p, q) /\ Holds(t, p + 1, f)
  BY <1>2, <1>3, <1>6, HoldsConcat
<1>8. p \in Nat /\ t[p + 1] = Quote
  BY <1>2, <1>7, HoldsOne
<1>9. t[(p + (m + 1)) + 1] = Quote /\ (p + (m + 1)) + 1 <= Len(t)
  BY <1>2, <1>6, HoldsOne
<1>10. PICK a \in Nat, b \in Nat : a = p /\ b = m
  BY <1>3, <1>8
<1>11. (a + (b + 1)) + 1 = a + b + 2
  OBVIOUS
<1>12. Len(StringText(s)) = m + 2
  <2>1. Len((q \o f) \o q) = Len(q \o f) + Len(q)
    BY <1>2, <1>4, TextJoin
  <2> QED
    BY <1>2, <1>3, <1>4, <1>5, <2>1
<1> QED
  BY <1>1, <1>3, <1>7, <1>8, <1>9, <1>10, <1>11, <1>12

(* The parser's loop, up to the quote that ends the string.                *)
LEMMA StringRead ==
  ASSUME NEW t \in Texts, NEW s \in Texts, NEW p, Holds(t, p, FlattenSeq(Escapes(s)))
  PROVE  \A k \in 0..Len(s) :
           /\ CharsRead(t, p + 1, k) = [str |-> SubSeq(s, 1, k), next |-> p + Len(Prefix(Escapes(s), k)) + 1]
           /\ k <= Len(Prefix(Escapes(s), k))
<1>1. PICK es \in Seq(Texts) : es = Escapes(s) /\ Len(es) = Len(s)
  BY EscapesType
<1>2. PICK n \in Nat : n = Len(s)
  BY TextChars
<1>3. Len(t) \in Nat
  BY TextChars
<1>4. p \in Nat
  BY DEF Holds
<1>5. PICK T : T = {k \in Nat : k <= n =>
                      /\ CharsRead(t, p + 1, k) = [str |-> SubSeq(s, 1, k), next |-> p + Len(Prefix(es, k)) + 1]
                      /\ k <= Len(Prefix(es, k))}
  OBVIOUS
<1>6. 0 \in T
  <2>1. Len(Prefix(es, 0)) = 0
    <3>1. Prefix(es, 0) = <<>> /\ Len(<<>>) = 0
      BY PrefixNext
    <3> QED
      BY <3>1
  <2>2. SubSeq(s, 1, 0) = <<>>
    OBVIOUS
  <2>3. p + Len(Prefix(es, 0)) + 1 = p + 1
    BY <1>4, <2>1
  <2>4. CharsRead(t, p + 1, 0) = [str |-> <<>>, next |-> p + 1]
    BY CharsReadNext
  <2> QED
    BY <1>5, <2>1, <2>2, <2>3, <2>4
<1>7. ASSUME NEW k \in Nat, k \in T
      PROVE  k + 1 \in T
  <2> SUFFICES ASSUME k + 1 <= n
               PROVE  /\ CharsRead(t, p + 1, k + 1) =
                           [str |-> SubSeq(s, 1, k + 1), next |-> p + Len(Prefix(es, k + 1)) + 1]
                      /\ k + 1 <= Len(Prefix(es, k + 1))
    BY <1>5
  <2>1. k \in 0..(Len(es) - 1) /\ k + 1 \in 1..Len(s) /\ k \in 0..Len(es) /\ k + 1 <= Len(s)
    BY <1>1, <1>2
  <2>2. PICK a, c, x : a = Len(Prefix(es, k)) /\ c = s[k + 1] /\ x = SubSeq(s, 1, k)
    OBVIOUS
  <2>3. c \in Chars /\ es[k + 1] = Escape(c)
    BY <1>1, <2>1, <2>2, TextChars DEF Escapes
  <2>4. Escape(c) \in Texts /\ Len(Escape(c)) = EscapeSize(c) /\ EscapeSize(c) \in Nat \ {0}
    BY <2>3, EscapeFacts
  <2>5. Prefix(es, k) \in Texts /\ a \in Nat
    BY <2>1, <2>2, PrefixType, TextChars
  <2>6. Len(Prefix(es, k + 1)) = a + EscapeSize(c)
    <3>1. Prefix(es, k + 1) = Prefix(es, k) \o es[k + 1]
      BY <2>1, PrefixNext
    <3>2. Len(Prefix(es, k) \o Escape(c)) = Len(Prefix(es, k)) + Len(Escape(c))
      BY <2>4, <2>5, TextJoin
    <3> QED
      BY <2>2, <2>3, <2>4, <3>1, <3>2
  <2>7. Holds(t, p + a, Escape(c))
    <3>1. Holds(t, p, FlattenSeq(es))
      BY <1>1
    <3>2. Holds(t, p + Len(Prefix(es, k)), es[k + 1])
      BY <2>1, <3>1, HoldsPieces
    <3> QED
      BY <2>2, <2>3, <3>2
  <2>8. PICK r : r = CharsRead(t, p + 1, k) /\ r = [str |-> x, next |-> (p + a) + 1]
    BY <1>5, <1>7, <2>1, <2>2
  <2>9. (p + a) + 1 <= Len(t) /\ CharStep(t, r) = [str |-> Append(x, c), next |-> (p + a) + 1 + EscapeSize(c)]
    BY <2>3, <2>7, <2>8, CharRead
  <2>10. r.next = (p + a) + 1 /\ ~(r.next > Len(t))
    BY <1>3, <1>4, <2>5, <2>8, <2>9
  <2>11. CharsRead(t, p + 1, k + 1) = CharStep(t, r)
    <3>1. CharsRead(t, p + 1, k + 1) =
            IF CharsRead(t, p + 1, k).next > Len(t) THEN CharsRead(t, p + 1, k)
            ELSE CharStep(t, CharsRead(t, p + 1, k))
      BY CharsReadNext
    <3>2. CharsRead(t, p + 1, k) = r
      BY <2>8
    <3> QED
      BY <2>10, <3>1, <3>2
  <2>12. SubSeq(s, 1, k + 1) = Append(x, c)
    <3>1. s \in Seq(Chars)
      BY DEF Texts
    <3> QED
      BY <2>1, <2>2, <3>1, FrontNext
  <2>13. k <= a
    BY <1>5, <1>7, <2>1, <2>2
  <2>14. (p + a) + 1 + EscapeSize(c) = p + (a + EscapeSize(c)) + 1 /\ k + 1 <= a + EscapeSize(c)
    <3>1. PICK e \in Nat \ {0} : e = EscapeSize(c)
      BY <2>4
    <3>2. (p + a) + 1 + e = p + (a + e) + 1 /\ k + 1 <= a + e
      BY <1>4, <2>5, <2>13
    <3> QED
      BY <3>1, <3>2
  <2> QED
    BY <2>6, <2>9, <2>11, <2>12, <2>14
<1>8. Nat \subseteq T
  BY <1>6, <1>7, Induction
<1>9. ASSUME NEW k \in 0..Len(s)
      PROVE  /\ CharsRead(t, p + 1, k) = [str |-> SubSeq(s, 1, k), next |-> p + Len(Prefix(es, k)) + 1]
             /\ k <= Len(Prefix(es, k))
  <2>1. k \in T /\ k <= n
    BY <1>2, <1>8
  <2> QED
    BY <1>5, <2>1
<1> QED
  BY <1>1, <1>9

(* What was written for a string is read as that string.                   *)
LEMMA StringParsed ==
  ASSUME NEW t \in Texts, NEW s \in Texts, NEW p, Holds(t, p, StringText(s))
  PROVE  ParseString(t, p + 1) = Ok(String(s), p + 1 + Len(StringText(s)))
<1>1. PICK es \in Seq(Texts) : es = Escapes(s) /\ Len(es) = Len(s)
  BY EscapesType
<1>2. PICK n \in Nat, m \in Nat : n = Len(s) /\ m = Len(FlattenSeq(es))
  BY <1>1, FlattenType, TextChars
<1>3. /\ p \in Nat /\ m \in Nat /\ p + m + 2 <= Len(t) /\ Len(StringText(s)) = m + 2
      /\ t[p + 1] = Quote /\ t[p + m + 2] = Quote /\ Holds(t, p + 1, FlattenSeq(Escapes(s)))
  BY <1>1, <1>2, QuotesHeld
<1>4. Len(t) \in Nat
  BY TextChars
<1>5. PICK i \in Nat : i = p + 2 /\ i = (p + 1) + 1
  <2>1. p + 2 \in Nat /\ p + 2 = (p + 1) + 1
    BY <1>3
  <2> QED
    BY <2>1
<1>6. ParseString(t, p + 1) = ParseChars(t, i)
  <2>1. At(t, p + 1) = Quote
    <3>1. p + 1 \in 1..Len(t)
      BY <1>3, <1>4
    <3> QED
      BY <1>3, <3>1, AtFacts
  <2>2. (p + 1) + 1 = i
    BY <1>5
  <2> QED
    BY <2>1, <2>2 DEF ParseString
<1>7. CharsRead(t, i, n) = [str |-> s, next |-> p + m + 2] /\ n <= m
  <2>1. n \in 0..Len(s)
    BY <1>2
  <2>2. /\ CharsRead(t, (p + 1) + 1, n) = [str |-> SubSeq(s, 1, n), next |-> (p + 1) + Len(Prefix(Escapes(s), n)) + 1]
        /\ n <= Len(Prefix(Escapes(s), n))
    BY <1>3, <2>1, StringRead
  <2>3. Prefix(es, n) = FlattenSeq(es)
    BY <1>1, <1>2, FlattenIsPrefix
  <2>4. SubSeq(s, 1, n) = s
    <3>1. s \in Seq(Chars)
      BY DEF Texts
    <3> QED
      BY <1>2, <3>1, SubSeqFull
  <2>5. (p + 1) + m + 1 = p + m + 2
    BY <1>3
  <2> QED
    BY <1>1, <1>2, <1>5, <2>2, <2>3, <2>4, <2>5
<1>8. PICK r : r = CharsRead(t, i, n) /\ r.str = s /\ r.next = p + m + 2
  BY <1>7
<1>9. CharStep(t, r) = r
  <2>1. t[r.next] = Quote
    BY <1>3, <1>8
  <2> QED
    BY <2>1 DEF CharStep, Quote
<1>10. PICK T : T = {k \in Nat : CharsRead(t, i, n + k) = r}
  OBVIOUS
<1>11. 0 \in T
  <2>1. n + 0 = n
    OBVIOUS
  <2> QED
    BY <1>8, <1>10, <2>1
<1>12. ASSUME NEW k \in Nat, k \in T
       PROVE  k + 1 \in T
  <2>1. n + k \in Nat /\ (n + k) + 1 = n + (k + 1)
    OBVIOUS
  <2>2. CharsRead(t, i, n + k) = r
    BY <1>10, <1>12
  <2>3. CharsRead(t, i, (n + k) + 1) =
          IF CharsRead(t, i, n + k).next > Len(t) THEN CharsRead(t, i, n + k) ELSE CharStep(t, CharsRead(t, i, n + k))
    BY <2>1, CharsReadNext
  <2>4. CharsRead(t, i, (n + k) + 1) = r
    BY <1>9, <2>2, <2>3
  <2> QED
    BY <1>10, <2>1, <2>4
<1>13. Nat \subseteq T
  BY <1>11, <1>12, Induction
<1>14. CharsRead(t, i, Len(t) + 1 - i) = r
  <2>1. Len(t) + 1 - i - n \in Nat /\ n + (Len(t) + 1 - i - n) = Len(t) + 1 - i
    BY <1>3, <1>4, <1>5, <1>7
  <2>2. PICK k \in Nat : n + k = Len(t) + 1 - i
    BY <2>1
  <2>3. k \in T
    BY <1>13
  <2> QED
    BY <1>10, <2>2, <2>3
<1>15. At(t, r.next) = Quote
  <2>1. p + m + 2 \in 1..Len(t)
    BY <1>3, <1>4
  <2> QED
    BY <1>3, <1>8, <2>1, AtFacts
<1>16. ParseChars(t, i) = Ok(String(s), p + m + 2 + 1)
  BY <1>8, <1>14, <1>15, CharsReadLast
<1>17. p + m + 2 + 1 = p + 1 + Len(StringText(s))
  BY <1>3
<1> QED
  BY <1>6, <1>16, <1>17

-----------------------------------------------------------------------------
(* Numbers.                                                                *)
LEMMA DivFacts ==
  ASSUME NEW n \in Nat
  PROVE  /\ n \div 10 \in Nat /\ n % 10 \in 0..9 /\ (n % 10) + 1 \in 1..10
         /\ n >= 10 => n \div 10 < n
         /\ n = (n \div 10) * 10 + (n % 10)
<1>1. n \div 10 \in Nat
  OBVIOUS
<1>2. n % 10 \in 0..9
  OBVIOUS
<1>3. n = (n \div 10) * 10 + (n % 10)
  OBVIOUS
<1>4. ASSUME n >= 10 PROVE n \div 10 < n
  BY <1>4
<1>5. (n % 10) + 1 \in 1..10
  BY <1>2
<1> QED
  BY <1>1, <1>2, <1>3, <1>4, <1>5

(* The digit that is written for d is read as d.                           *)
LEMMA DigitFacts ==
  ASSUME NEW d \in 0..9
  PROVE  DigitChars[d + 1] \in Chars /\ Digit(DigitChars[d + 1]) = d
<1>1. DigitChars[d + 1] \in Chars
  <2>1. \A k \in 1..10 : DigitChars[k] \in Chars
    BY CharsAssumption
  <2>2. d + 1 \in 1..10
    OBVIOUS
  <2> QED
    BY <2>1, <2>2
<1>2. \A e \in 0..9 : DigitChars[e + 1] = DigitChars[d + 1] => e = d
  BY DEF DigitChars
<1>3. Digit(DigitChars[d + 1]) = CHOOSE e \in 0..9 : DigitChars[e + 1] = DigitChars[d + 1]
  BY DEF Digit
<1> QED
  BY <1>1, <1>2, <1>3

LEMMA UpToNine ==
  ASSUME NEW d \in 0..9
  PROVE  d = 0 \/ d = 1 \/ d = 2 \/ d = 3 \/ d = 4 \/ d = 5 \/ d = 6 \/ d = 7 \/ d = 8 \/ d = 9
OBVIOUS

LEMMA DigitNames ==
  ASSUME NEW d \in 0..9
  PROVE  DigitChars[d + 1] \in {"0", "1", "2", "3", "4", "5", "6", "7", "8", "9"}
<1>1. /\ DigitChars[1] = "0" /\ DigitChars[2] = "1" /\ DigitChars[3] = "2" /\ DigitChars[4] = "3"
      /\ DigitChars[5] = "4" /\ DigitChars[6] = "5" /\ DigitChars[7] = "6" /\ DigitChars[8] = "7"
      /\ DigitChars[9] = "8" /\ DigitChars[10] = "9"
  BY DEF DigitChars
<1>3. d + 1 = 1 \/ d + 1 = 2 \/ d + 1 = 3 \/ d + 1 = 4 \/ d + 1 = 5
      \/ d + 1 = 6 \/ d + 1 = 7 \/ d + 1 = 8 \/ d + 1 = 9 \/ d + 1 = 10
  BY UpToNine
<1> QED
  BY <1>1, <1>3, Zenon

(* What may follow a number is no digit.                                   *)
LEMMA NoDigit ==
  ASSUME NEW c, c \in {"\n", End, Quote, "[", "]", "{", "}", ",", ":"}
  PROVE  Digit(c) = -1
<1>2. c \notin {"0", "1", "2", "3", "4", "5", "6", "7", "8", "9"}
  BY DEF End, Quote
<1>3. \A d \in 0..9 : DigitChars[d + 1] # c
  BY <1>2, DigitNames
<1> QED
  BY <1>3 DEF Digit

DigitText(g, m) == IF m < 10 THEN <<DigitChars[m + 1]>>
                   ELSE Append(g[m \div 10], DigitChars[(m % 10) + 1])

(* g is the function that NumberText chooses.                              *)
Numbered(g, n) == g = [m \in 0..n |-> DigitText(g, m)]

LEMMA NumberedFacts ==
  ASSUME NEW n \in Nat, NEW g, Numbered(g, n), NEW m \in 0..n
  PROVE  g[m] = DigitText(g, m)
BY DEF Numbered

(* There is such a function, for every n.                                  *)
LEMMA NumberedExists ==
  ASSUME NEW n \in Nat
  PROVE  \E g : Numbered(g, n)
<1>1. PICK T : T = {k \in Nat : \E g : Numbered(g, k)}
  OBVIOUS
<1>2. 0 \in T
  <2>1. PICK g : g = [m \in 0..0 |-> <<DigitChars[m + 1]>>]
    OBVIOUS
  <2>2. \A m \in 0..0 : DigitText(g, m) = <<DigitChars[m + 1]>>
    BY DEF DigitText
  <2>3. Numbered(g, 0)
    BY <2>1, <2>2 DEF Numbered
  <2> QED
    BY <1>1, <2>3
<1>3. ASSUME NEW k \in Nat, k \in T
      PROVE  k + 1 \in T
  <2>1. PICK g : Numbered(g, k)
    BY <1>1, <1>3
  <2>2. PICK h : h = [m \in 0..(k + 1) |-> DigitText(g, m)]
    OBVIOUS
  <2>3. ASSUME NEW m \in 0..(k + 1)
        PROVE  DigitText(g, m) = DigitText(h, m)
    <3>1. CASE m < 10
      BY <3>1 DEF DigitText
    <3>2. CASE ~(m < 10)
      <4>1. PICK j : j = m \div 10 /\ j \in 0..k
        BY <3>2, DivFacts
      <4>2. h[j] = DigitText(g, j) /\ g[j] = DigitText(g, j)
        BY <2>1, <2>2, <4>1, NumberedFacts
      <4> QED
        BY <3>2, <4>1, <4>2 DEF DigitText
    <3> QED
      BY <3>1, <3>2
  <2>4. h = [m \in 0..(k + 1) |-> DigitText(h, m)]
    BY <2>2, <2>3
  <2> QED
    BY <1>1, <2>4 DEF Numbered
<1>4. Nat \subseteq T
  BY <1>2, <1>3, Induction
<1> QED
  BY <1>1, <1>4

(* And only one.                                                           *)
LEMMA NumberedOnce ==
  ASSUME NEW n \in Nat, NEW m \in 0..n, NEW g, NEW h, Numbered(g, n), Numbered(h, m)
  PROVE  \A k \in 0..m : g[k] = h[k]
<1>1. PICK T : T = {k \in Nat : \A j \in 0..k : j <= m => g[j] = h[j]}
  OBVIOUS
<1>2. ASSUME NEW j \in 0..m, \A i \in 0..(j - 1) : g[i] = h[i]
      PROVE  g[j] = h[j]
  <2>1. g[j] = DigitText(g, j) /\ h[j] = DigitText(h, j)
    BY NumberedFacts
  <2>2. DigitText(g, j) = DigitText(h, j)
    <3>1. CASE j < 10
      BY <3>1 DEF DigitText
    <3>2. CASE ~(j < 10)
      <4>1. PICK i : i = j \div 10 /\ i \in 0..(j - 1)
        BY <3>2, DivFacts
      <4> QED
        BY <1>2, <3>2, <4>1 DEF DigitText
    <3> QED
      BY <3>1, <3>2
  <2> QED
    BY <2>1, <2>2
<1>3. 0 \in T
  BY <1>1, <1>2
<1>4. ASSUME NEW k \in Nat, k \in T
      PROVE  k + 1 \in T
  <2> SUFFICES ASSUME NEW j \in 0..(k + 1), j <= m PROVE g[j] = h[j]
    BY <1>1
  <2>1. \A i \in 0..k : i <= m => g[i] = h[i]
    BY <1>1, <1>4
  <2>2. \A i \in 0..(j - 1) : g[i] = h[i]
    BY <2>1
  <2>3. j \in 0..m
    OBVIOUS
  <2> QED
    BY <1>2, <2>2, <2>3
<1>5. Nat \subseteq T
  BY <1>3, <1>4, Induction
<1>6. m \in T
  BY <1>5
<1> QED
  BY <1>1, <1>6

LEMMA NumberLeaves ==
  ASSUME NEW n \in Nat
  PROVE  \E g : Numbered(g, n) /\ NumberText(n) = g[n]
<1>1. PICK g : Numbered(g, n)
  BY NumberedExists
<1>2. PICK f : f = CHOOSE h : h = [m \in 0..n |-> IF m < 10 THEN <<DigitChars[m + 1]>>
                          ELSE Append(h[m \div 10], DigitChars[(m % 10) + 1])]
  OBVIOUS
<1>3. Numbered(f, n)
  BY <1>1, <1>2 DEF Numbered, DigitText
<1>4. NumberText(n) = f[n]
  BY <1>2 DEF NumberText
<1> QED
  BY <1>3, <1>4

(* A number is written digit by digit, the last one by its remainder.      *)
LEMMA NumberNext ==
  ASSUME NEW n \in Nat
  PROVE  /\ n < 10 => NumberText(n) = <<DigitChars[n + 1]>>
         /\ n >= 10 => NumberText(n) = Append(NumberText(n \div 10), DigitChars[(n % 10) + 1])
<1>1. PICK g : Numbered(g, n) /\ NumberText(n) = g[n]
  BY NumberLeaves
<1>2. g[n] = DigitText(g, n)
  BY <1>1, NumberedFacts
<1>3. CASE n < 10
  BY <1>1, <1>2, <1>3 DEF DigitText
<1>4. CASE n >= 10
  <2>1. PICK m \in 0..n : m = n \div 10
    BY <1>4, DivFacts
  <2>2. PICK h : Numbered(h, m) /\ NumberText(m) = h[m]
    BY NumberLeaves
  <2>3. g[m] = h[m]
    BY <1>1, <2>2, NumberedOnce
  <2>4. g[n] = Append(g[m], DigitChars[(n % 10) + 1])
    BY <1>2, <1>4, <2>1 DEF DigitText
  <2> QED
    BY <1>1, <1>4, <2>1, <2>2, <2>3, <2>4
<1> QED
  BY <1>3, <1>4

(* A text of digits.                                                       *)
Figures(u) == Len(u) >= 1 /\ \A i \in 1..Len(u) : Digit(u[i]) \in 0..9

LEMMA FiguresOne ==
  ASSUME NEW d \in 0..9
  PROVE  <<DigitChars[d + 1]>> \in Texts /\ Figures(<<DigitChars[d + 1]>>) /\ Len(<<DigitChars[d + 1]>>) = 1
<1>1. PICK c : c = DigitChars[d + 1]
  OBVIOUS
<1>2. c \in Chars /\ Digit(c) \in 0..9
  BY <1>1, DigitFacts
<1>3. <<c>> \in Texts /\ Len(<<c>>) = 1 /\ <<c>>[1] = c
  BY <1>2, TextOne
<1>4. Figures(<<c>>)
  BY <1>2, <1>3 DEF Figures
<1> QED
  BY <1>1, <1>3, <1>4

LEMMA FiguresAppend ==
  ASSUME NEW d \in 0..9, NEW u \in Texts, Figures(u)
  PROVE  /\ Append(u, DigitChars[d + 1]) \in Texts /\ Figures(Append(u, DigitChars[d + 1]))
         /\ Append(u, DigitChars[d + 1]) = u \o <<DigitChars[d + 1]>>
         /\ Len(Append(u, DigitChars[d + 1])) = Len(u) + 1 /\ Len(u) \in Nat
<1>1. PICK c : c = DigitChars[d + 1]
  OBVIOUS
<1>2. c \in Chars /\ Digit(c) \in 0..9
  BY <1>1, DigitFacts
<1>3. Append(u, c) \in Texts /\ Len(Append(u, c)) = Len(u) + 1 /\ Append(u, c) = u \o <<c>>
  BY <1>2, TextAppend
<1>4. Len(u) \in Nat
  BY TextChars
<1>5. \A i \in 1..(Len(u) + 1) : Append(u, c)[i] = IF i = Len(u) + 1 THEN c ELSE u[i]
  BY <1>2 DEF Texts
<1>6. Figures(Append(u, c))
  <2>1. \A i \in 1..(Len(u) + 1) : Digit(Append(u, c)[i]) \in 0..9
    BY <1>2, <1>4, <1>5 DEF Figures
  <2> QED
    BY <1>3, <1>4, <2>1 DEF Figures
<1> QED
  BY <1>1, <1>3, <1>4, <1>6

LEMMA DigitType ==
  ASSUME NEW c
  PROVE  Digit(c) \in Int
<1>1. CASE \E d \in 0..9 : DigitChars[d + 1] = c
  <2>1. PICK d \in 0..9 : DigitChars[d + 1] = c
    BY <1>1
  <2>2. Digit(DigitChars[d + 1]) = d
    BY DigitFacts
  <2> QED
    BY <2>1, <2>2
<1>2. CASE ~\E d \in 0..9 : DigitChars[d + 1] = c
  BY <1>2 DEF Digit
<1> QED
  BY <1>1, <1>2

(* What is written for a number is digits only.                            *)
LEMMA NumberFacts ==
  ASSUME NEW n \in Nat
  PROVE  NumberText(n) \in Texts /\ Figures(NumberText(n))
<1> DEFINE Fine(k) == NumberText(k) \in Texts /\ Figures(NumberText(k))
<1>1. PICK T : T = {k \in Nat : \A j \in 0..k : Fine(j)}
  OBVIOUS
<1>2. ASSUME NEW j \in Nat, \A i \in 0..(j - 1) : Fine(i)
      PROVE  Fine(j)
  <2>1. CASE j < 10
    <3>1. j \in 0..9
      BY <2>1
    <3>2. NumberText(j) = <<DigitChars[j + 1]>>
      BY <2>1, NumberNext
    <3> QED
      BY <3>1, <3>2, FiguresOne
  <2>2. CASE j >= 10
    <3>1. PICK i, d : i = j \div 10 /\ d = j % 10 /\ i \in 0..(j - 1) /\ d \in 0..9
      BY <2>2, DivFacts
    <3>2. NumberText(j) = Append(NumberText(i), DigitChars[d + 1])
      BY <2>2, <3>1, NumberNext
    <3>3. Fine(i)
      BY <1>2, <3>1
    <3> QED
      BY <3>1, <3>2, <3>3, FiguresAppend
  <2> QED
    BY <2>1, <2>2
<1> HIDE DEF Fine
<1>3. 0 \in T
  BY <1>1, <1>2
<1>4. ASSUME NEW k \in Nat, k \in T
      PROVE  k + 1 \in T
  <2> SUFFICES ASSUME NEW j \in 0..(k + 1) PROVE Fine(j)
    BY <1>1
  <2>1. \A i \in 0..k : Fine(i)
    BY <1>1, <1>4
  <2>2. \A i \in 0..(j - 1) : Fine(i)
    BY <2>1
  <2> QED
    BY <1>2, <2>2
<1>5. Nat \subseteq T
  BY <1>3, <1>4, Induction
<1>6. Fine(n)
  <2>1. n \in T
    BY <1>5
  <2> QED
    BY <1>1, <2>1
<1> QED
  BY <1>6 DEF Fine

(* The text of an int is shorter than what is borrowed for it.             *)
Shorter(b, k) == \A m \in Nat : m <= b => Len(NumberText(m)) <= k

(* A bound on the length of a number, digit by digit.                      *)
LEMMA Longer ==
  ASSUME NEW b \in Nat, NEW k \in Nat \ {0}, Shorter(b, k)
  PROVE  \A c, l : c = 10 * b + 9 /\ l = k + 1 => Shorter(c, l)
<1> SUFFICES ASSUME NEW m \in Nat, m <= 10 * b + 9 PROVE Len(NumberText(m)) <= k + 1
  BY DEF Shorter
<1>1. CASE m < 10
  <2>1. m \in 0..9 /\ NumberText(m) = <<DigitChars[m + 1]>>
    BY <1>1, NumberNext
  <2>2. Len(NumberText(m)) = 1
    BY <2>1, FiguresOne
  <2> QED
    BY <2>2
<1>2. CASE m >= 10
  <2>1. PICK i, d : i = m \div 10 /\ d = m % 10 /\ i \in Nat /\ d \in 0..9 /\ m = i * 10 + d
    BY DivFacts
  <2>2. i <= b
    BY <2>1
  <2>3. NumberText(m) = Append(NumberText(i), DigitChars[d + 1])
    BY <1>2, <2>1, NumberNext
  <2>4. Len(NumberText(m)) = Len(NumberText(i)) + 1 /\ Len(NumberText(i)) \in Nat
    BY <2>1, <2>3, NumberFacts, FiguresAppend
  <2>5. Len(NumberText(i)) <= k
    BY <2>1, <2>2 DEF Shorter
  <2> QED
    BY <2>4, <2>5
<1> QED
  BY <1>1, <1>2

LEMMA NumberFits ==
  ASSUME NEW n \in Numbers
  PROVE  Len(NumberText(n)) < NumberSize(n)
<1>1. n \in Nat /\ n <= 9999999999
  BY SMT DEF Numbers
<1>2. Shorter(9, 1)
  <2> SUFFICES ASSUME NEW m \in Nat, m <= 9 PROVE Len(NumberText(m)) <= 1
    BY DEF Shorter
  <2>1. m \in 0..9 /\ NumberText(m) = <<DigitChars[m + 1]>>
    BY NumberNext
  <2>2. Len(NumberText(m)) = 1
    BY <2>1, FiguresOne
  <2> QED
    BY <2>2
<1>3. Shorter(99, 2)
  BY <1>2, Longer, SMT
<1>4. Shorter(999, 3)
  BY <1>3, Longer, SMT
<1>5. Shorter(9999, 4)
  BY <1>4, Longer, SMT
<1>6. Shorter(99999, 5)
  BY <1>5, Longer, SMT
<1>7. Shorter(999999, 6)
  BY <1>6, Longer, SMT
<1>8. Shorter(9999999, 7)
  BY <1>7, Longer, SMT
<1>9. Shorter(99999999, 8)
  BY <1>8, Longer, SMT
<1>10. Shorter(999999999, 9)
  BY <1>9, Longer, SMT
<1>11. Shorter(9999999999, 10)
  BY <1>10, Longer, SMT
<1>12. n = 0 => Len(NumberText(n)) <= 1
  BY <1>1, <1>2 DEF Shorter
<1>13. Len(NumberText(n)) \in Nat
  BY <1>1, NumberFacts, TextChars
<1>14. Len(NumberText(n)) <= 10
  BY <1>1, <1>11, SMT DEF Shorter
<1> QED
  BY <1>12, <1>13, <1>14, SMT DEF NumberSize

DigitsFrom(from) == 0
DigitNext(from, x, k) == x * 10 + Digit(from.text[from.place + k - 1])
DigitReader == INSTANCE Loop WITH Start <- DigitsFrom, Step <- DigitNext

(* The number that the first k digits make.                                *)
DigitsRead(t, i, k) == DigitReader!After([text |-> t, place |-> i], k)

(* The rounds of the parser's loop over digits.                            *)
LEMMA DigitsReadNext ==
  ASSUME NEW t, NEW i
  PROVE  /\ DigitsRead(t, i, 0) = 0
         /\ \A k \in Nat : DigitsRead(t, i, k + 1) = DigitsRead(t, i, k) * 10 + Digit(t[i + (k + 1) - 1])
<1>1. PICK from : from = [text |-> t, place |-> i]
  OBVIOUS
<1>2. from.text = t /\ from.place = i
  BY <1>1
<1>3. DigitsRead(t, i, 0) = 0
  BY DigitReader!AfterZero DEF DigitsRead, DigitsFrom
<1>4. ASSUME NEW k \in Nat
      PROVE  DigitsRead(t, i, k + 1) = DigitsRead(t, i, k) * 10 + Digit(t[i + (k + 1) - 1])
  <2>1. DigitReader!After(from, k + 1) = DigitNext(from, DigitReader!After(from, k), k + 1)
    BY DigitReader!AfterNext
  <2> QED
    BY <1>1, <1>2, <2>1 DEF DigitsRead, DigitNext
<1> QED
  BY <1>3, <1>4

(* parse_number reads up to the first character that is no digit.          *)
LEMMA DigitsReadLast ==
  ASSUME NEW t, NEW i
  PROVE  ParseDigits(t, i) = Ok(Number(DigitsRead(t, i, DigitsEnd(t, i) - i)), DigitsEnd(t, i))
BY DEF ParseDigits, DigitsRead, DigitReader!After, DigitsFrom, DigitNext

(* The digits of n make n again.                                           *)
LEMMA DigitsValue ==
  ASSUME NEW t \in Texts, NEW p \in Nat, NEW n \in Nat, Holds(t, p, NumberText(n))
  PROVE  DigitsRead(t, p + 1, Len(NumberText(n))) = n
<1> DEFINE Fine(k) == Holds(t, p, NumberText(k)) => DigitsRead(t, p + 1, Len(NumberText(k))) = k
<1>1. PICK T : T = {k \in Nat : \A j \in 0..k : Fine(j)}
  OBVIOUS
<1>2. ASSUME NEW j \in Nat, \A i \in 0..(j - 1) : Fine(i)
      PROVE  Fine(j)
  <2> SUFFICES ASSUME Holds(t, p, NumberText(j)) PROVE DigitsRead(t, p + 1, Len(NumberText(j))) = j
    OBVIOUS
  <2>1. CASE j < 10
    <3>1. PICK u : u = NumberText(j) /\ u = <<DigitChars[j + 1]>> /\ j \in 0..9
      BY <2>1, NumberNext
    <3>2. u \in Texts /\ Len(u) = 1 /\ u[1] = DigitChars[j + 1]
      BY <3>1, FiguresOne
    <3>3. t[p + 1] = DigitChars[j + 1]
      BY <3>1, <3>2, HoldsOne
    <3>4. DigitsRead(t, p + 1, 0 + 1) = DigitsRead(t, p + 1, 0) * 10 + Digit(t[(p + 1) + (0 + 1) - 1])
      BY DigitsReadNext
    <3>5. DigitsRead(t, p + 1, 0) = 0 /\ (p + 1) + (0 + 1) - 1 = p + 1 /\ 0 + 1 = 1
      BY DigitsReadNext
    <3>6. Digit(t[p + 1]) = j
      BY <3>1, <3>3, DigitFacts
    <3>7. DigitsRead(t, p + 1, 1) = 0 * 10 + j
      BY <3>4, <3>5, <3>6
    <3> QED
      BY <3>1, <3>2, <3>7
  <2>2. CASE j >= 10
    <3>1. PICK i, d : i = j \div 10 /\ d = j % 10 /\ i \in 0..(j - 1) /\ d \in 0..9 /\ j = i * 10 + d
      BY <2>2, DivFacts
    <3>2. PICK u, c : u = NumberText(i) /\ c = DigitChars[d + 1]
      OBVIOUS
    <3>3. NumberText(j) = Append(u, c)
      BY <2>2, <3>1, <3>2, NumberNext
    <3>4. u \in Texts /\ Figures(u)
      BY <3>1, <3>2, NumberFacts
    <3>5. Append(u, c) = u \o <<c>> /\ Len(Append(u, c)) = Len(u) + 1 /\ Len(u) \in Nat
      BY <3>1, <3>2, <3>4, FiguresAppend
    <3>6. <<c>> \in Texts /\ Len(<<c>>) = 1 /\ <<c>>[1] = c
      BY <3>1, <3>2, DigitFacts, TextOne
    <3>7. Holds(t, p, u) /\ Holds(t, p + Len(u), <<c>>)
      <4>1. Holds(t, p, u \o <<c>>)
        BY <3>3, <3>5
      <4> QED
        BY <3>4, <3>6, <4>1, HoldsConcat
    <3>8. t[(p + Len(u)) + 1] = c
      BY <3>6, <3>7, HoldsOne
    <3>9. DigitsRead(t, p + 1, Len(u)) = i
      BY <1>2, <3>1, <3>2, <3>7
    <3>10. PICK k \in Nat : k = Len(u)
      BY <3>5
    <3>11. DigitsRead(t, p + 1, k + 1) = DigitsRead(t, p + 1, k) * 10 + Digit(t[(p + 1) + (k + 1) - 1])
      BY DigitsReadNext
    <3>12. (p + 1) + (k + 1) - 1 = (p + k) + 1
      OBVIOUS
    <3>13. Digit(c) = d
      BY <3>1, <3>2, DigitFacts
    <3>14. DigitsRead(t, p + 1, k + 1) = i * 10 + d
      BY <3>8, <3>9, <3>10, <3>11, <3>12, <3>13
    <3> QED
      BY <3>1, <3>3, <3>5, <3>10, <3>14
  <2> QED
    BY <2>1, <2>2
<1> HIDE DEF Fine
<1>3. 0 \in T
  BY <1>1, <1>2
<1>4. ASSUME NEW k \in Nat, k \in T
      PROVE  k + 1 \in T
  <2> SUFFICES ASSUME NEW j \in 0..(k + 1) PROVE Fine(j)
    BY <1>1
  <2>1. \A i \in 0..k : Fine(i)
    BY <1>1, <1>4
  <2>2. \A i \in 0..(j - 1) : Fine(i)
    BY <2>1
  <2> QED
    BY <1>2, <2>2
<1>5. Nat \subseteq T
  BY <1>3, <1>4, Induction
<1>6. Fine(n)
  <2>1. n \in T
    BY <1>5
  <2> QED
    BY <1>1, <2>1
<1> QED
  BY <1>6 DEF Fine

(* What was written for a number is read as that number, if no digit       *)
(* follows it.                                                             *)
LEMMA NumberParsed ==
  ASSUME NEW t \in Texts, NEW n \in Nat, NEW p, Holds(t, p, NumberText(n)),
         Digit(At(t, p + 1 + Len(NumberText(n)))) < 0
  PROVE  ParseDigits(t, p + 1) = Ok(Number(n), p + 1 + Len(NumberText(n)))
<1>1. PICK u \in Texts : u = NumberText(n) /\ Figures(u)
  BY NumberFacts
<1>2. PICK k \in Nat : k = Len(u)
  BY TextChars
<1>3. p \in Nat /\ p + k <= Len(t) /\ \A j \in 1..k : t[p + j] = u[j]
  BY <1>1, <1>2 DEF Holds
<1>4. Len(t) \in Nat
  BY TextChars
<1>5. PICK i \in Nat, e \in Nat : i = p + 1 /\ e = p + 1 + k /\ i + k = e
  <2>1. p + 1 \in Nat /\ p + 1 + k \in Nat /\ (p + 1) + k = p + 1 + k
    BY <1>3
  <2> QED
    BY <2>1
<1>6. ASSUME NEW j \in i..(e - 1)
      PROVE  Digit(At(t, j)) >= 0
  <2>1. PICK m \in 1..k : p + m = j
    <3>1. j - p \in 1..k /\ p + (j - p) = j
      BY <1>3, <1>5
    <3> QED
      BY <3>1
  <2>2. j \in 1..Len(t) /\ t[j] = u[m]
    BY <1>3, <1>4, <2>1
  <2>3. Digit(u[m]) \in 0..9
    BY <1>1, <1>2 DEF Figures
  <2>4. At(t, j) = u[m]
    BY <2>2, AtFacts
  <2> QED
    BY <2>3, <2>4
<1>7. Digit(At(t, e)) < 0 /\ e \in i..(Len(t) + 1)
  BY <1>1, <1>2, <1>3, <1>4, <1>5
<1>8. DigitsEnd(t, i) = e
  <2>1. ASSUME NEW j \in i..(Len(t) + 1), Digit(At(t, j)) < 0, \A h \in i..(j - 1) : Digit(At(t, h)) >= 0
        PROVE  j = e
    <3>1. ~(j < e)
      <4> SUFFICES ASSUME j < e PROVE FALSE
        OBVIOUS
      <4>1. j \in i..(e - 1)
        BY <1>5
      <4>2. Digit(At(t, j)) >= 0
        BY <1>6, <4>1
      <4>3. Digit(At(t, j)) \in Int
        BY DigitType
      <4> QED
        BY <2>1, <4>2, <4>3
    <3>2. ~(e < j)
      <4> SUFFICES ASSUME e < j PROVE FALSE
        OBVIOUS
      <4>1. e \in i..(j - 1)
        BY <1>5
      <4>2. Digit(At(t, e)) >= 0
        BY <2>1, <4>1
      <4>3. Digit(At(t, e)) \in Int
        BY DigitType
      <4> QED
        BY <1>7, <4>2, <4>3
    <3> QED
      BY <3>1, <3>2
  <2>2. \A j \in i..(Len(t) + 1) :
          (Digit(At(t, j)) < 0 /\ \A h \in i..(j - 1) : Digit(At(t, h)) >= 0) <=> j = e
    BY <1>6, <1>7, <2>1
  <2>3. DigitsEnd(t, i) = CHOOSE j \in i..(Len(t) + 1) : Digit(At(t, j)) < 0 /\ \A h \in i..(j - 1) : Digit(At(t, h)) >= 0
    BY DEF DigitsEnd
  <2> QED
    BY <1>7, <2>2, <2>3
<1>9. DigitsRead(t, p + 1, k) = n
  BY <1>1, <1>2, <1>3, DigitsValue
<1>10. e - i = k
  BY <1>5
<1>11. ParseDigits(t, i) = Ok(Number(DigitsRead(t, i, e - i)), e)
  BY <1>8, DigitsReadLast
<1> QED
  BY <1>1, <1>2, <1>5, <1>9, <1>10, <1>11

(* A text that begins an element of a list.                                *)
Begins(u) == Len(u) >= 1 /\ u[1] \notin Blank /\ u[1] \notin {"]", "}"}

-----------------------------------------------------------------------------
(* Lists: the elements are joined with commas, and read one after the      *)
(* other.                                                                  *)

(* The elements of a list, with the commas between them.                   *)
Separated(us) == [i \in 1..Len(us) |-> IF i = Len(us) THEN us[i] ELSE Append(us[i], ",")]

LEMMA CommaFacts ==
  /\ "," \notin Blank /\ "]" \notin Blank /\ "}" \notin Blank /\ ":" \notin Blank
  /\ "," # "]" /\ "," # "}"
  /\ "," \in Chars /\ <<",">> \in Texts /\ Len(<<",">>) = 1 /\ <<",">>[1] = ","
<1>1. "," \in Chars
  BY CharsAssumption
<1> QED
  BY <1>1, TextOne DEF Blank, Control

LEMMA PiecesType ==
  ASSUME NEW n \in Nat, NEW f \in [1..n -> Texts]
  PROVE  f \in Seq(Texts) /\ Len(f) = n
OBVIOUS

(* A list is its elements, each but the last with a comma behind it.       *)
LEMMA SeparatedFacts ==
  ASSUME NEW us \in Seq(Texts)
  PROVE  /\ Separated(us) \in Seq(Texts) /\ Len(Separated(us)) = Len(us) /\ Joined(us) = FlattenSeq(Separated(us))
         /\ \A k \in Nat : k + 1 < Len(us) => Separated(us)[k + 1] = us[k + 1] \o <<",">>
         /\ Len(us) >= 1 => Separated(us)[Len(us)] = us[Len(us)]
         /\ Joined(us) \in Texts
<1>1. ASSUME NEW i \in 1..Len(us)
      PROVE  us[i] \in Texts /\ Append(us[i], ",") \in Texts /\ Append(us[i], ",") = us[i] \o <<",">>
  <2>1. us[i] \in Texts
    OBVIOUS
  <2>2. "," \in Chars
    BY CommaFacts
  <2> QED
    BY <2>1, <2>2, TextAppend
<1>2. Separated(us) \in Seq(Texts) /\ Len(Separated(us)) = Len(us)
  <2>1. PICK n \in Nat : n = Len(us)
    OBVIOUS
  <2>2. \A i \in 1..n : (IF i = n THEN us[i] ELSE Append(us[i], ",")) \in Texts
    BY <1>1, <2>1
  <2>3. Separated(us) = [i \in 1..n |-> IF i = n THEN us[i] ELSE Append(us[i], ",")]
    BY <2>1 DEF Separated
  <2>4. Separated(us) \in [1..n -> Texts]
    BY <2>2, <2>3
  <2> QED
    BY <2>1, <2>4, PiecesType
<1>3. ASSUME NEW k \in Nat, k + 1 < Len(us)
      PROVE  Separated(us)[k + 1] = us[k + 1] \o <<",">>
  <2>1. k + 1 \in 1..Len(us) /\ k + 1 # Len(us)
    BY <1>3
  <2>2. Separated(us)[k + 1] = Append(us[k + 1], ",")
    BY <2>1 DEF Separated
  <2> QED
    BY <1>1, <2>1, <2>2
<1>4. Len(us) >= 1 => Separated(us)[Len(us)] = us[Len(us)]
  <2> SUFFICES ASSUME Len(us) >= 1 PROVE Separated(us)[Len(us)] = us[Len(us)]
    OBVIOUS
  <2>1. PICK i \in 1..Len(us) : i = Len(us)
    OBVIOUS
  <2>2. Separated(us)[i] = us[i]
    BY <2>1 DEF Separated
  <2> QED
    BY <2>1, <2>2
<1>5. Joined(us) = FlattenSeq(Separated(us))
  BY DEF Joined, Separated
<1> QED
  BY <1>2, <1>3, <1>4, <1>5, FlattenType

(* Where no blank is, none is skipped.                                     *)
LEMMA NoSkip ==
  ASSUME NEW t, NEW i, At(t, i) \notin Blank
  PROVE  Skip(t, i) = i
BY DEF Skip

ElementsFrom(from) == [ok |-> TRUE, more |-> TRUE, list |-> <<>>, next |-> from.place]
ElementNext(from, s, k) ==
  IF s.more THEN ElementStep(from.text, from.close, from.parse, s) ELSE s
ElementReader == INSTANCE Loop WITH Start <- ElementsFrom, Step <- ElementNext

(* The elements that have been read after k rounds of the parser's loop.   *)
ElementsRead(t, i, close, parse, k) ==
  ElementReader!After([text |-> t, place |-> i, close |-> close, parse |-> parse], k)

LEMMA ReadingFirst ==
  ASSUME NEW t, NEW i, NEW close, NEW parse
  PROVE  ElementsRead(t, i, close, parse, 0) = [ok |-> TRUE, more |-> TRUE, list |-> <<>>, next |-> i]
<1>1. PICK from : from = [text |-> t, place |-> i, close |-> close, parse |-> parse]
  OBVIOUS
<1>2. from.place = i
  BY <1>1
<1> QED
  BY <1>1, <1>2, ElementReader!AfterZero DEF ElementsRead, ElementsFrom

(* The rounds of the parser's loop over elements.                          *)
LEMMA ReadingNext ==
  ASSUME NEW t, NEW i, NEW close, NEW parse, NEW k \in Nat
  PROVE  ElementsRead(t, i, close, parse, k + 1) =
              IF ElementsRead(t, i, close, parse, k).more
              THEN ElementStep(t, close, parse, ElementsRead(t, i, close, parse, k))
              ELSE ElementsRead(t, i, close, parse, k)
<1>1. PICK from : from = [text |-> t, place |-> i, close |-> close, parse |-> parse]
  OBVIOUS
<1>2. from.text = t /\ from.close = close /\ from.parse = parse
  BY <1>1
<1>3. ElementReader!After(from, k + 1) = ElementNext(from, ElementReader!After(from, k), k + 1)
  BY ElementReader!AfterNext
<1> QED
  BY <1>1, <1>2, <1>3 DEF ElementsRead, ElementNext

(* The loop has a round for every two characters.                          *)
LEMMA ElementsReadLast ==
  ASSUME NEW t, NEW i, NEW close, NEW parse
  PROVE  ParseElements(t, i, close, parse) = ElementsRead(t, i, close, parse, (Len(t) + 1 - i) \div 2)
BY DEF ParseElements, ElementsRead, ElementReader!After, ElementsFrom, ElementNext

IsClose(c) == c = "]" \/ c = "}"
OneHeld(t, close, parse, a, b, e) ==
  IsClose(close) /\ b \in 1..Len(t) /\ (t[b] = "," \/ t[b] = close) /\ parse[a] = Ok(e, b)
OneStepped(t, close, parse, a, b, e, x) ==
  /\ t[b] = "," => ElementStep(t, close, parse, [ok |-> TRUE, more |-> TRUE, list |-> x, next |-> a]) =
                     [ok |-> TRUE, more |-> TRUE, list |-> Append(x, e), next |-> b + 1]
  /\ t[b] # "," => ElementStep(t, close, parse, [ok |-> TRUE, more |-> TRUE, list |-> x, next |-> a]) =
                     [ok |-> TRUE, more |-> FALSE, list |-> Append(x, e), next |-> b + 1]

(* The parser at one element, which a comma or the end of the list follows. *)
LEMMA ElementRead ==
  ASSUME NEW t \in Texts, NEW close, NEW parse, NEW a, NEW b, NEW e, NEW x, OneHeld(t, close, parse, a, b, e)
  PROVE  OneStepped(t, close, parse, a, b, e, x)
<1> USE DEF OneHeld
<1> SUFFICES
      /\ t[b] = "," => ElementStep(t, close, parse, [ok |-> TRUE, more |-> TRUE, list |-> x, next |-> a]) =
                         [ok |-> TRUE, more |-> TRUE, list |-> Append(x, e), next |-> b + 1]
      /\ t[b] # "," => ElementStep(t, close, parse, [ok |-> TRUE, more |-> TRUE, list |-> x, next |-> a]) =
                         [ok |-> TRUE, more |-> FALSE, list |-> Append(x, e), next |-> b + 1]
  BY DEF OneStepped
<1>0. PICK s : s = [ok |-> TRUE, more |-> TRUE, list |-> x, next |-> a]
  OBVIOUS
<1>1. s.next = a /\ s.list = x
  BY <1>0
<1>2. PICK r : r = parse[s.next] /\ r.ok = TRUE /\ r.value = e /\ r.next = b
  <2>1. Ok(e, b).ok = TRUE /\ Ok(e, b).value = e /\ Ok(e, b).next = b
    BY DEF Ok
  <2> QED
    BY <1>1, <2>1
<1>3. At(t, r.next) = t[b]
  BY <1>2, AtFacts
<1>4. Skip(t, r.next) = r.next
  BY <1>3, CommaFacts, NoSkip DEF IsClose
<1>5. ElementStep(t, close, parse, s) =
        [ok   |-> r.ok /\ At(t, r.next) \in {",", close}, more |-> r.ok /\ At(t, r.next) = ",",
         list |-> Append(s.list, r.value), next |-> r.next + 1]
  BY <1>2, <1>4 DEF ElementStep
<1>6. (r.ok /\ At(t, r.next) \in {",", close}) = TRUE
  BY <1>2, <1>3
<1>7. (r.ok /\ At(t, r.next) = ",") = (t[b] = ",")
  BY <1>2, <1>3
<1> QED
  BY <1>0, <1>1, <1>2, <1>5, <1>6, <1>7

(* What parse makes of texts, wherever they are, is what E has.            *)
Reads(t, parse, us, E) ==
  \A i \in 1..Len(us) : \A q \in Nat :
    Holds(t, q, us[i]) /\ Digit(At(t, q + 1 + Len(us[i]))) < 0 => parse[q + 1] = Ok(E[i], q + 1 + Len(us[i]))
CloseFact(close) == Digit(close) < 0 /\ Digit(",") < 0 /\ close \notin Blank /\ close # ","

LEMMA BelowZeroInt == \E d \in Int : d = -1 /\ d < 0
OBVIOUS

LEMMA BelowZero == -1 < 0
OBVIOUS

LEMMA CloseFacts ==
  ASSUME NEW close \in {"]", "}"}
  PROVE  CloseFact(close)
<1>1. Digit("]") = -1 /\ Digit("}") = -1 /\ Digit(",") = -1
  BY NoDigit
<1>2. close = "]" \/ close = "}"
  OBVIOUS
<1>3. Digit(close) = -1 /\ Digit(",") = -1
  <2>1. CASE close = "]"
    BY <1>1, <2>1
  <2>2. CASE close = "}"
    BY <1>1, <2>2
  <2> QED
    BY <1>2, <2>1, <2>2
<1>4. Digit(close) < 0 /\ Digit(",") < 0
  <2>1. PICK d : d = -1 /\ d < 0
    BY BelowZero
  <2> QED
    BY <1>3, <2>1
<1> QED
  BY <1>2, <1>4, CommaFacts DEF CloseFact

(* Where the pieces before an element end, and the element begins.         *)
Place(us, p, k) == p + Len(Prefix(Separated(us), k))

(* Where the next element begins.                                          *)
LEMMA PlaceNext ==
  ASSUME NEW us \in Seq(Texts), NEW p \in Nat, NEW k \in Nat, k + 1 <= Len(us)
  PROVE  /\ Place(us, p, 0) = p /\ Place(us, p, k) \in Nat
         /\ Place(us, p, k + 1) = Place(us, p, k) + Len(Separated(us)[k + 1])
         /\ Place(us, p, Len(us)) = p + Len(Joined(us))
<1>1. PICK ss \in Seq(Texts) : ss = Separated(us) /\ Len(ss) = Len(us) /\ Joined(us) = FlattenSeq(ss)
  BY SeparatedFacts
<1>2. k \in 0..(Len(ss) - 1) /\ k \in 0..Len(ss) /\ k + 1 \in 1..Len(ss)
  BY <1>1
<1>3. PICK a, b : a = Prefix(ss, k) /\ b = ss[k + 1]
  OBVIOUS
<1>4. a \in Texts /\ b \in Texts
  BY <1>2, <1>3, PrefixType
<1>5. Prefix(ss, k + 1) = a \o b
  BY <1>2, <1>3, PrefixNext
<1>6. Len(a \o b) = Len(a) + Len(b) /\ Len(a) \in Nat /\ Len(b) \in Nat
  BY <1>4, TextJoin
<1>7. Place(us, p, k + 1) = Place(us, p, k) + Len(Separated(us)[k + 1]) /\ Place(us, p, k) \in Nat
  <2>1. PICK m \in Nat, n \in Nat : m = Len(a) /\ n = Len(b)
    BY <1>6
  <2>2. p + (m + n) = (p + m) + n /\ p + m \in Nat
    OBVIOUS
  <2> QED
    BY <1>1, <1>3, <1>5, <1>6, <2>1, <2>2 DEF Place
<1>8. Place(us, p, Len(us)) = p + Len(Joined(us))
  BY <1>1, FlattenIsPrefix DEF Place
<1>9. Place(us, p, 0) = p
  <2>1. Prefix(ss, 0) = <<>> /\ Len(<<>>) = 0
    BY PrefixNext
  <2> QED
    BY <1>1, <2>1 DEF Place
<1> QED
  BY <1>7, <1>8, <1>9

(* An element at its place q, of length L.                                 *)
ElementAt(t, p, us, k, q, L) ==
  /\ q \in Nat /\ L \in Nat /\ Holds(t, q, us[k + 1]) /\ q + L <= Len(t)
  /\ k + 1 < Len(us) => t[q + L + 1] = "," /\ q + L + 1 <= Len(t) /\ Place(us, p, k + 1) = q + L + 1
  /\ k + 1 = Len(us) => q + L = p + Len(Joined(us))

(* The k-th element of a list is in the text at its place, and a comma or  *)
(* the end of the list follows it.                                         *)
LEMMA ElementHeld ==
  ASSUME NEW t \in Texts, NEW us \in Seq(Texts), NEW p \in Nat, Holds(t, p, Joined(us)),
         NEW k \in Nat, k + 1 <= Len(us)
  PROVE  ElementAt(t, p, us, k, Place(us, p, k), Len(us[k + 1]))
<1>0. PICK q, L : q = Place(us, p, k) /\ L = Len(us[k + 1])
  OBVIOUS
<1> SUFFICES /\ q \in Nat /\ L \in Nat /\ Holds(t, q, us[k + 1]) /\ q + L <= Len(t)
             /\ k + 1 < Len(us) => t[q + L + 1] = "," /\ q + L + 1 <= Len(t) /\ Place(us, p, k + 1) = q + L + 1
             /\ k + 1 = Len(us) => q + L = p + Len(Joined(us))
  BY <1>0 DEF ElementAt
<1>1. PICK ss \in Seq(Texts) : ss = Separated(us) /\ Len(ss) = Len(us) /\ Joined(us) = FlattenSeq(ss)
  BY SeparatedFacts
<1>2. k \in 0..(Len(ss) - 1) /\ k + 1 \in 1..Len(us)
  BY <1>1
<1>3. PICK u, v : u = us[k + 1] /\ v = ss[k + 1]
  OBVIOUS
<1>4. u \in Texts /\ v \in Texts /\ L \in Nat /\ L = Len(u)
  <2>1. u \in Texts /\ v \in Texts
    BY <1>1, <1>2, <1>3
  <2> QED
    BY <1>0, <1>3, <2>1, TextChars
<1>5. q \in Nat /\ Place(us, p, k + 1) = q + Len(v) /\ Place(us, p, Len(us)) = p + Len(Joined(us))
  BY <1>0, <1>1, <1>3, PlaceNext
<1>6. Holds(t, q, v)
  <2>1. Holds(t, p, FlattenSeq(ss))
    BY <1>1
  <2>2. Holds(t, p + Len(Prefix(ss, k)), ss[k + 1])
    BY <1>2, <2>1, HoldsPieces
  <2> QED
    BY <1>0, <1>1, <1>3, <2>2 DEF Place
<1>7. CASE k + 1 < Len(us)
  <2>1. v = u \o <<",">>
    BY <1>1, <1>3, <1>7, SeparatedFacts
  <2>2. Holds(t, q, u) /\ Holds(t, q + L, <<",">>)
    BY <1>4, <1>6, <2>1, CommaFacts, HoldsConcat
  <2>3. t[(q + L) + 1] = "," /\ (q + L) + 1 <= Len(t)
    BY <2>2, CommaFacts, HoldsOne
  <2>4. Len(v) = L + 1
    <3>1. Len(u \o <<",">>) = Len(u) + Len(<<",">>)
      BY <1>4, CommaFacts, TextJoin
    <3> QED
      BY <1>4, <2>1, <3>1, CommaFacts
  <2>5. q + (L + 1) = q + L + 1
    BY <1>4, <1>5
  <2>6. Place(us, p, k + 1) = q + L + 1
    BY <1>5, <2>4, <2>5
  <2>7. q + L <= Len(t)
    <3>1. q + L \in Nat /\ Len(t) \in Nat
      BY <1>4, <1>5, TextChars
    <3>2. PICK a \in Nat, b \in Nat : a = q + L /\ b = Len(t)
      BY <3>1
    <3>3. a + 1 <= b
      BY <2>3, <3>2
    <3>4. a <= b
      BY <3>3
    <3> QED
      BY <3>2, <3>4
  <2>8. k + 1 # Len(us)
    BY <1>7
  <2> QED
    BY <1>3, <1>4, <1>5, <2>2, <2>3, <2>6, <2>7, <2>8
<1>8. CASE k + 1 = Len(us)
  <2>1. v = u
    <3>1. Len(us) >= 1
      BY <1>8
    <3> QED
      BY <1>1, <1>3, <1>8, <3>1, SeparatedFacts
  <2>2. q + L = p + Len(Joined(us))
    BY <1>4, <1>5, <1>8, <2>1
  <2>3. Holds(t, q, u) /\ q + L <= Len(t)
    BY <1>4, <1>6, <2>1 DEF Holds
  <2>4. ~(k + 1 < Len(us))
    BY <1>8
  <2> QED
    BY <1>3, <1>4, <1>5, <2>2, <2>3, <2>4
<1> QED
  <2>1. k + 1 < Len(us) \/ k + 1 = Len(us)
    OBVIOUS
  <2> QED
    BY <1>7, <1>8, <2>1

(* A list of values for the texts.                                         *)
ListOf(E, S, us) == E \in Seq(S) /\ Len(E) = Len(us)

(* The text has a list after its first p characters, and then its end.     *)
ListHeld(t, p, close, us) ==
  /\ Holds(t, p, Joined(us)) /\ p + Len(Joined(us)) + 1 <= Len(t)
  /\ t[p + Len(Joined(us)) + 1] = close
  /\ \A i \in 1..Len(us) : Begins(us[i])

(* The parser when it has read k elements and not the last one.            *)
ReadTo(us, E, p, k) ==
  [ok |-> TRUE, more |-> TRUE, list |-> SubSeq(E, 1, k), next |-> Place(us, p, k) + 1]

(* The parser when it has read the list and its end.                       *)
ReadAll(us, E, p) ==
  [ok |-> TRUE, more |-> FALSE, list |-> E, next |-> p + Len(Joined(us)) + 2]

LEMMA OneMore ==
  ASSUME NEW S, NEW E \in Seq(S), NEW k \in Nat, k + 1 <= Len(E)
  PROVE  Append(SubSeq(E, 1, k), E[k + 1]) = SubSeq(E, 1, k + 1) /\ SubSeq(E, 1, Len(E)) = E /\ E[k + 1] \in S
OBVIOUS

(* One round reads one element, the last one the end of the list too.      *)
LEMMA ReadStep ==
  ASSUME NEW t \in Texts, NEW p \in Nat, NEW close, IsClose(close), NEW us \in Seq(Texts), NEW S,
         NEW E, ListOf(E, S, us), ListHeld(t, p, close, us), NEW parse, Reads(t, parse, us, E),
         NEW k \in Nat, k + 1 <= Len(us)
  PROVE  /\ k + 1 < Len(us) => ElementStep(t, close, parse, ReadTo(us, E, p, k)) = ReadTo(us, E, p, k + 1)
         /\ k + 1 = Len(us) => ElementStep(t, close, parse, ReadTo(us, E, p, k)) = ReadAll(us, E, p)
         /\ k + 1 < Len(us) => Place(us, p, k + 1) >= Place(us, p, k) + 2
         /\ k + 1 = Len(us) => Len(t) >= Place(us, p, k) + 2
<1>1. PICK q, L : q = Place(us, p, k) /\ L = Len(us[k + 1])
  OBVIOUS
<1>2. Holds(t, p, Joined(us))
  BY DEF ListHeld
<1>3. /\ q \in Nat /\ L \in Nat /\ Holds(t, q, us[k + 1]) /\ q + L <= Len(t)
      /\ k + 1 < Len(us) =>
              t[q + L + 1] = "," /\ q + L + 1 <= Len(t) /\ Place(us, p, k + 1) = q + L + 1
      /\ k + 1 = Len(us) => q + L = p + Len(Joined(us))
  <2>1. ElementAt(t, p, us, k, Place(us, p, k), Len(us[k + 1]))
    BY <1>2, ElementHeld
  <2> QED
    BY <1>1, <2>1 DEF ElementAt
<1>4. PICK b \in Nat : b = q + L + 1 /\ b = q + 1 + L /\ b >= 1 /\ q + L + 2 = b + 1
  <2>1. q \in Nat /\ L \in Nat
    BY <1>3
  <2> QED
    BY <2>1
<1>5. L >= 1
  <2>1. k + 1 \in 1..Len(us)
    OBVIOUS
  <2>2. Begins(us[k + 1])
    BY <2>1 DEF ListHeld
  <2> QED
    BY <1>1, <2>2 DEF Begins
<1>6. k + 1 = Len(us) => b <= Len(t) /\ t[b] = close /\ p + Len(Joined(us)) + 2 = b + 1
  <2> SUFFICES ASSUME k + 1 = Len(us) PROVE b <= Len(t) /\ t[b] = close /\ p + Len(Joined(us)) + 2 = b + 1
    OBVIOUS
  <2>1. q + L = p + Len(Joined(us))
    BY <1>3
  <2>2. p + Len(Joined(us)) + 1 <= Len(t) /\ t[p + Len(Joined(us)) + 1] = close
    BY DEF ListHeld
  <2>3. PICK m : m = p + Len(Joined(us))
    OBVIOUS
  <2>4. m \in Nat /\ m = q + L /\ m + 1 = b /\ m + 2 = b + 1
    <3>1. q \in Nat /\ L \in Nat
      BY <1>3
    <3> QED
      BY <1>4, <2>1, <2>3, <3>1
  <2> QED
    BY <2>2, <2>3, <2>4
<1>7. b \in 1..Len(t) /\ (t[b] = "," \/ t[b] = close)
  <2>1. b <= Len(t) /\ (t[b] = "," \/ t[b] = close)
    <3>2. k + 1 < Len(us) => b <= Len(t) /\ t[b] = ","
      BY <1>3, <1>4
    <3>1. k + 1 < Len(us) \/ k + 1 = Len(us)
      OBVIOUS
    <3> QED
      BY <1>6, <3>1, <3>2
  <2>2. PICK n \in Nat : n = Len(t)
    BY TextChars
  <2>3. b >= 1
    BY <1>4
  <2>5. b <= n
    BY <2>1, <2>2
  <2>4. b \in 1..n
    BY <2>3, <2>5
  <2> QED
    BY <2>1, <2>2, <2>4
<1>8. parse[q + 1] = Ok(E[k + 1], b)
  <2>1. k + 1 \in 1..Len(us)
    OBVIOUS
  <2>2. Digit(At(t, b)) < 0
    <3>1. At(t, b) = t[b]
      BY <1>7, AtFacts
    <3>2. Digit(close) < 0 /\ Digit(",") < 0
      BY CloseFacts DEF CloseFact, IsClose
    <3> QED
      BY <1>7, <3>1, <3>2
  <2>3. Digit(At(t, q + 1 + Len(us[k + 1]))) < 0
    BY <1>1, <1>4, <2>2
  <2>4. parse[q + 1] = Ok(E[k + 1], q + 1 + Len(us[k + 1]))
    BY <1>3, <2>1, <2>3 DEF Reads
  <2> QED
    BY <1>1, <1>4, <2>4
<1>16. b >= q + 2
  <2>1. q \in Nat /\ L \in Nat
    BY <1>3
  <2> QED
    BY <1>4, <1>5, <2>1
<1>9. PICK a, e, x : a = q + 1 /\ e = E[k + 1] /\ x = SubSeq(E, 1, k)
  OBVIOUS
<1>10. /\ t[b] = "," => ElementStep(t, close, parse, [ok |-> TRUE, more |-> TRUE, list |-> x, next |-> a]) =
                           [ok |-> TRUE, more |-> TRUE, list |-> Append(x, e), next |-> b + 1]
       /\ t[b] # "," => ElementStep(t, close, parse, [ok |-> TRUE, more |-> TRUE, list |-> x, next |-> a]) =
                           [ok |-> TRUE, more |-> FALSE, list |-> Append(x, e), next |-> b + 1]
  <2>1. parse[a] = Ok(e, b)
    BY <1>8, <1>9
  <2>2. t[b] = "," \/ t[b] = close
    BY <1>7
  <2>3. b \in 1..Len(t)
    BY <1>7
  <2> QED
    <3>1. OneHeld(t, close, parse, a, b, e)
      BY <2>1, <2>2, <2>3 DEF OneHeld
    <3>2. OneStepped(t, close, parse, a, b, e, x)
      BY <3>1, ElementRead
    <3> QED
      BY <3>2 DEF OneStepped
<1>11. ReadTo(us, E, p, k) = [ok |-> TRUE, more |-> TRUE, list |-> x, next |-> a]
  BY <1>1, <1>9 DEF ReadTo
<1>12. Append(x, e) = SubSeq(E, 1, k + 1) /\ SubSeq(E, 1, Len(E)) = E
  <2>1. k + 1 <= Len(E) /\ E \in Seq(S)
    BY DEF ListOf
  <2> QED
    BY <1>9, <2>1, OneMore
<1>13. CASE k + 1 < Len(us)
  <2>1. t[b] = "," /\ Place(us, p, k + 1) = b
    BY <1>3, <1>4, <1>13
  <2>2. ReadTo(us, E, p, k + 1) = [ok |-> TRUE, more |-> TRUE, list |-> Append(x, e), next |-> b + 1]
    BY <1>12, <2>1 DEF ReadTo
  <2>3. ElementStep(t, close, parse, ReadTo(us, E, p, k)) = ReadTo(us, E, p, k + 1)
    BY <1>10, <1>11, <2>1, <2>2
  <2>4. b >= q + 2
    BY <1>16
  <2>5. k + 1 # Len(us)
    BY <1>13
  <2> QED
    BY <1>1, <2>1, <2>3, <2>4, <2>5
<1>14. CASE k + 1 = Len(us)
  <2>1. t[b] # ","
    <3>1. close # ","
      BY CloseFacts DEF CloseFact, IsClose
    <3> QED
      BY <1>6, <1>14, <3>1
  <2>2. ReadAll(us, E, p) = [ok |-> TRUE, more |-> FALSE, list |-> Append(x, e), next |-> b + 1]
    <3>1. Append(x, e) = E
      BY <1>12, <1>14 DEF ListOf
    <3> QED
      BY <1>6, <1>14, <3>1 DEF ReadAll
  <2>3. ElementStep(t, close, parse, ReadTo(us, E, p, k)) = ReadAll(us, E, p)
    BY <1>10, <1>11, <2>1, <2>2
  <2>4. b >= q + 2 /\ b <= Len(t)
    BY <1>6, <1>14, <1>16
  <2>5. Len(t) >= q + 2
    <3>1. Len(t) \in Nat
      BY TextChars
    <3>2. PICK n \in Nat : n = Len(t)
      BY <3>1
    <3>3. q \in Nat
      BY <1>3
    <3> QED
      BY <2>4, <3>2, <3>3
  <2>6. ~(k + 1 < Len(us))
    BY <1>14
  <2> QED
    BY <1>1, <2>3, <2>5, <2>6
<1> QED
  <2>1. k + 1 < Len(us) \/ k + 1 = Len(us)
    OBVIOUS
  <2> QED
    BY <1>13, <1>14, <2>1

(* What is assumed of a list in a text: its elements are read by parse.    *)
ListThere(t, p, close, us, S, E, parse) ==
  IsClose(close) /\ ListOf(E, S, us) /\ ListHeld(t, p, close, us) /\ Reads(t, parse, us, E)

(* Rounds enough: every element has a character and one behind it.         *)
LEMMA HalfEnough ==
  ASSUME NEW n \in Nat, NEW l \in Int, NEW p \in Nat, 2 * n <= l - p
  PROVE  \E m \in Nat : (l + 1 - (p + 1)) \div 2 = n + m
<1>1. PICK d \in Nat : d = l - p /\ l + 1 - (p + 1) = d /\ 2 * n <= d
  <2>1. l - p >= 0
    OBVIOUS
  <2> QED
    BY <2>1
<1>2. d \div 2 >= n /\ d \div 2 \in Nat
  BY <1>1
<1>3. (d \div 2) - n \in Nat /\ d \div 2 = n + ((d \div 2) - n)
  BY <1>2
<1> QED
  BY <1>1, <1>3

LEMMA PlaceEnds ==
  ASSUME NEW us \in Seq(Texts), NEW p \in Nat
  PROVE  Place(us, p, 0) = p /\ Place(us, p, Len(us)) = p + Len(Joined(us))
<1>1. PICK ss \in Seq(Texts) : ss = Separated(us) /\ Len(ss) = Len(us) /\ Joined(us) = FlattenSeq(ss)
  BY SeparatedFacts
<1>2. Place(us, p, Len(us)) = p + Len(Joined(us))
  BY <1>1, FlattenIsPrefix DEF Place
<1>3. Prefix(ss, 0) = <<>> /\ Len(<<>>) = 0
  BY PrefixNext
<1> QED
  BY <1>1, <1>2, <1>3 DEF Place

(* After k rounds the parser has read k elements.                          *)
LEMMA ReadingTo ==
  ASSUME NEW t \in Texts, NEW p \in Nat, NEW close, NEW us \in Seq(Texts), NEW S, NEW E, NEW parse,
         ListThere(t, p, close, us, S, E, parse)
  PROVE  \A k \in Nat : k + 1 <= Len(us) =>
           ElementsRead(t, p + 1, close, parse, k) = ReadTo(us, E, p, k) /\ p + 2 * k <= Place(us, p, k)
<1>0. IsClose(close) /\ ListOf(E, S, us) /\ ListHeld(t, p, close, us) /\ Reads(t, parse, us, E)
  BY DEF ListThere
<1>1. PICK T : T = {k \in Nat : k + 1 <= Len(us) =>
           ElementsRead(t, p + 1, close, parse, k) = ReadTo(us, E, p, k) /\ p + 2 * k <= Place(us, p, k)}
  OBVIOUS
<1>2. 0 \in T
  <2> SUFFICES ASSUME 0 + 1 <= Len(us)
               PROVE  ElementsRead(t, p + 1, close, parse, 0) = ReadTo(us, E, p, 0) /\ p + 2 * 0 <= Place(us, p, 0)
    BY <1>1
  <2>1. Place(us, p, 0) = p
    BY PlaceNext, 0 \in Nat
  <2>2. SubSeq(E, 1, 0) = <<>>
    OBVIOUS
  <2>3. ReadTo(us, E, p, 0) = [ok |-> TRUE, more |-> TRUE, list |-> <<>>, next |-> p + 1]
    BY <2>1, <2>2 DEF ReadTo
  <2>4. ElementsRead(t, p + 1, close, parse, 0) = [ok |-> TRUE, more |-> TRUE, list |-> <<>>, next |-> p + 1]
    <3>1. PICK i : i = p + 1
      OBVIOUS
    <3>2. ElementsRead(t, i, close, parse, 0) = [ok |-> TRUE, more |-> TRUE, list |-> <<>>, next |-> i]
      BY ReadingFirst
    <3> QED
      BY <3>1, <3>2
  <2>5. p + 2 * 0 <= p
    OBVIOUS
  <2> QED
    BY <2>1, <2>3, <2>4, <2>5
<1>3. ASSUME NEW k \in Nat, k \in T
      PROVE  k + 1 \in T
  <2> SUFFICES ASSUME (k + 1) + 1 <= Len(us)
               PROVE  /\ ElementsRead(t, p + 1, close, parse, k + 1) = ReadTo(us, E, p, k + 1)
                      /\ p + 2 * (k + 1) <= Place(us, p, k + 1)
    BY <1>1
  <2>1. k + 1 <= Len(us) /\ k + 1 < Len(us)
    <3>1. PICK n \in Nat : n = Len(us)
      BY LenProperties
    <3> QED
      BY <3>1
  <2>2. ElementsRead(t, p + 1, close, parse, k) = ReadTo(us, E, p, k) /\ p + 2 * k <= Place(us, p, k)
    BY <1>1, <1>3, <2>1
  <2>3. ElementStep(t, close, parse, ReadTo(us, E, p, k)) = ReadTo(us, E, p, k + 1)
    BY <1>0, <2>1, ReadStep
  <2>4. Place(us, p, k + 1) >= Place(us, p, k) + 2
    BY <1>0, <2>1, ReadStep
  <2>5. ReadTo(us, E, p, k).more = TRUE
    BY DEF ReadTo
  <2>6. ElementsRead(t, p + 1, close, parse, k + 1) = ReadTo(us, E, p, k + 1)
    <3>1. ElementsRead(t, p + 1, close, parse, k + 1) =
              IF ElementsRead(t, p + 1, close, parse, k).more
              THEN ElementStep(t, close, parse, ElementsRead(t, p + 1, close, parse, k))
              ELSE ElementsRead(t, p + 1, close, parse, k)
      <4>1. PICK i : i = p + 1
        OBVIOUS
      <4>2. ElementsRead(t, i, close, parse, k + 1) =
              IF ElementsRead(t, i, close, parse, k).more
              THEN ElementStep(t, close, parse, ElementsRead(t, i, close, parse, k))
              ELSE ElementsRead(t, i, close, parse, k)
        BY ReadingNext
      <4> QED
        BY <4>1, <4>2
    <3> QED
      BY <2>2, <2>3, <2>5, <3>1
  <2>7. PICK a \in Nat, b \in Nat : a = Place(us, p, k) /\ b = Place(us, p, k + 1)
    <3>1. Place(us, p, k) \in Nat
      BY <2>1, PlaceNext
    <3>2. k + 1 \in Nat
      OBVIOUS
    <3>3. Place(us, p, k + 1) \in Nat
      BY <3>2, PlaceNext
    <3> QED
      BY <3>1, <3>3
  <2>8. p + 2 * (k + 1) <= b
    <3>1. p + 2 * k <= a /\ b >= a + 2
      BY <2>2, <2>4, <2>7
    <3> QED
      BY <3>1
  <2> QED
    BY <2>6, <2>7, <2>8
<1>4. Nat \subseteq T
  BY <1>2, <1>3, Induction
<1> SUFFICES ASSUME NEW k \in Nat, k + 1 <= Len(us)
             PROVE  ElementsRead(t, p + 1, close, parse, k) = ReadTo(us, E, p, k) /\ p + 2 * k <= Place(us, p, k)
  OBVIOUS
<1>5. k \in T
  BY <1>4
<1> QED
  BY <1>1, <1>5

(* The last element ends the loop, whatever is left of its rounds.         *)
LEMMA ReadingAll ==
  ASSUME NEW t \in Texts, NEW p \in Nat, NEW close, NEW us \in Seq(Texts), NEW S, NEW E, NEW parse,
         ListThere(t, p, close, us, S, E, parse), Len(us) >= 1
  PROVE  /\ \A m \in Nat : ElementsRead(t, p + 1, close, parse, Len(us) + m) = ReadAll(us, E, p)
         /\ 2 * Len(us) <= Len(t) - p
<1>0. IsClose(close) /\ ListOf(E, S, us) /\ ListHeld(t, p, close, us) /\ Reads(t, parse, us, E)
  BY DEF ListThere
<1>1. PICK n \in Nat, k \in Nat : n = Len(us) /\ k + 1 = n /\ k + 1 = Len(us)
  <2>1. PICK n \in Nat : n = Len(us)
    BY LenProperties
  <2>2. n - 1 \in Nat /\ (n - 1) + 1 = n
    BY <2>1
  <2> QED
    BY <2>1, <2>2
<1>2. k + 1 <= Len(us)
  BY <1>1
<1>3. ElementsRead(t, p + 1, close, parse, k) = ReadTo(us, E, p, k) /\ p + 2 * k <= Place(us, p, k)
  BY <1>2, ReadingTo
<1>4. ElementStep(t, close, parse, ReadTo(us, E, p, k)) = ReadAll(us, E, p)
  BY <1>0, <1>1, <1>2, ReadStep
<1>5. Len(t) >= Place(us, p, k) + 2
  BY <1>0, <1>1, <1>2, ReadStep
<1>6. 2 * n <= Len(t) - p
  <2>1. PICK a \in Nat, b \in Nat : a = Place(us, p, k) /\ b = Len(t)
    BY <1>2, PlaceNext, TextChars
  <2>2. p + 2 * k <= a /\ b >= a + 2
    BY <1>3, <1>5, <2>1
  <2>3. 2 * n = 2 * k + 2
    BY <1>1
  <2>4. 2 * n <= b - p
    BY <2>2, <2>3
  <2> QED
    BY <2>1, <2>4
<1>7. ReadTo(us, E, p, k).more = TRUE /\ ReadAll(us, E, p).more = FALSE
  BY DEF ReadTo, ReadAll
<1>8. \A m \in Nat : ElementsRead(t, p + 1, close, parse, m + 1) =
              IF ElementsRead(t, p + 1, close, parse, m).more
              THEN ElementStep(t, close, parse, ElementsRead(t, p + 1, close, parse, m))
              ELSE ElementsRead(t, p + 1, close, parse, m)
  <2>1. PICK i : i = p + 1
    OBVIOUS
  <2>2. \A m \in Nat : ElementsRead(t, i, close, parse, m + 1) =
              IF ElementsRead(t, i, close, parse, m).more
              THEN ElementStep(t, close, parse, ElementsRead(t, i, close, parse, m))
              ELSE ElementsRead(t, i, close, parse, m)
    BY ReadingNext
  <2> QED
    BY <2>1, <2>2
<1>9. ElementsRead(t, p + 1, close, parse, n) = ReadAll(us, E, p)
  BY <1>1, <1>3, <1>4, <1>7, <1>8
<1>10. PICK T : T = {m \in Nat : ElementsRead(t, p + 1, close, parse, n + m) = ReadAll(us, E, p)}
  OBVIOUS
<1>11. 0 \in T
  <2>1. n + 0 = n
    OBVIOUS
  <2> QED
    BY <1>9, <1>10, <2>1
<1>12. ASSUME NEW m \in Nat, m \in T
       PROVE  m + 1 \in T
  <2>1. n + (m + 1) = (n + m) + 1 /\ n + m \in Nat
    OBVIOUS
  <2>2. ElementsRead(t, p + 1, close, parse, n + m) = ReadAll(us, E, p)
    BY <1>10, <1>12
  <2>3. ElementsRead(t, p + 1, close, parse, (n + m) + 1) = ReadAll(us, E, p)
    BY <1>7, <1>8, <2>1, <2>2
  <2> QED
    BY <1>10, <2>1, <2>3
<1>13. Nat \subseteq T
  BY <1>11, <1>12, Induction
<1>14. \A m \in Nat : ElementsRead(t, p + 1, close, parse, n + m) = ReadAll(us, E, p)
  BY <1>10, <1>13
<1> QED
  BY <1>1, <1>6, <1>14

(* A list in a text is read as what its elements are read as, up to the    *)
(* place after its end.                                                    *)
LEMMA ListParsed ==
  ASSUME NEW t \in Texts, NEW p \in Nat, NEW close, NEW us \in Seq(Texts), NEW S, NEW E, NEW parse,
         ListThere(t, p, close, us, S, E, parse)
  PROVE  ParseList(t, p + 1, close, parse) = Ok(E, p + Len(Joined(us)) + 2)
<1>0. IsClose(close) /\ ListOf(E, S, us) /\ ListHeld(t, p, close, us) /\ Reads(t, parse, us, E)
  BY DEF ListThere
<1>1. close \notin Blank /\ close # ","
  BY <1>0, CloseFacts DEF CloseFact, IsClose
<1>2. CASE Len(us) = 0
  <2>1. us = <<>> /\ E = <<>>
    BY <1>0, <1>2, EmptySeq DEF ListOf
  <2>2. Len(Joined(us)) = 0
    <3>1. Place(us, p, 0) = p /\ Place(us, p, Len(us)) = p + Len(Joined(us))
      BY PlaceEnds
    <3>2. Len(Joined(us)) \in Nat
      BY SeparatedFacts, TextChars
    <3> QED
      BY <1>2, <3>1, <3>2
  <2>3. p + 1 \in 1..Len(t) /\ t[p + 1] = close
    <3>1. p + Len(Joined(us)) + 1 <= Len(t) /\ t[p + Len(Joined(us)) + 1] = close
      BY <1>0 DEF ListHeld
    <3>2. p + 0 + 1 = p + 1
      OBVIOUS
    <3>3. PICK n \in Nat : n = Len(t)
      BY TextChars
    <3>4. p + 1 <= n /\ t[p + 1] = close
      BY <2>2, <3>1, <3>2, <3>3
    <3> QED
      BY <3>3, <3>4
  <2>4. At(t, p + 1) = close
    BY <2>3, AtFacts
  <2>5. Skip(t, p + 1) = p + 1
    BY <1>1, <2>4, NoSkip
  <2>6. ParseList(t, p + 1, close, parse) = Ok(<<>>, (p + 1) + 1)
    BY <2>4, <2>5 DEF ParseList
  <2>7. (p + 1) + 1 = p + 0 + 2
    OBVIOUS
  <2> QED
    BY <2>1, <2>2, <2>6, <2>7
<1>3. CASE Len(us) # 0
  <2>1. PICK n \in Nat : n = Len(us) /\ n >= 1 /\ Len(us) >= 1 /\ 0 + 1 <= Len(us)
    <3>1. PICK n \in Nat : n = Len(us)
      BY LenProperties
    <3>2. n >= 1 /\ 0 + 1 <= n
      BY <1>3, <3>1
    <3> QED
      BY <3>1, <3>2
  <2>2. ElementAt(t, p, us, 0, Place(us, p, 0), Len(us[0 + 1])) /\ Place(us, p, 0) = p
    <3>1. Holds(t, p, Joined(us)) /\ 0 \in Nat
      BY <1>0 DEF ListHeld
    <3> QED
      BY <2>1, <3>1, ElementHeld, PlaceNext
  <2>3. Holds(t, p, us[1])
    <3>1. 0 + 1 = 1
      OBVIOUS
    <3> QED
      BY <2>2, <3>1 DEF ElementAt
  <2>4. Begins(us[1])
    <3>1. 1 \in 1..Len(us)
      BY <2>1
    <3> QED
      BY <1>0, <3>1 DEF ListHeld
  <2>5. p + 1 \in 1..Len(t) /\ t[p + 1] = us[1][1]
    <3>1. us[1] \in Texts
      <4>1. 1 \in 1..Len(us)
        BY <2>1
      <4> QED
        BY <4>1
    <3>2. PICK m \in Nat, l \in Nat : m = Len(us[1]) /\ l = Len(t)
      BY <3>1, TextChars
    <3>3. m >= 1
      BY <2>4, <3>2 DEF Begins
    <3>4. p + m <= l /\ \A j \in 1..m : t[p + j] = us[1][j]
      BY <2>3, <3>2 DEF Holds
    <3>5. 1 \in 1..m
      BY <3>3
    <3>6. p + 1 \in 1..l
      BY <3>3, <3>4
    <3> QED
      BY <3>2, <3>4, <3>5, <3>6
  <2>6. At(t, p + 1) \notin Blank /\ At(t, p + 1) # close
    <3>1. At(t, p + 1) = us[1][1]
      BY <2>5, AtFacts
    <3> QED
      BY <1>0, <2>4, <3>1 DEF Begins, IsClose
  <2>7. Skip(t, p + 1) = p + 1
    BY <2>6, NoSkip
  <2>8. ParseElements(t, p + 1, close, parse) = ReadAll(us, E, p)
    <3>1. ParseElements(t, p + 1, close, parse) =
            ElementsRead(t, p + 1, close, parse, (Len(t) + 1 - (p + 1)) \div 2)
      BY ElementsReadLast
    <3>2. 2 * n <= Len(t) - p /\ \A m \in Nat : ElementsRead(t, p + 1, close, parse, n + m) = ReadAll(us, E, p)
      <4>1. /\ \A m \in Nat : ElementsRead(t, p + 1, close, parse, Len(us) + m) = ReadAll(us, E, p)
            /\ 2 * Len(us) <= Len(t) - p
        BY <2>1, ReadingAll
      <4>2. n = Len(us)
        BY <2>1
      <4> QED
        BY <4>1, <4>2
    <3>3. PICK l \in Nat : l = Len(t)
      BY TextChars
    <3>4. PICK m \in Nat : (l + 1 - (p + 1)) \div 2 = n + m
      <4>1. 2 * n <= l - p
        BY <3>2, <3>3
      <4> QED
        BY <4>1, HalfEnough
    <3> QED
      BY <3>1, <3>2, <3>3, <3>4
  <2>9. ReadAll(us, E, p).ok = TRUE /\ ReadAll(us, E, p).list = E /\ ReadAll(us, E, p).next = p + Len(Joined(us)) + 2
    BY DEF ReadAll
  <2> QED
    BY <2>6, <2>7, <2>8, <2>9 DEF ParseList
<1> QED
  BY <1>2, <1>3

-----------------------------------------------------------------------------
(* Values of any depth, their texts and their parser.                      *)

(* The values of each depth, from the innermost on.                        *)
NoValues(data) == {}
MoreValues(data, values, k) == ValuesOver(values)
Deepening == INSTANCE Loop WITH Start <- NoValues, Step <- MoreValues

LEMMA ValuesNext ==
  /\ ValuesTo(0) = {}
  /\ \A k \in Nat : ValuesTo(k + 1) = ValuesOver(ValuesTo(k))
<1>1. \A k : ValuesTo(k) = Deepening!After(0, k)
  BY DEF ValuesTo, Deepening!After, NoValues, MoreValues
<1>2. Deepening!After(0, 0) = {}
  BY Deepening!AfterZero DEF NoValues
<1>3. \A k \in Nat : Deepening!After(0, k + 1) = ValuesOver(Deepening!After(0, k))
  BY Deepening!AfterNext DEF MoreValues
<1> QED
  BY <1>1, <1>2, <1>3

Members(S) == [name : Texts, value : S]

LEMMA SeqMore ==
  ASSUME NEW S, NEW R, S \subseteq R
  PROVE  Seq(S) \subseteq Seq(R)
OBVIOUS

LEMMA MembersMore ==
  ASSUME NEW S, NEW R, S \subseteq R
  PROVE  Members(S) \subseteq Members(R)
BY DEF Members

(* A value is made of values of the next depth.                            *)
LEMMA ValueCases ==
  ASSUME NEW S, NEW v \in ValuesOver(S)
  PROVE  \/ v.type = "number" /\ v.num \in Numbers /\ v = Number(v.num)
         \/ v.type = "string" /\ v.str \in Texts /\ v = String(v.str)
         \/ v.type = "array" /\ v.items \in Seq(S) /\ v = Array(v.items)
         \/ v.type = "object" /\ v.members \in Seq(Members(S)) /\ v = Object(v.members)
<1>1. CASE v \in [type : {"number"}, num : Numbers]
  BY <1>1 DEF Number
<1>2. CASE v \in [type : {"string"}, str : Texts]
  BY <1>2 DEF String
<1>3. CASE v \in [type : {"array"}, items : Seq(S)]
  BY <1>3 DEF Array
<1>4. CASE v \in [type : {"object"}, members : Seq([name : Texts, value : S])]
  BY <1>4 DEF Object, Members
<1> QED
  BY <1>1, <1>2, <1>3, <1>4 DEF ValuesOver

(* What is a value, from values S of the depth below.                      *)
LEMMA ValueMade ==
  ASSUME NEW S
  PROVE  /\ \A n \in Numbers : Number(n) \in ValuesOver(S)
         /\ \A s \in Texts : String(s) \in ValuesOver(S)
         /\ \A vs \in Seq(S) : Array(vs) \in ValuesOver(S)
         /\ \A ms \in Seq(Members(S)) : Object(ms) \in ValuesOver(S)
BY DEF ValuesOver, Number, String, Array, Object, Members

LEMMA OverMore ==
  ASSUME NEW S, NEW R, S \subseteq R
  PROVE  ValuesOver(S) \subseteq ValuesOver(R)
<1> SUFFICES ASSUME NEW v \in ValuesOver(S) PROVE v \in ValuesOver(R)
  OBVIOUS
<1>1. Seq(S) \subseteq Seq(R)
  BY SeqMore
<1>2. Seq(Members(S)) \subseteq Seq(Members(R))
  BY SeqMore, MembersMore
<1>3. CASE v.type = "number" /\ v.num \in Numbers /\ v = Number(v.num)
  BY <1>3, ValueMade
<1>4. CASE v.type = "string" /\ v.str \in Texts /\ v = String(v.str)
  BY <1>4, ValueMade
<1>5. CASE v.type = "array" /\ v.items \in Seq(S) /\ v = Array(v.items)
  BY <1>1, <1>5, ValueMade
<1>6. CASE v.type = "object" /\ v.members \in Seq(Members(S)) /\ v = Object(v.members)
  BY <1>2, <1>6, ValueMade
<1> QED
  BY <1>3, <1>4, <1>5, <1>6, ValueCases

LEMMA ValuesMore ==
  ASSUME NEW n \in Nat
  PROVE  ValuesTo(n) \subseteq ValuesTo(n + 1)
<1>1. PICK T : T = {k \in Nat : ValuesTo(k) \subseteq ValuesTo(k + 1)}
  OBVIOUS
<1>2. 0 \in T
  BY <1>1, ValuesNext
<1>3. ASSUME NEW k \in Nat, k \in T
      PROVE  k + 1 \in T
  <2>1. PICK l \in Nat : l = k + 1
    OBVIOUS
  <2>2. ValuesTo(k) \subseteq ValuesTo(l)
    BY <1>1, <1>3, <2>1
  <2>3. ValuesTo(l) = ValuesOver(ValuesTo(k))
    BY <2>1, ValuesNext
  <2>4. ValuesTo(l + 1) = ValuesOver(ValuesTo(l))
    BY ValuesNext
  <2>5. ValuesTo(l) \subseteq ValuesTo(l + 1)
    BY <2>2, <2>3, <2>4, OverMore
  <2> QED
    BY <1>1, <2>1, <2>5
<1>4. Nat \subseteq T
  BY <1>2, <1>3, Induction
<1> QED
  BY <1>1, <1>4

(* A value of one depth is a value of every greater one.                   *)
LEMMA ValuesUp ==
  ASSUME NEW n \in Nat, NEW m \in Nat
  PROVE  ValuesTo(n) \subseteq ValuesTo(n + m)
<1>1. PICK T : T = {k \in Nat : ValuesTo(n) \subseteq ValuesTo(n + k)}
  OBVIOUS
<1>2. 0 \in T
  <2>1. n + 0 = n
    OBVIOUS
  <2> QED
    BY <1>1, <2>1
<1>3. ASSUME NEW k \in Nat, k \in T
      PROVE  k + 1 \in T
  <2>1. PICK l \in Nat : l = n + k /\ l + 1 = n + (k + 1)
    OBVIOUS
  <2>2. ValuesTo(l) \subseteq ValuesTo(l + 1)
    BY ValuesMore
  <2> QED
    BY <1>1, <1>3, <2>1, <2>2
<1>4. Nat \subseteq T
  BY <1>2, <1>3, Induction
<1> QED
  BY <1>1, <1>4

(* The texts of the values of each depth.                                  *)
NoTexts(data) == <<>>
MoreTexts(data, text, k) == [v \in ValuesTo(k) |-> TextOf(v, text)]
Printing == INSTANCE Loop WITH Start <- NoTexts, Step <- MoreTexts
TextTo(k) == Printing!After(0, k)

LEMMA TextLast == Text = TextTo(Depth)
BY DEF Text, Recursive, TextTo, Printing!After, NoTexts, MoreTexts

(* The text of a value, from the texts of what is in it.                   *)
LEMMA TextNext ==
  ASSUME NEW k \in Nat, NEW v \in ValuesTo(k + 1)
  PROVE  TextTo(k + 1)[v] = TextOf(v, TextTo(k))
<1>1. TextTo(k + 1) = MoreTexts(0, TextTo(k), k + 1)
  BY Printing!AfterNext DEF TextTo
<1> QED
  BY <1>1 DEF MoreTexts

(* What the printer writes, by type.                                       *)
LEMMA TextCases ==
  ASSUME NEW v, NEW text
  PROVE  /\ v.type = "number" => TextOf(v, text) = NumberText(v.num)
         /\ v.type = "string" => TextOf(v, text) = StringText(v.str)
         /\ v.type = "array"  => TextOf(v, text) = <<"[">> \o Joined(ItemTexts(v, text)) \o <<"]">>
         /\ v.type = "object" => TextOf(v, text) = <<"{">> \o Joined(MemberTexts(v, text)) \o <<"}">>
BY DEF TextOf

Good(u) == u \in Texts /\ Begins(u) /\ Unbroken(u)

(* A digit begins no string, no list and no blank.                         *)
LEMMA FigureNames ==
  ASSUME NEW c, Digit(c) \in 0..9
  PROVE  c \notin Blank /\ c \notin {"]", "}"} /\ c # "\n" /\ c # Quote /\ c # "[" /\ c # "{"
<1>1. -1 \notin 0..9
  OBVIOUS
<1>2. \E d \in 0..9 : DigitChars[d + 1] = c
  BY <1>1 DEF Digit
<1>3. c \in {"0", "1", "2", "3", "4", "5", "6", "7", "8", "9"}
  BY <1>2, DigitNames
<1> QED
  BY <1>3 DEF Blank, Quote, Control

(* The text of a number.                                                   *)
LEMMA NumberGood ==
  ASSUME NEW n \in Nat
  PROVE  Good(NumberText(n))
<1>1. PICK u \in Texts : u = NumberText(n) /\ Figures(u)
  BY NumberFacts
<1>2. PICK l \in Nat : l = Len(u) /\ l >= 1
  BY <1>1, TextChars DEF Figures
<1>3. \A i \in 1..l : Digit(u[i]) \in 0..9
  BY <1>1, <1>2 DEF Figures
<1>4. 1 \in 1..l
  BY <1>2
<1>5. \A i \in 1..l : u[i] # "\n"
  BY <1>3, FigureNames
<1>6. u[1] \notin Blank /\ u[1] \notin {"]", "}"}
  BY <1>3, <1>4, FigureNames
<1> QED
  BY <1>1, <1>2, <1>5, <1>6 DEF Good, Begins, Unbroken

LEMMA AroundFacts ==
  ASSUME NEW a \in Chars, NEW u \in Texts, NEW b \in Chars
  PROVE  /\ <<a>> \o u \o <<b>> \in Texts /\ Len(<<a>> \o u \o <<b>>) = Len(u) + 2
         /\ (<<a>> \o u \o <<b>>)[1] = a
         /\ a # "\n" /\ Unbroken(u) /\ b # "\n" => Unbroken(<<a>> \o u \o <<b>>)
<1>1. PICK x \in Texts, y \in Texts : x = <<a>> /\ y = <<b>> /\ Len(x) = 1 /\ Len(y) = 1 /\ x[1] = a
  BY TextOne
<1>2. PICK z \in Texts : z = x \o u /\ Len(z) = Len(x) + Len(u)
  BY TextJoin
<1>3. z \o y \in Texts /\ Len(z \o y) = Len(z) + Len(y)
  BY TextJoin
<1>4. PICK l \in Nat : l = Len(u)
  BY TextChars
<1>5. Len(z) = l + 1 /\ Len(z \o y) = l + 2
  <2>1. 1 + l = l + 1 /\ (1 + l) + 1 = l + 2
    OBVIOUS
  <2> QED
    BY <1>1, <1>2, <1>3, <1>4, <2>1
<1>6. z[1] = a
  <2>1. \A i \in 1..(Len(x) + Len(u)) : (x \o u)[i] = IF i <= Len(x) THEN x[i] ELSE u[i - Len(x)]
    BY TextConcat
  <2>2. 1 \in 1..(1 + l)
    OBVIOUS
  <2> QED
    BY <1>1, <1>2, <1>4, <2>1, <2>2
<1>7. (z \o y)[1] = a
  <2>1. \A i \in 1..(Len(z) + Len(y)) : (z \o y)[i] = IF i <= Len(z) THEN z[i] ELSE y[i - Len(z)]
    BY TextConcat
  <2>2. 1 \in 1..(l + 1 + 1) /\ 1 <= l + 1
    OBVIOUS
  <2> QED
    BY <1>1, <1>5, <1>6, <2>1, <2>2
<1>8. ASSUME a # "\n", Unbroken(u), b # "\n"
      PROVE  Unbroken(z \o y)
  <2>1. Unbroken(x) /\ Unbroken(y)
    BY <1>1, <1>8, UnbrokenOne
  <2>2. Unbroken(z)
    BY <1>2, <1>8, <2>1, UnbrokenJoin
  <2> QED
    BY <2>1, <2>2, UnbrokenJoin
<1> QED
  BY <1>1, <1>2, <1>3, <1>4, <1>5, <1>7, <1>8

LEMMA QuoteFacts ==
  Quote \in Chars /\ Quote \notin Blank /\ Quote \notin {"]", "}"} /\ Quote # "\n"
BY CharsAssumption DEF Quote, Blank, Control

(* The text of a string.                                                   *)
LEMMA StringBegins ==
  ASSUME NEW s \in Texts
  PROVE  Good(StringText(s)) /\ StringText(s)[1] = Quote
<1>1. PICK u \in Texts : u = FlattenSeq(Escapes(s)) /\ StringText(s) = <<Quote>> \o u \o <<Quote>>
  BY EscapesType
<1>2. StringText(s) \in Texts /\ Len(StringText(s)) = Len(u) + 2 /\ StringText(s)[1] = Quote
  <2>1. PICK q \in Chars : q = Quote
    BY QuoteFacts
  <2>2. /\ <<q>> \o u \o <<q>> \in Texts /\ Len(<<q>> \o u \o <<q>>) = Len(u) + 2
        /\ (<<q>> \o u \o <<q>>)[1] = q
    BY AroundFacts
  <2> QED
    BY <1>1, <2>1, <2>2
<1>3. Len(StringText(s)) >= 1
  <2>1. PICK l \in Nat : l = Len(u)
    BY TextChars
  <2>2. l + 2 >= 1
    OBVIOUS
  <2> QED
    BY <1>2, <2>1, <2>2
<1>4. Unbroken(StringText(s))
  BY StringUnbroken
<1> QED
  BY <1>2, <1>3, <1>4, QuoteFacts DEF Good, Begins

(* Commas bring no newline into a list.                                    *)
LEMMA JoinedUnbroken ==
  ASSUME NEW us \in Seq(Texts), \A i \in 1..Len(us) : Unbroken(us[i])
  PROVE  Unbroken(Joined(us))
<1>1. PICK ss \in Seq(Texts) : ss = Separated(us) /\ Len(ss) = Len(us) /\ Joined(us) = FlattenSeq(ss)
  BY SeparatedFacts
<1>2. ASSUME NEW i \in 1..Len(us)
      PROVE  Unbroken(ss[i])
  <2>1. Unbroken(us[i]) /\ us[i] \in Texts
    OBVIOUS
  <2>2. ss[i] = IF i = Len(us) THEN us[i] ELSE Append(us[i], ",")
    BY <1>1 DEF Separated
  <2>3. Append(us[i], ",") = us[i] \o <<",">>
    BY <2>1, CommaFacts, TextAppend
  <2>4. Unbroken(<<",">>) /\ <<",">> \in Texts
    <3>1. "," # "\n"
      OBVIOUS
    <3> QED
      BY <3>1, CommaFacts, UnbrokenOne
  <2>5. Unbroken(us[i] \o <<",">>)
    BY <2>1, <2>4, UnbrokenJoin
  <2> QED
    BY <2>1, <2>2, <2>3, <2>5
<1>3. Unbroken(FlattenSeq(ss))
  BY <1>1, <1>2, UnbrokenFlatten
<1> QED
  BY <1>1, <1>3

(* The texts of the parts of a list, given the texts of values in S.       *)
LEMMA ItemsFacts ==
  ASSUME NEW S, NEW text, \A w \in S : Good(text[w]), NEW v, v.items \in Seq(S)
  PROVE  /\ ItemTexts(v, text) \in Seq(Texts) /\ Len(ItemTexts(v, text)) = Len(v.items)
         /\ \A i \in 1..Len(v.items) : ItemTexts(v, text)[i] = text[v.items[i]] /\ v.items[i] \in S
         /\ \A i \in 1..Len(v.items) : Good(ItemTexts(v, text)[i])
<1>1. PICK vs \in Seq(S) : vs = v.items
  OBVIOUS
<1>2. PICK n \in Nat : n = Len(vs)
  OBVIOUS
<1>3. \A i \in 1..n : vs[i] \in S
  BY <1>2
<1>4. PICK f : f = [i \in 1..n |-> text[vs[i]]]
  OBVIOUS
<1>5. f \in [1..n -> Texts]
  BY <1>3, <1>4 DEF Good
<1>6. f = ItemTexts(v, text)
  BY <1>1, <1>2, <1>4 DEF ItemTexts
<1>7. f \in Seq(Texts) /\ Len(f) = n
  BY <1>5, PiecesType
<1>8. \A i \in 1..n : f[i] = text[vs[i]] /\ Good(f[i])
  BY <1>3, <1>4
<1> QED
  BY <1>1, <1>2, <1>3, <1>6, <1>7, <1>8

(* The text of a member of an object.                                      *)
MemberText(m, text) == StringText(m.name) \o <<":">> \o text[m.value]

(* The text of a member.                                                   *)
LEMMA MemberGood ==
  ASSUME NEW S, NEW text, \A w \in S : Good(text[w]), NEW m \in Members(S)
  PROVE  Good(MemberText(m, text)) /\ MemberText(m, text)[1] = Quote
<1>1. PICK a \in Texts, c \in Texts, b \in Texts :
        a = StringText(m.name) /\ c = <<":">> /\ b = text[m.value] /\ MemberText(m, text) = a \o c \o b
  <2>1. m.name \in Texts /\ m.value \in S
    BY DEF Members
  <2>2. ":" \in Chars
    BY CharsAssumption
  <2>3. <<":">> \in Texts
    BY <2>2, TextOne
  <2>4. StringText(m.name) \in Texts /\ text[m.value] \in Texts
    BY <2>1, StringFits DEF Good
  <2> QED
    BY <2>3, <2>4 DEF MemberText
<1>2. Unbroken(a) /\ Unbroken(b) /\ Unbroken(c) /\ a[1] = Quote /\ Len(a) >= 1
  <2>1. m.name \in Texts /\ m.value \in S
    BY DEF Members
  <2>2. ":" \in Chars /\ ":" # "\n"
    BY CharsAssumption
  <2> QED
    BY <1>1, <2>1, <2>2, UnbrokenOne, StringBegins DEF Good, Begins
<1>3. PICK x \in Texts : x = a \o c /\ Unbroken(x) /\ Len(x) = Len(a) + Len(c)
  BY <1>2, TextJoin, UnbrokenJoin
<1>4. x \o b \in Texts /\ Unbroken(x \o b) /\ Len(x \o b) = Len(x) + Len(b)
  BY <1>2, <1>3, TextJoin, UnbrokenJoin
<1>5. PICK l \in Nat, k \in Nat, j \in Nat : l = Len(a) /\ k = Len(c) /\ j = Len(b)
  BY TextChars
<1>6. l >= 1
  BY <1>2, <1>5
<1>7. x[1] = Quote
  <2>1. \A i \in 1..(Len(a) + Len(c)) : (a \o c)[i] = IF i <= Len(a) THEN a[i] ELSE c[i - Len(a)]
    BY TextConcat
  <2>2. 1 \in 1..(l + k) /\ 1 <= l
    BY <1>6
  <2> QED
    BY <1>2, <1>3, <1>5, <2>1, <2>2
<1>8. (x \o b)[1] = Quote /\ Len(x \o b) >= 1
  <2>1. \A i \in 1..(Len(x) + Len(b)) : (x \o b)[i] = IF i <= Len(x) THEN x[i] ELSE b[i - Len(x)]
    BY TextConcat
  <2>2. 1 \in 1..(l + k + j) /\ 1 <= l + k /\ l + k + j >= 1
    BY <1>6
  <2> QED
    BY <1>3, <1>4, <1>5, <1>7, <2>1, <2>2
<1> QED
  BY <1>1, <1>3, <1>4, <1>8, QuoteFacts DEF Good, Begins

(* The texts of the members of an object.                                  *)
LEMMA MembersFacts ==
  ASSUME NEW S, NEW text, \A w \in S : Good(text[w]), NEW v, v.members \in Seq(Members(S))
  PROVE  /\ MemberTexts(v, text) \in Seq(Texts) /\ Len(MemberTexts(v, text)) = Len(v.members)
         /\ \A i \in 1..Len(v.members) :
              MemberTexts(v, text)[i] = MemberText(v.members[i], text) /\ v.members[i] \in Members(S)
         /\ \A i \in 1..Len(v.members) : Good(MemberTexts(v, text)[i])
<1>1. PICK ms \in Seq(Members(S)) : ms = v.members
  OBVIOUS
<1>2. PICK n \in Nat : n = Len(ms)
  OBVIOUS
<1>3. \A i \in 1..n : ms[i] \in Members(S)
  BY <1>2
<1>4. PICK f : f = [i \in 1..n |-> MemberText(ms[i], text)]
  OBVIOUS
<1>5. \A i \in 1..n : Good(MemberText(ms[i], text))
  BY <1>3, MemberGood
<1>6. f \in [1..n -> Texts]
  BY <1>4, <1>5 DEF Good
<1>7. f = MemberTexts(v, text)
  BY <1>1, <1>2, <1>4 DEF MemberTexts, MemberText
<1>8. f \in Seq(Texts) /\ Len(f) = n
  BY <1>6, PiecesType
<1>9. \A i \in 1..n : f[i] = MemberText(ms[i], text) /\ Good(f[i])
  BY <1>4, <1>5
<1> QED
  BY <1>1, <1>2, <1>3, <1>7, <1>8, <1>9

LEMMA AboveOne == \A l \in Nat : l + 2 \in Nat /\ l + 2 >= 1
OBVIOUS

LEMMA BracketFacts ==
  /\ {"[", "]", "{", "}"} \subseteq Chars
  /\ "[" \notin Blank /\ "[" \notin {"]", "}"} /\ "[" # "\n" /\ "]" # "\n"
  /\ "{" \notin Blank /\ "{" \notin {"]", "}"} /\ "{" # "\n" /\ "}" # "\n"
  /\ Digit("[") = -1 /\ Digit("{") = -1 /\ "[" # Quote /\ "{" # Quote /\ "{" # "["
<1>1. {"[", "]", "{", "}"} \subseteq Chars
  BY CharsAssumption
<1>2. Digit("[") = -1 /\ Digit("{") = -1
  BY NoDigit
<1> QED
  BY <1>1, <1>2 DEF Blank, Control, Quote

LEMMA AroundGood ==
  ASSUME NEW a \in Chars, NEW b \in Chars, NEW u \in Texts, Unbroken(u),
         a # "\n", b # "\n", a \notin Blank, a \notin {"]", "}"}
  PROVE  Good(<<a>> \o u \o <<b>>)
<1>2. PICK t \in Texts : t = <<a>> \o u \o <<b>> /\ Len(t) = Len(u) + 2 /\ t[1] = a /\ Unbroken(t)
  <2>1. /\ <<a>> \o u \o <<b>> \in Texts /\ Len(<<a>> \o u \o <<b>>) = Len(u) + 2
        /\ (<<a>> \o u \o <<b>>)[1] = a
    BY AroundFacts
  <2>2. Unbroken(<<a>> \o u \o <<b>>)
    BY AroundFacts
  <2> QED
    BY <2>1, <2>2
<1>3. Len(t) >= 1
  <2>0. PICK l \in Nat : l = Len(u)
    BY TextChars
  <2>1. PICK m \in Nat : m = l + 2 /\ m >= 1
    BY AboveOne
  <2> QED
    BY <1>2, <2>0, <2>1
<1> QED
  BY <1>2, <1>3 DEF Good, Begins

(* The texts of lists of either kind.                                      *)
LEMMA PartsGood ==
  ASSUME NEW us \in Seq(Texts), \A i \in 1..Len(us) : Good(us[i])
  PROVE  /\ Joined(us) \in Texts /\ Unbroken(Joined(us))
         /\ Good(<<"[">> \o Joined(us) \o <<"]">>) /\ Good(<<"{">> \o Joined(us) \o <<"}">>)
<1>1. \A i \in 1..Len(us) : Unbroken(us[i])
  BY DEF Good
<1>2. PICK u \in Texts : u = Joined(us) /\ Unbroken(u)
  BY <1>1, SeparatedFacts, JoinedUnbroken
<1>3. Good(<<"[">> \o u \o <<"]">>)
  BY <1>2, BracketFacts, AroundGood
<1>4. Good(<<"{">> \o u \o <<"}">>)
  BY <1>2, BracketFacts, AroundGood
<1> QED
  BY <1>2, <1>3, <1>4

LEMMA NumbersNat == ASSUME NEW n \in Numbers PROVE n \in Nat
BY DEF Numbers

(* The text of a value, if those of its parts are good.                    *)
LEMMA OfGood ==
  ASSUME NEW S, NEW text, \A w \in S : Good(text[w]), NEW v \in ValuesOver(S)
  PROVE  Good(TextOf(v, text))
<1>1. CASE v.type = "number" /\ v.num \in Numbers
  BY <1>1, NumbersNat, NumberGood, TextCases
<1>2. CASE v.type = "string" /\ v.str \in Texts
  BY <1>2, StringBegins, TextCases
<1>3. CASE v.type = "array" /\ v.items \in Seq(S)
  <2>1. PICK us \in Seq(Texts) : us = ItemTexts(v, text) /\ \A i \in 1..Len(us) : Good(us[i])
    BY <1>3, ItemsFacts
  <2>2. Good(<<"[">> \o Joined(us) \o <<"]">>)
    BY <2>1, PartsGood
  <2> QED
    BY <1>3, <2>1, <2>2, TextCases
<1>4. CASE v.type = "object" /\ v.members \in Seq(Members(S))
  <2>1. PICK us \in Seq(Texts) : us = MemberTexts(v, text) /\ \A i \in 1..Len(us) : Good(us[i])
    BY <1>4, MembersFacts
  <2>2. Good(<<"{">> \o Joined(us) \o <<"}">>)
    BY <2>1, PartsGood
  <2> QED
    BY <1>4, <2>1, <2>2, TextCases
<1> QED
  BY <1>1, <1>2, <1>3, <1>4, ValueCases

(* The text of a value is one line and begins an element of a list.        *)
LEMMA TextGood ==
  \A k \in Nat : \A v \in ValuesTo(k) : Good(TextTo(k)[v])
<1>1. PICK T : T = {k \in Nat : \A v \in ValuesTo(k) : Good(TextTo(k)[v])}
  OBVIOUS
<1>2. 0 \in T
  BY <1>1, ValuesNext
<1>3. ASSUME NEW k \in Nat, k \in T
      PROVE  k + 1 \in T
  <2>1. PICK S, text : S = ValuesTo(k) /\ text = TextTo(k)
    OBVIOUS
  <2>2. \A w \in S : Good(text[w])
    BY <1>1, <1>3, <2>1
  <2>3. ASSUME NEW v \in ValuesTo(k + 1)
        PROVE  Good(TextTo(k + 1)[v])
    <3>1. v \in ValuesOver(S)
      BY <2>1, ValuesNext
    <3>2. Good(TextOf(v, text))
      BY <2>2, <3>1, OfGood
    <3>3. TextTo(k + 1)[v] = TextOf(v, TextTo(k))
      BY TextNext
    <3> QED
      BY <2>1, <3>2, <3>3
  <2> QED
    BY <1>1, <2>3
<1>4. Nat \subseteq T
  BY <1>2, <1>3, Induction
<1> QED
  BY <1>1, <1>4

(* The parser of the values of each depth, in the text t.                  *)
NoParser(t) == [j \in Nat |-> Failed]
MoreParser(t, parse, k) == [j \in Nat |-> ParseOf(t, j, parse)]
Parsing == INSTANCE Loop WITH Start <- NoParser, Step <- MoreParser
ParseTo(t, k) == Parsing!After(t, k)

LEMMA ParserLast ==
  ASSUME NEW t, NEW i
  PROVE  ParseValue(t, i) = ParseTo(t, Depth)[i]
BY DEF ParseValue, ParseTo, Parsing!After, NoParser, MoreParser

(* The parser of one more depth calls that of the depth below.             *)
LEMMA ParserNext ==
  ASSUME NEW t, NEW k \in Nat, NEW j \in Nat
  PROVE  ParseTo(t, k + 1)[j] = ParseOf(t, j, ParseTo(t, k))
<1>1. ParseTo(t, k + 1) = MoreParser(t, ParseTo(t, k), k + 1)
  BY Parsing!AfterNext DEF ParseTo
<1> QED
  BY <1>1 DEF MoreParser

(* parse looks at one character to know what comes.                        *)
LEMMA ParseCases ==
  ASSUME NEW t, NEW i, NEW parse
  PROVE  /\ At(t, i) = Quote => ParseOf(t, i, parse) = ParseString(t, i)
         /\ At(t, i) # Quote /\ Digit(At(t, i)) >= 0 => ParseOf(t, i, parse) = ParseDigits(t, i)
         /\ At(t, i) = "[" => ParseOf(t, i, parse) = ParseArray(t, i + 1, parse)
         /\ At(t, i) = "{" => ParseOf(t, i, parse) = ParseObject(t, i + 1, parse)
<1>1. ~(-1 >= 0)
  <2>1. PICK d : d = -1 /\ d < 0 /\ d \in Int
    BY BelowZeroInt
  <2>2. ~(d >= 0)
    BY <2>1
  <2> QED
    BY <2>1, <2>2
<1>2. At(t, i) = Quote => ParseOf(t, i, parse) = ParseString(t, i)
  <2> SUFFICES ASSUME At(t, i) = Quote PROVE ParseOf(t, i, parse) = ParseString(t, i)
    OBVIOUS
  <2>1. ~(Digit(At(t, i)) >= 0)
    <3>1. Digit(Quote) = -1
      BY NoDigit
    <3> QED
      BY <1>1, <3>1
  <2>2. At(t, i) # "[" /\ At(t, i) # "{"
    BY BracketFacts
  <2> QED
    BY <2>1, <2>2 DEF ParseOf
<1>3. At(t, i) # Quote /\ Digit(At(t, i)) >= 0 => ParseOf(t, i, parse) = ParseDigits(t, i)
  <2> SUFFICES ASSUME At(t, i) # Quote, Digit(At(t, i)) >= 0 PROVE ParseOf(t, i, parse) = ParseDigits(t, i)
    OBVIOUS
  <2>1. At(t, i) # "[" /\ At(t, i) # "{"
    <3>1. ~(Digit("[") >= 0) /\ ~(Digit("{") >= 0)
      BY <1>1, BracketFacts
    <3> QED
      BY <3>1
  <2> QED
    BY <2>1 DEF ParseOf
<1>4. At(t, i) = "[" => ParseOf(t, i, parse) = ParseArray(t, i + 1, parse)
  <2> SUFFICES ASSUME At(t, i) = "[" PROVE ParseOf(t, i, parse) = ParseArray(t, i + 1, parse)
    OBVIOUS
  <2>1. ~(Digit(At(t, i)) >= 0) /\ At(t, i) # Quote /\ At(t, i) # "{"
    BY <1>1, BracketFacts
  <2> QED
    BY <2>1 DEF ParseOf
<1>5. At(t, i) = "{" => ParseOf(t, i, parse) = ParseObject(t, i + 1, parse)
  <2> SUFFICES ASSUME At(t, i) = "{" PROVE ParseOf(t, i, parse) = ParseObject(t, i + 1, parse)
    OBVIOUS
  <2>1. ~(Digit(At(t, i)) >= 0) /\ At(t, i) # Quote /\ At(t, i) # "["
    BY <1>1, BracketFacts
  <2> QED
    BY <2>1 DEF ParseOf
<1> QED
  BY <1>2, <1>3, <1>4, <1>5

(* parse reads every value of S from its text.                             *)
ReadsAll(t, parse, S, text) ==
  \A w \in S : \A q \in Nat :
    Holds(t, q, text[w]) /\ Digit(At(t, q + 1 + Len(text[w]))) < 0 => parse[q + 1] = Ok(w, q + 1 + Len(text[w]))

(* Where a text has a good one, there is nothing to skip.                  *)
LEMMA GoodHeld ==
  ASSUME NEW t \in Texts, NEW q \in Nat, NEW u, Good(u), Holds(t, q, u)
  PROVE  q + 1 \in 1..Len(t) /\ At(t, q + 1) = u[1] /\ Skip(t, q + 1) = q + 1
<1>1. PICK m \in Nat, l \in Nat : m = Len(u) /\ l = Len(t)
  BY TextChars DEF Good
<1>2. m >= 1 /\ u[1] \notin Blank
  BY <1>1 DEF Good, Begins
<1>3. q + m <= l /\ \A j \in 1..m : t[q + j] = u[j]
  BY <1>1 DEF Holds
<1>4. q + 1 \in 1..l /\ t[q + 1] = u[1]
  <2>1. 1 \in 1..m /\ q + 1 \in 1..l
    BY <1>2, <1>3
  <2> QED
    BY <1>3, <2>1
<1>5. At(t, q + 1) = u[1]
  BY <1>1, <1>4, AtFacts
<1> QED
  BY <1>1, <1>2, <1>4, <1>5, NoSkip

(* The items of an array are read.                                         *)
LEMMA ItemsRead ==
  ASSUME NEW t \in Texts, NEW S, NEW text, \A w \in S : Good(text[w]), NEW parse, ReadsAll(t, parse, S, text),
         NEW v, v.items \in Seq(S)
  PROVE  Reads(t, ParseItem(t, parse), ItemTexts(v, text), v.items)
<1>1. PICK us \in Seq(Texts) : us = ItemTexts(v, text) /\ Len(us) = Len(v.items)
        /\ \A i \in 1..Len(us) : us[i] = text[v.items[i]] /\ v.items[i] \in S
  BY ItemsFacts
<1> SUFFICES ASSUME NEW i \in 1..Len(us), NEW q \in Nat, Holds(t, q, us[i]), Digit(At(t, q + 1 + Len(us[i]))) < 0
             PROVE  ParseItem(t, parse)[q + 1] = Ok(v.items[i], q + 1 + Len(us[i]))
  BY <1>1 DEF Reads
<1>2. PICK w \in S : w = v.items[i] /\ us[i] = text[w]
  BY <1>1
<1>3. parse[q + 1] = Ok(w, q + 1 + Len(us[i]))
  BY <1>2 DEF ReadsAll
<1>4. Skip(t, q + 1) = q + 1
  BY <1>2, GoodHeld
<1>5. ParseItem(t, parse)[q + 1] = parse[Skip(t, q + 1)]
  <2>1. PICK j \in Nat : j = q + 1
    OBVIOUS
  <2>2. ParseItem(t, parse)[j] = parse[Skip(t, j)]
    BY DEF ParseItem
  <2> QED
    BY <2>1, <2>2
<1> QED
  BY <1>2, <1>3, <1>4, <1>5

(* Where the parts of a member's text are.                                 *)
LEMMA MemberHeld ==
  ASSUME NEW t \in Texts, NEW q \in Nat, NEW a \in Texts, NEW b \in Texts, Holds(t, q, a \o <<":">> \o b)
  PROVE  \E p \in Nat : /\ p = q + 1 + Len(a) /\ Holds(t, q, a) /\ Holds(t, p, b) /\ At(t, p) = ":"
                        /\ p + 1 + Len(b) = q + 1 + Len(a \o <<":">> \o b)
<1>1. PICK c \in Texts : c = <<":">> /\ Len(c) = 1 /\ c[1] = ":"
  <2>1. ":" \in Chars
    BY CharsAssumption
  <2> QED
    BY <2>1, TextOne
<1>2. PICK x \in Texts : x = a \o c /\ Len(x) = Len(a) + Len(c)
  BY TextJoin
<1>3. Len(x \o b) = Len(x) + Len(b) /\ x \o b = a \o <<":">> \o b
  BY <1>1, <1>2, TextJoin
<1>4. PICK m \in Nat, n \in Nat, l \in Nat : m = Len(a) /\ n = Len(b) /\ l = Len(t)
  BY TextChars
<1>5. Holds(t, q, x) /\ Holds(t, q + Len(x), b)
  BY <1>3, HoldsConcat
<1>6. Holds(t, q, a) /\ Holds(t, q + Len(a), c)
  BY <1>2, <1>5, HoldsConcat
<1>7. PICK p \in Nat : p = q + 1 + m /\ p = (q + m) + 1 /\ p = q + (m + 1) /\ q + m \in Nat /\ p >= 1
  <2>1. q + 1 + m = (q + m) + 1 /\ q + 1 + m = q + (m + 1) /\ q + m \in Nat /\ q + 1 + m \in Nat /\ q + 1 + m >= 1
    OBVIOUS
  <2> QED
    BY <2>1
<1>8. Holds(t, p, b)
  BY <1>1, <1>2, <1>4, <1>5, <1>7
<1>9. t[p] = ":" /\ p <= l
  <2>1. Holds(t, q + m, c)
    BY <1>4, <1>6
  <2>2. t[(q + m) + 1] = c[1] /\ (q + m) + 1 <= Len(t)
    BY <1>1, <2>1, HoldsOne
  <2> QED
    BY <1>1, <1>4, <1>7, <2>2
<1>10. At(t, p) = ":"
  <2>1. p \in 1..l
    BY <1>7, <1>9
  <2> QED
    BY <1>4, <1>9, <2>1, AtFacts
<1>11. p + 1 + Len(b) = q + 1 + Len(x \o b)
  <2>1. Len(x \o b) = (m + 1) + n
    BY <1>1, <1>2, <1>3, <1>4
  <2>2. p + 1 + n = q + 1 + ((m + 1) + n)
    BY <1>7
  <2> QED
    BY <1>4, <2>1, <2>2
<1> QED
  BY <1>3, <1>4, <1>6, <1>7, <1>8, <1>10, <1>11

(* A member is in the text, and its value can be read.                     *)
MemberThere(t, S, text, parse, m, q) ==
  /\ \A w \in S : Good(text[w])
  /\ ReadsAll(t, parse, S, text) /\ m \in Members(S) /\ q \in Nat /\ Holds(t, q, MemberText(m, text))
  /\ Digit(At(t, q + 1 + Len(MemberText(m, text)))) < 0
MemberParsed(t, text, parse, m, q) ==
  ParseMember(t, parse)[q + 1] = Ok(m, q + 1 + Len(MemberText(m, text)))

(* A member is read: its name, the colon and its value.                    *)
LEMMA MemberRead ==
  ASSUME NEW t \in Texts, NEW S, NEW text, NEW parse, NEW m, NEW q, MemberThere(t, S, text, parse, m, q)
  PROVE  MemberParsed(t, text, parse, m, q)
<1> USE DEF MemberThere
<1> SUFFICES ParseMember(t, parse)[q + 1] = Ok(m, q + 1 + Len(MemberText(m, text)))
  BY DEF MemberParsed
<1>1. m.name \in Texts /\ m.value \in S /\ m = [name |-> m.name, value |-> m.value]
  BY DEF Members
<1>2. PICK a \in Texts, b \in Texts :
        a = StringText(m.name) /\ b = text[m.value] /\ MemberText(m, text) = a \o <<":">> \o b /\ Good(a) /\ Good(b)
  <2>1. Good(StringText(m.name)) /\ Good(text[m.value])
    BY <1>1, StringBegins
  <2>2. StringText(m.name) \in Texts /\ text[m.value] \in Texts
    BY <2>1 DEF Good
  <2> QED
    BY <2>1, <2>2 DEF MemberText
<1>3. Holds(t, q, a \o <<":">> \o b)
  BY <1>2
<1>4. PICK p \in Nat : /\ p = q + 1 + Len(a) /\ Holds(t, q, a) /\ Holds(t, p, b) /\ At(t, p) = ":"
                       /\ p + 1 + Len(b) = q + 1 + Len(a \o <<":">> \o b)
  BY <1>3, MemberHeld
<1>5. PICK e : e = p + 1 + Len(b) /\ e = q + 1 + Len(MemberText(m, text))
  BY <1>2, <1>4
<1>6. ParseString(t, q + 1) = Ok(String(m.name), p)
  <2>1. Holds(t, q, StringText(m.name))
    BY <1>2, <1>4
  <2>2. ParseString(t, q + 1) = Ok(String(m.name), q + 1 + Len(StringText(m.name)))
    BY <1>1, <2>1, StringParsed
  <2> QED
    BY <1>2, <1>4, <2>2
<1>7. Skip(t, q + 1) = q + 1
  BY <1>2, <1>4, GoodHeld
<1>8. Skip(t, p) = p
  BY <1>4, CommaFacts, NoSkip
<1>9. Skip(t, p + 1) = p + 1
  BY <1>2, <1>4, GoodHeld
<1>10. parse[p + 1] = Ok(m.value, e)
  <2>1. Digit(At(t, p + 1 + Len(text[m.value]))) < 0
    BY <1>2, <1>5
  <2>2. Holds(t, p, text[m.value])
    BY <1>2, <1>4
  <2>3. parse[p + 1] = Ok(m.value, p + 1 + Len(text[m.value]))
    BY <1>1, <2>1, <2>2 DEF ReadsAll
  <2> QED
    BY <1>2, <1>5, <2>3
<1>11. ParseMember(t, parse)[q + 1] = Ok([name |-> m.name, value |-> m.value], e)
  <2>1. PICK j \in Nat : j = q + 1
    OBVIOUS
  <2>2. PICK n : n = ParseString(t, Skip(t, j)) /\ n.ok = TRUE /\ n.value.str = m.name /\ n.next = p
    <3>1. ParseString(t, Skip(t, j)) = Ok(String(m.name), p)
      BY <1>6, <1>7, <2>1
    <3>2. Ok(String(m.name), p).ok = TRUE /\ Ok(String(m.name), p).value.str = m.name /\ Ok(String(m.name), p).next = p
      BY DEF Ok, String
    <3> QED
      BY <3>1, <3>2
  <2>3. PICK r : r = parse[Skip(t, p + 1)] /\ r.ok = TRUE /\ r.value = m.value /\ r.next = e
    <3>1. parse[Skip(t, p + 1)] = Ok(m.value, e)
      BY <1>9, <1>10
    <3>2. Ok(m.value, e).ok = TRUE /\ Ok(m.value, e).value = m.value /\ Ok(m.value, e).next = e
      BY DEF Ok
    <3> QED
      BY <3>1, <3>2
  <2>4. Skip(t, n.next) = p /\ At(t, p) = ":"
    BY <1>4, <1>8, <2>2
  <2>5. ParseMember(t, parse)[j] =
          LET x == ParseString(t, Skip(t, j))
              c == Skip(t, x.next)
              y == IF x.ok /\ At(t, c) = ":" THEN parse[Skip(t, c + 1)] ELSE Failed
          IN  IF y.ok THEN Ok([name |-> x.value.str, value |-> y.value], y.next) ELSE Failed
    BY DEF ParseMember
  <2>6. ParseMember(t, parse)[j] = Ok([name |-> n.value.str, value |-> r.value], r.next)
    BY <2>2, <2>3, <2>4, <2>5
  <2> QED
    BY <2>1, <2>2, <2>3, <2>6
<1> QED
  BY <1>1, <1>5, <1>11

(* The members of an object are read.                                      *)
LEMMA MembersRead ==
  ASSUME NEW t \in Texts, NEW S, NEW text, \A w \in S : Good(text[w]), NEW parse, ReadsAll(t, parse, S, text),
         NEW v, v.members \in Seq(Members(S))
  PROVE  Reads(t, ParseMember(t, parse), MemberTexts(v, text), v.members)
<1>1. PICK us \in Seq(Texts) : us = MemberTexts(v, text) /\ Len(us) = Len(v.members)
        /\ \A i \in 1..Len(us) : us[i] = MemberText(v.members[i], text) /\ v.members[i] \in Members(S)
  BY MembersFacts
<1> SUFFICES ASSUME NEW i \in 1..Len(us), NEW q \in Nat, Holds(t, q, us[i]), Digit(At(t, q + 1 + Len(us[i]))) < 0
             PROVE  ParseMember(t, parse)[q + 1] = Ok(v.members[i], q + 1 + Len(us[i]))
  BY <1>1 DEF Reads
<1>2. PICK m \in Members(S) : m = v.members[i] /\ us[i] = MemberText(m, text)
  BY <1>1
<1>3. Holds(t, q, MemberText(m, text)) /\ Digit(At(t, q + 1 + Len(MemberText(m, text)))) < 0
  BY <1>2
<1>4. ParseMember(t, parse)[q + 1] = Ok(m, q + 1 + Len(MemberText(m, text)))
  <2>1. MemberThere(t, S, text, parse, m, q)
    BY <1>3 DEF MemberThere
  <2>2. MemberParsed(t, text, parse, m, q)
    BY <2>1, MemberRead
  <2> QED
    BY <2>2 DEF MemberParsed
<1> QED
  BY <1>2, <1>4

(* Where the parts of a list's text are.                                   *)
LEMMA ListAround ==
  ASSUME NEW t \in Texts, NEW p \in Nat, NEW a \in Chars, NEW b \in Chars, NEW us \in Seq(Texts),
         \A i \in 1..Len(us) : Good(us[i]), Holds(t, p, <<a>> \o Joined(us) \o <<b>>)
  PROVE  /\ At(t, p + 1) = a /\ ListHeld(t, p + 1, b, us)
         /\ (p + 1) + Len(Joined(us)) + 2 = p + 1 + Len(<<a>> \o Joined(us) \o <<b>>)
<1>1. PICK x \in Texts, y \in Texts : x = <<a>> /\ y = <<b>> /\ Len(x) = 1 /\ Len(y) = 1 /\ x[1] = a /\ y[1] = b
  BY TextOne
<1>2. PICK u \in Texts : u = Joined(us)
  BY SeparatedFacts
<1>3. PICK z \in Texts : z = x \o u /\ Len(z) = Len(x) + Len(u)
  BY TextJoin
<1>4. Len(z \o y) = Len(z) + Len(y) /\ Holds(t, p, z \o y)
  BY <1>1, <1>2, <1>3, TextJoin
<1>5. Holds(t, p, z) /\ Holds(t, p + Len(z), y)
  BY <1>4, HoldsConcat
<1>6. Holds(t, p, x) /\ Holds(t, p + Len(x), u)
  BY <1>3, <1>5, HoldsConcat
<1>7. PICK m \in Nat, l \in Nat : m = Len(u) /\ l = Len(t)
  BY TextChars
<1>8. PICK q \in Nat : q = p + 1
  OBVIOUS
<1>9. t[q] = a /\ q <= l
  <2>1. t[p + 1] = x[1] /\ p + 1 <= Len(t)
    BY <1>1, <1>6, HoldsOne
  <2> QED
    BY <1>1, <1>7, <1>8, <2>1
<1>10. At(t, q) = a
  <2>1. q \in 1..l
    BY <1>8, <1>9
  <2> QED
    BY <1>7, <1>9, <2>1, AtFacts
<1>11. Holds(t, q, u)
  BY <1>1, <1>6, <1>8
<1>12. t[q + m + 1] = b /\ q + m + 1 <= l
  <2>1. Len(z) = 1 + m
    BY <1>1, <1>3, <1>7
  <2>2. p + (1 + m) = q + m
    BY <1>8
  <2>3. Holds(t, q + m, y)
    BY <1>5, <2>1, <2>2
  <2>4. t[(q + m) + 1] = y[1] /\ (q + m) + 1 <= Len(t)
    BY <1>1, <2>3, HoldsOne
  <2> QED
    BY <1>1, <1>7, <2>4
<1>13. ListHeld(t, q, b, us)
  <2>1. \A i \in 1..Len(us) : Begins(us[i])
    BY DEF Good
  <2> QED
    BY <1>2, <1>7, <1>11, <1>12, <2>1 DEF ListHeld
<1>14. q + m + 2 = p + 1 + Len(z \o y)
  <2>1. Len(z \o y) = (1 + m) + 1
    BY <1>1, <1>3, <1>4, <1>7
  <2>2. q + m + 2 = p + 1 + ((1 + m) + 1)
    BY <1>8
  <2> QED
    BY <2>1, <2>2
<1> QED
  BY <1>1, <1>2, <1>3, <1>7, <1>8, <1>10, <1>13, <1>14

(* The text of v is there, and what may follow a number.                   *)
ValueThere(t, S, text, parse, v, p) ==
  /\ \A w \in S : Good(text[w])
  /\ ReadsAll(t, parse, S, text) /\ v \in ValuesOver(S) /\ p \in Nat /\ Holds(t, p, TextOf(v, text))
  /\ Digit(At(t, p + 1 + Len(TextOf(v, text)))) < 0
ValueParsed(t, text, parse, v, p) ==
  ParseOf(t, p + 1, parse) = Ok(v, p + 1 + Len(TextOf(v, text)))

LEMMA OkFacts ==
  ASSUME NEW v, NEW i
  PROVE  Ok(v, i).ok = TRUE /\ Ok(v, i).value = v /\ Ok(v, i).next = i
BY DEF Ok

(* An array is read, if values of the depth below are.                     *)
LEMMA ArrayRead ==
  ASSUME NEW t \in Texts, NEW S, NEW text, NEW parse, NEW v, NEW p, ValueThere(t, S, text, parse, v, p),
         v.type = "array", v.items \in Seq(S), v = Array(v.items)
  PROVE  ValueParsed(t, text, parse, v, p)
<1>1. PICK us \in Seq(Texts) : us = ItemTexts(v, text) /\ Len(us) = Len(v.items) /\ \A i \in 1..Len(us) : Good(us[i])
  BY ItemsFacts DEF ValueThere
<1>2. PICK u : u = TextOf(v, text) /\ u = <<"[">> \o Joined(us) \o <<"]">>
  BY <1>1, TextCases
<1>3. p \in Nat /\ Holds(t, p, u)
  BY <1>2 DEF ValueThere
<1>4. PICK q \in Nat : q = p + 1
  BY <1>3
<1>5. At(t, q) = "[" /\ ListHeld(t, q, "]", us) /\ q + Len(Joined(us)) + 2 = p + 1 + Len(u)
  <2>1. PICK a \in Chars, b \in Chars : a = "[" /\ b = "]"
    BY BracketFacts
  <2>2. Holds(t, p, <<a>> \o Joined(us) \o <<b>>)
    BY <1>2, <1>3, <2>1
  <2>3. \A i \in 1..Len(us) : Good(us[i])
    BY <1>1
  <2>4. /\ At(t, p + 1) = a /\ ListHeld(t, p + 1, b, us)
        /\ (p + 1) + Len(Joined(us)) + 2 = p + 1 + Len(<<a>> \o Joined(us) \o <<b>>)
    BY <1>3, <2>2, <2>3, ListAround
  <2> QED
    BY <1>2, <1>4, <2>1, <2>4
<1>6. Reads(t, ParseItem(t, parse), us, v.items)
  BY <1>1, ItemsRead DEF ValueThere
<1>7. PICK E, one : E = v.items /\ one = ParseItem(t, parse)
  OBVIOUS
<1>8. ListThere(t, q, "]", us, S, E, one)
  BY <1>1, <1>5, <1>6, <1>7 DEF ListThere, ListOf, IsClose
<1>9. ParseList(t, q + 1, "]", one) = Ok(E, q + Len(Joined(us)) + 2)
  <2>1. PICK close : close = "]"
    OBVIOUS
  <2>2. ListThere(t, q, close, us, S, E, one)
    BY <1>8, <2>1
  <2>3. ParseList(t, q + 1, close, one) = Ok(E, q + Len(Joined(us)) + 2)
    BY <2>2, ListParsed
  <2> QED
    BY <2>1, <2>3
<1>10. ParseArray(t, q + 1, parse) = Ok(Array(E), q + Len(Joined(us)) + 2)
  <2>1. PICK i, e : i = q + 1 /\ e = q + Len(Joined(us)) + 2
    OBVIOUS
  <2>2. ParseList(t, i, "]", ParseItem(t, parse)) = Ok(E, e)
    BY <1>7, <1>9, <2>1
  <2>3. PICK r : r = Ok(E, e) /\ r.ok = TRUE /\ r.value = E /\ r.next = e
    <3>1. Ok(E, e).ok = TRUE /\ Ok(E, e).value = E /\ Ok(E, e).next = e
      BY OkFacts
    <3>2. PICK r : r = Ok(E, e)
      OBVIOUS
    <3> QED
      BY <3>1, <3>2
  <2>4. ParseArray(t, i, parse) = IF r.ok THEN Ok(Array(r.value), r.next) ELSE Failed
    BY <2>2, <2>3 DEF ParseArray
  <2> QED
    BY <2>1, <2>3, <2>4
<1>11. ParseOf(t, q, parse) = ParseArray(t, q + 1, parse)
  BY <1>5, ParseCases
<1> QED
  BY <1>2, <1>4, <1>5, <1>7, <1>10, <1>11 DEF ValueParsed

(* An object is read, if values of the depth below are.                    *)
LEMMA ObjectRead ==
  ASSUME NEW t \in Texts, NEW S, NEW text, NEW parse, NEW v, NEW p, ValueThere(t, S, text, parse, v, p),
         v.type = "object", v.members \in Seq(Members(S)), v = Object(v.members)
  PROVE  ValueParsed(t, text, parse, v, p)
<1>1. PICK us \in Seq(Texts) : us = MemberTexts(v, text) /\ Len(us) = Len(v.members) /\ \A i \in 1..Len(us) : Good(us[i])
  BY MembersFacts DEF ValueThere
<1>2. PICK u : u = TextOf(v, text) /\ u = <<"{">> \o Joined(us) \o <<"}">>
  BY <1>1, TextCases
<1>3. p \in Nat /\ Holds(t, p, u)
  BY <1>2 DEF ValueThere
<1>4. PICK q \in Nat : q = p + 1
  BY <1>3
<1>5. At(t, q) = "{" /\ ListHeld(t, q, "}", us) /\ q + Len(Joined(us)) + 2 = p + 1 + Len(u)
  <2>1. PICK a \in Chars, b \in Chars : a = "{" /\ b = "}"
    BY BracketFacts
  <2>2. Holds(t, p, <<a>> \o Joined(us) \o <<b>>)
    BY <1>2, <1>3, <2>1
  <2>3. \A i \in 1..Len(us) : Good(us[i])
    BY <1>1
  <2>4. /\ At(t, p + 1) = a /\ ListHeld(t, p + 1, b, us)
        /\ (p + 1) + Len(Joined(us)) + 2 = p + 1 + Len(<<a>> \o Joined(us) \o <<b>>)
    BY <1>3, <2>2, <2>3, ListAround
  <2> QED
    BY <1>2, <1>4, <2>1, <2>4
<1>6. Reads(t, ParseMember(t, parse), us, v.members)
  BY <1>1, MembersRead DEF ValueThere
<1>7. PICK E, one, R : E = v.members /\ one = ParseMember(t, parse) /\ R = Members(S)
  OBVIOUS
<1>8. ListThere(t, q, "}", us, R, E, one)
  BY <1>1, <1>5, <1>6, <1>7 DEF ListThere, ListOf, IsClose
<1>9. ParseList(t, q + 1, "}", one) = Ok(E, q + Len(Joined(us)) + 2)
  <2>1. PICK close : close = "}"
    OBVIOUS
  <2>2. ListThere(t, q, close, us, R, E, one)
    BY <1>8, <2>1
  <2>3. ParseList(t, q + 1, close, one) = Ok(E, q + Len(Joined(us)) + 2)
    BY <2>2, ListParsed
  <2> QED
    BY <2>1, <2>3
<1>10. ParseObject(t, q + 1, parse) = Ok(Object(E), q + Len(Joined(us)) + 2)
  <2>1. PICK i, e : i = q + 1 /\ e = q + Len(Joined(us)) + 2
    OBVIOUS
  <2>2. ParseList(t, i, "}", ParseMember(t, parse)) = Ok(E, e)
    BY <1>7, <1>9, <2>1
  <2>3. PICK r : r = Ok(E, e) /\ r.ok = TRUE /\ r.value = E /\ r.next = e
    <3>1. Ok(E, e).ok = TRUE /\ Ok(E, e).value = E /\ Ok(E, e).next = e
      BY OkFacts
    <3>2. PICK r : r = Ok(E, e)
      OBVIOUS
    <3> QED
      BY <3>1, <3>2
  <2>4. ParseObject(t, i, parse) = IF r.ok THEN Ok(Object(r.value), r.next) ELSE Failed
    BY <2>2, <2>3 DEF ParseObject
  <2> QED
    BY <2>1, <2>3, <2>4
<1>11. ParseOf(t, q, parse) = ParseObject(t, q + 1, parse)
  BY <1>5, ParseCases
<1> QED
  BY <1>2, <1>4, <1>5, <1>7, <1>10, <1>11 DEF ValueParsed

(* A value is read, if values of the depth below are.                      *)
LEMMA ValueRead ==
  ASSUME NEW t \in Texts, NEW S, NEW text, NEW parse, NEW v, NEW p, ValueThere(t, S, text, parse, v, p)
  PROVE  ValueParsed(t, text, parse, v, p)
<1>1. p \in Nat /\ Holds(t, p, TextOf(v, text)) /\ v \in ValuesOver(S)
      /\ Digit(At(t, p + 1 + Len(TextOf(v, text)))) < 0
  BY DEF ValueThere
<1>2. CASE v.type = "number" /\ v.num \in Numbers /\ v = Number(v.num)
  <2>1. PICK n \in Nat : n = v.num
    BY <1>2, NumbersNat
  <2>2. PICK u : u = NumberText(n) /\ u = TextOf(v, text)
    BY <1>2, <2>1, TextCases
  <2>3. Good(u) /\ Digit(u[1]) \in 0..9
    <3>1. Figures(u) /\ u \in Texts
      BY <2>2, NumberFacts
    <3>2. PICK m \in Nat : m = Len(u)
      BY <3>1, TextChars
    <3>3. m >= 1 /\ \A i \in 1..m : Digit(u[i]) \in 0..9
      BY <3>1, <3>2 DEF Figures
    <3>4. 1 \in 1..m
      BY <3>3
    <3> QED
      BY <2>2, <3>3, <3>4, NumberGood
  <2>4. At(t, p + 1) = u[1]
    BY <1>1, <2>2, <2>3, GoodHeld
  <2>5. At(t, p + 1) # Quote
    BY <2>3, <2>4, FigureNames
  <2>6. Digit(At(t, p + 1)) >= 0
    <3>1. \A d \in 0..9 : d >= 0
      OBVIOUS
    <3> QED
      BY <2>3, <2>4, <3>1
  <2>7. ParseOf(t, p + 1, parse) = ParseDigits(t, p + 1)
    BY <2>5, <2>6, ParseCases
  <2>8. ParseDigits(t, p + 1) = Ok(Number(n), p + 1 + Len(NumberText(n)))
    <3>1. Holds(t, p, NumberText(n)) /\ Digit(At(t, p + 1 + Len(NumberText(n)))) < 0
      BY <1>1, <2>2
    <3> QED
      BY <3>1, NumberParsed
  <2> QED
    BY <1>2, <2>1, <2>2, <2>7, <2>8 DEF ValueParsed
<1>3. CASE v.type = "string" /\ v.str \in Texts /\ v = String(v.str)
  <2>1. PICK s \in Texts : s = v.str
    BY <1>3
  <2>2. PICK u : u = StringText(s) /\ u = TextOf(v, text) /\ Good(u) /\ u[1] = Quote
    BY <1>3, <2>1, TextCases, StringBegins
  <2>3. At(t, p + 1) = Quote
    BY <1>1, <2>2, GoodHeld
  <2>4. ParseOf(t, p + 1, parse) = ParseString(t, p + 1)
    BY <2>3, ParseCases
  <2>5. ParseString(t, p + 1) = Ok(String(s), p + 1 + Len(StringText(s)))
    <3>1. Holds(t, p, StringText(s))
      BY <1>1, <2>2
    <3> QED
      BY <3>1, StringParsed
  <2> QED
    BY <1>3, <2>1, <2>2, <2>4, <2>5 DEF ValueParsed
<1>4. CASE v.type = "array" /\ v.items \in Seq(S) /\ v = Array(v.items)
  BY <1>4, ArrayRead
<1>5. CASE v.type = "object" /\ v.members \in Seq(Members(S)) /\ v = Object(v.members)
  BY <1>5, ObjectRead
<1> QED
  BY <1>1, <1>2, <1>3, <1>4, <1>5, ValueCases

(* What the printer writes, the parser reads back: wherever the text of a  *)
(* value is, no digit after it.                                            *)
THEOREM ValuesRead ==
  ASSUME NEW t \in Texts, NEW n \in Nat
  PROVE  ReadsAll(t, ParseTo(t, n), ValuesTo(n), TextTo(n))
<1>1. PICK T : T = {k \in Nat : ReadsAll(t, ParseTo(t, k), ValuesTo(k), TextTo(k))}
  OBVIOUS
<1>2. 0 \in T
  BY <1>1, ValuesNext DEF ReadsAll
<1>3. ASSUME NEW k \in Nat, k \in T
      PROVE  k + 1 \in T
  <2>1. PICK l \in Nat : l = k + 1
    OBVIOUS
  <2>2. PICK S, text, parse : S = ValuesTo(k) /\ text = TextTo(k) /\ parse = ParseTo(t, k)
    OBVIOUS
  <2>3. ReadsAll(t, parse, S, text) /\ \A w \in S : Good(text[w])
    BY <1>1, <1>3, <2>2, TextGood
  <2>4. ASSUME NEW v \in ValuesTo(l), NEW q \in Nat, Holds(t, q, TextTo(l)[v]),
               Digit(At(t, q + 1 + Len(TextTo(l)[v]))) < 0
        PROVE  ParseTo(t, l)[q + 1] = Ok(v, q + 1 + Len(TextTo(l)[v]))
    <3>1. TextTo(l)[v] = TextOf(v, text)
      BY <2>1, <2>2, TextNext
    <3>2. v \in ValuesOver(S)
      BY <2>1, <2>2, ValuesNext
    <3>3. ValueThere(t, S, text, parse, v, q)
      BY <2>3, <2>4, <3>1, <3>2 DEF ValueThere
    <3>4. ValueParsed(t, text, parse, v, q)
      BY <3>3, ValueRead
    <3>5. ParseTo(t, l)[q + 1] = ParseOf(t, q + 1, parse)
      <4>1. PICK j \in Nat : j = q + 1
        OBVIOUS
      <4>2. ParseTo(t, k + 1)[j] = ParseOf(t, j, ParseTo(t, k))
        BY ParserNext
      <4> QED
        BY <2>1, <2>2, <4>1, <4>2
    <3> QED
      BY <3>1, <3>4, <3>5 DEF ValueParsed
  <2>5. ReadsAll(t, ParseTo(t, l), ValuesTo(l), TextTo(l))
    BY <2>4 DEF ReadsAll
  <2> QED
    BY <1>1, <2>1, <2>5
<1>4. Nat \subseteq T
  BY <1>2, <1>3, Induction
<1> QED
  BY <1>1, <1>4

(* A value that is printed alone is read back.                             *)
LEMMA ValueReadBack ==
  ASSUME NEW v \in ValuesTo(Depth)
  PROVE  /\ Text[v] \in Texts /\ Unbroken(Text[v])
         /\ ParseValue(Text[v], 1) = Ok(v, Len(Text[v]) + 1)
<1>1. Depth \in Nat
  BY DepthAssumption
<1>2. PICK t \in Texts : t = Text[v] /\ t = TextTo(Depth)[v] /\ Unbroken(t)
  BY <1>1, TextLast, TextGood DEF Good
<1>3. ReadsAll(t, ParseTo(t, Depth), ValuesTo(Depth), TextTo(Depth))
  BY <1>1, ValuesRead
<1>4. Holds(t, 0, t)
  BY HoldsSelf
<1>5. PICK l \in Nat : l = Len(t)
  BY TextChars
<1>6. 0 + 1 + l = l + 1 /\ l + 1 \notin 1..l /\ 0 + 1 = 1 /\ 0 \in Nat
  OBVIOUS
<1>7. Digit(At(t, 0 + 1 + l)) < 0
  <2>1. At(t, l + 1) = End
    BY <1>5, <1>6, AtFacts
  <2>2. Digit(End) = -1
    BY NoDigit
  <2>3. PICK d : d = -1 /\ d < 0
    BY BelowZeroInt
  <2> QED
    BY <1>6, <2>1, <2>2, <2>3
<1>8. ParseTo(t, Depth)[0 + 1] = Ok(v, 0 + 1 + l)
  <2>1. Holds(t, 0, TextTo(Depth)[v]) /\ Digit(At(t, 0 + 1 + Len(TextTo(Depth)[v]))) < 0
    BY <1>2, <1>4, <1>5, <1>7
  <2>2. ParseTo(t, Depth)[0 + 1] = Ok(v, 0 + 1 + Len(TextTo(Depth)[v]))
    BY <1>3, <1>6, <2>1 DEF ReadsAll
  <2> QED
    BY <1>2, <1>5, <2>2
<1>9. ParseValue(t, 1) = Ok(v, l + 1)
  BY <1>6, <1>8, ParserLast
<1> QED
  BY <1>2, <1>5, <1>9

(* The text of a value is the same at every depth that has the value.      *)
LEMMA TextOfSame ==
  ASSUME NEW S, NEW f, NEW g, \A w \in S : f[w] = g[w], NEW v \in ValuesOver(S)
  PROVE  TextOf(v, f) = TextOf(v, g)
<1>1. CASE v.type = "number"
  BY <1>1, TextCases
<1>2. CASE v.type = "string"
  BY <1>2, TextCases
<1>3. CASE v.type = "array" /\ v.items \in Seq(S)
  <2>1. PICK vs \in Seq(S), n \in Nat : vs = v.items /\ n = Len(vs)
    BY <1>3
  <2>2. \A i \in 1..n : f[vs[i]] = g[vs[i]]
    BY <2>1
  <2>3. [i \in 1..n |-> f[vs[i]]] = [i \in 1..n |-> g[vs[i]]]
    BY <2>2
  <2>4. ItemTexts(v, f) = ItemTexts(v, g)
    BY <2>1, <2>3 DEF ItemTexts
  <2>5. TextOf(v, f) = <<"[">> \o Joined(ItemTexts(v, f)) \o <<"]">>
    BY <1>3, TextCases
  <2>6. TextOf(v, g) = <<"[">> \o Joined(ItemTexts(v, g)) \o <<"]">>
    BY <1>3, TextCases
  <2> QED
    BY <2>4, <2>5, <2>6
<1>4. CASE v.type = "object" /\ v.members \in Seq(Members(S))
  <2>1. PICK ms \in Seq(Members(S)), n \in Nat : ms = v.members /\ n = Len(ms)
    BY <1>4
  <2>2. ASSUME NEW i \in 1..n PROVE MemberText(ms[i], f) = MemberText(ms[i], g)
    <3>1. PICK m \in Members(S) : m = ms[i]
      BY <2>1
    <3>2. m.value \in S
      BY DEF Members
    <3>3. f[m.value] = g[m.value]
      BY <3>2
    <3> QED
      BY <3>1, <3>3 DEF MemberText
  <2>3. [i \in 1..n |-> MemberText(ms[i], f)] = [i \in 1..n |-> MemberText(ms[i], g)]
    BY <2>2
  <2>4. MemberTexts(v, f) = [i \in 1..n |-> MemberText(ms[i], f)]
    BY <2>1 DEF MemberTexts, MemberText
  <2>5. MemberTexts(v, g) = [i \in 1..n |-> MemberText(ms[i], g)]
    BY <2>1 DEF MemberTexts, MemberText
  <2>6. MemberTexts(v, f) = MemberTexts(v, g)
    BY <2>3, <2>4, <2>5
  <2>7. TextOf(v, f) = <<"{">> \o Joined(MemberTexts(v, f)) \o <<"}">>
    BY <1>4, TextCases
  <2>8. TextOf(v, g) = <<"{">> \o Joined(MemberTexts(v, g)) \o <<"}">>
    BY <1>4, TextCases
  <2> QED
    BY <2>6, <2>7, <2>8
<1> QED
  BY <1>1, <1>2, <1>3, <1>4, ValueCases

(* One more depth changes no text.                                         *)
LEMMA TextSame ==
  \A k \in Nat : \A v \in ValuesTo(k) : TextTo(k + 1)[v] = TextTo(k)[v]
<1>1. PICK T : T = {k \in Nat : \A v \in ValuesTo(k) : TextTo(k + 1)[v] = TextTo(k)[v]}
  OBVIOUS
<1>2. 0 \in T
  BY <1>1, ValuesNext
<1>3. ASSUME NEW k \in Nat, k \in T
      PROVE  k + 1 \in T
  <2>1. PICK l \in Nat : l = k + 1
    OBVIOUS
  <2>2. PICK S, f, g : S = ValuesTo(k) /\ f = TextTo(k) /\ g = TextTo(l)
    OBVIOUS
  <2>3. \A w \in S : g[w] = f[w]
    BY <1>1, <1>3, <2>1, <2>2
  <2>4. ASSUME NEW v \in ValuesTo(l)
        PROVE  TextTo(l + 1)[v] = TextTo(l)[v]
    <3>1. v \in ValuesOver(S)
      BY <2>1, <2>2, ValuesNext
    <3>2. v \in ValuesTo(l + 1)
      BY ValuesMore
    <3>3. TextTo(l + 1)[v] = TextOf(v, g)
      BY <2>2, <3>2, TextNext
    <3>4. TextTo(l)[v] = TextOf(v, f)
      BY <2>1, <2>2, TextNext
    <3>5. TextOf(v, g) = TextOf(v, f)
      BY <2>3, <3>1, TextOfSame
    <3> QED
      BY <3>3, <3>4, <3>5
  <2> QED
    BY <1>1, <2>1, <2>4
<1>4. Nat \subseteq T
  BY <1>2, <1>3, Induction
<1> QED
  BY <1>1, <1>4

(* The text of a value is made of the texts of its parts.                  *)
LEMMA TextWhole ==
  ASSUME NEW v \in ValuesTo(Depth)
  PROVE  /\ v \in ValuesOver(ValuesTo(Depth)) /\ Text[v] = TextOf(v, Text)
         /\ \A w \in ValuesTo(Depth) : Good(Text[w])
<1>1. Depth \in Nat
  BY DepthAssumption
<1>2. Depth # 0
  BY ValuesNext
<1>3. PICK k \in Nat : k + 1 = Depth
  <2>1. Depth - 1 \in Nat /\ (Depth - 1) + 1 = Depth
    BY <1>1, <1>2
  <2> QED
    BY <2>1
<1>4. PICK S : S = ValuesTo(k) /\ v \in ValuesOver(S) /\ S \subseteq ValuesTo(Depth)
  BY <1>3, ValuesNext, ValuesMore
<1>5. Text[v] = TextOf(v, TextTo(k))
  BY <1>3, TextLast, TextNext
<1>6. \A w \in S : TextTo(k)[w] = Text[w]
  BY <1>3, <1>4, TextLast, TextSame
<1>7. TextOf(v, TextTo(k)) = TextOf(v, Text)
  <2>1. PICK f, g : f = TextTo(k) /\ g = Text
    OBVIOUS
  <2>2. \A w \in S : f[w] = g[w]
    BY <1>6, <2>1
  <2>3. TextOf(v, f) = TextOf(v, g)
    BY <1>4, <2>2, TextOfSame
  <2> QED
    BY <2>1, <2>3
<1>8. v \in ValuesOver(ValuesTo(Depth))
  BY <1>4, OverMore
<1>9. \A w \in ValuesTo(Depth) : Good(Text[w])
  BY <1>1, TextLast, TextGood
<1> QED
  BY <1>5, <1>7, <1>8, <1>9

(* The sum of the lengths, as it is counted.                               *)
NoSum(us) == 0
AddLen(us, sum, i) == sum + Len(us[i]) + 2
Summing == INSTANCE Loop WITH Start <- NoSum, Step <- AddLen
LenTo(us, k) == Summing!After(us, k)

LEMMA LenLast == ASSUME NEW us PROVE LenSum(us) = LenTo(us, Len(us))
BY DEF LenSum, LenTo, Summing!After, NoSum, AddLen

LEMMA LenFirst == ASSUME NEW us PROVE LenTo(us, 0) = 0
BY Summing!AfterZero DEF LenTo, NoSum

LEMMA LenNext ==
  ASSUME NEW us, NEW k \in Nat
  PROVE  LenTo(us, k + 1) = LenTo(us, k) + Len(us[k + 1]) + 2
BY Summing!AfterNext DEF LenTo, AddLen

(* The elements with their commas are no longer than what is counted for   *)
(* them.                                                                   *)
LEMMA JoinedFits ==
  ASSUME NEW us \in Seq(Texts)
  PROVE  /\ Len(Joined(us)) \in Nat /\ LenSum(us) \in Nat
         /\ Len(Joined(us)) + Len(us) <= LenSum(us)
<1>1. PICK ss \in Seq(Texts) : ss = Separated(us) /\ Len(ss) = Len(us) /\ Joined(us) = FlattenSeq(ss)
  BY SeparatedFacts
<1>2. PICK n \in Nat : n = Len(us) /\ n = Len(ss)
  BY <1>1
<1>3. PICK T : T = {k \in Nat : k <= n => /\ LenTo(us, k) \in Nat /\ Len(Prefix(ss, k)) \in Nat
                                         /\ Len(Prefix(ss, k)) + k <= LenTo(us, k)}
  OBVIOUS
<1>4. 0 \in T
  <2>1. LenTo(us, 0) = 0 /\ Prefix(ss, 0) = <<>> /\ Len(<<>>) = 0
    BY LenFirst, PrefixNext
  <2>2. 0 + 0 <= 0 /\ 0 \in Nat
    OBVIOUS
  <2> QED
    BY <1>3, <2>1, <2>2
<1>5. ASSUME NEW k \in Nat, k \in T
      PROVE  k + 1 \in T
  <2> SUFFICES ASSUME k + 1 <= n
               PROVE  /\ LenTo(us, k + 1) \in Nat /\ Len(Prefix(ss, k + 1)) \in Nat
                      /\ Len(Prefix(ss, k + 1)) + (k + 1) <= LenTo(us, k + 1)
    BY <1>3
  <2>1. k <= n /\ k \in 0..(n - 1) /\ k + 1 \in 1..n /\ k \in 0..n
    OBVIOUS
  <2>2. PICK a \in Texts, b \in Texts, u \in Texts : a = Prefix(ss, k) /\ b = ss[k + 1] /\ u = us[k + 1]
    <3>1. Prefix(ss, k) \in Texts
      BY <1>2, <2>1, PrefixType
    <3>2. ss[k + 1] \in Texts
      BY <1>2, <2>1
    <3>3. us[k + 1] \in Texts
      <4>1. PICK j : j = k + 1 /\ j \in 1..Len(us)
        BY <1>2, <2>1
      <4>2. us[j] \in Texts
        BY <4>1
      <4> QED
        BY <4>1, <4>2
    <3> QED
      BY <3>1, <3>2, <3>3
  <2>3. Prefix(ss, k + 1) = a \o b /\ Len(a \o b) = Len(a) + Len(b)
    BY <1>2, <2>1, <2>2, PrefixNext, TextJoin
  <2>4. Len(b) <= Len(u) + 1
    <3>1. b = IF k + 1 = n THEN u ELSE Append(u, ",")
      BY <1>1, <1>2, <2>1, <2>2 DEF Separated
    <3>2. Len(Append(u, ",")) = Len(u) + 1 /\ Len(u) \in Nat
      BY CommaFacts, TextAppend, TextChars
    <3>3. PICK l \in Nat : l = Len(u)
      BY <3>2
    <3>4. Len(b) = l \/ Len(b) = l + 1
      BY <3>1, <3>2, <3>3
    <3>5. l <= l + 1 /\ l + 1 <= l + 1
      OBVIOUS
    <3> QED
      BY <3>3, <3>4, <3>5
  <2>5. PICK x \in Nat, y \in Nat, z \in Nat, s \in Nat :
          x = Len(a) /\ y = Len(b) /\ z = Len(u) /\ s = LenTo(us, k) /\ x + k <= s
    <3>1. LenTo(us, k) \in Nat /\ Len(Prefix(ss, k)) + k <= LenTo(us, k)
      BY <1>3, <1>5, <2>1
    <3>2. Len(a) \in Nat /\ Len(b) \in Nat /\ Len(u) \in Nat
      BY TextChars
    <3>3. Len(a) + k <= LenTo(us, k)
      BY <2>2, <3>1
    <3> QED
      BY <3>1, <3>2, <3>3
  <2>6. y <= z + 1
    BY <2>4, <2>5
  <2>7. s + z + 2 \in Nat /\ x + y \in Nat /\ (x + y) + (k + 1) <= s + z + 2
    <3>1. s + z + 2 \in Nat /\ x + y \in Nat
      OBVIOUS
    <3>2. x + k <= s
      BY <2>5
    <3>3. (x + y) + (k + 1) <= s + z + 2
      BY <2>6, <3>2
    <3> QED
      BY <3>1, <3>3
  <2>8. LenTo(us, k + 1) = s + z + 2
    BY <2>2, <2>5, LenNext
  <2>9. Len(Prefix(ss, k + 1)) = x + y
    BY <2>3, <2>5
  <2> QED
    BY <2>7, <2>8, <2>9
<1>6. Nat \subseteq T
  BY <1>4, <1>5, Induction
<1>7. LenTo(us, n) \in Nat /\ Len(Prefix(ss, n)) \in Nat /\ Len(Prefix(ss, n)) + n <= LenTo(us, n)
  <2>1. n \in T /\ n <= n
    BY <1>6
  <2> QED
    BY <1>3, <2>1
<1>8. Joined(us) = Prefix(ss, n) /\ LenSum(us) = LenTo(us, n)
  BY <1>1, <1>2, FlattenIsPrefix, LenLast
<1> QED
  BY <1>2, <1>7, <1>8

LEMMA FitSums ==
  /\ \A m, n, s \in Nat : m + n <= s => m + 2 < 5 + s /\ m + 2 < 7 + s - n
  /\ \A m, n, s \in Nat : m + n <= s /\ s = 0 => m + 2 < 3
OBVIOUS

LEMMA AroundLen ==
  ASSUME NEW a \in Chars, NEW u \in Texts, NEW b \in Chars
  PROVE  Len(<<a>> \o u \o <<b>>) = Len(u) + 2
BY AroundFacts

(* What is counted for a value, by type.                                   *)
LEMMA SizeCases ==
  ASSUME NEW v
  PROVE  /\ v.type = "number" => Size(v) = NumberSize(v.num)
         /\ v.type = "string" => Size(v) = StringSize(v.str)
         /\ v.type = "array"  => Size(v) = IF v.items = <<>> THEN 3 ELSE 5 + LenSum(ItemTexts(v, Text))
         /\ v.type = "object" => Size(v) = IF v.members = <<>> THEN 3 ELSE
                                             7 + LenSum(MemberTexts(v, Text)) - Len(v.members)
BY DEF Size

(* The list of either kind is shorter than what is counted for it.         *)
LEMMA ListFits ==
  ASSUME NEW us \in Seq(Texts)
  PROVE  /\ Len(<<"[">> \o Joined(us) \o <<"]">>) = Len(Joined(us)) + 2
         /\ Len(<<"{">> \o Joined(us) \o <<"}">>) = Len(Joined(us)) + 2
         /\ Len(us) = 0 => Len(Joined(us)) + 2 < 3
         /\ Len(Joined(us)) + 2 < 5 + LenSum(us)
         /\ Len(Joined(us)) + 2 < 7 + LenSum(us) - Len(us)
<1>1. PICK u \in Texts : u = Joined(us)
  BY SeparatedFacts
<1>2. "[" \in Chars /\ "]" \in Chars /\ "{" \in Chars /\ "}" \in Chars
  BY BracketFacts
<1>3. Len(<<"[">> \o u \o <<"]">>) = Len(u) + 2
  <2>1. PICK a \in Chars, b \in Chars : a = "[" /\ b = "]"
    BY <1>2
  <2>2. Len(<<a>> \o u \o <<b>>) = Len(u) + 2
    BY AroundLen
  <2> QED
    BY <2>1, <2>2
<1>4. Len(<<"{">> \o u \o <<"}">>) = Len(u) + 2
  <2>1. PICK a \in Chars, b \in Chars : a = "{" /\ b = "}"
    BY <1>2
  <2>2. Len(<<a>> \o u \o <<b>>) = Len(u) + 2
    BY AroundLen
  <2> QED
    BY <2>1, <2>2
<1>5. PICK m \in Nat, n \in Nat, s \in Nat :
        m = Len(Joined(us)) /\ n = Len(us) /\ s = LenSum(us) /\ m + n <= s
  <2>1. Len(Joined(us)) \in Nat /\ LenSum(us) \in Nat /\ Len(Joined(us)) + Len(us) <= LenSum(us)
    BY JoinedFits
  <2>2. Len(us) \in Nat
    OBVIOUS
  <2> QED
    BY <2>1, <2>2
<1>6. m + 2 < 5 + s /\ m + 2 < 7 + s - n
  BY <1>5, FitSums
<1>7. n = 0 => m + 2 < 3
  <2> SUFFICES ASSUME n = 0 PROVE m + 2 < 3
    OBVIOUS
  <2>1. LenSum(us) = 0
    BY <1>5, LenLast, LenFirst
  <2> QED
    BY <1>5, <2>1, FitSums
<1> QED
  BY <1>1, <1>3, <1>4, <1>5, <1>6, <1>7

(* The text of a value fits the size that is counted for it.               *)
LEMMA ValueFits ==
  ASSUME NEW v \in ValuesTo(Depth)
  PROVE  Len(Text[v]) < Size(v)
<1>1. PICK S : S = ValuesTo(Depth) /\ v \in ValuesOver(S) /\ \A w \in S : Good(Text[w])
  BY TextWhole
<1>2. Text[v] = TextOf(v, Text)
  BY TextWhole
<1>3. CASE v.type = "number" /\ v.num \in Numbers
  <2>1. PICK n \in Numbers : n = v.num
    BY <1>3
  <2>2. Text[v] = NumberText(n) /\ Size(v) = NumberSize(n)
    BY <1>2, <1>3, <2>1, TextCases, SizeCases
  <2> QED
    BY <2>2, NumberFits
<1>4. CASE v.type = "string" /\ v.str \in Texts
  <2>1. PICK s \in Texts : s = v.str
    BY <1>4
  <2>2. Text[v] = StringText(s) /\ Size(v) = StringSize(s)
    BY <1>2, <1>4, <2>1, TextCases, SizeCases
  <2>3. PICK l \in Nat : l = Len(StringText(s)) /\ l + 1 = StringSize(s)
    BY StringFits, TextChars
  <2>4. l < l + 1
    OBVIOUS
  <2> QED
    BY <2>2, <2>3, <2>4
<1>5. CASE v.type = "array" /\ v.items \in Seq(S)
  <2>1. PICK us \in Seq(Texts) : us = ItemTexts(v, Text) /\ Len(us) = Len(v.items)
    BY <1>1, <1>5, ItemsFacts
  <2>2. Text[v] = <<"[">> \o Joined(us) \o <<"]">>
    BY <1>2, <1>5, <2>1, TextCases
  <2>3. Size(v) = IF v.items = <<>> THEN 3 ELSE 5 + LenSum(us)
    BY <1>5, <2>1, SizeCases
  <2>4. Len(Text[v]) = Len(Joined(us)) + 2
    BY <2>2, ListFits
  <2>5. v.items = <<>> => Len(us) = 0
    BY <2>1
  <2> QED
    BY <2>3, <2>4, <2>5, ListFits
<1>6. CASE v.type = "object" /\ v.members \in Seq(Members(S))
  <2>1. PICK us \in Seq(Texts) : us = MemberTexts(v, Text) /\ Len(us) = Len(v.members)
    BY <1>1, <1>6, MembersFacts
  <2>2. Text[v] = <<"{">> \o Joined(us) \o <<"}">>
    BY <1>2, <1>6, <2>1, TextCases
  <2>3. Size(v) = IF v.members = <<>> THEN 3 ELSE 7 + LenSum(us) - Len(us)
    BY <1>6, <2>1, SizeCases
  <2>4. Len(Text[v]) = Len(Joined(us)) + 2
    BY <2>2, ListFits
  <2>5. v.members = <<>> => Len(us) = 0
    BY <2>1
  <2> QED
    BY <2>3, <2>4, <2>5, ListFits
<1> QED
  BY <1>1, <1>3, <1>4, <1>5, <1>6, ValueCases

(* The parts of the values of each depth.                                  *)
NoParts(data) == <<>>
MoreParts(data, within, k) == [v \in ValuesTo(k) |-> PartsOf(v, within)]
Taking == INSTANCE Loop WITH Start <- NoParts, Step <- MoreParts
PartsTo(k) == Taking!After(0, k)

LEMMA PartsLast == Parts = PartsTo(Depth)
BY DEF Parts, Recursive, PartsTo, Taking!After, NoParts, MoreParts

LEMMA PartsNext ==
  ASSUME NEW k \in Nat, NEW v \in ValuesTo(k + 1)
  PROVE  PartsTo(k + 1)[v] = PartsOf(v, PartsTo(k))
<1>1. PartsTo(k + 1) = MoreParts(0, PartsTo(k), k + 1)
  BY Taking!AfterNext DEF PartsTo
<1> QED
  BY <1>1 DEF MoreParts

(* The parts of a value have its depth or less.                            *)
LEMMA PartsInside ==
  ASSUME NEW S, NEW R, S \subseteq R, NEW within, \A w \in S : within[w] \subseteq S,
         NEW v \in ValuesOver(S), v \in R
  PROVE  PartsOf(v, within) \subseteq R
<1>1. CASE v.type = "number"
  BY <1>1 DEF PartsOf
<1>2. CASE v.type = "string"
  BY <1>2 DEF PartsOf
<1>3. CASE v.type = "array" /\ v.items \in Seq(S)
  <2>1. \A i \in 1..Len(v.items) : v.items[i] \in S
    BY <1>3
  <2>2. PartsOf(v, within) = {v} \cup UNION {within[v.items[i]] : i \in 1..Len(v.items)}
    BY <1>3 DEF PartsOf
  <2>3. \A i \in 1..Len(v.items) : within[v.items[i]] \subseteq R
    BY <2>1
  <2> QED
    BY <2>2, <2>3
<1>4. CASE v.type = "object" /\ v.members \in Seq(Members(S))
  <2>1. \A i \in 1..Len(v.members) : v.members[i].value \in S
    <3> SUFFICES ASSUME NEW i \in 1..Len(v.members) PROVE v.members[i].value \in S
      OBVIOUS
    <3>1. v.members[i] \in Members(S)
      BY <1>4
    <3> QED
      BY <3>1 DEF Members
  <2>2. PartsOf(v, within) = {v} \cup UNION {within[v.members[i].value] : i \in 1..Len(v.members)}
    BY <1>4 DEF PartsOf
  <2>3. \A i \in 1..Len(v.members) : within[v.members[i].value] \subseteq R
    BY <2>1
  <2> QED
    BY <2>2, <2>3
<1> QED
  BY <1>1, <1>2, <1>3, <1>4, ValueCases

(* Every part of a value is a value.                                       *)
LEMMA PartsValues ==
  ASSUME NEW v \in ValuesTo(Depth)
  PROVE  Parts[v] \subseteq ValuesTo(Depth)
<1>1. PICK T : T = {k \in Nat : \A w \in ValuesTo(k) : PartsTo(k)[w] \subseteq ValuesTo(k)}
  OBVIOUS
<1>2. 0 \in T
  BY <1>1, ValuesNext
<1>3. ASSUME NEW k \in Nat, k \in T
      PROVE  k + 1 \in T
  <2>1. PICK S, R, within : S = ValuesTo(k) /\ R = ValuesTo(k + 1) /\ within = PartsTo(k)
    OBVIOUS
  <2>2. \A w \in S : within[w] \subseteq S
    BY <1>1, <1>3, <2>1
  <2>3. ASSUME NEW w \in R PROVE PartsTo(k + 1)[w] \subseteq R
    <3>1. w \in ValuesOver(S) /\ S \subseteq R
      BY <2>1, ValuesNext, ValuesMore
    <3>2. PartsOf(w, within) \subseteq R
      BY <2>2, <3>1, PartsInside
    <3>3. PartsTo(k + 1)[w] = PartsOf(w, PartsTo(k))
      BY <2>1, PartsNext
    <3> QED
      BY <2>1, <3>2, <3>3
  <2> QED
    BY <1>1, <2>1, <2>3
<1>4. Nat \subseteq T
  BY <1>2, <1>3, Induction
<1> QED
  BY <1>1, <1>4, DepthAssumption, PartsLast

-----------------------------------------------------------------------------
(* Requests: what the operations make of what was scanned.                 *)

(* Min and Max are what they say.                                          *)
LEMMA Least ==
  ASSUME NEW B, B \subseteq Nat, B # {}
  PROVE  Min(B) \in B /\ \A j \in B : Min(B) <= j
<1> SUFFICES ASSUME \A x \in B : \E y \in B : ~(x <= y) PROVE FALSE
  BY DEF Min
<1>1. PICK T : T = {k \in Nat : \A j \in 0..k : j \notin B}
  OBVIOUS
<1>2. 0 \in T
  <2>1. 0 \notin B
    <3>1. \A y \in B : 0 <= y
      OBVIOUS
    <3> QED
      BY <3>1
  <2>2. \A j \in 0..0 : j = 0
    OBVIOUS
  <2> QED
    BY <1>1, <2>1, <2>2
<1>3. ASSUME NEW k \in Nat, k \in T
      PROVE  k + 1 \in T
  <2>1. \A j \in 0..k : j \notin B
    BY <1>1, <1>3
  <2>2. k + 1 \notin B
    <3>1. \A y \in B : k + 1 <= y
      BY <2>1
    <3> QED
      BY <3>1
  <2>3. \A j \in 0..(k + 1) : j \in 0..k \/ j = k + 1
    OBVIOUS
  <2> QED
    BY <1>1, <2>1, <2>2, <2>3
<1>4. Nat \subseteq T
  BY <1>2, <1>3, Induction
<1>5. PICK x \in B : x \in Nat
  OBVIOUS
<1>6. x \in T /\ x \in 0..x
  BY <1>4, <1>5
<1> QED
  BY <1>1, <1>5, <1>6

LEMMA Greatest ==
  ASSUME NEW n \in Nat, NEW B, B \subseteq 1..n, B # {}
  PROVE  Max(B) \in B
<1>1. PICK C : C = {n - j : j \in B}
  OBVIOUS
<1>2. C \subseteq Nat /\ C # {}
  <2>1. \A j \in B : j \in 1..n
    OBVIOUS
  <2>2. \A j \in 1..n : n - j \in Nat
    OBVIOUS
  <2>3. \A j \in B : n - j \in Nat
    BY <2>1, <2>2
  <2>4. PICK j \in B : TRUE
    OBVIOUS
  <2>5. n - j \in C
    BY <1>1
  <2> QED
    BY <1>1, <2>3, <2>5
<1>3. PICK m \in C : \A c \in C : m <= c
  BY <1>2, Least
<1>4. PICK x \in B : m = n - x
  BY <1>1, <1>3
<1>5. \A y \in B : x >= y
  <2> SUFFICES ASSUME NEW y \in B PROVE x >= y
    OBVIOUS
  <2>1. n - y \in C
    BY <1>1
  <2>2. n - x <= n - y
    BY <1>3, <1>4, <2>1
  <2>3. x \in Nat /\ y \in Nat
    OBVIOUS
  <2> QED
    BY <2>2, <2>3
<1> QED
  BY <1>5 DEF Max

(* Of what is received every field is plain, the body included.            *)
LEMMA ReceivedPlain ==
  ASSUME NEW fields \in Messages
  PROVE  AsReceived(fields) \in Seq(Fields) /\ \A i \in 1..Len(AsReceived(fields)) : Plain(AsReceived(fields)[i])
<1>1. fields \in Seq(Fields)
  BY DEF Messages
<1>2. \A j \in 1..Len(fields) : Plain(fields[j]) \/ \E i \in 1..(j - 1) : IsBody(fields[i])
  BY DEF Messages
<1>3. PICK B : B = {j \in 1..Len(fields) : IsBody(fields[j])}
  OBVIOUS
<1>4. FirstBody(fields) = IF B # {} THEN Min(B) ELSE 0
  BY <1>3 DEF FirstBody, SelectInSeq
<1>5. PICK n \in Nat : n = Len(fields)
  BY <1>1
<1>6. CASE B = {}
  <2>1. AsReceived(fields) = fields
    BY <1>4, <1>6 DEF AsReceived
  <2>2. ASSUME NEW j \in 1..n PROVE Plain(fields[j])
    <3>1. \A i \in 1..(j - 1) : i \in 1..n
      OBVIOUS
    <3> QED
      BY <1>2, <1>3, <1>5, <1>6, <3>1
  <2> QED
    BY <1>1, <1>5, <2>1, <2>2
<1>7. CASE B # {}
  <2>1. B \subseteq Nat
    BY <1>3
  <2>2. PICK k \in B : k = Min(B) /\ \A j \in B : k <= j
    BY <1>7, <2>1, Least
  <2>3. k \in 1..n /\ IsBody(fields[k]) /\ k # 0
    BY <1>3, <1>5, <2>2
  <2>4. PICK rest : rest = SubSeq(fields, k + 1, Len(fields))
    OBVIOUS
  <2>5. BodyText(rest) \in Texts
    <3>1. k \in 0..Len(fields)
      BY <1>5, <2>3
    <3> QED
      BY <1>1, <2>4, <3>1, RestText
  <2>6. PICK field : field = [name |-> fields[k].name, val |-> fields[k].val \o <<"\n">> \o BodyText(rest)]
    OBVIOUS
  <2>7. fields[k] \in Fields
    BY <1>1, <1>5, <2>3
  <2>8. field \in Fields
    <3>1. fields[k].name \in Texts /\ fields[k].val \in Texts
      BY <2>7 DEF Fields
    <3>2. "\n" \in Chars
      BY CharsAssumption
    <3>3. <<"\n">> \in Texts
      BY <3>2, TextOne
    <3>4. fields[k].val \o <<"\n">> \in Texts
      BY <3>1, <3>3, TextJoin
    <3>5. fields[k].val \o <<"\n">> \o BodyText(rest) \in Texts
      BY <2>5, <3>4, TextJoin
    <3> QED
      BY <2>6, <3>1, <3>5 DEF Fields
  <2>9. PICK front : front = SubSeq(fields, 1, k - 1)
    OBVIOUS
  <2>10. AsReceived(fields) = Append(front, field)
    BY <1>4, <1>7, <2>2, <2>3, <2>4, <2>6, <2>9 DEF AsReceived
  <2>11. front \in Seq(Fields) /\ Len(front) = k - 1 /\ \A i \in 1..(k - 1) : front[i] = fields[i]
    <3>1. PICK S : S = Fields
      OBVIOUS
    <3>2. fields \in Seq(S) /\ k - 1 <= Len(fields) /\ k - 1 \in Nat
      BY <1>1, <1>5, <2>3, <3>1
    <3>3. front \in Seq(S) /\ Len(front) = k - 1 /\ \A i \in 1..(k - 1) : front[i] = fields[i]
      BY <2>9, <3>2
    <3> QED
      BY <3>1, <3>3
  <2>12. ASSUME NEW j \in 1..k PROVE Plain(fields[j])
    <3>1. \A i \in 1..(j - 1) : i \in 1..n /\ ~(k <= i)
      BY <2>3
    <3>2. j \in 1..Len(fields)
      BY <1>5, <2>3
    <3> QED
      BY <1>2, <1>3, <1>5, <2>2, <3>1, <3>2
  <2>13. Plain(field)
    <3>1. Plain(fields[k])
      BY <2>3, <2>12
    <3>2. field.name = fields[k].name /\ IsBody(field)
      BY <2>3, <2>6 DEF IsBody
    <3> QED
      BY <3>1, <3>2 DEF Plain
  <2>14. PICK r : r = Append(front, field) /\ r \in Seq(Fields) /\ Len(r) = k
           /\ r[k] = field /\ \A i \in 1..(k - 1) : r[i] = front[i]
    <3>1. PICK S : S = Fields
      OBVIOUS
    <3>2. front \in Seq(S) /\ field \in S /\ Len(front) = k - 1 /\ k \in Nat
      BY <2>3, <2>8, <2>11, <3>1
    <3>3. Append(front, field) \in Seq(S) /\ Len(Append(front, field)) = k
          /\ Append(front, field)[k] = field /\ \A i \in 1..(k - 1) : Append(front, field)[i] = front[i]
      BY <3>2
    <3> QED
      BY <3>1, <3>3
  <2>15. ASSUME NEW i \in 1..k PROVE Plain(r[i])
    <3>1. CASE i = k
      BY <2>13, <2>14, <3>1
    <3>2. CASE i # k
      <4>1. i \in 1..(k - 1)
        BY <2>3, <3>2
      <4> QED
        BY <2>11, <2>12, <2>14, <4>1
    <3> QED
      BY <3>1, <3>2
  <2> QED
    BY <2>10, <2>14, <2>15
<1> QED
  BY <1>6, <1>7

-----------------------------------------------------------------------------
(* The words the server writes: names without a colon, values without a    *)
(* newline.                                                                *)
NameWords == {"fno", "reason", "name", "stat", "userid", "userlist"}
ValWords  == {"fail", "0004", "0006", "0007", "0009", "succ"}

LEMMA WordFacts ==
  /\ \A w \in NameWords : w \in Chars /\ w # ":" /\ w # BodyName
  /\ \A w \in ValWords : w \in Chars /\ w # "\n"
<1>1. NameWords \subseteq Chars /\ ValWords \subseteq Chars
  BY WordsAssumption DEF NameWords, ValWords
<1>2. \A w \in NameWords : w # ":" /\ w # BodyName
  BY DEF NameWords, BodyName
<1>3. \A w \in ValWords : w # "\n"
  BY DEF ValWords
<1> QED
  BY <1>1, <1>2, <1>3

LEMMA FieldClean ==
  ASSUME NEW n \in NameWords, NEW v \in Texts, Unbroken(v)
  PROVE  Field(n, v) \in Fields /\ Clean(Field(n, v))
<1>1. n \in Chars /\ n # ":" /\ n # BodyName
  BY WordFacts
<1>2. PICK x \in Texts : x = <<n>> /\ Len(x) = 1 /\ x[1] = n
  BY <1>1, TextOne
<1>3. Field(n, v).name = x /\ Field(n, v).val = v /\ Field(n, v) = [name |-> x, val |-> v]
  BY <1>2 DEF Field
<1>4. Field(n, v) \in Fields
  BY <1>3 DEF Fields
<1>5. ~IsBody(Field(n, v)) /\ x # <<>>
  <2>1. x # <<>>
    BY <1>2
  <2> QED
    BY <1>1, <1>2, <1>3, <2>1 DEF IsBody
<1>6. \A i \in 1..Len(x) : x[i] # ":"
  <2>1. \A i \in 1..1 : i = 1
    OBVIOUS
  <2> QED
    BY <1>1, <1>2, <2>1
<1>7. Plain(Field(n, v))
  BY <1>3, <1>6 DEF Plain, Unbroken
<1> QED
  BY <1>3, <1>4, <1>5, <1>7 DEF Clean

LEMMA WordVal ==
  ASSUME NEW w \in ValWords
  PROVE  <<w>> \in Texts /\ Unbroken(<<w>>)
BY WordFacts, TextOne, UnbrokenOne

(* A message of clean fields.                                              *)
CleanAll(r) == r \in Seq(Fields) /\ \A j \in 1..Len(r) : Clean(r[j])

(* Of up to three fields, as the server writes them.                       *)
LEMMA CleanFew ==
  /\ CleanAll(<<>>)
  /\ \A f \in Fields : Clean(f) => CleanAll(<<f>>)
  /\ \A f, g \in Fields : Clean(f) /\ Clean(g) => CleanAll(<<f, g>>)
  /\ \A f, g, h \in Fields : Clean(f) /\ Clean(g) /\ Clean(h) => CleanAll(<<f, g, h>>)
<1>1. PICK S : S = Fields
  OBVIOUS
<1>2. CleanAll(<<>>)
  BY DEF CleanAll
<1>3. ASSUME NEW f \in S, Clean(f) PROVE CleanAll(<<f>>)
  <2>1. <<f>> \in Seq(S) /\ Len(<<f>>) = 1 /\ <<f>>[1] = f
    OBVIOUS
  <2>2. \A j \in 1..1 : j = 1
    OBVIOUS
  <2> QED
    BY <1>1, <1>3, <2>1, <2>2 DEF CleanAll
<1>4. ASSUME NEW f \in S, NEW g \in S, Clean(f), Clean(g) PROVE CleanAll(<<f, g>>)
  <2>1. <<f, g>> \in Seq(S) /\ Len(<<f, g>>) = 2 /\ <<f, g>>[1] = f /\ <<f, g>>[2] = g
    OBVIOUS
  <2>2. \A j \in 1..2 : j = 1 \/ j = 2
    OBVIOUS
  <2> QED
    BY <1>1, <1>4, <2>1, <2>2 DEF CleanAll
<1>5. ASSUME NEW f \in S, NEW g \in S, NEW h \in S, Clean(f), Clean(g), Clean(h) PROVE CleanAll(<<f, g, h>>)
  <2>1. <<f, g, h>> \in Seq(S) /\ Len(<<f, g, h>>) = 3
        /\ <<f, g, h>>[1] = f /\ <<f, g, h>>[2] = g /\ <<f, g, h>>[3] = h
    OBVIOUS
  <2>2. \A j \in 1..3 : j = 1 \/ j = 2 \/ j = 3
    OBVIOUS
  <2> QED
    BY <1>1, <1>5, <2>1, <2>2 DEF CleanAll
<1> QED
  BY <1>1, <1>2, <1>3, <1>4, <1>5

(* The lists of a reply.                                                   *)
LEMMA ListValues ==
  ASSUME Depth >= 3, NEW users \in Seq(Users), NEW online \in Seq(Numbers)
  PROVE  UserList(users) \in ValuesTo(Depth) /\ OnlineList(online) \in ValuesTo(Depth)
<1>1. PICK A, B, C : /\ A = ValuesTo(1) /\ B = ValuesTo(2) /\ C = ValuesTo(3)
                     /\ A = ValuesOver({}) /\ B = ValuesOver(A) /\ C = ValuesOver(B)
  <2>1. ValuesTo(0 + 1) = ValuesOver({})
    BY ValuesNext, 0 \in Nat
  <2>2. ValuesTo(1 + 1) = ValuesOver(ValuesTo(1))
    BY ValuesNext, 1 \in Nat
  <2>3. ValuesTo(2 + 1) = ValuesOver(ValuesTo(2))
    BY ValuesNext, 2 \in Nat
  <2>4. 0 + 1 = 1 /\ 1 + 1 = 2 /\ 2 + 1 = 3
    OBVIOUS
  <2> QED
    BY <2>1, <2>2, <2>3, <2>4
<1>2. B \subseteq ValuesTo(Depth) /\ C \subseteq ValuesTo(Depth)
  <2>1. PICK m \in Nat : Depth = 3 + m
    <3>1. Depth - 3 \in Nat /\ Depth = 3 + (Depth - 3)
      BY DepthAssumption
    <3> QED
      BY <3>1
  <2>2. PICK n \in Nat : n = m + 1 /\ Depth = 2 + n
    BY <2>1
  <2>3. ValuesTo(3) \subseteq ValuesTo(3 + m)
    BY ValuesUp, 3 \in Nat
  <2>4. ValuesTo(2) \subseteq ValuesTo(2 + n)
    BY ValuesUp, 2 \in Nat
  <2> QED
    BY <1>1, <2>1, <2>2, <2>3, <2>4
<1>3. "id" \in Chars /\ "name" \in Chars /\ "department" \in Chars /\ "true_name" \in Chars
  BY WordsAssumption
<1>4. ASSUME NEW u \in Users PROVE UserObject(u) \in B
  <2>1. u.id \in Numbers /\ u.department \in Numbers /\ u.name \in Texts /\ u.trueName \in Texts
    BY DEF Users
  <2>2. Number(u.id) \in A /\ Number(u.department) \in A /\ String(u.name) \in A /\ String(u.trueName) \in A
    BY <1>1, <2>1, ValueMade
  <2>3. <<"id">> \in Texts /\ <<"name">> \in Texts /\ <<"department">> \in Texts /\ <<"true_name">> \in Texts
    BY <1>3, TextOne
  <2>4. PICK a, b, c, e : /\ a = [name |-> <<"id">>, value |-> Number(u.id)]
                          /\ b = [name |-> <<"name">>, value |-> String(u.name)]
                          /\ c = [name |-> <<"department">>, value |-> Number(u.department)]
                          /\ e = [name |-> <<"true_name">>, value |-> String(u.trueName)]
    OBVIOUS
  <2>5. PICK M : M = Members(A)
    OBVIOUS
  <2>6. a \in M /\ b \in M /\ c \in M /\ e \in M
    BY <2>2, <2>3, <2>4, <2>5 DEF Members
  <2>7. <<a, b, c, e>> \in Seq(M)
    BY <2>6
  <2>8. Object(<<a, b, c, e>>) \in ValuesOver(A)
    BY <2>5, <2>7, ValueMade
  <2> QED
    BY <1>1, <2>4, <2>8 DEF UserObject
<1>5. UserList(users) \in C
  <2>1. PICK n \in Nat : n = Len(users) /\ DOMAIN users = 1..n
    OBVIOUS
  <2>2. \A i \in 1..n : users[i] \in Users
    BY <2>1
  <2>3. PICK f : f = [i \in 1..n |-> UserObject(users[i])]
    OBVIOUS
  <2>4. f \in [1..n -> B]
    BY <1>4, <2>2, <2>3
  <2>5. f \in Seq(B)
    BY <2>4
  <2>6. Array(f) \in ValuesOver(B)
    BY <2>5, ValueMade
  <2> QED
    BY <1>1, <2>1, <2>3, <2>6 DEF UserList
<1>6. OnlineList(online) \in B
  <2>1. PICK n \in Nat : n = Len(online) /\ DOMAIN online = 1..n
    OBVIOUS
  <2>2. \A i \in 1..n : online[i] \in Numbers
    BY <2>1
  <2>3. PICK f : f = [i \in 1..n |-> Number(online[i])]
    OBVIOUS
  <2>4. f \in [1..n -> A]
    BY <1>1, <2>2, <2>3, ValueMade
  <2>5. f \in Seq(A)
    BY <2>4
  <2>6. Array(f) \in ValuesOver(A)
    BY <2>5, ValueMade
  <2> QED
    BY <1>1, <2>1, <2>3, <2>6 DEF OnlineList
<1> QED
  BY <1>2, <1>5, <1>6

(* A message that the client can scan, and its list, if it has one.        *)
GoodReply(reply, list) ==
  /\ CleanAll(reply)
  /\ list = NoList \/ (list \in ValuesTo(Depth) /\ reply = <<Field("userlist", Text[list])>>)
GoodAnswer(a) == GoodReply(a.reply, a.list)

LEMMA AnswerGood ==
  ASSUME NEW err, NEW reply, NEW sizes, CleanAll(reply)
  PROVE  GoodAnswer(Answer(err, reply, sizes))
<1>1. Answer(err, reply, sizes).reply = reply /\ Answer(err, reply, sizes).list = NoList
  BY DEF Answer
<1> QED
  BY <1>1 DEF GoodAnswer, GoodReply

(* A refusal can be scanned.                                               *)
LEMMA RefuseGood ==
  ASSUME NEW err, NEW reason \in ValWords, NEW sizes
  PROVE  GoodAnswer(Refuse(err, reason, sizes))
<1>1. "fno" \in NameWords /\ "reason" \in NameWords /\ "fail" \in ValWords
  BY DEF NameWords, ValWords
<1>2. PICK f \in Fields, g \in Fields :
        f = Field("fno", <<"fail">>) /\ g = Field("reason", <<reason>>) /\ Clean(f) /\ Clean(g)
  <2>1. Field("fno", <<"fail">>) \in Fields /\ Clean(Field("fno", <<"fail">>))
    BY <1>1, WordVal, FieldClean
  <2>2. Field("reason", <<reason>>) \in Fields /\ Clean(Field("reason", <<reason>>))
    BY <1>1, WordVal, FieldClean
  <2> QED
    BY <2>1, <2>2
<1>3. CleanAll(Failure(reason))
  BY <1>2, CleanFew DEF Failure
<1> QED
  BY <1>3, AnswerGood DEF Refuse

(* The value of a parameter that is there has no newline.                  *)
LEMMA ValName ==
  ASSUME NEW fields \in Seq(Fields), \A i \in 1..Len(fields) : Plain(fields[i]), Has(fields, "name")
  PROVE  Val(fields, "name") \in Texts /\ Unbroken(Val(fields, "name"))
<1>1. PICK n \in Nat : n = Len(fields)
  OBVIOUS
<1>2. PICK B : B = Places(fields, "name") /\ B \subseteq 1..n /\ B # {}
        /\ \A i \in B : fields[i].name = <<"name">>
  BY <1>1 DEF Places, Has
<1>3. PICK k \in B : k = Max(B)
  BY <1>2, Greatest
<1>4. k \in 1..n
  BY <1>2
<1>5. PICK f \in Fields : f = fields[k] /\ Plain(f)
  BY <1>1, <1>4
<1>6. f.name = <<"name">> /\ f.val \in Texts
  BY <1>2, <1>5 DEF Fields
<1>7. ~IsBody(f)
  <2>1. <<"name">>[1] = "name" /\ "name" # BodyName
    BY DEF BodyName
  <2> QED
    BY <1>6, <2>1 DEF IsBody
<1>8. Val(fields, "name") = f.val
  BY <1>2, <1>3, <1>5 DEF Val
<1> QED
  BY <1>5, <1>6, <1>7, <1>8 DEF Plain, Unbroken

(* The reply to login, which repeats the name of the request, can be       *)
(* scanned.                                                                *)
LEMMA LoginGood ==
  ASSUME NEW fields \in Seq(Fields), \A i \in 1..Len(fields) : Plain(fields[i]), NEW db \in Databases
  PROVE  GoodAnswer(Login(fields, db))
<1>1. PICK given : given = (Has(fields, "name") /\ Has(fields, "password")) /\ given \in BOOLEAN
  BY DEF Has
<1>2. db.left \in BOOLEAN /\ db.userid \in Nat
  BY NumbersNat DEF Databases
<1>3. PICK copies : copies = <<Pack>> \o CopySizes(fields)
  OBVIOUS
<1>4. CASE ~given /\ ~db.left
  <2>1. Login(fields, db) = Refuse("check", "0007", copies)
    BY <1>1, <1>3, <1>4 DEF Login
  <2>2. "0007" \in ValWords
    BY DEF ValWords
  <2> QED
    BY <2>1, <2>2, RefuseGood
<1>5. CASE ~given /\ db.left
  <2>1. Login(fields, db) = Answer("undefined", NoReply, copies)
    BY <1>1, <1>3, <1>5 DEF Login
  <2>2. CleanAll(NoReply)
    BY CleanFew DEF NoReply
  <2> QED
    BY <2>1, <2>2, AnswerGood
<1>6. CASE given
  <2>1. Has(fields, "name")
    BY <1>1, <1>6
  <2>2. PICK v \in Texts : v = Val(fields, "name") /\ Unbroken(v)
    BY <2>1, ValName
  <2>3. "name" \in NameWords /\ "stat" \in NameWords /\ "userid" \in NameWords
        /\ "fail" \in ValWords /\ "succ" \in ValWords
    BY DEF NameWords, ValWords
  <2>4. PICK f \in Fields : f = Field("name", v) /\ Clean(f)
    BY <2>2, <2>3, FieldClean
  <2>5. PICK g \in Fields : g = Field("stat", <<"fail">>) /\ Clean(g)
    BY <2>3, WordVal, FieldClean
  <2>6. PICK h \in Fields : h = Field("stat", <<"succ">>) /\ Clean(h)
    BY <2>3, WordVal, FieldClean
  <2>7. PICK e \in Fields : e = Field("userid", NumberText(db.userid)) /\ Clean(e)
    <3>1. NumberText(db.userid) \in Texts /\ Unbroken(NumberText(db.userid))
      BY <1>2, NumberGood DEF Good
    <3> QED
      BY <2>3, <3>1, FieldClean
  <2>8. CleanAll(<<f, g>>) /\ CleanAll(<<f, h, e>>)
    BY <2>4, <2>5, <2>6, <2>7, CleanFew
  <2>9. PICK reply, sizes : Login(fields, db) = Answer("none", reply, sizes)
                            /\ reply = IF db.userid = 0 THEN <<f, g>> ELSE <<f, h, e>>
    <3>1. Login(fields, db) = Answer("none",
             IF db.userid = 0 THEN <<f, g>> ELSE <<f, h, e>>,
             copies \o IF db.userid = 0 THEN <<>> ELSE <<11>>)
      BY <1>1, <1>3, <1>6, <2>2, <2>4, <2>5, <2>6, <2>7 DEF Login
    <3> QED
      BY <3>1
  <2>10. CleanAll(reply)
    BY <2>8, <2>9
  <2> QED
    BY <2>9, <2>10, AnswerGood
<1> QED
  BY <1>1, <1>2, <1>4, <1>5, <1>6

(* A reply with a list can be scanned, and the list is the one meant.      *)
LEMMA ListGood ==
  ASSUME NEW json \in ValuesTo(Depth), NEW rows
  PROVE  GoodAnswer(ListReply(json, rows))
<1>1. PICK a : a = ListReply(json, rows) /\ a.reply = <<Field("userlist", Text[json])>> /\ a.list = json
  <2>1. PICK sizes : sizes = rows \o BuildSizes[json] \o PrintSizes[json]
    OBVIOUS
  <2>2. PICK reply : reply = <<Field("userlist", Text[json])>>
    OBVIOUS
  <2>3. PICK b : b = [err |-> "none", reply |-> reply, sizes |-> sizes, list |-> NoList]
    OBVIOUS
  <2>4. ListReply(json, rows) = [b EXCEPT !.list = json]
    BY <2>1, <2>2, <2>3 DEF ListReply, Answer
  <2>5. [b EXCEPT !.list = json].reply = reply /\ [b EXCEPT !.list = json].list = json
    BY <2>3
  <2> QED
    BY <2>2, <2>4, <2>5
<1>2. CleanAll(<<Field("userlist", Text[json])>>)
  <2>1. "userlist" \in NameWords
    BY DEF NameWords
  <2>2. Text[json] \in Texts /\ Unbroken(Text[json])
    BY ValueReadBack
  <2>3. PICK f \in Fields : f = Field("userlist", Text[json]) /\ Clean(f)
    BY <2>1, <2>2, FieldClean
  <2> QED
    BY <2>3, CleanFew
<1> QED
  BY <1>1, <1>2 DEF GoodAnswer, GoodReply

(* The reply to a message can be scanned.                                  *)
LEMMA SendGood ==
  ASSUME NEW fields, NEW db \in Databases
  PROVE  GoodAnswer(SendMessage(fields, db))
<1>1. PICK given : given = (Has(fields, "toid") /\ Has(fields, "userid") /\ Has(fields, "body")) /\ given \in BOOLEAN
  BY DEF Has
<1>2. PICK self : self = (given /\ Val(fields, "toid") = Val(fields, "userid")) /\ self \in BOOLEAN
  OBVIOUS
<1>3. db.left \in BOOLEAN /\ db.exists \in BOOLEAN
  BY DEF Databases
<1>4. PICK copies : copies = <<Pack>> \o CopySizes(fields)
  OBVIOUS
<1>5. "0007" \in ValWords /\ "0009" \in ValWords /\ "stat" \in NameWords /\ "succ" \in ValWords
  BY DEF ValWords, NameWords
<1>6. self => given
  BY <1>2
<1>7. CASE self \/ (~given /\ ~db.left)
  <2>1. SendMessage(fields, db) = Refuse("check", "0007", copies)
    BY <1>1, <1>2, <1>4, <1>6, <1>7 DEF SendMessage
  <2> QED
    BY <1>5, <2>1, RefuseGood
<1>8. CASE ~given /\ db.left
  <2>1. SendMessage(fields, db) = Answer("undefined", NoReply, copies)
    BY <1>1, <1>2, <1>4, <1>6, <1>8 DEF SendMessage
  <2>2. CleanAll(NoReply)
    BY CleanFew DEF NoReply
  <2> QED
    BY <2>1, <2>2, AnswerGood
<1>9. CASE given /\ ~self /\ ~db.exists
  <2>1. SendMessage(fields, db) = Refuse("not_exist", "0009", copies)
    BY <1>1, <1>2, <1>4, <1>9 DEF SendMessage
  <2> QED
    BY <1>5, <2>1, RefuseGood
<1>10. CASE given /\ ~self /\ db.exists
  <2>1. SendMessage(fields, db) = Answer("none", <<Field("stat", <<"succ">>)>>, copies)
    BY <1>1, <1>2, <1>4, <1>10 DEF SendMessage
  <2>2. PICK f \in Fields : f = Field("stat", <<"succ">>) /\ Clean(f)
    BY <1>5, WordVal, FieldClean
  <2>3. CleanAll(<<Field("stat", <<"succ">>)>>)
    BY <2>2, CleanFew
  <2> QED
    BY <2>1, <2>3, AnswerGood
<1> QED
  BY <1>1, <1>2, <1>3, <1>6, <1>7, <1>8, <1>9, <1>10

(* Whatever the operation, its reply can be scanned.                       *)
LEMMA OperationGood ==
  ASSUME Depth >= 3, NEW fno, NEW fields \in Seq(Fields),
         \A i \in 1..Len(fields) : Plain(fields[i]), NEW db \in Databases
  PROVE  GoodAnswer(Operation(fno, fields, db))
<1>1. db.users \in Seq(Users) /\ db.online \in Seq(Numbers)
  BY DEF Databases
<1>2. CASE fno = 1
  <2>1. Operation(fno, fields, db) = Login(fields, db)
    BY <1>2 DEF Operation
  <2> QED
    BY <2>1, LoginGood
<1>3. CASE fno = 2
  <2>1. PICK rows : Operation(fno, fields, db) = ListReply(UserList(db.users), rows)
    BY <1>3 DEF Operation
  <2>2. UserList(db.users) \in ValuesTo(Depth)
    BY <1>1, ListValues
  <2> QED
    BY <2>1, <2>2, ListGood
<1>4. CASE fno = 6
  <2>1. Operation(fno, fields, db) = ListReply(OnlineList(db.online), <<>>)
    BY <1>4 DEF Operation
  <2>2. OnlineList(db.online) \in ValuesTo(Depth)
    BY <1>1, ListValues
  <2> QED
    BY <2>1, <2>2, ListGood
<1>5. CASE fno = 8
  <2>1. Operation(fno, fields, db) = SendMessage(fields, db)
    BY <1>5 DEF Operation
  <2> QED
    BY <2>1, SendGood
<1>6. CASE fno \in {3, 4, 5, 7}
  <2>1. Operation(fno, fields, db) = Answer("undefined", NoReply, <<>>)
    BY <1>6 DEF Operation
  <2>2. CleanAll(NoReply)
    BY CleanFew DEF NoReply
  <2> QED
    BY <2>1, <2>2, AnswerGood
<1>7. CASE fno \notin {1, 2, 3, 4, 5, 6, 7, 8}
  <2>1. Operation(fno, fields, db) = Refuse("unknown", "0006", <<>>)
    BY <1>7 DEF Operation
  <2>2. "0006" \in ValWords
    BY DEF ValWords
  <2> QED
    BY <2>1, <2>2, RefuseGood
<1> QED
  BY <1>2, <1>3, <1>4, <1>5, <1>6, <1>7

(* What Handle made of a request.                                          *)
Handled(h) ==
  /\ h.parsed = Parse(BodyText(h.sent))
  /\ GoodReply(h.reply, h.list)

(* Whatever the request, its reply can be scanned.                         *)
LEMMA HandleGood ==
  ASSUME Depth >= 3, NEW fno, NEW msg \in Messages, NEW db \in Databases
  PROVE  Handled(Handle(fno, msg, db))
<1>1. PICK parsed : parsed = Parse(BodyText(msg))
  OBVIOUS
<1>2. PICK answer : answer = IF parsed.ok THEN Operation(fno, parsed.fields, db) ELSE Refuse("parse", "0004", <<>>)
  OBVIOUS
<1>3. PICK h : h = Handle(fno, msg, db) /\ h.sent = msg /\ h.parsed = parsed
               /\ h.reply = answer.reply /\ h.list = answer.list
  <2>1. PICK needs, packages : Handle(fno, msg, db) =
          [fno |-> fno, sent |-> msg, db |-> db, parsed |-> parsed, reply |-> answer.reply,
           list |-> answer.list, packages |-> packages, needs |-> needs]
    BY <1>1, <1>2 DEF Handle
  <2> QED
    BY <2>1
<1>4. CASE parsed.ok
  <2>1. parsed.fields = AsReceived(msg)
    BY <1>1, <1>4, ScanReceived
  <2>2. PICK got : got = AsReceived(msg) /\ got \in Seq(Fields) /\ \A i \in 1..Len(got) : Plain(got[i])
    BY ReceivedPlain
  <2>3. GoodAnswer(Operation(fno, got, db))
    BY <2>2, OperationGood
  <2> QED
    BY <1>1, <1>2, <1>3, <1>4, <2>1, <2>2, <2>3 DEF Handled, GoodAnswer
<1>5. CASE ~parsed.ok
  <2>1. "0004" \in ValWords
    BY DEF ValWords
  <2>2. GoodAnswer(Refuse("parse", "0004", <<>>))
    BY <2>1, RefuseGood
  <2> QED
    BY <1>1, <1>2, <1>3, <1>5, <2>2 DEF Handled, GoodAnswer
<1> QED
  BY <1>3, <1>4, <1>5

-----------------------------------------------------------------------------
(* The listener and its requests.                                          *)

(* What a thread is doing is one of its sections.                          *)
DoingInv ==
  /\ DOMAIN doing = Threads
  /\ \A t \in Threads : doing[t] = None \/ doing[t] \in Sections(t)

LEMMA DoingInit == Init => DoingInv
BY DEF Init, DoingInv

(* Only Lock and Unlock change what a thread is doing.                     *)
LEMMA DoingStep == DoingInv /\ [Next]_vars => DoingInv'
<1> SUFFICES ASSUME DoingInv, [Next]_vars PROVE DoingInv'
  OBVIOUS
<1>1. CASE UNCHANGED doing
  BY <1>1 DEF DoingInv
<1>2. ASSUME NEW t \in Threads, NEW s \in Sections(t) \cup {None}, doing' = [doing EXCEPT ![t] = s]
      PROVE  DoingInv'
  <2>1. DOMAIN doing' = Threads
    BY <1>2 DEF DoingInv
  <2>2. ASSUME NEW u \in Threads PROVE doing'[u] = None \/ doing'[u] \in Sections(u)
    <3>1. CASE u = t
      BY <1>2, <3>1 DEF DoingInv
    <3>2. CASE u # t
      BY <1>2, <3>2 DEF DoingInv
    <3> QED
      BY <3>1, <3>2
  <2> QED
    BY <2>1, <2>2 DEF DoingInv
<1>3. CASE UNCHANGED vars
  BY <1>1, <1>3 DEF vars, sendVars
<1>4. CASE Fail
  BY <1>1, <1>4 DEF Fail
<1>5. ASSUME NEW t \in Threads, Step(t) PROVE DoingInv'
  <2>1. CASE Lock(t)
    BY <1>2, <2>1 DEF Lock
  <2>2. CASE Unlock(t)
    BY <1>2, <2>2 DEF Unlock
  <2>3. CASE Look(t) \/ Take(t) \/ UseFreed(t) \/ Send(t) \/ EndSend(t) \/ Drop(t) \/ Reset(t)
    BY <1>1, <2>3 DEF Look, Take, UseFreed, Send, EndSend, Drop, Reset
  <2> QED
    BY <1>5, <2>1, <2>2, <2>3 DEF Step
<1> QED
  BY <1>3, <1>4, <1>5 DEF Next

(* While the listener is at a request, that request is one a program sent  *)
(* and its answer what Handle made of it.                                  *)
LEMMA DoingHandled ==
  ASSUME DoingInv, doing[Listener] # None
  PROVE  served.sent \in Messages /\ Handled(served)
<1>1. Listener \in Threads
  BY DEF Threads
<1>2. PICK s \in Sections(Listener) : s = served
  BY <1>1 DEF DoingInv, served
<1>3. s = Handle(s.fno, s.sent, s.db) /\ s.sent \in Messages /\ s.db \in Databases /\ Depth >= 3
  BY RequestAssumption
<1>4. Handled(Handle(s.fno, s.sent, s.db))
  BY <1>3, HandleGood
<1> QED
  BY <1>2, <1>3, <1>4

(* What the scanner found, from what was sent.                             *)
LEMMA DoingReceived == DoingInv => TextReceived
<1> SUFFICES ASSUME DoingInv, Serving PROVE
      IF served.parsed.ok THEN served.parsed.fields = AsReceived(served.sent)
      ELSE \E i \in DOMAIN served.sent : served.sent[i].name = <<>>
  BY DEF TextReceived
<1>1. served.sent \in Messages /\ served.parsed = Parse(BodyText(served.sent))
  BY DoingHandled DEF Serving, Handled
<1> QED
  BY <1>1, ScanReceived

(* What the client reads, from what was written.                           *)
LEMMA DoingReply == DoingInv => ReplyReceived
<1> SUFFICES ASSUME DoingInv, Serving PROVE ReplyReceived
  BY DEF ReplyReceived
<1>1. GoodReply(served.reply, served.list)
  BY DoingHandled DEF Serving, Handled
<1>2. Parse(BodyText(served.reply)) = [ok |-> TRUE, fields |-> served.reply]
  BY <1>1, CleanParsed DEF GoodReply, CleanAll
<1>3. ASSUME served.list # NoList
      PROVE  ParseValue(served.reply[1].val, 1) = Ok(served.list, Len(served.reply[1].val) + 1)
  <2>1. PICK v \in ValuesTo(Depth) : v = served.list /\ served.reply = <<Field("userlist", Text[v])>>
    BY <1>1, <1>3 DEF GoodReply
  <2>2. served.reply[1].val = Text[v]
    BY <2>1 DEF Field
  <2> QED
    BY <2>1, <2>2, ValueReadBack
<1> QED
  BY <1>2, <1>3 DEF ReplyReceived

(* What was borrowed, from what was counted.                               *)
LEMMA DoingFits == DoingInv => TextFits
<1> SUFFICES ASSUME DoingInv, Serving PROVE TextFits
  BY DEF TextFits
<1>1. GoodReply(served.reply, served.list)
  BY DoingHandled DEF Serving, Handled
<1>2. Len(BodyText(served.reply)) <= BodyLen(served.reply)
  <2>1. served.reply \in Seq(Fields)
    BY <1>1 DEF GoodReply, CleanAll
  <2>2. Len(BodyText(served.reply)) = BodyLen(served.reply)
    BY <2>1, LengthCounted
  <2>3. Len(BodyText(served.reply)) \in Nat
    BY <2>1, LinesType
  <2> QED
    BY <2>2, <2>3
<1>3. ASSUME served.list # NoList, NEW v \in Parts[served.list]
      PROVE  Len(Text[v]) < Size(v)
  <2>1. served.list \in ValuesTo(Depth)
    BY <1>1, <1>3 DEF GoodReply
  <2>2. v \in ValuesTo(Depth)
    BY <1>3, <2>1, PartsValues
  <2> QED
    BY <2>2, ValueFits
<1> QED
  BY <1>2, <1>3 DEF TextFits

LEMMA Doing == Spec => []DoingInv
BY DoingInit, DoingStep, PTL DEF Spec

(* What a client wrote into a message is what the listener finds in it,    *)
(* for every message, whatever its fields hold (_doParse of                *)
(* clientconnection.cpp).                                                  *)
THEOREM Received == Spec => []TextReceived
BY Doing, DoingReceived, PTL

(* Every reply can be scanned by the client, and the list in it, nested to *)
(* whatever depth, is parsed as the server's list (print_value and         *)
(* parse_value of fxcjson.cpp, _doParse of fxconnection.cpp).              *)
THEOREM ReplyRead == Spec => []ReplyReceived
BY Doing, DoingReply, PTL

(* Nothing that is printed is longer than the memory borrowed for it: no   *)
(* value of a list, whatever its names, and no package (print_string and   *)
(* print_array of fxcjson.cpp, addParam of fxmessage.cpp).                 *)
THEOREM Fitting == Spec => []TextFits
BY Doing, DoingFits, PTL
=============================================================================
