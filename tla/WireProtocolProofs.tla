------------------------- MODULE WireProtocolProofs -------------------------
(* What a package header carries, how toPackages cuts a message, and what  *)
(* _doRead makes of the stream.                                            *)
EXTENDS WireProtocol, SequenceTheorems, TLAPS

(* The two halves of a 16-bit number are bytes and determine it.           *)
LEMMA Halves ==
  ASSUME NEW n \in Int, 0 <= n, n <= 65535
  PROVE  /\ Hi(n) \in Int /\ 0 <= Hi(n) /\ Hi(n) <= 255
         /\ Lo(n) \in Int /\ 0 <= Lo(n) /\ Lo(n) <= 255
         /\ n = 256 * Hi(n) + Lo(n)
  BY DEF Hi, Lo

LEMMA Joined ==
  ASSUME NEW h \in Int, 0 <= h, h <= 255, NEW l \in Int, 0 <= l, l <= 255
  PROVE  Hi(256 * h + l) = h /\ Lo(256 * h + l) = l
  BY DEF Hi, Lo

(* Swapping exchanges the halves.                                          *)
LEMMA SwapHalves ==
  ASSUME NEW n \in Int, 0 <= n, n <= 65535
  PROVE  Hi(Swap(n)) = Lo(n) /\ Lo(Swap(n)) = Hi(n)
  BY Halves, Joined DEF Swap

(* A sum of two chars, as a uint16_t, where the second is not negative:    *)
(* the sign of the first is lost in the reduction.                         *)
LEMMA SumOfChars ==
  ASSUME NEW a \in Int, 0 <= a, a <= 255, NEW b \in Int, 0 <= b, b <= 127
  PROVE  (256 * Char(a) + Char(b)) % 65536 = 256 * a + b
<1>1. Char(b) = b
  BY DEF Char
<1>2. CASE a < 128
  <2>1. Char(a) = a
    BY <1>2 DEF Char
  <2>2. (256 * a + b) % 65536 = 256 * a + b
    OBVIOUS
  <2> QED BY <1>1, <2>1, <2>2
<1>3. CASE a >= 128
  <2>1. Char(a) = a - 256
    BY <1>3 DEF Char
  <2>2. (256 * (a - 256) + b) % 65536 = 256 * a + b
    OBVIOUS
  <2> QED BY <1>1, <2>1, <2>2
<1> QED BY <1>2, <1>3

(* Every number below 2^15, so every length up to FXMESSAGE_BLOCK_SIZE     *)
(* and every page number up to FXMESSAGE_BLOCK_MAX, arrives as it was sent *)
(* in spite of the signed bytes.                                           *)
THEOREM HeaderRoundTrip ==
  ASSUME NEW n \in Int, 0 <= n, n <= 32767
  PROVE  Get(Put(n)[1], Put(n)[2]) = n
<1>1. /\ Hi(n) \in Int /\ 0 <= Hi(n) /\ Hi(n) <= 127
      /\ Lo(n) \in Int /\ 0 <= Lo(n) /\ Lo(n) <= 255
      /\ n = 256 * Hi(n) + Lo(n)
  BY DEF Hi, Lo
<1>2. Put(n)[1] = Lo(n) /\ Put(n)[2] = Hi(n)
  BY SwapHalves DEF Put
<1>3. (256 * Char(Lo(n)) + Char(Hi(n))) % 65536 = 256 * Lo(n) + Hi(n)
  BY <1>1, SumOfChars
<1>4. Swap(256 * Lo(n) + Hi(n)) = 256 * Hi(n) + Lo(n)
  BY <1>1, Joined DEF Swap
<1> QED BY <1>1, <1>2, <1>3, <1>4 DEF Get

(* The bound is sharp: no number from 2^15 on arrives as it was sent, the  *)
(* block of 32768 bytes the protocol document allows included.             *)
THEOREM HeaderLimit ==
  ASSUME NEW n \in Int, 32768 <= n, n <= 65535
  PROVE  Get(Put(n)[1], Put(n)[2]) # n
<1> DEFINE l == Lo(n)
           h == Hi(n)
<1>1. /\ h \in Int /\ 128 <= h /\ h <= 255
      /\ l \in Int /\ 0 <= l /\ l <= 255
      /\ n = 256 * h + l
  BY DEF Hi, Lo
<1>2. Put(n)[1] = l /\ Put(n)[2] = h
  BY SwapHalves DEF Put
<1> HIDE DEF l, h
<1>3. Char(h) = h - 256
  BY <1>1 DEF Char
<1> DEFINE m == IF l = 0 THEN 255 ELSE l - 1
<1>4. m \in Int /\ 0 <= m /\ m <= 255 /\ m # l
  BY <1>1
<1>5. (256 * Char(l) + Char(h)) % 65536 = 256 * m + h
  <2>1. CASE l = 0
    <3>1. Char(l) = 0 /\ m = 255
      BY <2>1 DEF Char
    <3>2. (256 * 0 + (h - 256)) % 65536 = 256 * 255 + h
      BY <1>1
    <3> QED BY <1>3, <3>1, <3>2
  <2>2. CASE l > 0 /\ l < 128
    <3>1. Char(l) = l /\ m = l - 1
      BY <2>2, <1>1 DEF Char
    <3>2. (256 * l + (h - 256)) % 65536 = 256 * (l - 1) + h
      BY <1>1, <2>2
    <3> QED BY <1>3, <3>1, <3>2
  <2>3. CASE l >= 128
    <3>1. Char(l) = l - 256 /\ m = l - 1
      BY <2>3, <1>1 DEF Char
    <3>2. (256 * (l - 256) + (h - 256)) % 65536 = 256 * (l - 1) + h
      BY <1>1, <2>3
    <3> QED BY <1>3, <3>1, <3>2
  <2> QED BY <1>1, <2>1, <2>2, <2>3
<1> HIDE DEF m
<1>6. Swap(256 * m + h) = 256 * h + m
  <2>1. Hi(256 * m + h) = m /\ Lo(256 * m + h) = h
    BY <1>1, <1>4, Joined
  <2> QED BY <2>1 DEF Swap
<1>7. Get(Put(n)[1], Put(n)[2]) = 256 * h + m
  BY <1>2, <1>5, <1>6 DEF Get
<1> QED BY <1>1, <1>4, <1>7
-----------------------------------------------------------------------------
(* Arithmetic of pages.                                                    *)

LEMMA Product ==
  ASSUME NEW a \in Int, NEW b \in Int
  PROVE  a * b \in Int
  OBVIOUS

LEMMA ProductMonotone ==
  ASSUME NEW a \in Int, NEW c \in Int, a <= c, NEW b \in Nat
  PROVE  a * b <= c * b
  OBVIOUS

LEMMA ProductSum ==
  ASSUME NEW a \in Int, NEW c \in Int, NEW b \in Int
  PROVE  (a + c) * b = a * b + c * b
  OBVIOUS

(* A quotient and a remainder determine each other.                        *)
LEMMA Quotient ==
  ASSUME NEW q \in Nat, NEW b \in Nat \ {0}, NEW r \in Int, 0 <= r, r < b
  PROVE  (q * b + r) \div b = q /\ (q * b + r) % b = r
  OBVIOUS

LEMMA Division ==
  ASSUME NEW a \in Nat, NEW b \in Nat \ {0}
  PROVE  /\ a \div b \in Nat
         /\ (a % b) \in Nat /\ (a % b) < b
         /\ a = (a \div b) * b + (a % b)
  OBVIOUS

(* A message has at least one byte.                                        *)
LEMMA FullLenPositive ==
  ASSUME NEW m \in Messages
  PROVE  /\ Len(m.ends) \in Nat \ {0} /\ m.ends \in Seq(Nat)
         /\ FullLen(m) \in Nat /\ FullLen(m) > 0
<1>1. /\ m.ends \in Seq(Nat) /\ m.ends # <<>> /\ m.ends[1] > 0
      /\ \A i, j \in 1 .. Len(m.ends) : i <= j => m.ends[i] <= m.ends[j]
  BY PackagingAssumption
<1>2. Len(m.ends) \in Nat \ {0}
  BY <1>1, EmptySeq
<1>3. m.ends[1] \in Nat /\ m.ends[Len(m.ends)] \in Nat
  BY <1>1, <1>2, ElementOfSeq
<1>4. m.ends[1] <= m.ends[Len(m.ends)]
  BY <1>1, <1>2
<1> QED BY <1>1, <1>2, <1>3, <1>4 DEF FullLen

(* package_sum packages are enough for the body, and one less is not.      *)
LEMMA PagesSuffice ==
  ASSUME NEW m \in Messages
  PROVE  /\ PackageSum(m) \in Nat /\ PackageSum(m) >= 1
         /\ (PackageSum(m) - 1) * BlockSize < FullLen(m)
         /\ FullLen(m) <= PackageSum(m) * BlockSize
<1> DEFINE a == FullLen(m) - 1
           q == a \div BlockSize
<1>1. a \in Nat /\ FullLen(m) = a + 1
  BY FullLenPositive
<1>2. BlockSize \in Nat \ {0}
  BY PackagingAssumption
<1> HIDE DEF a
<1>3. q \in Nat /\ (a % BlockSize) \in Nat /\ (a % BlockSize) < BlockSize
      /\ a = q * BlockSize + (a % BlockSize)
  BY <1>1, <1>2, Division
<1>4. PackageSum(m) = q + 1
  BY <1>1 DEF PackageSum, a
<1> HIDE DEF q
<1>5. q * BlockSize \in Int /\ (q + 1) * BlockSize = q * BlockSize + BlockSize
  BY <1>2, <1>3
<1>6. PackageSum(m) - 1 = q
  BY <1>3, <1>4
<1>7. q * BlockSize < FullLen(m) /\ FullLen(m) <= q * BlockSize + BlockSize
  BY <1>1, <1>2, <1>3, <1>5
<1> QED BY <1>3, <1>4, <1>5, <1>6, <1>7

(* What a header announces: a full package, and the rest with the last.    *)
LEMMA MsgLenIs ==
  ASSUME NEW m \in Messages, NEW n \in Int, 1 <= n, n <= PackageSum(m)
  PROVE  /\ (n - 1) * BlockSize \in Nat
         /\ MsgLen(m, n) \in Nat /\ MsgLen(m, n) >= 1 /\ MsgLen(m, n) <= BlockSize
         /\ n < PackageSum(m) => MsgLen(m, n) = BlockSize
         /\ n = PackageSum(m) => MsgLen(m, n) = FullLen(m) - (n - 1) * BlockSize
         /\ (n - 1) * BlockSize + MsgLen(m, n) <= FullLen(m)
<1> DEFINE l == FullLen(m)
           s == PackageSum(m)
           p == (n - 1) * BlockSize
<1>1. l \in Nat /\ l > 0 /\ s \in Nat /\ s >= 1 /\ BlockSize \in Nat /\ BlockSize > 0
  BY FullLenPositive, PagesSuffice, PackagingAssumption
<1>2. (s - 1) * BlockSize < l /\ l <= s * BlockSize
  BY PagesSuffice
<1> HIDE DEF l, s
<1>3. p \in Int /\ p >= 0 /\ n * BlockSize = p + BlockSize
  BY <1>1
<1>3a. s * BlockSize = (s - 1) * BlockSize + BlockSize /\ (s - 1) * BlockSize \in Int
  BY <1>1
<1>4. CASE n < s
  <2>1. n * BlockSize <= (s - 1) * BlockSize
    BY <1>1, <1>4, ProductMonotone
  <2> HIDE DEF p
  <2>2. p + BlockSize < l
    BY <1>1, <1>2, <1>3, <1>3a, <2>1
  <2>3. l >= BlockSize
    BY <1>1, <1>3, <2>2
  <2>4. MsgLen(m, n) = BlockSize
    BY <1>4, <1>1, <2>3 DEF MsgLen, l, s
  <2> QED BY <1>1, <1>3, <1>4, <2>2, <2>4 DEF l, s, p
<1>5. CASE n = s
  <2>1. p < l /\ l <= p + BlockSize
    BY <1>2, <1>3, <1>5
  <2> HIDE DEF p
  <2>2. MsgLen(m, n) = l - p
    <3>1. CASE l < BlockSize
      <4>1. s = 1
        <5> SUFFICES ASSUME s >= 2 PROVE FALSE
          BY <1>1
        <5>1. (s - 1) * BlockSize >= BlockSize
          BY <1>1, ProductMonotone
        <5> QED BY <1>1, <1>2, <1>3a, <3>1, <5>1
      <4>2. p = 0
        BY <4>1, <1>1, <1>5 DEF p
      <4>3. l % BlockSize = l
        BY <1>1, <3>1
      <4> QED BY <3>1, <4>2, <4>3, <1>1 DEF MsgLen, l
    <3>2. CASE l >= BlockSize /\ l % BlockSize # 0
      <4> DEFINE r == l - p
      <4>0. l = p + r /\ r \in Int
        BY <1>1, <1>3
      <4>1. r # BlockSize
        <5> SUFFICES ASSUME l = p + BlockSize PROVE FALSE
          BY <1>1, <1>3
        <5>1. l = n * BlockSize + 0
          BY <1>1, <1>3
        <5>2. l % BlockSize = 0
          BY <5>1, <1>1, Quotient
        <5> QED BY <5>2, <3>2
      <4>2. l = (n - 1) * BlockSize + r /\ 0 <= r /\ r < BlockSize
        BY <1>1, <1>3, <2>1, <4>1 DEF p
      <4>2a. n - 1 \in Nat /\ BlockSize \in Nat \ {0}
        BY <1>1
      <4> HIDE DEF r
      <4>2b. ((n - 1) * BlockSize + r) % BlockSize = r
        BY <4>0, <4>2, <4>2a, Quotient
      <4>3. l % BlockSize = r
        BY <4>2, <4>2b
      <4>4. MsgLen(m, n) = l % BlockSize
        BY <1>5, <3>2 DEF MsgLen, l, s
      <4> QED BY <4>3, <4>4 DEF r
    <3>3. CASE l >= BlockSize /\ l % BlockSize = 0
      <4> DEFINE r == l - p
      <4>1. r = BlockSize
        <5> SUFFICES ASSUME r < BlockSize PROVE FALSE
          BY <1>1, <1>3, <2>1
        <5>1. l = (n - 1) * BlockSize + r /\ 0 <= r /\ r \in Int /\ n - 1 \in Nat
          BY <1>1, <1>3, <2>1 DEF p
        <5>1a. r > 0
          BY <1>1, <1>3, <2>1
        <5>1b. r < BlockSize
          OBVIOUS
        <5> HIDE DEF r
        <5>2. ((n - 1) * BlockSize + r) % BlockSize = r
          BY <5>1, <5>1b, <1>1, Quotient
        <5> QED BY <5>1, <5>1a, <5>2, <3>3
      <4>2. MsgLen(m, n) = BlockSize
        BY <3>3, <1>1 DEF MsgLen, l
      <4> QED BY <4>1, <4>2
    <3> QED BY <3>1, <3>2, <3>3, <1>1
  <2> QED BY <1>1, <1>3, <1>5, <2>1, <2>2 DEF l, s, p
<1> QED BY <1>1, <1>4, <1>5 DEF s
-----------------------------------------------------------------------------
(* What toPackages writes.                                                 *)

Frame == BlockSize + 8

(* Byte j of all the packages of m: page k + 1 begins with its header.     *)
WireByte(m, j) ==
  LET k == (j - 1) \div Frame
      r == (j - 1) % Frame
  IN  IF r < 8 THEN Header(m, k + 1)[r + 1] ELSE BodyByte(m, k * BlockSize + r - 7)

WireLength(m) == FullLen(m) + 8 * PackageSum(m)

LEMMA FrameSize == BlockSize \in Nat /\ BlockSize > 0 /\ Frame \in Nat /\ Frame > 8
BY PackagingAssumption DEF Frame

LEMMA FrameProduct ==
  ASSUME NEW k \in Int
  PROVE  /\ k * Frame \in Int /\ k * BlockSize \in Int
         /\ k * Frame = k * BlockSize + 8 * k
BY FrameSize DEF Frame

(* A number travels as two bytes.                                          *)
LEMMA PutBytes ==
  ASSUME NEW n \in Int, 0 <= n, n <= 65535
  PROVE  Put(n) \in Seq(0 .. 255) /\ Len(Put(n)) = 2
<1>1. Put(n) = <<Lo(n), Hi(n)>>
  BY SwapHalves DEF Put
<1>1a. /\ Lo(n) \in Int /\ 0 <= Lo(n) /\ Lo(n) <= 255
       /\ Hi(n) \in Int /\ 0 <= Hi(n) /\ Hi(n) <= 255
  BY Halves
<1>2. Lo(n) \in 0 .. 255 /\ Hi(n) \in 0 .. 255
  BY <1>1a
<1> HIDE DEF Put
<1> QED BY <1>1, <1>2

LEMMA Joint ==
  ASSUME NEW S, NEW a \in Seq(S), NEW b \in Seq(S)
  PROVE  /\ a \o b \in Seq(S) /\ Len(a \o b) = Len(a) + Len(b)
         /\ \A i \in 1 .. Len(a) : (a \o b)[i] = a[i]
         /\ \A i \in 1 .. Len(b) : (a \o b)[Len(a) + i] = b[i]
  OBVIOUS

(* Bytes m + 1 to m + n.                                                   *)
LEMMA Slice ==
  ASSUME NEW S, NEW s \in Seq(S), NEW m \in Nat, NEW n \in Nat, m + n <= Len(s)
  PROVE  /\ SubSeq(s, m + 1, m + n) \in Seq(S) /\ Len(SubSeq(s, m + 1, m + n)) = n
         /\ \A i \in 1 .. n : SubSeq(s, m + 1, m + n)[i] = s[m + i]
<1> DEFINE u == m + 1
           v == m + n
<1>1. u \in Int /\ v \in Int /\ (u <= v <=> 1 <= n)
  OBVIOUS
<1>2. \A i \in u .. v : s[i] \in S
  <2> TAKE i \in u .. v
  <2>1. i \in 1 .. Len(s)
    BY LenProperties
  <2> QED BY <2>1, ElementOfSeq
<1>3. v - u + 1 = n /\ \A i \in 1 .. n : u + i - 1 = m + i
  OBVIOUS
<1> HIDE DEF u, v
<1>4. /\ SubSeq(s, u, v) \in Seq(S)
      /\ Len(SubSeq(s, u, v)) = IF u <= v THEN v - u + 1 ELSE 0
      /\ \A i \in 1 .. v - u + 1 : SubSeq(s, u, v)[i] = s[u + i - 1]
  BY <1>1, <1>2, SubSeqProperties
<1>5. /\ SubSeq(s, u, v) \in Seq(S) /\ Len(SubSeq(s, u, v)) = n
      /\ \A i \in 1 .. n : SubSeq(s, u, v)[i] = s[m + i]
  <2>1. Len(SubSeq(s, u, v)) = n
    BY <1>1, <1>3, <1>4
  <2>2. \A i \in 1 .. n : SubSeq(s, u, v)[i] = s[m + i]
    BY <1>3, <1>4
  <2> QED BY <1>4, <2>1, <2>2
<1> QED BY <1>5 DEF u, v

LEMMA Prefix ==
  ASSUME NEW S, NEW s \in Seq(S), NEW n \in Nat, n <= Len(s)
  PROVE  /\ SubSeq(s, 1, n) \in Seq(S) /\ Len(SubSeq(s, 1, n)) = n
         /\ \A i \in 1 .. n : SubSeq(s, 1, n)[i] = s[i]
<1>1. /\ SubSeq(s, 0 + 1, 0 + n) \in Seq(S) /\ Len(SubSeq(s, 0 + 1, 0 + n)) = n
      /\ \A i \in 1 .. n : SubSeq(s, 0 + 1, 0 + n)[i] = s[0 + i]
  <2>1. 0 \in Nat /\ 0 + n <= Len(s)
    OBVIOUS
  <2> QED BY <2>1, Slice
<1>2. SubSeq(s, 0 + 1, 0 + n) = SubSeq(s, 1, n)
  OBVIOUS
<1> QED BY <1>1, <1>2

LEMMA FourParts ==
  ASSUME NEW S, NEW a \in Seq(S), NEW b \in Seq(S), NEW c \in Seq(S), NEW d \in Seq(S)
  PROVE  /\ a \o b \o c \o d \in Seq(S)
         /\ Len(a \o b \o c \o d) = Len(a) + Len(b) + Len(c) + Len(d)
         /\ \A i \in 1 .. Len(a) : (a \o b \o c \o d)[i] = a[i]
         /\ \A i \in 1 .. Len(c) : (a \o b \o c \o d)[Len(a) + Len(b) + i] = c[i]
         /\ \A i \in 1 .. Len(d) : (a \o b \o c \o d)[Len(a) + Len(b) + Len(c) + i] = d[i]
<1> DEFINE ab == a \o b
           abc == ab \o c
           all == abc \o d
<1>1. /\ ab \in Seq(S) /\ Len(ab) = Len(a) + Len(b)
      /\ \A i \in 1 .. Len(a) : ab[i] = a[i]
      /\ \A i \in 1 .. Len(b) : ab[Len(a) + i] = b[i]
  BY Joint
<1>1a. ab \in Seq(S)
  BY <1>1
<1> HIDE DEF ab
<1>2. /\ abc \in Seq(S) /\ Len(abc) = Len(ab) + Len(c)
      /\ \A i \in 1 .. Len(ab) : abc[i] = ab[i]
      /\ \A i \in 1 .. Len(c) : abc[Len(ab) + i] = c[i]
  BY <1>1a, Joint
<1>2a. abc \in Seq(S)
  BY <1>2
<1> HIDE DEF abc
<1>3. /\ all \in Seq(S) /\ Len(all) = Len(abc) + Len(d)
      /\ \A i \in 1 .. Len(abc) : all[i] = abc[i]
      /\ \A i \in 1 .. Len(d) : all[Len(abc) + i] = d[i]
  BY <1>2a, Joint
<1> HIDE DEF all
<1>4. /\ all \in Seq(S) /\ Len(all) = Len(a) + Len(b) + Len(c) + Len(d)
      /\ \A i \in 1 .. Len(a) : all[i] = a[i]
      /\ \A i \in 1 .. Len(c) : all[Len(a) + Len(b) + i] = c[i]
      /\ \A i \in 1 .. Len(d) : all[Len(a) + Len(b) + Len(c) + i] = d[i]
  <2>1. Len(a) \in Nat /\ Len(b) \in Nat /\ Len(c) \in Nat /\ Len(d) \in Nat
    BY LenProperties
  <2>2. Len(ab) = Len(a) + Len(b) /\ Len(abc) = Len(a) + Len(b) + Len(c)
    BY <1>1, <1>2
  <2>3. ASSUME NEW i \in 1 .. Len(a) PROVE all[i] = a[i]
    <3>1. i \in 1 .. Len(ab) /\ i \in 1 .. Len(abc)
      BY <2>1, <2>2
    <3> QED BY <3>1, <1>1, <1>2, <1>3
  <2>5. ASSUME NEW i \in 1 .. Len(c) PROVE all[Len(a) + Len(b) + i] = c[i]
    <3>1. Len(ab) + i \in 1 .. Len(abc)
      BY <2>1, <2>2
    <3>2. all[Len(ab) + i] = c[i]
      BY <3>1, <1>2, <1>3
    <3> QED BY <3>2, <2>2
  <2>6. ASSUME NEW i \in 1 .. Len(d) PROVE all[Len(a) + Len(b) + Len(c) + i] = d[i]
    <3>1. all[Len(abc) + i] = d[i]
      BY <1>3
    <3> QED BY <3>1, <2>2
  <2>7. all \in Seq(S) /\ Len(all) = Len(a) + Len(b) + Len(c) + Len(d)
    BY <1>3, <2>2
  <2> QED BY <2>3, <2>5, <2>6, <2>7
<1> QED BY <1>4 DEF all, abc, ab

LEMMA SecondPart ==
  ASSUME NEW S, NEW a \in Seq(S), NEW b \in Seq(S), NEW c \in Seq(S), NEW d \in Seq(S)
  PROVE  \A i \in 1 .. Len(b) : (a \o b \o c \o d)[Len(a) + i] = b[i]
<1> DEFINE ab == a \o b
           abc == ab \o c
<1>1. ab \in Seq(S) /\ Len(ab) = Len(a) + Len(b) /\ \A i \in 1 .. Len(b) : ab[Len(a) + i] = b[i]
  BY Joint
<1>1a. ab \in Seq(S)
  BY <1>1
<1> HIDE DEF ab
<1>2. abc \in Seq(S) /\ Len(abc) = Len(ab) + Len(c) /\ \A i \in 1 .. Len(ab) : abc[i] = ab[i]
  BY <1>1a, Joint
<1>2a. abc \in Seq(S)
  BY <1>2
<1> HIDE DEF abc
<1>3. \A i \in 1 .. Len(abc) : (abc \o d)[i] = abc[i]
  BY <1>2a, Joint
<1>4. Len(a) \in Nat /\ Len(b) \in Nat /\ Len(c) \in Nat
  BY LenProperties
<1>5. ASSUME NEW i \in 1 .. Len(b) PROVE (abc \o d)[Len(a) + i] = b[i]
  <2>1. Len(a) + i \in 1 .. Len(ab) /\ Len(a) + i \in 1 .. Len(abc)
    BY <1>1, <1>2, <1>4
  <2> QED BY <2>1, <1>1, <1>2, <1>3
<1> QED BY <1>5 DEF abc, ab

(* The messages that are sent at all have numbers a header can carry.      *)
LEMMA HeaderBytes ==
  ASSUME NEW m \in Messages, PackageSum(m) <= BlockMax,
         NEW n \in Int, 1 <= n, n <= PackageSum(m)
  PROVE  /\ Header(m, n) \in Seq(0 .. 255) /\ Len(Header(m, n)) = 8
         /\ Get(Header(m, n)[1], Header(m, n)[2]) = MsgLen(m, n)
         /\ Get(Header(m, n)[3], Header(m, n)[4]) = PackageSum(m)
         /\ Get(Header(m, n)[5], Header(m, n)[6]) = n
         /\ Get(Header(m, n)[7], Header(m, n)[8]) = m.fno
<1>1. /\ MsgLen(m, n) \in Int /\ 0 <= MsgLen(m, n) /\ MsgLen(m, n) <= 32767
      /\ PackageSum(m) \in Int /\ 0 <= PackageSum(m) /\ PackageSum(m) <= 32767
      /\ 0 <= n /\ n <= 32767
      /\ m.fno \in Int /\ 0 <= m.fno /\ m.fno <= 32767
  BY MsgLenIs, PagesSuffice, PackagingAssumption
<1> DEFINE a == Put(MsgLen(m, n))
           b == Put(PackageSum(m))
           c == Put(n)
           d == Put(m.fno)
<1>2. a \in Seq(0 .. 255) /\ b \in Seq(0 .. 255) /\ c \in Seq(0 .. 255) /\ d \in Seq(0 .. 255)
  BY <1>1, PutBytes
<1>2a. Len(a) = 2 /\ Len(b) = 2 /\ Len(c) = 2 /\ Len(d) = 2
  BY <1>1, PutBytes
<1>3. /\ Get(a[1], a[2]) = MsgLen(m, n) /\ Get(b[1], b[2]) = PackageSum(m)
      /\ Get(c[1], c[2]) = n /\ Get(d[1], d[2]) = m.fno
  BY <1>1, HeaderRoundTrip
<1>4. Header(m, n) = a \o b \o c \o d
  BY DEF Header
<1> HIDE DEF a, b, c, d
<1> DEFINE S == 0 .. 255
           hd == a \o b \o c \o d
<1>5. a \in Seq(S) /\ b \in Seq(S) /\ c \in Seq(S) /\ d \in Seq(S)
  BY <1>2
<1> HIDE DEF S
<1>6a. hd \in Seq(S)
  BY <1>5, FourParts
<1>6b. Len(hd) = Len(a) + Len(b) + Len(c) + Len(d)
  BY <1>5, FourParts
<1>6c. \A i \in 1 .. Len(a) : hd[i] = a[i]
  BY <1>5, FourParts
<1>6d. \A i \in 1 .. Len(b) : hd[Len(a) + i] = b[i]
  BY <1>5, SecondPart
<1>6e. \A i \in 1 .. Len(c) : hd[Len(a) + Len(b) + i] = c[i]
  BY <1>5, FourParts
<1>6f. \A i \in 1 .. Len(d) : hd[Len(a) + Len(b) + Len(c) + i] = d[i]
  BY <1>5, FourParts
<1> HIDE DEF hd
<1>7. /\ Len(hd) = 8
      /\ hd[1] = a[1] /\ hd[2] = a[2] /\ hd[3] = b[1] /\ hd[4] = b[2]
      /\ hd[5] = c[1] /\ hd[6] = c[2] /\ hd[7] = d[1] /\ hd[8] = d[2]
  BY <1>2a, <1>6b, <1>6c, <1>6d, <1>6e, <1>6f
<1>8. Header(m, n) = hd
  BY <1>4 DEF hd
<1> QED BY <1>3, <1>6a, <1>7, <1>8 DEF S

LEMMA WireHeader ==
  ASSUME NEW m \in Messages, NEW k \in Nat, NEW i \in 1 .. 8
  PROVE  WireByte(m, k * Frame + i) = Header(m, k + 1)[i]
<1> DEFINE j == k * Frame + i
<1>1. k * Frame \in Int /\ Frame \in Nat \ {0}
  BY FrameSize, FrameProduct
<1>2. j - 1 = k * Frame + (i - 1) /\ i - 1 \in Int /\ 0 <= i - 1 /\ i - 1 < Frame
  BY <1>1, FrameSize
<1>3. (k * Frame + (i - 1)) \div Frame = k /\ (k * Frame + (i - 1)) % Frame = i - 1
  BY <1>1, <1>2, Quotient
<1>4. (j - 1) \div Frame = k /\ (j - 1) % Frame = i - 1
  BY <1>2, <1>3
<1>5. (i - 1) + 1 = i /\ i - 1 < 8
  OBVIOUS
<1> HIDE DEF j
<1>6. WireByte(m, j) = Header(m, k + 1)[i]
  BY <1>4, <1>5 DEF WireByte
<1> QED BY <1>6 DEF j

LEMMA WireBody ==
  ASSUME NEW m \in Messages, NEW k \in Nat, NEW i \in 1 .. BlockSize
  PROVE  WireByte(m, k * Frame + 8 + i) = BodyByte(m, k * BlockSize + i)
<1> DEFINE j == k * Frame + 8 + i
<1>1. k * Frame \in Int /\ k * BlockSize \in Int /\ Frame \in Nat \ {0}
  BY FrameSize, FrameProduct
<1>2. /\ j - 1 = k * Frame + (i + 7)
      /\ i + 7 \in Int /\ 0 <= i + 7 /\ i + 7 < Frame
  BY <1>1, FrameSize DEF Frame
<1>3. (k * Frame + (i + 7)) \div Frame = k /\ (k * Frame + (i + 7)) % Frame = i + 7
  BY <1>1, <1>2, Quotient
<1>4. (j - 1) \div Frame = k /\ (j - 1) % Frame = i + 7
  BY <1>2, <1>3
<1>5. k * BlockSize + (i + 7) - 7 = k * BlockSize + i /\ ~(i + 7 < 8)
  BY <1>1, FrameSize
<1> HIDE DEF j
<1>6. WireByte(m, j) = BodyByte(m, k * BlockSize + i)
  BY <1>4, <1>5 DEF WireByte
<1> QED BY <1>6 DEF j

(* Headers whose package has been begun.                                   *)
Begun == IF NewPackage THEN pageno - 1 ELSE pageno

(* While toPackages runs: pos counts the full packages and the current     *)
(* one, a field is never passed, and a package is begun only if there is a *)
(* byte to put into it, which is why it gets exactly one header.           *)
Counted ==
  /\ part \in Nat /\ 1 <= part /\ part <= Len(msg.ends) + 1
  /\ pos \in Nat /\ current \in Nat /\ current <= BlockSize
  /\ pageno \in Nat /\ pageno >= 1
  /\ pos = (pageno - 1) * BlockSize + current
  /\ part <= Len(msg.ends) => pos <= msg.ends[part]
  /\ Packed => pos = FullLen(msg)
  /\ NewPackage => (~Packed /\ pos < msg.ends[part])

Placed ==
  /\ DOMAIN packages = 1 .. Begun /\ DOMAIN plengths = 1 .. Begun
  /\ \A k \in 1 .. Begun : /\ packages[k] = (k - 1) * Frame + 1
                           /\ plengths[k] = MsgLen(msg, k) + 8

Written ==
  /\ buffer \in Seq(0 .. 255)
  /\ Len(buffer) = pos + 8 * Begun
  /\ \A j \in 1 .. Len(buffer) : buffer[j] = WireByte(msg, j)

PackInv == msg \in Messages /\ Counted /\ Placed /\ Written

LEMMA EndsOf ==
  ASSUME msg \in Messages, NEW i \in 1 .. Len(msg.ends)
  PROVE  /\ msg.ends[i] \in Nat /\ msg.ends[i] <= FullLen(msg)
         /\ i < Len(msg.ends) => (i + 1 \in 1 .. Len(msg.ends) /\ msg.ends[i] <= msg.ends[i + 1])
         /\ i = Len(msg.ends) => msg.ends[i] = FullLen(msg)
<1>1. Len(msg.ends) \in Nat \ {0} /\ msg.ends \in Seq(Nat)
  BY FullLenPositive
<1>2. \A a, b \in 1 .. Len(msg.ends) : a <= b => msg.ends[a] <= msg.ends[b]
  BY PackagingAssumption
<1>3. msg.ends[i] \in Nat
  BY <1>1, ElementOfSeq
<1> QED BY <1>1, <1>2, <1>3 DEF FullLen

(* A package is begun within package_sum.                                  *)
LEMMA PagesBound ==
  ASSUME msg \in Messages, Counted
  PROVE  /\ pageno <= PackageSum(msg)
         /\ Packed => pageno = PackageSum(msg) /\ ~NewPackage
<1> DEFINE s == PackageSum(msg)
           l == FullLen(msg)
<1>1. /\ s \in Nat /\ s >= 1 /\ (s - 1) * BlockSize < l /\ l <= s * BlockSize
      /\ l \in Nat /\ BlockSize \in Nat /\ BlockSize > 0
  BY PagesSuffice, FullLenPositive, FrameSize
<1>2. Len(msg.ends) \in Nat \ {0}
  BY FullLenPositive
<1> HIDE DEF s, l
<1>3. pos <= l
  <2>1. CASE Packed
    BY <2>1, <1>1 DEF Counted, l
  <2>2. CASE ~Packed
    <3>1. part \in 1 .. Len(msg.ends)
      BY <2>2, <1>2 DEF Counted, Packed
    <3> QED BY <3>1, <1>1, EndsOf DEF Counted, l
  <2> QED BY <2>1, <2>2
<1>4. pageno <= s
  <2> SUFFICES ASSUME pageno - 1 >= s PROVE FALSE
    BY <1>1 DEF Counted
  <2>1. s * BlockSize <= (pageno - 1) * BlockSize
    BY <1>1, ProductMonotone DEF Counted
  <2>2. (pageno - 1) * BlockSize \in Int /\ s * BlockSize \in Int
    BY <1>1 DEF Counted
  <2>3. pos = (pageno - 1) * BlockSize + current
    BY DEF Counted
  <2>4. current = 0 /\ pos = l
    BY <1>1, <1>3, <2>1, <2>2, <2>3 DEF Counted
  <2>5. ~Packed /\ pos < msg.ends[part] /\ part \in 1 .. Len(msg.ends)
    BY <2>4, <1>2 DEF Counted, NewPackage, Packed
  <2> QED BY <2>4, <2>5, <1>1, EndsOf, SMTT(40) DEF l
<1>5. ASSUME Packed PROVE pageno = s /\ ~NewPackage
  <2>1. pos = l /\ current > 0
    BY <1>5 DEF Counted, NewPackage, l
  <2>2. ~(pageno - 1 < s - 1)
    <3> SUFFICES ASSUME pageno <= s - 1 PROVE FALSE
      BY <1>1 DEF Counted
    <3>1. pageno * BlockSize <= (s - 1) * BlockSize
      BY <1>1, ProductMonotone DEF Counted
    <3>2. pageno * BlockSize = (pageno - 1) * BlockSize + BlockSize /\ pageno * BlockSize \in Int
          /\ (pageno - 1) * BlockSize \in Int /\ (s - 1) * BlockSize \in Int
      BY <1>1 DEF Counted
    <3>3. pos = (pageno - 1) * BlockSize + current /\ current <= BlockSize /\ current \in Nat
      BY DEF Counted
    <3> QED BY <1>1, <2>1, <3>1, <3>2, <3>3
  <2> QED BY <1>1, <1>4, <2>1, <2>2 DEF Counted, NewPackage
<1> QED BY <1>4, <1>5 DEF s

LEMMA BodyBytes ==
  ASSUME NEW m \in Messages, NEW from \in Nat, NEW to \in Nat, from <= to
  PROVE  /\ Body(m, from, to) \in Seq(0 .. 255)
         /\ Len(Body(m, from, to)) = to - from
         /\ \A i \in 1 .. to - from : Body(m, from, to)[i] = BodyByte(m, from + i)
<1>1. \A i \in 1 .. to - from : BodyByte(m, from + i) \in 0 .. 255
  <2> TAKE i \in 1 .. to - from
  <2>1. 16 * m.fno + (from + i) \in Int
    BY PackagingAssumption
  <2> QED BY <2>1 DEF BodyByte
<1>2. to - from \in Nat
  OBVIOUS
<1> DEFINE bs == [i \in 1 .. to - from |-> BodyByte(m, from + i)]
<1>3. bs \in [1 .. to - from -> 0 .. 255]
  BY <1>1
<1>4. bs \in Seq(0 .. 255)
  BY <1>1, <1>2, IsASeq
<1>5. Len(bs) = to - from
  BY <1>2
<1> QED BY <1>4, <1>5 DEF Body

(* The first thing toPackages' locals satisfy.                             *)
LEMMA StartInv ==
  ASSUME NEW m \in Messages, StartPackages(m)
  PROVE  PackInv'
<1>1. msg' = m /\ msg' \in Messages
  BY DEF StartPackages
<1>2. Len(m.ends) \in Nat \ {0} /\ m.ends[1] > 0 /\ m.ends[1] \in Nat
  <2>1. m.ends[1] > 0 /\ m.ends \in Seq(Nat) /\ Len(m.ends) \in Nat \ {0}
    BY PackagingAssumption, FullLenPositive
  <2> QED BY <2>1, ElementOfSeq
<1>3. /\ part' = 1 /\ pos' = 0 /\ current' = 0 /\ pageno' = 1
      /\ buffer' = <<>> /\ packages' = <<>> /\ plengths' = <<>>
  BY DEF StartPackages
<1>4. Counted'
  <2>1. (1 - 1) * BlockSize = 0
    BY FrameSize
  <2> QED BY <1>1, <1>2, <1>3, <2>1, FrameSize DEF Counted, Packed, NewPackage
<1>5. Begun' = 0
  BY <1>3 DEF Begun, NewPackage
<1>6. Placed'
  BY <1>3, <1>5 DEF Placed
<1>7. Written'
  BY <1>3, <1>5 DEF Written
<1> QED BY <1>1, <1>4, <1>6, <1>7 DEF PackInv

(* The header, if one is due, and n bytes of the body that fit.            *)
LEMMA WriteInv ==
  ASSUME PackInv, PackageSum(msg) <= BlockMax,
         NEW n \in Nat, current + n <= BlockSize,
         WriteHeader, Write(n), msg' = msg,
         Begun' = pageno
  PROVE  Placed' /\ Written'
<1>1. /\ msg \in Messages /\ pageno \in Nat /\ pageno >= 1 /\ pageno <= PackageSum(msg)
      /\ pos \in Nat /\ current \in Nat /\ pos = (pageno - 1) * BlockSize + current
      /\ buffer \in Seq(0 .. 255)
  BY PagesBound DEF PackInv, Counted, Written
<1> DEFINE h == Len(Head8)
           N == Len(buffer)
           q == pageno - 1
<1>1a. q \in Nat /\ pageno = q + 1 /\ pageno - 1 = q /\ pos = q * BlockSize + current
  BY <1>1
<1> HIDE DEF q
<1>2. /\ Head8 \in Seq(0 .. 255)
      /\ h = IF NewPackage THEN 8 ELSE 0
  <2>1. CASE NewPackage
    <3>1. Header(msg, pageno) \in Seq(0 .. 255) /\ Len(Header(msg, pageno)) = 8
      BY <1>1, HeaderBytes
    <3> QED BY <2>1, <3>1 DEF Head8
  <2>2. CASE ~NewPackage
    BY <2>2 DEF Head8
  <2> QED BY <2>1, <2>2
<1>3. /\ q * Frame \in Int /\ q * BlockSize \in Int /\ q \in Nat
      /\ q * Frame = q * BlockSize + 8 * q
  BY <1>1a, FrameProduct
<1>4. N = IF NewPackage THEN q * Frame ELSE q * Frame + 8 + current
  <2>1. N = pos + 8 * Begun
    BY DEF PackInv, Written
  <2>2. CASE NewPackage
    BY <2>1, <2>2, <1>1, <1>1a, <1>3 DEF Begun, NewPackage
  <2>3. CASE ~NewPackage
    BY <2>1, <2>3, <1>1, <1>1a, <1>3, SMTT(40) DEF Begun
  <2> QED BY <2>2, <2>3
<1>5. N + h = q * Frame + 8 + current /\ N \in Nat /\ h \in Nat
  BY <1>1, <1>2, <1>3, <1>4, LenProperties DEF NewPackage
<1>6. Placed'
  <2>1. CASE NewPackage
    <3>1. DOMAIN packages = 1 .. pageno - 1 /\ DOMAIN plengths = 1 .. pageno - 1
      BY <2>1 DEF PackInv, Placed, Begun
    <3>2. (1 .. pageno - 1) \cup {pageno} = 1 .. pageno
      BY <1>1
    <3>3. /\ packages' = [k \in 1 .. pageno |-> IF k = pageno THEN N + 1 ELSE packages[k]]
          /\ plengths' = [k \in 1 .. pageno |->
                            IF k = pageno THEN MsgLen(msg, pageno) + 8 ELSE plengths[k]]
      BY <2>1, <3>1, <3>2 DEF WriteHeader
    <3>4. \A k \in 1 .. pageno - 1 : packages[k] = (k - 1) * Frame + 1
                                     /\ plengths[k] = MsgLen(msg, k) + 8
      BY <2>1 DEF PackInv, Placed, Begun
    <3>5. N + 1 = (pageno - 1) * Frame + 1
      BY <2>1, <1>1a, <1>4
    <3>6. \A k \in 1 .. pageno : packages'[k] = (k - 1) * Frame + 1
                                 /\ plengths'[k] = MsgLen(msg, k) + 8
      <4> TAKE k \in 1 .. pageno
      <4>1. CASE k = pageno
        BY <4>1, <3>3, <3>5
      <4>2. CASE k # pageno
        <5>1. k \in 1 .. pageno - 1
          BY <4>2, <1>1
        <5>2. packages'[k] = packages[k] /\ plengths'[k] = plengths[k]
          BY <4>2, <3>3
        <5> QED BY <5>1, <5>2, <3>4
      <4> QED BY <4>1, <4>2
    <3>7. DOMAIN packages' = 1 .. pageno /\ DOMAIN plengths' = 1 .. pageno
      BY <3>3
    <3> QED BY <3>6, <3>7 DEF Placed, Frame
  <2>2. CASE ~NewPackage
    BY <2>2 DEF PackInv, Placed, WriteHeader, Begun, Frame
  <2> QED BY <2>1, <2>2
<1>7. Written'
  <2> DEFINE bs == Body(msg, pos, pos + n)
  <2>1. /\ bs \in Seq(0 .. 255) /\ Len(bs) = n
        /\ \A i \in 1 .. n : bs[i] = BodyByte(msg, pos + i)
    <3> DEFINE to == pos + n
    <3>1. to \in Nat /\ pos <= to /\ pos \in Nat
      BY <1>1
    <3>1a. to - pos = n
      BY <1>1
    <3> HIDE DEF to
    <3>2. /\ Body(msg, pos, to) \in Seq(0 .. 255) /\ Len(Body(msg, pos, to)) = to - pos
          /\ \A i \in 1 .. to - pos : Body(msg, pos, to)[i] = BodyByte(msg, pos + i)
      <4>1. msg \in Messages
        BY <1>1
      <4> QED BY <4>1, <3>1, BodyBytes, ZenonT(40)
    <3> QED BY <3>1a, <3>2 DEF to
  <2> HIDE DEF bs
  <2> DEFINE bh == buffer \o Head8
  <2>1a. buffer \in Seq(0 .. 255) /\ Head8 \in Seq(0 .. 255) /\ bs \in Seq(0 .. 255)
    BY <1>1, <1>2, <2>1
  <2>2. /\ bh \in Seq(0 .. 255) /\ Len(bh) = N + h
        /\ \A j \in 1 .. N : bh[j] = buffer[j]
        /\ \A j \in 1 .. h : bh[N + j] = Head8[j]
    BY <2>1a, Joint
  <2>2a. bh \in Seq(0 .. 255)
    BY <2>2
  <2> HIDE DEF bh
  <2>3a. /\ bh \o bs \in Seq(0 .. 255) /\ Len(bh \o bs) = Len(bh) + Len(bs)
         /\ \A j \in 1 .. Len(bh) : (bh \o bs)[j] = bh[j]
         /\ \A j \in 1 .. Len(bs) : (bh \o bs)[Len(bh) + j] = bs[j]
    BY <2>1a, <2>2a, Joint
  <2>3. /\ bh \o bs \in Seq(0 .. 255) /\ Len(bh \o bs) = N + h + n
        /\ \A j \in 1 .. N + h : (bh \o bs)[j] = bh[j]
        /\ \A j \in 1 .. n : (bh \o bs)[N + h + j] = bs[j]
    BY <2>1, <2>2, <2>3a
  <2>4. buffer' = bh \o bs /\ pos' = pos + n
    BY DEF Write, bh, bs
  <2> HIDE DEF N, h
  <2>5. N + h + n = pos' + 8 * Begun'
    <3> DEFINE x == q * Frame
               y == q * BlockSize
    <3>1. /\ x \in Int /\ y \in Int /\ x = y + 8 * q /\ N + h = x + 8 + current
          /\ pos = y + current /\ pos' = pos + n /\ pageno = q + 1 /\ q \in Nat
          /\ current \in Nat /\ pos \in Nat
      BY <2>4, <1>1, <1>1a, <1>3, <1>5
    <3>2. N \in Nat /\ h \in Nat
      BY <1>5
    <3> HIDE DEF x, y
    <3> QED BY <3>1, <3>2
  <2>6. ASSUME NEW j \in 1 .. N + h + n PROVE buffer'[j] = WireByte(msg, j)
    <3>1. CASE j <= N
      <4>1. buffer'[j] = buffer[j]
        BY <3>1, <1>5, <2>2, <2>3, <2>4
      <4> QED BY <3>1, <4>1 DEF PackInv, Written, N
    <3>2. CASE N < j /\ j <= N + h
      <4>1. NewPackage /\ h = 8 /\ N = q * Frame
        BY <3>2, <1>2, <1>4, <1>5 DEF h
      <4>1a. j - N \in 1 .. h /\ N + (j - N) = j /\ j \in 1 .. N + h
        BY <3>2, <1>5
      <4>2. buffer'[j] = Head8[j - N] /\ j - N \in 1 .. 8 /\ j = q * Frame + (j - N)
        <5> DEFINE i == j - N
                   z == q * Frame
        <5>1. i \in 1 .. 8 /\ z + i = j
          BY <4>1, <4>1a
        <5>2. i \in 1 .. h /\ N + i = j /\ j \in 1 .. N + h
          BY <4>1a
        <5> HIDE DEF i, z
        <5>3. buffer'[j] = Head8[i]
          BY <5>2, <2>2, <2>3, <2>4
        <5> QED BY <5>1, <5>3 DEF i, z
      <4>3. WireByte(msg, q * Frame + (j - N)) = Header(msg, q + 1)[j - N]
        BY <4>2, <1>1, <1>1a, WireHeader
      <4>4. Head8 = Header(msg, q + 1)
        BY <4>1, <1>1a DEF Head8
      <4> QED BY <4>2, <4>3, <4>4
    <3>3. CASE N + h < j
      <4> DEFINE i == j - (N + h)
      <4>1. i \in 1 .. n /\ current + i \in 1 .. BlockSize /\ N + h + i = j
        BY <3>3, <1>5, <1>1, FrameSize
      <4>2. buffer'[j] = bs[i]
        BY <3>3, <4>1, <2>3, <2>4
      <4> HIDE DEF i
      <4>3. j = q * Frame + 8 + (current + i)
        <5>1. i \in Int /\ j = N + h + i
          BY <4>1
        <5> DEFINE x == q * Frame
        <5>2. N + h = x + 8 + current /\ x \in Int /\ current \in Nat
          BY <1>5, <1>3, <1>1
        <5>3. N \in Nat /\ h \in Nat
          BY <1>5
        <5> HIDE DEF x
        <5> QED BY <5>1, <5>2, <5>3 DEF x
      <4>4. WireByte(msg, q * Frame + 8 + (current + i)) = BodyByte(msg, q * BlockSize + (current + i))
        BY <4>1, <1>1, <1>1a, WireBody
      <4>5. q * BlockSize + (current + i) = pos + i
        BY <4>1, <1>1, <1>1a, <1>3
      <4> QED BY <4>1, <4>2, <4>3, <4>4, <4>5, <2>1
    <3> QED BY <3>1, <3>2, <3>3, <1>5
  <2>7. Len(buffer') = N + h + n
    BY <2>3, <2>4
  <2> QED BY <2>3, <2>4, <2>5, <2>6, <2>7 DEF Written, WireByte, Frame
<1> QED BY <1>6, <1>7

(* _add_to_body keeps the count, the places and the bytes.                 *)
LEMMA CrossInv ==
  ASSUME PackInv, PackageSum(msg) <= BlockMax, ~Packed, Cross
  PROVE  PackInv'
<1> DEFINE n == BlockSize - current
<1>1. /\ msg \in Messages /\ pageno \in Nat /\ pageno >= 1 /\ pos \in Nat
      /\ current \in Nat /\ current <= BlockSize /\ part \in Nat /\ 1 <= part
      /\ pos = (pageno - 1) * BlockSize + current
      /\ BlockSize \in Nat /\ BlockSize > 0
  BY FrameSize DEF PackInv, Counted
<1>2. part \in 1 .. Len(msg.ends) /\ Len(msg.ends) \in Nat
  BY <1>1, FullLenPositive DEF Packed, PackInv, Counted
<1>3. msg.ends[part] \in Nat /\ pos + n < msg.ends[part]
  <2>1. msg.ends[part] \in Nat
    BY <1>1, <1>2, EndsOf
  <2>2. current + (msg.ends[part] - pos) > BlockSize
    BY DEF Cross, Crosses, Remaining
  <2> QED BY <1>1, <2>1, <2>2
<1>4. n \in Nat /\ current + n <= BlockSize /\ current + n = BlockSize
  BY <1>1
<1> HIDE DEF n
<1>5. /\ msg' = msg /\ part' = part /\ pos' = pos + n /\ current' = 0
      /\ pageno' = pageno + 1 /\ WriteHeader /\ Write(n)
  BY DEF Cross, Write, n
<1>6. Begun' = pageno /\ NewPackage'
  BY <1>1, <1>5 DEF Begun, NewPackage
<1>7. Placed' /\ Written'
  BY <1>4, <1>5, <1>6, WriteInv
<1>8. Counted'
  <2>1. pos' = (pageno' - 1) * BlockSize + current'
    <3> DEFINE q == pageno - 1
    <3>1. q \in Int /\ pageno = q + 1 /\ pos = q * BlockSize + current
      BY <1>1
    <3> HIDE DEF q
    <3>2. (q + 1) * BlockSize = q * BlockSize + BlockSize /\ q * BlockSize \in Int
      BY <1>1, <3>1
    <3>3. pageno' - 1 = q + 1 /\ current' = 0 /\ pos' = pos + n
      BY <1>5, <3>1
    <3> QED BY <1>1, <1>4, <3>1, <3>2, <3>3
  <2>2. ~Packed'
    BY <1>2, <1>5 DEF Packed
  <2>3. pos' < msg'.ends[part'] /\ pos' \in Nat /\ pageno' \in Nat /\ pageno' >= 1
    BY <1>1, <1>3, <1>4, <1>5
  <2> QED BY <1>1, <1>2, <1>5, <2>1, <2>2, <2>3, <1>3 DEF Counted
<1> QED BY <1>1, <1>5, <1>7, <1>8 DEF PackInv

LEMMA FitInv ==
  ASSUME PackInv, PackageSum(msg) <= BlockMax, ~Packed, Fit
  PROVE  PackInv'
<1> DEFINE n == Remaining
<1>1. /\ msg \in Messages /\ pageno \in Nat /\ pageno >= 1 /\ pos \in Nat
      /\ current \in Nat /\ current <= BlockSize /\ part \in Nat /\ 1 <= part
      /\ pos = (pageno - 1) * BlockSize + current
      /\ BlockSize \in Nat /\ BlockSize > 0
  BY FrameSize DEF PackInv, Counted
<1>2. part \in 1 .. Len(msg.ends) /\ Len(msg.ends) \in Nat
  BY <1>1, FullLenPositive DEF Packed, PackInv, Counted
<1>3. msg.ends[part] \in Nat /\ n \in Nat /\ pos + n = msg.ends[part] /\ current + n <= BlockSize
  <2>1. msg.ends[part] \in Nat /\ pos <= msg.ends[part]
    BY <1>1, <1>2, EndsOf DEF PackInv, Counted
  <2>2. ~(current + (msg.ends[part] - pos) > BlockSize)
    BY DEF Fit, Crosses, Remaining
  <2> QED BY <1>1, <2>1, <2>2 DEF Remaining
<1>4. NewPackage => n > 0
  BY <1>1, <1>3 DEF PackInv, Counted
<1>4a. Write(n)
  BY DEF Fit
<1>4b. current' = current + n
  BY DEF Fit
<1> HIDE DEF n
<1>5. /\ msg' = msg /\ part' = part + 1 /\ pos' = pos + n /\ current' = current + n
      /\ pageno' = pageno /\ WriteHeader
  BY <1>4a, <1>4b DEF Fit, Write
<1>6. Begun' = pageno /\ ~NewPackage'
  BY <1>1, <1>3, <1>4, <1>5 DEF Begun, NewPackage
<1>7. Placed' /\ Written'
  BY <1>3, <1>4a, <1>5, <1>6, WriteInv
<1>8. Counted'
  <2>1. pos' = (pageno' - 1) * BlockSize + current'
    <3> DEFINE x == (pageno - 1) * BlockSize
    <3>1. x \in Int /\ pos = x + current
      BY <1>1
    <3> HIDE DEF x
    <3>2. pos' = x + current'
      BY <1>1, <1>3, <1>5, <3>1
    <3> QED BY <1>5, <3>2 DEF x
  <2>2. part' <= Len(msg'.ends) => pos' <= msg'.ends[part']
    <3>1. part < Len(msg.ends) => msg.ends[part] <= msg.ends[part + 1]
      BY <1>1, <1>2, EndsOf
    <3> QED BY <1>1, <1>2, <1>3, <1>5, <3>1, SMTT(40)
  <2>3. Packed' => pos' = FullLen(msg')
    BY <1>1, <1>2, <1>3, <1>5, EndsOf DEF Packed
  <2>4. pos' \in Nat /\ current' \in Nat /\ current' <= BlockSize /\ part' \in Nat
        /\ 1 <= part' /\ part' <= Len(msg'.ends) + 1
    BY <1>1, <1>2, <1>3, <1>5
  <2> QED BY <1>1, <1>5, <1>6, <2>1, <2>2, <2>3, <2>4 DEF Counted
<1> QED BY <1>1, <1>5, <1>7, <1>8 DEF PackInv

(* What toPackages has written when it returns.                            *)
LEMMA PackedIs ==
  ASSUME PackInv, Packed, PackageSum(msg) <= BlockMax
  PROVE  /\ Len(buffer) = WireLength(msg)
         /\ DOMAIN packages = 1 .. PackageSum(msg) /\ DOMAIN plengths = 1 .. PackageSum(msg)
         /\ \A k \in 1 .. PackageSum(msg) : /\ packages[k] = (k - 1) * Frame + 1
                                            /\ plengths[k] = MsgLen(msg, k) + 8
<1>1. Begun = PackageSum(msg) /\ pos = FullLen(msg)
  BY PagesBound DEF PackInv, Begun, Counted
<1> QED BY <1>1 DEF PackInv, Placed, Written, WireLength

(* Where package n of a message lies among all of its bytes.               *)
LEMMA PageEnd ==
  ASSUME NEW m \in Messages, NEW n \in Int, 1 <= n, n <= PackageSum(m)
  PROVE  /\ (n - 1) * Frame \in Nat
         /\ n < PackageSum(m) => (n - 1) * Frame + 8 + MsgLen(m, n) = n * Frame
         /\ n = PackageSum(m) => (n - 1) * Frame + 8 + MsgLen(m, n) = WireLength(m)
         /\ (n - 1) * Frame + 8 + MsgLen(m, n) <= WireLength(m)
         /\ WireLength(m) \in Nat
<1> DEFINE q == n - 1
           s == PackageSum(m)
           l == FullLen(m)
           p == q * BlockSize
<1>1. /\ l \in Nat /\ s \in Nat /\ BlockSize \in Nat /\ BlockSize > 0
      /\ MsgLen(m, n) \in Nat /\ p \in Nat
      /\ n < s => MsgLen(m, n) = BlockSize
      /\ n = s => MsgLen(m, n) = l - p
      /\ p + MsgLen(m, n) <= l
  BY MsgLenIs, PagesSuffice, FullLenPositive, FrameSize
<1>2. q \in Nat /\ n = q + 1 /\ WireLength(m) = l + 8 * s
  BY DEF WireLength
<1> HIDE DEF q, s, l
<1>3. /\ q * Frame = p + 8 * q
      /\ n * Frame = q * Frame + Frame /\ q * Frame \in Int
      /\ Frame = BlockSize + 8
  BY <1>1, <1>2, FrameProduct, FrameSize DEF Frame
<1> HIDE DEF p
<1>4. /\ q * Frame \in Nat
      /\ n < s => q * Frame + 8 + MsgLen(m, n) = n * Frame
      /\ n = s => q * Frame + 8 + MsgLen(m, n) = WireLength(m)
      /\ q * Frame + 8 + MsgLen(m, n) <= WireLength(m)
      /\ WireLength(m) \in Nat
  <2> DEFINE x == q * Frame
             y == n * Frame
  <2>1. x = p + 8 * q /\ y = x + BlockSize + 8 /\ n <= s /\ n \in Int
    BY <1>1, <1>3 DEF s
  <2> HIDE DEF x, y
  <2>2. /\ x \in Nat
        /\ n < s => x + 8 + MsgLen(m, n) = y
        /\ n = s => x + 8 + MsgLen(m, n) = WireLength(m)
        /\ x + 8 + MsgLen(m, n) <= WireLength(m)
        /\ WireLength(m) \in Nat
    BY <1>1, <1>2, <2>1
  <2> QED BY <2>2 DEF x, y
<1> QED BY <1>4 DEF q, s

(* What send() is given for package k: its header, and then its body.      *)
LEMMA PiecesOf ==
  ASSUME PackInv, Packed, PackageSum(msg) <= BlockMax,
         NEW k \in Int, 1 <= k, k <= PackageSum(msg)
  PROVE  LET h == SubSeq(Package(k), 1, 8)
             b == SubSeq(Package(k), 9, plengths[k])
         IN  /\ h \in Seq(0 .. 255) /\ Len(h) = 8
             /\ \A i \in 1 .. 8 : h[i] = WireByte(msg, (k - 1) * Frame + i)
             /\ b \in Seq(0 .. 255) /\ Len(b) = MsgLen(msg, k)
             /\ \A i \in 1 .. MsgLen(msg, k) : b[i] = WireByte(msg, (k - 1) * Frame + 8 + i)
<1> DEFINE x == (k - 1) * Frame
           l == MsgLen(msg, k)
           p == Package(k)
<1>1. /\ packages[k] = x + 1 /\ plengths[k] = l + 8 /\ Len(buffer) = WireLength(msg)
  BY PackedIs
<1>2. x \in Nat /\ l \in Nat /\ l >= 1 /\ x + 8 + l <= WireLength(msg) /\ WireLength(msg) \in Nat
  <2>1. msg \in Messages
    BY DEF PackInv
  <2> QED BY <2>1, PageEnd, MsgLenIs
<1>3. buffer \in Seq(0 .. 255) /\ \A j \in 1 .. WireLength(msg) : buffer[j] = WireByte(msg, j)
  BY <1>1 DEF PackInv, Written
<1>4. p = SubSeq(buffer, x + 1, x + 8 + l)
  <2>1. packages[k] + plengths[k] - 1 = x + 8 + l
    BY <1>1, <1>2
  <2> QED BY <1>1, <2>1 DEF Package
<1> HIDE DEF x, l, p
<1>5. buffer \in Seq(0 .. 255) /\ 8 + l \in Nat /\ x + (8 + l) <= Len(buffer) /\ x + 8 + l = x + (8 + l)
  BY <1>1, <1>2, <1>3
<1>6a. /\ p \in Seq(0 .. 255) /\ Len(p) = 8 + l
       /\ \A i \in 1 .. 8 + l : p[i] = buffer[x + i]
  <2> DEFINE n == 8 + l
  <2>1. buffer \in Seq(0 .. 255) /\ n \in Nat /\ x \in Nat /\ x + n <= Len(buffer)
    BY <1>2, <1>5
  <2>2. p = SubSeq(buffer, x + 1, x + n)
    BY <1>4, <1>5
  <2> HIDE DEF n
  <2>3. /\ SubSeq(buffer, x + 1, x + n) \in Seq(0 .. 255) /\ Len(SubSeq(buffer, x + 1, x + n)) = n
        /\ \A i \in 1 .. n : SubSeq(buffer, x + 1, x + n)[i] = buffer[x + i]
    BY <2>1, Slice, ZenonT(60)
  <2> QED BY <2>2, <2>3 DEF n
<1>6. \A i \in 1 .. 8 + l : p[i] = WireByte(msg, x + i)
  BY <1>2, <1>3, <1>6a
<1> DEFINE h == SubSeq(p, 1, 8)
           b == SubSeq(p, 9, 8 + l)
<1>8. h \in Seq(0 .. 255) /\ Len(h) = 8 /\ \A i \in 1 .. 8 : h[i] = p[i]
  <2>1. 8 <= Len(p) /\ 8 \in Nat /\ p \in Seq(0 .. 255)
    BY <1>2, <1>6a
  <2> QED BY <2>1, Prefix
<1>9. b \in Seq(0 .. 255) /\ Len(b) = l /\ \A i \in 1 .. l : b[i] = p[8 + i]
  <2>1. 8 + l <= Len(p) /\ 8 \in Nat /\ l \in Nat /\ p \in Seq(0 .. 255)
    BY <1>2, <1>6a
  <2>2. /\ SubSeq(p, 8 + 1, 8 + l) \in Seq(0 .. 255) /\ Len(SubSeq(p, 8 + 1, 8 + l)) = l
        /\ \A i \in 1 .. l : SubSeq(p, 8 + 1, 8 + l)[i] = p[8 + i]
    <3> DEFINE e == 8
    <3>1. e + l <= Len(p) /\ e \in Nat /\ l \in Nat /\ p \in Seq(0 .. 255)
      BY <2>1
    <3> HIDE DEF e
    <3>2. /\ SubSeq(p, e + 1, e + l) \in Seq(0 .. 255) /\ Len(SubSeq(p, e + 1, e + l)) = l
          /\ \A i \in 1 .. l : SubSeq(p, e + 1, e + l)[i] = p[e + i]
      BY <3>1, Slice, ZenonT(60)
    <3> QED BY <3>2 DEF e
  <2>3. SubSeq(p, 8 + 1, 8 + l) = b
    OBVIOUS
  <2> QED BY <2>2, <2>3
<1>10. b = SubSeq(Package(k), 9, plengths[k]) /\ h = SubSeq(Package(k), 1, 8)
  <2>1. plengths[k] = 8 + l
    BY <1>1, <1>2
  <2> QED BY <2>1 DEF p
<1> HIDE DEF h, b
<1>11. \A i \in 1 .. 8 : h[i] = WireByte(msg, x + i)
  <2> TAKE i \in 1 .. 8
  <2>1. i \in 1 .. 8 + l
    BY <1>2
  <2> QED BY <1>6, <1>8, <2>1
<1>12. \A i \in 1 .. l : b[i] = WireByte(msg, x + 8 + i)
  <2> TAKE i \in 1 .. l
  <2>1. 8 + i \in 1 .. 8 + l /\ x + (8 + i) = x + 8 + i
    BY <1>2
  <2> QED BY <1>6, <1>9, <2>1
<1>13. x = (k - 1) * Frame /\ l = MsgLen(msg, k)
  BY DEF x, l
<1> QED BY <1>8, <1>9, <1>10, <1>11, <1>12, <1>13

-----------------------------------------------------------------------------
(* The stream.                                                             *)

Byte == 0 .. 255

(* Of all the bytes T ever written, at are read, those up to cuts[1] are   *)
(* in the reader's socket, and the pieces in flight end at the later cuts. *)
Carries(T, at, cuts, arr, fl) ==
  /\ T \in Seq(Byte) /\ at \in Nat
  /\ cuts \in Seq(Nat) /\ Len(cuts) = Len(fl) + 1
  /\ cuts[1] = at + Len(arr) /\ cuts[Len(fl) + 1] = Len(T)
  /\ \A i \in 1 .. Len(fl) + 1 : cuts[i] <= Len(T)
  /\ \A j \in 1 .. Len(arr) : arr[j] = T[at + j]
  /\ \A i \in 1 .. Len(fl) :
       /\ cuts[i + 1] = cuts[i] + Len(fl[i])
       /\ \A j \in 1 .. Len(fl[i]) : fl[i][j] = T[cuts[i] + j]

(* A piece is written.                                                     *)
LEMMA CarriesSend ==
  ASSUME NEW T, NEW at, NEW cuts, NEW arr \in Seq(Byte), NEW fl \in Seq(Seq(Byte)),
         Carries(T, at, cuts, arr, fl), NEW piece \in Seq(Byte)
  PROVE  Carries(T \o piece, at, Append(cuts, Len(T \o piece)), arr, Append(fl, piece))
<1> DEFINE T2 == T \o piece
           fl2 == Append(fl, piece)
           n == Len(fl)
<1>1. /\ T \in Seq(Byte) /\ at \in Nat /\ cuts \in Seq(Nat) /\ Len(cuts) = n + 1
      /\ cuts[1] = at + Len(arr) /\ cuts[n + 1] = Len(T)
      /\ \A i \in 1 .. n + 1 : cuts[i] <= Len(T)
      /\ \A j \in 1 .. Len(arr) : arr[j] = T[at + j]
      /\ \A i \in 1 .. n : /\ cuts[i + 1] = cuts[i] + Len(fl[i])
                           /\ \A j \in 1 .. Len(fl[i]) : fl[i][j] = T[cuts[i] + j]
  BY DEF Carries
<1>2. n \in Nat /\ Len(T) \in Nat /\ Len(piece) \in Nat /\ Len(arr) \in Nat
  BY <1>1, LenProperties
<1>2a. T \in Seq(Byte)
  BY <1>1
<1>3. /\ T2 \in Seq(Byte) /\ Len(T2) = Len(T) + Len(piece)
      /\ \A i \in 1 .. Len(T) : T2[i] = T[i]
      /\ \A i \in 1 .. Len(piece) : T2[Len(T) + i] = piece[i]
  BY <1>2a, Joint
<1>3a. Len(T2) \in Nat
  BY <1>2, <1>3
<1> HIDE DEF T2
<1> DEFINE cuts2 == Append(cuts, Len(T2))
<1>4. /\ cuts2 \in Seq(Nat) /\ Len(cuts2) = Len(cuts) + 1
      /\ \A i \in 1 .. Len(cuts) : cuts2[i] = cuts[i]
      /\ cuts2[Len(cuts) + 1] = Len(T2)
  <2>1. cuts \in Seq(Nat)
    BY <1>1
  <2> QED BY <2>1, <1>3a, AppendProperties
<1>5. /\ fl2 \in Seq(Seq(Byte)) /\ Len(fl2) = n + 1
      /\ \A i \in 1 .. n : fl2[i] = fl[i]
      /\ fl2[n + 1] = piece
  BY AppendProperties
<1> HIDE DEF cuts2, fl2
<1>6. /\ Len(cuts2) = Len(fl2) + 1 /\ cuts2[1] = at + Len(arr) /\ cuts2[Len(fl2) + 1] = Len(T2)
      /\ \A i \in 1 .. n + 1 : cuts2[i] = cuts[i]
  <2>1. 1 \in 1 .. Len(cuts) /\ Len(cuts) + 1 = Len(fl2) + 1
    BY <1>1, <1>2, <1>5
  <2> QED BY <2>1, <1>1, <1>2, <1>4, <1>5
<1>7. \A i \in 1 .. Len(fl2) + 1 : cuts2[i] <= Len(T2)
  <2> TAKE i \in 1 .. Len(fl2) + 1
  <2>1. CASE i = n + 2
    BY <2>1, <1>2, <1>3a, <1>5, <1>6
  <2>2. CASE i \in 1 .. n + 1
    <3>1. cuts2[i] <= Len(T)
      BY <2>2, <1>1, <1>6
    <3>2. cuts2[i] \in Nat
      BY <2>2, <1>4, <1>6, <1>1, <1>2, ElementOfSeq
    <3> QED BY <3>1, <3>2, <1>2, <1>3
  <2> QED BY <2>1, <2>2, <1>2, <1>5
<1>8. \A j \in 1 .. Len(arr) : arr[j] = T2[at + j]
  <2> TAKE j \in 1 .. Len(arr)
  <2>1. cuts[1] <= Len(T)
    BY <1>1, <1>2
  <2>2. at + j \in 1 .. Len(T)
    BY <2>1, <1>1, <1>2
  <2> QED BY <2>2, <1>1, <1>3
<1>9. ASSUME NEW i \in 1 .. Len(fl2)
      PROVE  /\ cuts2[i + 1] = cuts2[i] + Len(fl2[i])
             /\ \A j \in 1 .. Len(fl2[i]) : fl2[i][j] = T2[cuts2[i] + j]
  <2>1. CASE i = n + 1
    <3>1. cuts2[i] = Len(T) /\ cuts2[i + 1] = Len(T2) /\ fl2[i] = piece
      BY <2>1, <1>1, <1>2, <1>5, <1>6
    <3> QED BY <3>1, <1>3
  <2>2. CASE i \in 1 .. n
    <3>1. cuts2[i] = cuts[i] /\ cuts2[i + 1] = cuts[i + 1] /\ fl2[i] = fl[i]
      <4>1. i \in 1 .. n + 1 /\ i + 1 \in 1 .. n + 1
        BY <2>2, <1>2
      <4> QED BY <4>1, <2>2, <1>5, <1>6
    <3>2. cuts[i + 1] <= Len(T) /\ cuts[i + 1] = cuts[i] + Len(fl[i])
      BY <2>2, <1>1, <1>2
    <3>3. cuts[i] \in Nat /\ Len(fl[i]) \in Nat
      <4>1. i \in 1 .. Len(cuts)
        BY <2>2, <1>1, <1>2
      <4>2. fl[i] \in Seq(Byte)
        BY <2>2, ElementOfSeq
      <4> QED BY <4>1, <4>2, <1>1, ElementOfSeq, LenProperties
    <3>4. \A j \in 1 .. Len(fl[i]) : fl[i][j] = T2[cuts[i] + j]
      <4> TAKE j \in 1 .. Len(fl[i])
      <4>1. cuts[i] + j \in 1 .. Len(T)
        <5> DEFINE c == cuts[i]
                   e == cuts[i + 1]
                   g == Len(fl[i])
        <5>1. c \in Nat /\ g \in Nat /\ e = c + g /\ e <= Len(T) /\ j \in 1 .. g /\ Len(T) \in Nat
          BY <3>2, <3>3, <1>2
        <5> HIDE DEF c, e, g
        <5>2. c + j \in 1 .. Len(T)
          BY <5>1
        <5> QED BY <5>2 DEF c
      <4> QED BY <4>1, <2>2, <1>1, <1>3
    <3> QED BY <3>1, <3>2, <3>4
  <2> QED BY <2>1, <2>2, <1>2, <1>5
<1>10. Carries(T2, at, cuts2, arr, fl2)
  BY <1>1, <1>3, <1>4, <1>6, <1>7, <1>8, <1>9 DEF Carries
<1> QED BY <1>10 DEF T2, cuts2, fl2

(* The reader takes n bytes.                                               *)
LEMMA CarriesTake ==
  ASSUME NEW T, NEW at, NEW cuts, NEW arr \in Seq(Byte), NEW fl \in Seq(Seq(Byte)),
         Carries(T, at, cuts, arr, fl), NEW n \in Nat, n <= Len(arr)
  PROVE  /\ SubSeq(arr, n + 1, Len(arr)) \in Seq(Byte)
         /\ Carries(T, at + n, cuts, SubSeq(arr, n + 1, Len(arr)), fl)
         /\ at + Len(arr) <= Len(T)
<1> DEFINE k == Len(arr) - n
           r == SubSeq(arr, n + 1, Len(arr))
<1>1. /\ T \in Seq(Byte) /\ at \in Nat /\ cuts \in Seq(Nat) /\ Len(cuts) = Len(fl) + 1
      /\ cuts[1] = at + Len(arr) /\ cuts[Len(fl) + 1] = Len(T)
      /\ \A i \in 1 .. Len(fl) + 1 : cuts[i] <= Len(T)
      /\ \A j \in 1 .. Len(arr) : arr[j] = T[at + j]
      /\ \A i \in 1 .. Len(fl) : /\ cuts[i + 1] = cuts[i] + Len(fl[i])
                                 /\ \A j \in 1 .. Len(fl[i]) : fl[i][j] = T[cuts[i] + j]
  BY DEF Carries
<1>2. k \in Nat /\ n + k = Len(arr) /\ Len(arr) \in Nat /\ Len(fl) \in Nat
  BY LenProperties
<1>2a. k \in Nat /\ n + k <= Len(arr) /\ r = SubSeq(arr, n + 1, n + k)
  BY <1>2
<1> HIDE DEF k, r
<1>3. /\ SubSeq(arr, n + 1, n + k) \in Seq(Byte) /\ Len(SubSeq(arr, n + 1, n + k)) = k
      /\ \A i \in 1 .. k : SubSeq(arr, n + 1, n + k)[i] = arr[n + i]
  BY <1>2a, Slice
<1>4. r \in Seq(Byte) /\ Len(r) = k /\ \A i \in 1 .. k : r[i] = arr[n + i]
  BY <1>2a, <1>3
<1>5. \A j \in 1 .. Len(r) : r[j] = T[(at + n) + j]
  <2> TAKE j \in 1 .. Len(r)
  <2>1. n + j \in 1 .. Len(arr) /\ at + (n + j) = (at + n) + j /\ j \in 1 .. k
    BY <1>1, <1>2, <1>4, SMTT(40)
  <2> QED BY <2>1, <1>1, <1>4
<1>6. cuts[1] = (at + n) + Len(r) /\ at + n \in Nat
  <2>1. Len(r) = k
    BY <1>4
  <2>2. cuts[1] = at + Len(arr) /\ at \in Nat
    BY <1>1
  <2>3. at + Len(arr) = (at + n) + k
    BY <1>2, <2>2
  <2> QED BY <2>1, <2>2, <2>3
<1>7. Carries(T, at + n, cuts, r, fl)
  BY <1>1, <1>5, <1>6 DEF Carries
<1>8. at + Len(arr) <= Len(T)
  BY <1>1, <1>2
<1> QED BY <1>4, <1>7, <1>8 DEF r

(* A whole piece arrives, or its first k bytes.                            *)
LEMMA CarriesWhole ==
  ASSUME NEW T, NEW at, NEW cuts, NEW arr \in Seq(Byte), NEW fl \in Seq(Seq(Byte)),
         Carries(T, at, cuts, arr, fl), fl # <<>>
  PROVE  /\ Carries(T, at, Tail(cuts), arr \o Head(fl), Tail(fl))
         /\ arr \o Head(fl) \in Seq(Byte) /\ Tail(fl) \in Seq(Seq(Byte))
         /\ Len(Tail(cuts)) = Len(cuts) - 1
         /\ \A i \in 1 .. Len(cuts) - 1 : Tail(cuts)[i] = cuts[i + 1]
<1> DEFINE n == Len(fl)
           a2 == arr \o Head(fl)
           c2 == Tail(cuts)
           f2 == Tail(fl)
<1>1. /\ T \in Seq(Byte) /\ at \in Nat /\ cuts \in Seq(Nat) /\ Len(cuts) = n + 1
      /\ cuts[1] = at + Len(arr) /\ cuts[n + 1] = Len(T)
      /\ \A i \in 1 .. n + 1 : cuts[i] <= Len(T)
      /\ \A j \in 1 .. Len(arr) : arr[j] = T[at + j]
      /\ \A i \in 1 .. n : /\ cuts[i + 1] = cuts[i] + Len(fl[i])
                           /\ \A j \in 1 .. Len(fl[i]) : fl[i][j] = T[cuts[i] + j]
  BY DEF Carries
<1>1a. cuts \in Seq(Nat)
  BY <1>1
<1>2. n \in Nat /\ n >= 1 /\ Len(arr) \in Nat
  BY EmptySeq, LenProperties
<1>3. Head(fl) = fl[1] /\ fl[1] \in Seq(Byte)
  <2>1. 1 \in 1 .. n
    BY <1>2
  <2> QED BY <2>1, ElementOfSeq
<1>4. /\ f2 \in Seq(Seq(Byte)) /\ Len(f2) = n - 1 /\ \A i \in 1 .. Len(f2) : f2[i] = fl[i + 1]
  BY HeadTailProperties
<1>5. /\ c2 \in Seq(Nat) /\ Len(c2) = Len(cuts) - 1 /\ \A i \in 1 .. Len(c2) : c2[i] = cuts[i + 1]
  <2>1. cuts # <<>>
    BY <1>1, <1>2, EmptySeq
  <2> QED BY <1>1a, <2>1, HeadTailProperties
<1>6. /\ a2 \in Seq(Byte) /\ Len(a2) = Len(arr) + Len(fl[1])
      /\ \A i \in 1 .. Len(arr) : a2[i] = arr[i]
      /\ \A i \in 1 .. Len(fl[1]) : a2[Len(arr) + i] = fl[1][i]
  BY <1>3, Joint
<1> HIDE DEF a2, c2, f2, n
<1>7. Len(c2) = Len(f2) + 1 /\ Len(c2) = n
  BY <1>1, <1>2, <1>4, <1>5
<1>8. \A i \in 1 .. n : c2[i] = cuts[i + 1]
  BY <1>5, <1>7
<1>9. c2[1] = at + Len(a2) /\ c2[Len(f2) + 1] = Len(T)
  <2>1. c2[1] = cuts[1 + 1] /\ cuts[1 + 1] = cuts[1] + Len(fl[1])
    BY <1>1, <1>2, <1>8
  <2>2. cuts[1] = at + Len(arr) /\ Len(fl[1]) \in Nat /\ at \in Nat
    BY <1>1, <1>3, LenProperties
  <2>3. at + Len(a2) = (at + Len(arr)) + Len(fl[1])
    <3> DEFINE x == Len(fl[1])
               y == Len(a2)
               z == Len(arr)
    <3>1. x \in Nat /\ z \in Nat /\ y = z + x /\ at \in Nat
      BY <1>2, <1>6, <2>2
    <3> HIDE DEF x, y, z
    <3>2. at + y = (at + z) + x
      BY <3>1
    <3> QED BY <3>2 DEF x, y, z
  <2>4. c2[n] = cuts[n + 1] /\ Len(f2) + 1 = n
    BY <1>1, <1>2, <1>7, <1>8
  <2> QED BY <2>1, <2>2, <2>3, <2>4, <1>1
<1>10. \A i \in 1 .. Len(f2) + 1 : c2[i] <= Len(T)
  <2> TAKE i \in 1 .. Len(f2) + 1
  <2>1. i \in 1 .. n /\ i + 1 \in 1 .. n + 1
    BY <1>2, <1>7
  <2> QED BY <2>1, <1>1, <1>8
<1>11. \A j \in 1 .. Len(a2) : a2[j] = T[at + j]
  <2> TAKE j \in 1 .. Len(a2)
  <2>1. CASE j \in 1 .. Len(arr)
    BY <2>1, <1>1, <1>6
  <2>2. CASE j > Len(arr)
    <3> DEFINE i == j - Len(arr)
    <3>0. Len(fl[1]) \in Nat
      BY <1>3, LenProperties
    <3>1. i \in 1 .. Len(fl[1]) /\ j = Len(arr) + i
      BY <2>2, <1>2, <1>6, <3>0
    <3> HIDE DEF i
    <3>1a. 1 \in 1 .. n
      BY <1>2
    <3>2a. fl[1][i] = T[cuts[1] + i]
      BY <3>1, <3>1a, <1>1
    <3>2b. a2[Len(arr) + i] = fl[1][i]
      BY <3>1, <1>6
    <3>2. a2[j] = fl[1][i] /\ fl[1][i] = T[cuts[1] + i]
      BY <3>1, <3>2a, <3>2b
    <3>3. cuts[1] + i = at + j
      BY <3>1, <1>1, <1>2
    <3> QED BY <3>2, <3>3
  <2> QED BY <2>1, <2>2, <1>2
<1>12. ASSUME NEW i \in 1 .. Len(f2)
       PROVE  /\ c2[i + 1] = c2[i] + Len(f2[i])
              /\ \A j \in 1 .. Len(f2[i]) : f2[i][j] = T[c2[i] + j]
  <2>1. i \in 1 .. n /\ i + 1 \in 1 .. n /\ f2[i] = fl[i + 1]
    BY <1>2, <1>4, <1>7
  <2>2. c2[i] = cuts[i + 1] /\ c2[i + 1] = cuts[(i + 1) + 1]
    BY <2>1, <1>8
  <2> QED BY <2>1, <2>2, <1>1
<1>13. Carries(T, at, c2, a2, f2)
  BY <1>1, <1>5, <1>7, <1>9, <1>10, <1>11, <1>12 DEF Carries
<1>14. \A i \in 1 .. Len(cuts) - 1 : c2[i] = cuts[i + 1]
  BY <1>5
<1> QED BY <1>4, <1>5, <1>6, <1>13, <1>14 DEF a2, c2, f2

LEMMA CarriesPart ==
  ASSUME NEW T, NEW at, NEW cuts, NEW arr \in Seq(Byte), NEW fl \in Seq(Seq(Byte)),
         Carries(T, at, cuts, arr, fl), fl # <<>>,
         NEW k \in Nat, k < Len(Head(fl))
  PROVE  LET a2 == arr \o SubSeq(Head(fl), 1, k)
             f2 == <<SubSeq(Head(fl), k + 1, Len(Head(fl)))>> \o Tail(fl)
         IN  /\ Carries(T, at, [cuts EXCEPT ![1] = cuts[1] + k], a2, f2)
             /\ a2 \in Seq(Byte) /\ f2 \in Seq(Seq(Byte))
<1> DEFINE n == Len(fl)
           p == Head(fl)
           h == SubSeq(p, 1, k)
           r == SubSeq(p, k + 1, Len(p))
           a2 == arr \o h
           c2 == [cuts EXCEPT ![1] = cuts[1] + k]
           f2 == <<r>> \o Tail(fl)
<1>1. /\ T \in Seq(Byte) /\ at \in Nat /\ cuts \in Seq(Nat) /\ Len(cuts) = n + 1
      /\ cuts[1] = at + Len(arr) /\ cuts[n + 1] = Len(T)
      /\ \A i \in 1 .. n + 1 : cuts[i] <= Len(T)
      /\ \A j \in 1 .. Len(arr) : arr[j] = T[at + j]
      /\ \A i \in 1 .. n : /\ cuts[i + 1] = cuts[i] + Len(fl[i])
                           /\ \A j \in 1 .. Len(fl[i]) : fl[i][j] = T[cuts[i] + j]
  BY DEF Carries
<1>2. n \in Nat /\ n >= 1 /\ Len(arr) \in Nat
  BY EmptySeq, LenProperties
<1>3. p = fl[1] /\ p \in Seq(Byte) /\ Len(p) \in Nat
  <2>1. 1 \in 1 .. n
    BY <1>2
  <2> QED BY <2>1, ElementOfSeq, LenProperties
<1>3a. p \in Seq(Byte) /\ k <= Len(p)
  BY <1>3
<1> HIDE DEF p
<1>4. h \in Seq(Byte) /\ Len(h) = k /\ \A i \in 1 .. k : h[i] = p[i]
  BY <1>3a, Prefix
<1>5. r \in Seq(Byte) /\ Len(r) = Len(p) - k /\ \A i \in 1 .. Len(p) - k : r[i] = p[k + i]
  <2> DEFINE e == Len(p) - k
  <2>1. e \in Nat /\ k + e <= Len(p) /\ p \in Seq(Byte)
    BY <1>3
  <2>2. r = SubSeq(p, k + 1, k + e)
    BY <1>3
  <2> HIDE DEF e, r
  <2>3. /\ SubSeq(p, k + 1, k + e) \in Seq(Byte) /\ Len(SubSeq(p, k + 1, k + e)) = e
        /\ \A i \in 1 .. e : SubSeq(p, k + 1, k + e)[i] = p[k + i]
    BY <2>1, Slice
  <2> QED BY <2>2, <2>3 DEF e
<1>4a. h \in Seq(Byte) /\ r \in Seq(Byte)
  BY <1>4, <1>5
<1> HIDE DEF h, r
<1>6. a2 \in Seq(Byte) /\ Len(a2) = Len(arr) + Len(h)
      /\ (\A i \in 1 .. Len(arr) : a2[i] = arr[i])
      /\ (\A i \in 1 .. Len(h) : a2[Len(arr) + i] = h[i])
  BY <1>4a, Joint
<1>7. c2 \in Seq(Nat) /\ Len(c2) = n + 1 /\ c2[1] = cuts[1] + k
      /\ \A i \in 2 .. n + 1 : c2[i] = cuts[i]
  <2>1. cuts \in Seq(Nat) /\ 1 \in 1 .. Len(cuts)
    BY <1>1, <1>2
  <2>2. cuts[1] + k \in Nat
    BY <2>1, ElementOfSeq
  <2>3. /\ c2 \in Seq(Nat) /\ Len(c2) = Len(cuts)
        /\ \A j \in 1 .. Len(cuts) : c2[j] = IF j = 1 THEN cuts[1] + k ELSE cuts[j]
    BY <2>1, <2>2, ExceptSeq
  <2> HIDE DEF c2
  <2>4. \A i \in 2 .. n + 1 : i \in 1 .. Len(cuts) /\ i # 1
    BY <1>1, <1>2
  <2> QED BY <1>1, <2>1, <2>3, <2>4
<1>8. /\ f2 \in Seq(Seq(Byte)) /\ Len(f2) = n /\ f2[1] = r
      /\ \A i \in 2 .. n : f2[i] = fl[i]
  <2>1. Tail(fl) \in Seq(Seq(Byte)) /\ Len(Tail(fl)) = n - 1
        /\ \A i \in 1 .. Len(Tail(fl)) : Tail(fl)[i] = fl[i + 1]
    BY HeadTailProperties
  <2>2. <<r>> \in Seq(Seq(Byte)) /\ Len(<<r>>) = 1 /\ <<r>>[1] = r
    BY <1>4a
  <2> DEFINE u == <<r>>
             t == Tail(fl)
  <2>3. u \in Seq(Seq(Byte)) /\ t \in Seq(Seq(Byte))
    BY <2>1, <2>2
  <2>3a. Len(u) = 1 /\ u[1] = r /\ Len(t) = n - 1 /\ \A i \in 1 .. Len(t) : t[i] = fl[i + 1]
    BY <2>1, <2>2
  <2> HIDE DEF u, t
  <2>4. /\ u \o t \in Seq(Seq(Byte)) /\ Len(u \o t) = Len(u) + Len(t)
        /\ \A i \in 1 .. Len(u) : (u \o t)[i] = u[i]
        /\ \A i \in 1 .. Len(t) : (u \o t)[Len(u) + i] = t[i]
    BY <2>3, Joint
  <2>4a. f2 = u \o t
    BY DEF u, t
  <2> HIDE DEF f2
  <2>5. f2 \in Seq(Seq(Byte)) /\ Len(f2) = n /\ f2[1] = r
    BY <1>2, <2>3a, <2>4, <2>4a
  <2>6. ASSUME NEW i \in 2 .. n PROVE f2[i] = fl[i]
    <3>1. i - 1 \in 1 .. Len(t) /\ Len(u) + (i - 1) = i /\ (i - 1) + 1 = i
      BY <1>2, <2>3a
    <3> QED BY <3>1, <2>3a, <2>4, <2>4a
  <2> QED BY <2>5, <2>6
<1> HIDE DEF a2, c2, f2, n
<1>9. cuts[1 + 1] = cuts[1] + Len(p) /\ cuts[1] \in Nat
      /\ \A j \in 1 .. Len(p) : p[j] = T[cuts[1] + j]
  <2>1. 1 \in 1 .. n /\ 1 \in 1 .. Len(cuts)
    BY <1>1, <1>2
  <2> QED BY <2>1, <1>1, <1>3, ElementOfSeq
<1>10. c2[1] = at + Len(a2) /\ c2[Len(f2) + 1] = Len(T) /\ Len(c2) = Len(f2) + 1
  <2>1. c2[n + 1] = cuts[n + 1]
    BY <1>2, <1>7
  <2>2. at + Len(a2) = (at + Len(arr)) + k /\ cuts[1] = at + Len(arr)
    BY <1>1, <1>2, <1>4, <1>6
  <2> QED BY <2>1, <2>2, <1>1, <1>7, <1>8
<1>11. \A i \in 1 .. Len(f2) + 1 : c2[i] <= Len(T)
  <2> TAKE i \in 1 .. Len(f2) + 1
  <2>1. CASE i = 1
    <3>1. cuts[1 + 1] <= Len(T) /\ Len(T) \in Nat
      BY <1>1, <1>2, LenProperties
    <3>2. c2[i] = cuts[1] + k
      BY <2>1, <1>7
    <3> QED BY <3>1, <3>2, <1>3, <1>9
  <2>2. CASE i \in 2 .. n + 1
    BY <2>2, <1>1, <1>2, <1>7
  <2> QED BY <2>1, <2>2, <1>2, <1>8
<1>12. \A j \in 1 .. Len(a2) : a2[j] = T[at + j]
  <2> TAKE j \in 1 .. Len(a2)
  <2>1. CASE j \in 1 .. Len(arr)
    BY <2>1, <1>1, <1>6
  <2>2. CASE j > Len(arr)
    <3> DEFINE i == j - Len(arr)
    <3>1. i \in 1 .. k /\ i \in 1 .. Len(p) /\ j = Len(arr) + i
      BY <2>2, <1>2, <1>3, <1>4, <1>6
    <3> HIDE DEF i
    <3>2. a2[j] = h[i] /\ h[i] = p[i] /\ p[i] = T[cuts[1] + i]
      BY <3>1, <1>4, <1>6, <1>9
    <3>3. cuts[1] + i = at + j
      BY <3>1, <1>1, <1>2
    <3> QED BY <3>2, <3>3
  <2> QED BY <2>1, <2>2, <1>2
<1>13. ASSUME NEW i \in 1 .. Len(f2)
       PROVE  /\ c2[i + 1] = c2[i] + Len(f2[i])
              /\ \A j \in 1 .. Len(f2[i]) : f2[i][j] = T[c2[i] + j]
  <2>1. CASE i = 1
    <3>1. c2[1 + 1] = cuts[1 + 1] /\ c2[1] = cuts[1] + k /\ f2[1] = r
      BY <1>2, <1>7, <1>8
    <3>2. cuts[1 + 1] = (cuts[1] + k) + Len(r)
      <4> DEFINE x == cuts[1]
                 y == cuts[1 + 1]
      <4>1. x \in Nat /\ y = x + Len(p) /\ Len(p) \in Nat /\ Len(r) = Len(p) - k
        BY <1>3, <1>5, <1>9
      <4> HIDE DEF x, y
      <4>2. y = (x + k) + Len(r)
        BY <4>1
      <4> QED BY <4>2 DEF x, y
    <3>3. ASSUME NEW j \in 1 .. Len(r) PROVE r[j] = T[(cuts[1] + k) + j]
      <4>1. k + j \in 1 .. Len(p) /\ j \in 1 .. Len(p) - k
        BY <1>3, <1>5
      <4>2. cuts[1] + (k + j) = (cuts[1] + k) + j
        BY <1>9
      <4> QED BY <4>1, <4>2, <1>5, <1>9
    <3> QED BY <2>1, <3>1, <3>2, <3>3
  <2>2. CASE i \in 2 .. n
    <3>1. c2[i] = cuts[i] /\ c2[i + 1] = cuts[i + 1] /\ f2[i] = fl[i]
      <4>1. i \in 2 .. n + 1 /\ i + 1 \in 2 .. n + 1
        BY <2>2, <1>2
      <4> QED BY <4>1, <2>2, <1>7, <1>8
    <3>2. i \in 1 .. n
      BY <2>2, <1>2
    <3> QED BY <3>1, <3>2, <1>1
  <2> QED BY <2>1, <2>2, <1>2, <1>8
<1>14. Carries(T, at, c2, a2, f2)
  BY <1>1, <1>7, <1>10, <1>11, <1>12, <1>13 DEF Carries
<1> QED BY <1>6, <1>8, <1>14 DEF a2, c2, f2, h, r, p

-----------------------------------------------------------------------------
(* Types, and what the sender has made of its message.                     *)

LEMMA GetNat ==
  ASSUME NEW a \in Byte, NEW b \in Byte
  PROVE  Get(a, b) \in Nat
<1> DEFINE n == (256 * Char(a) + Char(b)) % 65536
<1>1. a \in Int /\ b \in Int
  BY DEF Byte
<1>2. 256 * Char(a) + Char(b) \in Int
  BY <1>1 DEF Char
<1>3. n \in Nat
  BY <1>2
<1> HIDE DEF n
<1>4. Hi(n) \in Nat /\ Lo(n) \in Nat
  BY <1>3 DEF Hi, Lo
<1>5. Swap(n) \in Nat
  BY <1>4 DEF Swap
<1> QED BY <1>5 DEF Get, n

LEMMA MinOfTwo ==
  ASSUME NEW a \in Nat, NEW b \in Nat
  PROVE  /\ a <= b => Min({a, b}) = a
         /\ b <= a => Min({a, b}) = b
<1>1. ASSUME NEW c \in {a, b}, \A y \in {a, b} : c <= y
      PROVE  Min({a, b}) = c
  <2>1. \A d \in {a, b} : (\A y \in {a, b} : d <= y) => d = c
    BY <1>1
  <2> QED BY <1>1, <2>1 DEF Min
<1>2. a <= b => \A y \in {a, b} : a <= y
  OBVIOUS
<1>3. b <= a => \A y \in {a, b} : b <= y
  OBVIOUS
<1> QED BY <1>1, <1>2, <1>3

(* Never more than has arrived.                                            *)
LEMMA TakesBound ==
  ASSUME hdr.len \in Nat, arrived \in Seq(Byte)
  PROVE  Takes \in Nat /\ Takes <= Len(arrived)
<1>1. Len(arrived) \in Nat
  BY LenProperties
<1> QED BY <1>1, MinOfTwo DEF Takes

(* What send() has been given: messages a header can number, the last of   *)
(* which is being cut, or has been.                                        *)
SendInv ==
  /\ spc \in {"idle", "pack", "header", "body", "reply", "closed"}
  /\ sent \in Seq(Messages)
  /\ \A q \in 1 .. Len(sent) : PackageSum(sent[q]) <= BlockMax
  /\ sent = <<>> => /\ msg = NoMessage /\ pos = 0 /\ current = 0 /\ buffer = <<>>
                    /\ spc \in {"idle", "closed"}
  /\ sent # <<>> => msg = sent[Len(sent)] /\ PackInv /\ PackageSum(msg) <= BlockMax
  /\ page \in 1 .. BlockMax
  /\ spc \in {"header", "body"} => Packed /\ page \in 1 .. PackageSum(msg)
  /\ spc = "pack" => page = 1

ReadInv ==
  /\ rpc \in {"first", "next", "body", "dropped", "blind"}
  /\ arrived \in Seq(Byte) /\ body \in Seq(Byte) /\ flight \in Seq(Seq(Byte))
  /\ hdr.len \in Nat /\ hdr.pagesize \in Nat
  /\ need \in Int /\ room \in Nat

TypeInv ==
  /\ reader \in {"server", "client"} /\ nsent \in 0 .. MaxMsgs /\ closed \in BOOLEAN
  /\ SendInv /\ ReadInv

LEMMA TypeInit == Init => TypeInv
<1> SUFFICES ASSUME Init PROVE TypeInv
  OBVIOUS
<1>1. SendInv
  <2>1. sent = <<>> /\ sent \in Seq(Messages) /\ Len(sent) = 0
    BY DEF Init
  <2>2. 1 \in 1 .. BlockMax
    BY PackagingAssumption
  <2> QED BY <2>1, <2>2 DEF Init, SendInv
<1>2. ReadInv
  <2>1. arrived \in Seq(Byte) /\ body \in Seq(Byte) /\ flight \in Seq(Seq(Byte))
    BY DEF Init
  <2>2. hdr.len = 0 /\ hdr.pagesize = 0
    BY DEF Init, NoHeader
  <2> QED BY <2>1, <2>2 DEF Init, ReadInv
<1>3. nsent \in 0 .. MaxMsgs
  BY WireAssumption DEF Init
<1> QED BY <1>1, <1>2, <1>3 DEF Init, TypeInv

LEMMA LastSent ==
  ASSUME SendInv, sent # <<>>
  PROVE  Len(sent) \in Nat /\ Len(sent) >= 1 /\ msg = sent[Len(sent)] /\ msg \in Messages
<1>1. sent \in Seq(Messages)
  BY DEF SendInv
<1>2. Len(sent) \in Nat /\ Len(sent) >= 1
  BY <1>1, EmptySeq, LenProperties
<1>3. Len(sent) \in 1 .. Len(sent)
  BY <1>2
<1> QED BY <1>1, <1>2, <1>3, ElementOfSeq DEF SendInv

LEMMA SendBeginInv == ASSUME SendInv, SendBegin PROVE SendInv'
<1>1. PICK m \in Messages : PackageSum(m) <= BlockMax /\ StartPackages(m) /\ sent' = Append(sent, m)
  BY DEF SendBegin
<1>2. PackInv' /\ msg' = m
  BY <1>1, StartInv DEF StartPackages
<1>3. /\ sent' \in Seq(Messages) /\ Len(sent') = Len(sent) + 1
      /\ \A i \in 1 .. Len(sent) : sent'[i] = sent[i]
      /\ sent'[Len(sent) + 1] = m
  <2>1. sent \in Seq(Messages)
    BY DEF SendInv
  <2> QED BY <1>1, <2>1, AppendProperties
<1>4. Len(sent) \in Nat
  BY LenProperties DEF SendInv
<1>5. \A q \in 1 .. Len(sent') : PackageSum(sent'[q]) <= BlockMax
  <2> TAKE q \in 1 .. Len(sent')
  <2>1. q \in 1 .. Len(sent) \/ q = Len(sent) + 1
    BY <1>3, <1>4
  <2> QED BY <1>1, <1>3, <2>1 DEF SendInv
<1>6. sent' # <<>> /\ msg' = sent'[Len(sent')] /\ PackageSum(msg') <= BlockMax
  BY <1>1, <1>2, <1>3, <1>4, EmptySeq
<1>7. page' \in 1 .. BlockMax /\ spc' = "pack" /\ page' = 1
  BY PackagingAssumption DEF SendBegin
<1> QED BY <1>2, <1>3, <1>5, <1>6, <1>7 DEF SendInv

LEMMA SendPackInv == ASSUME SendInv, SendPack PROVE SendInv'
<1>1. sent # <<>> /\ UNCHANGED <<spc, page, sent>> /\ spc = "pack"
  BY DEF SendInv, SendPack, sendVars
<1>2. msg' = msg /\ PackInv'
  <2>1. PackInv /\ PackageSum(msg) <= BlockMax
    BY <1>1 DEF SendInv
  <2>2. CASE ~Packed /\ Cross
    BY <2>1, <2>2, CrossInv DEF Cross
  <2>3. CASE ~Packed /\ Fit
    BY <2>1, <2>3, FitInv DEF Fit
  <2> QED BY <2>2, <2>3 DEF SendPack, AddToBody
<1> QED BY <1>1, <1>2 DEF SendInv

(* Nothing of the sender's is changed but where it stands.                 *)
LEMMA SendStands ==
  ASSUME SendInv, UNCHANGED <<packVars, sent>>,
         spc' \in {"idle", "pack", "header", "body", "reply", "closed"},
         sent # <<>> \/ spc' \in {"idle", "closed"},
         page' \in 1 .. BlockMax,
         spc' \in {"header", "body"} => Packed /\ page' \in 1 .. PackageSum(msg),
         spc' = "pack" => page' = 1
  PROVE  SendInv'
<1>1. UNCHANGED <<msg, part, pos, current, pageno, buffer, packages, plengths>>
  BY DEF packVars
<1>2. PackInv' = PackInv
  BY <1>1 DEF PackInv, Counted, Placed, Written, Begun, NewPackage, Packed
<1>3. Packed' = Packed
  BY <1>1 DEF Packed
<1> QED BY <1>1, <1>2, <1>3 DEF SendInv

LEMMA SendInvNext == ASSUME SendInv, Next PROVE SendInv'
<1>0. BlockMax \in Nat /\ BlockMax >= 1
  BY PackagingAssumption
<1>0a. sent # <<>> => PackageSum(msg) \in Nat /\ PackageSum(msg) >= 1 /\ PackageSum(msg) <= BlockMax
  BY LastSent, PagesSuffice DEF SendInv
<1>1. CASE SendTooLong
  <2>1. UNCHANGED <<packVars, sent, spc, page>>
    BY <1>1 DEF SendTooLong
  <2> QED BY <2>1, SendStands DEF SendInv
<1>2. CASE SendBegin
  BY <1>2, SendBeginInv
<1>3. CASE SendPack
  BY <1>3, SendPackInv
<1>4. CASE SendReady
  <2>1. UNCHANGED <<packVars, sent, page>> /\ spc = "pack" /\ Packed /\ spc' = "header"
    BY <1>4 DEF SendReady
  <2>2. sent # <<>> /\ page = 1
    BY <2>1 DEF SendInv
  <2>3. page' \in 1 .. PackageSum(msg) /\ page' \in 1 .. BlockMax
    BY <1>0, <1>0a, <2>1, <2>2
  <2> QED BY <2>1, <2>2, <2>3, SendStands
<1>5. CASE SendHeader
  <2>1. UNCHANGED <<packVars, sent, page>> /\ spc = "header" /\ spc' = "body"
    BY <1>5 DEF SendHeader
  <2>2. sent # <<>> /\ Packed /\ page \in 1 .. PackageSum(msg) /\ page \in 1 .. BlockMax
    BY <2>1 DEF SendInv
  <2> QED BY <2>1, <2>2, SendStands
<1>6. CASE SendBody
  <2>1. /\ UNCHANGED <<packVars, sent>> /\ spc = "body"
        /\ \/ page < PackageSum(msg) /\ page' = page + 1 /\ spc' = "header"
           \/ page' = page /\ spc' \in {"reply", "idle"}
    BY <1>6 DEF SendBody
  <2>2. sent # <<>> /\ Packed /\ page \in 1 .. PackageSum(msg) /\ page \in 1 .. BlockMax
    BY <2>1 DEF SendInv
  <2>3. page' \in 1 .. PackageSum(msg) /\ page' \in 1 .. BlockMax
    BY <1>0, <1>0a, <2>1, <2>2
  <2> QED BY <2>1, <2>2, <2>3, SendStands
<1>7. CASE SendReplied
  <2>1. UNCHANGED <<packVars, sent, page>> /\ spc' = "idle"
    BY <1>7 DEF SendReplied
  <2> QED BY <2>1, SendStands DEF SendInv
<1>8. CASE Close
  <2>1. UNCHANGED <<packVars, sent, page>> /\ spc' = "closed"
    BY <1>8 DEF Close
  <2> QED BY <2>1, SendStands DEF SendInv
<1>9. CASE Arrive \/ Reader
  <2>1. UNCHANGED <<packVars, sent, spc, page>>
    BY <1>9 DEF Arrive, Reader, ReadHeader, ReadShortHeader, ReadBody, ReadFail,
                ReadNextPage, ReadDone, sendVars
  <2> QED BY <2>1, SendStands DEF SendInv
<1> QED BY <1>1, <1>2, <1>3, <1>4, <1>5, <1>6, <1>7, <1>8, <1>9 DEF Next, Sender

(* The two pieces of a package are bytes.                                  *)
LEMMA PieceBytes ==
  ASSUME SendInv, spc \in {"header", "body"}
  PROVE  /\ SubSeq(Package(page), 1, 8) \in Seq(Byte)
         /\ SubSeq(Package(page), 9, plengths[page]) \in Seq(Byte)
<1>0. sent # <<>>
  BY DEF SendInv
<1>1. PackInv /\ Packed /\ PackageSum(msg) <= BlockMax /\ page \in 1 .. PackageSum(msg)
      /\ msg \in Messages
  BY <1>0, LastSent DEF SendInv
<1>2. page \in Int /\ 1 <= page /\ page <= PackageSum(msg)
  BY <1>1, PagesSuffice
<1> QED BY <1>1, <1>2, PiecesOf DEF Byte

(* A piece arrives whole, or its first k bytes do.                         *)
LEMMA ArriveCases ==
  ASSUME flight \in Seq(Seq(Byte)), Arrive
  PROVE  /\ flight # <<>> /\ Head(flight) \in Seq(Byte)
         /\ \/ arrived' = arrived \o Head(flight) /\ flight' = Tail(flight)
            \/ /\ MaySplit
               /\ \E k \in Nat :
                    /\ k < Len(Head(flight))
                    /\ arrived' = arrived \o SubSeq(Head(flight), 1, k)
                    /\ flight' = <<SubSeq(Head(flight), k + 1, Len(Head(flight)))>> \o Tail(flight)
<1> DEFINE p == Head(flight)
<1>1. flight # <<>>
  BY DEF Arrive
<1>2. p \in Seq(Byte) /\ Len(p) \in Nat
  <2>1. p \in Seq(Byte)
    BY <1>1, HeadTailProperties
  <2> QED BY <2>1, LenProperties
<1>3. PICK k \in (IF MaySplit THEN 1 .. Len(p) ELSE {Len(p)}) :
        /\ arrived' = arrived \o SubSeq(p, 1, k)
        /\ flight' = IF k = Len(p) THEN Tail(flight)
                     ELSE <<SubSeq(p, k + 1, Len(p))>> \o Tail(flight)
  BY DEF Arrive
<1> HIDE DEF p
<1>4. CASE k = Len(p)
  <2>1. SubSeq(p, 1, Len(p)) = p
    BY <1>2
  <2> QED BY <1>1, <1>2, <1>3, <1>4, <2>1 DEF p
<1>5. CASE k # Len(p)
  <2>1. MaySplit /\ k \in Nat /\ k < Len(p)
    BY <1>2, <1>3, <1>5
  <2> QED BY <1>1, <1>2, <1>3, <1>5, <2>1 DEF p
<1> QED BY <1>4, <1>5

LEMMA ArriveBytes ==
  ASSUME flight \in Seq(Seq(Byte)), arrived \in Seq(Byte), Arrive
  PROVE  flight' \in Seq(Seq(Byte)) /\ arrived' \in Seq(Byte)
<1> DEFINE p == Head(flight)
<1>1. flight # <<>> /\ p \in Seq(Byte) /\ Len(p) \in Nat
  BY ArriveCases, LenProperties
<1>2. Tail(flight) \in Seq(Seq(Byte))
  BY <1>1, HeadTailProperties
<1>3. CASE arrived' = arrived \o p /\ flight' = Tail(flight)
  BY <1>1, <1>2, <1>3
<1>4. ASSUME NEW k \in Nat, k < Len(p),
             arrived' = arrived \o SubSeq(p, 1, k),
             flight' = <<SubSeq(p, k + 1, Len(p))>> \o Tail(flight)
      PROVE  flight' \in Seq(Seq(Byte)) /\ arrived' \in Seq(Byte)
  <2> DEFINE a == SubSeq(p, 1, k)
             b == SubSeq(p, k + 1, Len(p))
             t == Tail(flight)
  <2>1. a \in Seq(Byte) /\ b \in Seq(Byte) /\ t \in Seq(Seq(Byte))
    BY <1>1, <1>2, <1>4
  <2> HIDE DEF a, b, t, p
  <2>2. arrived \o a \in Seq(Byte) /\ <<b>> \o t \in Seq(Seq(Byte))
    BY <2>1
  <2> QED BY <1>4, <2>2 DEF a, b, t, p
<1> QED BY <1>3, <1>4, ArriveCases

LEMMA ReadInvNext == ASSUME TypeInv, Next PROVE ReadInv'
<1>0. /\ arrived \in Seq(Byte) /\ body \in Seq(Byte) /\ flight \in Seq(Seq(Byte))
      /\ hdr.len \in Nat /\ hdr.pagesize \in Nat /\ need \in Int /\ room \in Nat
      /\ rpc \in {"first", "next", "body", "dropped", "blind"}
  BY DEF TypeInv, ReadInv
<1>1. CASE SendTooLong \/ SendBegin \/ SendPack \/ SendReady \/ SendReplied \/ Close
  <2>1. UNCHANGED <<rpc, hdr, need, room, body, arrived, flight>>
    BY <1>1 DEF SendTooLong, SendBegin, SendPack, SendReady, SendReplied, Close, readVars
  <2> QED BY <1>0, <2>1 DEF ReadInv
<1>2. CASE SendHeader \/ SendBody
  <2>1. UNCHANGED <<rpc, hdr, need, room, body, arrived>>
    BY <1>2 DEF SendHeader, SendBody, readVars
  <2>2. PICK p \in Seq(Byte) : flight' = Append(flight, p)
    BY <1>2, PieceBytes DEF SendHeader, SendBody, TypeInv
  <2>3. flight' \in Seq(Seq(Byte))
    BY <1>0, <2>2, AppendProperties
  <2> QED BY <1>0, <2>1, <2>3 DEF ReadInv
<1>3. CASE Arrive
  <2>1. UNCHANGED <<rpc, hdr, need, room, body>>
    BY <1>3 DEF Arrive, readVars
  <2> QED BY <1>0, <1>3, <2>1, ArriveBytes DEF ReadInv
<1>4. CASE ReadHeader
  <2>1. Len(arrived) \in Nat /\ Len(arrived) >= 8 /\ UNCHANGED flight
    BY <1>0, <1>4, LenProperties DEF ReadHeader
  <2>2. /\ Parse(arrived).len \in Nat /\ Parse(arrived).pagesize \in Nat
    <3>1. \A i \in 1 .. 8 : arrived[i] \in Byte
      BY <1>0, <2>1, ElementOfSeq
    <3> QED BY <3>1, GetNat DEF Parse
  <2>3. arrived' \in Seq(Byte)
    <3>1. arrived' = SubSeq(arrived, 8 + 1, Len(arrived))
      BY <1>4 DEF ReadHeader
    <3> QED BY <1>0, <2>1, <3>1
  <2>4. hdr' = Parse(arrived) /\ need' = Parse(arrived).len /\ rpc' = "body"
    BY <1>4 DEF ReadHeader
  <2>5. room' \in Nat /\ body' \in Seq(Byte)
    <3>1. Parse(arrived).len * Parse(arrived).pagesize \in Nat
      BY <2>2
    <3>2. CASE rpc = "first"
      <4>1. room' = RoomFor(Parse(arrived)) /\ body' = <<>>
        BY <1>4, <3>2 DEF ReadHeader
      <4> QED BY <3>1, <4>1 DEF RoomFor
    <3>3. CASE rpc # "first"
      BY <1>0, <1>4, <3>3 DEF ReadHeader
    <3> QED BY <3>2, <3>3
  <2> QED BY <2>1, <2>2, <2>3, <2>4, <2>5, <1>0 DEF ReadInv
<1>5. CASE ReadShortHeader
  <2>1. /\ UNCHANGED <<flight, hdr, need, room, body>>
        /\ arrived' = <<>> /\ rpc' \in {"dropped", "blind"}
    BY <1>5 DEF ReadShortHeader
  <2> QED BY <1>0, <2>1 DEF ReadInv
<1>6. CASE ReadBody
  <2>1. /\ UNCHANGED <<flight, rpc, hdr, room>> /\ need' = need - Takes
        /\ body' = body \o SubSeq(arrived, 1, Takes)
        /\ arrived' = SubSeq(arrived, Takes + 1, Len(arrived))
    BY <1>6 DEF ReadBody
  <2>2. Takes \in Nat /\ Takes <= Len(arrived) /\ Len(arrived) \in Nat
    BY <1>0, TakesBound, LenProperties
  <2> DEFINE n == Takes
             h == SubSeq(arrived, 1, n)
  <2> HIDE DEF n
  <2>3. h \in Seq(Byte) /\ SubSeq(arrived, n + 1, Len(arrived)) \in Seq(Byte)
    BY <1>0, <2>2 DEF n
  <2> HIDE DEF h
  <2>4. body \o h \in Seq(Byte)
    BY <1>0, <2>3
  <2> QED BY <1>0, <2>1, <2>2, <2>3, <2>4 DEF ReadInv, n, h
<1>7. CASE ReadFail \/ ReadNextPage \/ ReadDone
  <2>1. /\ UNCHANGED <<flight, arrived, hdr, need, room, body>>
        /\ rpc' \in {"dropped", "next", "first"}
    BY <1>7 DEF ReadFail, ReadNextPage, ReadDone
  <2> QED BY <1>0, <2>1 DEF ReadInv
<1> QED BY <1>1, <1>2, <1>3, <1>4, <1>5, <1>6, <1>7 DEF Next, Sender, Reader

LEMMA TypeNext == TypeInv /\ [Next]_vars => TypeInv'
<1> SUFFICES ASSUME TypeInv, [Next]_vars PROVE TypeInv'
  OBVIOUS
<1>1. CASE Next
  <2>1. reader' = reader /\ closed' \in BOOLEAN
    BY <1>1 DEF TypeInv, Next, Sender, Reader, SendTooLong, SendBegin, SendPack, SendReady,
       SendHeader, SendBody, SendReplied, Close, Arrive, ReadHeader, ReadShortHeader,
       ReadBody, ReadFail, ReadNextPage, ReadDone
  <2>2. nsent' \in 0 .. MaxMsgs
    <3>1. nsent' = nsent \/ (nsent < MaxMsgs /\ nsent' = nsent + 1)
      BY <1>1 DEF Next, Sender, Reader, SendTooLong, SendBegin, SendPack, SendReady,
         SendHeader, SendBody, SendReplied, Close, Arrive, ReadHeader, ReadShortHeader,
         ReadBody, ReadFail, ReadNextPage, ReadDone, sendVars
    <3> QED BY <3>1, WireAssumption DEF TypeInv
  <2> QED BY <1>1, <2>1, <2>2, SendInvNext, ReadInvNext DEF TypeInv
<1>2. CASE UNCHANGED vars
  <2>1. UNCHANGED <<packVars, sent, spc, page, reader, nsent, closed, rpc, arrived, body,
                    flight, hdr, need, room>>
    BY <1>2 DEF vars, sendVars, readVars
  <2>2. SendInv'
    BY <2>1, SendStands DEF SendInv, TypeInv
  <2> QED BY <2>1, <2>2 DEF TypeInv, ReadInv
<1> QED BY <1>1, <1>2

LEMMA TypeAlways == Spec => []TypeInv
<1> QED BY TypeInit, TypeNext, PTL DEF Spec

(* The sender's counters stay within the message and within BlockMax, and  *)
(* what is in its buffer, on the way, in the socket and in the reader's    *)
(* buffer are bytes, whatever the reader makes of them.                    *)
THEOREM WireTypeOK == Spec => []TypeOK
<1>1. TypeInv => TypeOK
  <2> SUFFICES ASSUME TypeInv PROVE TypeOK
    OBVIOUS
  <2>1. CASE sent = <<>>
    <3>1. msg = NoMessage /\ pos = 0 /\ current = 0 /\ buffer = <<>>
      BY <2>1 DEF TypeInv, SendInv
    <3>2. buffer \in Seq(0 .. 255) /\ current \in 0 .. BlockSize
      BY <3>1, FrameSize
    <3>3. \A k \in DOMAIN flight : flight[k] \in Seq(Byte)
      BY ElementOfSeq DEF TypeInv, ReadInv
    <3> QED BY <3>1, <3>2, <3>3 DEF TypeInv, SendInv, ReadInv, TypeOK, Byte
  <2>2. CASE sent # <<>>
    <3>1. PackInv /\ msg \in Messages
      BY <2>2, LastSent DEF TypeInv, SendInv
    <3>2. buffer \in Seq(0 .. 255) /\ current \in 0 .. BlockSize /\ pos \in Nat
      BY <3>1, FrameSize DEF PackInv, Counted, Written
    <3>3. pageno \in 1 .. PackageSum(msg)
      BY <3>1, PagesBound, PagesSuffice DEF PackInv, Counted
    <3>4. \A k \in DOMAIN flight : flight[k] \in Seq(Byte)
      BY ElementOfSeq DEF TypeInv, ReadInv
    <3> QED BY <3>1, <3>2, <3>3, <3>4 DEF TypeInv, SendInv, ReadInv, TypeOK, Byte
  <2> QED BY <2>1, <2>2
<1> QED BY <1>1, TypeAlways, PTL

(* When toPackages returns, its packages tile the buffer and all but the   *)
(* last are full, for every message, block size and field layout: a field  *)
(* that ends on a border begins no package of its own, and none is left    *)
(* out.                                                                    *)
THEOREM WirePaged == Spec => []Paged
<1>1. TypeInv => Paged
  <2> SUFFICES ASSUME TypeInv, spc \in {"header", "body"}
               PROVE  LET sum == PackageSum(msg) IN
                        /\ DOMAIN packages = 1 .. sum /\ DOMAIN plengths = 1 .. sum
                        /\ packages[1] = 1
                        /\ \A k \in 1 .. sum - 1 : /\ packages[k + 1] = packages[k] + plengths[k]
                                                   /\ plengths[k] = BlockSize + 8
                        /\ packages[sum] + plengths[sum] = Len(buffer) + 1
                        /\ Len(buffer) = FullLen(msg) + 8 * sum
    BY DEF Paged
  <2> DEFINE sum == PackageSum(msg)
  <2>1. sent # <<>> /\ SendInv
    BY DEF TypeInv, SendInv
  <2>2. PackInv /\ Packed /\ sum <= BlockMax /\ msg \in Messages
    BY <2>1, LastSent DEF SendInv
  <2>3. /\ Len(buffer) = WireLength(msg)
        /\ DOMAIN packages = 1 .. sum /\ DOMAIN plengths = 1 .. sum
        /\ \A k \in 1 .. sum : /\ packages[k] = (k - 1) * Frame + 1
                               /\ plengths[k] = MsgLen(msg, k) + 8
    BY <2>2, PackedIs
  <2>4. sum \in Nat /\ sum >= 1
    BY <2>2, PagesSuffice
  <2> HIDE DEF sum
  <2>5. packages[1] = 1
    <3>1. 1 \in 1 .. sum /\ (1 - 1) * Frame + 1 = 1
      BY <2>4, FrameSize
    <3> QED BY <2>3, <3>1
  <2>6. ASSUME NEW k \in 1 .. sum - 1
        PROVE  packages[k + 1] = packages[k] + plengths[k] /\ plengths[k] = BlockSize + 8
    <3>1. k \in 1 .. sum /\ k + 1 \in 1 .. sum /\ k \in Int /\ 1 <= k /\ k < sum /\ (k + 1) - 1 = k
      BY <2>4
    <3>2. packages[k] = (k - 1) * Frame + 1 /\ plengths[k] = MsgLen(msg, k) + 8
          /\ packages[k + 1] = k * Frame + 1
      BY <2>3, <3>1
    <3>3. MsgLen(msg, k) = BlockSize
      BY <2>2, <3>1, MsgLenIs DEF sum
    <3>4. (k - 1) * Frame \in Nat /\ (k - 1) * Frame + 8 + MsgLen(msg, k) = k * Frame
      BY <2>2, <3>1, PageEnd DEF sum
    <3> DEFINE x == (k - 1) * Frame
               y == k * Frame
    <3> HIDE DEF x, y
    <3>5. packages[k + 1] = packages[k] + plengths[k]
      <4>1. x \in Nat /\ y = x + 8 + BlockSize /\ packages[k] = x + 1
            /\ packages[k + 1] = y + 1 /\ plengths[k] = BlockSize + 8
        BY <3>2, <3>3, <3>4 DEF x, y
      <4> QED BY <4>1, FrameSize
    <3> QED BY <3>2, <3>3, <3>5
  <2>7. packages[sum] + plengths[sum] = Len(buffer) + 1
    <3>1. sum \in 1 .. sum /\ sum \in Int /\ 1 <= sum
      BY <2>4
    <3>2. packages[sum] = (sum - 1) * Frame + 1 /\ plengths[sum] = MsgLen(msg, sum) + 8
      BY <2>3, <3>1
    <3>3. /\ (sum - 1) * Frame \in Nat /\ WireLength(msg) \in Nat /\ MsgLen(msg, sum) \in Nat
          /\ (sum - 1) * Frame + 8 + MsgLen(msg, sum) = WireLength(msg)
      BY <2>2, <3>1, PageEnd, MsgLenIs DEF sum
    <3> DEFINE x == (sum - 1) * Frame
    <3> HIDE DEF x
    <3>4. x \in Nat /\ packages[sum] = x + 1 /\ x + 8 + MsgLen(msg, sum) = WireLength(msg)
      BY <3>2, <3>3 DEF x
    <3> QED BY <2>3, <3>2, <3>3, <3>4
  <2>8. Len(buffer) = FullLen(msg) + 8 * sum
    BY <2>3 DEF WireLength, sum
  <2> QED BY <2>3, <2>5, <2>6, <2>7, <2>8 DEF sum
<1> QED BY <1>1, TypeAlways, PTL

-----------------------------------------------------------------------------
(* The stream between them.                                                *)

(* Nobody cuts the pieces of a message of several packages on its way to   *)
(* the server.                                                             *)
Unsplit ==
  SplitPaged => (reader = "client" \/ \A q \in 1 .. Len(sent) : PackageSum(sent[q]) = 1)

(* T is what has been written of the packages of all messages: those of    *)
(* message q follow base[q].                                               *)
Lines(T, base) ==
  /\ base \in Seq(Nat) /\ Len(base) = Len(sent) + 1
  /\ \A q \in 1 .. Len(sent) : base[q + 1] = base[q] + WireLength(sent[q])
  /\ \A q, r \in 1 .. Len(sent) + 1 : q <= r => base[q] <= base[r]
  /\ \A q \in 1 .. Len(sent) : \A j \in 1 .. WireLength(sent[q]) :
       base[q] + j <= Len(T) => T[base[q] + j] = WireByte(sent[q], j)

Stands(T, base) ==
  /\ Len(T) <= base[Len(sent) + 1]
  /\ spc = "pack" => Len(T) = base[Len(sent)]
  /\ spc = "header" => Len(T) = base[Len(sent)] + (page - 1) * Frame
  /\ spc = "body" => Len(T) = base[Len(sent)] + (page - 1) * Frame + 8
  /\ spc \in {"idle", "reply"} => Len(T) = base[Len(sent) + 1]

(* No piece for the server ends within the body of a package, but one of a *)
(* message of a single package.                                            *)
Within(c, start, l) == start < c /\ c < start + l

Borders(base, cuts) ==
  (reader = "server" /\ sent # <<>> /\ PackageSum(msg) > 1) =>
    \A i \in 1 .. Len(cuts) : \A k \in 1 .. PackageSum(msg) :
      ~Within(cuts[i], base[Len(sent)] + (k - 1) * Frame + 8, MsgLen(msg, k))

(* The reader is in package hdr.pageno of m, which follows start.          *)
InPackage(m, start, at) ==
  /\ hdr.pageno \in 1 .. PackageSum(m)
  /\ hdr.len = MsgLen(m, hdr.pageno) /\ hdr.pagesize = PackageSum(m)
  /\ need \in 0 .. hdr.len
  /\ at = start + (hdr.pageno - 1) * Frame + 8 + (hdr.len - need)
  /\ Len(body) = (hdr.pageno - 1) * BlockSize + (hdr.len - need)
  /\ \A i \in 1 .. Len(body) : body[i] = BodyByte(m, i)
  /\ room = MsgLen(m, 1) * PackageSum(m) /\ fno = m.fno
  /\ rpc = "next" => need = 0 /\ hdr.pageno < PackageSum(m)
  /\ (reader = "client" \/ PackageSum(m) > 1) => need \in {0, hdr.len}

Reads(base, at) ==
  /\ rpc = "first" => at = base[Len(got) + 1]
  /\ rpc \in {"next", "body"} =>
       Len(got) < Len(sent) /\ InPackage(sent[Len(got) + 1], base[Len(got) + 1], at)

Flow(T, base, cuts, at) ==
  /\ Carries(T, at, cuts, arrived, flight)
  /\ Lines(T, base) /\ Stands(T, base) /\ Borders(base, cuts) /\ Reads(base, at)

(* A client that sends waits for the answer to each message.               *)
Turns ==
  reader = "server" => /\ Len(sent) <= Len(got) + 1
                       /\ spc = "idle" => Len(sent) = Len(got)

Reading == rpc \in {"first", "next", "body"}

StreamInv ==
  Unsplit => /\ InBuffer /\ Intact /\ Turns /\ got \in Seq({Whole(m) : m \in Messages})
             /\ Reading => \E T, base, cuts, at : Flow(T, base, cuts, at)

LEMMA UnsplitBefore ==
  ASSUME TypeInv, [Next]_vars, Unsplit'
  PROVE  Unsplit /\ reader' = reader
<1>1. reader' = reader /\ (sent' = sent \/ \E m \in Messages : sent' = Append(sent, m))
  BY DEF Next, Sender, Reader, SendTooLong, SendBegin, SendPack, SendReady, SendHeader,
     SendBody, SendReplied, Close, Arrive, ReadHeader, ReadShortHeader, ReadBody, ReadFail,
     ReadNextPage, ReadDone, vars, sendVars
<1>2. CASE sent' = sent
  BY <1>1, <1>2 DEF Unsplit
<1>3. ASSUME NEW m \in Messages, sent' = Append(sent, m)
      PROVE  Unsplit
  <2>1. sent \in Seq(Messages) /\ Len(sent) \in Nat
    BY LenProperties DEF TypeInv, SendInv
  <2>2. Len(sent') = Len(sent) + 1 /\ \A q \in 1 .. Len(sent) : sent'[q] = sent[q]
    BY <1>3, <2>1, AppendProperties
  <2>3. \A q \in 1 .. Len(sent) : q \in 1 .. Len(sent')
    BY <2>1, <2>2
  <2> QED BY <1>1, <2>2, <2>3 DEF Unsplit
<1> QED BY <1>1, <1>2, <1>3

(* Where message q begins.                                                 *)
LEMMA BaseNat ==
  ASSUME sent \in Seq(Messages), NEW T, NEW base, Lines(T, base)
  PROVE  /\ Len(sent) \in Nat /\ base \in Seq(Nat)
         /\ \A q \in 1 .. Len(sent) + 1 : base[q] \in Nat
         /\ \A q \in 1 .. Len(sent) : sent[q] \in Messages /\ WireLength(sent[q]) \in Nat
<1>1. Len(sent) \in Nat
  BY LenProperties
<1>2. \A q \in 1 .. Len(sent) : sent[q] \in Messages
  BY ElementOfSeq
<1>3. \A q \in 1 .. Len(sent) + 1 : base[q] \in Nat
  <2>1. base \in Seq(Nat) /\ Len(base) = Len(sent) + 1
    BY DEF Lines
  <2> TAKE q \in 1 .. Len(sent) + 1
  <2>2. q \in 1 .. Len(base)
    BY <2>1
  <2>3. base \in Seq(Nat)
    BY <2>1
  <2> QED BY <2>2, <2>3, ElementOfSeq
<1>4. \A q \in 1 .. Len(sent) : WireLength(sent[q]) \in Nat
  BY <1>2, FullLenPositive, PagesSuffice, SMTT(40) DEF WireLength
<1> QED BY <1>1, <1>2, <1>3, <1>4 DEF Lines

(* The sender goes on without writing.                                     *)
LEMMA FlowStays ==
  ASSUME NEW T, NEW base, NEW cuts, NEW at, Flow(T, base, cuts, at),
         UNCHANGED <<arrived, flight, sent, msg, reader, rpc, hdr, need, room, body, fno, got>>,
         Stands(T, base)'
  PROVE  Flow(T, base, cuts, at)'
BY DEF Flow, Lines, Borders, Reads, InPackage

(* The next message: its packages will follow what has been written.       *)
LEMMA FlowBegin ==
  ASSUME NEW T, NEW base, NEW cuts, NEW at, Flow(T, base, cuts, at),
         SendInv, Len(got) <= Len(sent), Len(got) \in Nat, SendBegin
  PROVE  \E base2 : Flow(T, base2, cuts, at)'
<1>1. PICK m \in Messages : sent' = Append(sent, m) /\ msg' = m
  BY DEF SendBegin, StartPackages
<1> DEFINE n == Len(sent)
           e == base[n + 1] + WireLength(m)
<1>1a. PICK base2 : base2 = Append(base, e)
  OBVIOUS
<1>2. /\ n \in Nat /\ base \in Seq(Nat) /\ sent \in Seq(Messages)
      /\ \A q \in 1 .. n + 1 : base[q] \in Nat
  BY BaseNat DEF SendInv, Flow
<1>3. /\ UNCHANGED <<arrived, flight, reader, rpc, hdr, need, room, body, fno, got>>
      /\ spc = "idle" /\ spc' = "pack"
  BY DEF SendBegin, readVars
<1>4. WireLength(m) \in Nat
  BY FullLenPositive, PagesSuffice DEF WireLength
<1>5. Len(base) = n + 1 /\ base[n + 1] \in Nat /\ e \in Nat
  <2>1. n + 1 \in 1 .. n + 1
    BY <1>2
  <2> QED BY <1>2, <1>4, <2>1 DEF Flow, Lines
<1>6. /\ sent' \in Seq(Messages) /\ Len(sent') = n + 1 /\ sent'[n + 1] = m
      /\ \A q \in 1 .. n : sent'[q] = sent[q]
  BY <1>1, <1>2, AppendProperties
<1>7. /\ base2 \in Seq(Nat) /\ Len(base2) = n + 2 /\ base2[n + 2] = e
      /\ \A q \in 1 .. n + 1 : base2[q] = base[q]
  <2> HIDE DEF e
  <2>1. base \in Seq(Nat) /\ e \in Nat
    BY <1>2, <1>5
  <2>2. /\ base2 \in Seq(Nat) /\ Len(base2) = Len(base) + 1 /\ base2[Len(base) + 1] = e
        /\ \A q \in 1 .. Len(base) : base2[q] = base[q]
    BY <1>1a, <2>1, AppendProperties
  <2>3. Len(base) = n + 1 /\ Len(base) + 1 = n + 2
    BY <1>2, <1>5
  <2> QED BY <2>2, <2>3
<1>8. Len(T) = base[n + 1]
  BY <1>3 DEF Flow, Stands
<1>9. Lines(T, base2)'
  <2>1. ASSUME NEW q \in 1 .. n + 1
        PROVE  base2[q + 1] = base2[q] + WireLength(sent'[q])
    <3>1. CASE q \in 1 .. n
      <4>1. q \in 1 .. n + 1 /\ q + 1 \in 1 .. n + 1
        BY <1>2, <3>1
      <4>2. base[q + 1] = base[q] + WireLength(sent[q])
        BY <3>1 DEF Flow, Lines
      <4> QED BY <1>6, <1>7, <3>1, <4>1, <4>2
    <3>2. CASE q = n + 1
      <4>1. base2[n + 2] = e /\ base2[n + 1] = base[n + 1] /\ q + 1 = n + 2
        BY <1>2, <1>7, <3>2
      <4> QED BY <1>6, <3>2, <4>1
    <3> QED BY <1>2, <3>1, <3>2
  <2>2. ASSUME NEW q \in 1 .. n + 2, NEW r \in 1 .. n + 2, q <= r
        PROVE  base2[q] <= base2[r]
    <3>1. CASE r \in 1 .. n + 1
      <4>1. q \in 1 .. n + 1
        BY <1>2, <2>2, <3>1
      <4>2. base[q] <= base[r]
        BY <2>2, <3>1, <4>1 DEF Flow, Lines
      <4> QED BY <1>7, <3>1, <4>1, <4>2
    <3>2. CASE r = n + 2 /\ q \in 1 .. n + 1
      <4>1. base[q] <= base[n + 1] /\ base[q] \in Nat
        <5>1. n + 1 \in 1 .. n + 1 /\ q <= n + 1
          BY <1>2, <3>2
        <5> QED BY <1>2, <3>2, <5>1 DEF Flow, Lines
      <4>2. base2[q] = base[q] /\ base2[r] = e
        BY <1>7, <3>2
      <4> QED BY <1>4, <1>5, <4>1, <4>2
    <3>3. CASE r = n + 2 /\ q = n + 2
      BY <1>5, <1>7, <3>3
    <3> QED BY <1>2, <3>1, <3>2, <3>3
  <2>3. ASSUME NEW q \in 1 .. n + 1, NEW j \in 1 .. WireLength(sent'[q]), base2[q] + j <= Len(T)
        PROVE  T[base2[q] + j] = WireByte(sent'[q], j)
    <3>1. base2[q] = base[q]
      BY <1>7
    <3>2. CASE q \in 1 .. n
      <4>1. j \in 1 .. WireLength(sent[q]) /\ base[q] + j <= Len(T)
        BY <1>6, <2>3, <3>1, <3>2
      <4> QED BY <1>6, <3>1, <3>2, <4>1 DEF Flow, Lines
    <3>3. CASE q = n + 1
      <4>1. base[n + 1] + j <= base[n + 1] /\ j \in Int /\ j >= 1
        BY <1>4, <1>6, <1>8, <2>3, <3>1, <3>3
      <4> QED BY <1>5, <4>1
    <3> QED BY <1>2, <3>2, <3>3
  <2>4. (n + 1) + 1 = n + 2
    BY <1>2
  <2> QED BY <1>6, <1>7, <2>1, <2>2, <2>3, <2>4 DEF Lines
<1>10. Stands(T, base2)'
  <2>1. base2[n + 2] = e /\ base2[n + 1] = base[n + 1] /\ Len(sent') + 1 = n + 2
    <3>1. n + 1 \in 1 .. n + 1
      BY <1>2
    <3> QED BY <1>2, <1>6, <1>7, <3>1, SMTT(40)
  <2> QED BY <1>3, <1>4, <1>5, <1>6, <1>8, <2>1 DEF Stands
<1>11. Borders(base2, cuts)'
  <2> SUFFICES ASSUME NEW i \in 1 .. Len(cuts), NEW k \in 1 .. PackageSum(m)
               PROVE  ~Within(cuts[i], base2[n + 1] + (k - 1) * Frame + 8, MsgLen(m, k))
    BY <1>1, <1>6 DEF Borders
  <2>1. cuts[i] <= base[n + 1] /\ cuts[i] \in Nat
    <3>1. cuts \in Seq(Nat) /\ i \in 1 .. Len(flight) + 1 /\ cuts[i] <= Len(T)
      BY DEF Flow, Carries
    <3>2. cuts \in Seq(Nat)
      BY <3>1
    <3>3. cuts[i] \in Nat
      BY <3>2, ElementOfSeq
    <3> QED BY <1>8, <3>1, <3>3
  <2>2. base2[n + 1] = base[n + 1] /\ base[n + 1] \in Nat
    <3>1. n + 1 \in 1 .. n + 1
      BY <1>2
    <3> QED BY <1>2, <1>7, <3>1
  <2>3. (k - 1) * Frame \in Nat
    <3>1. k \in Int /\ 1 <= k /\ k <= PackageSum(m)
      BY PagesSuffice
    <3> QED BY <3>1, PageEnd
  <2> DEFINE x == (k - 1) * Frame
  <2> HIDE DEF x
  <2>4. ~(base[n + 1] + x + 8 < cuts[i])
    BY <2>1, <2>2, <2>3 DEF x
  <2> QED BY <2>2, <2>4 DEF Within, x
<1>12. Reads(base2, at)'
  <2>1. Len(got) + 1 \in 1 .. n + 1
    BY <1>2
  <2>2. base2[Len(got) + 1] = base[Len(got) + 1]
    BY <1>7, <2>1
  <2>3. Len(got) < n => Len(got) + 1 \in 1 .. n
    BY <1>2
  <2>4. Len(got) < n => Len(got) < Len(sent') /\ sent'[Len(got) + 1] = sent[Len(got) + 1]
    BY <1>2, <1>6, <2>3
  <2> QED BY <1>3, <2>2, <2>4 DEF Flow, Reads, InPackage
<1>13. Carries(T, at, cuts, arrived, flight)'
  BY <1>3 DEF Flow
<1> QED BY <1>9, <1>10, <1>11, <1>12, <1>13 DEF Flow

Joins(t, s, p) == t = s \o p
EndsAt(t, n) == Len(t) = n

LEMMA JoinsIs ==
  ASSUME NEW s \in Seq(Byte), NEW p \in Seq(Byte), NEW t, Joins(t, s, p)
  PROVE  /\ Len(t) = Len(s) + Len(p) /\ Len(s) \in Nat /\ Len(p) \in Nat
         /\ \A i \in 1 .. Len(s) : t[i] = s[i]
         /\ \A i \in 1 .. Len(p) : t[Len(s) + i] = p[i]
<1>1. /\ Len(s \o p) = Len(s) + Len(p)
      /\ \A i \in 1 .. Len(s) : (s \o p)[i] = s[i]
      /\ \A i \in 1 .. Len(p) : (s \o p)[Len(s) + i] = p[i]
  BY Joint
<1> QED BY <1>1, LenProperties DEF Joins

(* A piece of the last message is written.                                 *)
LEMMA FlowPiece ==
  ASSUME NEW T, NEW base, NEW cuts, NEW at, Flow(T, base, cuts, at),
         SendInv, ReadInv, sent # <<>>, NEW e \in Nat, NEW piece \in Seq(Byte),
         EndsAt(T, base[Len(sent)] + e), e + Len(piece) <= WireLength(msg),
         \A i \in 1 .. Len(piece) : piece[i] = WireByte(msg, e + i),
         flight' = Append(flight, piece),
         UNCHANGED <<arrived, sent, msg, reader, rpc, hdr, need, room, body, fno, got>>,
         NEW T2, Joins(T2, T, piece), Stands(T2, base)',
         \A k \in 1 .. PackageSum(msg) :
           ~Within(base[Len(sent)] + e + Len(piece),
                   base[Len(sent)] + (k - 1) * Frame + 8, MsgLen(msg, k))
  PROVE  \E cuts2 : Flow(T2, base, cuts2, at)'
<1> DEFINE n == Len(sent)
           l == Len(piece)
<1>1. /\ T \in Seq(Byte) /\ arrived \in Seq(Byte) /\ flight \in Seq(Seq(Byte))
      /\ Carries(T, at, cuts, arrived, flight)
  BY DEF Flow, Carries, ReadInv
<1>2. PICK cuts2 : cuts2 = Append(cuts, Len(T2))
  OBVIOUS
<1>3. Carries(T2, at, cuts2, arrived', flight')
  <2>1. Carries(T \o piece, at, Append(cuts, Len(T \o piece)), arrived, Append(flight, piece))
    BY <1>1, CarriesSend
  <2> QED BY <1>2, <2>1 DEF Joins
<1>4. /\ Len(T2) = Len(T) + l /\ Len(T) \in Nat /\ l \in Nat
      /\ \A i \in 1 .. Len(T) : T2[i] = T[i]
      /\ \A i \in 1 .. l : T2[Len(T) + i] = piece[i]
  <2>1. T \in Seq(Byte) /\ piece \in Seq(Byte)
    BY <1>1
  <2> QED BY <2>1, JoinsIs
<1>5. /\ n \in Nat /\ n >= 1 /\ msg = sent[n] /\ msg \in Messages
      /\ \A q \in 1 .. n + 1 : base[q] \in Nat
      /\ \A q \in 1 .. n : sent[q] \in Messages /\ WireLength(sent[q]) \in Nat
  BY LastSent, BaseNat DEF SendInv, Flow
<1>6. ASSUME NEW q \in 1 .. n, NEW j \in 1 .. WireLength(sent[q]), base[q] + j <= Len(T2)
      PROVE  T2[base[q] + j] = WireByte(sent[q], j)
  <2>0. base[q] \in Nat /\ base[n] \in Nat /\ j \in Nat /\ j >= 1
    BY <1>5
  <2>1. CASE base[q] + j <= Len(T)
    <3>1. base[q] + j \in 1 .. Len(T)
      BY <2>0, <2>1, <1>4, SMTT(40)
    <3>2. T[base[q] + j] = WireByte(sent[q], j)
      BY <2>1 DEF Flow, Lines
    <3> QED BY <1>4, <3>1, <3>2
  <2>2. CASE base[q] + j > Len(T)
    <3>1a. Len(T) = base[n] + e
      BY DEF EndsAt
    <3>1. q = n
      <4> SUFFICES ASSUME q < n PROVE FALSE
        BY <1>5
      <4>1. base[q + 1] = base[q] + WireLength(sent[q])
        BY DEF Flow, Lines
      <4>2. base[q + 1] <= base[n]
        <5>1. q + 1 \in 1 .. n + 1 /\ n \in 1 .. n + 1 /\ q + 1 <= n
          BY <1>5
        <5> QED BY <5>1 DEF Flow, Lines
      <4>3. j <= WireLength(sent[q]) /\ WireLength(sent[q]) \in Nat
        BY <1>5
      <4>4. base[q] + j <= base[n]
        BY <2>0, <4>1, <4>2, <4>3, SMTT(40)
      <4> DEFINE u == base[q] + j
                 v == base[n]
      <4>5. u <= v /\ u > v + e /\ u \in Nat /\ v \in Nat
        BY <2>0, <2>2, <4>4, <3>1a, SMTT(40)
      <4> HIDE DEF u, v
      <4> QED BY <4>5
    <3> DEFINE i == j - e
    <3>2. base[n] + j <= base[n] + e + l /\ base[n] + j > base[n] + e
      BY <1>4, <1>6, <2>2, <3>1, <3>1a
    <3>3. i \in 1 .. l /\ j = e + i /\ base[n] + j = Len(T) + i
      BY <1>4, <2>0, <3>1a, <3>2, SMTT(40)
    <3> HIDE DEF i
    <3>4. T2[Len(T) + i] = piece[i] /\ piece[i] = WireByte(msg, e + i)
      BY <1>4, <3>3
    <3> QED BY <1>5, <3>1, <3>3, <3>4
  <2> QED BY <1>4, <2>0, <2>1, <2>2
<1>7. Lines(T2, base)'
  BY <1>6 DEF Flow, Lines
<1>8. Borders(base, cuts2)'
  <2> SUFFICES ASSUME reader = "server", PackageSum(msg) > 1,
                      NEW i \in 1 .. Len(cuts2), NEW k \in 1 .. PackageSum(msg)
               PROVE  ~Within(cuts2[i], base[n] + (k - 1) * Frame + 8, MsgLen(msg, k))
    BY DEF Borders
  <2>1. cuts \in Seq(Nat) /\ Len(T2) \in Nat
    BY <1>1, <1>4 DEF Carries
  <2>1a. cuts \in Seq(Nat) /\ Len(cuts) \in Nat
    BY <2>1, LenProperties
  <2>2. /\ Len(cuts2) = Len(cuts) + 1 /\ cuts2[Len(cuts) + 1] = Len(T2)
        /\ \A q \in 1 .. Len(cuts) : cuts2[q] = cuts[q]
    BY <1>2, <2>1, AppendProperties
  <2>3. CASE i \in 1 .. Len(cuts)
    BY <2>2, <2>3 DEF Flow, Borders
  <2>4. CASE i = Len(cuts) + 1
    BY <1>4, <2>2, <2>4 DEF EndsAt
  <2> QED BY <2>1a, <2>2, <2>3, <2>4
<1>9. Reads(base, at)'
  BY DEF Flow, Reads, InPackage
<1> QED BY <1>3, <1>7, <1>8, <1>9 DEF Flow

(* A piece ends with a header or a body.                                   *)
LEMMA PieceEnds ==
  ASSUME NEW m \in Messages, NEW p \in 1 .. PackageSum(m), NEW k \in 1 .. PackageSum(m),
         NEW b \in Nat
  PROVE  /\ ~Within(b + (p - 1) * Frame + 8, b + (k - 1) * Frame + 8, MsgLen(m, k))
         /\ ~Within(b + (p - 1) * Frame + 8 + MsgLen(m, p), b + (k - 1) * Frame + 8, MsgLen(m, k))
<1> DEFINE x == (p - 1) * Frame
           y == (k - 1) * Frame
           u == MsgLen(m, p)
           v == MsgLen(m, k)
<1>0. p \in Int /\ k \in Int /\ 1 <= p /\ 1 <= k /\ p <= PackageSum(m) /\ k <= PackageSum(m)
  BY PagesSuffice
<1>1. x \in Nat /\ y \in Nat /\ u \in Nat /\ v \in Nat /\ u >= 1 /\ u <= BlockSize /\ v <= BlockSize
  BY <1>0, PageEnd, MsgLenIs
<1>2. Frame = BlockSize + 8 /\ Frame \in Nat /\ BlockSize \in Nat
  BY FrameSize DEF Frame
<1>3. p < k => x + Frame <= y
  <2> SUFFICES ASSUME p < k PROVE x + Frame <= y
    OBVIOUS
  <2>1. p * Frame <= (k - 1) * Frame
    BY <1>0, <1>2, ProductMonotone
  <2>2. p * Frame = (p - 1) * Frame + Frame
    BY <1>0, <1>2
  <2> QED BY <2>1, <2>2
<1>4. k < p => y + Frame <= x
  <2> SUFFICES ASSUME k < p PROVE y + Frame <= x
    OBVIOUS
  <2>1. k * Frame <= (p - 1) * Frame
    BY <1>0, <1>2, ProductMonotone
  <2>2. k * Frame = (k - 1) * Frame + Frame
    BY <1>0, <1>2
  <2> QED BY <2>1, <2>2
<1>5. p = k => x = y /\ u = v
  OBVIOUS
<1> HIDE DEF x, y, u, v
<1>6. ~Within(b + x + 8, b + y + 8, v) /\ ~Within(b + x + 8 + u, b + y + 8, v)
  BY <1>0, <1>1, <1>2, <1>3, <1>4, <1>5 DEF Within
<1> QED BY <1>6 DEF x, y, u, v

LEMMA FlowHeader ==
  ASSUME NEW T, NEW base, NEW cuts, NEW at, Flow(T, base, cuts, at),
         SendInv, ReadInv, SendHeader
  PROVE  \E T2, base2, cuts2, at2 : Flow(T2, base2, cuts2, at2)'
<1> DEFINE n == Len(sent)
           e == (page - 1) * Frame
<1>1. /\ spc = "header" /\ spc' = "body" /\ sent # <<>>
      /\ UNCHANGED <<arrived, sent, msg, reader, rpc, hdr, need, room, body, fno, got, page>>
  BY DEF SendHeader, SendInv, packVars, readVars
<1>2. /\ n \in Nat /\ n >= 1 /\ msg \in Messages /\ PackInv /\ Packed
      /\ PackageSum(msg) <= BlockMax /\ page \in 1 .. PackageSum(msg)
      /\ base[n] \in Nat /\ base[n + 1] = base[n] + WireLength(msg)
  <2>1. n \in Nat /\ n >= 1 /\ n \in 1 .. n /\ n \in 1 .. n + 1 /\ msg = sent[n] /\ msg \in Messages
    BY <1>1, LastSent
  <2>2. base[n] \in Nat
    BY <2>1, BaseNat DEF SendInv, Flow
  <2> QED BY <1>1, <2>1, <2>2 DEF SendInv, Flow, Lines
<1>3. page \in Int /\ 1 <= page /\ page <= PackageSum(msg)
  BY <1>2, PagesSuffice
<1>4. PICK piece : piece = SubSeq(Package(page), 1, 8)
  OBVIOUS
<1>5. /\ piece \in Seq(Byte) /\ Len(piece) = 8
      /\ \A i \in 1 .. 8 : piece[i] = WireByte(msg, e + i)
  BY <1>2, <1>3, <1>4, PiecesOf DEF Byte
<1>5a. piece \in Seq(Byte)
  BY <1>5
<1>6. /\ e \in Nat /\ MsgLen(msg, page) \in Nat /\ WireLength(msg) \in Nat
      /\ e + 8 + MsgLen(msg, page) <= WireLength(msg)
  BY <1>2, <1>3, PageEnd, MsgLenIs
<1>7. Len(T) = base[n] + e
  BY <1>1 DEF Flow, Stands
<1>8. flight' = Append(flight, piece)
  BY <1>4 DEF SendHeader
<1>9. PICK T2 : T2 = T \o piece
  OBVIOUS
<1>10. Joins(T2, T, piece) /\ EndsAt(T, base[n] + e)
  BY <1>7, <1>9 DEF Joins, EndsAt
<1>11. Len(T2) = base[n] + e + 8
  <2>1. T \in Seq(Byte)
    BY DEF Flow, Carries
  <2> HIDE DEF e
  <2>2. Len(T2) = Len(T) + Len(piece)
    BY <1>5a, <1>10, <2>1, JoinsIs
  <2> QED BY <1>2, <1>5, <1>6, <1>7, <2>2
<1>12. Stands(T2, base)'
  <2>1. base[n] + e + 8 <= base[n + 1]
    <3> HIDE DEF e
    <3> QED BY <1>2, <1>6
  <2> QED BY <1>1, <1>11, <2>1 DEF Stands
<1>13. \A k \in 1 .. PackageSum(msg) :
         ~Within(base[n] + e + Len(piece), base[n] + (k - 1) * Frame + 8, MsgLen(msg, k))
  BY <1>2, <1>5, PieceEnds
<1>14. e + Len(piece) <= WireLength(msg)
  <2> HIDE DEF e
  <2> QED BY <1>5, <1>6, SMTT(40)
<1>15. \A i \in 1 .. Len(piece) : piece[i] = WireByte(msg, e + i)
  BY <1>5
<1> HIDE DEF e
<1>16. \E cuts2 : Flow(T2, base, cuts2, at)'
  BY <1>1, <1>5, <1>6, <1>8, <1>10, <1>12, <1>13, <1>14, <1>15, FlowPiece
<1> QED BY <1>16

LEMMA FlowBody ==
  ASSUME NEW T, NEW base, NEW cuts, NEW at, Flow(T, base, cuts, at),
         SendInv, ReadInv, SendBody
  PROVE  \E T2, base2, cuts2, at2 : Flow(T2, base2, cuts2, at2)'
<1> DEFINE n == Len(sent)
           x == (page - 1) * Frame
           e == x + 8
           l == MsgLen(msg, page)
<1>1. /\ spc = "body" /\ sent # <<>>
      /\ UNCHANGED <<arrived, sent, msg, reader, rpc, hdr, need, room, body, fno, got>>
      /\ \/ page < PackageSum(msg) /\ page' = page + 1 /\ spc' = "header"
         \/ page' = page /\ page >= PackageSum(msg) /\ spc' \in {"reply", "idle"}
  <2>1. spc = "body" /\ sent # <<>> /\ page \in 1 .. PackageSum(msg) /\ PackageSum(msg) \in Nat
    BY PagesSuffice, LastSent DEF SendBody, SendInv
  <2> QED BY <2>1 DEF SendBody, SendInv, packVars, readVars
<1>2. /\ n \in Nat /\ n >= 1 /\ msg \in Messages /\ PackInv /\ Packed
      /\ PackageSum(msg) <= BlockMax /\ page \in 1 .. PackageSum(msg)
      /\ base[n] \in Nat /\ base[n + 1] = base[n] + WireLength(msg)
  <2>1. n \in Nat /\ n >= 1 /\ n \in 1 .. n /\ n \in 1 .. n + 1 /\ msg = sent[n] /\ msg \in Messages
    BY <1>1, LastSent
  <2>2. base[n] \in Nat
    BY <2>1, BaseNat DEF SendInv, Flow
  <2> QED BY <1>1, <2>1, <2>2 DEF SendInv, Flow, Lines
<1>3. page \in Int /\ 1 <= page /\ page <= PackageSum(msg) /\ PackageSum(msg) \in Nat
  BY <1>2, PagesSuffice
<1>4. PICK piece : piece = SubSeq(Package(page), 9, plengths[page])
  OBVIOUS
<1>5. /\ piece \in Seq(Byte) /\ Len(piece) = l
      /\ \A i \in 1 .. l : piece[i] = WireByte(msg, e + i)
  BY <1>2, <1>3, <1>4, PiecesOf DEF Byte
<1>6. /\ x \in Nat /\ l \in Nat /\ WireLength(msg) \in Nat
      /\ e + l <= WireLength(msg)
      /\ page < PackageSum(msg) => e + l = page * Frame
      /\ page = PackageSum(msg) => e + l = WireLength(msg)
  BY <1>2, <1>3, PageEnd, MsgLenIs
<1>7. Len(T) = base[n] + e
  <2>1. Len(T) = base[n] + (page - 1) * Frame + 8
    BY <1>1 DEF Flow, Stands
  <2> DEFINE w == (page - 1) * Frame
  <2> HIDE DEF w
  <2>2. base[n] + w + 8 = base[n] + (w + 8)
    BY <1>2, <1>6, SMTT(40) DEF w
  <2> QED BY <2>1, <2>2 DEF w
<1>8. flight' = Append(flight, piece)
  BY <1>4 DEF SendBody
<1>9. PICK T2 : T2 = T \o piece
  OBVIOUS
<1>10. Joins(T2, T, piece) /\ EndsAt(T, base[n] + e)
  BY <1>7, <1>9 DEF Joins, EndsAt
<1>11. Len(T2) = base[n] + (e + l)
  <2>1. T \in Seq(Byte)
    BY DEF Flow, Carries
  <2>2. e \in Nat
    BY <1>6
  <2> HIDE DEF e
  <2>3. Len(T2) = Len(T) + Len(piece)
    BY <1>5, <1>10, <2>1, JoinsIs
  <2> HIDE DEF l
  <2> QED BY <1>2, <1>5, <1>6, <1>7, <2>2, <2>3, SMTT(40)
<1>12. Stands(T2, base)'
  <2>1. base[n] + (e + l) <= base[n + 1]
    <3>1. e + l \in Nat
      BY <1>6
    <3> DEFINE w == e + l
    <3> HIDE DEF w
    <3>2. base[n] + w <= base[n + 1]
      BY <1>2, <1>6, <3>1 DEF w
    <3> QED BY <3>2 DEF w
  <2>2. CASE page < PackageSum(msg) /\ page' = page + 1 /\ spc' = "header"
    <3>1. Len(T2) = base[n] + (page' - 1) * Frame
      <4>1. page' - 1 = page
        BY <1>3, <2>2
      <4> QED BY <1>6, <1>11, <2>2, <4>1
    <3> QED BY <1>1, <1>11, <2>1, <2>2, <3>1 DEF Stands
  <2>3. CASE page' = page /\ page >= PackageSum(msg) /\ spc' \in {"reply", "idle"}
    <3>1. Len(T2) = base[n + 1]
      <4>1. page = PackageSum(msg)
        BY <1>3, <2>3
      <4> QED BY <1>2, <1>6, <1>11, <4>1
    <3>2. base[n + 1] <= base[n + 1]
      BY <1>2, <1>6
    <3> QED BY <1>1, <2>3, <3>1, <3>2 DEF Stands
  <2> QED BY <1>1, <2>2, <2>3
<1>13. \A k \in 1 .. PackageSum(msg) :
         ~Within(base[n] + e + Len(piece), base[n] + (k - 1) * Frame + 8, MsgLen(msg, k))
  <2> TAKE k \in 1 .. PackageSum(msg)
  <2>1. ~Within(base[n] + (page - 1) * Frame + 8 + l, base[n] + (k - 1) * Frame + 8, MsgLen(msg, k))
    BY <1>2, PieceEnds
  <2>2. base[n] + (page - 1) * Frame + 8 + l = base[n] + e + Len(piece)
    <3> DEFINE w == (page - 1) * Frame
    <3> HIDE DEF w, l
    <3>1. base[n] + w + 8 + l = base[n] + (w + 8) + l
      BY <1>2, <1>6, SMTT(40) DEF w
    <3> QED BY <1>5, <3>1 DEF w
  <2> QED BY <2>1, <2>2
<1>14. e + Len(piece) <= WireLength(msg) /\ e \in Nat
  BY <1>5, <1>6
<1>15. \A i \in 1 .. Len(piece) : piece[i] = WireByte(msg, e + i)
  BY <1>5
<1> HIDE DEF e
<1>16. \E cuts2 : Flow(T2, base, cuts2, at)'
  BY <1>1, <1>5, <1>8, <1>10, <1>12, <1>13, <1>14, <1>15, FlowPiece
<1> QED BY <1>16

(* A piece arrives, whole or in part.                                      *)
LEMMA FlowArrive ==
  ASSUME NEW T, NEW base, NEW cuts, NEW at, Flow(T, base, cuts, at),
         SendInv, ReadInv, Unsplit, SplitPaged \in BOOLEAN, Arrive
  PROVE  \E T2, base2, cuts2, at2 : Flow(T2, base2, cuts2, at2)'
<1>1. /\ UNCHANGED <<sent, msg, reader, rpc, hdr, need, room, body, fno, got, spc, page>>
      /\ flight # <<>> /\ arrived \in Seq(Byte) /\ flight \in Seq(Seq(Byte))
      /\ Carries(T, at, cuts, arrived, flight)
  BY DEF Arrive, packVars, sendVars, readVars, ReadInv, Flow
<1>1a. cuts \in Seq(Nat) /\ Len(cuts) = Len(flight) + 1 /\ Len(flight) \in Nat /\ Len(flight) >= 1
  BY <1>1, EmptySeq, LenProperties DEF Carries
<1>2. Lines(T, base)' /\ Stands(T, base)' /\ Reads(base, at)'
  BY <1>1 DEF Flow, Lines, Stands, Reads, InPackage
<1>3. ASSUME NEW cuts2, Carries(T, at, cuts2, arrived', flight'), Borders(base, cuts2)'
      PROVE  \E c2 : Flow(T, base, c2, at)'
  BY <1>2, <1>3 DEF Flow
<1>4. CASE arrived' = arrived \o Head(flight) /\ flight' = Tail(flight)
  <2>1. PICK cuts2 : cuts2 = Tail(cuts)
    OBVIOUS
  <2>2. /\ Carries(T, at, Tail(cuts), arrived \o Head(flight), Tail(flight))
        /\ Len(Tail(cuts)) = Len(cuts) - 1
        /\ \A i \in 1 .. Len(cuts) - 1 : Tail(cuts)[i] = cuts[i + 1]
    BY <1>1, CarriesWhole
  <2>3. Borders(base, cuts2)'
    <3> SUFFICES ASSUME reader = "server", sent # <<>>, PackageSum(msg) > 1,
                        NEW i \in 1 .. Len(cuts2), NEW k \in 1 .. PackageSum(msg)
                 PROVE  ~Within(cuts2[i], base[Len(sent)] + (k - 1) * Frame + 8, MsgLen(msg, k))
      BY <1>1 DEF Borders
    <3>1. i + 1 \in 1 .. Len(cuts) /\ cuts2[i] = cuts[i + 1]
      BY <1>1a, <2>1, <2>2
    <3> QED BY <3>1 DEF Flow, Borders
  <2>4. Carries(T, at, cuts2, arrived', flight')
    <3>1. Carries(T, at, Tail(cuts), arrived \o Head(flight), Tail(flight))
      BY <2>2
    <3> QED BY <1>4, <2>1, <3>1
  <2> QED BY <1>3, <2>3, <2>4
<1>5. ASSUME MaySplit, NEW k \in Nat, k < Len(Head(flight)),
             arrived' = arrived \o SubSeq(Head(flight), 1, k),
             flight' = <<SubSeq(Head(flight), k + 1, Len(Head(flight)))>> \o Tail(flight)
      PROVE  \E c2 : Flow(T, base, c2, at)'
  <2>1. PICK cuts2 : cuts2 = [cuts EXCEPT ![1] = cuts[1] + k]
    OBVIOUS
  <2>2. Carries(T, at, cuts2, arrived', flight')
    <3>1. Carries(T, at, [cuts EXCEPT ![1] = cuts[1] + k], arrived \o SubSeq(Head(flight), 1, k),
                  <<SubSeq(Head(flight), k + 1, Len(Head(flight)))>> \o Tail(flight))
      BY <1>1, <1>5, CarriesPart
    <3> QED BY <1>5, <2>1, <3>1
  <2>3. Borders(base, cuts2)'
    <3>1. ~(reader = "server" /\ sent # <<>> /\ PackageSum(msg) > 1)
      <4> SUFFICES ASSUME reader = "server", sent # <<>>, PackageSum(msg) > 1 PROVE FALSE
        OBVIOUS
      <4>1. SplitPaged /\ PackageSum(msg) # 1
        BY <1>5, LastSent, PagesSuffice DEF MaySplit
      <4>2. Len(sent) \in 1 .. Len(sent) /\ msg = sent[Len(sent)]
        BY LastSent
      <4> QED BY <4>1, <4>2 DEF Unsplit
    <3> QED BY <1>1, <3>1 DEF Borders
  <2> QED BY <1>3, <2>2, <2>3
<1>6. \/ arrived' = arrived \o Head(flight) /\ flight' = Tail(flight)
      \/ /\ MaySplit
         /\ \E k \in Nat :
              /\ k < Len(Head(flight))
              /\ arrived' = arrived \o SubSeq(Head(flight), 1, k)
              /\ flight' = <<SubSeq(Head(flight), k + 1, Len(Head(flight)))>> \o Tail(flight)
  BY <1>1, ArriveCases
<1> QED BY <1>4, <1>5, <1>6, Zenon

-----------------------------------------------------------------------------
(* The reader.                                                             *)

(* All of a message's packages have a place in the stream.                 *)
LEMMA PlaceOf ==
  ASSUME NEW T, NEW base, Lines(T, base), SendInv, NEW q \in 1 .. Len(sent),
         NEW k \in 1 .. PackageSum(sent[q])
  PROVE  /\ sent[q] \in Messages /\ PackageSum(sent[q]) <= BlockMax
         /\ base[q] \in Nat /\ (k - 1) * Frame \in Nat /\ (k - 1) * BlockSize \in Nat
         /\ k \in Nat /\ k >= 1 /\ k <= PackageSum(sent[q]) /\ PackageSum(sent[q]) \in Nat
         /\ base[q + 1] = base[q] + WireLength(sent[q]) /\ WireLength(sent[q]) \in Nat
         /\ (k - 1) * Frame + 8 + MsgLen(sent[q], k) <= WireLength(sent[q])
         /\ k < PackageSum(sent[q]) => (k - 1) * Frame + 8 + MsgLen(sent[q], k) = k * Frame
         /\ k = PackageSum(sent[q]) => (k - 1) * Frame + 8 + MsgLen(sent[q], k) = WireLength(sent[q])
         /\ MsgLen(sent[q], k) \in Nat /\ MsgLen(sent[q], k) >= 1
         /\ MsgLen(sent[q], k) <= BlockSize
         /\ k < PackageSum(sent[q]) => MsgLen(sent[q], k) = BlockSize
<1>1. sent \in Seq(Messages) /\ PackageSum(sent[q]) <= BlockMax
  BY DEF SendInv
<1>2. sent[q] \in Messages /\ base[q] \in Nat
  BY <1>1, BaseNat
<1>3. k \in Nat /\ k >= 1 /\ k <= PackageSum(sent[q]) /\ PackageSum(sent[q]) \in Nat
  BY <1>2, PagesSuffice
<1>4. base[q + 1] = base[q] + WireLength(sent[q])
  BY DEF Lines
<1> QED BY <1>1, <1>2, <1>3, <1>4, PageEnd, MsgLenIs

PageStart(b, k) == b + (k - 1) * Frame

(* A header is read: there is one, since only whole packages are missing.  *)
LEMMA HeaderRead ==
  ASSUME NEW T, NEW base, NEW at \in Nat, NEW g \in Nat, Lines(T, base), SendInv,
         g + 1 \in 1 .. Len(sent), NEW k \in 1 .. PackageSum(sent[g + 1]),
         at = PageStart(base[g + 1], k),
         arrived \in Seq(Byte), Len(arrived) >= 8, at + Len(arrived) <= Len(T),
         \A j \in 1 .. Len(arrived) : arrived[j] = T[at + j]
  PROVE  Parse(arrived) = [len |-> MsgLen(sent[g + 1], k), pagesize |-> PackageSum(sent[g + 1]),
                           pageno |-> k, fno |-> sent[g + 1].fno]
<1> DEFINE m == sent[g + 1]
           x == (k - 1) * Frame
<1>1. /\ m \in Messages /\ PackageSum(m) <= BlockMax
      /\ base[g + 1] \in Nat /\ x \in Nat /\ k \in Nat /\ k >= 1 /\ k <= PackageSum(m)
      /\ x + 8 + MsgLen(m, k) <= WireLength(m) /\ MsgLen(m, k) \in Nat /\ WireLength(m) \in Nat
  BY PlaceOf
<1>2. Len(arrived) \in Nat
  BY LenProperties
<1>3. ASSUME NEW i \in 1 .. 8 PROVE arrived[i] = Header(m, k)[i]
  <2> HIDE DEF x, m
  <2>0. i \in 1 .. Len(arrived) /\ i \in Nat /\ i >= 1 /\ i <= 8
    BY <1>2
  <2>1. arrived[i] = T[at + i]
    BY <2>0
  <2>2. at + i = base[g + 1] + (x + i) /\ x + i \in 1 .. WireLength(m) /\ base[g + 1] + (x + i) <= Len(T)
    <3>1. at = base[g + 1] + x
      BY DEF x, PageStart
    <3>2. at + i <= Len(T)
      BY <1>2, <2>0
    <3> DEFINE b == base[g + 1]
               w == WireLength(m)
               l == MsgLen(m, k)
    <3>2a. b \in Nat /\ x \in Nat /\ w \in Nat /\ l \in Nat /\ x + 8 + l <= w /\ at = b + x
      BY <1>1, <3>1
    <3> HIDE DEF b, w, l
    <3>2b. b + x + i = b + (x + i)
      BY <2>0, <3>2a
    <3>2c. x + i \in Nat /\ x + i >= 1 /\ x + i <= w
      BY <2>0, <3>2a
    <3>2d. x + i \in 1 .. w
      BY <3>2a, <3>2c
    <3>3. at + i = base[g + 1] + (x + i) /\ x + i \in 1 .. WireLength(m)
      BY <3>2a, <3>2b, <3>2d DEF b, w
    <3> QED BY <3>2, <3>3
  <2>3. T[base[g + 1] + (x + i)] = WireByte(m, x + i)
    BY <2>2 DEF Lines, m
  <2>4. WireByte(m, (k - 1) * Frame + i) = Header(m, (k - 1) + 1)[i]
    <3>1. k - 1 \in Nat
      BY <1>1, SMTT(40)
    <3> QED BY <1>1, <3>1, WireHeader
  <2>5. (k - 1) + 1 = k
    BY <1>1
  <2> QED BY <2>1, <2>2, <2>3, <2>4, <2>5 DEF x
<1>4. /\ Get(Header(m, k)[1], Header(m, k)[2]) = MsgLen(m, k)
      /\ Get(Header(m, k)[3], Header(m, k)[4]) = PackageSum(m)
      /\ Get(Header(m, k)[5], Header(m, k)[6]) = k
      /\ Get(Header(m, k)[7], Header(m, k)[8]) = m.fno
  <2>1. m \in Messages /\ PackageSum(m) <= BlockMax /\ k \in Int /\ 1 <= k /\ k <= PackageSum(m)
    BY <1>1
  <2> HIDE DEF m
  <2> QED BY <2>1, HeaderBytes
<1>5. /\ arrived[1] = Header(m, k)[1] /\ arrived[2] = Header(m, k)[2]
      /\ arrived[3] = Header(m, k)[3] /\ arrived[4] = Header(m, k)[4]
      /\ arrived[5] = Header(m, k)[5] /\ arrived[6] = Header(m, k)[6]
      /\ arrived[7] = Header(m, k)[7] /\ arrived[8] = Header(m, k)[8]
  BY <1>3
<1> HIDE DEF m
<1>6. Parse(arrived) = [len |-> MsgLen(m, k), pagesize |-> PackageSum(m), pageno |-> k, fno |-> m.fno]
  BY <1>4, <1>5 DEF Parse
<1> QED BY <1>6 DEF m

LEMMA FlowReadHeader ==
  ASSUME NEW T, NEW base, NEW cuts, NEW at, Flow(T, base, cuts, at),
         SendInv, ReadInv, InBuffer, Len(got) \in Nat, Len(got) <= Len(sent), ReadHeader
  PROVE  (\E T2, base2, cuts2, at2 : Flow(T2, base2, cuts2, at2)') /\ InBuffer'
<1> DEFINE g == Len(got)
           m == sent[g + 1]
<1>1. /\ UNCHANGED <<sent, msg, reader, got, spc, page, flight>>
      /\ arrived \in Seq(Byte) /\ flight \in Seq(Seq(Byte)) /\ Len(arrived) \in Nat
      /\ Len(arrived) >= 8 /\ rpc \in {"first", "next"} /\ rpc' = "body"
      /\ hdr' = Parse(arrived) /\ need' = Parse(arrived).len
      /\ arrived' = SubSeq(arrived, 9, Len(arrived))
      /\ Carries(T, at, cuts, arrived, flight)
  BY LenProperties DEF ReadHeader, packVars, sendVars, ReadInv, Flow
<1>2. /\ at \in Nat /\ \A j \in 1 .. Len(arrived) : arrived[j] = T[at + j]
      /\ T \in Seq(Byte)
  BY <1>1 DEF Carries
<1>2a. Len(T) \in Nat
  BY <1>2, LenProperties
<1>3. /\ at + Len(arrived) <= Len(T)
      /\ Carries(T, at + 8, cuts, SubSeq(arrived, 8 + 1, Len(arrived)), flight)
  BY <1>1, CarriesTake
<1>4. Lines(T, base) /\ Stands(T, base) /\ Borders(base, cuts) /\ Reads(base, at)
  BY DEF Flow
<1>5. PICK k \in Nat : /\ g + 1 \in 1 .. Len(sent) /\ k \in 1 .. PackageSum(m)
                       /\ at = base[g + 1] + (k - 1) * Frame
                       /\ rpc = "first" => k = 1
                       /\ rpc = "next" => /\ Len(body) = (k - 1) * BlockSize
                                          /\ \A i \in 1 .. Len(body) : body[i] = BodyByte(m, i)
                                          /\ room = MsgLen(m, 1) * PackageSum(m) /\ fno = m.fno
  <2>1. CASE rpc = "first"
    <3>1. at = base[g + 1]
      BY <1>4, <2>1 DEF Reads
    <3>2. g < Len(sent) /\ Len(sent) \in Nat
      <4> SUFFICES ASSUME g >= Len(sent) PROVE FALSE
        BY LastSent, LenProperties DEF SendInv
      <4>1. g = Len(sent) /\ base[Len(sent) + 1] = at
        BY <3>1, LenProperties DEF SendInv
      <4>2. Len(T) <= at
        BY <1>4, <4>1 DEF Stands
      <4> QED BY <1>1, <1>2, <1>2a, <1>3, <4>2
    <3>3. g + 1 \in 1 .. Len(sent)
      BY <3>2
    <3>4. m \in Messages /\ 1 \in 1 .. PackageSum(m) /\ base[g + 1] \in Nat
      <4>1. m \in Messages
        BY <3>3, ElementOfSeq DEF SendInv
      <4>2. g + 1 \in 1 .. Len(sent) + 1
        BY <3>2
      <4> QED BY <1>4, <4>1, <4>2, PagesSuffice, BaseNat DEF SendInv
    <3>5. (1 - 1) * Frame = 0
      BY FrameSize
    <3>6. at = base[g + 1] + (1 - 1) * Frame
      BY <3>1, <3>4, <3>5
    <3> QED BY <2>1, <3>3, <3>4, <3>6
  <2>2. CASE rpc = "next"
    <3> DEFINE p == hdr.pageno
    <3>1. g < Len(sent) /\ InPackage(m, base[g + 1], at)
      BY <1>4, <2>2 DEF Reads
    <3>2. /\ p \in 1 .. PackageSum(m) /\ hdr.len = MsgLen(m, p) /\ need = 0
          /\ p < PackageSum(m)
          /\ at = base[g + 1] + (p - 1) * Frame + 8 + (hdr.len - need)
          /\ Len(body) = (p - 1) * BlockSize + (hdr.len - need)
          /\ \A i \in 1 .. Len(body) : body[i] = BodyByte(m, i)
          /\ room = MsgLen(m, 1) * PackageSum(m) /\ fno = m.fno
      BY <2>2, <3>1 DEF InPackage
    <3>3. g + 1 \in 1 .. Len(sent)
      BY <3>1, LenProperties DEF SendInv
    <3>4. /\ m \in Messages /\ base[g + 1] \in Nat /\ (p - 1) * Frame \in Nat
          /\ (p - 1) * BlockSize \in Nat /\ MsgLen(m, p) = BlockSize
          /\ (p - 1) * Frame + 8 + MsgLen(m, p) = p * Frame
          /\ p \in Nat /\ PackageSum(m) \in Nat
      BY <1>4, <3>2, <3>3, PlaceOf
    <3>4a. p < PackageSum(m) /\ p \in Nat /\ PackageSum(m) \in Nat
      BY <3>2, <3>4
    <3>4b. p * BlockSize = (p - 1) * BlockSize + BlockSize
      <4> HIDE DEF p
      <4>1. BlockSize \in Nat
        BY FrameSize
      <4> QED BY <3>4a, <4>1
    <3>5. p + 1 \in 1 .. PackageSum(m) /\ p + 1 \in Nat /\ (p + 1) - 1 = p
      <4> HIDE DEF p, m
      <4> QED BY <3>4a
    <3>6. at = base[g + 1] + p * Frame
      <4> DEFINE x == (p - 1) * Frame
                 y == p * Frame
                 b == base[g + 1]
      <4>1. x \in Nat /\ x + 8 + BlockSize = y /\ b \in Nat
        BY <3>4
      <4>2. at = b + x + 8 + (BlockSize - 0)
        BY <3>2, <3>4
      <4> HIDE DEF x, y, b
      <4>3. at = b + y
        BY <4>1, <4>2, FrameSize
      <4> QED BY <4>3 DEF y, b
    <3>7. Len(body) = p * BlockSize
      <4> DEFINE u == p * BlockSize
                 v == (p - 1) * BlockSize
      <4>1. u = v + BlockSize /\ v \in Nat /\ BlockSize \in Nat
        BY <3>4, <3>4b, FrameSize
      <4>2. Len(body) = v + (BlockSize - 0)
        BY <3>2, <3>4
      <4> HIDE DEF u, v
      <4>3. v + (BlockSize - 0) = u
        BY <4>1
      <4> QED BY <4>2, <4>3 DEF u
    <3> QED BY <2>2, <3>2, <3>3, <3>5, <3>6, <3>7
  <2> QED BY <1>1, <2>1, <2>2
<1>6. Parse(arrived) = [len |-> MsgLen(m, k), pagesize |-> PackageSum(m),
                        pageno |-> k, fno |-> m.fno]
  <2>1. at = PageStart(base[g + 1], k)
    BY <1>5 DEF PageStart
  <2>2. g + 1 \in 1 .. Len(sent) /\ k \in 1 .. PackageSum(sent[g + 1])
    BY <1>5
  <2>3. at + Len(arrived) <= Len(T)
    BY <1>3
  <2> QED BY <1>1, <1>2, <1>4, <2>1, <2>2, <2>3, HeaderRead, ZenonT(60)
<1>7. /\ m \in Messages /\ base[g + 1] \in Nat /\ (k - 1) * Frame \in Nat
      /\ (k - 1) * BlockSize \in Nat /\ MsgLen(m, k) \in Nat
      /\ PackageSum(m) \in Nat
  BY <1>4, <1>5, PlaceOf
<1> DEFINE l == MsgLen(m, k)
<1>8. hdr'.len = l /\ hdr'.pagesize = PackageSum(m) /\ hdr'.pageno = k /\ need' = l
  BY <1>1, <1>6
<1>9. /\ Len(body') = (k - 1) * BlockSize
      /\ \A i \in 1 .. Len(body') : body'[i] = BodyByte(m, i)
      /\ room' = MsgLen(m, 1) * PackageSum(m) /\ fno' = m.fno /\ InBuffer'
  <2>1. CASE rpc = "first"
    <3>1. body' = <<>> /\ room' = MsgLen(m, k) * PackageSum(m) /\ fno' = m.fno /\ k = 1
      BY <1>5, <1>6, <2>1 DEF ReadHeader, RoomFor
    <3>2. Len(body') = 0 /\ (k - 1) * BlockSize = 0
      BY <3>1, FrameSize
    <3>3. room' \in Nat
      BY <1>7, <3>1
    <3> QED BY <3>1, <3>2, <3>3 DEF InBuffer
  <2>2. CASE rpc = "next"
    <3>1. UNCHANGED <<body, room, fno>>
      BY <2>2 DEF ReadHeader
    <3> QED BY <1>5, <2>2, <3>1 DEF InBuffer
  <2> QED BY <1>1, <2>1, <2>2
<1>10. InPackage(m, base[g + 1], at + 8)'
  <2>1. at + 8 = base[g + 1] + (k - 1) * Frame + 8 + (l - l)
    <3> DEFINE x == (k - 1) * Frame
               b == base[g + 1]
    <3>1. at = b + x /\ b \in Nat /\ x \in Nat /\ l \in Nat
      BY <1>5, <1>7
    <3> HIDE DEF x, b, l
    <3>2. at + 8 = b + x + 8 + (l - l)
      BY <3>1
    <3> QED BY <3>2 DEF x, b
  <2>2. Len(body') = (k - 1) * BlockSize + (l - l)
    <3> DEFINE y == (k - 1) * BlockSize
    <3>1. y \in Nat /\ l \in Nat /\ Len(body') = y
      BY <1>7, <1>9
    <3> HIDE DEF y, l
    <3>2. Len(body') = y + (l - l)
      BY <3>1
    <3> QED BY <3>2 DEF y
  <2>3. l \in 0 .. l /\ l \in {0, l}
    BY <1>7
  <2>4. sent' = sent /\ got' = got
    BY <1>1
  <2> HIDE DEF l
  <2> QED BY <1>1, <1>5, <1>8, <1>9, <2>1, <2>2, <2>3, <2>4 DEF InPackage, l
<1>11. Reads(base, at + 8)'
  <2>1. g < Len(sent)
    BY <1>5, LenProperties DEF SendInv
  <2> QED BY <1>1, <1>10, <2>1 DEF Reads
<1>12. Lines(T, base)' /\ Stands(T, base)' /\ Borders(base, cuts)'
  BY <1>1, <1>4 DEF Lines, Stands, Borders
<1>13. Carries(T, at + 8, cuts, arrived, flight)'
  BY <1>1, <1>3
<1>14. Flow(T, base, cuts, at + 8)'
  BY <1>11, <1>12, <1>13 DEF Flow
<1> QED BY <1>9, <1>14

(* What one read takes belongs to the package, and to a client, or of a    *)
(* message of several packages, it is all of its body: the server asks     *)
(* recv() for too much, but the sender waits for the answer, and the       *)
(* pieces end where the packages do.                                       *)
LEMMA TakesRight ==
  ASSUME NEW T, NEW base, NEW cuts, NEW at, Flow(T, base, cuts, at),
         SendInv, ReadInv, Turns, reader \in {"server", "client"}, Len(got) \in Nat,
         rpc = "body", need > 0, Takes > 0
  PROVE  /\ Takes \in Nat /\ Takes <= need /\ Takes <= Len(arrived)
         /\ (reader = "client" \/ PackageSum(sent[Len(got) + 1]) > 1) => Takes = need
<1> DEFINE g == Len(got)
           m == sent[g + 1]
           k == hdr.pageno
           b == base[g + 1]
           x == (k - 1) * Frame
           l == hdr.len
           s == PackageSum(m)
           w == WireLength(m)
           a == Len(arrived)
<1>1. /\ g < Len(sent) /\ InPackage(m, b, at)
      /\ Lines(T, base) /\ Stands(T, base) /\ Borders(base, cuts)
      /\ Carries(T, at, cuts, arrived, flight)
  BY DEF Flow, Reads
<1>2. /\ k \in 1 .. s /\ l = MsgLen(m, k) /\ need \in 0 .. l
      /\ at = b + x + 8 + (l - need)
      /\ (reader = "client" \/ s > 1) => need \in {0, l}
  BY <1>1 DEF InPackage
<1>3. Len(sent) \in Nat /\ g + 1 \in 1 .. Len(sent)
  BY <1>1, LenProperties DEF SendInv
<1>4. /\ m \in Messages /\ b \in Nat /\ x \in Nat /\ k \in Nat /\ k >= 1 /\ k <= s /\ s \in Nat
      /\ base[(g + 1) + 1] = b + w /\ w \in Nat /\ l \in Nat
      /\ k = s => x + 8 + l = w
  <2>1. Lines(T, base) /\ g + 1 \in 1 .. Len(sent) /\ k \in 1 .. PackageSum(sent[g + 1])
    BY <1>1, <1>2, <1>3
  <2>2. /\ m \in Messages /\ b \in Nat /\ x \in Nat /\ k \in Nat /\ k >= 1 /\ k <= s /\ s \in Nat
        /\ base[(g + 1) + 1] = b + w /\ w \in Nat /\ MsgLen(m, k) \in Nat
        /\ k = s => x + 8 + MsgLen(m, k) = w
    BY <2>1, PlaceOf, ZenonT(60)
  <2>3. l = MsgLen(m, k)
    BY <1>2
  <2> HIDE DEF l, w, b, x, s
  <2> QED BY <2>2, <2>3
<1>5. Takes \in Nat /\ Takes <= a /\ a \in Nat
  <2>1. hdr.len \in Nat /\ arrived \in Seq(Byte)
    BY DEF ReadInv
  <2> QED BY <2>1, TakesBound, LenProperties
<1>6. /\ cuts[1] = at + a /\ at \in Nat /\ at + a <= Len(T) /\ Len(T) \in Nat /\ 1 \in 1 .. Len(cuts)
  <2>1. arrived \in Seq(Byte) /\ flight \in Seq(Seq(Byte))
    BY DEF ReadInv
  <2>2. 0 \in Nat /\ 0 <= Len(arrived)
    BY <1>5
  <2>3. at + Len(arrived) <= Len(T)
    BY <1>1, <2>1, <2>2, CarriesTake
  <2>4. /\ cuts[1] = at + a /\ at \in Nat /\ T \in Seq(Byte) /\ Len(cuts) = Len(flight) + 1
    BY <1>1 DEF Carries
  <2>4a. T \in Seq(Byte)
    BY <2>4
  <2>5. Len(T) \in Nat /\ Len(flight) \in Nat
    BY <2>1, <2>4a, LenProperties
  <2>6. 1 \in 1 .. Len(cuts)
    BY <2>4, <2>5
  <2> QED BY <2>3, <2>4, <2>5, <2>6
<1>7. CASE reader = "client"
  <2>1. need = l
    BY <1>2, <1>7
  <2>2. Takes = l
    BY <1>7 DEF Takes
  <2> QED BY <1>4, <1>5, <2>1, <2>2
<1>8. CASE reader = "server"
  <2>1. Len(sent) = g + 1 /\ sent # <<>> /\ m = msg
    <3>1. Len(sent) <= g + 1
      BY <1>8 DEF Turns
    <3>2. Len(sent) = g + 1
      BY <1>1, <1>3, <3>1
    <3>3. sent # <<>>
      BY <1>3, <3>2, EmptySeq DEF SendInv
    <3> QED BY <3>2, <3>3 DEF SendInv
  <2>2. Takes = Min({l, a})
    BY <1>8 DEF Takes
  <2>3. CASE s > 1
    <3>1. need = l /\ l > 0
      BY <1>2, <2>3
    <3>2. ~Within(cuts[1], base[Len(sent)] + (k - 1) * Frame + 8, MsgLen(msg, k))
      BY <1>1, <1>2, <1>6, <1>8, <2>1, <2>3 DEF Borders
    <3>3. ~Within(at + a, b + x + 8, l)
      BY <1>2, <1>6, <2>1, <3>2
    <3>4. at = b + x + 8
      <4> HIDE DEF b, x, l
      <4>1. at = b + x + 8 + (l - l)
        BY <1>2, <3>1
      <4>2. b + x + 8 + (l - l) = b + x + 8
        BY <1>4
      <4> QED BY <4>1, <4>2
    <3>5. a >= l
      <4> HIDE DEF b, x, l, a
      <4>1. ~(at < at + a /\ at + a < at + l)
        BY <3>3, <3>4 DEF Within
      <4> QED BY <1>4, <1>5, <1>6, <4>1
    <3>6. Takes = l
      BY <1>4, <1>5, <2>2, <3>5, MinOfTwo
    <3> QED BY <1>4, <1>5, <3>1, <3>6
  <2>4. CASE s = 1
    <3>1. Len(T) <= base[(g + 1) + 1]
      BY <1>1, <2>1 DEF Stands
    <3>2. k = s
      BY <1>4, <2>4
    <3>3. a <= need
      <4> DEFINE z == base[(g + 1) + 1]
      <4>0. z = b + w /\ b \in Nat /\ w \in Nat /\ Len(T) <= z
        BY <1>4, <3>1
      <4> HIDE DEF a, b, l, x, w, s, k, z
      <4>1. at + a <= b + w
        BY <4>0, <1>5, <1>6
      <4>2. x + 8 + l = w /\ at = b + x + 8 + (l - need) /\ need \in Int
        BY <1>2, <1>4, <3>2
      <4>3. b + x + 8 + (l - need) + a <= b + (x + 8 + l)
        BY <4>1, <4>2
      <4> QED BY <1>4, <1>5, <4>2, <4>3
    <3>4. need \in Int
      BY DEF ReadInv
    <3> QED BY <1>5, <1>8, <2>4, <3>3, <3>4
  <2> QED BY <1>4, <2>3, <2>4
<1> QED BY <1>7, <1>8

LEMMA FlowReadBody ==
  ASSUME NEW T, NEW base, NEW cuts, NEW at, Flow(T, base, cuts, at),
         SendInv, ReadInv, Turns, reader \in {"server", "client"}, Len(got) \in Nat,
         ReadBody
  PROVE  (\E T2, base2, cuts2, at2 : Flow(T2, base2, cuts2, at2)') /\ InBuffer'
<1> DEFINE g == Len(got)
           m == sent[g + 1]
           k == hdr.pageno
           b == base[g + 1]
           x == (k - 1) * Frame
           y == (k - 1) * BlockSize
           l == hdr.len
           s == PackageSum(m)
           w == WireLength(m)
<1>1. PICK n : n = Takes
  OBVIOUS
<1>2. /\ rpc = "body" /\ need > 0 /\ Takes > 0
      /\ body' = body \o SubSeq(arrived, 1, n)
      /\ arrived' = SubSeq(arrived, n + 1, Len(arrived))
      /\ need' = need - n
      /\ UNCHANGED <<sent, msg, reader, got, spc, page, flight, rpc, hdr, room, fno>>
  BY <1>1 DEF ReadBody, packVars, sendVars
<1>3. /\ n \in Nat /\ n <= need /\ n <= Len(arrived)
      /\ (reader = "client" \/ s > 1) => n = need
  BY <1>1, <1>2, TakesRight
<1>4. /\ g < Len(sent) /\ InPackage(m, b, at)
      /\ Lines(T, base) /\ Stands(T, base) /\ Borders(base, cuts)
      /\ Carries(T, at, cuts, arrived, flight)
  BY <1>2 DEF Flow, Reads
<1>5. /\ k \in 1 .. s /\ l = MsgLen(m, k) /\ hdr.pagesize = s /\ need \in 0 .. l
      /\ at = b + x + 8 + (l - need)
      /\ Len(body) = y + (l - need)
      /\ \A i \in 1 .. Len(body) : body[i] = BodyByte(m, i)
      /\ room = MsgLen(m, 1) * s /\ fno = m.fno
  BY <1>4 DEF InPackage
<1>6. g + 1 \in 1 .. Len(sent)
  BY <1>4, LenProperties DEF SendInv
<1>7. /\ m \in Messages /\ b \in Nat /\ x \in Nat /\ y \in Nat /\ k \in Nat /\ k >= 1 /\ k <= s
      /\ s \in Nat /\ w \in Nat /\ l \in Nat /\ x + 8 + l <= w /\ l <= BlockSize
      /\ need \in Nat /\ need <= l
  <2>1. need \in Nat /\ need <= l
    BY <1>5 DEF ReadInv
  <2>2. Lines(T, base) /\ k \in 1 .. PackageSum(sent[g + 1])
    BY <1>4, <1>5
  <2>3. /\ m \in Messages /\ b \in Nat /\ x \in Nat /\ y \in Nat /\ k \in Nat /\ k >= 1 /\ k <= s
        /\ s \in Nat /\ w \in Nat /\ MsgLen(m, k) \in Nat /\ x + 8 + MsgLen(m, k) <= w
        /\ MsgLen(m, k) <= BlockSize
    BY <1>6, <2>2, PlaceOf
  <2>4. l = MsgLen(m, k)
    BY <1>5
  <2> HIDE DEF l, w, b, x, y, s
  <2> QED BY <2>1, <2>3, <2>4
<1>8. /\ arrived \in Seq(Byte) /\ body \in Seq(Byte) /\ flight \in Seq(Seq(Byte))
  BY DEF ReadInv
<1>9. /\ at + Len(arrived) <= Len(T)
      /\ Carries(T, at + n, cuts, SubSeq(arrived, n + 1, Len(arrived)), flight)
  BY <1>3, <1>4, <1>8, CarriesTake
<1>10. /\ at \in Nat /\ T \in Seq(Byte) /\ \A j \in 1 .. Len(arrived) : arrived[j] = T[at + j]
  BY <1>4 DEF Carries
<1>10a. Len(T) \in Nat /\ Len(arrived) \in Nat /\ Len(body) \in Nat
  BY <1>8, <1>10, LenProperties
<1>11. PICK h : h = SubSeq(arrived, 1, n)
  OBVIOUS
<1>12. h \in Seq(Byte) /\ Len(h) = n /\ \A i \in 1 .. n : h[i] = arrived[i]
  BY <1>3, <1>8, <1>11, Prefix
<1>12a. h \in Seq(Byte)
  BY <1>12
<1>13. /\ Len(body') = Len(body) + n
       /\ \A i \in 1 .. Len(body) : body'[i] = body[i]
       /\ \A i \in 1 .. n : body'[Len(body) + i] = h[i]
  <2>1. /\ Len(body \o h) = Len(body) + Len(h)
        /\ \A i \in 1 .. Len(body) : (body \o h)[i] = body[i]
        /\ \A i \in 1 .. Len(h) : (body \o h)[Len(body) + i] = h[i]
    BY <1>8, <1>12a, Joint
  <2>2. body' = body \o h
    BY <1>2, <1>11
  <2> QED BY <1>12, <2>1, <2>2
<1> DEFINE d == l - need
<1>14. d \in Nat /\ d + n <= l /\ need' = need - n /\ l - need' = d + n /\ need - n \in 0 .. l
  <2> HIDE DEF l
  <2> QED BY <1>2, <1>3, <1>7
<1>15. at = b + x + 8 + d /\ Len(body) = y + d
  BY <1>5
<1> HIDE DEF d
<1>16. ASSUME NEW i \in 1 .. n PROVE h[i] = BodyByte(m, y + d + i)
  <2>1. i \in 1 .. Len(arrived) /\ i \in Nat /\ i >= 1 /\ i <= n
    BY <1>3, <1>10a
  <2>2. h[i] = T[at + i]
    BY <1>10, <1>12, <2>1
  <2> DEFINE j == x + 8 + d + i
  <2>3. at + i = b + j /\ j \in 1 .. w /\ b + j <= Len(T)
    <3> HIDE DEF b, x, w, l
    <3>1. at + i <= Len(T)
      BY <1>3, <1>9, <1>10, <1>10a, <2>1
    <3>2. b + x + 8 + d + i = b + (x + 8 + d + i)
      BY <1>7, <1>14, <2>1
    <3>3. x + 8 + d + i \in Nat /\ x + 8 + d + i >= 1 /\ x + 8 + d + i <= w
      BY <1>3, <1>7, <1>14, <2>1
    <3> QED BY <1>7, <1>15, <3>1, <3>2, <3>3
  <2> HIDE DEF j
  <2>4. T[b + j] = WireByte(m, j)
    BY <1>4, <1>6, <2>3 DEF Lines
  <2>5. WireByte(m, (k - 1) * Frame + 8 + (d + i)) = BodyByte(m, (k - 1) * BlockSize + (d + i))
    <3>1. k - 1 \in Nat
      BY <1>7, SMTT(40)
    <3>2. d + i \in 1 .. BlockSize
      <4> HIDE DEF l
      <4> QED BY <1>3, <1>7, <1>14, <2>1, FrameSize
    <3> QED BY <1>7, <3>1, <3>2, WireBody
  <2>6. j = x + 8 + (d + i) /\ y + (d + i) = y + d + i
    <3> HIDE DEF x, y
    <3> QED BY <1>7, <1>14, <2>1 DEF j
  <2> QED BY <2>2, <2>3, <2>4, <2>5, <2>6
<1>17. \A i \in 1 .. Len(body') : body'[i] = BodyByte(m, i)
  <2> TAKE i \in 1 .. Len(body')
  <2>1. CASE i \in 1 .. Len(body)
    BY <2>1, <1>5, <1>13
  <2>2. CASE i > Len(body)
    <3> DEFINE j == i - Len(body)
    <3>1. j \in 1 .. n /\ i = Len(body) + j
      BY <1>3, <1>10a, <1>13, <2>2
    <3> HIDE DEF j
    <3>2. body'[Len(body) + j] = h[j] /\ h[j] = BodyByte(m, y + d + j)
      BY <1>13, <1>16, <3>1
    <3> QED BY <1>15, <3>1, <3>2
  <2> QED BY <1>3, <1>10a, <1>13, <2>1, <2>2
<1>18. at + n = b + x + 8 + (l - need') /\ Len(body') = y + (l - need')
  <2> HIDE DEF b, x, y, l
  <2>1. (b + x + 8 + d) + n = b + x + 8 + (d + n) /\ (y + d) + n = y + (d + n)
    BY <1>3, <1>7, <1>14
  <2> QED BY <1>13, <1>14, <1>15, <2>1
<1>19. InPackage(m, b, at + n)'
  <2>1. (reader = "client" \/ s > 1) => need' \in {0, l}
    BY <1>3, <1>7, <1>14
  <2>2. need' \in 0 .. l
    BY <1>14
  <2> QED BY <1>2, <1>5, <1>17, <1>18, <2>1, <2>2 DEF InPackage
<1>20. InBuffer'
  <2>0. m \in Messages /\ 1 \in Int /\ 1 <= 1 /\ 1 <= s /\ (s > 1 => 1 < s)
    BY <1>7
  <2>1. room' = MsgLen(m, 1) * s
    BY <1>2, <1>5
  <2>1a. Len(body') <= y + l
    <3>1. Len(body') = y + (d + n)
      BY <1>14, <1>18
    <3> HIDE DEF y, l
    <3> QED BY <3>1, <1>3, <1>7, <1>14
  <2>2. y + l <= MsgLen(m, 1) * s
    <3>1. CASE s = 1
      <4>1. k = 1
        BY <1>7, <3>1
      <4>2. y = 0 /\ l = MsgLen(m, 1)
        BY <1>5, <4>1, FrameSize
      <4> QED BY <1>7, <3>1, <4>2
    <3>2. CASE s > 1
      <4>1. MsgLen(m, 1) = BlockSize /\ BlockSize \in Nat
        BY <2>0, <3>2, MsgLenIs, FrameSize
      <4>2. k * BlockSize <= s * BlockSize
        BY <1>7, <4>1, ProductMonotone
      <4>3. k * BlockSize = y + BlockSize
        BY <1>7, <4>1, SMTT(40)
      <4>4. s * BlockSize = BlockSize * s
        BY <1>7, <4>1
      <4> HIDE DEF y, l
      <4> QED BY <1>7, <4>1, <4>2, <4>3, <4>4
    <3> QED BY <1>7, <3>1, <3>2
  <2>3. MsgLen(m, 1) * s \in Nat
    <3>1. MsgLen(m, 1) \in Nat
      BY <2>0, MsgLenIs
    <3> QED BY <1>7, <3>1, SMTT(40)
  <2> DEFINE r == MsgLen(m, 1) * s
  <2>4. Len(body') \in Nat /\ y + l \in Nat
    <3>1. Len(body') = Len(body) + n
      BY <1>13
    <3> HIDE DEF y, l
    <3> QED BY <3>1, <1>3, <1>7, <1>10a
  <2> HIDE DEF r, y, l
  <2>5. room' = r /\ Len(body') <= y + l /\ y + l <= r /\ r \in Nat
    BY <2>1, <2>1a, <2>2, <2>3 DEF r
  <2>6. Len(body') <= room'
    BY <2>4, <2>5
  <2> QED BY <2>6 DEF InBuffer
<1>21. Reads(base, at + n)'
  BY <1>2, <1>4, <1>19 DEF Reads
<1>22. Lines(T, base)' /\ Stands(T, base)' /\ Borders(base, cuts)'
  BY <1>2, <1>4 DEF Lines, Stands, Borders
<1>23. Carries(T, at + n, cuts, arrived, flight)'
  BY <1>2, <1>9
<1>24. Flow(T, base, cuts, at + n)'
  BY <1>21, <1>22, <1>23 DEF Flow
<1> QED BY <1>20, <1>24

LEMMA FlowNextPage ==
  ASSUME NEW T, NEW base, NEW cuts, NEW at, Flow(T, base, cuts, at), ReadInv, ReadNextPage
  PROVE  \E T2, base2, cuts2, at2 : Flow(T2, base2, cuts2, at2)'
<1> DEFINE m == sent[Len(got) + 1]
           b == base[Len(got) + 1]
<1>1. /\ rpc = "body" /\ need <= 0 /\ hdr.pagesize > hdr.pageno /\ rpc' = "next"
      /\ UNCHANGED <<sent, msg, reader, got, spc, page, flight, arrived, hdr, need, room, body, fno>>
  BY DEF ReadNextPage, MorePages, packVars, sendVars
<1>2. Len(got) < Len(sent) /\ InPackage(m, b, at)
  BY <1>1 DEF Flow, Reads
<1>3. need = 0 /\ hdr.pageno < PackageSum(m)
  <2>1. need \in 0 .. hdr.len /\ hdr.len \in Nat /\ hdr.pagesize = PackageSum(m)
    BY <1>2 DEF InPackage, ReadInv
  <2> QED BY <1>1, <2>1
<1>4. InPackage(m, b, at)'
  BY <1>1, <1>2, <1>3 DEF InPackage
<1>5. Reads(base, at)'
  BY <1>1, <1>2, <1>4 DEF Reads
<1>6. Flow(T, base, cuts, at)'
  BY <1>1, <1>5 DEF Flow, Lines, Stands, Borders
<1> QED BY <1>6

(* The body that is returned is all of the message, and no more.           *)
LEMMA FlowDone ==
  ASSUME NEW T, NEW base, NEW cuts, NEW at, Flow(T, base, cuts, at),
         SendInv, ReadInv, Len(got) \in Nat, ReadDone
  PROVE  /\ Len(got) + 1 \in 1 .. Len(sent)
         /\ got' = Append(got, Whole(sent[Len(got) + 1]))
         /\ \A at2 : /\ at2 = base[(Len(got) + 1) + 1]
                     /\ Len(got') = Len(got) + 1
                     => Flow(T, base, cuts, at2)'
<1> DEFINE g == Len(got)
           m == sent[g + 1]
           b == base[g + 1]
           s == PackageSum(m)
           l == MsgLen(m, s)
           x == (s - 1) * Frame
           y == (s - 1) * BlockSize
           w == WireLength(m)
           f == FullLen(m)
<1>1. /\ rpc = "body" /\ need <= 0 /\ ~(hdr.pagesize > hdr.pageno) /\ rpc' = "first"
      /\ UNCHANGED <<sent, msg, reader, spc, page, flight, arrived, hdr, need, room, body, fno>>
      /\ got' = Append(got, [fno |-> fno,
                             body |-> [i \in 1 .. BodyLength |->
                                         IF i <= Len(body) THEN body[i] ELSE 0]])
  BY DEF ReadDone, MorePages, packVars, sendVars
<1>2. g < Len(sent) /\ InPackage(m, b, at) /\ Lines(T, base)
  BY <1>1 DEF Flow, Reads
<1>3. g + 1 \in 1 .. Len(sent)
  BY <1>2, LenProperties DEF SendInv
<1>4. /\ hdr.pageno \in 1 .. s /\ hdr.len = MsgLen(m, hdr.pageno) /\ hdr.pagesize = s
      /\ need \in 0 .. hdr.len /\ hdr.len \in Nat
      /\ at = b + (hdr.pageno - 1) * Frame + 8 + (hdr.len - need)
      /\ Len(body) = (hdr.pageno - 1) * BlockSize + (hdr.len - need)
      /\ \A i \in 1 .. Len(body) : body[i] = BodyByte(m, i)
      /\ room = MsgLen(m, 1) * s /\ fno = m.fno
  BY <1>2 DEF InPackage, ReadInv
<1>5. m \in Messages /\ s \in Nat /\ s >= 1 /\ f \in Nat
  BY <1>3, PagesSuffice, FullLenPositive, ElementOfSeq DEF SendInv
<1>6. hdr.pageno = s /\ need = 0
  <2>1. hdr.pageno \in 1 .. s /\ hdr.pagesize = s /\ need \in 0 .. hdr.len /\ hdr.len \in Nat
    BY <1>4
  <2> HIDE DEF s
  <2> QED BY <1>1, <1>5, <2>1
<1>7. s \in 1 .. PackageSum(sent[g + 1])
  BY <1>5
<1>8. /\ b \in Nat /\ x \in Nat /\ y \in Nat /\ base[(g + 1) + 1] = b + w /\ w \in Nat
      /\ x + 8 + l = w /\ l \in Nat /\ l <= BlockSize
  BY <1>2, <1>3, <1>7, PlaceOf, SMTT(40)
<1>9. y + l = f
  <2>1. l = f - y
    BY <1>5, MsgLenIs
  <2> HIDE DEF l, f, y
  <2> QED BY <1>5, <1>8, <2>1
<1>10. at = b + w /\ Len(body) = f
  <2>1. at = b + x + 8 + (l - 0) /\ Len(body) = y + (l - 0)
    BY <1>4, <1>6
  <2> HIDE DEF b, x, y, l, w, f
  <2> QED BY <1>8, <1>9, <2>1
<1>11. BodyLength = f
  <2>1. hdr.pagesize = s /\ hdr.pageno = s /\ hdr.len = l /\ room = MsgLen(m, 1) * s
    BY <1>4, <1>6
  <2>2. CASE s = 1
    <3>1. room = l /\ y = 0
      <4>1. MsgLen(m, 1) * 1 = MsgLen(m, 1) /\ l = MsgLen(m, 1)
        BY <1>8, <2>2
      <4> QED BY <2>1, <2>2, <4>1, FrameSize
    <3>2. BodyLength = room
      BY <2>1, <2>2 DEF BodyLength
    <3> QED BY <1>8, <1>9, <3>1, <3>2
  <2>3. CASE s > 1
    <3>1. MsgLen(m, 1) = BlockSize /\ BlockSize \in Nat
      <4>1. 1 \in Int /\ 1 <= 1 /\ 1 <= s /\ 1 < s
        BY <1>5, <2>3
      <4> QED BY <1>5, <4>1, MsgLenIs, FrameSize
    <3>2. BlockSize * s = y + BlockSize
      <4> HIDE DEF s
      <4>1. BlockSize * s = (s - 1) * BlockSize + BlockSize
        BY <1>5, <3>1
      <4> QED BY <4>1
    <3>3. BodyLength = room - (BlockSize - hdr.len)
      BY <2>1, <2>3 DEF BodyLength
    <3>4. room = y + BlockSize
      BY <2>1, <3>1, <3>2
    <3>5. BodyLength = (y + BlockSize) - (BlockSize - l)
      BY <2>1, <3>3, <3>4
    <3> HIDE DEF y, l, f
    <3> QED BY <1>8, <1>9, <3>1, <3>5
  <2> QED BY <1>5, <2>2, <2>3
<1>12. got' = Append(got, Whole(m))
  <2>1. [i \in 1 .. f |-> IF i <= Len(body) THEN body[i] ELSE 0] = Body(m, 0, f)
    <3>1. f - 0 = f
      BY <1>5
    <3>2. ASSUME NEW i \in 1 .. f
          PROVE  (IF i <= Len(body) THEN body[i] ELSE 0) = BodyByte(m, 0 + i)
      <4>1. i \in 1 .. Len(body) /\ i <= Len(body) /\ 0 + i = i
        BY <1>5, <1>10
      <4> QED BY <1>4, <4>1
    <3> HIDE DEF f
    <3> QED BY <3>1, <3>2 DEF Body
  <2> QED BY <1>1, <1>4, <1>11, <2>1 DEF Whole
<1>13. ASSUME NEW at2, at2 = base[(g + 1) + 1], Len(got') = g + 1
       PROVE  Flow(T, base, cuts, at2)'
  <2>1. at2 = at
    BY <1>8, <1>10, <1>13
  <2>2. Reads(base, at)'
    BY <1>1, <1>13, <2>1 DEF Reads
  <2>3. Carries(T, at, cuts, arrived, flight)' /\ Lines(T, base)' /\ Stands(T, base)'
        /\ Borders(base, cuts)'
    BY <1>1 DEF Flow, Lines, Stands, Borders
  <2> QED BY <2>1, <2>2, <2>3 DEF Flow
<1> QED BY <1>3, <1>12, <1>13

-----------------------------------------------------------------------------
(* What _doRead returns.                                                   *)

LEMMA StreamInit == Init => StreamInv
<1> SUFFICES ASSUME Init PROVE StreamInv
  OBVIOUS
<1>1. /\ sent = <<>> /\ got = <<>> /\ body = <<>> /\ arrived = <<>> /\ flight = <<>>
      /\ room = 0 /\ spc = "idle" /\ rpc = "first"
      /\ Len(sent) = 0 /\ Len(got) = 0 /\ Len(body) = 0
  BY DEF Init
<1>2. InBuffer /\ Intact /\ Turns /\ got \in Seq({Whole(m) : m \in Messages})
  BY <1>1 DEF InBuffer, Intact, Turns
<1>3. Carries(<<>>, 0, <<0>>, arrived, flight)
  BY <1>1 DEF Carries
<1>4. Lines(<<>>, <<0>>) /\ Stands(<<>>, <<0>>)
  BY <1>1 DEF Lines, Stands
<1>5. Borders(<<0>>, <<0>>) /\ Reads(<<0>>, 0)
  BY <1>1 DEF Borders, Reads
<1>6. Flow(<<>>, <<0>>, <<0>>, 0)
  BY <1>3, <1>4, <1>5 DEF Flow
<1> QED BY <1>2, <1>6 DEF StreamInv

LEMMA StreamNext == TypeInv /\ StreamInv /\ [Next]_vars => StreamInv'
<1> SUFFICES ASSUME TypeInv, StreamInv, [Next]_vars, Unsplit'
             PROVE  /\ InBuffer' /\ Intact' /\ Turns' /\ (got \in Seq({Whole(m) : m \in Messages}))'
                    /\ Reading' => \E T, base, cuts, at : Flow(T, base, cuts, at)'
  BY DEF StreamInv
<1> DEFINE Returned == {Whole(m) : m \in Messages}
           Flows == \E T, base, cuts, at : Flow(T, base, cuts, at)'
<1>1. Unsplit /\ reader' = reader /\ reader \in {"server", "client"} /\ SplitPaged \in BOOLEAN
  BY UnsplitBefore, WireAssumption DEF TypeInv
<1>2. InBuffer /\ Intact /\ Turns /\ got \in Seq(Returned) /\ SendInv /\ ReadInv
  BY <1>1 DEF StreamInv, TypeInv
<1>2a. Len(got) \in Nat /\ Len(sent) \in Nat /\ Len(got) <= Len(sent)
       /\ \A k \in 1 .. Len(got) : got[k] = Whole(sent[k])
  BY <1>2, LenProperties DEF Intact, SendInv
<1>3. ASSUME Reading
      PROVE  \E T, base, cuts, at : Flow(T, base, cuts, at)
  BY <1>1, <1>3 DEF StreamInv
<1>4. ASSUME UNCHANGED <<sent, got, body, room>>,
             spc' = "idle" => spc = "idle" \/ reader = "client" \/ Len(got) = Len(sent)
      PROVE  InBuffer' /\ Intact' /\ Turns' /\ (got \in Seq(Returned))'
  BY <1>1, <1>2, <1>4 DEF InBuffer, Intact, Turns
<1>5. ASSUME UNCHANGED <<arrived, flight, sent, msg, reader, rpc, hdr, need, room, body, fno, got>>,
             Reading', \A T, base : Stands(T, base) => Stands(T, base)'
      PROVE  Flows
  <2>1. Reading
    BY <1>5 DEF Reading
  <2>2. PICK T, base, cuts, at : Flow(T, base, cuts, at)
    BY <1>3, <2>1
  <2>3. Stands(T, base)'
    BY <1>5, <2>2 DEF Flow
  <2>4. Flow(T, base, cuts, at)'
    BY <1>5, <2>2, <2>3, FlowStays
  <2> QED BY <2>4
<1>6. CASE SendTooLong \/ SendPack \/ UNCHANGED vars
  <2>1. UNCHANGED <<arrived, flight, sent, reader, rpc, hdr, need, room, body, fno, got, spc, page>>
    BY <1>6 DEF SendTooLong, SendPack, vars, sendVars, readVars
  <2>2. msg' = msg
    BY <1>6 DEF SendTooLong, SendPack, AddToBody, Cross, Fit, vars, packVars
  <2>3. \A T, base : Stands(T, base) => Stands(T, base)'
    BY <2>1 DEF Stands
  <2> QED BY <1>4, <1>5, <2>1, <2>2, <2>3
<1>7. CASE SendReady
  <2>1. /\ UNCHANGED <<arrived, flight, sent, msg, reader, rpc, hdr, need, room, body, fno, got, page>>
        /\ spc = "pack" /\ spc' = "header"
    BY <1>7 DEF SendReady, packVars, readVars
  <2>2. page = 1 /\ sent # <<>>
    BY <1>2, <2>1 DEF SendInv
  <2>3. Reading' => Flows
    <3> SUFFICES ASSUME Reading' PROVE Flows
      OBVIOUS
    <3>1. Reading
      BY <2>1 DEF Reading
    <3>2. PICK T, base, cuts, at : Flow(T, base, cuts, at)
      BY <1>3, <3>1
    <3>3. Len(T) = base[Len(sent)] /\ Len(T) <= base[Len(sent) + 1] /\ Len(T) \in Nat
      <4>1. T \in Seq(Byte)
        BY <3>2 DEF Flow, Carries
      <4>2. Len(T) \in Nat
        BY <4>1, LenProperties
      <4> QED BY <2>1, <3>2, <4>2 DEF Flow, Stands
    <3>4. (1 - 1) * Frame = 0
      BY FrameSize
    <3>5. Len(T) = base[Len(sent)] + (page' - 1) * Frame
      BY <2>1, <2>2, <3>3, <3>4
    <3>6. Stands(T, base)'
      BY <2>1, <3>3, <3>5 DEF Stands
    <3>7. Flow(T, base, cuts, at)'
      BY <2>1, <3>2, <3>6, FlowStays
    <3> QED BY <3>7
  <2> QED BY <1>4, <2>1, <2>3
<1>8. CASE SendReplied
  <2>1. /\ UNCHANGED <<arrived, flight, sent, msg, reader, rpc, hdr, need, room, body, fno, got, page>>
        /\ spc = "reply" /\ spc' = "idle" /\ Len(got) = Len(sent)
    BY <1>8 DEF SendReplied, packVars, readVars
  <2>2. \A T, base : Stands(T, base) => Stands(T, base)'
    BY <2>1 DEF Stands
  <2> QED BY <1>4, <1>5, <2>1, <2>2
<1>9. CASE Close
  <2>1. /\ UNCHANGED <<arrived, flight, sent, msg, reader, rpc, hdr, need, room, body, fno, got, page>>
        /\ spc' = "closed"
    BY <1>9 DEF Close, packVars, readVars
  <2>2. \A T, base : Stands(T, base) => Stands(T, base)'
    BY <2>1 DEF Stands
  <2> QED BY <1>4, <1>5, <2>1, <2>2
<1>10. CASE SendBegin
  <2>1. PICK m \in Messages : sent' = Append(sent, m)
    BY <1>10 DEF SendBegin
  <2>2. /\ UNCHANGED <<got, body, room, rpc>> /\ spc = "idle" /\ spc' = "pack"
    BY <1>10 DEF SendBegin, readVars
  <2>3. Len(sent') = Len(sent) + 1 /\ \A q \in 1 .. Len(sent) : sent'[q] = sent[q]
    BY <1>2, <2>1, AppendProperties DEF SendInv
  <2>4. Intact'
    <3>1. \A k \in 1 .. Len(got) : k \in 1 .. Len(sent)
      BY <1>2a
    <3>2. \A k \in 1 .. Len(got) : got[k] = Whole(sent'[k])
      BY <1>2a, <2>3, <3>1
    <3>3. DOMAIN got = 1 .. Len(got)
      BY <1>2
    <3> QED BY <1>2a, <2>2, <2>3, <3>2, <3>3 DEF Intact
  <2>5. InBuffer' /\ (got \in Seq(Returned))'
    BY <1>2, <2>2 DEF InBuffer
  <2>6. Turns'
    BY <1>1, <1>2, <1>2a, <2>2, <2>3 DEF Turns
  <2>7. ASSUME Reading' PROVE Flows
    <3>1. Reading
      BY <2>2, <2>7 DEF Reading
    <3>2. PICK T, base, cuts, at : Flow(T, base, cuts, at)
      BY <1>3, <3>1
    <3>3. \E base2 : Flow(T, base2, cuts, at)'
      BY <1>2, <1>2a, <1>10, <3>2, FlowBegin
    <3> QED BY <3>3
  <2> QED BY <2>4, <2>5, <2>6, <2>7
<1>11. CASE SendHeader \/ SendBody \/ Arrive
  <2>1. UNCHANGED <<sent, got, body, room, rpc>>
    BY <1>11 DEF SendHeader, SendBody, Arrive, sendVars, readVars
  <2>2. spc' = "idle" => spc = "idle" \/ reader = "client" \/ Len(got) = Len(sent)
    BY <1>1, <1>11 DEF SendHeader, SendBody, Arrive, sendVars
  <2>3. ASSUME Reading' PROVE Flows
    <3>1. Reading
      BY <2>1, <2>3 DEF Reading
    <3>2. PICK T, base, cuts, at : Flow(T, base, cuts, at)
      BY <1>3, <3>1
    <3> QED BY <1>1, <1>2, <1>11, <3>2, FlowHeader, FlowBody, FlowArrive
  <2> QED BY <1>4, <2>1, <2>2, <2>3
<1>12. CASE ReadHeader \/ ReadBody
  <2>1. UNCHANGED <<sent, got, spc>> /\ Reading
    BY <1>12 DEF ReadHeader, ReadBody, sendVars, Reading
  <2>2. PICK T, base, cuts, at : Flow(T, base, cuts, at)
    BY <1>3, <2>1
  <2>3. Flows /\ InBuffer'
    BY <1>1, <1>2, <1>2a, <1>12, <2>2, FlowReadHeader, FlowReadBody
  <2>4. Intact' /\ Turns' /\ (got \in Seq(Returned))'
    BY <1>1, <1>2, <2>1 DEF Intact, Turns
  <2> QED BY <2>3, <2>4
<1>13. CASE ReadShortHeader \/ ReadFail
  <2>1. UNCHANGED <<sent, got, body, room, spc>> /\ ~Reading'
    BY <1>13 DEF ReadShortHeader, ReadFail, sendVars, Reading
  <2> QED BY <1>4, <2>1
<1>14. CASE ReadNextPage
  <2>1. UNCHANGED <<sent, got, body, room, spc>> /\ Reading
    BY <1>14 DEF ReadNextPage, sendVars, Reading
  <2>2. PICK T, base, cuts, at : Flow(T, base, cuts, at)
    BY <1>3, <2>1
  <2>3. Flows
    BY <1>2, <1>14, <2>2, FlowNextPage
  <2> QED BY <1>4, <2>1, <2>3
<1>15. CASE ReadDone
  <2>1. UNCHANGED <<sent, body, room, spc>> /\ Reading
    BY <1>15 DEF ReadDone, sendVars, Reading
  <2>2. PICK T, base, cuts, at : Flow(T, base, cuts, at)
    BY <1>3, <2>1
  <2> DEFINE g == Len(got)
             r == Whole(sent[g + 1])
  <2>3. g + 1 \in 1 .. Len(sent) /\ got' = Append(got, r)
    BY <1>2, <1>2a, <1>15, <2>2, FlowDone
  <2>4. r \in Returned
    BY <1>2, <2>3, ElementOfSeq DEF SendInv
  <2>5. /\ got' \in Seq(Returned) /\ Len(got') = g + 1 /\ got'[g + 1] = r
        /\ \A k \in 1 .. g : got'[k] = got[k]
    <3> HIDE DEF r, Returned
    <3> QED BY <1>2, <2>3, <2>4, AppendProperties
  <2>6. Intact'
    <3>1. \A k \in 1 .. Len(got') : got'[k] = Whole(sent[k])
      <4> TAKE k \in 1 .. Len(got')
      <4>1. k \in 1 .. g \/ k = g + 1
        BY <1>2a, <2>5
      <4> QED BY <1>2a, <2>5, <4>1
    <3>2. DOMAIN got' = 1 .. Len(got')
      BY <2>5
    <3>3. Len(got') <= Len(sent)
      BY <1>2a, <2>3, <2>5
    <3> QED BY <2>1, <3>1, <3>2, <3>3 DEF Intact
  <2>7. InBuffer'
    BY <1>2, <2>1 DEF InBuffer
  <2>8. Turns'
    <3>1. reader = "server" => Len(sent) <= g + 1 /\ (spc = "idle" => Len(sent) = g)
      BY <1>2 DEF Turns
    <3>2. spc = "idle" => reader # "server"
      BY <1>2a, <2>3, <3>1
    <3> QED BY <1>1, <1>2a, <2>1, <2>5, <3>1, <3>2 DEF Turns
  <2>9. Flows
    <3>1. PICK at2 : at2 = base[(g + 1) + 1]
      OBVIOUS
    <3>2. Flow(T, base, cuts, at2)'
      BY <1>2, <1>2a, <1>15, <2>2, <2>5, <3>1, FlowDone
    <3> QED BY <3>2
  <2> QED BY <2>5, <2>6, <2>7, <2>8, <2>9
<1> QED BY <1>6, <1>7, <1>8, <1>9, <1>10, <1>11, <1>12, <1>13, <1>14, <1>15 DEF Next, Sender, Reader

LEMMA StreamAlways == Spec => []StreamInv
<1>1. TypeInv /\ StreamInv /\ [Next]_vars => (TypeInv /\ StreamInv)'
  BY TypeNext, StreamNext
<1>2. Init => TypeInv /\ StreamInv
  BY TypeInit, StreamInit
<1> QED BY <1>1, <1>2, PTL DEF Spec

(* _doRead writes no byte past the buffer it borrowed for the message, for *)
(* every message, block size and number of messages, and however the bytes *)
(* arrive at a client or, of a message of one package, at the server.      *)
THEOREM WireInBuffer == Spec => [](Unsplit => InBuffer)
<1>1. StreamInv => (Unsplit => InBuffer)
  BY DEF StreamInv
<1> QED BY <1>1, StreamAlways, PTL

(* What _doRead returns is what was sent, in order, neither cut nor        *)
(* lengthened, and whatever ends the connection: the same hypothesis is    *)
(* needed, since of a longer message that reaches the server in other      *)
(* pieces the claim is false (run wire_short).                             *)
THEOREM WireIntact == Spec => [](Unsplit => Intact)
<1>1. StreamInv => (Unsplit => Intact)
  BY DEF StreamInv
<1> QED BY <1>1, StreamAlways, PTL

(* In particular the two hold in every behaviour of the instance whose     *)
(* pieces are not cut.                                                     *)
THEOREM WireWhole ==
  ASSUME ~SplitPaged
  PROVE  Spec => [](InBuffer /\ Intact)
<1>1. StreamInv => InBuffer /\ Intact
  BY DEF StreamInv, Unsplit
<1> QED BY <1>1, StreamAlways, PTL
=============================================================================
