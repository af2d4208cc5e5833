----------------------------- MODULE HeaderCodec -----------------------------
(***************************************************************************)
(* The numbers in a package header (fxmessage.cpp, clientconnection.cpp):  *)
(* _make_header writes htons(n), high byte first, and _doRead adds the     *)
(* two bytes up as signed chars in a uint16_t and takes ntohs of the sum.  *)
(* The host is little endian, so htons and ntohs swap the bytes, and a     *)
(* number travels low byte first.  The client does the same in Qt's terms. *)
(***************************************************************************)
EXTENDS Integers

Hi(n) == n \div 256
Lo(n) == n % 256

(* htons and ntohs.                                                        *)
Swap(n) == 256 * Lo(n) + Hi(n)

(* The two bytes that stand for n on the wire.                             *)
Put(n) == <<Hi(Swap(n)), Lo(Swap(n))>>

(* A byte as a char of the platform.                                       *)
Char(b) == IF b < 128 THEN b ELSE b - 256

(* Mutation: the byte order is not swapped back.                           *)
GetRaw(a, b) == (256 * Char(a) + Char(b)) % 65536

(* The number _doRead makes of two bytes.                                  *)
Get(a, b) == Swap((256 * Char(a) + Char(b)) % 65536)
=============================================================================
