------------------------------ MODULE Lengths ------------------------------
(***************************************************************************)
(* The byte-and-bit length of the runtime crate (bytesmith::Len) and the   *)
(* saturating arithmetic every generated offset is computed with.  A       *)
(* length is a record [byte, bit]; the program keeps bit below 8.  usize   *)
(* has a largest value, UsizeMax, at which the arithmetic sticks.          *)
(***************************************************************************)
EXTENDS Integers

CONSTANT UsizeMax    \* the largest usize

ASSUME UsizeMaxAssumption == UsizeMax \in Nat \ {0}

Usize == 0 .. UsizeMax

Saturate(n) == IF n > UsizeMax THEN UsizeMax ELSE n

SatAdd(a, b) == Saturate(a + b)
SatMul(a, b) == Saturate(a * b)
SatSub(a, b) == IF a > b THEN a - b ELSE 0
Least(a, b)  == IF a < b THEN a ELSE b

Length(byte, bit) == [byte |-> byte, bit |-> bit]
ZeroLength        == Length(0, 0)

\* The lengths the program builds: the bit part never reaches a whole byte.
Lengths == [byte : Usize, bit : 0 .. 7]

Bits(l)     == SatAdd(SatMul(l.byte, 8), l.bit)
ByteCeil(l) == SatAdd(l.byte, IF l.bit > 0 THEN 1 ELSE 0)
IsByteAligned(l) == l.bit = 0

\* Mutant: the padding wraps around usize.
PadToWrapping(l, align) ==
    LET byte == ByteCeil(l)
        rem  == IF align > 0 THEN byte % align ELSE 0
    IN  Length((byte + align - rem) % (UsizeMax + 1), 0)

\* Round up to a whole byte and then to a multiple of align bytes.
PadTo(l, align) ==
    LET byte == ByteCeil(l)
        rem  == IF align > 0 THEN byte % align ELSE 0
    IN  Length(IF rem # 0 THEN SatAdd(byte, align - rem) ELSE byte, 0)

\* Mutant: eight bits are not carried into a byte.
AddLengthWithoutCarry(a, b) == Length(SatAdd(a.byte, b.byte), a.bit + b.bit)

AddLength(a, b) ==
    LET byte == SatAdd(a.byte, b.byte)
        bit  == a.bit + b.bit
    IN  IF bit >= 8 THEN Length(SatAdd(byte, 1), bit - 8) ELSE Length(byte, bit)

\* Mutant: the bits of the elements do not add up to bytes.
MulLengthWithoutCarry(l, n) == Length(SatMul(l.byte, n), SatMul(l.bit, n) % 8)

MulLength(l, n) ==
    LET bit == SatMul(l.bit, n)
    IN  Length(SatAdd(SatMul(l.byte, n), bit \div 8), bit % 8)

=============================================================================
