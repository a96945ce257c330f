-------------------------- MODULE StructViewProofs --------------------------
(***************************************************************************)
(* Proofs about StructView for every set of layouts, inputs and hook       *)
(* answers its assumptions allow, and for every width of usize; and, with  *)
(* the same lemmas about lengths, about Offsets.                           *)
(***************************************************************************)
EXTENDS StructView, Offsets, TLAPS, SequenceTheorems

-----------------------------------------------------------------------------
(* What the saturating arithmetic of Lengths preserves and bounds, for     *)
(* every width of usize.                                                   *)

\* saturating_add, saturating_mul and saturating_sub stay inside usize.
LEMMA SaturatingOps ==
    ASSUME NEW a \in Nat, NEW b \in Nat
    PROVE  /\ SatAdd(a, b) \in Usize
           /\ SatMul(a, b) \in Usize
           /\ a \in Usize => SatSub(a, b) \in Usize
<1>1. a * b \in Nat
  OBVIOUS
<1>2. ASSUME NEW n \in Nat PROVE Saturate(n) \in Usize
  BY UsizeMaxAssumption DEF Saturate, Usize
<1> QED
  BY <1>1, <1>2, UsizeMaxAssumption DEF SatAdd, SatMul, SatSub, Usize

\* A saturating sum is at least each of its operands.
LEMMA SatAddGrows ==
    ASSUME NEW a \in Usize, NEW b \in Nat
    PROVE  a <= SatAdd(a, b)
BY UsizeMaxAssumption DEF SatAdd, Saturate, Usize

\* byte_ceil is a usize and covers the byte part.
LEMMA ByteCeilBounds ==
    ASSUME NEW l \in Lengths
    PROVE  /\ ByteCeil(l) \in Usize
           /\ l.byte <= ByteCeil(l)
BY UsizeMaxAssumption DEF ByteCeil, SatAdd, Saturate, Usize, Lengths

\* Addition is closed on canonical lengths (the one carry is enough) and never
\* moves the byte_ceil back.
LEMMA AddLengthGrows ==
    ASSUME NEW a \in Lengths, NEW b \in Lengths
    PROVE  /\ AddLength(a, b) \in Lengths
           /\ ByteCeil(a) <= ByteCeil(AddLength(a, b))
<1> DEFINE byte == SatAdd(a.byte, b.byte)
           bit  == a.bit + b.bit
<1>1. /\ a.byte \in Usize /\ b.byte \in Usize
      /\ a.bit \in 0 .. 7 /\ b.bit \in 0 .. 7
  BY DEF Lengths
<1>2. byte \in Usize /\ a.byte <= byte
  BY <1>1, UsizeMaxAssumption DEF SatAdd, Saturate, Usize
<1>3. CASE bit >= 8
  <2>1. AddLength(a, b) = Length(SatAdd(byte, 1), bit - 8)
    BY <1>3 DEF AddLength
  <2>2. SatAdd(byte, 1) \in Usize /\ SatAdd(a.byte, 1) <= SatAdd(byte, 1)
    BY <1>1, <1>2, UsizeMaxAssumption DEF SatAdd, Saturate, Usize
  <2>3. bit - 8 \in 0 .. 7
    BY <1>1, <1>3
  <2>4. AddLength(a, b) \in Lengths
    BY <2>1, <2>2, <2>3 DEF Length, Lengths
  <2>5. ByteCeil(a) <= SatAdd(a.byte, 1)
    BY <1>1, UsizeMaxAssumption DEF ByteCeil, SatAdd, Saturate, Usize
  <2>6. SatAdd(byte, 1) <= ByteCeil(AddLength(a, b))
    BY <2>1, <2>4, ByteCeilBounds DEF Length
  <2>7. ByteCeil(a) \in Usize /\ ByteCeil(AddLength(a, b)) \in Usize
        /\ SatAdd(a.byte, 1) \in Usize
    BY <1>1, <2>4, ByteCeilBounds, UsizeMaxAssumption
       DEF SatAdd, Saturate, Usize
  <2> QED
    BY <2>2, <2>4, <2>5, <2>6, <2>7, UsizeMaxAssumption DEF Usize
<1>4. CASE ~(bit >= 8)
  <2>1. AddLength(a, b) = Length(byte, bit)
    BY <1>4 DEF AddLength
  <2>2. bit \in 0 .. 7 /\ (a.bit > 0 => bit > 0)
    BY <1>1, <1>4
  <2>3. AddLength(a, b) \in Lengths
    BY <2>1, <2>2, <1>2 DEF Length, Lengths
  <2>4. AddLength(a, b).byte = byte /\ AddLength(a, b).bit = bit
    BY <2>1 DEF Length
  <2> QED
    BY <1>1, <1>2, <2>2, <2>3, <2>4, UsizeMaxAssumption
       DEF ByteCeil, SatAdd, Saturate, Usize
<1> QED
  BY <1>3, <1>4

\* A count times a canonical length is canonical, whatever saturates.
LEMMA MulLengthType ==
    ASSUME NEW l \in Lengths, NEW n \in Usize
    PROVE  MulLength(l, n) \in Lengths
<1> DEFINE bit == SatMul(l.bit, n)
<1>1. l.byte \in Nat /\ l.bit \in Nat /\ n \in Nat
  BY UsizeMaxAssumption DEF Lengths, Usize
<1> HIDE DEF bit
<1>u. ASSUME NEW u \in Usize PROVE u \in Nat
  BY UsizeMaxAssumption DEF Usize
<1>2. bit \in Nat /\ SatMul(l.byte, n) \in Nat
  <2>1. bit \in Usize
    BY <1>1, SaturatingOps DEF bit
  <2>2. SatMul(l.byte, n) \in Usize
    BY <1>1, SaturatingOps
  <2> QED
    BY <1>u, <2>1, <2>2
<1>3. bit \div 8 \in Nat /\ bit % 8 \in 0 .. 7
  BY <1>2
<1>4. SatAdd(SatMul(l.byte, n), bit \div 8) \in Usize
  BY <1>2, <1>3, SaturatingOps
<1> QED
  BY <1>3, <1>4 DEF MulLength, Length, Lengths, bit

\* Padding yields a whole number of bytes and never moves back.
LEMMA PadToGrows ==
    ASSUME NEW l \in Lengths, NEW align \in Nat
    PROVE  /\ PadTo(l, align) \in Lengths
           /\ PadTo(l, align).bit = 0
           /\ ByteCeil(l) <= ByteCeil(PadTo(l, align))
<1> DEFINE byte == ByteCeil(l)
           rem  == IF align > 0 THEN byte % align ELSE 0
           up   == IF rem # 0 THEN SatAdd(byte, align - rem) ELSE byte
<1> HIDE DEF byte, rem
<1>1. byte \in Usize
  BY ByteCeilBounds DEF byte
<1>2. align > 0 => rem \in 0 .. align - 1
  BY <1>1, UsizeMaxAssumption DEF Usize, rem
<1>3. rem # 0 => align - rem \in Nat
  BY <1>2 DEF rem
<1>4. up \in Usize /\ byte <= up
  <2>1. byte \in Nat
    BY <1>1, UsizeMaxAssumption DEF Usize
  <2>2. CASE rem # 0
    <3>1. SatAdd(byte, align - rem) \in Usize
      BY <1>3, <2>1, <2>2, SaturatingOps
    <3>2. byte <= SatAdd(byte, align - rem)
      BY <1>1, <1>3, <2>2, SatAddGrows
    <3> QED
      BY <2>2, <3>1, <3>2
  <2>3. CASE rem = 0
    BY <1>1, <2>1, <2>3
  <2> QED
    BY <2>2, <2>3
<1>5. PadTo(l, align) = Length(up, 0)
  BY DEF PadTo, byte, rem
<1>6. PadTo(l, align) \in Lengths /\ PadTo(l, align).byte = up /\ PadTo(l, align).bit = 0
  BY <1>4, <1>5 DEF Length, Lengths
<1>7. up <= ByteCeil(PadTo(l, align)) /\ ByteCeil(PadTo(l, align)) \in Usize
  BY <1>6, ByteCeilBounds
<1> QED
  BY <1>1, <1>4, <1>6, <1>7, UsizeMaxAssumption DEF Usize, byte

LEMMA Distribute ==
    ASSUME NEW n \in Nat, NEW a \in Nat, NEW b \in Nat
    PROVE  n * (8 * a + b) = 8 * (a * n) + b * n
OBVIOUS

\* Elements whose end, computed with saturation, lies in the input lie in it: with
\* an input shorter than an eighth of usize nothing on the way can have saturated.
LEMMA MulFits ==
    ASSUME NEW s \in Lengths, s.bit = 0, NEW z \in Lengths, NEW n \in Usize, NEW size \in Nat,
           8 * (size + 1) <= UsizeMax, ByteCeil(AddLength(s, MulLength(z, n))) <= size
    PROVE  8 * s.byte + n * (8 * z.byte + z.bit) <= 8 * size
<1> DEFINE m == MulLength(z, n)
           e == AddLength(s, m)
           p == z.byte * n
           q == z.bit * n
<1>1. /\ s.byte \in Nat /\ z.byte \in Nat /\ z.bit \in Nat /\ n \in Nat
      /\ UsizeMax \in Nat /\ size < UsizeMax
  BY UsizeMaxAssumption DEF Lengths, Usize
<1>2. p \in Nat /\ q \in Nat
  BY <1>1
<1>3. n * (8 * z.byte + z.bit) = 8 * p + q
  BY <1>1, Distribute
<1>4. m.byte = SatAdd(Saturate(p), Saturate(q) \div 8) /\ m.bit = Saturate(q) % 8
  BY DEF MulLength, SatMul, Length
<1> HIDE DEF m, p, q
<1>5. Saturate(q) \in Nat /\ Saturate(p) \in Nat
  BY <1>1, <1>2 DEF Saturate
<1>6. /\ m.bit \in 0 .. 7 /\ Saturate(q) \div 8 \in Nat
      /\ Saturate(q) = 8 * (Saturate(q) \div 8) + m.bit
  BY <1>4, <1>5
<1>7. m.byte \in Nat
  BY <1>1, <1>4, <1>5, <1>6 DEF SatAdd, Saturate
<1>8. e.byte = SatAdd(s.byte, m.byte) /\ e.bit = m.bit
  BY <1>6 DEF AddLength, Length
<1> HIDE DEF e
<1>9. e.byte \in Nat
  BY <1>1, <1>7, <1>8 DEF SatAdd, Saturate
<1>10. e.byte + (IF e.bit > 0 THEN 1 ELSE 0) <= size
  <2>1. ByteCeil(e) <= size
    BY DEF e, m
  <2> QED
    BY <1>1, <1>9, <2>1 DEF ByteCeil, SatAdd, Saturate
<1>11. e.byte = s.byte + m.byte /\ m.byte <= size
  BY <1>1, <1>7, <1>8, <1>9, <1>10 DEF SatAdd, Saturate
<1>12. m.byte = Saturate(p) + Saturate(q) \div 8
  BY <1>1, <1>4, <1>5, <1>6, <1>11 DEF SatAdd, Saturate
<1>13. Saturate(p) = p
  BY <1>1, <1>2, <1>5, <1>6, <1>11, <1>12 DEF Saturate
<1>14. Saturate(q) = q
  BY <1>1, <1>2, <1>5, <1>6, <1>11, <1>12 DEF Saturate
<1> QED
  BY <1>1, <1>2, <1>3, <1>6, <1>8, <1>9, <1>10, <1>11, <1>12, <1>13, <1>14

\* In bits, a length is what it counts unless that is more than a usize.
LEMMA BitsOfLength ==
    ASSUME NEW l \in Lengths
    PROVE  /\ Bits(l) = Saturate(8 * l.byte + l.bit)
           /\ Bits(l) \in Usize
<1>1. l.byte \in Nat /\ l.bit \in 0 .. 7 /\ UsizeMax \in Nat \ {0}
  BY UsizeMaxAssumption DEF Lengths, Usize
<1> QED
  BY <1>1 DEF Bits, SatAdd, SatMul, Saturate, Usize

\* What fits in memory has its bits counted exactly.
LEMMA BitsExact ==
    ASSUME NEW l \in Lengths, NEW size \in Nat, 8 * (size + 1) <= UsizeMax, ByteCeil(l) <= size
    PROVE  /\ Bits(l) = 8 * l.byte + l.bit /\ Bits(l) <= 8 * size
           /\ l.byte <= size
<1>1. l.byte \in Nat /\ l.bit \in 0 .. 7 /\ UsizeMax \in Nat \ {0}
  BY UsizeMaxAssumption DEF Lengths, Usize
<1>2. l.byte + (IF l.bit > 0 THEN 1 ELSE 0) <= size
  BY <1>1 DEF ByteCeil, SatAdd, Saturate
<1>3. 8 * l.byte + l.bit <= 8 * size
  BY <1>1, <1>2
<1> QED
  BY <1>1, <1>2, <1>3, BitsOfLength DEF Saturate

\* Neither addition nor padding moves back by a bit.
LEMMA AddLengthForward ==
    ASSUME NEW a \in Lengths, NEW b \in Lengths
    PROVE  Bits(a) <= Bits(AddLength(a, b))
<1>1. /\ a.byte \in Nat /\ b.byte \in Nat /\ a.bit \in 0 .. 7 /\ b.bit \in 0 .. 7
      /\ UsizeMax \in Nat \ {0} /\ a.byte <= UsizeMax
  BY UsizeMaxAssumption DEF Lengths, Usize
<1>2. AddLength(a, b) \in Lengths
  BY AddLengthGrows
<1> DEFINE byte == SatAdd(a.byte, b.byte)
           bit  == a.bit + b.bit
<1>3. byte \in Nat /\ byte <= UsizeMax /\ (byte = UsizeMax \/ a.byte <= byte)
  BY <1>1 DEF SatAdd, Saturate
<1>4. byte = UsizeMax \/ byte = a.byte + b.byte
  BY <1>1 DEF SatAdd, Saturate
<1> DEFINE l == AddLength(a, b)
<1> HIDE DEF byte
<1>5. \/ l.byte = UsizeMax
      \/ l.byte = a.byte + b.byte /\ l.bit = a.bit + b.bit
      \/ l.byte = a.byte + b.byte + 1 /\ l.bit = a.bit + b.bit - 8
  <2>1. CASE bit >= 8
    <3>1. AddLength(a, b) = Length(SatAdd(byte, 1), bit - 8)
      BY <2>1 DEF AddLength, byte
    <3>2. l.byte = SatAdd(byte, 1) /\ l.bit = bit - 8
      BY <3>1 DEF Length
    <3> QED
      BY <1>1, <1>3, <1>4, <3>2 DEF SatAdd, Saturate
  <2>2. CASE ~(bit >= 8)
    <3>1. l.byte = byte /\ l.bit = a.bit + b.bit
      BY <2>2 DEF AddLength, Length, byte
    <3> QED
      BY <1>4, <3>1
  <2> QED
    BY <2>1, <2>2
<1>6. l \in Lengths /\ l.bit \in 0 .. 7
  BY <1>2 DEF Lengths
<1> HIDE DEF l
<1>7. 8 * l.byte + l.bit >= UsizeMax \/ 8 * l.byte + l.bit >= 8 * a.byte + a.bit
  BY <1>1, <1>5, <1>6
<1>8. Bits(a) <= Bits(l)
  BY <1>1, <1>5, <1>6, <1>7, BitsOfLength DEF Saturate
<1> QED
  BY <1>8 DEF l

LEMMA PadToForward ==
    ASSUME NEW l \in Lengths, NEW align \in Nat
    PROVE  Bits(l) <= Bits(PadTo(l, align))
<1> DEFINE p == PadTo(l, align)
<1>1. p \in Lengths /\ p.bit = 0 /\ ByteCeil(l) <= ByteCeil(p)
  BY PadToGrows
<1> HIDE DEF p
<1>2. /\ l.byte \in Nat /\ l.bit \in 0 .. 7 /\ p.byte \in Nat
      /\ UsizeMax \in Nat \ {0} /\ p.byte <= UsizeMax
  BY <1>1, UsizeMaxAssumption DEF Lengths, Usize
<1>3. ByteCeil(p) = p.byte
  BY <1>1, <1>2 DEF ByteCeil, SatAdd, Saturate
<1>4. \/ p.byte = UsizeMax
      \/ l.byte + (IF l.bit > 0 THEN 1 ELSE 0) <= p.byte
  BY <1>1, <1>2, <1>3 DEF ByteCeil, SatAdd, Saturate
<1>5. 8 * p.byte >= UsizeMax \/ 8 * p.byte >= 8 * l.byte + l.bit
  BY <1>2, <1>4
<1>6. Bits(l) <= Bits(p)
  BY <1>1, <1>2, <1>5, BitsOfLength DEF Saturate
<1> QED
  BY <1>6 DEF p

-----------------------------------------------------------------------------
(* What the assumptions say of the layout at hand.                         *)

\* The items of an accepted layout, one by one.
LEMMA LayoutShape ==
    ASSUME layout \in Layouts
    PROVE  /\ N \in Nat \ {0}
           /\ \A i \in 1 .. N : ItemAccepted(layout, i)
           /\ layout.len \in Exprs(layout, N + 1)
           /\ layout.bounded \in BOOLEAN
           /\ layout.payload \in 0 .. N
BY LayoutsAssumption DEF Accepted, N

\* The size of the input, and every offset up to it, is a usize.
LEMMA InputShape ==
    ASSUME data \in Inputs
    PROVE  /\ Size \in Nat /\ Size \in Usize /\ Size + 1 \in Usize
           /\ \A k \in 1 .. Size : data[k] \in 0 .. 255
<1>1. data \in Seq(0 .. 255) /\ 8 * (Size + 1) <= UsizeMax
  BY InputsAssumption DEF Size
<1>2. Size \in Nat
  BY <1>1 DEF Size
<1>3. \A k \in 1 .. Size : data[k] \in 0 .. 255
  BY <1>1, ElementOfSeq DEF Size
<1> QED
  BY <1>1, <1>2, <1>3, UsizeMaxAssumption DEF Usize

\* An item's record, and where it starts from.
LEMMA ItemShape ==
    ASSUME layout \in Layouts, NEW i \in 1 .. N
    PROVE  /\ Item(i) \in ItemType(layout, i)
           /\ ItemAccepted(layout, i)
           /\ i \in Nat /\ i \in 0 .. N
           /\ Item(i).prev \in 0 .. N /\ Item(i).prev < i
<1>1. ItemAccepted(layout, i) /\ N \in Nat
  BY LayoutShape
<1>2. Item(i) \in ItemType(layout, i)
  BY <1>1 DEF ItemAccepted, Item
<1>3. Item(i).prev \in 0 .. i - 1
  BY <1>2 DEF ItemType
<1> QED
  BY <1>1, <1>2, <1>3

\* An expression read as usize is one.
LEMMA EvalType ==
    ASSUME layout \in Layouts, val \in [0 .. N -> Int],
           NEW i \in 1 .. N + 1, NEW e \in Exprs(layout, i)
    PROVE  Eval(e) \in Usize
<1>1. N \in Nat
  BY LayoutShape
<1>2. /\ e.of \in {0} \cup Numbers(layout, i)
      /\ e.minus \in Usize /\ e.times \in Usize /\ e.plus \in Usize
  BY DEF Exprs
<1>3. e.of \in 0 .. N
  BY <1>1, <1>2 DEF Numbers
<1> DEFINE v == IF e.of = 0 THEN 0 ELSE val[e.of]
<1>4. v \in Int
  BY <1>3
<1> HIDE DEF v
<1>5. e.minus \in Nat /\ e.times \in Nat /\ e.plus \in Nat
  BY <1>2, UsizeMaxAssumption DEF Usize
<1>6. SatSub(v, e.minus) \in Nat
  BY <1>4, <1>5 DEF SatSub
<1>7. SatMul(SatSub(v, e.minus), e.times) \in Usize
  BY <1>5, <1>6, SaturatingOps
<1>8. SatMul(SatSub(v, e.minus), e.times) \in Nat
  BY <1>7, UsizeMaxAssumption DEF Usize
<1>9. SatAdd(SatMul(SatSub(v, e.minus), e.times), e.plus) \in Usize
  BY <1>5, <1>8, SaturatingOps
<1> QED
  BY <1>9 DEF Eval, v

-----------------------------------------------------------------------------
(* Offsets and lengths are canonical, and never move back.                 *)

\* The state functions the offsets are computed from.
Memo ==
    /\ layout \in Layouts /\ data \in Inputs /\ answer \in AnswersOf(layout)
    /\ start \in [0 .. N -> Lengths] /\ end \in [0 .. N -> Lengths]
    /\ val \in [0 .. N -> Int]

LEMMA StartOfType ==
    ASSUME Memo, NEW i \in 1 .. N
    PROVE  StartOf(i) \in Lengths
<1>1. Item(i) \in ItemType(layout, i) /\ Item(i).prev \in 0 .. N
  BY ItemShape DEF Memo
<1>2. end[Item(i).prev] \in Lengths
  BY <1>1 DEF Memo
<1>3. Item(i).pad \in Usize /\ Item(i).padTo \in Usize
  BY <1>1 DEF ItemType
<1>4. Length(Item(i).pad, 0) \in Lengths /\ Item(i).padTo \in Nat
  BY <1>3, UsizeMaxAssumption DEF Length, Lengths, Usize
<1> DEFINE padded == AddLength(end[Item(i).prev], Length(Item(i).pad, 0))
<1>5. padded \in Lengths
  BY <1>2, <1>4, AddLengthGrows
<1> HIDE DEF padded
<1>6. PadTo(padded, Item(i).padTo) \in Lengths
  BY <1>4, <1>5, PadToGrows
<1> QED
  BY <1>5, <1>6 DEF StartOf, padded

\* A window starts and ends at a usize, and ends inside the input.
LEMMA WindowEndType ==
    ASSUME Memo, NEW i \in 1 .. N, NEW s \in Lengths
    PROVE  /\ WindowEnd(i, s) \in Nat /\ WindowEnd(i, s) <= Size
           /\ ByteCeil(s) \in Nat
<1>1. Item(i) \in ItemType(layout, i) /\ i \in 1 .. N + 1 /\ N + 1 \in 1 .. N + 1
  BY ItemShape, LayoutShape DEF Memo
<1>2. Eval(Item(i).len) \in Usize
  <2>1. Item(i).len \in Exprs(layout, i)
    BY <1>1 DEF ItemType
  <2> QED
    BY <1>1, <2>1, EvalType DEF Memo
<1>3. Eval(layout.len) \in Usize
  BY <1>1, EvalType, LayoutShape DEF Memo
<1>4. ByteCeil(s) \in Usize
  BY ByteCeilBounds
<1>5. ByteCeil(s) \in Nat /\ Eval(Item(i).len) \in Nat /\ Eval(layout.len) \in Nat
  BY <1>2, <1>3, <1>4, UsizeMaxAssumption DEF Usize
<1>6. SatAdd(ByteCeil(s), Eval(Item(i).len)) \in Usize
  BY <1>5, SaturatingOps
<1>7. SatAdd(ByteCeil(s), Eval(Item(i).len)) \in Nat
  BY <1>6, UsizeMaxAssumption DEF Usize
<1>8. Size \in Nat
  BY InputShape DEF Memo
<1> QED
  BY <1>5, <1>7, <1>8 DEF WindowEnd, Least

\* The bytes a greedy or an until array advances by, and a hook or nested struct.
LEMMA GreedyBytesType ==
    ASSUME Memo, NEW i \in 1 .. N, NEW s \in Lengths, Item(i).kind = "greedy"
    PROVE  GreedyBytes(i, s) \in Usize
<1> DEFINE rem   == SatSub(WindowEnd(i, s), ByteCeil(s))
           size  == Item(i).size.byte
<1>1. rem \in Nat /\ rem <= Size
  BY WindowEndType, InputShape DEF SatSub, Memo
<1>2. rem \in Usize
  BY <1>1, InputShape, UsizeMaxAssumption DEF Memo, Usize
<1>3. size \in Nat \ {0}
  <2>1. ItemAccepted(layout, i) /\ Item(i) \in ItemType(layout, i)
    BY ItemShape DEF Memo
  <2>2. size > 0 /\ Item(i).size \in Lengths
    BY <2>1 DEF ItemAccepted, Item, ItemType
  <2> QED
    BY <2>2, UsizeMaxAssumption DEF Lengths, Usize
<1> HIDE DEF rem, size
<1>4. rem % size \in Nat /\ rem % size <= rem
  BY <1>1, <1>3, InputShape DEF Memo
<1>5. SatAdd(rem - (rem % size), size) \in Usize
  BY <1>1, <1>3, <1>4, SaturatingOps
<1>6. GreedyBytes(i, s) = IF rem % size > 0 THEN SatAdd(rem - (rem % size), size) ELSE rem
  BY DEF GreedyBytes, rem, size
<1> QED
  BY <1>2, <1>5, <1>6

LEMMA UntilBytesType ==
    ASSUME Memo, NEW i \in 1 .. N, NEW s \in Lengths
    PROVE  UntilCount(i, s) \in Nat /\ UntilBytes(i, s) \in Usize
<1>1. /\ WindowEnd(i, s) \in Nat /\ WindowEnd(i, s) <= Size /\ ByteCeil(s) \in Nat
      /\ Size \in Nat
  BY WindowEndType, InputShape DEF Memo
<1>2. ASSUME Sentinel(i, s) # {}
      PROVE  (CHOOSE p \in Sentinel(i, s) : TRUE) \in ByteCeil(s) .. WindowEnd(i, s) - 1
  BY <1>2 DEF Sentinel
<1>3. UntilCount(i, s) \in Nat
  BY <1>1, <1>2 DEF UntilCount
<1>4. SatAdd(UntilCount(i, s), 1) \in Usize
  BY <1>3, SaturatingOps
<1>5. SatAdd(WindowEnd(i, s), 1) \in Usize
  BY <1>1, SaturatingOps
<1>6. SatSub(SatAdd(WindowEnd(i, s), 1), ByteCeil(s)) \in Usize
  BY <1>1, <1>5, SaturatingOps, UsizeMaxAssumption DEF Usize
<1> QED
  BY <1>3, <1>4, <1>6 DEF UntilBytes

\* What a hook or a nested parse answers.
LEMMA AnswerType ==
    ASSUME Memo, NEW i \in 1 .. N, Item(i).kind \in Answered
    PROVE  answer[i] \in [ok : BOOLEAN, value : Usize, used : Usize]
BY AnswersAssumption DEF Memo, AnswersOf, Item, N

LEMMA LengthOfType ==
    ASSUME Memo, NEW i \in 1 .. N, Item(i).kind # "join", NEW s \in Lengths
    PROVE  LengthOf(i, s) \in Lengths
<1>1. /\ Item(i) \in ItemType(layout, i) /\ ItemAccepted(layout, i)
      /\ i \in 1 .. N + 1
  BY ItemShape, LayoutShape DEF Memo
<1>2. /\ Item(i).kind \in Kinds \ {"join"} /\ Item(i).bounded \in BOOLEAN
      /\ Item(i).size \in Lengths
      /\ Item(i).len \in Exprs(layout, i) /\ Item(i).count \in Exprs(layout, i)
  BY <1>1 DEF ItemType
<1>3. Eval(Item(i).len) \in Usize /\ Eval(Item(i).count) \in Usize
  BY <1>1, <1>2, EvalType DEF Memo
<1>4. ASSUME NEW n \in Usize PROVE Length(n, 0) \in Lengths
  BY DEF Length, Lengths
<1>5. 0 \in Usize
  BY UsizeMaxAssumption DEF Usize
<1>6. CASE Item(i).bounded
  <2>1. Item(i).kind \in {"greedy", "until", "hook", "ref"}
    BY <1>1, <1>6 DEF ItemAccepted, Item
  <2> QED
    BY <1>3, <1>4, <1>6, <2>1 DEF LengthOf
<1>7. CASE ~Item(i).bounded /\ Item(i).kind = "counted"
  BY <1>2, <1>3, <1>7, MulLengthType DEF LengthOf
<1>8. CASE ~Item(i).bounded /\ Item(i).kind = "greedy"
  BY <1>4, <1>8, GreedyBytesType DEF LengthOf
<1>9. CASE ~Item(i).bounded /\ Item(i).kind = "until"
  BY <1>4, <1>9, UntilBytesType DEF LengthOf
<1>10. CASE ~Item(i).bounded /\ Item(i).kind = "hook"
  BY <1>4, <1>5, <1>10, AnswerType DEF LengthOf, Answered
<1>11. CASE ~Item(i).bounded /\ Item(i).kind = "ref"
  BY <1>4, <1>5, <1>11, AnswerType DEF LengthOf, Answered
<1>12. CASE ~Item(i).bounded /\ Item(i).kind \in {"uint", "bits", "conv"}
  BY <1>2, <1>12 DEF LengthOf
<1> QED
  BY <1>2, <1>6, <1>7, <1>8, <1>9, <1>10, <1>11, <1>12 DEF Kinds

\* A field ends at a canonical offset, at or after its start.
LEMMA EndOfGrows ==
    ASSUME Memo, NEW i \in 1 .. N, Item(i).kind # "join"
    PROVE  /\ StartOf(i) \in Lengths /\ EndOf(i) \in Lengths
           /\ ByteCeil(StartOf(i)) <= ByteCeil(EndOf(i))
BY StartOfType, LengthOfType, AddLengthGrows DEF EndOf

\* The numbers the getters return.
LEMMA NumberAtType ==
    ASSUME Memo, NEW i \in 1 .. N, NEW s \in Lengths, NEW e \in Lengths
    PROVE  NumberAt(i, s, e) \in Int
<1>1. ASSUME NEW k \in Int PROVE Byte(k) \in Nat
  <2>1. \A j \in 1 .. Size : data[j] \in 0 .. 255
    BY InputShape DEF Memo
  <2> QED
    BY <2>1 DEF Byte
<1>2. ASSUME NEW a \in Int, NEW b \in Int PROVE BigEndian(a, b) \in Nat
  BY <1>1 DEF BigEndian
<1>3. /\ s.byte \in Int /\ e.bit \in 0 .. 7 /\ ByteCeil(e) \in Int
  BY ByteCeilBounds, UsizeMaxAssumption DEF Lengths, Usize
<1>4. Item(i) \in ItemType(layout, i)
  BY ItemShape DEF Memo
<1>5. Item(i).size.byte \in Int /\ Item(i).size.bit \in 0 .. 7
  BY <1>4, UsizeMaxAssumption DEF ItemType, Lengths, Usize
<1>6. CASE Item(i).kind = "uint"
  <2>1. s.byte + Item(i).size.byte \in Int
    BY <1>3, <1>5
  <2>2. BigEndian(s.byte, s.byte + Item(i).size.byte) \in Nat
    BY <1>2, <1>3, <2>1
  <2>3. BigEndian(s.byte, s.byte + Item(i).size.byte) % (UsizeMax + 1) \in Int
    BY <2>2, UsizeMaxAssumption
  <2> QED
    BY <1>6, <2>3 DEF NumberAt
<1>7. CASE Item(i).kind = "bits"
  <2> DEFINE shift == PowerOfTwo[((8 - e.bit) % 8) + 1]
             range == PowerOfTwo[Item(i).size.bit + 1]
             read  == BigEndian(s.byte, ByteCeil(e))
  <2>1. shift \in Nat \ {0} /\ range \in Nat \ {0}
    <3>1. \A k \in 1 .. 8 : PowerOfTwo[k] \in Nat \ {0}
      BY DEF PowerOfTwo
    <3>2. ((8 - e.bit) % 8) + 1 \in 1 .. 8 /\ Item(i).size.bit + 1 \in 1 .. 8
      BY <1>3, <1>5
    <3> QED
      BY <3>1, <3>2
  <2>2. read \in Nat
    BY <1>2, <1>3
  <2> HIDE DEF shift, range, read
  <2>3. (read \div shift) % range \in Int
    BY <2>1, <2>2
  <2> QED
    BY <1>7, <2>3 DEF NumberAt, shift, range, read
<1>8. CASE Item(i).kind \in {"hook", "conv"}
  <2>1. answer[i].value \in Int
    BY <1>8, AnswerType, UsizeMaxAssumption DEF Answered, Usize
  <2> QED
    BY <1>8, <2>1 DEF NumberAt
<1>9. CASE Item(i).kind \notin {"uint", "bits", "hook", "conv"}
  BY <1>9 DEF NumberAt
<1> QED
  BY <1>6, <1>7, <1>8, <1>9

-----------------------------------------------------------------------------
(* Type correctness.                                                       *)

LEMMA TypeIsMemo == TypeOK => Memo
BY DEF TypeOK, Memo

\* What the walk over the items keeps typed.
WalkType ==
    /\ pc \in 1 .. N + 1
    /\ start \in [0 .. N -> Lengths] /\ end \in [0 .. N -> Lengths]
    /\ val \in [0 .. N -> Int]
    /\ torn \subseteq 1 .. N /\ unreadable \subseteq 1 .. N

Given == <<layout, data, answer>>

LEMMA VisitFieldType ==
    ASSUME TypeOK, AtField, VisitField, UNCHANGED Given
    PROVE  WalkType'
<1>1. Memo /\ N \in Nat /\ pc \in 1 .. N /\ Item(pc).kind # "join"
  BY TypeIsMemo, LayoutShape DEF TypeOK, AtField
<1>2. StartOf(pc) \in Lengths /\ EndOf(pc) \in Lengths
  BY <1>1, EndOfGrows
<1>3. NumberAt(pc, StartOf(pc), EndOf(pc)) \in Int
  BY <1>1, <1>2, NumberAtType
<1>4. N' = N
  BY DEF N, Given
<1> QED
  BY <1>1, <1>2, <1>3, <1>4 DEF VisitField, WalkType, TypeOK

LEMMA RestartType ==
    ASSUME TypeOK, Restart, UNCHANGED Given
    PROVE  WalkType'
<1>1. N' = N /\ N \in Nat \ {0}
  BY LayoutShape DEF N, Given, TypeOK
<1>2. ZeroLength \in Lengths
  BY UsizeMaxAssumption DEF ZeroLength, Length, Lengths, Usize
<1> QED
  BY <1>1, <1>2 DEF Restart, WalkType, AtStart, NoNumbers

\* Calls, and the steps that leave the walk alone.
Calls == {"parse", "tree", "handoff", "dissect", "done", "panic"}

LEMMA TypeFromWalk ==
    ASSUME TypeOK, UNCHANGED Given, WalkType', call' \in Calls
    PROVE  TypeOK'
<1>1. N' = N /\ AnswersOf(layout') = AnswersOf(layout)
  BY DEF N, Given
<1> QED
  BY <1>1 DEF TypeOK, WalkType, Given, Calls

LEMMA TypeWhenWalkStays ==
    ASSUME TypeOK, UNCHANGED Given, UNCHANGED walk, call' \in Calls
    PROVE  TypeOK'
<1>1. N' = N
  BY DEF N, Given
<1>2. WalkType'
  BY <1>1 DEF TypeOK, WalkType, walk
<1> QED
  BY <1>2, TypeFromWalk

LEMMA ReturnType ==
    ASSUME TypeOK, NEW outcome, Return(outcome)
    PROVE  TypeOK'
<1>1. UNCHANGED Given /\ call' \in Calls
  BY DEF Return, Given, Calls
<1>2. CASE outcome.status = "ok"
  <2>1. WalkType'
    <3>1. N' = N /\ N \in Nat \ {0}
      BY <1>1, LayoutShape DEF N, Given, TypeOK
    <3>2. /\ pc' = 1 /\ start' = start /\ end' = end /\ val' = val
          /\ torn' = torn /\ unreadable' = unreadable
      BY <1>2 DEF Return
    <3> QED
      BY <3>1, <3>2 DEF WalkType, TypeOK
  <2> QED
    BY <1>1, <2>1, TypeFromWalk
<1>3. CASE outcome.status # "ok"
  BY <1>1, <1>3, RestartType, TypeFromWalk DEF Return
<1> QED
  BY <1>2, <1>3

LEMMA TypeStep == TypeOK /\ [Next]_vars => TypeOK'
<1> SUFFICES ASSUME TypeOK, [Next]_vars PROVE TypeOK'
  OBVIOUS
<1>0. call \in Calls
  BY DEF TypeOK, Calls
<1>1. ASSUME AtField, VisitField, UNCHANGED <<layout, data, answer, call>>
      PROVE  TypeOK'
  BY <1>0, <1>1, VisitFieldType, TypeFromWalk DEF Given
<1>2. CASE ParseAbsent
  BY <1>1, <1>2 DEF ParseAbsent
<1>3. CASE ParseAccept
  BY <1>1, <1>3 DEF ParseAccept
<1>4. CASE ParseReject
  BY <1>4, ReturnType DEF ParseReject
<1>5. ASSUME Panic PROVE TypeOK'
  BY <1>5, TypeWhenWalkStays DEF Panic, Given, Calls
<1>6. CASE ParsePanic
  BY <1>5, <1>6 DEF ParsePanic
<1>7. CASE ParseFinish
  BY <1>7, ReturnType DEF ParseFinish
<1>8. CASE Join
  <2>1. N' = N /\ N \in Nat
    BY <1>8, LayoutShape DEF Join, N, TypeOK
  <2>2. pc \in 1 .. N
    BY <1>8, <2>1 DEF Join, TypeOK
  <2>3. Branch(pc) \in 0 .. N
    <3>1. Item(pc).yes \in 0 .. pc - 1 /\ Item(pc).no \in 0 .. pc - 1
      BY <2>2, ItemShape DEF TypeOK, ItemType
    <3> QED
      BY <2>1, <2>2, <3>1 DEF Branch
  <2>4. end[Branch(pc)] \in Lengths
    BY <2>3 DEF TypeOK
  <2>5. WalkType'
    BY <1>8, <2>1, <2>2, <2>4 DEF Join, WalkType, TypeOK
  <2> QED
    BY <1>0, <1>8, <2>5, TypeFromWalk DEF Join, Given
<1>9. ASSUME NEW shown, pc <= N, TreeShow(shown) PROVE TypeOK'
  <2>1. N' = N /\ N \in Nat
    BY <1>9, LayoutShape DEF TreeShow, N, TypeOK
  <2>2. WalkType'
    BY <1>9, <2>1 DEF TreeShow, WalkType, TypeOK
  <2> QED
    BY <1>0, <1>9, <2>2, TypeFromWalk DEF TreeShow, Given
<1>10. CASE TreeJoin
  BY <1>9, <1>10 DEF TreeJoin
<1>11. CASE TreeAbsent
  BY <1>9, <1>11 DEF TreeAbsent, AtField
<1>12. CASE TreePresent
  BY <1>9, <1>12 DEF TreePresent, AtField
<1>13. CASE TreePanic
  BY <1>5, <1>13 DEF TreePanic
<1>14. CASE TreeFinish
  BY <1>14, TypeWhenWalkStays DEF TreeFinish, Given, Calls
<1>15. CASE Handoff
  BY <1>15, RestartType, TypeFromWalk DEF Handoff, Given, Calls
<1>16. ASSUME NEW shown, AtField, DissectShow(shown) PROVE TypeOK'
  BY <1>1, <1>16 DEF DissectShow
<1>17. CASE DissectAbsent
  BY <1>16, <1>17 DEF DissectAbsent, AtDissect
<1>18. CASE DissectPresent
  BY <1>16, <1>18 DEF DissectPresent, AtDissect
<1>19. CASE DissectRecover
  BY <1>16, <1>19 DEF DissectRecover, AtDissect
<1>20. CASE DissectFatal
  BY <1>0, <1>20, TypeWhenWalkStays DEF DissectFatal, Given
<1>21. CASE DissectPanic
  BY <1>5, <1>21 DEF DissectPanic
<1>22. CASE DissectFinish
  BY <1>22, TypeWhenWalkStays DEF DissectFinish, Given, Calls
<1>23. CASE UNCHANGED vars
  BY <1>0, <1>23, TypeWhenWalkStays DEF vars, Given
<1> QED
  BY <1>2, <1>3, <1>4, <1>6, <1>7, <1>8, <1>10, <1>11, <1>12, <1>13, <1>14, <1>15,
     <1>17, <1>18, <1>19, <1>20, <1>21, <1>22, <1>23
     DEF Next, Parse, View, Dissect

\* Every offset the generated code computes is canonical, on every input and for
\* every answer of the hooks, in parse, field_tree and dissect alike.
THEOREM StructTypeCorrect == Spec => []TypeOK
<1>1. Init => TypeOK
  <2> SUFFICES ASSUME Init PROVE TypeOK
    OBVIOUS
  <2>1. N \in Nat \ {0}
    BY LayoutShape DEF Init
  <2>2. ZeroLength \in Lengths
    BY UsizeMaxAssumption DEF ZeroLength, Length, Lengths, Usize
  <2> QED
    BY <2>1, <2>2 DEF Init, TypeOK, AtStart, NoNumbers
<1> QED
  BY <1>1, TypeStep, PTL DEF Spec

-----------------------------------------------------------------------------
(* Never panics.                                                           *)

\* No padding leaves an offset as it is.
LEMMA AddZero ==
    ASSUME NEW l \in Lengths
    PROVE  AddLength(l, Length(0, 0)) = l
<1>1. l = Length(l.byte, l.bit) /\ l.byte \in Usize /\ l.bit \in 0 .. 7
  BY DEF Lengths, Length
<1>2. SatAdd(l.byte, 0) = l.byte
  BY <1>1, UsizeMaxAssumption DEF SatAdd, Saturate, Usize
<1>3. Length(0, 0).byte = 0 /\ Length(0, 0).bit = 0
  BY DEF Length
<1>4. l.bit + 0 = l.bit /\ ~(l.bit >= 8)
  BY <1>1
<1> QED
  BY <1>1, <1>2, <1>3, <1>4 DEF AddLength

\* Whole bytes add up to whole bytes.
LEMMA AddOnBytes ==
    ASSUME NEW a \in Lengths, NEW b \in Lengths, a.bit = 0, b.bit = 0
    PROVE  AddLength(a, b).bit = 0
BY DEF AddLength, Length

LEMMA StartOnBytes ==
    ASSUME Memo, NEW i \in 1 .. N, end[Item(i).prev].bit = 0
    PROVE  StartOf(i).bit = 0
<1>1. Item(i) \in ItemType(layout, i) /\ Item(i).prev \in 0 .. N
  BY ItemShape DEF Memo
<1>2. end[Item(i).prev] \in Lengths
  BY <1>1 DEF Memo
<1>3. Item(i).pad \in Usize /\ Item(i).padTo \in Nat
  BY <1>1, UsizeMaxAssumption DEF ItemType, Usize
<1>4. Length(Item(i).pad, 0) \in Lengths /\ Length(Item(i).pad, 0).bit = 0
  BY <1>3 DEF Length, Lengths
<1> DEFINE padded == AddLength(end[Item(i).prev], Length(Item(i).pad, 0))
<1>5. padded \in Lengths /\ padded.bit = 0
  BY <1>2, <1>4, AddLengthGrows, AddOnBytes
<1> HIDE DEF padded
<1>6. PadTo(padded, Item(i).padTo).bit = 0
  BY <1>3, <1>5, PadToGrows
<1> QED
  BY <1>5, <1>6 DEF StartOf, padded

LEMMA LengthOnBytes ==
    ASSUME Memo, BitFree(layout), NEW i \in 1 .. N, Item(i).kind # "join", NEW s \in Lengths
    PROVE  LengthOf(i, s).bit = 0
<1>1. Item(i) \in ItemType(layout, i) /\ ItemAccepted(layout, i) /\ Item(i).size.bit = 0
  BY ItemShape DEF Memo, BitFree, Item, N
<1>2. /\ Item(i).kind \in Kinds \ {"join"} /\ Item(i).size \in Lengths
      /\ Item(i).count \in Exprs(layout, i) /\ Item(i).bounded \in BOOLEAN
  BY <1>1 DEF ItemType
<1>3. ASSUME NEW n PROVE Length(n, 0).bit = 0
  BY DEF Length
<1>4. CASE Item(i).bounded
  <2>1. Item(i).kind \in {"greedy", "until", "hook", "ref"}
    BY <1>1, <1>4 DEF ItemAccepted, Item
  <2> QED
    BY <1>3, <1>4, <2>1 DEF LengthOf
<1>5. CASE ~Item(i).bounded /\ Item(i).kind = "counted"
  <2>1. Eval(Item(i).count) \in Nat
    <3>1. i \in 1 .. N + 1
      BY LayoutShape DEF Memo
    <3>2. Eval(Item(i).count) \in Usize
      BY <1>2, <3>1, EvalType DEF Memo
    <3> QED
      BY <3>2, UsizeMaxAssumption DEF Usize
  <2>2. SatMul(0, Eval(Item(i).count)) = 0
    BY <2>1, UsizeMaxAssumption DEF SatMul, Saturate
  <2>3. MulLength(Item(i).size, Eval(Item(i).count)).bit = 0
    BY <1>1, <2>2 DEF MulLength, Length
  <2> QED
    BY <1>5, <2>3 DEF LengthOf
<1>6. CASE ~Item(i).bounded /\ Item(i).kind \in {"greedy", "until", "hook", "ref"}
  BY <1>3, <1>6 DEF LengthOf
<1>7. CASE ~Item(i).bounded /\ Item(i).kind \in {"uint", "bits", "conv"}
  BY <1>1, <1>7 DEF LengthOf
<1> QED
  BY <1>2, <1>4, <1>5, <1>6, <1>7 DEF Kinds

\* In a layout without bit fields, a field starts and ends on a byte.
LEMMA EndOnBytes ==
    ASSUME Memo, BitFree(layout), NEW i \in 1 .. N, Item(i).kind # "join",
           end[Item(i).prev].bit = 0
    PROVE  StartOf(i).bit = 0 /\ EndOf(i).bit = 0
BY StartOnBytes, LengthOnBytes, StartOfType, LengthOfType, AddOnBytes DEF EndOf

\* Conditions read earlier items, so visiting an item does not change which of
\* the items up to it are present.
LEMMA GateEarlier ==
    ASSUME layout \in Layouts, NEW i \in 1 .. N, NEW lit \in Item(i).gate \cup Item(i).cond
    PROVE  lit.of \in 1 .. i - 1 /\ lit.sense \in BOOLEAN
BY ItemShape DEF ItemType, Literals, Numbers

LEMMA PresentKept ==
    ASSUME layout \in Layouts, layout' = layout, NEW i \in 1 .. N,
           \A j \in 1 .. i - 1 : val'[j] = val[j]
    PROVE  Present(i)' <=> Present(i)
<1>1. Item(i)' = Item(i)
  BY DEF Item
<1>2. \A lit \in Item(i).gate : val'[lit.of] = val[lit.of]
  BY GateEarlier
<1> QED
  BY <1>1, <1>2 DEF Present, Holds

\* Where an item's offsets come from: the item it starts at, or the branch taken.
Origin(i) == IF Item(i).kind = "join" THEN Branch(i) ELSE Item(i).prev

\* What lies under literals and under their negations is never both present.
LEMMA ApartExcludes ==
    ASSUME layout \in Layouts, NEW i \in 1 .. N, NEW k \in 1 .. N, NEW literals,
           literals \subseteq Literals(layout, i), \A lit \in literals : Holds(lit),
           Apart(Item(k).gate, literals)
    PROVE  ~Present(k)
<1>1. PICK lit \in Item(k).gate : Negation(lit) \in literals
  BY DEF Apart
<1>2. Item(k).gate \subseteq Literals(layout, k)
  BY ItemShape DEF ItemType
<1>3. lit.sense \in BOOLEAN /\ Negation(lit).of = lit.of /\ Negation(lit).is = lit.is
      /\ Negation(lit).sense = ~lit.sense
  BY <1>1, <1>2 DEF Literals, Negation
<1>4. Holds(Negation(lit))
  BY <1>1
<1>5. ~Holds(lit)
  BY <1>3, <1>4 DEF Holds
<1> QED
  BY <1>1, <1>5 DEF Present

\* A present item comes from the start or from a present item, and nothing in
\* between is present: conditionals thread the last offset of each branch.
LEMMA OriginShape ==
    ASSUME layout \in Layouts, NEW i \in 1 .. N
    PROVE  /\ Origin(i) \in 0 .. N /\ Origin(i) < i
           /\ Present(i) => /\ Origin(i) = 0 \/ Present(Origin(i))
                            /\ \A k \in Origin(i) + 1 .. i - 1 : ~Present(k)
<1>1. /\ N \in Nat /\ i \in Nat /\ ItemAccepted(layout, i) /\ Item(i) \in ItemType(layout, i)
      /\ Item(i) = layout.items[i]
      /\ Item(i).gate \subseteq Literals(layout, i) /\ Item(i).cond \subseteq Literals(layout, i)
      /\ Item(i).yes \in 0 .. i - 1 /\ Item(i).no \in 0 .. i - 1 /\ Item(i).prev \in 0 .. i - 1
  BY LayoutShape, ItemShape DEF ItemType, Item
<1>2. Origin(i) \in 0 .. i - 1
  BY <1>1 DEF Origin, Branch
<1>3. ASSUME Present(i), NEW literals, literals \subseteq Literals(layout, i),
             \A lit \in literals : Holds(lit),
             GateWithin(layout, Origin(i), literals), Adjacent(layout, Origin(i), i, literals)
      PROVE  /\ Origin(i) = 0 \/ Present(Origin(i))
             /\ \A k \in Origin(i) + 1 .. i - 1 : ~Present(k)
  <2>1. Origin(i) = 0 \/ Present(Origin(i))
    BY <1>3 DEF GateWithin, Present, Item
  <2>2. ASSUME NEW k \in Origin(i) + 1 .. i - 1 PROVE ~Present(k)
    <3>1. k \in 1 .. N
      BY <1>1, <1>2
    <3>2. Apart(Item(k).gate, literals)
      BY <1>3 DEF Adjacent, Item
    <3> QED
      BY <1>3, <3>1, <3>2, ApartExcludes
  <2> QED
    BY <2>1, <2>2
<1>4. CASE Present(i) /\ Item(i).kind # "join"
  <2>1. /\ Origin(i) = Item(i).prev
        /\ GateWithin(layout, Item(i).prev, Item(i).gate)
        /\ Adjacent(layout, Item(i).prev, i, Item(i).gate)
    BY <1>1, <1>4 DEF Origin, ItemAccepted
  <2>2. \A lit \in Item(i).gate : Holds(lit)
    BY <1>4 DEF Present
  <2> QED
    BY <1>1, <1>2, <1>3, <1>4, <2>1, <2>2
<1>5. CASE Present(i) /\ Item(i).kind = "join"
  <2>1. PICK c \in Item(i).cond :
          /\ Item(i).cond = {c}
          /\ GateWithin(layout, Item(i).yes, Item(i).gate \cup {c})
          /\ GateWithin(layout, Item(i).no, Item(i).gate \cup {Negation(c)})
          /\ Adjacent(layout, Item(i).yes, i, Item(i).gate \cup {c})
          /\ Adjacent(layout, Item(i).no, i, Item(i).gate \cup {Negation(c)})
    BY <1>1, <1>5 DEF ItemAccepted
  <2>2. \A lit \in Item(i).gate : Holds(lit)
    BY <1>5 DEF Present
  <2>3. c \in Literals(layout, i) /\ c.sense \in BOOLEAN /\ Negation(c) \in Literals(layout, i)
        /\ Negation(c).of = c.of /\ Negation(c).is = c.is /\ Negation(c).sense = ~c.sense
    BY <1>1, <2>1 DEF Literals, Negation
  <2>4. CASE Taken(i)
    <3>1. Origin(i) = Item(i).yes /\ Holds(c)
      BY <1>5, <2>1, <2>4 DEF Origin, Branch, Taken
    <3> DEFINE literals == Item(i).gate \cup {c}
    <3>2. literals \subseteq Literals(layout, i) /\ \A lit \in literals : Holds(lit)
      BY <1>1, <2>2, <2>3, <3>1
    <3> QED
      BY <1>2, <1>1, <1>3, <1>5, <2>1, <3>1, <3>2
  <2>5. CASE ~Taken(i)
    <3>1. Origin(i) = Item(i).no /\ ~Holds(c)
      BY <1>5, <2>1, <2>5 DEF Origin, Branch, Taken
    <3>2. Holds(Negation(c))
      BY <2>3, <3>1 DEF Holds
    <3> DEFINE literals == Item(i).gate \cup {Negation(c)}
    <3>3. literals \subseteq Literals(layout, i) /\ \A lit \in literals : Holds(lit)
      BY <1>1, <2>2, <2>3, <3>2
    <3> QED
      BY <1>2, <1>1, <1>3, <1>5, <2>1, <3>1, <3>3
  <2> QED
    BY <2>4, <2>5
<1> QED
  BY <1>1, <1>2, <1>4, <1>5

\* The slices taken at an item that ends inside the input are inside it too, and
\* no debug assertion fails.
LEMMA ReadsFit ==
    ASSUME Memo, Guarded(layout), NEW i \in 1 .. N, NEW s \in Lengths, NEW e \in Lengths,
           ByteCeil(s) <= ByteCeil(e), ByteCeil(e) <= Size,
           BitFree(layout) => s.bit = 0
    PROVE  ~RecoverablePanics(i, s) /\ ~NodePanics(i, s, e)
<1>1. /\ ByteCeil(s) \in Nat /\ ByteCeil(e) \in Nat /\ Size \in Nat
      /\ s.byte \in Nat /\ s.byte <= ByteCeil(s) /\ s.bit \in 0 .. 7
  BY ByteCeilBounds, InputShape, UsizeMaxAssumption DEF Usize, Lengths, Memo
<1>2. /\ Item(i) \in ItemType(layout, i) /\ i \in 1 .. N + 1
      /\ Item(i) = layout.items[i] /\ N = Len(layout.items)
  BY ItemShape, LayoutShape DEF Memo, Item, N
<1>3. ~AssertFails(i, s)
  BY <1>2 DEF AssertFails, Guarded
<1>4. ~WindowTears(i, s)
  <2> SUFFICES ASSUME Item(i).kind \in {"counted", "greedy", "until"}
               PROVE  ByteCeil(s) <= WindowEnd(i, s)
    BY <1>1, WindowEndType DEF WindowTears
  <2>1. CASE Item(i).bounded
    <3>1. Eval(Item(i).len) \in Nat
      <4>1. Item(i).len \in Exprs(layout, i)
        BY <1>2 DEF ItemType
      <4>2. Eval(Item(i).len) \in Usize
        BY <1>2, <4>1, EvalType DEF Memo
      <4> QED
        BY <4>2, UsizeMaxAssumption DEF Usize
    <3>2. ByteCeil(s) <= SatAdd(ByteCeil(s), Eval(Item(i).len))
      BY <3>1, ByteCeilBounds, SatAddGrows
    <3>3. SatAdd(ByteCeil(s), Eval(Item(i).len)) \in Int
      BY <1>1, <3>1, SaturatingOps, UsizeMaxAssumption DEF Usize
    <3> QED
      BY <1>1, <2>1, <3>2, <3>3 DEF WindowEnd, Least
  <2>2. CASE ~Item(i).bounded
    <3>1. WindowEnd(i, s) = Size
      BY <1>2, <2>2 DEF WindowEnd, Guarded
    <3> QED
      BY <1>1, <3>1
  <2> QED
    BY <2>1, <2>2
<1> QED
  BY <1>1, <1>3, <1>4 DEF RecoverablePanics, NodePanics

\* At the field a walk has come to, nothing the checks evaluate panics.
LEMMA ChecksFit ==
    ASSUME TypeOK, WalkIsSafe, Guarded(layout), AtField, call \in {"parse", "dissect"}
    PROVE  /\ ~GatePanics(pc) /\ ~StartPanics(pc) /\ ~EndPanics(pc) /\ ~CheckPanics(pc)
           /\ ~AssertFails(pc, StartOf(pc))
           /\ FatalError(pc, StartOf(pc), EndOf(pc)) = "none" =>
                 ~NodePanics(pc, StartOf(pc), EndOf(pc))
<1>1. /\ Memo /\ N \in Nat /\ pc \in 1 .. N /\ Item(pc).kind # "join"
      /\ Visited = 1 .. pc - 1
  BY TypeIsMemo, LayoutShape DEF TypeOK, AtField, Visited
<1>2. torn = {} /\ unreadable = {}
  BY DEF WalkIsSafe
<1>3. /\ Item(pc) \in ItemType(layout, pc) /\ Item(pc) = layout.items[pc]
      /\ N = Len(layout.items) /\ Item(pc).prev \in 0 .. N /\ Item(pc).prev < pc
  BY <1>1, ItemShape DEF Memo, Item, N
<1>4. StartOf(pc) \in Lengths /\ EndOf(pc) \in Lengths
      /\ ByteCeil(StartOf(pc)) <= ByteCeil(EndOf(pc))
  BY <1>1, EndOfGrows
<1>5. BitFree(layout) => StartOf(pc).bit = 0
  BY <1>1, <1>3, StartOnBytes DEF WalkIsSafe
<1>6. ~AssertFails(pc, StartOf(pc))
  BY <1>1, <1>3, <1>5 DEF AssertFails, Guarded
<1>7. ~HookTears(pc, StartOf(pc))
  <2> SUFFICES ASSUME Item(pc).kind = "hook", ~Item(pc).bounded
               PROVE  StartOf(pc).byte <= Size
    BY <1>4, InputShape, UsizeMaxAssumption DEF HookTears, Lengths, Usize, Memo, TypeOK
  <2>1. /\ Item(pc).pad = 0 /\ Item(pc).padTo = 0
        /\ Item(pc).prev = 0 \/ layout.items[Item(pc).prev].gate = {}
    BY <1>1, <1>3 DEF Guarded
  <2>2. end[Item(pc).prev] \in Lengths
    BY <1>1, <1>3 DEF Memo
  <2>3. StartOf(pc) = end[Item(pc).prev]
    BY <2>1, <2>2, AddZero DEF StartOf
  <2>4. CASE Item(pc).prev = 0
    BY <1>1, <2>3, <2>4, InputShape DEF WalkIsSafe, ZeroLength, Length, Memo
  <2>5. CASE Item(pc).prev # 0
    <3>1. Item(pc).prev \in Visited /\ Present(Item(pc).prev)
      BY <1>1, <1>3, <2>1, <2>5 DEF Present, Item
    <3>2. ByteCeil(end[Item(pc).prev]) <= Size
      BY <3>1 DEF WalkIsSafe
    <3>3. /\ end[Item(pc).prev].byte <= ByteCeil(end[Item(pc).prev])
          /\ end[Item(pc).prev].byte \in Usize /\ ByteCeil(end[Item(pc).prev]) \in Usize
      BY <2>2, ByteCeilBounds DEF Lengths
    <3>4. Size \in Nat
      BY <1>1, InputShape DEF Memo
    <3> QED
      BY <2>3, <3>2, <3>3, <3>4, UsizeMaxAssumption DEF Usize
  <2> QED
    BY <2>4, <2>5
<1>8. ~GatePanics(pc) /\ ~StartPanics(pc) /\ ~EndPanics(pc) /\ ~FatalPanics(pc)
  BY <1>2, <1>7 DEF GatePanics, StartPanics, EndPanics, FatalPanics
<1>9. ASSUME FatalError(pc, StartOf(pc), EndOf(pc)) = "none"
      PROVE  /\ ~RecoverablePanics(pc, StartOf(pc))
             /\ ~NodePanics(pc, StartOf(pc), EndOf(pc))
  <2>1. ~(Size < ByteCeil(EndOf(pc)))
    BY <1>9 DEF FatalError
  <2>2. ByteCeil(EndOf(pc)) <= Size
    BY <1>1, <1>4, <2>1, ByteCeilBounds, InputShape, UsizeMaxAssumption DEF Usize, Memo
  <2> QED
    BY <1>1, <1>4, <1>5, <2>2, ReadsFit
<1> QED
  BY <1>6, <1>8, <1>9 DEF CheckPanics

\* Going past a field keeps the walk safe, once its check has passed.
LEMMA SafeVisit ==
    ASSUME TypeOK, WalkIsSafe, AtField, VisitField, call \in {"parse", "dissect"},
           UNCHANGED <<layout, data, answer, call>>,
           Present(pc) => FatalError(pc, StartOf(pc), EndOf(pc)) = "none"
    PROVE  WalkIsSafe'
<1>1. /\ Memo /\ N \in Nat /\ pc \in 1 .. N /\ Item(pc).kind # "join"
      /\ Visited = 1 .. pc - 1
  BY TypeIsMemo, LayoutShape DEF TypeOK, AtField, Visited
<1>2. /\ pc' = pc + 1
      /\ start' = [start EXCEPT ![pc] = StartOf(pc)]
      /\ end' = [end EXCEPT ![pc] = EndOf(pc)]
      /\ val' = [val EXCEPT ![pc] = NumberAt(pc, StartOf(pc), EndOf(pc))]
  BY DEF VisitField
<1>3. N' = N /\ Size' = Size /\ \A i \in 1 .. N : Item(i)' = Item(i)
  BY DEF N, Size, Item
<1>4. Visited' = 1 .. pc
  BY <1>1, <1>2 DEF Visited
<1>5. \A i \in 1 .. pc : Present(i)' <=> Present(i)
  <2> TAKE i \in 1 .. pc
  <2>1. i \in 1 .. N /\ \A j \in 1 .. i - 1 : val'[j] = val[j]
    BY <1>1, <1>2 DEF Memo
  <2> QED
    BY <1>1, <2>1, PresentKept DEF Memo
<1>6. StartOf(pc) \in Lengths /\ EndOf(pc) \in Lengths
      /\ ByteCeil(StartOf(pc)) <= ByteCeil(EndOf(pc))
  BY <1>1, EndOfGrows
<1>7. end'[0] = ZeroLength
  BY <1>1, <1>2 DEF WalkIsSafe, Memo
<1>8. \A i \in 1 .. pc :
         /\ Item(i).kind # "join" => ByteCeil(start'[i]) <= ByteCeil(end'[i])
         /\ Present(i) => ByteCeil(end'[i]) <= Size
  <2> TAKE i \in 1 .. pc
  <2>1. CASE i = pc
    <3>1. start'[i] = StartOf(pc) /\ end'[i] = EndOf(pc)
      BY <1>1, <1>2, <2>1 DEF Memo
    <3>2. Present(pc) => ~(Size < ByteCeil(EndOf(pc)))
      BY DEF FatalError
    <3>3. ByteCeil(EndOf(pc)) \in Int /\ Size \in Int
      BY <1>1, <1>6, ByteCeilBounds, InputShape, UsizeMaxAssumption DEF Usize, Memo
    <3> QED
      BY <1>6, <2>1, <3>1, <3>2, <3>3
  <2>2. CASE i # pc
    <3>1. i \in 1 .. pc - 1 /\ i \in 0 .. N
      BY <1>1, <2>2
    <3>2. start'[i] = start[i] /\ end'[i] = end[i]
      BY <1>2, <2>2, <3>1 DEF Memo, TypeOK
    <3> QED
      BY <1>1, <3>1, <3>2 DEF WalkIsSafe
  <2> QED
    BY <2>1, <2>2
<1>9. ASSUME BitFree(layout), NEW i \in 0 .. N PROVE start'[i].bit = 0 /\ end'[i].bit = 0
  <2>1. StartOf(pc).bit = 0 /\ EndOf(pc).bit = 0
    BY <1>1, <1>9, EndOnBytes, ItemShape DEF WalkIsSafe, Memo
  <2> QED
    BY <1>1, <1>2, <1>9, <2>1 DEF WalkIsSafe, Memo
<1>10. ASSUME Guarded(layout) PROVE torn' = {} /\ unreadable' = {} /\ call' # "panic"
  <2>1. ~EndPanics(pc) /\ ~AssertFails(pc, StartOf(pc))
    BY <1>10, ChecksFit
  <2> QED
    BY <1>10, <2>1 DEF VisitField, WalkIsSafe
<1> QED
  BY <1>3, <1>4, <1>5, <1>7, <1>8, <1>9, <1>10, <1>1 DEF WalkIsSafe

\* A walk that starts over is safe.
LEMMA SafeRestart ==
    ASSUME TypeOK, Restart, UNCHANGED Given, call' = "dissect"
    PROVE  WalkIsSafe'
<1>1. N' = N /\ N \in Nat
  BY LayoutShape DEF N, Given, TypeOK
<1>2. Visited' = {}
  BY DEF Visited, Restart
<1>3. end' = [i \in 0 .. N |-> ZeroLength] /\ start' = [i \in 0 .. N |-> ZeroLength]
  BY DEF Restart, AtStart
<1>4. ZeroLength.bit = 0
  BY DEF ZeroLength, Length
<1> QED
  BY <1>1, <1>2, <1>3, <1>4 DEF WalkIsSafe, Restart

\* So is one whose visited items stay the same or become fewer.
LEMMA SafeWhenWalkStays ==
    ASSUME TypeOK, WalkIsSafe, UNCHANGED Given,
           UNCHANGED <<start, end, val, torn, unreadable>>,
           Visited' \subseteq Visited, Guarded(layout) => call' # "panic"
    PROVE  WalkIsSafe'
<1>1. /\ N' = N /\ Size' = Size
      /\ \A i : Item(i)' = Item(i)
      /\ layout' = layout
  BY DEF N, Size, Item, Given
<1>2. \A i : Present(i)' <=> Present(i)
  BY <1>1 DEF Present, Holds
<1>3. start' = start /\ end' = end /\ torn' = torn /\ unreadable' = unreadable
  OBVIOUS
<1> QED
  BY <1>1, <1>2, <1>3 DEF WalkIsSafe

\* A conditional ends where the branch that is present ends.
LEMMA SafeJoin ==
    ASSUME TypeOK, WalkIsSafe, Join
    PROVE  WalkIsSafe'
<1>1. /\ Memo /\ N \in Nat /\ pc \in 1 .. N /\ Item(pc).kind = "join"
      /\ call \in {"parse", "dissect"} /\ Visited = 1 .. pc - 1
  BY TypeIsMemo, LayoutShape DEF TypeOK, Join, Visited
<1> DEFINE b == Branch(pc)
<1>2. /\ pc' = pc + 1 /\ end' = [end EXCEPT ![pc] = end[b]]
      /\ UNCHANGED <<layout, data, answer, call, start, val, unreadable>>
  BY DEF Join
<1>3. /\ N' = N /\ Size' = Size /\ Visited' = 1 .. pc
      /\ \A i : Item(i)' = Item(i)
  BY <1>1, <1>2 DEF N, Size, Item, Visited
<1>4. \A i : Present(i)' <=> Present(i)
  BY <1>2, <1>3 DEF Present, Holds
<1>5. /\ ItemAccepted(layout, pc) /\ Item(pc) = layout.items[pc]
      /\ Item(pc).yes \in 0 .. pc - 1 /\ Item(pc).no \in 0 .. pc - 1
  BY <1>1, ItemShape DEF Memo, ItemType, Item
<1>6. b \in 0 .. pc - 1
  BY <1>5 DEF Branch
<1>7. Present(pc) => b = 0 \/ Present(b)
  BY <1>1, OriginShape DEF Origin, Memo
<1> HIDE DEF b
<1>8. /\ end'[pc] = end[b] /\ end'[0] = end[0]
      /\ \A i \in 0 .. N : i # pc => end'[i] = end[i]
  BY <1>1, <1>2 DEF Memo
<1>9. Present(pc) => ByteCeil(end[b]) <= Size
  <2>1. CASE b = 0
    <3>1. ByteCeil(ZeroLength) = 0
      BY UsizeMaxAssumption DEF ByteCeil, ZeroLength, Length, SatAdd, Saturate
    <3> QED
      BY <1>1, <2>1, <3>1, InputShape DEF WalkIsSafe, Memo
  <2>2. CASE b # 0
    BY <1>1, <1>6, <1>7, <2>2 DEF WalkIsSafe
  <2> QED
    BY <2>1, <2>2
<1>10. \A i \in 1 .. pc :
          /\ Item(i).kind # "join" => ByteCeil(start'[i]) <= ByteCeil(end'[i])
          /\ Present(i) => ByteCeil(end'[i]) <= Size
  <2> TAKE i \in 1 .. pc
  <2>1. CASE i = pc
    BY <1>1, <1>8, <1>9, <2>1
  <2>2. CASE i # pc
    <3>1. i \in 1 .. pc - 1 /\ i \in 0 .. N
      BY <1>1, <2>2
    <3>2. end'[i] = end[i] /\ start'[i] = start[i]
      BY <1>2, <1>8, <2>2, <3>1
    <3> QED
      BY <1>1, <3>1, <3>2 DEF WalkIsSafe
  <2> QED
    BY <2>1, <2>2
<1>11. ASSUME BitFree(layout), NEW i \in 0 .. N
       PROVE  start'[i].bit = 0 /\ end'[i].bit = 0
  <2>1. b \in 0 .. N
    BY <1>1, <1>6
  <2> QED
    BY <1>2, <1>8, <1>11, <2>1 DEF WalkIsSafe
<1>12. ASSUME Guarded(layout)
       PROVE  torn' = {} /\ unreadable' = {} /\ call' # "panic"
  <2>1. torn = {} /\ unreadable = {}
    BY <1>12 DEF WalkIsSafe
  <2>2. ~TakenPanics(pc) /\ Branch(pc) \notin torn
    BY <2>1 DEF TakenPanics, GatePanics
  <2>3. torn' = {}
    BY <2>1, <2>2 DEF Join
  <2> QED
    BY <1>1, <1>2, <2>1, <2>3
<1> QED
  BY <1>1, <1>2, <1>3, <1>4, <1>8, <1>10, <1>11, <1>12 DEF WalkIsSafe

\* The tree of a parsed view reads what parse has checked.
LEMMA TreeFits ==
    ASSUME TypeOK, WalkIsSafe, Guarded(layout), call = "tree", AtField
    PROVE  /\ ~StartPanics(pc) /\ pc \notin torn
           /\ Present(pc) => ~NodePanics(pc, start[pc], end[pc])
<1>1. /\ Memo /\ N \in Nat /\ pc \in 1 .. N /\ Item(pc).kind # "join"
      /\ pc \in Visited
  BY TypeIsMemo, LayoutShape DEF TypeOK, AtField, Visited
<1>2. start[pc] \in Lengths /\ end[pc] \in Lengths
  BY <1>1 DEF Memo
<1>3. BitFree(layout) => start[pc].bit = 0
  BY <1>1 DEF WalkIsSafe
<1>4. ByteCeil(start[pc]) <= ByteCeil(end[pc])
  BY <1>1 DEF WalkIsSafe
<1>5. Present(pc) => ByteCeil(end[pc]) <= Size
  BY <1>1 DEF WalkIsSafe
<1> QED
  BY <1>1, <1>2, <1>3, <1>4, <1>5, ReadsFit DEF WalkIsSafe, StartPanics

\* Nothing of a guarded layout panics where the walk stands.
LEMMA NoStructLengthPanic ==
    ASSUME TypeOK, WalkIsSafe, Guarded(layout)
    PROVE  ~StructLengthPanics
BY DEF WalkIsSafe, StructLengthPanics

\* A step that goes to "panic" and changes nothing else needs a layout that is
\* not guarded.
LEMMA SafePanic ==
    ASSUME TypeOK, WalkIsSafe, Panic, ~Guarded(layout)
    PROVE  WalkIsSafe'
<1>1. Visited' \subseteq Visited
  <2>1. pc' = pc /\ call' = "panic"
    BY DEF Panic, walk
  <2>2. pc \in 1 .. N + 1 /\ N \in Nat /\ N' = N
    BY LayoutShape DEF TypeOK, Panic, N
  <2> QED
    BY <2>1, <2>2 DEF Visited
<1> QED
  BY <1>1, SafeWhenWalkStays DEF Panic, walk, Given

LEMMA SafeParse ==
    ASSUME TypeOK, WalkIsSafe, Parse
    PROVE  WalkIsSafe'
<1>1. CASE ParseAbsent
  BY <1>1, SafeVisit DEF ParseAbsent
<1>2. CASE ParseAccept
  <2>1. FatalError(pc, StartOf(pc), EndOf(pc)) = "none"
    BY <1>2 DEF ParseAccept, FieldError
  <2> QED
    BY <1>2, <2>1, SafeVisit DEF ParseAccept
<1>3. ASSUME NEW o, Return(o), o.status # "ok" PROVE WalkIsSafe'
  BY <1>3, SafeRestart DEF Return, Given
<1>4. CASE ParseReject
  <2>1. Outcome(FieldError(pc), pc, 0).status # "ok"
    <3>1. HookError(pc, StartOf(pc)) # "ok" /\ ConvError(pc, StartOf(pc)) # "ok"
      BY DEF HookError, ConvError
    <3>2. FatalError(pc, StartOf(pc), EndOf(pc)) # "ok"
      BY <3>1 DEF FatalError
    <3>3. RecoverableError(pc, StartOf(pc), EndOf(pc)) # "ok"
      BY <3>1 DEF RecoverableError
    <3> QED
      BY <3>2, <3>3 DEF FieldError, Outcome
  <2> QED
    BY <1>3, <1>4, <2>1 DEF ParseReject
<1>5. CASE ParsePanic
  <2>1. Guarded(layout) => ~StructLengthPanics
    BY NoStructLengthPanic
  <2>2. Guarded(layout) /\ AtField => ~GatePanics(pc) /\ ~CheckPanics(pc)
    BY <1>5, ChecksFit DEF ParsePanic
  <2> QED
    BY <1>5, <2>1, <2>2, SafePanic DEF ParsePanic
<1>6. CASE ParseFinish
  <2> DEFINE outcome == IF StructLength.bit # 0 THEN Outcome("Unaligned", N + 1, 0)
                        ELSE IF Size < StructLength.byte THEN Outcome("NotEnoughData", N + 1, 0)
                        ELSE Outcome("ok", N + 1, StructLength.byte)
  <2>1. Return(outcome)
    BY <1>6 DEF ParseFinish
  <2> HIDE DEF outcome
  <2>2. CASE outcome.status # "ok"
    BY <1>3, <2>1, <2>2
  <2>3. CASE outcome.status = "ok"
    <3>1. call' = "tree" /\ UNCHANGED <<start, end, val, torn, unreadable>> /\ UNCHANGED Given
      BY <2>1, <2>3 DEF Return, Given
    <3>2. N \in Nat /\ N' = N /\ pc = N + 1
      BY <1>6, <3>1, LayoutShape DEF ParseFinish, TypeOK, N, Given
    <3>3. Visited = 1 .. N /\ Visited' = 1 .. N
      BY <1>6, <3>1, <3>2 DEF ParseFinish, Visited
    <3> QED
      BY <3>1, <3>3, SafeWhenWalkStays
  <2> QED
    BY <2>2, <2>3
<1> QED
  BY <1>1, <1>2, <1>4, <1>5, <1>6 DEF Parse

LEMMA SafeView ==
    ASSUME TypeOK, WalkIsSafe, View
    PROVE  WalkIsSafe'
<1>1. ASSUME NEW shown, call = "tree", TreeShow(shown) PROVE WalkIsSafe'
  <2>1. Visited' = Visited
    BY <1>1 DEF TreeShow, Visited, N
  <2> QED
    BY <1>1, <2>1, SafeWhenWalkStays DEF TreeShow, Given
<1>2. CASE TreeJoin
  BY <1>1, <1>2 DEF TreeJoin
<1>3. CASE TreeAbsent
  BY <1>1, <1>3 DEF TreeAbsent
<1>4. CASE TreePresent
  BY <1>1, <1>4 DEF TreePresent
<1>5. CASE TreePanic
  <2>1. ~Guarded(layout)
    BY <1>5, TreeFits DEF TreePanic
  <2> QED
    BY <1>5, <2>1, SafePanic DEF TreePanic
<1>6. CASE TreeFinish
  <2>1. Visited' = Visited
    BY <1>6 DEF TreeFinish, Visited, N
  <2> QED
    BY <1>6, <2>1, SafeWhenWalkStays DEF TreeFinish, walk, Given
<1>7. CASE Handoff
  BY <1>7, SafeRestart DEF Handoff, Given
<1> QED
  BY <1>2, <1>3, <1>4, <1>5, <1>6, <1>7 DEF View

LEMMA SafeDissect ==
    ASSUME TypeOK, WalkIsSafe, Dissect
    PROVE  WalkIsSafe'
<1>1. ASSUME NEW shown, AtDissect, DissectShow(shown),
             Present(pc) => FatalError(pc, StartOf(pc), EndOf(pc)) = "none"
      PROVE  WalkIsSafe'
  BY <1>1, SafeVisit DEF AtDissect, DissectShow
<1>2. CASE DissectAbsent
  BY <1>1, <1>2 DEF DissectAbsent
<1>3. CASE DissectPresent
  BY <1>1, <1>3 DEF DissectPresent, FieldError
<1>4. CASE DissectRecover
  BY <1>1, <1>4 DEF DissectRecover
<1>5. CASE DissectFatal
  <2>1. Visited' = Visited
    BY <1>5 DEF DissectFatal, Visited, N, walk
  <2> QED
    BY <1>5, <2>1, SafeWhenWalkStays DEF DissectFatal, AtDissect, walk, Given
<1>6. CASE DissectPanic
  <2>1. ~Guarded(layout)
    <3> SUFFICES ASSUME Guarded(layout) PROVE FALSE
      OBVIOUS
    <3>1. /\ ~GatePanics(pc) /\ ~StartPanics(pc) /\ ~CheckPanics(pc)
          /\ FatalError(pc, StartOf(pc), EndOf(pc)) = "none" =>
                ~NodePanics(pc, StartOf(pc), EndOf(pc))
      BY <1>6, ChecksFit DEF DissectPanic, AtDissect
    <3> QED
      BY <1>6, <3>1 DEF DissectPanic, DissectPanics, FieldError
  <2> QED
    BY <1>6, <2>1, SafePanic DEF DissectPanic
<1>7. CASE DissectFinish
  <2>1. Visited' = Visited
    BY <1>7 DEF DissectFinish, Visited, N, walk
  <2> QED
    BY <1>7, <2>1, SafeWhenWalkStays DEF DissectFinish, walk, Given
<1> QED
  BY <1>2, <1>3, <1>4, <1>5, <1>6, <1>7 DEF Dissect

LEMMA SafeStep == TypeOK /\ WalkIsSafe /\ [Next]_vars => WalkIsSafe'
<1> SUFFICES ASSUME TypeOK, WalkIsSafe, [Next]_vars PROVE WalkIsSafe'
  OBVIOUS
<1>1. CASE UNCHANGED vars
  <2>1. Visited' = Visited
    BY <1>1 DEF vars, walk, Visited, N
  <2> QED
    BY <1>1, <2>1, SafeWhenWalkStays DEF vars, walk, Given, WalkIsSafe
<1> QED
  BY <1>1, SafeParse, SafeJoin, SafeView, SafeDissect DEF Next

\* The walk of every accepted layout keeps to its input: what is present and
\* checked ends inside data, on every byte string and every answer of the hooks.
THEOREM WalksAreSafe == Spec => []WalkIsSafe
<1>1. Init => WalkIsSafe
  <2> SUFFICES ASSUME Init PROVE WalkIsSafe
    OBVIOUS
  <2>1. N \in Nat
    BY LayoutShape DEF Init
  <2>2. end = [i \in 0 .. N |-> ZeroLength] /\ start = [i \in 0 .. N |-> ZeroLength]
    BY DEF Init, AtStart
  <2>3. Visited = {}
    BY DEF Init, Visited
  <2>4. ZeroLength.bit = 0
    BY DEF ZeroLength, Length
  <2> QED
    BY <2>1, <2>2, <2>3, <2>4 DEF Init, WalkIsSafe
<1> QED
  BY <1>1, SafeStep, StructTypeCorrect, PTL DEF Spec

\* parse, field_tree, handoff and dissect of a guarded layout never panic: the
\* saturating offset arithmetic and the fatal check of each field are enough.
THEOREM GuardedStructsNeverPanic == Spec => []GuardedNeverPanics
<1>1. WalkIsSafe => GuardedNeverPanics
  BY DEF WalkIsSafe, GuardedNeverPanics, NeverPanics
<1> QED
  BY <1>1, WalksAreSafe, PTL

-----------------------------------------------------------------------------
(* The elements of an array lie in its window.                             *)

\* What a step does to the walk: visit the field, end a conditional, start over,
\* or leave the visited items alone.
LEMMA WalkStep ==
    ASSUME TypeOK, [Next]_vars
    PROVE  \/ /\ AtField /\ VisitField /\ call \in {"parse", "dissect"}
              /\ UNCHANGED Given /\ call' = call
           \/ Join
           \/ Restart /\ UNCHANGED Given /\ call' = "dissect"
           \/ /\ UNCHANGED Given /\ UNCHANGED <<start, end, val, torn, unreadable>>
              /\ Visited' \subseteq Visited
<1>n. N \in Nat /\ pc \in 1 .. N + 1
  BY LayoutShape DEF TypeOK
<1>1. CASE UNCHANGED vars
  BY <1>1 DEF vars, walk, Given, Visited, N
<1>p. CASE Panic
  <2>1. UNCHANGED Given /\ UNCHANGED <<start, end, val, torn, unreadable>>
        /\ pc' = pc /\ call' = "panic" /\ N' = N
    BY <1>p DEF Panic, walk, Given, N
  <2>2. Visited' \subseteq Visited
    BY <1>n, <2>1 DEF Visited
  <2> QED
    BY <2>1, <2>2
<1>2. CASE Parse
  <2>1. CASE ParseAbsent
    BY <2>1 DEF ParseAbsent, Given
  <2>2. CASE ParseAccept
    BY <2>2 DEF ParseAccept, Given
  <2>r. ASSUME NEW o, Return(o), o.status # "ok" \/ pc > N, call = "parse"
        PROVE  \/ Restart /\ UNCHANGED Given /\ call' = "dissect"
               \/ /\ UNCHANGED Given /\ UNCHANGED <<start, end, val, torn, unreadable>>
                  /\ Visited' \subseteq Visited
    <3>1. CASE o.status = "ok"
      <4>1. call' = "tree" /\ UNCHANGED Given /\ UNCHANGED <<start, end, val, torn, unreadable>>
            /\ N' = N
        BY <2>r, <3>1 DEF Return, Given, N
      <4>2. pc = N + 1
        BY <1>n, <2>r, <3>1
      <4> QED
        BY <1>n, <2>r, <4>1, <4>2 DEF Visited
    <3>2. CASE o.status # "ok"
      BY <2>r, <3>2 DEF Return, Given
    <3> QED
      BY <3>1, <3>2
  <2>3. CASE ParseReject
    <3>1. HookError(pc, StartOf(pc)) # "ok" /\ ConvError(pc, StartOf(pc)) # "ok"
      BY DEF HookError, ConvError
    <3>2. FieldError(pc) # "ok"
      BY <3>1 DEF FieldError, FatalError, RecoverableError
    <3>3. Outcome(FieldError(pc), pc, 0).status # "ok"
      BY <3>2 DEF Outcome
    <3> QED
      BY <2>3, <2>r, <3>3 DEF ParseReject
  <2>4. CASE ParsePanic
    BY <1>p, <2>4 DEF ParsePanic
  <2>5. CASE ParseFinish
    BY <2>5, <2>r DEF ParseFinish
  <2> QED
    BY <1>2, <2>1, <2>2, <2>3, <2>4, <2>5 DEF Parse
<1>3. CASE View
  <2>1. CASE TreeJoin \/ TreeAbsent \/ TreePresent
    BY <2>1 DEF TreeJoin, TreeAbsent, TreePresent, TreeShow, Visited, N, Given
  <2>2. CASE TreePanic
    BY <1>p, <2>2 DEF TreePanic
  <2>3. CASE TreeFinish
    BY <2>3 DEF TreeFinish, walk, Visited, N, Given
  <2>4. CASE Handoff
    BY <2>4 DEF Handoff, Given
  <2> QED
    BY <1>3, <2>1, <2>2, <2>3, <2>4 DEF View
<1>4. CASE Dissect
  <2>1. CASE DissectAbsent \/ DissectPresent \/ DissectRecover
    BY <2>1 DEF DissectAbsent, DissectPresent, DissectRecover, AtDissect, DissectShow, Given
  <2>2. CASE DissectFatal
    BY <2>2 DEF DissectFatal, walk, Visited, N, Given
  <2>3. CASE DissectPanic
    BY <1>p, <2>3 DEF DissectPanic
  <2>4. CASE DissectFinish
    BY <2>4 DEF DissectFinish, walk, Visited, N, Given
  <2> QED
    BY <1>4, <2>1, <2>2, <2>3, <2>4 DEF Dissect
<1> QED
  BY <1>1, <1>2, <1>3, <1>4 DEF Next

\* A counted array that was visited ends where its count, read now, says.
CountedSettled ==
    \A i \in Visited :
        Item(i).kind = "counted" =>
            end[i] = AddLength(start[i], MulLength(Item(i).size, Eval(Item(i).count)))

\* A count reads earlier fields only.
LEMMA CountKept ==
    ASSUME Memo, layout' = layout, NEW i \in 1 .. N, \A j \in 1 .. i - 1 : val'[j] = val[j]
    PROVE  Eval(Item(i).count)' = Eval(Item(i).count)
<1>1. Item(i)' = Item(i)
  BY DEF Item
<1>2. Item(i).count \in Exprs(layout, i)
  BY ItemShape DEF Memo, ItemType
<1>3. Item(i).count.of = 0 \/ Item(i).count.of \in 1 .. i - 1
  BY <1>2 DEF Exprs, Numbers
<1> QED
  BY <1>1, <1>3 DEF Eval

LEMMA SettledStep ==
    ASSUME TypeOK, CountedSettled, [Next]_vars PROVE CountedSettled'
<1>1. Memo /\ N \in Nat /\ pc \in 1 .. N + 1
  BY TypeIsMemo, LayoutShape DEF TypeOK
<1>2. CASE /\ AtField /\ VisitField /\ call \in {"parse", "dissect"}
           /\ UNCHANGED Given /\ call' = call
  <2>1. /\ pc \in 1 .. N /\ Visited = 1 .. pc - 1 /\ Visited' = 1 .. pc
        /\ layout' = layout /\ \A i : Item(i)' = Item(i)
    BY <1>1, <1>2 DEF AtField, VisitField, Visited, Given, Item
  <2>2. /\ start' = [start EXCEPT ![pc] = StartOf(pc)]
        /\ end' = [end EXCEPT ![pc] = EndOf(pc)]
        /\ val' = [val EXCEPT ![pc] = NumberAt(pc, StartOf(pc), EndOf(pc))]
    BY <1>2 DEF VisitField
  <2>3. \A i \in 1 .. pc : Eval(Item(i).count)' = Eval(Item(i).count)
    <3> TAKE i \in 1 .. pc
    <3>1. i \in 1 .. N /\ \A j \in 1 .. i - 1 : val'[j] = val[j]
      BY <1>1, <2>1, <2>2 DEF Memo
    <3> QED
      BY <1>1, <2>1, <3>1, CountKept
  <2>4. Item(pc).kind = "counted" =>
            EndOf(pc) = AddLength(StartOf(pc), MulLength(Item(pc).size, Eval(Item(pc).count)))
    <3> SUFFICES ASSUME Item(pc).kind = "counted"
                 PROVE  LengthOf(pc, StartOf(pc)) = MulLength(Item(pc).size, Eval(Item(pc).count))
      BY DEF EndOf
    <3>1. ~Item(pc).bounded
      BY <1>1, <2>1, ItemShape DEF ItemAccepted, Item, Memo
    <3> QED
      BY <3>1 DEF LengthOf
  <2>5. ASSUME NEW i \in 1 .. pc, Item(i).kind = "counted"
        PROVE  end'[i] = AddLength(start'[i], MulLength(Item(i).size, Eval(Item(i).count)))
    <3>1. CASE i = pc
      BY <1>1, <2>1, <2>2, <2>4, <2>5, <3>1 DEF Memo
    <3>2. CASE i # pc
      <4>1. i \in Visited /\ i \in 0 .. N
        BY <1>1, <2>1, <3>2
      <4>2. start'[i] = start[i] /\ end'[i] = end[i]
        BY <1>1, <2>2, <3>2, <4>1 DEF Memo
      <4> QED
        BY <2>5, <4>1, <4>2 DEF CountedSettled
    <3> QED
      BY <3>1, <3>2
  <2> QED
    BY <2>1, <2>3, <2>5 DEF CountedSettled
<1>3. CASE Join
  <2>1. /\ pc \in 1 .. N /\ Item(pc).kind = "join"
        /\ Visited = 1 .. pc - 1 /\ Visited' = 1 .. pc
        /\ layout' = layout /\ \A i : Item(i)' = Item(i)
        /\ start' = start /\ val' = val
        /\ end' = [end EXCEPT ![pc] = end[Branch(pc)]]
    BY <1>1, <1>3 DEF Join, Visited, Item
  <2>2. ASSUME NEW i \in 1 .. pc, Item(i).kind = "counted"
        PROVE  end'[i] = AddLength(start'[i], MulLength(Item(i).size, Eval(Item(i).count)))
    <3>1. i # pc
      BY <2>1, <2>2
    <3>2. i \in Visited /\ i \in 0 .. N
      BY <1>1, <2>1, <3>1
    <3>3. end'[i] = end[i]
      BY <1>1, <2>1, <3>1, <3>2 DEF Memo
    <3> QED
      BY <2>1, <2>2, <3>2, <3>3 DEF CountedSettled
  <2>3. \A i : Eval(Item(i).count)' = Eval(Item(i).count)
    BY <2>1 DEF Eval
  <2> QED
    BY <2>1, <2>2, <2>3 DEF CountedSettled
<1>4. CASE Restart /\ UNCHANGED Given /\ call' = "dissect"
  <2>1. Visited' = {}
    BY <1>4 DEF Restart, Visited
  <2> QED
    BY <2>1 DEF CountedSettled
<1>5. CASE /\ UNCHANGED Given /\ UNCHANGED <<start, end, val, torn, unreadable>>
           /\ Visited' \subseteq Visited
  <2>1. \A i : Item(i)' = Item(i) /\ Eval(Item(i).count)' = Eval(Item(i).count)
    BY <1>5 DEF Item, Eval, Given
  <2> QED
    BY <1>5, <2>1 DEF CountedSettled
<1> QED
  BY <1>2, <1>3, <1>4, <1>5, WalkStep

LEMMA CountedInside ==
    ASSUME TypeOK, WalkIsSafe, CountedSettled, NEW i \in Fields(Visited),
           Item(i).kind = "counted", start[i].bit = 0
    PROVE  8 * start[i].byte + ElementCount(i, start[i]) * (8 * Item(i).size.byte + Item(i).size.bit)
               <= 8 * WindowEnd(i, start[i])
<1>1. Memo /\ i \in 1 .. N /\ i \in 1 .. N + 1 /\ i \in Visited /\ Present(i)
  BY TypeIsMemo, LayoutShape DEF TypeOK, Fields, Visited
<1>2. /\ Item(i) \in ItemType(layout, i) /\ ItemAccepted(layout, i) /\ i \in 0 .. N
  BY <1>1, ItemShape DEF Memo
<1>3. ~Item(i).bounded
  BY <1>2 DEF ItemAccepted, Item
<1>4. WindowEnd(i, start[i]) = Size /\ ElementCount(i, start[i]) = Eval(Item(i).count)
  BY <1>3 DEF WindowEnd, ElementCount
<1>5. Item(i).size \in Lengths /\ Item(i).count \in Exprs(layout, i)
  BY <1>2 DEF ItemType
<1>6. Eval(Item(i).count) \in Usize
  BY <1>1, <1>5, EvalType DEF Memo
<1>7. start[i] \in Lengths
  BY <1>1, <1>2 DEF Memo
<1>8. ByteCeil(AddLength(start[i], MulLength(Item(i).size, Eval(Item(i).count)))) <= Size
  BY <1>1 DEF WalkIsSafe, CountedSettled
<1>9. Size \in Nat /\ 8 * (Size + 1) <= UsizeMax
  BY <1>1, InputShape, InputsAssumption DEF Memo, Size
<1> QED
  BY <1>4, <1>5, <1>6, <1>7, <1>8, <1>9, MulFits

LEMMA WholeElementsFit ==
    ASSUME NEW d \in Nat, NEW z \in Nat \ {0} PROVE d \div z \in Nat /\ (d \div z) * z <= d
OBVIOUS

LEMMA OthersInside ==
    ASSUME TypeOK, NEW i \in Fields(Visited), Item(i).kind \in {"greedy", "until"},
           start[i].bit = 0, ElementCount(i, start[i]) > 0
    PROVE  8 * start[i].byte + ElementCount(i, start[i]) * (8 * Item(i).size.byte + Item(i).size.bit)
               <= 8 * WindowEnd(i, start[i])
<1> DEFINE s == start[i]
           w == WindowEnd(i, s)
           z == Item(i).size.byte
           n == ElementCount(i, s)
<1>1. Memo /\ i \in 1 .. N /\ i \in 0 .. N
  BY TypeIsMemo, LayoutShape DEF TypeOK, Fields, Visited
<1>2. Item(i) \in ItemType(layout, i) /\ ItemAccepted(layout, i)
  BY <1>1, ItemShape DEF Memo
<1>3. /\ Item(i).size \in Lengths /\ Item(i).size.bit = 0 /\ Item(i).size.byte > 0
      /\ Item(i).kind = "until" => Item(i).size.byte = 1
  BY <1>2 DEF ItemType, ItemAccepted, Item
<1>4. z \in Nat \ {0}
  BY <1>3, UsizeMaxAssumption DEF Lengths, Usize
<1>5. s \in Lengths
  BY <1>1 DEF Memo
<1>6. w \in Nat /\ ByteCeil(s) \in Nat /\ s.byte <= ByteCeil(s) /\ s.byte \in Nat
  BY <1>1, <1>5, WindowEndType, ByteCeilBounds, UsizeMaxAssumption DEF Lengths, Usize
<1>7. ByteCeil(s) + n * z <= w /\ n \in Nat
  <2>1. CASE Item(i).kind = "greedy"
    <3>1. n = SatSub(w, ByteCeil(s)) \div z
      BY <2>1 DEF ElementCount, GreedyCount
    <3> HIDE DEF w, z, n, s
    <3>2. SatSub(w, ByteCeil(s)) \in Nat
      BY <1>6 DEF SatSub
    <3>3. n \in Nat /\ n * z <= SatSub(w, ByteCeil(s))
      BY <1>4, <3>1, <3>2, WholeElementsFit
    <3>4. n > 0 /\ n * z >= n
      BY <1>4, <3>3 DEF n, s
    <3>5. SatSub(w, ByteCeil(s)) = w - ByteCeil(s)
      BY <1>4, <1>6, <3>3, <3>4 DEF SatSub
    <3> QED
      BY <1>4, <1>6, <3>3, <3>5
  <2>2. CASE Item(i).kind = "until"
    <3>1. n = UntilCount(i, s) /\ z = 1 /\ n > 0
      BY <1>3, <2>2 DEF ElementCount
    <3>2. Sentinel(i, s) # {}
      BY <3>1 DEF UntilCount
    <3>3. (CHOOSE p \in Sentinel(i, s) : TRUE) \in ByteCeil(s) .. w - 1
      BY <3>2 DEF Sentinel
    <3>4. n = (CHOOSE p \in Sentinel(i, s) : TRUE) - ByteCeil(s)
      BY <3>1, <3>2 DEF UntilCount
    <3> HIDE DEF w, z, n, s
    <3> QED
      BY <1>6, <3>1, <3>3, <3>4
  <2> QED
    BY <2>1, <2>2
<1> HIDE DEF w, z, n, s
<1>8. n * (8 * z + 0) = 8 * (n * z)
  BY <1>4, <1>7
<1>9. 8 * s.byte + 8 * (n * z) <= 8 * w
  BY <1>4, <1>6, <1>7
<1> QED
  BY <1>3, <1>8, <1>9 DEF n, z, w, s

\* Whatever the usize, the counts and the element sizes, bits and saturation
\* included, the elements of a checked array lie in its window, so that next()
\* slices inside data.  (the iterators of counted, greedy and until arrays)
THEOREM ElementsStayInside == Spec => []IteratorsInside
<1>1. Init => CountedSettled
  <2> SUFFICES ASSUME Init PROVE CountedSettled
    OBVIOUS
  <2>1. Visited = {}
    BY DEF Init, Visited
  <2> QED
    BY <2>1 DEF CountedSettled
<1>2. TypeOK /\ CountedSettled /\ [Next]_vars => CountedSettled'
  BY SettledStep
<1>3. TypeOK /\ WalkIsSafe /\ CountedSettled => IteratorsInside
  <2> SUFFICES ASSUME TypeOK, WalkIsSafe, CountedSettled, NEW i \in Fields(Visited),
                      start[i].bit = 0, ElementCount(i, start[i]) > 0
               PROVE  8 * start[i].byte
                        + ElementCount(i, start[i]) * (8 * Item(i).size.byte + Item(i).size.bit)
                          <= 8 * WindowEnd(i, start[i])
    BY DEF IteratorsInside
  <2>1. Item(i).kind \in {"counted", "greedy", "until"}
    BY DEF ElementCount
  <2> QED
    BY <2>1, CountedInside, OthersInside
<1> QED
  BY <1>1, <1>2, <1>3, StructTypeCorrect, WalksAreSafe, PTL DEF Spec

-----------------------------------------------------------------------------
(* Fields follow one another.                                              *)

\* Going past an item extends the walk by that item and leaves the rest.
LEMMA WalkExtends ==
    ASSUME TypeOK,
           Join \/ (/\ AtField /\ VisitField /\ call \in {"parse", "dissect"}
                    /\ UNCHANGED Given /\ call' = call)
    PROVE  /\ Memo /\ N \in Nat /\ pc \in 1 .. N /\ pc' = pc + 1
           /\ Visited = 1 .. pc - 1 /\ Visited' = 1 .. pc
           /\ N' = N /\ Size' = Size /\ UNCHANGED Given /\ \A i : Item(i)' = Item(i)
           /\ call \in {"parse", "dissect"} /\ call' = call
           /\ \A i \in 0 .. N : i # pc => /\ start'[i] = start[i] /\ end'[i] = end[i]
                                          /\ val'[i] = val[i]
           /\ \A i \in 1 .. pc : Present(i)' <=> Present(i)
           /\ Item(pc).kind = "join" => end'[pc] = end[Branch(pc)] /\ val' = val /\ start' = start
           /\ Item(pc).kind # "join" =>
                 /\ start'[pc] = StartOf(pc) /\ end'[pc] = EndOf(pc)
                 /\ val'[pc] = NumberAt(pc, StartOf(pc), EndOf(pc))
<1>1. Memo /\ N \in Nat /\ pc \in 1 .. N /\ call \in {"parse", "dissect"} /\ call' = call
      /\ pc' = pc + 1 /\ UNCHANGED Given
  BY TypeIsMemo, LayoutShape DEF TypeOK, AtField, Join, VisitField, Given
<1>2. /\ N' = N /\ Size' = Size /\ \A i : Item(i)' = Item(i)
      /\ Visited = 1 .. pc - 1 /\ Visited' = 1 .. pc
  BY <1>1 DEF N, Size, Item, Visited, Given
<1>3. /\ \A i \in 0 .. N : i # pc => /\ start'[i] = start[i] /\ end'[i] = end[i]
                                     /\ val'[i] = val[i]
      /\ Item(pc).kind = "join" => end'[pc] = end[Branch(pc)] /\ val' = val /\ start' = start
      /\ Item(pc).kind # "join" =>
            /\ start'[pc] = StartOf(pc) /\ end'[pc] = EndOf(pc)
            /\ val'[pc] = NumberAt(pc, StartOf(pc), EndOf(pc))
  <2>1. CASE Join
    BY <1>1, <2>1 DEF Join, Memo
  <2>2. CASE AtField /\ VisitField
    BY <1>1, <2>2 DEF AtField, VisitField, Memo
  <2> QED
    BY <2>1, <2>2
<1>4. \A i \in 1 .. pc : Present(i)' <=> Present(i)
  <2> TAKE i \in 1 .. pc
  <2>1. i \in 1 .. N /\ \A j \in 1 .. i - 1 : val'[j] = val[j]
    BY <1>1, <1>3
  <2> QED
    BY <1>1, <2>1, PresentKept DEF Memo, Given
<1> QED
  BY <1>1, <1>2, <1>3, <1>4

\* What reads only the walk stays the same while the walk does.
LEMMA WalkFrame ==
    ASSUME UNCHANGED Given, UNCHANGED <<start, end, val, torn, unreadable>>
    PROVE  /\ N' = N /\ Size' = Size /\ \A i : Item(i)' = Item(i)
           /\ \A i : Present(i)' <=> Present(i)
           /\ layout' = layout /\ start' = start /\ end' = end /\ val' = val
BY DEF N, Size, Item, Present, Holds, Given

\* No padding and no length moves an offset back.
LEMMA StartOfForward ==
    ASSUME Memo, NEW i \in 1 .. N
    PROVE  Bits(end[Item(i).prev]) <= Bits(StartOf(i))
<1>1. Item(i) \in ItemType(layout, i) /\ Item(i).prev \in 0 .. N
  BY ItemShape DEF Memo
<1>2. end[Item(i).prev] \in Lengths
  BY <1>1 DEF Memo
<1>3. Item(i).pad \in Usize /\ Item(i).padTo \in Nat
  BY <1>1, UsizeMaxAssumption DEF ItemType, Usize
<1>4. Length(Item(i).pad, 0) \in Lengths
  BY <1>3, UsizeMaxAssumption DEF Length, Lengths, Usize
<1> DEFINE padded == AddLength(end[Item(i).prev], Length(Item(i).pad, 0))
<1>5. padded \in Lengths /\ Bits(end[Item(i).prev]) <= Bits(padded)
  BY <1>2, <1>4, AddLengthGrows, AddLengthForward
<1>6. StartOf(i) = IF Item(i).padTo > 0 THEN PadTo(padded, Item(i).padTo) ELSE padded
  BY DEF StartOf
<1> HIDE DEF padded
<1>7. PadTo(padded, Item(i).padTo) \in Lengths /\ Bits(padded) <= Bits(PadTo(padded, Item(i).padTo))
  BY <1>3, <1>5, PadToGrows, PadToForward
<1>8. /\ Bits(end[Item(i).prev]) \in Int /\ Bits(padded) \in Int
      /\ Bits(PadTo(padded, Item(i).padTo)) \in Int
  BY <1>2, <1>5, <1>7, BitsOfLength, UsizeMaxAssumption DEF Usize
<1> QED
  BY <1>5, <1>6, <1>7, <1>8

LEMMA EndOfForward ==
    ASSUME Memo, NEW i \in 1 .. N, Item(i).kind # "join"
    PROVE  Bits(StartOf(i)) <= Bits(EndOf(i))
BY StartOfType, LengthOfType, AddLengthForward DEF EndOf

LEMMA BitsInt == ASSUME NEW l \in Lengths PROVE Bits(l) \in Int
BY BitsOfLength, UsizeMaxAssumption DEF Usize

\* Every present item ends where or after all the present fields up to it end, and
\* a field starts there too; conditionals hand this on from their branches.
InOrder ==
    \A i \in Visited : Present(i) =>
        /\ \A j \in Fields(1 .. i) : Bits(end[j]) <= Bits(end[i])
        /\ Item(i).kind # "join" =>
              /\ Bits(start[i]) <= Bits(end[i])
              /\ \A j \in Fields(1 .. i - 1) : Bits(end[j]) <= Bits(start[i])

LEMMA OrderExtends ==
    ASSUME TypeOK, InOrder,
           Join \/ (/\ AtField /\ VisitField /\ call \in {"parse", "dissect"}
                    /\ UNCHANGED Given /\ call' = call)
    PROVE  InOrder'
<1>1. /\ Memo /\ N \in Nat /\ pc \in 1 .. N
      /\ Visited = 1 .. pc - 1 /\ Visited' = 1 .. pc
      /\ N' = N /\ \A i : Item(i)' = Item(i)
      /\ \A i \in 0 .. N : i # pc => start'[i] = start[i] /\ end'[i] = end[i]
      /\ \A i \in 1 .. pc : Present(i)' <=> Present(i)
      /\ Item(pc).kind = "join" => end'[pc] = end[Branch(pc)]
      /\ Item(pc).kind # "join" => start'[pc] = StartOf(pc) /\ end'[pc] = EndOf(pc)
  BY WalkExtends
<1>2. ASSUME NEW i \in 1 .. pc, i # pc, Present(i)
      PROVE  /\ \A j \in Fields(1 .. i) : Bits(end'[j]) <= Bits(end'[i])
             /\ Item(i).kind # "join" =>
                   /\ Bits(start'[i]) <= Bits(end'[i])
                   /\ \A j \in Fields(1 .. i - 1) : Bits(end'[j]) <= Bits(start'[i])
  <2>1. i \in Visited /\ i \in 0 .. N /\ Fields(1 .. i) \subseteq 0 .. N
        /\ pc \notin Fields(1 .. i)
        /\ Fields(1 .. i - 1) \subseteq Fields(1 .. i)
    BY <1>1, <1>2 DEF Fields
  <2>2. /\ \A j \in Fields(1 .. i) : end'[j] = end[j]
        /\ end'[i] = end[i] /\ start'[i] = start[i]
    BY <1>1, <1>2, <2>1
  <2> QED
    BY <1>2, <2>1, <2>2 DEF InOrder
<1>3. ASSUME Present(pc)
      PROVE  \A j \in Fields(1 .. pc - 1) : Bits(end[j]) <= Bits(end[Origin(pc)])
  <2>1. /\ Origin(pc) \in 0 .. N /\ Origin(pc) < pc
        /\ Origin(pc) = 0 \/ Present(Origin(pc))
        /\ \A k \in Origin(pc) + 1 .. pc - 1 : ~Present(k)
    BY <1>1, <1>3, OriginShape DEF Memo
  <2> TAKE j \in Fields(1 .. pc - 1)
  <2>2. j \in 1 .. Origin(pc)
    BY <1>1, <2>1 DEF Fields
  <2>3. j \in Fields(1 .. Origin(pc)) /\ Origin(pc) \in Visited /\ Present(Origin(pc))
    BY <1>1, <2>1, <2>2 DEF Fields
  <2> QED
    BY <2>3 DEF InOrder
<1>4. ASSUME Present(pc)
      PROVE  /\ \A j \in Fields(1 .. pc) : Bits(end'[j]) <= Bits(end'[pc])
             /\ Item(pc).kind # "join" =>
                   /\ Bits(start'[pc]) <= Bits(end'[pc])
                   /\ \A j \in Fields(1 .. pc - 1) : Bits(end'[j]) <= Bits(start'[pc])
  <2>1. \A j \in Fields(1 .. pc - 1) : j \in 0 .. N /\ end'[j] = end[j] /\ Bits(end[j]) \in Int
    <3> TAKE j \in Fields(1 .. pc - 1)
    <3>1. j \in 0 .. N /\ j # pc
      BY <1>1 DEF Fields
    <3>2. end[j] \in Lengths
      BY <3>1, <1>1 DEF Memo
    <3> QED
      BY <1>1, <3>1, <3>2, BitsInt
  <2>2. CASE Item(pc).kind = "join"
    <3>1. end'[pc] = end[Origin(pc)]
      BY <1>1, <2>2 DEF Origin
    <3>2. Fields(1 .. pc) = Fields(1 .. pc - 1)
      BY <1>1, <2>2 DEF Fields
    <3> QED
      BY <1>3, <1>4, <2>1, <2>2, <3>1, <3>2
  <2>3. CASE Item(pc).kind # "join"
    <3>1. /\ Bits(end[Origin(pc)]) <= Bits(StartOf(pc)) /\ Bits(StartOf(pc)) <= Bits(EndOf(pc))
          /\ Bits(StartOf(pc)) \in Int /\ Bits(EndOf(pc)) \in Int /\ Bits(end[Origin(pc)]) \in Int
      <4>1. Origin(pc) = Item(pc).prev /\ Origin(pc) \in 0 .. N
        BY <1>1, <2>3, ItemShape DEF Origin, Memo
      <4> QED
        BY <1>1, <2>3, <4>1, StartOfForward, EndOfForward, EndOfGrows, BitsInt DEF Memo
    <3>2. \A j \in Fields(1 .. pc - 1) : /\ Bits(end'[j]) <= Bits(start'[pc])
                                         /\ Bits(end'[j]) <= Bits(end'[pc])
      BY <1>1, <1>3, <1>4, <2>1, <2>3, <3>1
    <3>3. \A j \in Fields(1 .. pc) : j = pc \/ j \in Fields(1 .. pc - 1)
      BY <1>1 DEF Fields
    <3> QED
      BY <1>1, <2>3, <3>1, <3>2, <3>3
  <2> QED
    BY <2>2, <2>3
<1>5. \A i \in 1 .. pc : /\ Fields(1 .. i)' = Fields(1 .. i)
                         /\ Fields(1 .. i - 1)' = Fields(1 .. i - 1)
  <2> TAKE i \in 1 .. pc
  <2>1. 1 .. i \subseteq 1 .. pc /\ 1 .. i - 1 \subseteq 1 .. pc
    BY <1>1
  <2> QED
    BY <1>1, <2>1 DEF Fields
<1>6. ASSUME NEW i \in 1 .. pc, Present(i)'
      PROVE  /\ \A j \in Fields(1 .. i)' : Bits(end'[j]) <= Bits(end'[i])
             /\ Item(i)'.kind # "join" =>
                   /\ Bits(start'[i]) <= Bits(end'[i])
                   /\ \A j \in Fields(1 .. i - 1)' : Bits(end'[j]) <= Bits(start'[i])
  BY <1>1, <1>2, <1>4, <1>5, <1>6
<1> QED
  BY <1>1, <1>6 DEF InOrder

LEMMA OrderStep == TypeOK /\ InOrder /\ [Next]_vars => InOrder'
<1> SUFFICES ASSUME TypeOK, InOrder, [Next]_vars PROVE InOrder'
  OBVIOUS
<1>1. CASE Restart /\ UNCHANGED Given /\ call' = "dissect"
  <2>1. Visited' = {}
    BY <1>1 DEF Restart, Visited
  <2> QED
    BY <2>1 DEF InOrder
<1>2. CASE /\ UNCHANGED Given /\ UNCHANGED <<start, end, val, torn, unreadable>>
           /\ Visited' \subseteq Visited
  <2>1. \A i : Fields(1 .. i)' = Fields(1 .. i)
    BY <1>2, WalkFrame DEF Fields
  <2> QED
    BY <1>2, <2>1, WalkFrame DEF InOrder
<1> QED
  BY <1>1, <1>2, OrderExtends, WalkStep

THEOREM WalksInOrder == Spec => []InOrder
<1>1. Init => InOrder
  BY DEF Init, Visited, InOrder
<1> QED
  BY <1>1, OrderStep, StructTypeCorrect, PTL DEF Spec

\* Whatever conditionals, paddings, lengths and saturation do to the offsets, a
\* present field of a checked struct starts where or after every earlier present
\* field ends, and ends in the input.  (the {field}_offset getters of every struct)
THEOREM FieldsFollowOneAnother == Spec => []FieldsInOrder
<1>1. TypeOK /\ WalkIsSafe /\ InOrder => FieldsInOrder
  <2> SUFFICES ASSUME TypeOK, WalkIsSafe, InOrder, NEW i \in Fields(Visited)
               PROVE  /\ ByteCeil(end[i]) <= Size
                      /\ \A j \in Fields(Visited) : j < i => Bits(end[j]) <= Bits(start[i])
    BY DEF FieldsInOrder
  <2>1. i \in Visited /\ Present(i) /\ Item(i).kind # "join"
    BY DEF Fields
  <2>2. \A j \in Fields(Visited) : j < i => j \in Fields(1 .. i - 1)
    <3>1. Visited \subseteq Nat \ {0}
      BY DEF Visited
    <3> QED
      BY <2>1, <3>1 DEF Fields
  <2> QED
    BY <2>1, <2>2 DEF InOrder, WalkIsSafe
<1> QED
  BY <1>1, StructTypeCorrect, WalksAreSafe, WalksInOrder, PTL

-----------------------------------------------------------------------------
(* Which actions lead into which call.                                     *)

LEMMA IntoTree ==
    ASSUME [Next]_vars, call' = "tree"
    PROVE  UNCHANGED vars \/ TreeJoin \/ TreeAbsent \/ TreePresent \/ ParseFinish
<1>1. CASE UNCHANGED vars
  BY <1>1
<1>p. ~Panic
  BY DEF Panic
<1>2. CASE Parse
  <2>1. CASE ParseReject
    <3>1. HookError(pc, StartOf(pc)) # "ok" /\ ConvError(pc, StartOf(pc)) # "ok"
      BY DEF HookError, ConvError
    <3>2. FieldError(pc) # "ok"
      BY <3>1 DEF FieldError, FatalError, RecoverableError
    <3> QED
      BY <2>1, <3>2 DEF ParseReject, Return, Outcome
  <2>2. CASE ParseAbsent \/ ParseAccept
    BY <2>2 DEF ParseAbsent, ParseAccept
  <2> QED
    BY <1>2, <1>p, <2>1, <2>2 DEF Parse, ParsePanic
<1>3. CASE Join
  BY <1>3 DEF Join
<1>4. CASE View
  BY <1>4, <1>p DEF View, TreePanic, TreeFinish, Handoff
<1>5. CASE Dissect
  BY <1>5, <1>p DEF Dissect, DissectAbsent, DissectPresent, DissectRecover, DissectFatal,
                    DissectPanic, DissectFinish, AtDissect, DissectShow
<1> QED
  BY <1>1, <1>2, <1>3, <1>4, <1>5 DEF Next

LEMMA IntoHandoff ==
    ASSUME [Next]_vars, call' = "handoff"
    PROVE  UNCHANGED vars \/ TreeFinish
<1>p. ~Panic
  BY DEF Panic
<1>2. ~Parse
  BY <1>p DEF Parse, ParseAbsent, ParseAccept, ParseReject, ParsePanic, ParseFinish, Return
<1>3. ~Join
  BY DEF Join
<1>4. CASE View
  BY <1>4, <1>p DEF View, TreePanic, TreeJoin, TreeAbsent, TreePresent, TreeShow, Handoff
<1>5. ~Dissect
  BY <1>p DEF Dissect, DissectAbsent, DissectPresent, DissectRecover, DissectFatal,
              DissectPanic, DissectFinish, AtDissect, DissectShow
<1> QED
  BY <1>2, <1>3, <1>4, <1>5 DEF Next

LEMMA IntoDissect ==
    ASSUME [Next]_vars, call' = "dissect"
    PROVE  \/ UNCHANGED vars \/ ParseReject \/ ParseFinish \/ Handoff \/ (Join /\ call = "dissect")
           \/ DissectAbsent \/ DissectPresent \/ DissectRecover \/ DissectFatal
<1>p. ~Panic
  BY DEF Panic
<1>2. CASE Parse
  BY <1>2, <1>p DEF Parse, ParseAbsent, ParseAccept, ParsePanic
<1>3. CASE Join
  BY <1>3 DEF Join
<1>4. CASE View
  BY <1>4, <1>p DEF View, TreePanic, TreeJoin, TreeAbsent, TreePresent, TreeShow, TreeFinish
<1>5. CASE Dissect
  BY <1>5, <1>p DEF Dissect, DissectPanic, DissectFinish
<1> QED
  BY <1>2, <1>3, <1>4, <1>5 DEF Next

LEMMA IntoDone ==
    ASSUME [Next]_vars, call' = "done"
    PROVE  UNCHANGED vars \/ DissectFinish
<1>p. ~Panic
  BY DEF Panic
<1>2. ~Parse
  BY <1>p DEF Parse, ParseAbsent, ParseAccept, ParseReject, ParsePanic, ParseFinish, Return
<1>3. ~Join
  BY DEF Join
<1>4. ~View
  BY <1>p DEF View, TreePanic, TreeJoin, TreeAbsent, TreePresent, TreeShow, TreeFinish, Handoff
<1>5. CASE Dissect
  BY <1>5, <1>p DEF Dissect, DissectAbsent, DissectPresent, DissectRecover, DissectFatal,
              DissectPanic, AtDissect, DissectShow
<1> QED
  BY <1>2, <1>3, <1>4, <1>5 DEF Next

LEMMA IntoParse ==
    ASSUME [Next]_vars, call' = "parse"
    PROVE  UNCHANGED vars \/ ParseAbsent \/ ParseAccept \/ (Join /\ call = "parse")
<1>p. ~Panic
  BY DEF Panic
<1>2. CASE Parse
  BY <1>2, <1>p DEF Parse, ParseReject, ParsePanic, ParseFinish, Return
<1>3. CASE Join
  BY <1>3 DEF Join
<1>4. ~View
  BY <1>p DEF View, TreePanic, TreeJoin, TreeAbsent, TreePresent, TreeShow, TreeFinish, Handoff
<1>5. ~Dissect
  BY <1>p DEF Dissect, DissectAbsent, DissectPresent, DissectRecover, DissectFatal,
              DissectPanic, DissectFinish, AtDissect, DissectShow
<1> QED
  BY <1>2, <1>3, <1>4, <1>5 DEF Next

-----------------------------------------------------------------------------
(* What parse consumed.                                                    *)

\* A struct without @len has as long a view as its last item's end offset says.
Consumed ==
    call = "tree" /\ ~layout.bounded => end[N].bit = 0 /\ parsed.used = end[N].byte

LEMMA ConsumedStep == Consumed /\ [Next]_vars => Consumed'
<1> SUFFICES ASSUME Consumed, [Next]_vars, call' = "tree", ~layout'.bounded
             PROVE  end'[N'].bit = 0 /\ parsed'.used = end'[N'].byte
  BY DEF Consumed
<1>1. CASE UNCHANGED vars
  BY <1>1 DEF vars, walk, Consumed, N
<1>2. ASSUME NEW shown, call = "tree", TreeShow(shown)
      PROVE  end'[N'].bit = 0 /\ parsed'.used = end'[N'].byte
  BY <1>2 DEF TreeShow, Consumed, N
<1>3. CASE ParseFinish
  <2>1. /\ layout' = layout /\ end' = end /\ N' = N /\ parsed'.status = "ok"
    BY <1>3 DEF ParseFinish, Return, N
  <2>2. /\ StructLength.bit = 0 /\ parsed' = Outcome("ok", N + 1, StructLength.byte)
    BY <1>3, <2>1 DEF ParseFinish, Return, Outcome
  <2> QED
    BY <2>1, <2>2 DEF StructLength, Outcome
<1> QED
  BY <1>1, <1>2, <1>3, IntoTree DEF TreeJoin, TreeAbsent, TreePresent

\* A parsed struct without @len consumed every present field of it: none of its
\* getters reads into the remainder, whatever the bytes and the layout.
THEOREM RemainderIsUntouched == Spec => []RemainderUntouched
<1>1. Init => Consumed
  BY DEF Init, Consumed
<1>2. Spec => []Consumed
  BY <1>1, ConsumedStep, PTL DEF Spec
<1>3. TypeOK /\ WalkIsSafe /\ InOrder /\ Consumed => RemainderUntouched
  <2> SUFFICES ASSUME TypeOK, WalkIsSafe, InOrder, Consumed, call = "tree", ~layout.bounded,
                      NEW i \in Fields(1 .. N)
               PROVE  Bits(end[i]) <= 8 * parsed.used
    BY DEF RemainderUntouched
  <2>1. Memo /\ N \in Nat \ {0} /\ N \in Visited /\ N \in 1 .. N
    BY TypeIsMemo, LayoutShape DEF Visited, TypeOK
  <2>2. Present(N)
    BY <2>1, LayoutsAssumption DEF Memo, Accepted, Present, Item, N
  <2>3. Bits(end[i]) <= Bits(end[N])
    BY <2>1, <2>2 DEF InOrder
  <2>4. end[N] \in Lengths /\ ByteCeil(end[N]) <= Size
    BY <2>1, <2>2 DEF Memo, WalkIsSafe
  <2>5. Size \in Nat /\ 8 * (Size + 1) <= UsizeMax
    BY <2>1, InputShape, InputsAssumption DEF Memo, Size
  <2>6. Bits(end[N]) = 8 * end[N].byte + end[N].bit
    BY <2>4, <2>5, BitsExact
  <2>7. end[N].bit = 0 /\ parsed.used = end[N].byte /\ end[N].byte \in Nat
    BY <2>4, UsizeMaxAssumption DEF Consumed, Lengths, Usize
  <2> QED
    BY <2>3, <2>6, <2>7
<1> QED
  BY <1>2, <1>3, StructTypeCorrect, WalksAreSafe, WalksInOrder, PTL

-----------------------------------------------------------------------------
(* The nodes of the trees.                                                 *)

LEMMA ConcatShape ==
    ASSUME NEW S, NEW a \in Seq(S), NEW b \in Seq(S)
    PROVE  /\ a \o b \in Seq(S) /\ Len(a) \in Nat /\ Len(b) \in Nat
           /\ Len(a \o b) = Len(a) + Len(b)
           /\ DOMAIN (a \o b) = 1 .. Len(a) + Len(b)
           /\ DOMAIN a = 1 .. Len(a) /\ DOMAIN b = 1 .. Len(b)
           /\ \A k \in 1 .. Len(a) : (a \o b)[k] = a[k]
           /\ \A k \in 1 .. Len(b) : (a \o b)[Len(a) + k] = b[k]
<1>1. /\ a \o b \in Seq(S) /\ Len(a \o b) = Len(a) + Len(b)
      /\ \A i \in 1 .. Len(a) + Len(b) : (a \o b)[i] = IF i <= Len(a) THEN a[i] ELSE b[i - Len(a)]
  BY ConcatProperties
<1>2. /\ Len(a) \in Nat /\ Len(b) \in Nat /\ DOMAIN a = 1 .. Len(a) /\ DOMAIN b = 1 .. Len(b)
      /\ DOMAIN (a \o b) = 1 .. Len(a) + Len(b)
  BY <1>1, LenProperties
<1>3. \A k \in 1 .. Len(a) : (a \o b)[k] = a[k]
  BY <1>1, <1>2
<1>4. ASSUME NEW k \in 1 .. Len(b) PROVE (a \o b)[Len(a) + k] = b[k]
  <2>1. Len(a) + k \in 1 .. Len(a) + Len(b) /\ ~(Len(a) + k <= Len(a)) /\ (Len(a) + k) - Len(a) = k
    BY <1>2
  <2> QED
    BY <1>1, <2>1
<1> QED
  BY <1>1, <1>2, <1>3, <1>4

LEMMA OneShape ==
    ASSUME NEW S, NEW e \in S
    PROVE  /\ <<e>> \in Seq(S) /\ Len(<<e>>) = 1 /\ <<e>>[1] = e /\ DOMAIN <<e>> = {1}
OBVIOUS

LEMMA TwoShape ==
    ASSUME NEW a, NEW b
    PROVE  <<a>> \o <<b>> = <<a, b>>
<1> DEFINE S == {a, b}
           x == <<a>> \o <<b>>
           y == <<a, b>>
<1>1. /\ <<a>> \in Seq(S) /\ Len(<<a>>) = 1 /\ <<a>>[1] = a
      /\ <<b>> \in Seq(S) /\ Len(<<b>>) = 1 /\ <<b>>[1] = b
  BY OneShape
<1>2. x \in Seq(S) /\ Len(x) = 2 /\ x[1] = a /\ x[2] = b
  BY <1>1, ConcatProperties
<1>3. y \in Seq(S) /\ Len(y) = 2 /\ y[1] = a /\ y[2] = b
  OBVIOUS
<1> HIDE DEF x, y
<1>4. x = y
  BY <1>2, <1>3, SeqEqual
<1> QED
  BY <1>4 DEF x, y

\* What a walk can answer of a field that is present.
Failures == {"Misaligned", "Unaligned", "HookFailed", "NotEnoughData", "MaxIterations",
             "Validation"}

LEMMA ErrorShape ==
    ASSUME NEW i, NEW s, NEW e
    PROVE  /\ HookError(i, s) \in Failures \cup {"none"}
           /\ ConvError(i, s) \in Failures \cup {"none"}
           /\ FatalError(i, s, e) \in Failures \cup {"none"}
           /\ RecoverableError(i, s, e) \in Failures \cup {"none"}
           /\ FieldError(i) \in Failures \cup {"none"}
<1>1. /\ HookError(i, s) \in Failures \cup {"none"} /\ ConvError(i, s) \in Failures \cup {"none"}
  BY DEF HookError, ConvError, Failures
<1>2. ASSUME NEW t, NEW u
      PROVE  /\ FatalError(i, t, u) \in Failures \cup {"none"}
             /\ RecoverableError(i, t, u) \in Failures \cup {"none"}
  <2>1. HookError(i, t) \in Failures \cup {"none"} /\ ConvError(i, t) \in Failures \cup {"none"}
    BY DEF HookError, ConvError, Failures
  <2> QED
    BY <2>1 DEF FatalError, RecoverableError, Failures
<1>3. FieldError(i) \in Failures \cup {"none"}
  BY <1>2 DEF FieldError
<1> QED
  BY <1>1, <1>2, <1>3

LEMMA NodeShape ==
    ASSUME layout \in Layouts, NEW i \in 1 .. N + 1, NEW from \in Usize, NEW to \in Usize,
           NEW status \in Statuses
    PROVE  /\ Node(i, from, to, status) \in Nodes
           /\ Node(i, from, to, status).at = i /\ Node(i, from, to, status).from = from
           /\ Node(i, from, to, status).to = to /\ Node(i, from, to, status).status = status
BY DEF Node, Nodes

\* The padding in front of a field is one node or none.
LEMMA PadShape ==
    ASSUME Memo, NEW i \in 1 .. N, NEW s \in Lengths
    PROVE  /\ PadNodes(i, s) \in Seq(Nodes)
           /\ \/ PadNodes(i, s) = <<>>
              \/ PadNodes(i, s) = <<Node(i, Bits(end[Item(i).prev]), Bits(s), "pad")>>
           /\ Bits(end[Item(i).prev]) \in Usize
<1>1. Item(i).prev \in 0 .. N /\ i \in 1 .. N + 1
  BY ItemShape, LayoutShape DEF Memo
<1>2. Bits(end[Item(i).prev]) \in Usize /\ Bits(s) \in Usize
  BY <1>1, BitsOfLength DEF Memo
<1>3. Node(i, Bits(end[Item(i).prev]), Bits(s), "pad") \in Nodes
  BY <1>1, <1>2, NodeShape DEF Memo, Statuses
<1>4. <<>> \in Seq(Nodes)
  BY EmptySeq
<1>5. <<Node(i, Bits(end[Item(i).prev]), Bits(s), "pad")>> \in Seq(Nodes)
  BY <1>3, OneShape
<1> QED
  BY <1>2, <1>4, <1>5 DEF PadNodes

\* What an item shows is its padding and then one node of its own.
LEMMA ShowsShape ==
    ASSUME Memo, NEW i \in 1 .. N, NEW s \in Lengths, NEW n \in Nodes
    PROVE  /\ PadNodes(i, s) \o <<n>> \in Seq(Nodes)
           /\ \/ PadNodes(i, s) \o <<n>> = <<n>>
              \/ PadNodes(i, s) \o <<n>> =
                    <<Node(i, Bits(end[Item(i).prev]), Bits(s), "pad"), n>>
<1>1. PadNodes(i, s) \in Seq(Nodes) /\ <<n>> \in Seq(Nodes)
  BY PadShape, OneShape
<1>2. PadNodes(i, s) \o <<n>> \in Seq(Nodes)
  BY <1>1, ConcatShape
<1>3. CASE PadNodes(i, s) = <<>>
  <2>1. <<>> \o <<n>> = <<n>>
    OBVIOUS
  <2> QED
    BY <1>2, <1>3, <2>1
<1>4. CASE PadNodes(i, s) = <<Node(i, Bits(end[Item(i).prev]), Bits(s), "pad")>>
  <2> DEFINE p == Node(i, Bits(end[Item(i).prev]), Bits(s), "pad")
  <2>1. <<p>> \o <<n>> = <<p, n>>
    BY TwoShape
  <2> QED
    BY <1>2, <1>4, <2>1
<1> QED
  BY <1>3, <1>4, PadShape

\* The node of an item itself, in the tree of a parsed view and in a dissection.
ShownStatus(i, s) == IF Item(i).kind = "ref" /\ ~ChildFits(i, s) THEN "Child" ELSE "ok"
ShownNode(i, s, e) ==
    IF Present(i) THEN Node(i, Bits(s), Bits(e), ShownStatus(i, s))
                  ELSE Node(i, Bits(s), Bits(s), "absent")

\* What field_tree shows of an item.
ShownAt(i, s, e) ==
    IF Item(i).kind = "join" THEN <<>> ELSE PadNodes(i, s) \o <<ShownNode(i, s, e)>>

LEMMA ShownShape ==
    ASSUME Memo, NEW i \in 1 .. N, NEW s \in Lengths, NEW e \in Lengths
    PROVE  /\ ShownNode(i, s, e) \in Nodes
           /\ ShownAt(i, s, e) \in Seq(Nodes)
           /\ Item(i).kind # "join" => ShownAt(i, s, e) =
                 IF Present(i) THEN PresentNodes(i, s, e) ELSE AbsentNodes(i, s)
<1>1. Bits(s) \in Usize /\ Bits(e) \in Usize /\ i \in 1 .. N + 1
  BY BitsOfLength, LayoutShape DEF Memo
<1>2. ShownNode(i, s, e) \in Nodes
  BY <1>1, NodeShape DEF ShownNode, ShownStatus, Statuses, Memo
<1>3. ShownAt(i, s, e) \in Seq(Nodes)
  BY <1>2, ShowsShape, EmptySeq DEF ShownAt
<1> QED
  BY <1>2, <1>3 DEF ShownAt, ShownNode, ShownStatus, PresentNodes, AbsentNodes

\* What dissect shows of a field whose fatal check passed, and of one it stops at.
DissectedAt(i, s, e) ==
    IF Present(i) /\ FieldError(i) # "none"
    THEN PadNodes(i, s) \o <<Node(i, Bits(s), Bits(e), FieldError(i))>>
    ELSE ShownAt(i, s, e)
StoppedAt(i, s) == PadNodes(i, s) \o <<Node(i, Bits(s), Bits(s), FieldError(i))>>

LEMMA DissectedShape ==
    ASSUME Memo, NEW i \in 1 .. N, NEW s \in Lengths, NEW e \in Lengths
    PROVE  /\ DissectedAt(i, s, e) \in Seq(Nodes)
           /\ FieldError(i) # "none" => /\ StoppedAt(i, s) \in Seq(Nodes)
                                        /\ Node(i, Bits(s), Bits(s), FieldError(i)) \in Nodes
                                        /\ Node(i, Bits(s), Bits(e), FieldError(i)) \in Nodes
<1>1. Bits(s) \in Usize /\ Bits(e) \in Usize /\ i \in 1 .. N + 1
  BY BitsOfLength, LayoutShape DEF Memo
<1>2. ASSUME FieldError(i) # "none"
      PROVE  /\ Node(i, Bits(s), Bits(s), FieldError(i)) \in Nodes
             /\ Node(i, Bits(s), Bits(e), FieldError(i)) \in Nodes
  <2>1. FieldError(i) \in Statuses
    BY <1>2, ErrorShape DEF Failures, Statuses
  <2> QED
    BY <1>1, <2>1, NodeShape DEF Memo
<1> QED
  BY <1>2, ShownShape, ShowsShape DEF DissectedAt, StoppedAt

\* What the steps of the walks push.
LEMMA TreeShows ==
    ASSUME TypeOK, TreeJoin \/ TreeAbsent \/ TreePresent
    PROVE  /\ Memo /\ call = "tree" /\ pc \in 1 .. N /\ N \in Nat
           /\ pc' = pc + 1 /\ nodes' = nodes \o ShownAt(pc, start[pc], end[pc])
           /\ start[pc] \in Lengths /\ end[pc] \in Lengths
           /\ ShownAt(pc, start[pc], end[pc]) \in Seq(Nodes)
           /\ UNCHANGED Given /\ call' = call
           /\ UNCHANGED <<start, end, val, torn, unreadable, parsed, handoff, trees, fatal>>
<1>1. /\ Memo /\ call = "tree" /\ pc \in 1 .. N /\ N \in Nat
  BY TypeIsMemo, LayoutShape DEF TypeOK, TreeJoin, TreeAbsent, TreePresent, AtField
<1>2. start[pc] \in Lengths /\ end[pc] \in Lengths
  BY <1>1 DEF Memo
<1>3. ShownAt(pc, start[pc], end[pc]) \in Seq(Nodes)
  BY <1>1, <1>2, ShownShape
<1>4. TreeShow(ShownAt(pc, start[pc], end[pc]))
  <2>1. CASE TreeJoin
    BY <2>1 DEF TreeJoin, ShownAt
  <2>2. CASE TreeAbsent
    BY <2>2, <1>1, <1>2, ShownShape DEF TreeAbsent, AtField
  <2>3. CASE TreePresent
    BY <2>3, <1>1, <1>2, ShownShape DEF TreePresent, AtField
  <2> QED
    BY <2>1, <2>2, <2>3
<1> QED
  BY <1>1, <1>2, <1>3, <1>4 DEF TreeShow, Given

LEMMA DissectShows ==
    ASSUME TypeOK, DissectAbsent \/ DissectPresent \/ DissectRecover
    PROVE  /\ Memo /\ call = "dissect" /\ fatal = "none" /\ AtField /\ VisitField
           /\ pc \in 1 .. N /\ N \in Nat /\ Item(pc).kind # "join"
           /\ nodes' = nodes \o DissectedAt(pc, StartOf(pc), EndOf(pc))
           /\ StartOf(pc) \in Lengths /\ EndOf(pc) \in Lengths
           /\ DissectedAt(pc, StartOf(pc), EndOf(pc)) \in Seq(Nodes)
           /\ Present(pc) => FatalError(pc, StartOf(pc), EndOf(pc)) = "none"
           /\ UNCHANGED Given /\ call' = call
           /\ UNCHANGED <<parsed, handoff, trees, fatal>>
<1>1. /\ Memo /\ call = "dissect" /\ fatal = "none" /\ AtField
      /\ pc \in 1 .. N /\ N \in Nat /\ Item(pc).kind # "join"
  BY TypeIsMemo, LayoutShape
     DEF TypeOK, DissectAbsent, DissectPresent, DissectRecover, AtDissect, AtField
<1>2. StartOf(pc) \in Lengths /\ EndOf(pc) \in Lengths
  BY <1>1, EndOfGrows
<1>3. DissectedAt(pc, StartOf(pc), EndOf(pc)) \in Seq(Nodes)
  BY <1>1, <1>2, DissectedShape
<1>4. /\ DissectShow(DissectedAt(pc, StartOf(pc), EndOf(pc)))
      /\ Present(pc) => FatalError(pc, StartOf(pc), EndOf(pc)) = "none"
  <2>1. CASE DissectAbsent
    BY <2>1, <1>1, <1>2, ShownShape DEF DissectAbsent, DissectedAt
  <2>2. CASE DissectPresent
    BY <2>2, <1>1, <1>2, ShownShape DEF DissectPresent, DissectedAt, FieldError
  <2>3. CASE DissectRecover
    BY <2>3, <1>1, <1>2, ShownShape DEF DissectRecover, DissectedAt
  <2> QED
    BY <2>1, <2>2, <2>3
<1> QED
  BY <1>1, <1>2, <1>3, <1>4 DEF DissectShow, Given

LEMMA DissectStops ==
    ASSUME TypeOK, DissectFatal
    PROVE  /\ Memo /\ call = "dissect" /\ fatal = "none" /\ AtField
           /\ pc \in 1 .. N /\ N \in Nat /\ Item(pc).kind # "join"
           /\ Present(pc) /\ FatalError(pc, StartOf(pc), EndOf(pc)) # "none"
           /\ FieldError(pc) \in Failures /\ fatal' = FieldError(pc)
           /\ StartOf(pc) \in Lengths
           /\ StoppedAt(pc, StartOf(pc)) \in Seq(Nodes)
           /\ nodes \in Seq(Nodes) => nodes' = nodes \o StoppedAt(pc, StartOf(pc))
           /\ UNCHANGED Given /\ UNCHANGED walk /\ call' = call
           /\ UNCHANGED <<parsed, handoff, trees>>
<1>1. /\ Memo /\ call = "dissect" /\ fatal = "none" /\ AtField
      /\ pc \in 1 .. N /\ N \in Nat /\ Item(pc).kind # "join"
      /\ Present(pc) /\ FatalError(pc, StartOf(pc), EndOf(pc)) # "none"
  BY TypeIsMemo, LayoutShape DEF TypeOK, DissectFatal, AtDissect, AtField
<1>2. StartOf(pc) \in Lengths /\ EndOf(pc) \in Lengths
  BY <1>1, EndOfGrows
<1>3. FieldError(pc) \in Failures /\ FieldError(pc) # "none"
  <2>1. FieldError(pc) # "none"
    BY <1>1 DEF FieldError
  <2> QED
    BY <2>1, ErrorShape
<1>4. StoppedAt(pc, StartOf(pc)) \in Seq(Nodes)
  BY <1>1, <1>2, <1>3, DissectedShape
<1>5. ASSUME nodes \in Seq(Nodes) PROVE nodes' = nodes \o StoppedAt(pc, StartOf(pc))
  <2> DEFINE n == Node(pc, Bits(StartOf(pc)), Bits(StartOf(pc)), FieldError(pc))
  <2>1. nodes' = (nodes \o PadNodes(pc, StartOf(pc))) \o <<n>>
    BY DEF DissectFatal
  <2>2. n \in Nodes /\ <<n>> \in Seq(Nodes) /\ PadNodes(pc, StartOf(pc)) \in Seq(Nodes)
    BY <1>1, <1>2, <1>3, DissectedShape, PadShape, OneShape
  <2> QED
    BY <1>5, <2>1, <2>2, ConcatAssociative DEF StoppedAt
<1> QED
  BY <1>1, <1>2, <1>3, <1>4, <1>5 DEF DissectFatal, Given

LEMMA StructLengthType ==
    ASSUME TypeOK
    PROVE  StructLength \in Lengths /\ StructLength.byte \in Usize
<1>1. N \in Nat \ {0} /\ layout.len \in Exprs(layout, N + 1) /\ N + 1 \in 1 .. N + 1 /\ N \in 0 .. N
  BY LayoutShape DEF TypeOK
<1>2. Eval(layout.len) \in Usize
  BY <1>1, EvalType DEF TypeOK
<1>3. StructLength \in Lengths
  BY <1>1, <1>2, UsizeMaxAssumption DEF StructLength, Length, Lengths, Usize, TypeOK
<1> QED
  BY <1>3 DEF Lengths

LEMMA LastToType ==
    ASSUME NEW children \in Seq(Nodes)
    PROVE  LastTo(children) \in Usize
<1>1. 0 \in Usize
  BY UsizeMaxAssumption DEF Usize
<1>2. CASE children # <<>>
  <2>1. Len(children) \in Nat \ {0}
    BY <1>2, EmptySeq
  <2>2. children[Len(children)] \in Nodes
    BY <2>1, ElementOfSeq
  <2> QED
    BY <1>2, <2>2 DEF LastTo, Nodes
<1> QED
  BY <1>1, <1>2 DEF LastTo

LEMMA TrailingShape ==
    ASSUME TypeOK, nodes \in Seq(Nodes), NEW bound \in Usize
    PROVE  /\ TrailingNodes(bound) \in Seq(Nodes)
           /\ nodes \o TrailingNodes(bound) \in Seq(Nodes)
           /\ \A k \in 1 .. Len(TrailingNodes(bound)) :
                 TrailingNodes(bound)[k].status = "trailing"
<1> DEFINE consumed == Least((LastTo(nodes) + 7) \div 8, bound)
           n == Node(N + 1, SatMul(consumed, 8), SatMul(bound, 8), "trailing")
<1>1. N + 1 \in 1 .. N + 1 /\ layout \in Layouts
  BY LayoutShape DEF TypeOK
<1>2. LastTo(nodes) \in Nat /\ bound \in Nat
  BY LastToType, UsizeMaxAssumption DEF Usize
<1>3. consumed \in Nat
  BY <1>2 DEF Least
<1> HIDE DEF consumed
<1>4. SatMul(consumed, 8) \in Usize /\ SatMul(bound, 8) \in Usize
  BY <1>2, <1>3, SaturatingOps
<1>5. n \in Nodes /\ n.status = "trailing"
  BY <1>1, <1>4, NodeShape DEF Statuses
<1>6. TrailingNodes(bound) = <<>> \/ TrailingNodes(bound) = <<n>>
  BY DEF TrailingNodes, consumed
<1> HIDE DEF n
<1>7. <<>> \in Seq(Nodes) /\ Len(<<>>) = 0
  BY EmptySeq
<1>8. <<n>> \in Seq(Nodes) /\ Len(<<n>>) = 1 /\ <<n>>[1] = n
  BY <1>5, OneShape
<1>9. /\ TrailingNodes(bound) \in Seq(Nodes)
      /\ \A k \in 1 .. Len(TrailingNodes(bound)) :
                 TrailingNodes(bound)[k].status = "trailing"
  <2>1. CASE TrailingNodes(bound) = <<>>
    BY <1>7, <2>1
  <2>2. CASE TrailingNodes(bound) = <<n>>
    <3>1. \A k \in 1 .. Len(<<n>>) : k = 1
      BY <1>8
    <3> QED
      BY <1>5, <1>8, <2>2, <3>1
  <2> QED
    BY <1>6, <2>1, <2>2
<1> QED
  BY <1>9, ConcatShape

\* The results are typed: lists of nodes of this layout, with bit ranges that are
\* usizes, and the errors the walks know.
Trees == [done : BOOLEAN, to : Usize, nodes : Seq(Nodes), status : Statuses \cup {"none"}]
ResultsType ==
    /\ nodes \in Seq(Nodes)
    /\ trees \in [tree : Trees, dissect : Trees]
    /\ fatal \in Failures \cup {"none"}
    /\ call \in {"parse", "tree", "handoff"} => fatal = "none" /\ handoff = NoHandoff
    /\ call = "parse" => nodes = <<>>

LEMMA ResultsKept ==
    ASSUME ResultsType, UNCHANGED Given, nodes' \in Seq(Nodes), UNCHANGED <<trees, fatal>>,
           call' \in {"parse", "tree", "handoff"} => fatal = "none" /\ handoff' = NoHandoff,
           call' = "parse" => nodes' = <<>>
    PROVE  ResultsType'
<1>1. N' = N /\ Nodes' = Nodes /\ Trees' = Trees
  BY DEF Given, N, Nodes, Trees
<1> QED
  BY <1>1 DEF ResultsType

LEMMA ResultsStep == TypeOK /\ ResultsType /\ [Next]_vars => ResultsType'
<1> SUFFICES ASSUME TypeOK, ResultsType, [Next]_vars PROVE ResultsType'
  OBVIOUS
<1>0. nodes \in Seq(Nodes) /\ <<>> \in Seq(Nodes)
  BY EmptySeq DEF ResultsType
<1>1. CASE UNCHANGED vars
  BY <1>1, <1>0, ResultsKept DEF vars, Given, ResultsType
<1>p. CASE Panic
  BY <1>p, <1>0, ResultsKept DEF Panic, Given
<1>2. CASE Parse
  <2>1. ASSUME NEW o, Return(o), call = "parse" PROVE ResultsType'
    BY <1>0, <2>1, ResultsKept DEF Return, Given, ResultsType
  <2>2. CASE ParseAbsent \/ ParseAccept
    BY <1>0, <2>2, ResultsKept DEF ParseAbsent, ParseAccept, Given, ResultsType
  <2>3. CASE ParseReject
    BY <2>1, <2>3 DEF ParseReject
  <2>4. CASE ParseFinish
    BY <2>1, <2>4 DEF ParseFinish
  <2> QED
    BY <1>2, <1>p, <2>2, <2>3, <2>4 DEF Parse, ParsePanic
<1>3. CASE Join
  BY <1>0, <1>3, ResultsKept DEF Join, Given, ResultsType
<1>4. CASE View
  <2>1. CASE TreeJoin \/ TreeAbsent \/ TreePresent
    <3>1. /\ nodes' = nodes \o ShownAt(pc, start[pc], end[pc])
          /\ ShownAt(pc, start[pc], end[pc]) \in Seq(Nodes)
          /\ call = "tree" /\ call' = call /\ UNCHANGED Given
          /\ UNCHANGED <<handoff, trees, fatal>>
      BY <2>1, TreeShows
    <3>2. nodes' \in Seq(Nodes)
      BY <1>0, <3>1, ConcatShape
    <3> QED
      BY <3>1, <3>2, ResultsKept DEF ResultsType
  <2>2. CASE TreeFinish
    <3> DEFINE bound == Least(StructLength.byte, Size)
               tree  == Tree(Bits(StructLength), nodes \o TrailingNodes(bound), "ok")
    <3>1. StructLength \in Lengths /\ StructLength.byte \in Nat /\ Size \in Usize /\ Size \in Nat
      BY StructLengthType, InputShape, UsizeMaxAssumption DEF TypeOK, Usize
    <3>2. bound \in Usize
      BY <3>1, StructLengthType DEF Least
    <3> HIDE DEF bound
    <3>3. nodes \o TrailingNodes(bound) \in Seq(Nodes)
      BY <1>0, <3>2, TrailingShape
    <3>4. tree \in Trees
      BY <3>1, <3>3, BitsOfLength DEF Tree, Trees, Statuses
    <3>5. trees' = [trees EXCEPT !.tree = tree] /\ call = "tree" /\ call' = "handoff"
          /\ UNCHANGED <<nodes, fatal, handoff>> /\ UNCHANGED Given
      BY <2>2 DEF TreeFinish, bound, Given
    <3> HIDE DEF tree
    <3>6. trees' \in [tree : Trees, dissect : Trees]
      BY <3>4, <3>5 DEF ResultsType
    <3>7. N' = N /\ Nodes' = Nodes /\ Trees' = Trees
      BY <3>5 DEF Given, N, Nodes, Trees
    <3> QED
      BY <3>5, <3>6, <3>7 DEF ResultsType
  <2>3. CASE Handoff
    BY <1>0, <2>3, ResultsKept DEF Handoff, Given, ResultsType
  <2> QED
    BY <1>4, <1>p, <2>1, <2>2, <2>3 DEF View, TreePanic
<1>5. CASE Dissect
  <2>1. CASE DissectAbsent \/ DissectPresent \/ DissectRecover
    <3>1. /\ nodes' = nodes \o DissectedAt(pc, StartOf(pc), EndOf(pc))
          /\ DissectedAt(pc, StartOf(pc), EndOf(pc)) \in Seq(Nodes)
          /\ call = "dissect" /\ call' = call /\ UNCHANGED Given
          /\ UNCHANGED <<handoff, trees, fatal>>
      BY <2>1, DissectShows
    <3>2. nodes' \in Seq(Nodes)
      BY <1>0, <3>1, ConcatShape
    <3> QED
      BY <3>1, <3>2, ResultsKept DEF ResultsType
  <2>2. CASE DissectFatal
    <3>1. /\ nodes' = nodes \o StoppedAt(pc, StartOf(pc))
          /\ StoppedAt(pc, StartOf(pc)) \in Seq(Nodes)
          /\ fatal' \in Failures
          /\ call = "dissect" /\ call' = call /\ UNCHANGED Given
          /\ UNCHANGED <<handoff, trees>>
      BY <1>0, <2>2, DissectStops
    <3>2. nodes' \in Seq(Nodes)
      BY <1>0, <3>1, ConcatShape
    <3>3. N' = N /\ Nodes' = Nodes /\ Trees' = Trees
      BY <3>1 DEF Given, N, Nodes, Trees
    <3> QED
      BY <3>1, <3>2, <3>3 DEF ResultsType
  <2>3. CASE DissectFinish
    <3> DEFINE short  == fatal = "none" /\ layout.bounded /\ Size < StructLength.byte
               status == IF short THEN "NotEnoughData" ELSE fatal
               tree == Tree(IF layout.bounded /\ status = "none" THEN Bits(StructLength) ELSE LastTo(nodes),
                            IF status = "none" THEN nodes \o TrailingNodes(StructLength.byte) ELSE nodes,
                            IF status = "none" THEN "ok" ELSE status)
    <3>1. trees' = [trees EXCEPT !.dissect = tree] /\ call' = "done" /\ UNCHANGED <<nodes, fatal>>
          /\ UNCHANGED Given
      BY <2>3 DEF DissectFinish, Given
    <3>2. status \in Failures \cup {"none"}
      BY DEF ResultsType, Failures
    <3>3. /\ Bits(StructLength) \in Usize /\ LastTo(nodes) \in Usize
          /\ nodes \o TrailingNodes(StructLength.byte) \in Seq(Nodes)
      BY <1>0, StructLengthType, BitsOfLength, LastToType, TrailingShape
    <3> HIDE DEF status
    <3>4. tree \in Trees
      BY <1>0, <3>2, <3>3 DEF Tree, Trees, Statuses, Failures
    <3> HIDE DEF tree
    <3>5. trees' \in [tree : Trees, dissect : Trees]
      BY <3>1, <3>4 DEF ResultsType
    <3>6. N' = N /\ Nodes' = Nodes /\ Trees' = Trees
      BY <3>1 DEF Given, N, Nodes, Trees
    <3> QED
      BY <3>1, <3>5, <3>6 DEF ResultsType
  <2> QED
    BY <1>5, <1>p, <2>1, <2>2, <2>3 DEF Dissect, DissectPanic
<1> QED
  BY <1>1, <1>2, <1>3, <1>4, <1>5 DEF Next

\* The trees and their nodes are what the runtime's types can hold, for every
\* input: bit ranges within usize and a status of Status.
THEOREM ResultsTypeCorrect == Spec => []ResultsType
<1>1. Init => ResultsType
  <2> SUFFICES ASSUME Init PROVE ResultsType
    OBVIOUS
  <2>1. <<>> \in Seq(Nodes) /\ 0 \in Usize
    BY EmptySeq, UsizeMaxAssumption DEF Usize
  <2>2. NoTree \in Trees
    BY <2>1 DEF NoTree, Trees
  <2> QED
    BY <2>1, <2>2 DEF Init, ResultsType
<1> QED
  BY <1>1, ResultsStep, StructTypeCorrect, PTL DEF Spec

-----------------------------------------------------------------------------
(* The payload.                                                            *)

\* Every one of the fields has its node, over the bits it lies in.
NodesFor(children, fields, from, to) ==
    \A i \in fields :
        \E k \in 1 .. Len(children) :
            /\ children[k].at = i /\ children[k].status # "pad"
            /\ children[k].from = Bits(from[i]) /\ children[k].to = Bits(to[i])

Displayed(children, n) == NodesFor(children, Fields(1 .. n), start, end)

PayloadShown ==
    /\ call = "tree" => Displayed(nodes, pc - 1)
    /\ call = "handoff" => Displayed(trees.tree.nodes, N)

LEMMA DisplayedGrows ==
    ASSUME NEW children \in Seq(Nodes), NEW more \in Seq(Nodes), NEW n, Displayed(children, n)
    PROVE  Displayed(children \o more, n)
<1> SUFFICES ASSUME NEW i \in Fields(1 .. n)
             PROVE  \E k \in 1 .. Len(children \o more) :
                       LET c == children \o more
                       IN  /\ c[k].at = i /\ c[k].status # "pad"
                           /\ c[k].from = Bits(start[i]) /\ c[k].to = Bits(end[i])
  BY DEF Displayed, NodesFor
<1>1. PICK k \in 1 .. Len(children) :
            /\ children[k].at = i /\ children[k].status # "pad"
            /\ children[k].from = Bits(start[i]) /\ children[k].to = Bits(end[i])
  BY DEF Displayed, NodesFor
<1>2. /\ k \in 1 .. Len(children \o more)
      /\ (children \o more)[k] = children[k]
  BY ConcatShape
<1> QED
  BY <1>1, <1>2

LEMMA DisplayedNext ==
    ASSUME Memo, NEW i \in 1 .. N, NEW children \in Seq(Nodes), Displayed(children, i - 1)
    PROVE  Displayed(children \o ShownAt(i, start[i], end[i]), i)
<1> DEFINE more == ShownAt(i, start[i], end[i])
           n == ShownNode(i, start[i], end[i])
           c == children \o more
<1>0. N \in Nat
  BY LayoutShape DEF Memo
<1>1. N \in Nat /\ start[i] \in Lengths /\ end[i] \in Lengths
  BY <1>0 DEF Memo
<1>2. n \in Nodes /\ more \in Seq(Nodes)
  BY <1>1, ShownShape
<1>3. Displayed(c, i - 1)
  BY <1>2, DisplayedGrows
<1>4. ASSUME Present(i), Item(i).kind # "join"
      PROVE  \E k \in 1 .. Len(c) :
                /\ c[k].at = i /\ c[k].status # "pad"
                /\ c[k].from = Bits(start[i]) /\ c[k].to = Bits(end[i])
  <2>1. /\ n.at = i /\ n.status # "pad"
        /\ n.from = Bits(start[i]) /\ n.to = Bits(end[i])
    BY <1>4 DEF ShownNode, ShownStatus, Node
  <2>2. more = PadNodes(i, start[i]) \o <<n>>
    BY <1>4 DEF ShownAt
  <2>3. PadNodes(i, start[i]) \in Seq(Nodes) /\ <<n>> \in Seq(Nodes)
        /\ Len(<<n>>) = 1 /\ <<n>>[1] = n
    BY <1>1, <1>2, PadShape, OneShape
  <2> HIDE DEF n, more
  <2> DEFINE p == Len(PadNodes(i, start[i]))
  <2>4. p \in Nat /\ Len(more) = p + 1 /\ more[p + 1] = n
    BY <2>2, <2>3, ConcatShape
  <2>5. Len(children) \in Nat /\ Len(c) = Len(children) + (p + 1)
        /\ c[Len(children) + (p + 1)] = n
    <3>1. p + 1 \in 1 .. Len(more)
      BY <2>4
    <3>2. /\ Len(children) \in Nat /\ Len(children \o more) = Len(children) + Len(more)
          /\ \A j \in 1 .. Len(more) : (children \o more)[Len(children) + j] = more[j]
      BY <1>2, ConcatShape
    <3> HIDE DEF p
    <3> QED
      BY <2>4, <3>1, <3>2
  <2>6. Len(children) + (p + 1) \in 1 .. Len(c)
    BY <2>4, <2>5
  <2> QED
    BY <2>1, <2>5, <2>6
<1> HIDE DEF c
<1>5. \A j \in Fields(1 .. i) : j \in Fields(1 .. i - 1) \/ j = i
  BY <1>1 DEF Fields
<1>6. i \in Fields(1 .. i) => Present(i) /\ Item(i).kind # "join"
  BY DEF Fields
<1>7. Displayed(c, i)
  BY <1>3, <1>4, <1>5, <1>6 DEF Displayed, NodesFor
<1> QED
  BY <1>7 DEF c

\* The fields of a walk that stays are the same.
LEMMA FieldsKept ==
    ASSUME UNCHANGED Given, UNCHANGED <<start, end, val, torn, unreadable>>
    PROVE  /\ Fields(1 .. pc - 1)' = Fields(1 .. pc' - 1)
           /\ Fields(1 .. N)' = Fields(1 .. N)
           /\ start' = start /\ end' = end
BY WalkFrame DEF Fields

LEMMA PayloadStep == TypeOK /\ ResultsType /\ PayloadShown /\ [Next]_vars => PayloadShown'
<1> SUFFICES ASSUME TypeOK, ResultsType, PayloadShown, [Next]_vars PROVE PayloadShown'
  OBVIOUS
<1>1. ASSUME call' = "tree" PROVE Displayed(nodes, pc - 1)'
  <2>1. CASE UNCHANGED vars
    <3>1. Displayed(nodes, pc - 1) /\ nodes' = nodes /\ pc' = pc
      BY <1>1, <2>1 DEF vars, walk, PayloadShown
    <3>2. UNCHANGED Given /\ UNCHANGED <<start, end, val, torn, unreadable>>
      BY <2>1 DEF vars, walk, Given
    <3> QED
      BY <3>1, <3>2, FieldsKept DEF Displayed
  <2>2. CASE TreeJoin \/ TreeAbsent \/ TreePresent
    <3>1. /\ Memo /\ call = "tree" /\ pc \in 1 .. N /\ N \in Nat /\ pc' = pc + 1
          /\ nodes' = nodes \o ShownAt(pc, start[pc], end[pc])
          /\ UNCHANGED Given /\ UNCHANGED <<start, end, val, torn, unreadable>>
      BY <2>2, TreeShows
    <3>2. Displayed(nodes \o ShownAt(pc, start[pc], end[pc]), pc)
      BY <3>1, DisplayedNext DEF PayloadShown, ResultsType
    <3>3. pc' - 1 = pc
      BY <3>1
    <3> QED
      BY <3>1, <3>2, <3>3, FieldsKept DEF Displayed
  <2>3. CASE ParseFinish
    <3>1. pc' = 1
      BY <2>3 DEF ParseFinish, Return, Restart
    <3>2. Fields(1 .. pc - 1)' = {}
      BY <3>1 DEF Fields
    <3> QED
      BY <3>2 DEF Displayed, NodesFor
  <2> QED
    BY <1>1, <2>1, <2>2, <2>3, IntoTree
<1>2. ASSUME call' = "handoff" PROVE Displayed(trees.tree.nodes, N)'
  <2>1. CASE UNCHANGED vars
    <3>1. Displayed(trees.tree.nodes, N) /\ trees'.tree.nodes = trees.tree.nodes
      BY <1>2, <2>1 DEF vars, PayloadShown
    <3>2. UNCHANGED Given /\ UNCHANGED <<start, end, val, torn, unreadable>>
      BY <2>1 DEF vars, walk, Given
    <3> QED
      BY <3>1, <3>2, FieldsKept DEF Displayed
  <2>2. CASE TreeFinish
    <3> DEFINE bound == Least(StructLength.byte, Size)
    <3>1. /\ call = "tree" /\ pc = N + 1 /\ N \in Nat /\ N' = N
          /\ UNCHANGED Given /\ UNCHANGED <<start, end, val, torn, unreadable>>
      BY <2>2, LayoutShape DEF TreeFinish, TypeOK, N, Given, walk
    <3>2. Displayed(nodes, N) /\ nodes \in Seq(Nodes)
      BY <3>1 DEF PayloadShown, ResultsType
    <3>3. bound \in Usize
      <4>1. StructLength.byte \in Usize /\ Size \in Usize
        BY StructLengthType, InputShape DEF TypeOK
      <4> QED
        BY <4>1 DEF Least
    <3> HIDE DEF bound
    <3>4. TrailingNodes(bound) \in Seq(Nodes)
      BY <3>2, <3>3, TrailingShape
    <3>5. Displayed(nodes \o TrailingNodes(bound), N)
      BY <3>2, <3>4, DisplayedGrows
    <3>6. trees'.tree.nodes = nodes \o TrailingNodes(bound)
      BY <2>2 DEF TreeFinish, bound, ResultsType, Tree
    <3> QED
      BY <3>1, <3>5, <3>6, FieldsKept DEF Displayed
  <2> QED
    BY <1>2, <2>1, <2>2, IntoHandoff
<1> QED
  BY <1>1, <1>2 DEF PayloadShown

\* At the hand-over the payload's node has its bytes: it is present and whole, so
\* neither the clamping to the input nor the saturation of the bits shows.
LEMMA PayloadHanded ==
    ASSUME TypeOK, WalkIsSafe, PayloadShown, ResultsType, Handoff, handoff'.some
    PROVE  \E k \in 1 .. Len(trees.tree.nodes) :
              LET n == trees.tree.nodes[k]
              IN  /\ n.at = layout.payload /\ n.status # "pad"
                  /\ n.from = 8 * handoff'.from /\ n.to = 8 * handoff'.to
<1> DEFINE p == layout.payload
           s == start[p]
           e == end[p]
<1>1. Memo /\ N \in Nat /\ call = "handoff" /\ Visited = 1 .. N
  BY TypeIsMemo, LayoutShape DEF TypeOK, Handoff, Visited
<1>2. /\ handoff' = [some |-> TRUE, from |-> Least(s.byte, Size),
                     to |-> IF e.byte < Least(s.byte, Size) THEN Least(s.byte, Size)
                            ELSE Least(e.byte, Size)]
      /\ p # 0 /\ s.bit = 0 /\ e.bit = 0
  BY DEF Handoff, NoHandoff, IsByteAligned
<1>3. p \in 1 .. N /\ Item(p).gate = {} /\ Item(p).kind # "join"
  BY <1>1, <1>2, LayoutsAssumption DEF Memo, Accepted, Item, N
<1>4. p \in Fields(1 .. N) /\ Present(p)
  BY <1>3 DEF Fields, Present
<1>5. s \in Lengths /\ e \in Lengths /\ ByteCeil(s) <= ByteCeil(e) /\ ByteCeil(e) <= Size
  BY <1>1, <1>3, <1>4 DEF Memo, WalkIsSafe
<1>6. Size \in Nat /\ 8 * (Size + 1) <= UsizeMax /\ ByteCeil(s) \in Nat /\ ByteCeil(e) \in Nat
  BY <1>1, <1>5, InputShape, InputsAssumption, ByteCeilBounds, UsizeMaxAssumption
     DEF Memo, Size, Usize
<1>7. PICK k \in 1 .. Len(trees.tree.nodes) :
            /\ trees.tree.nodes[k].at = p /\ trees.tree.nodes[k].status # "pad"
            /\ trees.tree.nodes[k].from = Bits(s) /\ trees.tree.nodes[k].to = Bits(e)
  BY <1>1, <1>4 DEF PayloadShown, Displayed, NodesFor
<1> HIDE DEF s, e
<1>8. /\ Bits(s) = 8 * s.byte + s.bit /\ Bits(e) = 8 * e.byte + e.bit
      /\ s.byte <= Size /\ e.byte <= Size
  BY <1>5, <1>6, BitsExact
<1>9. s.byte \in Nat /\ e.byte \in Nat
  BY <1>5, UsizeMaxAssumption DEF Lengths, Usize
<1>10. s.byte <= e.byte
  <2>1. ByteCeil(s) = s.byte /\ ByteCeil(e) = e.byte
    BY <1>2, <1>6, <1>8, <1>9, UsizeMaxAssumption DEF ByteCeil, SatAdd, Saturate
  <2> QED
    BY <1>5, <2>1
<1>11. handoff'.from = s.byte /\ handoff'.to = e.byte
  BY <1>2, <1>6, <1>8, <1>9, <1>10 DEF Least
<1>12. Bits(s) = 8 * handoff'.from /\ Bits(e) = 8 * handoff'.to
  BY <1>2, <1>8, <1>9, <1>11
<1> QED
  BY <1>7, <1>12

\* The slice view.handoff() passes on is the payload field, from its first bit to
\* its last, whatever the layout, the bytes and the hooks' answers.
THEOREM HandoffHandsThePayload == Spec => []HandoffIsPayload
<1>1. Init => PayloadShown /\ HandoffIsPayload
  BY DEF Init, PayloadShown, HandoffIsPayload
<1>2. Spec => []PayloadShown
  BY <1>1, PayloadStep, StructTypeCorrect, ResultsTypeCorrect, PTL DEF Spec
<1>3. TypeOK /\ WalkIsSafe /\ ResultsType /\ PayloadShown /\ HandoffIsPayload /\ [Next]_vars
        => HandoffIsPayload'
  <2> SUFFICES ASSUME TypeOK, WalkIsSafe, ResultsType, PayloadShown, HandoffIsPayload, [Next]_vars,
                      call' = "dissect", handoff'.some
               PROVE  \E k \in 1 .. Len(trees'.tree.nodes) :
                         LET n == trees'.tree.nodes[k]
                         IN  /\ n.at = layout'.payload /\ n.status # "pad"
                             /\ n.from = 8 * handoff'.from /\ n.to = 8 * handoff'.to
    BY DEF HandoffIsPayload
  <2>1. CASE Handoff
    BY <2>1, PayloadHanded DEF Handoff
  <2>2. CASE ParseReject \/ ParseFinish
    <3>1. handoff = NoHandoff /\ handoff' = handoff
      BY <2>2 DEF ParseReject, ParseFinish, Return, ResultsType
    <3> QED
      BY <3>1 DEF NoHandoff
  <2>3. CASE call = "dissect" /\ UNCHANGED <<layout, trees, handoff>>
    BY <2>3 DEF HandoffIsPayload
  <2>4. \/ Handoff \/ ParseReject \/ ParseFinish
        \/ call = "dissect" /\ UNCHANGED <<layout, trees, handoff>>
    <3>1. CASE UNCHANGED vars
      BY <3>1 DEF vars
    <3>2. CASE Join /\ call = "dissect"
      BY <3>2 DEF Join
    <3>3. CASE DissectAbsent \/ DissectPresent \/ DissectRecover
      BY <3>3, DissectShows DEF Given
    <3>4. CASE DissectFatal
      BY <3>4, DissectStops DEF Given
    <3> QED
      BY <3>1, <3>2, <3>3, <3>4, IntoDissect
  <2> QED
    BY <2>1, <2>2, <2>3, <2>4
<1> QED
  BY <1>1, <1>2, <1>3, StructTypeCorrect, ResultsTypeCorrect, WalksAreSafe, PTL DEF Spec

-----------------------------------------------------------------------------
(* Another walk over the same struct.                                      *)

\* The offsets and values a walk w of layout l over data d computes: the definitions
\* of StructView read w in place of the walk of the current call.
Walk(l, d, a, w) == INSTANCE StructView WITH
    layout <- l, data <- d, answer <- a, start <- w.start, end <- w.end, val <- w.val,
    call <- "parse", pc <- 1, torn <- {}, unreadable <- {}, parsed <- 0, handoff <- 0,
    nodes <- w.nodes, trees <- 0, fatal <- "none"

\* w has the current walk's offsets and values of the first n items.
Agrees(w, n) ==
    /\ w.end[0] = end[0]
    /\ \A j \in 1 .. n :
          /\ w.end[j] = end[j]
          /\ Item(j).kind # "join" => w.start[j] = start[j] /\ w.val[j] = val[j]

\* The arithmetic of lengths reads no walk.
LEMMA SameLengths ==
    /\ \A w, x, y : Walk(layout, data, answer, w)!Length(x, y) = Length(x, y)
    /\ \A w, x, y : Walk(layout, data, answer, w)!SatAdd(x, y) = SatAdd(x, y)
    /\ \A w, x, y : Walk(layout, data, answer, w)!SatMul(x, y) = SatMul(x, y)
    /\ \A w, x, y : Walk(layout, data, answer, w)!SatSub(x, y) = SatSub(x, y)
    /\ \A w, x, y : Walk(layout, data, answer, w)!Least(x, y) = Least(x, y)
    /\ \A w, x, y : Walk(layout, data, answer, w)!PadTo(x, y) = PadTo(x, y)
    /\ \A w, x, y : Walk(layout, data, answer, w)!AddLength(x, y) = AddLength(x, y)
    /\ \A w, x, y : Walk(layout, data, answer, w)!MulLength(x, y) = MulLength(x, y)
    /\ \A w, x : Walk(layout, data, answer, w)!ByteCeil(x) = ByteCeil(x)
    /\ \A w, x : Walk(layout, data, answer, w)!Bits(x) = Bits(x)
    /\ \A w : Walk(layout, data, answer, w)!ZeroLength = ZeroLength
<1>1. \A w, x : Walk(layout, data, answer, w)!Saturate(x) = Saturate(x)
  BY DEF Walk!Saturate, Saturate
<1>2. /\ \A w, x, y : Walk(layout, data, answer, w)!Length(x, y) = Length(x, y)
      /\ \A w, x, y : Walk(layout, data, answer, w)!SatAdd(x, y) = SatAdd(x, y)
      /\ \A w, x, y : Walk(layout, data, answer, w)!SatMul(x, y) = SatMul(x, y)
      /\ \A w, x, y : Walk(layout, data, answer, w)!SatSub(x, y) = SatSub(x, y)
      /\ \A w, x, y : Walk(layout, data, answer, w)!Least(x, y) = Least(x, y)
  BY <1>1 DEF Walk!Length, Length, Walk!SatAdd, SatAdd, Walk!SatMul, SatMul, Walk!SatSub, SatSub,
              Walk!Least, Least
<1>3. /\ \A w, x : Walk(layout, data, answer, w)!ByteCeil(x) = ByteCeil(x)
      /\ \A w, x : Walk(layout, data, answer, w)!Bits(x) = Bits(x)
      /\ \A w : Walk(layout, data, answer, w)!ZeroLength = ZeroLength
  BY <1>2 DEF Walk!ByteCeil, ByteCeil, Walk!Bits, Bits, Walk!ZeroLength, ZeroLength
<1>4. \A w, x, y : Walk(layout, data, answer, w)!PadTo(x, y) = PadTo(x, y)
  BY <1>2, <1>3 DEF Walk!PadTo, PadTo
<1>5. \A w, x, y : Walk(layout, data, answer, w)!AddLength(x, y) = AddLength(x, y)
  BY <1>2 DEF Walk!AddLength, AddLength
<1>6. \A w, x, y : Walk(layout, data, answer, w)!MulLength(x, y) = MulLength(x, y)
  BY <1>2 DEF Walk!MulLength, MulLength
<1> QED
  BY <1>2, <1>3, <1>4, <1>5, <1>6

\* So does what a walk reads of the layout and the input.
LEMMA SameShape ==
    /\ \A w : Walk(layout, data, answer, w)!N = N
    /\ \A w : Walk(layout, data, answer, w)!Size = Size
    /\ \A w, i : Walk(layout, data, answer, w)!Item(i) = Item(i)
    /\ \A w, i : Walk(layout, data, answer, w)!HasPad(i) = HasPad(i)
    /\ \A w, f : Walk(layout, data, answer, w)!Checked(f) = Checked(f)
    /\ \A w, i, from, to, status : Walk(layout, data, answer, w)!Node(i, from, to, status) = Node(i, from, to, status)
    /\ \A w : Walk(layout, data, answer, w)!Answered = Answered
<1>1. /\ \A w : Walk(layout, data, answer, w)!N = N
      /\ \A w : Walk(layout, data, answer, w)!Size = Size
      /\ \A w, i : Walk(layout, data, answer, w)!Item(i) = Item(i)
  BY DEF Walk!N, N, Walk!Size, Size, Walk!Item, Item
<1> QED
  BY <1>1 DEF Walk!HasPad, HasPad, Walk!Checked, Checked, Walk!Node, Node,
              Walk!Answered, Answered

\* Expressions and conditions read the numbers of earlier fields.
LEMMA ReadsEarlier ==
    ASSUME NEW i \in Nat, NEW j \in Numbers(layout, i)
    PROVE  j \in 1 .. i - 1 /\ Item(j).kind # "join"
BY DEF Numbers, Numeric, Item

LEMMA SameEval ==
    ASSUME layout \in Layouts, NEW i \in 1 .. N + 1, NEW w, Agrees(w, i - 1),
           NEW e \in Exprs(layout, i)
    PROVE  Walk(layout, data, answer, w)!Eval(e) = Eval(e)
<1>1. i \in Nat
  BY LayoutShape
<1>2. e.of = 0 \/ e.of \in Numbers(layout, i)
  BY DEF Exprs
<1>3. e.of # 0 => w.val[e.of] = val[e.of]
  BY <1>1, <1>2, ReadsEarlier DEF Agrees
<1> QED
  BY <1>3, SameLengths DEF Walk!Eval, Eval

LEMMA SamePresent ==
    ASSUME layout \in Layouts, NEW i \in 1 .. N, NEW w, Agrees(w, i - 1)
    PROVE  /\ Walk(layout, data, answer, w)!Present(i) <=> Present(i)
           /\ Walk(layout, data, answer, w)!Branch(i) = Branch(i)
<1>1. i \in Nat /\ Item(i) \in ItemType(layout, i)
  BY ItemShape
<1>2. \A lit \in Item(i).gate \cup Item(i).cond : lit.of \in Numbers(layout, i)
  BY <1>1 DEF ItemType, Literals
<1>3. \A lit \in Item(i).gate \cup Item(i).cond : w.val[lit.of] = val[lit.of]
  BY <1>1, <1>2, ReadsEarlier DEF Agrees
<1>4. \A lit \in Item(i).gate \cup Item(i).cond : Walk(layout, data, answer, w)!Holds(lit) <=> Holds(lit)
  BY <1>3 DEF Walk!Holds, Holds
<1>5. Walk(layout, data, answer, w)!Present(i) <=> Present(i)
  BY <1>4, SameShape DEF Walk!Present, Present
<1>6. Walk(layout, data, answer, w)!Taken(i) <=> Taken(i)
  BY <1>4, <1>5, SameShape DEF Walk!Taken, Taken
<1> QED
  BY <1>5, <1>6, SameShape DEF Walk!Branch, Branch

LEMMA SameStart ==
    ASSUME layout \in Layouts, NEW i \in 1 .. N, NEW w, Agrees(w, i - 1)
    PROVE  /\ w.end[Item(i).prev] = end[Item(i).prev]
           /\ Walk(layout, data, answer, w)!StartOf(i) = StartOf(i)
<1>1. Item(i).prev \in 0 .. N /\ Item(i).prev < i /\ N \in Nat /\ i \in Nat
  BY ItemShape, LayoutShape
<1>2. w.end[Item(i).prev] = end[Item(i).prev]
  BY <1>1 DEF Agrees
<1> QED
  BY <1>2, SameShape, SameLengths DEF Walk!StartOf, StartOf

\* What an array, a hook or a nested struct finds from an offset on.
LEMMA SameWindow ==
    ASSUME layout \in Layouts, NEW i \in 1 .. N, NEW w, Agrees(w, i - 1), NEW s
    PROVE  /\ Walk(layout, data, answer, w)!WindowEnd(i, s) = WindowEnd(i, s)
           /\ Walk(layout, data, answer, w)!Eval(Item(i).count) = Eval(Item(i).count)
           /\ Walk(layout, data, answer, w)!Eval(Item(i).len) = Eval(Item(i).len)
<1>1. /\ Item(i) \in ItemType(layout, i) /\ ItemAccepted(layout, i) /\ Item(i) = layout.items[i]
      /\ i \in 1 .. N + 1
  BY ItemShape, LayoutShape DEF Item
<1>2. Item(i).count \in Exprs(layout, i) /\ Item(i).len \in Exprs(layout, i)
  BY <1>1 DEF ItemType
<1>3. /\ Walk(layout, data, answer, w)!Eval(Item(i).count) = Eval(Item(i).count)
      /\ Walk(layout, data, answer, w)!Eval(Item(i).len) = Eval(Item(i).len)
  BY <1>1, <1>2, SameEval
<1>4. ASSUME Item(i).kind \in {"greedy", "until"}, ~Item(i).bounded, layout.bounded
      PROVE  Walk(layout, data, answer, w)!Eval(layout.len) = Eval(layout.len)
  <2>1. layout.len \in Exprs(layout, i)
    BY <1>1, <1>4 DEF ItemAccepted
  <2> QED
    BY <1>1, <2>1, SameEval
<1>5. Walk(layout, data, answer, w)!WindowEnd(i, s) = WindowEnd(i, s)
  BY <1>3, <1>4, SameShape, SameLengths DEF Walk!WindowEnd, WindowEnd
<1> QED
  BY <1>3, <1>5

LEMMA SameCounts ==
    ASSUME layout \in Layouts, NEW i \in 1 .. N, NEW w, Agrees(w, i - 1), NEW s
    PROVE  /\ Walk(layout, data, answer, w)!GreedyCount(i, s) = GreedyCount(i, s)
           /\ Walk(layout, data, answer, w)!GreedyBytes(i, s) = GreedyBytes(i, s)
           /\ Walk(layout, data, answer, w)!UntilCount(i, s) = UntilCount(i, s)
           /\ Walk(layout, data, answer, w)!UntilBytes(i, s) = UntilBytes(i, s)
           /\ Walk(layout, data, answer, w)!HookError(i, s) = HookError(i, s)
           /\ Walk(layout, data, answer, w)!ConvError(i, s) = ConvError(i, s)
           /\ Walk(layout, data, answer, w)!ChildFits(i, s) <=> ChildFits(i, s)
           /\ Walk(layout, data, answer, w)!ElementCount(i, s) = ElementCount(i, s)
<1>1. /\ Walk(layout, data, answer, w)!WindowEnd(i, s) = WindowEnd(i, s)
      /\ Walk(layout, data, answer, w)!Eval(Item(i).count) = Eval(Item(i).count)
  BY SameWindow
<1>2. /\ Walk(layout, data, answer, w)!GreedyCount(i, s) = GreedyCount(i, s)
      /\ Walk(layout, data, answer, w)!GreedyBytes(i, s) = GreedyBytes(i, s)
  BY <1>1, SameShape, SameLengths DEF Walk!GreedyCount, GreedyCount, Walk!GreedyBytes, GreedyBytes
<1>3. Walk(layout, data, answer, w)!Sentinel(i, s) = Sentinel(i, s)
  BY <1>1, SameShape, SameLengths DEF Walk!Sentinel, Sentinel
<1>4. Walk(layout, data, answer, w)!UntilCount(i, s) = UntilCount(i, s)
  BY <1>3, SameLengths DEF Walk!UntilCount, UntilCount
<1>5. Walk(layout, data, answer, w)!UntilBytes(i, s) = UntilBytes(i, s)
  BY <1>1, <1>3, <1>4, SameLengths DEF Walk!UntilBytes, UntilBytes
<1>6. /\ Walk(layout, data, answer, w)!HookError(i, s) = HookError(i, s)
      /\ Walk(layout, data, answer, w)!ConvError(i, s) = ConvError(i, s)
  BY <1>1, SameLengths DEF Walk!HookError, HookError, Walk!ConvError, ConvError
<1>7. Walk(layout, data, answer, w)!ChildFits(i, s) <=> ChildFits(i, s)
  BY <1>1, SameShape, SameLengths DEF Walk!ChildFits, ChildFits
<1>8. Walk(layout, data, answer, w)!ElementCount(i, s) = ElementCount(i, s)
  BY <1>1, <1>2, <1>4, SameShape DEF Walk!ElementCount, ElementCount
<1> QED
  BY <1>2, <1>4, <1>5, <1>6, <1>7, <1>8

LEMMA SameLengthOf ==
    ASSUME layout \in Layouts, NEW i \in 1 .. N, NEW w, Agrees(w, i - 1), NEW s,
           Item(i).kind # "join"
    PROVE  Walk(layout, data, answer, w)!LengthOf(i, s) = LengthOf(i, s)
<1>1. Item(i) \in ItemType(layout, i) /\ ItemAccepted(layout, i) /\ Item(i) = layout.items[i]
  BY ItemShape DEF Item
<1>2. Item(i).kind \in Kinds \ {"join"} /\ Item(i).bounded \in BOOLEAN
  BY <1>1 DEF ItemType
<1>3. /\ Walk(layout, data, answer, w)!Eval(Item(i).count) = Eval(Item(i).count)
      /\ Walk(layout, data, answer, w)!Eval(Item(i).len) = Eval(Item(i).len)
  BY SameWindow
<1>4. CASE Item(i).bounded
  <2>1. Item(i).kind \in {"greedy", "until", "hook", "ref"}
    BY <1>1, <1>4 DEF ItemAccepted
  <2> QED
    BY <1>3, <1>4, <2>1, SameShape, SameLengths DEF Walk!LengthOf, LengthOf
<1>5. CASE ~Item(i).bounded /\ Item(i).kind = "counted"
  BY <1>3, <1>5, SameShape, SameLengths DEF Walk!LengthOf, LengthOf
<1>6. CASE ~Item(i).bounded /\ Item(i).kind \in {"greedy", "until", "hook", "ref"}
  BY <1>6, SameCounts, SameShape, SameLengths DEF Walk!LengthOf, LengthOf
<1>7. CASE ~Item(i).bounded /\ Item(i).kind \in {"uint", "bits", "conv"}
  BY <1>7, SameShape, SameLengths DEF Walk!LengthOf, LengthOf
<1> QED
  BY <1>2, <1>4, <1>5, <1>6, <1>7 DEF Kinds

LEMMA SameNumber ==
    ASSUME layout \in Layouts, NEW i \in 1 .. N, NEW w, Agrees(w, i - 1), NEW s, NEW e
    PROVE  Walk(layout, data, answer, w)!NumberAt(i, s, e) = NumberAt(i, s, e)
<1>1. \A k : Walk(layout, data, answer, w)!Byte(k) = Byte(k)
  BY SameShape DEF Walk!Byte, Byte
<1>2. \A a, b : Walk(layout, data, answer, w)!BigEndian(a, b) = BigEndian(a, b)
  BY <1>1 DEF Walk!BigEndian, BigEndian
<1>3. Walk(layout, data, answer, w)!PowerOfTwo = PowerOfTwo
  BY DEF Walk!PowerOfTwo, PowerOfTwo
<1> QED
  BY <1>2, <1>3, SameCounts, SameShape, SameLengths DEF Walk!NumberAt, NumberAt

LEMMA SameErrors ==
    ASSUME layout \in Layouts, NEW i \in 1 .. N, NEW w, Agrees(w, i - 1), Item(i).kind # "join"
    PROVE  /\ Walk(layout, data, answer, w)!EndOf(i) = EndOf(i)
           /\ \A s, e : Walk(layout, data, answer, w)!FatalError(i, s, e) = FatalError(i, s, e)
           /\ Walk(layout, data, answer, w)!FieldError(i) = FieldError(i)
<1>1. Walk(layout, data, answer, w)!StartOf(i) = StartOf(i)
  BY SameStart
<1>2. Walk(layout, data, answer, w)!EndOf(i) = EndOf(i)
  BY <1>1, SameLengthOf, SameLengths DEF Walk!EndOf, EndOf
<1>3. ASSUME NEW s, NEW e PROVE Walk(layout, data, answer, w)!FatalError(i, s, e) = FatalError(i, s, e)
  <2>1. Walk(layout, data, answer, w)!Misaligned(i, s) <=> Misaligned(i, s)
    BY SameShape DEF Walk!Misaligned, Misaligned
  <2> QED
    BY <2>1, SameCounts, SameWindow, SameShape, SameLengths DEF Walk!FatalError, FatalError
<1>4. ASSUME NEW s, NEW e PROVE Walk(layout, data, answer, w)!RecoverableError(i, s, e) = RecoverableError(i, s, e)
  BY SameCounts, SameNumber, SameShape, SameLengths
     DEF Walk!RecoverableError, RecoverableError
<1>5. Walk(layout, data, answer, w)!FieldError(i) = FieldError(i)
  BY <1>1, <1>2, <1>3, <1>4 DEF Walk!FieldError, FieldError
<1> QED
  BY <1>2, <1>3, <1>5

\* What w shows of an item it has visited.
ShownBy(l, d, a, w, i) ==
    IF Walk(l, d, a, w)!Item(i).kind = "join" THEN <<>>
    ELSE IF Walk(l, d, a, w)!Present(i) THEN Walk(l, d, a, w)!PresentNodes(i, w.start[i], w.end[i])
                         ELSE Walk(l, d, a, w)!AbsentNodes(i, w.start[i])

LEMMA SameNodes ==
    ASSUME Memo, NEW i \in 1 .. N, NEW w, Agrees(w, i - 1),
           NEW s \in Lengths, NEW e \in Lengths, Item(i).kind # "join" => w.start[i] = s /\ w.end[i] = e
    PROVE  ShownBy(layout, data, answer, w, i) = ShownAt(i, s, e)
<1>1. w.end[Item(i).prev] = end[Item(i).prev] /\ (Walk(layout, data, answer, w)!Present(i) <=> Present(i))
  BY SameStart, SamePresent DEF Memo
<1>2. Walk(layout, data, answer, w)!PadNodes(i, s) = PadNodes(i, s)
  BY <1>1, SameShape, SameLengths DEF Walk!PadNodes, PadNodes
<1>3. Walk(layout, data, answer, w)!ChildFits(i, s) <=> ChildFits(i, s)
  BY SameCounts DEF Memo
<1>4. Walk(layout, data, answer, w)!AbsentNodes(i, s) = AbsentNodes(i, s) /\ Walk(layout, data, answer, w)!PresentNodes(i, s, e) = PresentNodes(i, s, e)
  BY <1>2, <1>3, SameShape, SameLengths
     DEF Walk!AbsentNodes, AbsentNodes, Walk!PresentNodes, PresentNodes
<1>5. CASE Item(i).kind = "join"
  BY <1>5, SameShape DEF ShownBy, ShownAt
<1>6. CASE Item(i).kind # "join"
  BY <1>1, <1>4, <1>6, SameShape, ShownShape DEF ShownBy
<1> QED
  BY <1>5, <1>6

-----------------------------------------------------------------------------
(* What a walk knows of an item stays what it is while the walk goes on.   *)

Mirrors ==
    \A w, i : layout \in Layouts /\ i \in 1 .. N /\ Agrees(w, i - 1) =>
        /\ Walk(layout, data, answer, w)!Present(i) <=> Present(i)
        /\ Walk(layout, data, answer, w)!Branch(i) = Branch(i)
        /\ Walk(layout, data, answer, w)!StartOf(i) = StartOf(i)
        /\ Item(i).kind # "join" =>
              /\ Walk(layout, data, answer, w)!EndOf(i) = EndOf(i)
              /\ Walk(layout, data, answer, w)!FieldError(i) = FieldError(i)
              /\ \A s, e : Walk(layout, data, answer, w)!NumberAt(i, s, e) = NumberAt(i, s, e)

LEMMA WalkMirrored == Mirrors
BY SamePresent, SameStart, SameErrors, SameNumber DEF Mirrors

\* A step that keeps what was visited below i.
KeptBelow(i) ==
    /\ UNCHANGED <<layout, data, answer>>
    /\ end'[0] = end[0]
    /\ \A j \in 1 .. i - 1 :
          /\ end'[j] = end[j]
          /\ Item(j).kind # "join" => start'[j] = start[j] /\ val'[j] = val[j]

LEMMA WalkKept ==
    ASSUME layout \in Layouts, NEW i \in 1 .. N, KeptBelow(i)
    PROVE  /\ Present(i)' <=> Present(i)
           /\ Branch(i)' = Branch(i)
           /\ StartOf(i)' = StartOf(i)
           /\ Item(i).kind # "join" =>
                 /\ EndOf(i)' = EndOf(i)
                 /\ FieldError(i)' = FieldError(i)
                 /\ \A s, e : NumberAt(i, s, e)' = NumberAt(i, s, e)
<1> DEFINE here == [start |-> start, end |-> end, val |-> val, nodes |-> <<>>]
<1>1. Mirrors'
  BY WalkMirrored, PTL
<1>2. N' = N /\ Item(i)' = Item(i) /\ layout' = layout /\ data' = data /\ answer' = answer
  BY DEF KeptBelow, N, Item
<1>3. Agrees(here, i - 1)
  BY DEF Agrees
<1>4. here.end[0] = end'[0] /\ \A j \in 1 .. i - 1 :
          /\ here.end[j] = end'[j]
          /\ Item(j)'.kind # "join" => here.start[j] = start'[j] /\ here.val[j] = val'[j]
  BY DEF KeptBelow, Item
<1>5. PICK w : w = here
  OBVIOUS
<1>6. Agrees(w, i - 1) /\ Agrees(w, i - 1)'
  BY <1>3, <1>4, <1>5 DEF Agrees
<1>7. /\ Walk(layout, data, answer, w)!Present(i) <=> Present(i)
      /\ Walk(layout, data, answer, w)!Branch(i) = Branch(i)
      /\ Walk(layout, data, answer, w)!StartOf(i) = StartOf(i)
      /\ Item(i).kind # "join" =>
              /\ Walk(layout, data, answer, w)!EndOf(i) = EndOf(i)
              /\ Walk(layout, data, answer, w)!FieldError(i) = FieldError(i)
              /\ \A s, e : Walk(layout, data, answer, w)!NumberAt(i, s, e) = NumberAt(i, s, e)
  BY <1>6, WalkMirrored DEF Mirrors
<1>8. /\ Walk(layout, data, answer, w)!Present(i) <=> Present(i)'
      /\ Walk(layout, data, answer, w)!Branch(i) = Branch(i)'
      /\ Walk(layout, data, answer, w)!StartOf(i) = StartOf(i)'
      /\ Item(i)'.kind # "join" =>
              /\ Walk(layout, data, answer, w)!EndOf(i) = EndOf(i)'
              /\ Walk(layout, data, answer, w)!FieldError(i) = FieldError(i)'
              /\ \A s, e : Walk(layout, data, answer, w)!NumberAt(i, s, e) = NumberAt(i, s, e)'
  BY <1>1, <1>2, <1>6 DEF Mirrors
<1> QED
  BY <1>2, <1>7, <1>8

\* A getter called now answers what the walk found when it passed the item: the
\* generated getters compute an offset anew at every call.
Recomputed ==
    \A i \in Visited :
        /\ Item(i).kind = "join" => end[i] = end[Branch(i)]
        /\ Item(i).kind # "join" =>
              start[i] = StartOf(i) /\ end[i] = EndOf(i) /\ val[i] = NumberAt(i, start[i], end[i])

\* What parse went past it accepted.
Passed ==
    call \in {"parse", "tree", "handoff"} => \A i \in Fields(Visited) : FieldError(i) = "none"

LEMMA BranchEarlier ==
    ASSUME layout \in Layouts, NEW i \in 1 .. N
    PROVE  Item(i).kind = "join" => Branch(i) \in 0 .. i - 1
BY ItemShape, OriginShape, LayoutShape DEF Origin, Branch, ItemType

LEMMA RecomputedExtends ==
    ASSUME TypeOK, Recomputed,
           Join \/ (/\ AtField /\ VisitField /\ call \in {"parse", "dissect"}
                    /\ UNCHANGED Given /\ call' = call)
    PROVE  Recomputed'
<1>1. /\ Memo /\ N \in Nat /\ pc \in 1 .. N /\ Visited = 1 .. pc - 1 /\ Visited' = 1 .. pc
      /\ N' = N /\ UNCHANGED Given /\ \A i : Item(i)' = Item(i)
      /\ \A i \in 0 .. N : i # pc => start'[i] = start[i] /\ end'[i] = end[i] /\ val'[i] = val[i]
      /\ Item(pc).kind = "join" => end'[pc] = end[Branch(pc)]
      /\ Item(pc).kind # "join" =>
            /\ start'[pc] = StartOf(pc) /\ end'[pc] = EndOf(pc)
            /\ val'[pc] = NumberAt(pc, StartOf(pc), EndOf(pc))
  BY WalkExtends
<1>2. ASSUME NEW i \in 1 .. pc
      PROVE  /\ Item(i)'.kind = "join" => end'[i] = end'[Branch(i)']
             /\ Item(i)'.kind # "join" =>
                   /\ start'[i] = StartOf(i)' /\ end'[i] = EndOf(i)'
                   /\ val'[i] = NumberAt(i, start[i], end[i])'
  <2>1. i \in 1 .. N /\ layout \in Layouts /\ Item(i)' = Item(i)
    BY <1>1 DEF Memo
  <2>2. KeptBelow(i)
    BY <1>1, <1>2 DEF KeptBelow, Given
  <2>3. /\ Branch(i)' = Branch(i) /\ StartOf(i)' = StartOf(i)
        /\ Item(i).kind # "join" =>
              EndOf(i)' = EndOf(i) /\ \A s, e : NumberAt(i, s, e)' = NumberAt(i, s, e)
    BY <2>1, <2>2, WalkKept
  <2>4. /\ Item(i).kind = "join" => end'[i] = end[Branch(i)]
        /\ Item(i).kind # "join" =>
              /\ start'[i] = StartOf(i) /\ end'[i] = EndOf(i)
              /\ val'[i] = NumberAt(i, start'[i], end'[i])
    <3>1. CASE i = pc
      BY <1>1, <3>1
    <3>2. CASE i # pc
      <4>1. i \in Visited /\ i \in 0 .. N
        BY <1>1, <3>2
      <4> QED
        BY <1>1, <3>2, <4>1 DEF Recomputed
    <3> QED
      BY <3>1, <3>2
  <2>5. Item(i).kind = "join" => end'[Branch(i)] = end[Branch(i)]
    <3>1. Item(i).kind = "join" => Branch(i) \in 0 .. N /\ Branch(i) # pc
      BY <1>1, <2>1, BranchEarlier
    <3> QED
      BY <1>1, <3>1
  <2>6. Item(i).kind # "join" => NumberAt(i, start[i], end[i])' = NumberAt(i, start'[i], end'[i])
    BY <2>3
  <2> QED
    BY <2>1, <2>3, <2>4, <2>5, <2>6
<1> QED
  BY <1>1, <1>2 DEF Recomputed

LEMMA RecomputedStep == TypeOK /\ Recomputed /\ [Next]_vars => Recomputed'
<1> SUFFICES ASSUME TypeOK, Recomputed, [Next]_vars PROVE Recomputed'
  OBVIOUS
<1>1. CASE Restart /\ UNCHANGED Given /\ call' = "dissect"
  <2>1. Visited' = {}
    BY <1>1 DEF Restart, Visited
  <2> QED
    BY <2>1 DEF Recomputed
<1>2. CASE /\ UNCHANGED Given /\ UNCHANGED <<start, end, val, torn, unreadable>>
           /\ Visited' \subseteq Visited
  <2>1. Visited \subseteq 1 .. N /\ layout \in Layouts
    BY LayoutShape DEF TypeOK, Visited
  <2>2. ASSUME NEW i \in Visited
        PROVE  /\ Item(i)' = Item(i) /\ Branch(i)' = Branch(i) /\ StartOf(i)' = StartOf(i)
               /\ Item(i).kind # "join" =>
                     /\ EndOf(i)' = EndOf(i)
                     /\ NumberAt(i, start[i], end[i])' = NumberAt(i, start[i], end[i])
    <3>1. KeptBelow(i) /\ Item(i)' = Item(i) /\ start' = start /\ end' = end
      BY <1>2 DEF KeptBelow, Given, Item
    <3> QED
      BY <2>1, <3>1, WalkKept
  <2> QED
    BY <1>2, <2>2 DEF Recomputed
<1> QED
  BY <1>1, <1>2, RecomputedExtends, WalkStep

\* Whatever was visited since, every getter answers what it answered before: no
\* later field changes an offset, a branch taken or a number that was read.
THEOREM GettersAnswerTheSame == Spec => []Recomputed
<1>1. Init => Recomputed
  BY DEF Init, Visited, Recomputed
<1> QED
  BY <1>1, RecomputedStep, StructTypeCorrect, PTL DEF Spec

LEMMA PassedExtends ==
    ASSUME TypeOK, Passed, [Next]_vars,
           \/ Join
           \/ /\ AtField /\ VisitField /\ call \in {"parse", "dissect"}
              /\ UNCHANGED Given /\ call' = call
    PROVE  Passed'
<1>1. /\ Memo /\ N \in Nat /\ pc \in 1 .. N /\ Visited = 1 .. pc - 1 /\ Visited' = 1 .. pc
      /\ N' = N /\ UNCHANGED Given /\ \A i : Item(i)' = Item(i)
      /\ \A i \in 0 .. N : i # pc => start'[i] = start[i] /\ end'[i] = end[i] /\ val'[i] = val[i]
      /\ call \in {"parse", "dissect"} /\ call' = call
      /\ \A i \in 1 .. pc : Present(i)' <=> Present(i)
  BY WalkExtends
<1> SUFFICES ASSUME call = "parse", NEW i \in 1 .. pc, Present(i), Item(i).kind # "join"
             PROVE  FieldError(i)' = "none"
  BY <1>1 DEF Passed, Fields
<1>2. i \in 1 .. N /\ KeptBelow(i) /\ layout \in Layouts
  BY <1>1 DEF KeptBelow, Given, Memo
<1>3. FieldError(i)' = FieldError(i)
  BY <1>2, WalkKept
<1>4. CASE i # pc
  <2>1. i \in Fields(Visited)
    BY <1>1, <1>4 DEF Fields
  <2> QED
    BY <1>3, <2>1 DEF Passed
<1>5. CASE i = pc
  <2>1. ParseAbsent \/ ParseAccept \/ UNCHANGED vars \/ Join
    BY <1>1, IntoParse
  <2>2. ParseAccept
    <3>1. ~UNCHANGED vars
      BY <1>1 DEF vars, walk, Visited
    <3>2. ~Join
      BY <1>5 DEF Join
    <3> QED
      BY <1>5, <2>1, <3>1, <3>2 DEF ParseAbsent
  <2> QED
    BY <1>3, <1>5, <2>2 DEF ParseAccept
<1> QED
  BY <1>4, <1>5

LEMMA PassedStep == TypeOK /\ Passed /\ [Next]_vars => Passed'
<1> SUFFICES ASSUME TypeOK, Passed, [Next]_vars PROVE Passed'
  OBVIOUS
<1>1. CASE Restart /\ UNCHANGED Given /\ call' = "dissect"
  BY <1>1 DEF Passed
<1>2. CASE /\ UNCHANGED Given /\ UNCHANGED <<start, end, val, torn, unreadable>>
           /\ Visited' \subseteq Visited
  <2> SUFFICES ASSUME call' \in {"parse", "tree", "handoff"} PROVE Passed'
    BY DEF Passed
  <2>1. call \in {"parse", "tree", "handoff"}
    <3>1. CASE call' = "parse"
      BY <3>1, IntoParse DEF ParseAbsent, ParseAccept, vars
    <3>2. CASE call' = "tree"
      BY <3>2, IntoTree DEF TreeJoin, TreeAbsent, TreePresent, ParseFinish, vars
    <3>3. CASE call' = "handoff"
      BY <3>3, IntoHandoff DEF TreeFinish, vars
    <3> QED
      BY <3>1, <3>2, <3>3
  <2>2. Visited \subseteq 1 .. N /\ layout \in Layouts /\ Fields(Visited)' \subseteq Fields(Visited)
    BY <1>2, WalkFrame, LayoutShape DEF TypeOK, Visited, Fields
  <2>3. ASSUME NEW i \in Fields(Visited) PROVE FieldError(i)' = FieldError(i)
    <3>1. KeptBelow(i) /\ i \in 1 .. N /\ Item(i).kind # "join"
      BY <1>2, <2>2 DEF KeptBelow, Given, Item, Fields
    <3> QED
      BY <2>2, <3>1, WalkKept
  <2> QED
    BY <2>1, <2>2, <2>3 DEF Passed
<1> QED
  BY <1>1, <1>2, PassedExtends, WalkStep

\* parse accepted the view that field_tree and handoff are called on.
Verdict ==
    call \in {"tree", "handoff"} =>
        /\ parsed.status = "ok" /\ parsed.at = N + 1
        /\ StructLength.bit = 0 /\ ~(Size < StructLength.byte)

LEMMA VerdictStep == Verdict /\ [Next]_vars => Verdict'
<1> SUFFICES ASSUME Verdict, [Next]_vars, call' \in {"tree", "handoff"} PROVE Verdict'
  BY DEF Verdict
<1>1. ASSUME UNCHANGED Given, UNCHANGED <<start, end, val, torn, unreadable>>
      PROVE  N' = N /\ Size' = Size /\ StructLength' = StructLength
  BY <1>1, WalkFrame DEF StructLength, Eval, N
<1>2. CASE UNCHANGED vars
  BY <1>1, <1>2 DEF vars, walk, Given, Verdict
<1>3. CASE TreeJoin \/ TreeAbsent \/ TreePresent \/ TreeFinish
  BY <1>1, <1>3 DEF TreeJoin, TreeAbsent, TreePresent, TreeShow, TreeFinish, walk, Given, Verdict
<1>4. CASE ParseFinish /\ call' = "tree"
  <2>1. /\ UNCHANGED Given /\ UNCHANGED <<start, end, val, torn, unreadable>>
        /\ parsed'.status = "ok"
    BY <1>4 DEF ParseFinish, Return, Given
  <2>2. /\ StructLength.bit = 0 /\ ~(Size < StructLength.byte)
        /\ parsed' = Outcome("ok", N + 1, StructLength.byte)
    BY <1>4, <2>1 DEF ParseFinish, Return, Outcome
  <2> QED
    BY <1>1, <2>1, <2>2 DEF Verdict, Outcome
<1> QED
  BY <1>2, <1>3, <1>4, IntoTree, IntoHandoff

-----------------------------------------------------------------------------
(* field_tree's nodes, item by item.                                       *)

\* cut[i] are the nodes shown before item i, up to item n.
Cut(cut, n) ==
    /\ cut \in [1 .. N + 1 -> Seq(Nodes)]
    /\ cut[1] = <<>>
    /\ \A i \in 1 .. n : cut[i + 1] = cut[i] \o ShownAt(i, start[i], end[i])

Shelved ==
    /\ call = "tree" => \E cut : Cut(cut, pc - 1) /\ nodes = cut[pc]
    /\ call = "handoff" =>
          \E cut : /\ Cut(cut, N) /\ nodes = cut[N + 1]
                   /\ trees.tree.nodes = nodes \o TrailingNodes(StructLength.byte)

\* What an item shows depends on the walk and on nothing else of the state.
LEMMA ShownFrame ==
    ASSUME UNCHANGED Given, UNCHANGED <<start, end, val, torn, unreadable>>
    PROVE  /\ N' = N /\ Nodes' = Nodes
           /\ \A i, s, e : ShownAt(i, s, e)' = ShownAt(i, s, e)
           /\ \A cut, n : Cut(cut, n)' <=> Cut(cut, n)
<1>1. /\ N' = N /\ Size' = Size /\ \A i : Item(i)' = Item(i)
      /\ \A i : Present(i)' <=> Present(i)
      /\ layout' = layout /\ start' = start /\ end' = end /\ val' = val
      /\ data' = data /\ answer' = answer
  BY WalkFrame DEF Given
<1>2. Nodes' = Nodes
  BY <1>1 DEF Nodes
<1>3. \A i, s : ChildFits(i, s)' <=> ChildFits(i, s)
  <2>1. \A e : Eval(e)' = Eval(e)
    BY <1>1 DEF Eval
  <2>2. \A i, s : WindowEnd(i, s)' = WindowEnd(i, s)
    BY <1>1, <2>1 DEF WindowEnd
  <2> QED
    BY <1>1, <2>2 DEF ChildFits
<1>4. \A i, s : PadNodes(i, s)' = PadNodes(i, s)
  BY <1>1 DEF PadNodes, HasPad, Node
<1>5. \A i, s, e : ShownNode(i, s, e)' = ShownNode(i, s, e)
  BY <1>1, <1>3 DEF ShownNode, ShownStatus, Node
<1>6. \A i, s, e : ShownAt(i, s, e)' = ShownAt(i, s, e)
  BY <1>1, <1>4, <1>5 DEF ShownAt
<1>7. \A cut, n : Cut(cut, n)' <=> Cut(cut, n)
  BY <1>1, <1>2, <1>6 DEF Cut
<1> QED
  BY <1>1, <1>2, <1>6, <1>7

LEMMA CutGrows ==
    ASSUME Memo, NEW n \in 1 .. N, NEW cut, Cut(cut, n - 1)
    PROVE  \E longer : Cut(longer, n) /\ longer[n + 1] = cut[n] \o ShownAt(n, start[n], end[n])
<1>1. N \in Nat /\ n \in Nat /\ n \in 1 .. N + 1 /\ n + 1 \in 1 .. N + 1
  BY LayoutShape DEF Memo
<1>2. start[n] \in Lengths /\ end[n] \in Lengths
  BY <1>1 DEF Memo
<1> DEFINE more == ShownAt(n, start[n], end[n])
           longer == [cut EXCEPT ![n + 1] = cut[n] \o more]
<1>3. more \in Seq(Nodes) /\ cut[n] \in Seq(Nodes)
  BY <1>1, <1>2, ShownShape DEF Cut
<1>4. cut[n] \o more \in Seq(Nodes)
  BY <1>3, ConcatShape
<1>5. /\ longer \in [1 .. N + 1 -> Seq(Nodes)] /\ longer[n + 1] = cut[n] \o more
      /\ \A i \in 1 .. n : longer[i] = cut[i]
  BY <1>1, <1>4 DEF Cut
<1> HIDE DEF longer
<1>6. ASSUME NEW i \in 1 .. n
      PROVE  longer[i + 1] = longer[i] \o ShownAt(i, start[i], end[i])
  <2>1. CASE i = n
    BY <1>5, <2>1
  <2>2. CASE i # n
    <3>1. i \in 1 .. n - 1 /\ i + 1 \in 1 .. n
      BY <1>1, <2>2
    <3> QED
      BY <1>5, <3>1 DEF Cut
  <2> QED
    BY <2>1, <2>2
<1>7. longer[1] = <<>>
  BY <1>1, <1>5 DEF Cut
<1> QED
  BY <1>5, <1>6, <1>7 DEF Cut

LEMMA ShelvedStep ==
    TypeOK /\ ResultsType /\ Verdict /\ Shelved /\ [Next]_vars => Shelved'
<1> SUFFICES ASSUME TypeOK, ResultsType, Verdict, Shelved, [Next]_vars PROVE Shelved'
  OBVIOUS
<1>0. Memo /\ N \in Nat \ {0} /\ pc \in 1 .. N + 1
  BY TypeIsMemo, LayoutShape DEF TypeOK
<1>1. ASSUME call' = "tree" PROVE (\E cut : Cut(cut, pc - 1) /\ nodes = cut[pc])'
  <2>1. CASE UNCHANGED vars
    <3>1. UNCHANGED Given /\ UNCHANGED <<start, end, val, torn, unreadable>>
          /\ call = "tree" /\ pc' = pc /\ nodes' = nodes
      BY <1>1, <2>1 DEF vars, walk, Given
    <3>2. PICK cut : Cut(cut, pc - 1) /\ nodes = cut[pc]
      BY <3>1 DEF Shelved
    <3>3. Cut(cut, pc - 1)' /\ nodes' = cut[pc']
      BY <3>1, <3>2, ShownFrame
    <3> QED
      BY <3>3
  <2>2. CASE TreeJoin \/ TreeAbsent \/ TreePresent
    <3>1. /\ call = "tree" /\ pc \in 1 .. N /\ pc' = pc + 1
          /\ nodes' = nodes \o ShownAt(pc, start[pc], end[pc])
          /\ UNCHANGED Given /\ UNCHANGED <<start, end, val, torn, unreadable>>
      BY <2>2, TreeShows
    <3>2. PICK cut : Cut(cut, pc - 1) /\ nodes = cut[pc]
      BY <3>1 DEF Shelved
    <3>3. PICK longer : Cut(longer, pc) /\ longer[pc + 1] = nodes'
      BY <1>0, <3>1, <3>2, CutGrows
    <3>4. pc' - 1 = pc
      BY <1>0, <3>1
    <3>5. Cut(longer, pc - 1)' /\ nodes' = longer[pc']
      BY <3>1, <3>3, <3>4, ShownFrame
    <3> QED
      BY <3>5
  <2>3. CASE ParseFinish
    <3>1. pc' = 1 /\ nodes' = <<>> /\ N' = N
      BY <2>3 DEF ParseFinish, Return, Restart, ResultsType, N
    <3> DEFINE cut == [i \in 1 .. N' + 1 |-> <<>>]
    <3>2. cut \in [1 .. N' + 1 -> Seq(Nodes')] /\ cut[1] = <<>>
      BY <1>0, <3>1, EmptySeq
    <3> HIDE DEF cut
    <3>3. PICK c : c = cut
      OBVIOUS
    <3>4. Cut(c, pc - 1)' /\ nodes' = c[pc']
      BY <3>1, <3>2, <3>3 DEF Cut
    <3> QED
      BY <3>4
  <2> QED
    BY <1>1, <2>1, <2>2, <2>3, IntoTree
<1>2. ASSUME call' = "handoff"
      PROVE  (\E cut : /\ Cut(cut, N) /\ nodes = cut[N + 1]
                       /\ trees.tree.nodes = nodes \o TrailingNodes(StructLength.byte))'
  <2>1. ASSUME UNCHANGED Given, UNCHANGED <<start, end, val, torn, unreadable>>, UNCHANGED nodes
        PROVE  TrailingNodes(StructLength.byte)' = TrailingNodes(StructLength.byte)
    BY <2>1, WalkFrame DEF TrailingNodes, StructLength, Eval, N, Node
  <2>2. CASE UNCHANGED vars
    <3>1. UNCHANGED Given /\ UNCHANGED <<start, end, val, torn, unreadable>>
          /\ call = "handoff" /\ nodes' = nodes /\ trees' = trees /\ N' = N
      BY <1>2, <2>2 DEF vars, walk, Given, N
    <3>2. PICK cut : /\ Cut(cut, N) /\ nodes = cut[N + 1]
                     /\ trees.tree.nodes = nodes \o TrailingNodes(StructLength.byte)
      BY <3>1 DEF Shelved
    <3>3. Cut(cut, N)' /\ nodes' = cut[N' + 1]
          /\ trees'.tree.nodes = nodes' \o TrailingNodes(StructLength.byte)'
      BY <2>1, <3>1, <3>2, ShownFrame
    <3> QED
      BY <3>3
  <2>3. CASE TreeFinish
    <3>1. /\ call = "tree" /\ pc = N + 1 /\ N' = N /\ nodes' = nodes
          /\ UNCHANGED Given /\ UNCHANGED <<start, end, val, torn, unreadable>>
          /\ trees'.tree.nodes = nodes \o TrailingNodes(Least(StructLength.byte, Size))
      BY <1>0, <2>3 DEF TreeFinish, N, Given, walk, Tree, ResultsType
    <3>2. PICK cut : Cut(cut, N) /\ nodes = cut[N + 1]
      BY <1>0, <3>1 DEF Shelved
    <3>3. Least(StructLength.byte, Size) = StructLength.byte
      <4>1. StructLength.byte \in Int /\ Size \in Int
        BY StructLengthType, InputShape, UsizeMaxAssumption DEF TypeOK, Usize
      <4> QED
        BY <3>1, <4>1 DEF Verdict, Least
    <3>4. Cut(cut, N)' /\ nodes' = cut[N' + 1]
          /\ trees'.tree.nodes = nodes' \o TrailingNodes(StructLength.byte)'
      BY <2>1, <3>1, <3>2, <3>3, ShownFrame
    <3> QED
      BY <3>4
  <2> QED
    BY <1>2, <2>2, <2>3, IntoHandoff
<1> QED
  BY <1>1, <1>2 DEF Shelved

-----------------------------------------------------------------------------
(* dissect walks where parse walked.                                       *)

LEMMA SameStructLength ==
    ASSUME layout \in Layouts, NEW w, Agrees(w, N)
    PROVE  Walk(layout, data, answer, w)!StructLength = StructLength
<1>1. N \in Nat \ {0} /\ layout.len \in Exprs(layout, N + 1) /\ layout.items[N].gate = {}
  BY LayoutsAssumption, LayoutShape DEF Accepted, N
<1>2. Agrees(w, (N + 1) - 1) /\ N + 1 \in 1 .. N + 1
  BY <1>1
<1>3. Walk(layout, data, answer, w)!Eval(layout.len) = Eval(layout.len)
  BY <1>1, <1>2, SameEval
<1>4. w.end[N] = end[N]
  BY <1>1 DEF Agrees
<1> QED
  BY <1>3, <1>4, SameShape, SameLengths DEF Walk!StructLength, StructLength

LEMMA SameTrailing ==
    ASSUME NEW w, w.nodes = nodes, NEW b
    PROVE  Walk(layout, data, answer, w)!TrailingNodes(b) = TrailingNodes(b)
<1>1. Walk(layout, data, answer, w)!LastTo(nodes) = LastTo(nodes)
  BY DEF Walk!LastTo, LastTo
<1> QED
  BY <1>1, SameShape, SameLengths DEF Walk!TrailingNodes, TrailingNodes

\* w is the walk in which parse came to outcome o: what it computed of each item it
\* went past, why it stopped and, when it accepted, the nodes field_tree then showed.
Went(l, d, a, w, i) ==
    /\ Walk(l, d, a, w)!Item(i).kind = "join" => w.end[i] = w.end[Walk(l, d, a, w)!Branch(i)]
    /\ Walk(l, d, a, w)!Item(i).kind # "join" =>
          /\ w.start[i] = Walk(l, d, a, w)!StartOf(i) /\ w.end[i] = Walk(l, d, a, w)!EndOf(i)
          /\ w.val[i] = Walk(l, d, a, w)!NumberAt(i, w.start[i], w.end[i])
          /\ Walk(l, d, a, w)!Present(i) => Walk(l, d, a, w)!FieldError(i) = "none"

Stopped(l, d, a, w, o) ==
    /\ o.at <= Walk(l, d, a, w)!N =>
          /\ Walk(l, d, a, w)!Item(o.at).kind # "join"
          /\ Walk(l, d, a, w)!Present(o.at)
          /\ o.status = Walk(l, d, a, w)!FieldError(o.at) /\ o.status \in Failures
    /\ o.at = Walk(l, d, a, w)!N + 1 =>
          o.status = IF Walk(l, d, a, w)!StructLength.bit # 0 THEN "Unaligned"
                     ELSE IF Walk(l, d, a, w)!Size < Walk(l, d, a, w)!StructLength.byte
                          THEN "NotEnoughData" ELSE "ok"

Showed(l, d, a, w, shown) ==
    /\ w.cut[1] = <<>>
    /\ \A i \in 1 .. Walk(l, d, a, w)!N : w.cut[i + 1] = w.cut[i] \o ShownBy(l, d, a, w, i)
    /\ w.nodes = w.cut[Walk(l, d, a, w)!N + 1]
    /\ shown = w.nodes \o
               Walk(l, d, a, w)!TrailingNodes(Walk(l, d, a, w)!StructLength.byte)

Made(l, d, a, w, o, shown) ==
    /\ w.end[0] = ZeroLength
    /\ o.at \in 1 .. Walk(l, d, a, w)!N + 1
    /\ \A i \in 1 .. o.at - 1 : Went(l, d, a, w, i)
    /\ Stopped(l, d, a, w, o)
    /\ o.status = "ok" => Showed(l, d, a, w, shown)

\* The walk of parse is one.
LEMMA WentHere ==
    ASSUME TypeOK, Recomputed, Passed, call \in {"parse", "tree", "handoff"}, NEW i \in Visited,
           NEW w, w.start = start, w.end = end, w.val = val
    PROVE  Went(layout, data, answer, w, i)
<1>1. i \in 1 .. N /\ layout \in Layouts
  BY LayoutShape DEF TypeOK, Visited
<1>2. Agrees(w, i - 1)
  BY DEF Agrees
<1>3. /\ Walk(layout, data, answer, w)!Item(i) = Item(i)
      /\ Walk(layout, data, answer, w)!Present(i) <=> Present(i)
      /\ Walk(layout, data, answer, w)!Branch(i) = Branch(i)
      /\ Walk(layout, data, answer, w)!StartOf(i) = StartOf(i)
      /\ Item(i).kind # "join" =>
              /\ Walk(layout, data, answer, w)!EndOf(i) = EndOf(i)
              /\ Walk(layout, data, answer, w)!FieldError(i) = FieldError(i)
              /\ \A s, e : Walk(layout, data, answer, w)!NumberAt(i, s, e) = NumberAt(i, s, e)
  BY <1>1, <1>2, WalkMirrored, SameShape DEF Mirrors
<1>4. Item(i).kind # "join" /\ Present(i) => FieldError(i) = "none"
  BY DEF Passed, Fields
<1> QED
  BY <1>3, <1>4 DEF Recomputed, Went

LEMMA ShownHere ==
    ASSUME TypeOK, NEW w, w.start = start, w.end = end, w.val = val, NEW i \in 1 .. N
    PROVE  ShownBy(layout, data, answer, w, i) = ShownAt(i, start[i], end[i])
<1>1. Memo /\ start[i] \in Lengths /\ end[i] \in Lengths
  <2>1. Memo /\ i \in 0 .. N
    BY TypeIsMemo, ItemShape DEF Memo
  <2> QED
    BY <2>1 DEF Memo
<1>2. Agrees(w, i - 1)
  BY DEF Agrees
<1> QED
  BY <1>1, <1>2, SameNodes

\* The first error among the children is the outcome o, at its item.
FirstIs(children, o) ==
    \E k \in Errors(children) :
        /\ children[k].at = o.at /\ children[k].status = o.status
        /\ \A m \in Errors(children) : k <= m

LEMMA ErrorsConcat ==
    ASSUME NEW S, NEW a \in Seq(S), NEW b \in Seq(S)
    PROVE  /\ Errors(a) = {} /\ Errors(b) = {} => Errors(a \o b) = {}
           /\ \A o : FirstIs(a, o) => FirstIs(a \o b, o)
           /\ \A o : Errors(a) = {} /\ FirstIs(b, o) => FirstIs(a \o b, o)
<1> DEFINE c == a \o b
<1>1. /\ Len(a) \in Nat /\ Len(b) \in Nat
      /\ DOMAIN c = 1 .. Len(a) + Len(b) /\ DOMAIN a = 1 .. Len(a) /\ DOMAIN b = 1 .. Len(b)
      /\ \A k \in 1 .. Len(a) : c[k] = a[k]
      /\ \A k \in 1 .. Len(b) : c[Len(a) + k] = b[k]
  BY ConcatShape
<1> HIDE DEF c
<1>2. ASSUME NEW k \in Errors(c)
      PROVE  k \in Errors(a) \/ (k > Len(a) /\ k - Len(a) \in Errors(b))
  <2>1. k \in 1 .. Len(a) + Len(b) /\ c[k].status \notin Benign
    BY <1>1 DEF Errors
  <2>2. CASE k <= Len(a)
    BY <1>1, <2>1, <2>2 DEF Errors
  <2>3. CASE k > Len(a)
    <3>1. k - Len(a) \in 1 .. Len(b) /\ Len(a) + (k - Len(a)) = k
      BY <1>1, <2>1, <2>3
    <3>2. c[k] = b[k - Len(a)]
      BY <1>1, <3>1
    <3> QED
      BY <1>1, <2>1, <2>3, <3>1, <3>2 DEF Errors
  <2> QED
    BY <1>1, <2>1, <2>2, <2>3
<1>3. ASSUME NEW k \in Errors(a) PROVE k \in Errors(c) /\ c[k] = a[k] /\ k <= Len(a) /\ k \in Nat
  BY <1>1, <1>3 DEF Errors
<1>4. ASSUME NEW k \in Errors(b) PROVE Len(a) + k \in Errors(c) /\ c[Len(a) + k] = b[k] /\ k \in Nat
  BY <1>1, <1>4 DEF Errors
<1>5. Errors(a) = {} /\ Errors(b) = {} => Errors(c) = {}
  BY <1>2
<1>6. ASSUME NEW o, FirstIs(a, o) PROVE FirstIs(c, o)
  <2>1. PICK k \in Errors(a) : /\ a[k].at = o.at /\ a[k].status = o.status
                               /\ \A m \in Errors(a) : k <= m
    BY <1>6 DEF FirstIs
  <2>2. \A m \in Errors(c) : k <= m
    <3> TAKE m \in Errors(c)
    <3>1. k \in Nat /\ k <= Len(a) /\ m \in Int
      BY <1>1, <1>3 DEF Errors
    <3>2. m \in Errors(a) \/ m > Len(a)
      BY <1>2
    <3> QED
      BY <1>1, <2>1, <3>1, <3>2
  <2> QED
    BY <1>3, <2>1, <2>2 DEF FirstIs
<1>7. ASSUME NEW o, Errors(a) = {}, FirstIs(b, o) PROVE FirstIs(c, o)
  <2>1. PICK k \in Errors(b) : /\ b[k].at = o.at /\ b[k].status = o.status
                               /\ \A m \in Errors(b) : k <= m
    BY <1>7 DEF FirstIs
  <2>2. \A m \in Errors(c) : Len(a) + k <= m
    <3> TAKE m \in Errors(c)
    <3>1. m \in Int /\ m - Len(a) \in Errors(b)
      BY <1>1, <1>2, <1>7 DEF Errors
    <3>2. k \in Nat
      BY <1>4
    <3>3. k <= m - Len(a)
      BY <2>1, <3>1
    <3> QED
      BY <1>1, <3>1, <3>2, <3>3
  <2>3. Len(a) + k \in Errors(c) /\ c[Len(a) + k] = b[k]
    BY <1>4
  <2> QED
    BY <2>1, <2>2, <2>3 DEF FirstIs
<1> QED
  BY <1>5, <1>6, <1>7 DEF c

LEMMA ErrorsOfOne ==
    ASSUME NEW n
    PROVE  /\ n.status \in Benign => Errors(<<n>>) = {}
           /\ n.status \notin Benign => \A o : n.at = o.at /\ n.status = o.status => FirstIs(<<n>>, o)
<1>1. DOMAIN <<n>> = {1} /\ <<n>>[1] = n
  OBVIOUS
<1> QED
  BY <1>1 DEF Errors, FirstIs

\* Padding, and what an accepted item shows, is no error; a rejected one shows its.
LEMMA ErrorsShown ==
    ASSUME Memo, NEW i \in 1 .. N, NEW s \in Lengths, NEW e \in Lengths
    PROVE  /\ Errors(ShownAt(i, s, e)) = {}
           /\ FieldError(i) # "none" => \A t \in Lengths : \A o :
                 o.at = i /\ o.status = FieldError(i) =>
                    FirstIs(PadNodes(i, s) \o <<Node(i, Bits(s), Bits(t), FieldError(i))>>, o)
<1>0. Errors(<<>>) = {}
  BY DEF Errors
<1>1. PadNodes(i, s) \in Seq(Nodes) /\ Errors(PadNodes(i, s)) = {}
  <2> DEFINE p == Node(i, Bits(end[Item(i).prev]), Bits(s), "pad")
  <2>1. p.status \in Benign
    BY DEF Node, Benign
  <2>2. Errors(<<p>>) = {}
    BY <2>1, ErrorsOfOne
  <2>3. PadNodes(i, s) = <<>> \/ PadNodes(i, s) = <<p>>
    BY PadShape
  <2> QED
    BY <1>0, <2>2, <2>3, PadShape
<1>2. Errors(ShownAt(i, s, e)) = {}
  <2>1. ShownNode(i, s, e) \in Nodes /\ <<ShownNode(i, s, e)>> \in Seq(Nodes)
    BY ShownShape, OneShape
  <2>2. ShownNode(i, s, e).status \in Benign
    BY DEF ShownNode, ShownStatus, Node, Benign
  <2>3. Errors(<<ShownNode(i, s, e)>>) = {}
    BY <2>2, ErrorsOfOne
  <2> QED
    BY <1>0, <1>1, <2>1, <2>3, ErrorsConcat DEF ShownAt
<1>3. ASSUME FieldError(i) # "none", NEW t \in Lengths, NEW o, o.at = i, o.status = FieldError(i)
      PROVE  FirstIs(PadNodes(i, s) \o <<Node(i, Bits(s), Bits(t), FieldError(i))>>, o)
  <2> DEFINE n == Node(i, Bits(s), Bits(t), FieldError(i))
  <2>1. n \in Nodes /\ <<n>> \in Seq(Nodes)
    BY <1>3, DissectedShape, OneShape
  <2>2. n.status = FieldError(i) /\ n.at = i /\ n.status \notin Benign
    BY <1>3, ErrorShape DEF Node, Benign, Failures
  <2> HIDE DEF n
  <2>3. FirstIs(<<n>>, o)
    BY <1>3, <2>2, ErrorsOfOne
  <2>4. FirstIs(PadNodes(i, s) \o <<n>>, o)
    BY <1>1, <2>1, <2>3, ErrorsConcat
  <2> QED
    BY <2>4 DEF n
<1> QED
  BY <1>2, <1>3

LEMMA ErrorsTrailing ==
    ASSUME NEW b PROVE Errors(TrailingNodes(b)) = {}
<1> DEFINE n == Node(N + 1, SatMul(Least((LastTo(nodes) + 7) \div 8, b), 8), SatMul(b, 8), "trailing")
<1>1. Errors(<<>>) = {}
  BY DEF Errors
<1>2. n.status \in Benign
  BY DEF Node, Benign
<1>3. Errors(<<n>>) = {}
  BY <1>2, ErrorsOfOne
<1>4. TrailingNodes(b) = <<>> \/ TrailingNodes(b) = <<n>>
  BY DEF TrailingNodes
<1> QED
  BY <1>1, <1>3, <1>4

LEMMA MadeHere ==
    ASSUME TypeOK, Recomputed, Passed, call \in {"parse", "tree", "handoff"},
           NEW w, w.start = start, w.end = end, w.val = val, end[0] = ZeroLength,
           NEW o, o.at \in 1 .. N + 1, 1 .. o.at - 1 \subseteq Visited,
           o.at <= N => /\ Item(o.at).kind # "join" /\ Present(o.at)
                        /\ o.status = FieldError(o.at) /\ o.status \in Failures,
           o.at = N + 1 => o.status = IF StructLength.bit # 0 THEN "Unaligned"
                                      ELSE IF Size < StructLength.byte THEN "NotEnoughData"
                                      ELSE "ok",
           NEW shown,
           o.status = "ok" => /\ Cut(w.cut, N) /\ nodes = w.cut[N + 1] /\ w.nodes = nodes
                              /\ shown = nodes \o TrailingNodes(StructLength.byte)
    PROVE  Made(layout, data, answer, w, o, shown)
<1>1. layout \in Layouts /\ N \in Nat
  BY LayoutShape DEF TypeOK
<1>2. Walk(layout, data, answer, w)!N = N /\ Walk(layout, data, answer, w)!Size = Size
  BY SameShape
<1>3. Walk(layout, data, answer, w)!StructLength = StructLength
  <2>1. Agrees(w, N)
    BY DEF Agrees
  <2> QED
    BY <1>1, <2>1, SameStructLength
<1>4. \A i \in 1 .. o.at - 1 : Went(layout, data, answer, w, i)
  BY WentHere
<1>5. Stopped(layout, data, answer, w, o)
  <2>1. ASSUME o.at <= N
        PROVE  /\ Walk(layout, data, answer, w)!Item(o.at) = Item(o.at)
               /\ Walk(layout, data, answer, w)!Present(o.at) <=> Present(o.at)
               /\ Walk(layout, data, answer, w)!FieldError(o.at) = FieldError(o.at)
    <3>1. o.at \in 1 .. N /\ Agrees(w, o.at - 1)
      BY <1>1, <2>1 DEF Agrees
    <3> QED
      BY <1>1, <2>1, <3>1, WalkMirrored, SameShape DEF Mirrors
  <2> QED
    BY <1>2, <1>3, <2>1 DEF Stopped
<1>6. ASSUME o.status = "ok" PROVE Showed(layout, data, answer, w, shown)
  <2>1. \A i \in 1 .. N : w.cut[i + 1] = w.cut[i] \o ShownBy(layout, data, answer, w, i)
    BY <1>6, ShownHere DEF Cut
  <2>2. \A b : Walk(layout, data, answer, w)!TrailingNodes(b) = TrailingNodes(b)
    BY <1>6, SameTrailing
  <2> QED
    BY <1>2, <1>3, <1>6, <2>1, <2>2 DEF Showed, Cut
<1> QED
  BY <1>2, <1>4, <1>5, <1>6 DEF Made

\* dissect is where parse was, and shows what field_tree showed, or it is past the
\* field parse rejected and has shown that error first.
OnPath(w) ==
    /\ fatal = "none" /\ pc <= parsed.at /\ Agrees(w, pc - 1)
    /\ Errors(nodes) = {}
    /\ parsed.status = "ok" => nodes = w.cut[pc]

BeyondIt == parsed.at <= N /\ FirstIs(nodes, parsed)

Dissecting ==
    call = "dissect" =>
        \E w : /\ Made(layout, data, answer, w, parsed, trees.tree.nodes)
               /\ OnPath(w) \/ BeyondIt

LEMMA EntersDissect ==
    ASSUME TypeOK, WalkIsSafe, ResultsType, Recomputed, Passed, Verdict, Shelved,
           call' = "dissect", ParseReject \/ ParseFinish \/ Handoff
    PROVE  Dissecting'
<1>0. Memo /\ N \in Nat \ {0} /\ pc \in 1 .. N + 1 /\ end[0] = ZeroLength
  BY TypeIsMemo, LayoutShape DEF TypeOK, WalkIsSafe
<1>1. /\ UNCHANGED Given /\ trees' = trees /\ fatal' = "none" /\ nodes' = <<>>
      /\ pc' = 1 /\ end'[0] = ZeroLength
  <2>1. AtStart[0] = ZeroLength
    BY <1>0 DEF AtStart
  <2>2. CASE ParseReject \/ ParseFinish
    <3>1. /\ call = "parse" /\ UNCHANGED Given /\ UNCHANGED <<trees, fatal, nodes>> /\ Restart
      BY <2>2 DEF ParseReject, ParseFinish, Return, Given
    <3> QED
      BY <2>1, <3>1 DEF Restart, ResultsType
  <2>3. CASE Handoff
    BY <2>1, <2>3 DEF Handoff, Restart, ResultsType, Given
  <2> QED
    BY <2>2, <2>3
<1>2. SUFFICES ASSUME NEW w, Made(layout, data, answer, w, parsed', trees.tree.nodes),
                      w.cut[1] = <<>> \/ parsed'.status # "ok"
               PROVE  Dissecting'
  <2> DEFINE here(c) == [start |-> start, end |-> end, val |-> val, nodes |-> nodes, cut |-> c]
  <2>1. CASE ParseReject
    <3>1. /\ pc \in 1 .. N /\ Item(pc).kind # "join" /\ Present(pc) /\ call = "parse"
          /\ FieldError(pc) # "none" /\ parsed' = Outcome(FieldError(pc), pc, 0)
      BY <1>0, <2>1 DEF ParseReject, AtField, Return
    <3>2. FieldError(pc) \in Failures
      BY <3>1, ErrorShape
    <3>3. parsed'.at = pc /\ parsed'.status = FieldError(pc) /\ parsed'.status # "ok"
      BY <3>1, <3>2 DEF Outcome, Failures
    <3>4. 1 .. pc - 1 \subseteq Visited /\ pc # N + 1
      BY <1>0, <3>1 DEF Visited
    <3>5. PICK w : w = here(<<>>)
      OBVIOUS
    <3>6. w.start = start /\ w.end = end /\ w.val = val
      BY <3>5
    <3>7. Made(layout, data, answer, w, parsed', trees.tree.nodes)
      BY <1>0, <3>1, <3>2, <3>3, <3>4, <3>6, MadeHere
    <3> QED
      BY <1>2, <3>3, <3>7
  <2>2. CASE ParseFinish
    <3> DEFINE status == IF StructLength.bit # 0 THEN "Unaligned"
                         ELSE IF Size < StructLength.byte THEN "NotEnoughData" ELSE "ok"
    <3>1. /\ pc = N + 1 /\ call = "parse" /\ status # "ok"
          /\ parsed'.at = N + 1 /\ parsed'.status = status
      BY <1>0, <2>2 DEF ParseFinish, Return, Outcome
    <3>2. 1 .. N \subseteq Visited /\ (N + 1) - 1 = N /\ ~(N + 1 <= N) /\ N + 1 \in 1 .. N + 1
      BY <1>0, <3>1 DEF Visited
    <3>3. PICK w : w = here(<<>>)
      OBVIOUS
    <3>4. w.start = start /\ w.end = end /\ w.val = val
      BY <3>3
    <3>5. Made(layout, data, answer, w, parsed', trees.tree.nodes)
      BY <1>0, <3>1, <3>2, <3>4, MadeHere
    <3> QED
      BY <1>2, <3>1, <3>5
  <2>3. CASE Handoff
    <3>1. call = "handoff" /\ parsed' = parsed
      BY <2>3 DEF Handoff
    <3>2. /\ parsed.status = "ok" /\ parsed.at = N + 1
          /\ StructLength.bit = 0 /\ ~(Size < StructLength.byte)
      BY <3>1 DEF Verdict
    <3>3. PICK c : /\ Cut(c, N) /\ nodes = c[N + 1]
                   /\ trees.tree.nodes = nodes \o TrailingNodes(StructLength.byte)
      BY <3>1 DEF Shelved
    <3>4. 1 .. N \subseteq Visited /\ (N + 1) - 1 = N /\ ~(N + 1 <= N) /\ N + 1 \in 1 .. N + 1
      BY <1>0, <3>1 DEF Visited
    <3>5. PICK w : w = here(c)
      OBVIOUS
    <3>6. /\ w.start = start /\ w.end = end /\ w.val = val /\ w.nodes = nodes /\ w.cut = c
      BY <3>5
    <3>7. Made(layout, data, answer, w, parsed, trees.tree.nodes)
      BY <1>0, <3>1, <3>2, <3>3, <3>4, <3>6, MadeHere
    <3> QED
      BY <1>2, <3>1, <3>3, <3>6, <3>7 DEF Cut
  <2> QED
    BY <2>1, <2>2, <2>3
<1>3. /\ Made(layout, data, answer, w, parsed', trees'.tree.nodes)
      /\ parsed'.at \in 1 .. N + 1 /\ w.end[0] = ZeroLength
  BY <1>1, <1>2, SameShape DEF Made, Given
<1>4. Errors(nodes') = {}
  BY <1>1 DEF Errors
<1>5. Agrees(w, pc - 1)'
  BY <1>0, <1>1, <1>3 DEF Agrees
<1>6. OnPath(w)'
  BY <1>0, <1>1, <1>2, <1>3, <1>4, <1>5 DEF OnPath
<1> QED
  BY <1>1, <1>3, <1>6 DEF Dissecting, Given

\* Where dissect goes past an item that parse went past, it stays on the path.
LEMMA StaysOnPath ==
    ASSUME TypeOK, call = "dissect", NEW w, OnPath(w), pc < parsed.at,
           Made(layout, data, answer, w, parsed, trees.tree.nodes), nodes \in Seq(Nodes),
           \/ Join
           \/ DissectAbsent \/ DissectPresent \/ DissectRecover \/ DissectFatal
    PROVE  OnPath(w)'
<1>1. /\ Memo /\ N \in Nat /\ pc \in 1 .. N /\ layout \in Layouts
      /\ Agrees(w, pc - 1) /\ parsed.at \in 1 .. N + 1
      /\ Went(layout, data, answer, w, pc)
  <2>1. /\ Memo /\ N \in Nat /\ pc \in 1 .. N + 1 /\ parsed.at \in 1 .. N + 1 /\ layout \in Layouts
    BY TypeIsMemo, LayoutShape, SameShape DEF TypeOK, Made
  <2>2. pc \in 1 .. N /\ pc \in 1 .. parsed.at - 1
    BY <2>1
  <2> QED
    BY <2>1, <2>2 DEF OnPath, Made
<1>2. /\ Walk(layout, data, answer, w)!Item(pc) = Item(pc)
      /\ Walk(layout, data, answer, w)!Present(pc) <=> Present(pc)
      /\ Walk(layout, data, answer, w)!Branch(pc) = Branch(pc)
      /\ Walk(layout, data, answer, w)!StartOf(pc) = StartOf(pc)
      /\ Item(pc).kind # "join" =>
              /\ Walk(layout, data, answer, w)!EndOf(pc) = EndOf(pc)
              /\ Walk(layout, data, answer, w)!FieldError(pc) = FieldError(pc)
              /\ \A s, e : Walk(layout, data, answer, w)!NumberAt(pc, s, e) = NumberAt(pc, s, e)
  BY <1>1, WalkMirrored, SameShape DEF Mirrors
<1>3. Item(pc).kind # "join" =>
        /\ w.start[pc] = StartOf(pc) /\ w.end[pc] = EndOf(pc)
        /\ w.val[pc] = NumberAt(pc, StartOf(pc), EndOf(pc))
        /\ Present(pc) => FieldError(pc) = "none"
  BY <1>1, <1>2 DEF Went
<1>4. Item(pc).kind = "join" => w.end[pc] = end[Branch(pc)]
  <2> SUFFICES ASSUME Item(pc).kind = "join" PROVE w.end[pc] = end[Branch(pc)]
    OBVIOUS
  <2>1. Branch(pc) \in 0 .. pc - 1
    BY <1>1, BranchEarlier
  <2>2. w.end[Branch(pc)] = end[Branch(pc)]
    BY <1>1, <2>1 DEF Agrees
  <2> QED
    BY <1>1, <1>2, <2>2 DEF Went
<1>5. ~DissectFatal
  BY <1>1, <1>3, DissectStops DEF DissectFatal, FieldError
<1>6. /\ Join \/ (/\ AtField /\ VisitField /\ call \in {"parse", "dissect"}
                  /\ UNCHANGED Given /\ call' = call)
      /\ UNCHANGED <<parsed, trees, fatal>>
  BY <1>5, DissectShows DEF Join
<1>7. PICK s \in Lengths, e \in Lengths :
          /\ nodes' = nodes \o ShownAt(pc, s, e)
          /\ Item(pc).kind # "join" => s = StartOf(pc) /\ e = EndOf(pc)
  <2>1. CASE Join
    <3>1. Item(pc).kind = "join" /\ nodes' = nodes
      BY <2>1 DEF Join
    <3>2. end[0] \in Lengths
      BY <1>1 DEF Memo
    <3>3. nodes \o ShownAt(pc, end[0], end[0]) = nodes
      BY <3>1, ConcatEmptySeq DEF ShownAt
    <3> QED
      BY <3>1, <3>2, <3>3
  <2>2. CASE DissectAbsent \/ DissectPresent \/ DissectRecover
    <3>1. /\ nodes' = nodes \o DissectedAt(pc, StartOf(pc), EndOf(pc))
          /\ StartOf(pc) \in Lengths /\ EndOf(pc) \in Lengths /\ Item(pc).kind # "join"
      BY <2>2, DissectShows
    <3>2. DissectedAt(pc, StartOf(pc), EndOf(pc)) = ShownAt(pc, StartOf(pc), EndOf(pc))
      BY <1>3, <3>1 DEF DissectedAt
    <3> QED
      BY <3>1, <3>2
  <2> QED
    BY <1>5, <2>1, <2>2
<1>8. Errors(nodes') = {}
  <2>1. ShownAt(pc, s, e) \in Seq(Nodes)
    BY <1>1, ShownShape
  <2>2. Errors(nodes) = {} /\ Errors(ShownAt(pc, s, e)) = {}
    BY <1>1, ErrorsShown DEF OnPath
  <2> QED
    BY <1>7, <2>1, <2>2, ErrorsConcat
<1>9. /\ pc' = pc + 1 /\ \A i : Item(i)' = Item(i)
      /\ \A i \in 0 .. N : i # pc => /\ start'[i] = start[i] /\ end'[i] = end[i]
                                     /\ val'[i] = val[i]
      /\ Item(pc).kind = "join" => end'[pc] = end[Branch(pc)]
      /\ Item(pc).kind # "join" =>
            /\ start'[pc] = StartOf(pc) /\ end'[pc] = EndOf(pc)
            /\ val'[pc] = NumberAt(pc, StartOf(pc), EndOf(pc))
  BY <1>6, WalkExtends
<1>10. Agrees(w, pc - 1)'
  <2>1. pc' - 1 = pc /\ w.end[0] = end'[0]
    BY <1>1, <1>9 DEF Agrees
  <2>2. ASSUME NEW i \in 1 .. pc
        PROVE  /\ w.end[i] = end'[i]
               /\ Item(i)'.kind # "join" => w.start[i] = start'[i] /\ w.val[i] = val'[i]
    <3>1. CASE i = pc
      BY <1>3, <1>4, <1>9, <3>1
    <3>2. CASE i # pc
      <4>1. i \in 1 .. pc - 1 /\ i \in 0 .. N
        BY <1>1, <3>2
      <4> QED
        BY <1>1, <1>9, <3>2, <4>1 DEF Agrees
    <3> QED
      BY <3>1, <3>2
  <2> QED
    BY <2>1, <2>2 DEF Agrees
<1>11. parsed.status = "ok" => nodes' = w.cut[pc + 1]
  <2> SUFFICES ASSUME parsed.status = "ok" PROVE nodes' = w.cut[pc + 1]
    OBVIOUS
  <2>1. ShownBy(layout, data, answer, w, pc) = ShownAt(pc, s, e)
    BY <1>1, <1>3, <1>7, SameNodes
  <2>2. w.cut[pc + 1] = w.cut[pc] \o ShownBy(layout, data, answer, w, pc)
    BY <1>1, SameShape DEF Made, Showed
  <2> QED
    BY <1>7, <2>1, <2>2 DEF OnPath
<1> QED
  <2>1. pc' <= parsed'.at
    BY <1>1, <1>6, <1>9
  <2> QED
    BY <1>6, <1>8, <1>9, <1>10, <1>11, <2>1 DEF OnPath

LEMMA FirstFrame ==
    ASSUME parsed' = parsed, FirstIs(nodes', parsed)
    PROVE  FirstIs(nodes, parsed)'
BY DEF FirstIs, Errors

\* Where parse rejected a field, dissect shows the same error.
LEMMA MeetsTheError ==
    ASSUME TypeOK, call = "dissect", NEW w, OnPath(w), pc = parsed.at, pc <= N,
           Made(layout, data, answer, w, parsed, trees.tree.nodes), nodes \in Seq(Nodes),
           \/ Join
           \/ DissectAbsent \/ DissectPresent \/ DissectRecover \/ DissectFatal
    PROVE  BeyondIt'
<1>1. /\ Memo /\ N \in Nat /\ pc \in 1 .. N /\ layout \in Layouts /\ Agrees(w, pc - 1)
  BY TypeIsMemo, LayoutShape DEF TypeOK, OnPath
<1>2. /\ Item(pc).kind # "join" /\ Present(pc)
      /\ parsed.status = FieldError(pc) /\ FieldError(pc) # "none"
  <2>1. /\ Walk(layout, data, answer, w)!Item(pc) = Item(pc)
        /\ Walk(layout, data, answer, w)!Present(pc) <=> Present(pc)
        /\ Item(pc).kind # "join" =>
              Walk(layout, data, answer, w)!FieldError(pc) = FieldError(pc)
    BY <1>1, WalkMirrored, SameShape DEF Mirrors
  <2>2. Stopped(layout, data, answer, w, parsed) /\ Walk(layout, data, answer, w)!N = N
    BY SameShape DEF Made
  <2> QED
    BY <2>1, <2>2 DEF Stopped, Failures
<1>3. StartOf(pc) \in Lengths /\ EndOf(pc) \in Lengths
  BY <1>1, <1>2, EndOfGrows
<1>4. Errors(nodes) = {}
  BY DEF OnPath
<1>5. CASE DissectFatal
  <2>1. /\ nodes' = nodes \o StoppedAt(pc, StartOf(pc))
        /\ StoppedAt(pc, StartOf(pc)) \in Seq(Nodes)
        /\ UNCHANGED Given /\ UNCHANGED parsed
    BY <1>5, DissectStops
  <2>2. FirstIs(StoppedAt(pc, StartOf(pc)), parsed)
    BY <1>1, <1>2, <1>3, ErrorsShown DEF StoppedAt
  <2>3. FirstIs(nodes', parsed) /\ N' = N /\ parsed.at <= N
    BY <1>4, <2>1, <2>2, ErrorsConcat DEF Given, N
  <2>4. FirstIs(nodes, parsed)'
    BY <2>1, <2>3, FirstFrame
  <2> QED
    BY <2>1, <2>3, <2>4 DEF BeyondIt
<1>6. CASE DissectAbsent \/ DissectPresent \/ DissectRecover
  <2>1. /\ nodes' = nodes \o DissectedAt(pc, StartOf(pc), EndOf(pc))
        /\ DissectedAt(pc, StartOf(pc), EndOf(pc)) \in Seq(Nodes)
        /\ UNCHANGED Given /\ UNCHANGED parsed
    BY <1>6, DissectShows
  <2>2. FirstIs(DissectedAt(pc, StartOf(pc), EndOf(pc)), parsed)
    BY <1>1, <1>2, <1>3, ErrorsShown DEF DissectedAt
  <2>3. FirstIs(nodes', parsed) /\ N' = N /\ parsed.at <= N
    BY <1>4, <2>1, <2>2, ErrorsConcat DEF Given, N
  <2>4. FirstIs(nodes, parsed)'
    BY <2>1, <2>3, FirstFrame
  <2> QED
    BY <2>1, <2>3, <2>4 DEF BeyondIt
<1>7. ~Join
  BY <1>2 DEF Join
<1> QED
  BY <1>5, <1>6, <1>7

LEMMA StaysBeyond ==
    ASSUME TypeOK, call = "dissect", BeyondIt, nodes \in Seq(Nodes),
           \/ Join
           \/ DissectAbsent \/ DissectPresent \/ DissectRecover \/ DissectFatal
    PROVE  BeyondIt'
<1>1. PICK more : /\ more \in Seq(Nodes) /\ nodes' = nodes \o more
                  /\ UNCHANGED Given /\ UNCHANGED parsed
  <2>1. CASE Join
    <3>1. nodes' = nodes /\ UNCHANGED Given /\ UNCHANGED parsed
      BY <2>1 DEF Join, Given
    <3>2. <<>> \in Seq(Nodes) /\ nodes \o <<>> = nodes
      BY ConcatEmptySeq, EmptySeq
    <3> QED
      BY <3>1, <3>2
  <2>2. CASE DissectAbsent \/ DissectPresent \/ DissectRecover
    BY <2>2, DissectShows
  <2>3. CASE DissectFatal
    BY <2>3, DissectStops
  <2> QED
    BY <2>1, <2>2, <2>3
<1>2. FirstIs(nodes', parsed) /\ N' = N
  BY <1>1, ErrorsConcat DEF BeyondIt, Given, N
<1> QED
  BY <1>1, <1>2 DEF BeyondIt, FirstIs, Errors

LEMMA DissectingStep ==
    TypeOK /\ WalkIsSafe /\ ResultsType /\ Recomputed /\ Passed /\ Verdict /\ Shelved
      /\ Dissecting /\ [Next]_vars => Dissecting'
<1> SUFFICES ASSUME TypeOK, WalkIsSafe, ResultsType, Recomputed, Passed, Verdict, Shelved,
                    Dissecting, [Next]_vars, call' = "dissect"
             PROVE  Dissecting'
  BY DEF Dissecting
<1>1. CASE ParseReject \/ ParseFinish \/ Handoff
  BY <1>1, EntersDissect
<1>2. CASE UNCHANGED vars
  <2>1. call = "dissect" /\ UNCHANGED <<layout, data, answer, parsed, trees>>
    BY <1>2 DEF vars
  <2>2. PICK w : /\ Made(layout, data, answer, w, parsed, trees.tree.nodes)
                 /\ OnPath(w) \/ BeyondIt
    BY <2>1 DEF Dissecting
  <2>3. OnPath(w) => OnPath(w)'
    BY <1>2 DEF OnPath, Agrees, Errors, vars, walk, Item
  <2>4. BeyondIt => BeyondIt'
    BY <1>2 DEF BeyondIt, FirstIs, Errors, vars, N
  <2> QED
    BY <2>1, <2>2, <2>3, <2>4 DEF Dissecting
<1>3. CASE /\ (Join /\ call = "dissect") \/ DissectAbsent \/ DissectPresent \/ DissectRecover
                \/ DissectFatal
  <2>1. /\ call = "dissect" /\ UNCHANGED <<layout, data, answer, parsed, trees>> /\ pc <= N
        /\ nodes \in Seq(Nodes)
    <3>1. CASE Join /\ call = "dissect"
      BY <3>1 DEF Join, ResultsType
    <3>2. CASE DissectAbsent \/ DissectPresent \/ DissectRecover
      BY <3>2 DEF DissectAbsent, DissectPresent, DissectRecover, DissectShow, AtDissect, AtField,
                  ResultsType
    <3>3. CASE DissectFatal
      BY <3>3 DEF DissectFatal, AtDissect, AtField, ResultsType
    <3> QED
      BY <1>3, <3>1, <3>2, <3>3
  <2>2. PICK w : /\ Made(layout, data, answer, w, parsed, trees.tree.nodes)
                 /\ OnPath(w) \/ BeyondIt
    BY <2>1 DEF Dissecting
  <2>3. parsed.at \in Int /\ pc \in Int
    BY <2>2, SameShape, LayoutShape DEF Made, TypeOK
  <2>4. CASE BeyondIt
    BY <1>3, <2>1, <2>2, <2>4, StaysBeyond DEF Dissecting
  <2>5. CASE OnPath(w) /\ pc < parsed.at
    <3>1. OnPath(w)'
      BY <1>3, <2>1, <2>2, <2>5, StaysOnPath
    <3> QED
      BY <2>1, <2>2, <3>1 DEF Dissecting
  <2>6. CASE OnPath(w) /\ pc = parsed.at
    <3>1. BeyondIt'
      BY <1>3, <2>1, <2>2, <2>6, MeetsTheError
    <3> QED
      BY <2>1, <2>2, <3>1 DEF Dissecting
  <2> QED
    BY <2>2, <2>3, <2>4, <2>5, <2>6 DEF OnPath
<1> QED
  BY <1>1, <1>2, <1>3, IntoDissect

\* The two trees and the outcome of parse, when dissect is done.
LEMMA DissectConcludes ==
    ASSUME TypeOK, WalkIsSafe, ResultsType, Dissecting, DissectFinish
    PROVE  ParseDissectAgree' /\ TreesAgree'
<1> DEFINE status == IF fatal = "none" /\ layout.bounded /\ Size < StructLength.byte
                     THEN "NotEnoughData" ELSE fatal
           shown  == trees'.dissect.nodes
<1>1. /\ call = "dissect" /\ call' = "done" /\ UNCHANGED Given /\ parsed' = parsed /\ N' = N
      /\ fatal # "none" \/ pc > N
      /\ nodes \in Seq(Nodes) /\ trees'.tree = trees.tree
      /\ shown = IF status = "none" THEN nodes \o TrailingNodes(StructLength.byte) ELSE nodes
      /\ trees'.dissect.status = IF status = "none" THEN "ok" ELSE status
  BY DEF DissectFinish, Given, N, ResultsType, Tree
<1>2. /\ layout \in Layouts /\ N \in Nat \ {0} /\ pc \in 1 .. N + 1 /\ Memo
      /\ StructLength.byte \in Usize /\ StructLength.byte \in Nat /\ Size \in Nat
  BY TypeIsMemo, LayoutShape, InputShape, StructLengthType, UsizeMaxAssumption DEF TypeOK, Usize
<1>3. PICK w : /\ Made(layout, data, answer, w, parsed, trees.tree.nodes)
               /\ OnPath(w) \/ BeyondIt
  BY <1>1 DEF Dissecting
<1>4. /\ parsed.at \in 1 .. N + 1
      /\ parsed.at <= N => parsed.status \in Failures
      /\ Stopped(layout, data, answer, w, parsed)
      /\ parsed.status = "ok" => Showed(layout, data, answer, w, trees.tree.nodes)
  BY <1>3, SameShape DEF Made, Stopped
<1>5. /\ TrailingNodes(StructLength.byte) \in Seq(Nodes)
      /\ Errors(TrailingNodes(StructLength.byte)) = {}
  BY <1>1, <1>2, TrailingShape, ErrorsTrailing
<1>6. \A o : FirstIs(nodes, o) => FirstIs(shown, o)
  BY <1>1, <1>5, ErrorsConcat
<1>7. Errors(nodes) = {} => Errors(shown) = {}
  BY <1>1, <1>5, ErrorsConcat
<1> HIDE DEF status, shown
<1>8. ASSUME BeyondIt PROVE ParseDissectAgree' /\ TreesAgree'
  <2>1. parsed.at <= N /\ FirstIs(shown, parsed) /\ parsed.status \in Failures
    BY <1>4, <1>6, <1>8 DEF BeyondIt
  <2>2. parsed.status # "ok" /\ ~(parsed.at > N)
    BY <1>2, <1>4, <2>1 DEF Failures
  <2>3. ParseDissectAgree'
    BY <1>1, <2>1, <2>2 DEF ParseDissectAgree, FirstIs, Errors, shown
  <2> QED
    BY <1>1, <2>2, <2>3 DEF TreesAgree
<1>9. ASSUME OnPath(w) PROVE ParseDissectAgree' /\ TreesAgree'
  <2>1. /\ fatal = "none" /\ pc = N + 1 /\ parsed.at = N + 1 /\ Agrees(w, N)
        /\ Errors(nodes) = {}
        /\ parsed.status = "ok" => nodes = w.cut[N + 1]
    BY <1>1, <1>2, <1>4, <1>9 DEF OnPath
  <2>2. /\ Walk(layout, data, answer, w)!StructLength = StructLength
        /\ Walk(layout, data, answer, w)!N = N /\ Walk(layout, data, answer, w)!Size = Size
    BY <1>2, <2>1, SameStructLength, SameShape
  <2>3. parsed.status = IF StructLength.bit # 0 THEN "Unaligned"
                        ELSE IF Size < StructLength.byte THEN "NotEnoughData" ELSE "ok"
    BY <1>4, <2>1, <2>2 DEF Stopped
  <2>4. ~layout.bounded => StructLength.byte <= Size
    <3> SUFFICES ASSUME ~layout.bounded PROVE StructLength.byte <= Size
      OBVIOUS
    <3>1. N \in Visited /\ StructLength = end[N] /\ end[N] \in Lengths
      BY <1>1, <1>2, <2>1 DEF Visited, StructLength, Memo
    <3>2. Present(N)
      BY <1>2, LayoutsAssumption DEF Accepted, Present, Item, N
    <3>3. ByteCeil(end[N]) <= Size
      BY <3>1, <3>2 DEF WalkIsSafe
    <3>4. Size \in Nat /\ 8 * (Size + 1) <= UsizeMax
      BY <1>2, InputsAssumption DEF Memo, Size
    <3> QED
      BY <3>1, <3>3, <3>4, BitsExact
  <2>5. CASE parsed.status = "ok"
    <3>1. ~(Size < StructLength.byte)
      BY <2>3, <2>5
    <3>2. status = "none"
      BY <2>1, <3>1 DEF status
    <3>3. shown = nodes \o TrailingNodes(StructLength.byte) /\ trees'.dissect.status = "ok"
      BY <1>1, <3>2
    <3>4. w.nodes = nodes
      BY <1>4, <2>1, <2>2, <2>5 DEF Showed
    <3>5. trees.tree.nodes = nodes \o TrailingNodes(StructLength.byte)
      BY <1>4, <2>2, <2>5, <3>4, SameTrailing DEF Showed
    <3>6. Errors(shown) = {}
      BY <1>7, <2>1
    <3>7. ParseDissectAgree'
      BY <1>1, <2>5, <3>3, <3>6 DEF ParseDissectAgree, Errors, shown
    <3> QED
      BY <1>1, <3>3, <3>5, <3>7 DEF TreesAgree, shown
  <2>6. CASE parsed.status = "NotEnoughData"
    <3>1. Size < StructLength.byte
      BY <2>3, <2>6
    <3>2. status = "NotEnoughData"
      BY <1>2, <2>1, <2>4, <3>1 DEF status
    <3>3. Errors(shown) = {} /\ trees'.dissect.status = "NotEnoughData"
      BY <1>1, <1>7, <2>1, <3>2
    <3>4. parsed.at > N /\ ~(parsed.at <= N)
      BY <1>2, <2>1
    <3> QED
      BY <1>1, <2>6, <3>3, <3>4 DEF ParseDissectAgree, TreesAgree, Errors, shown
  <2>7. CASE parsed.status = "Unaligned"
    <3>1. ~(parsed.at <= N)
      BY <1>2, <2>1
    <3> QED
      BY <1>1, <2>7, <3>1 DEF ParseDissectAgree, TreesAgree
  <2> QED
    BY <2>3, <2>5, <2>6, <2>7
<1> QED
  BY <1>3, <1>8, <1>9

LEMMA AgreementStep ==
    TypeOK /\ WalkIsSafe /\ ResultsType /\ Dissecting /\ ParseDissectAgree /\ TreesAgree
      /\ [Next]_vars => ParseDissectAgree' /\ TreesAgree'
<1> SUFFICES ASSUME TypeOK, WalkIsSafe, ResultsType, Dissecting, ParseDissectAgree, TreesAgree,
                    [Next]_vars, call' = "done"
             PROVE  ParseDissectAgree' /\ TreesAgree'
  BY DEF ParseDissectAgree, TreesAgree
<1>1. CASE UNCHANGED vars
  BY <1>1 DEF vars, ParseDissectAgree, TreesAgree, Errors, N
<1>2. CASE DissectFinish
  BY <1>2, DissectConcludes
<1> QED
  BY <1>1, <1>2, IntoDone

LEMMA Agreement == Spec => [](ParseDissectAgree /\ TreesAgree)
<1>1. Init => Passed /\ Verdict /\ Shelved /\ Dissecting /\ ParseDissectAgree /\ TreesAgree
  BY DEF Init, Passed, Verdict, Shelved, Dissecting, ParseDissectAgree, TreesAgree, Visited, Fields
<1>2. Spec => []Passed
  BY <1>1, PassedStep, StructTypeCorrect, PTL DEF Spec
<1>3. Spec => []Verdict
  BY <1>1, VerdictStep, PTL DEF Spec
<1>4. Spec => []Shelved
  BY <1>1, <1>3, ShelvedStep, StructTypeCorrect, ResultsTypeCorrect, PTL DEF Spec
<1>5. Spec => []Dissecting
  BY <1>1, <1>2, <1>3, <1>4, DissectingStep, StructTypeCorrect, WalksAreSafe,
     ResultsTypeCorrect, GettersAnswerTheSame, PTL DEF Spec
<1> QED
  BY <1>1, <1>5, AgreementStep, StructTypeCorrect, WalksAreSafe, ResultsTypeCorrect, PTL DEF Spec

\* What parse accepts dissect shows without an error, and the first error that
\* dissect shows is the one parse reports, at the same field: parse's checks and
\* dissect's, written out twice by the generator, decide alike on every struct.
THEOREM ParseAndDissectAgree == Spec => []ParseDissectAgree
BY Agreement, PTL

\* The tree of a parsed view and the tree dissect makes of its bytes have the same
\* nodes, trailing bytes included, whatever the struct, the bytes and the answers.
THEOREM BothTreesAgree == Spec => []TreesAgree
BY Agreement, PTL

-----------------------------------------------------------------------------
(* The nodes tile the input.                                               *)

Visible(n) == n.status \notin {"absent", "trailing"} /\ (n.status = "pad" => Present(n.at))

\* The last node that shows ends at bit b; nothing shown ends at bit 0.
LastEnds(children, b) ==
    \/ Shown(children) = {} /\ b = 0
    \/ \E k \in Shown(children) : children[k].to = b /\ \A m \in Shown(children) : m <= k

LEMMA AppendedKeeps ==
    ASSUME NEW S, NEW children \in Seq(S), NEW n \in S, NEW k \in Shown(children)
    PROVE  k \in Nat /\ k <= Len(children) /\ (children \o <<n>>)[k] = children[k]
<1>1. <<n>> \in Seq(S)
  BY OneShape
<1>2. k \in 1 .. Len(children) /\ Len(children) \in Nat
  BY LenProperties DEF Shown
<1> QED
  BY <1>1, <1>2, ConcatShape

LEMMA AppendedShape ==
    ASSUME NEW S, NEW children \in Seq(S), NEW n \in S
    PROVE  /\ Len(children) \in Nat /\ Len(children) + 1 \in DOMAIN (children \o <<n>>)
           /\ (children \o <<n>>)[Len(children) + 1] = n
           /\ Visible(n) => Shown(children \o <<n>>) = Shown(children) \cup {Len(children) + 1}
           /\ ~Visible(n) => Shown(children \o <<n>>) = Shown(children)
<1> DEFINE c == children \o <<n>>
           l == Len(children)
<1>1. <<n>> \in Seq(S) /\ Len(<<n>>) = 1 /\ <<n>>[1] = n
  BY OneShape
<1>2. /\ l \in Nat /\ DOMAIN c = 1 .. l + 1 /\ DOMAIN children = 1 .. l
      /\ \A k \in 1 .. l : c[k] = children[k]
      /\ c[l + 1] = n
  <2>1. /\ Len(children) \in Nat /\ DOMAIN (children \o <<n>>) = 1 .. Len(children) + Len(<<n>>)
        /\ DOMAIN children = 1 .. Len(children)
        /\ \A k \in 1 .. Len(children) : (children \o <<n>>)[k] = children[k]
        /\ \A k \in 1 .. Len(<<n>>) : (children \o <<n>>)[Len(children) + k] = <<n>>[k]
    BY <1>1, ConcatShape
  <2>2. 1 \in 1 .. Len(<<n>>)
    BY <1>1
  <2> QED
    BY <1>1, <2>1, <2>2
<1> HIDE DEF c, l
<1>3. \A k \in DOMAIN c : k \in DOMAIN children \/ k = l + 1
  BY <1>2
<1>4. Shown(c) = {k \in DOMAIN c : Visible(c[k])} /\ Shown(children) = {k \in DOMAIN children : Visible(children[k])}
  BY DEF Shown, Visible
<1>5. /\ Visible(n) => Shown(c) = Shown(children) \cup {l + 1}
      /\ ~Visible(n) => Shown(c) = Shown(children)
  BY <1>2, <1>3, <1>4
<1>6. l \in Nat /\ l + 1 \in DOMAIN c /\ c[l + 1] = n
  BY <1>2
<1> QED
  BY <1>5, <1>6, Zenon DEF c, l

\* A node that starts where the last one ended goes on the tiling.
LEMMA AppendVisible ==
    ASSUME NEW S, NEW children \in Seq(S), NEW n \in S, Visible(n),
           Tiles(children), LastEnds(children, n.from)
    PROVE  Tiles(children \o <<n>>) /\ LastEnds(children \o <<n>>, n.to)
<1> DEFINE c == children \o <<n>>
           l == Len(children)
<1>1. /\ l \in Nat /\ c[l + 1] = n
      /\ \A k \in Shown(children) : k \in Nat /\ k <= l /\ c[k] = children[k]
      /\ Shown(c) = Shown(children) \cup {l + 1}
  BY AppendedShape, AppendedKeeps
<1> HIDE DEF c, l
<1>2. LastEnds(c, n.to)
  BY <1>1 DEF LastEnds
<1>3. ASSUME NEW k \in Shown(children)
      PROVE  \/ c[k].from = 0 /\ \A m \in Shown(c) : k <= m
             \/ \E j \in Shown(c) : /\ j < k /\ c[k].from = c[j].to
                                    /\ \A m \in Shown(c) : m <= j \/ k <= m
  <2>1. CASE children[k].from = 0 /\ \A m \in Shown(children) : k <= m
    BY <1>1, <2>1
  <2>2. CASE \E j \in Shown(children) :
                /\ j < k /\ children[k].from = children[j].to
                /\ \A m \in Shown(children) : m <= j \/ k <= m
    BY <1>1, <2>2
  <2> QED
    BY <2>1, <2>2 DEF Tiles
<1>4. \/ c[l + 1].from = 0 /\ \A m \in Shown(c) : l + 1 <= m
      \/ \E j \in Shown(c) : /\ j < l + 1 /\ c[l + 1].from = c[j].to
                             /\ \A m \in Shown(c) : m <= j \/ l + 1 <= m
  <2>1. CASE Shown(children) = {} /\ n.from = 0
    BY <1>1, <2>1
  <2>2. CASE \E j \in Shown(children) :
                children[j].to = n.from /\ \A m \in Shown(children) : m <= j
    BY <1>1, <2>2
  <2> QED
    BY <2>1, <2>2 DEF LastEnds
<1>5. Tiles(c)
  BY <1>1, <1>3, <1>4 DEF Tiles
<1> QED
  BY <1>2, <1>5 DEF c

LEMMA AppendHidden ==
    ASSUME NEW S, NEW children \in Seq(S), NEW n \in S, ~Visible(n), Tiles(children)
    PROVE  /\ Tiles(children \o <<n>>)
           /\ \A b : LastEnds(children, b) => LastEnds(children \o <<n>>, b)
<1>1. Shown(children \o <<n>>) = Shown(children)
  BY AppendedShape
<1>2. \A k \in Shown(children) : (children \o <<n>>)[k] = children[k]
  BY AppendedKeeps
<1> QED
  BY <1>1, <1>2 DEF Tiles, LastEnds

\* Item i, or the start, is the last of the first n items that is there, up to the
\* ends of conditionals.
LastOne(i, n) ==
    /\ i = 0 \/ Present(i)
    /\ \A k \in i + 1 .. n : Present(k) => Item(k).kind = "join"

\* The children shown of the first n items tile the input up to where these end.
Tiled(children, n, ends) ==
    /\ \A k \in DOMAIN children : children[k].at \in 1 .. n
    /\ Tiles(children)
    /\ \A i \in 0 .. n : LastOne(i, n) => LastEnds(children, Bits(ends[i]))

LEMMA OriginIsLast ==
    ASSUME layout \in Layouts, NEW i \in 1 .. N, Present(i)
    PROVE  Origin(i) \in 0 .. i - 1 /\ LastOne(Origin(i), i - 1)
BY OriginShape, LayoutShape DEF LastOne

LEMMA LastOneBefore ==
    ASSUME NEW i \in Nat \ {0}, NEW j \in 0 .. i - 1, LastOne(j, i)
    PROVE  LastOne(j, i - 1) /\ (Present(i) => Item(i).kind = "join")
BY DEF LastOne

LEMMA TiledJoin ==
    ASSUME layout \in Layouts, NEW i \in 1 .. N, Item(i).kind = "join",
           NEW children, Tiled(children, i - 1, end),
           NEW ends, \A j \in 0 .. i - 1 : ends[j] = end[j], ends[i] = end[Branch(i)]
    PROVE  Tiled(children, i, ends)
<1>1. i \in Nat \ {0}
  BY LayoutShape
<1>2. \A k \in DOMAIN children : children[k].at \in 1 .. i
  BY <1>1 DEF Tiled
<1>3. ASSUME NEW j \in 0 .. i, LastOne(j, i) PROVE LastEnds(children, Bits(ends[j]))
  <2>1. CASE j = i
    <3>1. Present(i) /\ Origin(i) = Branch(i)
      BY <1>1, <1>3, <2>1 DEF LastOne, Origin
    <3>2. Origin(i) \in 0 .. i - 1 /\ LastOne(Origin(i), i - 1)
      BY <3>1, OriginIsLast
    <3> QED
      BY <2>1, <3>1, <3>2 DEF Tiled
  <2>2. CASE j # i
    <3>1. j \in 0 .. i - 1
      BY <1>1, <2>2
    <3>2. LastOne(j, i - 1)
      BY <1>1, <1>3, <3>1, LastOneBefore
    <3> QED
      BY <3>1, <3>2 DEF Tiled
  <2> QED
    BY <2>1, <2>2
<1> QED
  BY <1>2, <1>3 DEF Tiled

LEMMA TiledField ==
    ASSUME Memo, NEW i \in 1 .. N, Item(i).kind # "join",
           NEW children \in Seq(Nodes), Tiled(children, i - 1, end),
           NEW s \in Lengths, Bits(end[Item(i).prev]) <= Bits(s),
           ~HasPad(i) => Bits(s) = Bits(end[Item(i).prev]),
           NEW n \in Nodes, n.at = i, n.from = Bits(s), n.status \notin {"pad", "trailing"},
           n.status = "absent" <=> ~Present(i),
           NEW ends, \A j \in 0 .. i - 1 : ends[j] = end[j],
           Present(i) => n.to = Bits(ends[i])
    PROVE  Tiled(children \o (PadNodes(i, s) \o <<n>>), i, ends)
<1> DEFINE from == Bits(end[Item(i).prev])
           p == Node(i, from, Bits(s), "pad")
           padded == children \o PadNodes(i, s)
           all == children \o (PadNodes(i, s) \o <<n>>)
<1>1. /\ N \in Nat /\ i \in Nat \ {0} /\ Item(i).prev \in 0 .. N /\ i \in 1 .. N + 1
      /\ PadNodes(i, s) \in Seq(Nodes) /\ <<n>> \in Seq(Nodes)
      /\ from \in Int /\ Bits(s) \in Int /\ from \in Usize /\ Bits(s) \in Usize
  <2>1. N \in Nat /\ i \in Nat \ {0} /\ i \in 1 .. N + 1
    BY LayoutShape DEF Memo
  <2>2. Item(i).prev \in 0 .. N
    BY <2>1, ItemShape DEF Memo
  <2>3. end[Item(i).prev] \in Lengths
    BY <2>2 DEF Memo
  <2>4. from \in Usize /\ Bits(s) \in Usize
    BY <2>3, BitsOfLength
  <2>5. from \in Int /\ Bits(s) \in Int
    BY <2>3, BitsInt
  <2>6. PadNodes(i, s) \in Seq(Nodes)
    BY <2>1, PadShape
  <2>7. <<n>> \in Seq(Nodes)
    BY OneShape
  <2> QED
    BY <2>1, <2>2, <2>4, <2>5, <2>6, <2>7
<1>2. p \in Nodes /\ p.at = i /\ p.from = from /\ p.to = Bits(s) /\ p.status = "pad"
  BY <1>1, NodeShape DEF Memo, Statuses
<1>3. all = padded \o <<n>> /\ padded \in Seq(Nodes)
  BY <1>1, ConcatAssociative, ConcatShape
<1> HIDE DEF p
<1>4. (PadNodes(i, s) = <<>> /\ from = Bits(s)) \/ PadNodes(i, s) = <<p>>
  <2>1. CASE HasPad(i) /\ from < Bits(s)
    BY <2>1 DEF PadNodes, p
  <2>2. CASE ~HasPad(i)
    BY <2>2 DEF PadNodes
  <2>3. CASE ~(from < Bits(s))
    BY <1>1, <2>3 DEF PadNodes
  <2> QED
    BY <2>1, <2>2, <2>3
<1> HIDE DEF from
<1>5. Visible(n) <=> Present(i)
  BY DEF Visible
<1>6. Visible(p) <=> Present(i)
  BY <1>2 DEF Visible
<1>7. PadNodes(i, s) = <<>> => padded = children
  BY ConcatEmptySeq
<1>8. \A k \in DOMAIN all : all[k].at \in 1 .. i
  <2>1. \A k \in DOMAIN padded : padded[k].at \in 1 .. i
    <3>1. CASE PadNodes(i, s) = <<>>
      BY <1>1, <1>7, <3>1 DEF Tiled
    <3>2. CASE PadNodes(i, s) = <<p>>
      <4>1. /\ Len(children) \in Nat /\ DOMAIN padded = 1 .. Len(children) + 1
            /\ DOMAIN children = 1 .. Len(children)
            /\ \A k \in 1 .. Len(children) : padded[k] = children[k]
            /\ padded[Len(children) + 1] = p
        BY <1>1, <1>2, <3>2, AppendProperties, ConcatShape, OneShape
      <4> QED
        BY <1>1, <1>2, <4>1 DEF Tiled
    <3> QED
      BY <1>4, <3>1, <3>2
  <2>2. /\ Len(padded) \in Nat /\ DOMAIN all = 1 .. Len(padded) + 1
        /\ DOMAIN padded = 1 .. Len(padded)
        /\ \A k \in 1 .. Len(padded) : all[k] = padded[k]
        /\ all[Len(padded) + 1] = n
    BY <1>1, <1>3, ConcatShape, OneShape
  <2> HIDE DEF padded, all
  <2> QED
    BY <1>1, <2>1, <2>2
<1> HIDE DEF padded, all
<1>9. CASE ~Present(i)
  <2>1. Tiles(padded) /\ \A b : LastEnds(children, b) => LastEnds(padded, b)
    <3>1. CASE PadNodes(i, s) = <<>>
      BY <1>7, <3>1 DEF Tiled
    <3>2. CASE PadNodes(i, s) = <<p>>
      BY <1>2, <1>6, <1>9, <3>2, AppendHidden DEF Tiled, padded
    <3> QED
      BY <1>4, <3>1, <3>2
  <2>2. Tiles(all) /\ \A b : LastEnds(padded, b) => LastEnds(all, b)
    BY <1>3, <1>5, <1>9, <2>1, AppendHidden
  <2>3. ASSUME NEW j \in 0 .. i, LastOne(j, i) PROVE LastEnds(all, Bits(ends[j]))
    <3>1. j # i
      BY <1>1, <1>9, <2>3 DEF LastOne
    <3>2. j \in 0 .. i - 1
      BY <1>1, <3>1
    <3>3. LastOne(j, i - 1)
      BY <1>1, <2>3, <3>2, LastOneBefore
    <3>4. LastEnds(children, Bits(end[j])) /\ ends[j] = end[j]
      BY <3>2, <3>3 DEF Tiled
    <3> QED
      BY <2>1, <2>2, <3>4
  <2> QED
    BY <1>8, <2>2, <2>3 DEF Tiled, all
<1>10. CASE Present(i)
  <2>1. LastEnds(children, from)
    <3>1. Origin(i) = Item(i).prev
      BY DEF Origin
    <3> QED
      BY <1>10, <3>1, OriginIsLast DEF Tiled, from, Memo
  <2>2. Tiles(padded) /\ LastEnds(padded, Bits(s))
    <3>1. CASE PadNodes(i, s) = <<>> /\ from = Bits(s)
      BY <1>7, <2>1, <3>1 DEF Tiled
    <3>2. CASE PadNodes(i, s) = <<p>>
      BY <1>2, <1>6, <1>10, <2>1, <3>2, AppendVisible DEF Tiled, padded
    <3> QED
      BY <1>4, <3>1, <3>2
  <2>3. Tiles(all) /\ LastEnds(all, n.to)
    BY <1>3, <1>5, <1>10, <2>2, AppendVisible
  <2>4. ASSUME NEW j \in 0 .. i, LastOne(j, i) PROVE j = i
    <3> SUFFICES ASSUME j # i PROVE FALSE
      OBVIOUS
    <3>1. j \in 0 .. i - 1
      BY <1>1
    <3> QED
      BY <1>1, <1>10, <2>4, <3>1, LastOneBefore
  <2> QED
    BY <1>8, <1>10, <2>3, <2>4 DEF Tiled, all
<1> QED
  BY <1>9, <1>10

\* Padding moves an offset forward, and what has none starts where the last item ended.
LEMMA StartPadded ==
    ASSUME Memo, NEW i \in 1 .. N
    PROVE  /\ Bits(end[Item(i).prev]) <= Bits(StartOf(i))
           /\ ~HasPad(i) => Bits(StartOf(i)) = Bits(end[Item(i).prev])
<1>1. Bits(end[Item(i).prev]) <= Bits(StartOf(i))
  BY StartOfForward
<1>2. ASSUME ~HasPad(i) PROVE StartOf(i) = end[Item(i).prev]
  <2>1. Item(i).pad \in Nat /\ Item(i).padTo \in Nat /\ Item(i).prev \in 0 .. N
    BY ItemShape, UsizeMaxAssumption DEF Memo, ItemType, Usize
  <2>2. Item(i).pad = 0 /\ Item(i).padTo = 0
    BY <1>2, <2>1 DEF HasPad
  <2>3. end[Item(i).prev] \in Lengths
    BY <2>1 DEF Memo
  <2> QED
    BY <2>2, <2>3, AddZero DEF StartOf
<1> QED
  BY <1>1, <1>2

\* What the walks show of item i goes on the tiling, where s and e are its offsets.
LEMMA TiledShown ==
    ASSUME Memo, NEW i \in 1 .. N, Item(i).kind # "join",
           NEW children \in Seq(Nodes), Tiled(children, i - 1, end),
           NEW ends, \A j \in 0 .. i - 1 : ends[j] = end[j],
           NEW s \in Lengths, NEW e \in Lengths, s = StartOf(i), e = ends[i]
    PROVE  /\ Tiled(children \o ShownAt(i, s, e), i, ends)
           /\ Tiled(children \o DissectedAt(i, s, e), i, ends)
<1>1. /\ Bits(end[Item(i).prev]) <= Bits(s)
      /\ ~HasPad(i) => Bits(s) = Bits(end[Item(i).prev])
  BY StartPadded
<1>2. i \in 1 .. N + 1 /\ Bits(s) \in Usize /\ Bits(e) \in Usize
  BY LayoutShape, BitsOfLength DEF Memo
<1>3. Tiled(children \o ShownAt(i, s, e), i, ends)
  <2>1. ShownStatus(i, s) \in {"ok", "Child"}
    BY DEF ShownStatus
  <2>2. /\ ShownNode(i, s, e) \in Nodes /\ ShownNode(i, s, e).at = i
        /\ ShownNode(i, s, e).from = Bits(s)
        /\ ShownNode(i, s, e).status \notin {"pad", "trailing"}
        /\ ShownNode(i, s, e).status = "absent" <=> ~Present(i)
        /\ Present(i) => ShownNode(i, s, e).to = Bits(ends[i])
    <3>1. CASE Present(i)
      <4>1. ShownNode(i, s, e) = Node(i, Bits(s), Bits(e), ShownStatus(i, s))
        BY <3>1 DEF ShownNode
      <4>2. ShownStatus(i, s) \in Statuses
        BY <2>1 DEF Statuses
      <4> QED
        BY <1>2, <2>1, <3>1, <4>1, <4>2, NodeShape DEF Memo
    <3>2. CASE ~Present(i)
      <4>1. ShownNode(i, s, e) = Node(i, Bits(s), Bits(s), "absent")
        BY <3>2 DEF ShownNode
      <4> QED
        BY <1>2, <3>2, <4>1, NodeShape DEF Memo, Statuses
    <3> QED
      BY <3>1, <3>2
  <2>3. Tiled(children \o (PadNodes(i, s) \o <<ShownNode(i, s, e)>>), i, ends)
    BY <1>1, <2>2, TiledField
  <2> QED
    BY <2>3 DEF ShownAt
<1>4. CASE Present(i) /\ FieldError(i) # "none"
  <2> DEFINE n == Node(i, Bits(s), Bits(e), FieldError(i))
  <2>1. FieldError(i) \in Failures
    BY <1>4, ErrorShape
  <2>2. FieldError(i) \in Statuses /\ FieldError(i) \notin {"pad", "trailing", "absent"}
    BY <2>1 DEF Failures, Statuses
  <2>3. /\ n \in Nodes /\ n.at = i /\ n.from = Bits(s) /\ n.to = Bits(ends[i])
        /\ n.status = FieldError(i)
    BY <1>2, <2>2, NodeShape DEF Memo
  <2> HIDE DEF n
  <2>4. Tiled(children \o (PadNodes(i, s) \o <<n>>), i, ends)
    BY <1>1, <1>4, <2>2, <2>3, TiledField
  <2> QED
    BY <1>3, <1>4, <2>4 DEF DissectedAt, n
<1> QED
  BY <1>3, <1>4 DEF DissectedAt

\* The node a dissection stops at is empty and ends where the field would start.
LEMMA TilesStopped ==
    ASSUME Memo, NEW i \in 1 .. N, Item(i).kind # "join", Present(i), FieldError(i) \in Failures,
           NEW children \in Seq(Nodes), Tiled(children, i - 1, end)
    PROVE  /\ Tiles(children \o StoppedAt(i, StartOf(i)))
           /\ \A k \in DOMAIN (children \o StoppedAt(i, StartOf(i))) :
                 (children \o StoppedAt(i, StartOf(i)))[k].at \in 1 .. i
<1> DEFINE s == StartOf(i)
           n == Node(i, Bits(s), Bits(s), FieldError(i))
           ends == [j \in 0 .. i |-> IF j = i THEN s ELSE end[j]]
<1>1. /\ Bits(end[Item(i).prev]) <= Bits(s)
      /\ ~HasPad(i) => Bits(s) = Bits(end[Item(i).prev])
  BY StartPadded
<1>2. s \in Lengths /\ i \in Nat /\ i \in 1 .. N + 1 /\ Bits(s) \in Usize
  BY LayoutShape, StartOfType, BitsOfLength DEF Memo
<1>3. ends[i] = s /\ \A j \in 0 .. i - 1 : ends[j] = end[j]
  BY <1>2
<1>4. FieldError(i) \in Statuses /\ FieldError(i) \notin {"pad", "trailing", "absent"}
  BY DEF Failures, Statuses
<1>5. /\ n \in Nodes /\ n.at = i /\ n.from = Bits(s) /\ n.to = Bits(s)
      /\ n.status = FieldError(i)
  BY <1>2, <1>4, NodeShape DEF Memo
<1> HIDE DEF n, ends
<1>6. Tiled(children \o (PadNodes(i, s) \o <<n>>), i, ends)
  <2> HIDE DEF s
  <2> QED
    BY <1>1, <1>2, <1>3, <1>4, <1>5, TiledField
<1>7. Tiled(children \o StoppedAt(i, s), i, ends)
  BY <1>6 DEF StoppedAt, n
<1> QED
  BY <1>7 DEF Tiled

\* The bytes no field consumed are not part of the tiling.
LEMMA TilesTrailing ==
    ASSUME TypeOK, NEW bound \in Usize, nodes \in Seq(Nodes), Tiles(nodes)
    PROVE  Tiles(nodes \o TrailingNodes(bound))
<1>1. CASE TrailingNodes(bound) = <<>>
  BY <1>1, ConcatEmptySeq
<1>2. CASE TrailingNodes(bound) # <<>>
  <2> DEFINE consumed == Least((LastTo(nodes) + 7) \div 8, bound)
             n == Node(N + 1, SatMul(consumed, 8), SatMul(bound, 8), "trailing")
  <2>1. TrailingNodes(bound) = <<n>>
    BY <1>2 DEF TrailingNodes
  <2>2. n.status = "trailing"
    BY DEF Node
  <2> HIDE DEF n
  <2>3. TrailingNodes(bound) \in Seq(Nodes) /\ Len(<<n>>) = 1 /\ <<n>>[1] = n
    BY TrailingShape
  <2>4. n \in Nodes
    BY <2>1, <2>3, ElementOfSeq
  <2>5. ~Visible(n)
    BY <2>2 DEF Visible
  <2> QED
    BY <2>1, <2>4, <2>5, AppendHidden
<1> QED
  BY <1>1, <1>2

\* Tiling depends on which of the items are present and on nothing else of the walk.
LEMMA TiledFrame ==
    ASSUME NEW n \in Nat, \A i \in 1 .. n : Present(i)' <=> Present(i), \A i : Item(i)' = Item(i)
    PROVE  \A children, ends : Tiled(children, n, ends) => Tiled(children, n, ends)'
<1> SUFFICES ASSUME NEW children, NEW ends, Tiled(children, n, ends)
             PROVE  Tiled(children, n, ends)'
  OBVIOUS
<1>1. \A i \in 0 .. n : LastOne(i, n)' <=> LastOne(i, n)
  BY DEF LastOne
<1>2. \A k \in DOMAIN children : Present(children[k].at)' <=> Present(children[k].at)
  BY DEF Tiled
<1>3. Shown(children)' = Shown(children)
  BY <1>2 DEF Shown
<1> QED
  BY <1>1, <1>3 DEF Tiled, Tiles, LastEnds

LEMMA TilesFrame ==
    ASSUME \A i : Present(i)' <=> Present(i)
    PROVE  \A children : Tiles(children) => Tiles(children)'
<1> SUFFICES ASSUME NEW children, Tiles(children)
             PROVE  Tiles(children)'
  OBVIOUS
<1>1. Shown(children)' = Shown(children)
  BY DEF Shown
<1> QED
  BY <1>1 DEF Tiles

\* The nodes of the walk, where it stands.
NodesTiled == Tiled(nodes, pc - 1, end)


\* These are about the lists as values, so that a step can be reasoned about.
AsValues ==
    /\ \A children, n, ends :
          children = nodes /\ n = pc - 1 /\ ends = end /\ Tiled(children, n, ends) => NodesTiled
    /\ \A children : children = nodes /\ Tiles(children) => Tiles(nodes)
    /\ \A children : children = trees.tree.nodes /\ Tiles(children) => Tiles(trees.tree.nodes)
    /\ \A children :
          children = trees.dissect.nodes /\ Tiles(children) => Tiles(trees.dissect.nodes)
    /\ nodes = <<>> /\ pc = 1 /\ end[0] = ZeroLength => NodesTiled /\ Tiles(nodes)
    /\ NodesTiled => Tiles(nodes)

LEMMA TiledAsValues == AsValues
<1>1. ASSUME nodes = <<>>, pc = 1, end[0] = ZeroLength PROVE NodesTiled
  <2>1. DOMAIN nodes = {} /\ pc - 1 = 0
    BY <1>1
  <2>2. Shown(nodes) = {}
    BY <2>1 DEF Shown
  <2>3. Bits(end[0]) = 0
    BY <1>1, UsizeMaxAssumption DEF ZeroLength, Length, Bits, SatAdd, SatMul, Saturate, Usize
  <2>4. 0 .. pc - 1 = {0}
    BY <2>1
  <2> QED
    BY <2>1, <2>2, <2>3, <2>4 DEF NodesTiled, Tiled, Tiles, LastEnds
<1>2. NodesTiled => Tiles(nodes)
  BY DEF NodesTiled, Tiled
<1>3. \A children, n, ends :
         children = nodes /\ n = pc - 1 /\ ends = end /\ Tiled(children, n, ends) => NodesTiled
  BY DEF NodesTiled
<1> QED
  BY <1>1, <1>2, <1>3 DEF AsValues

Tiling ==
    /\ call = "tree" => NodesTiled
    /\ call = "handoff" => Tiles(trees.tree.nodes)
    /\ call = "dissect" => Tiles(nodes) /\ (fatal = "none" => NodesTiled)
    /\ call = "done" => Tiles(trees.dissect.nodes)

LEMMA TilingInTree ==
    ASSUME TypeOK, ResultsType, Recomputed, NodesTiled, TreeJoin \/ TreeAbsent \/ TreePresent
    PROVE  NodesTiled'
<1>1. /\ Memo /\ call = "tree" /\ pc \in 1 .. N /\ N \in Nat
      /\ pc' = pc + 1 /\ nodes' = nodes \o ShownAt(pc, start[pc], end[pc])
      /\ start[pc] \in Lengths /\ end[pc] \in Lengths
      /\ UNCHANGED Given /\ UNCHANGED <<start, end, val, torn, unreadable>>
  BY TreeShows
<1>2. nodes \in Seq(Nodes) /\ Tiled(nodes, pc - 1, end) /\ pc \in Visited
  BY <1>1 DEF ResultsType, NodesTiled, Visited
<1>3. Tiled(nodes \o ShownAt(pc, start[pc], end[pc]), pc, end)
  <2>1. CASE Item(pc).kind = "join"
    <3>1. ShownAt(pc, start[pc], end[pc]) = <<>>
      BY <2>1 DEF ShownAt
    <3>2. Tiled(nodes, pc, end)
      BY <1>1, <1>2, <2>1, TiledJoin DEF Recomputed, Memo
    <3> QED
      BY <1>2, <3>1, <3>2, ConcatEmptySeq
  <2>2. CASE Item(pc).kind # "join"
    BY <1>1, <1>2, <2>2, TiledShown DEF Recomputed
  <2> QED
    BY <2>1, <2>2
<1>4. PICK children, n, ends : children = nodes' /\ n = pc /\ ends = end'
  OBVIOUS
<1>5. Tiled(children, n, ends) /\ n \in Nat /\ n = pc' - 1
  BY <1>1, <1>3, <1>4
<1>6. Tiled(children, n, ends)'
  BY <1>1, <1>5, WalkFrame, TiledFrame
<1>7. AsValues'
  BY TiledAsValues, PTL
<1> QED
  BY <1>4, <1>5, <1>6, <1>7 DEF AsValues

LEMMA TilingInDissect ==
    ASSUME TypeOK, ResultsType, NodesTiled,
           \/ Join /\ call = "dissect"
           \/ DissectAbsent \/ DissectPresent \/ DissectRecover
    PROVE  NodesTiled'
<1>1. nodes \in Seq(Nodes) /\ Tiled(nodes, pc - 1, end)
  BY DEF ResultsType, NodesTiled
<1>2. /\ Memo /\ N \in Nat /\ pc \in 1 .. N /\ pc' = pc + 1
      /\ \A i : Item(i)' = Item(i)
      /\ \A i \in 0 .. N : i # pc => end'[i] = end[i]
      /\ \A i \in 1 .. pc : Present(i)' <=> Present(i)
      /\ Item(pc).kind = "join" => end'[pc] = end[Branch(pc)]
      /\ Item(pc).kind # "join" => end'[pc] = EndOf(pc)
      /\ Tiled(nodes', pc, end')
  <2>1. CASE Join
    <3>1. /\ Memo /\ N \in Nat /\ pc \in 1 .. N /\ pc' = pc + 1
          /\ \A i : Item(i)' = Item(i)
          /\ \A i \in 0 .. N : i # pc => end'[i] = end[i]
          /\ \A i \in 1 .. pc : Present(i)' <=> Present(i)
          /\ Item(pc).kind = "join" => end'[pc] = end[Branch(pc)]
          /\ Item(pc).kind # "join" => end'[pc] = EndOf(pc)
      BY <2>1, WalkExtends
    <3>2. Item(pc).kind = "join" /\ nodes' = nodes
      BY <2>1 DEF Join
    <3>3. \A j \in 0 .. pc - 1 : end'[j] = end[j]
      BY <3>1
    <3>4. Tiled(nodes, pc, end')
      BY <1>1, <3>1, <3>2, <3>3, TiledJoin DEF Memo
    <3> QED
      BY <3>1, <3>2, <3>4
  <2>2. CASE DissectAbsent \/ DissectPresent \/ DissectRecover
    <3>1. /\ call = "dissect" /\ AtField /\ VisitField /\ Item(pc).kind # "join"
          /\ nodes' = nodes \o DissectedAt(pc, StartOf(pc), EndOf(pc))
          /\ StartOf(pc) \in Lengths /\ EndOf(pc) \in Lengths
          /\ UNCHANGED Given /\ call' = call
      BY <2>2, DissectShows
    <3>2. /\ Memo /\ N \in Nat /\ pc \in 1 .. N /\ pc' = pc + 1
          /\ \A i : Item(i)' = Item(i)
          /\ \A i \in 0 .. N : i # pc => end'[i] = end[i]
          /\ \A i \in 1 .. pc : Present(i)' <=> Present(i)
          /\ Item(pc).kind = "join" => end'[pc] = end[Branch(pc)]
          /\ Item(pc).kind # "join" => end'[pc] = EndOf(pc)
      BY <3>1, WalkExtends
    <3>3. \A j \in 0 .. pc - 1 : end'[j] = end[j]
      BY <3>2
    <3>4. Tiled(nodes \o DissectedAt(pc, StartOf(pc), EndOf(pc)), pc, end')
      BY <1>1, <3>1, <3>2, <3>3, TiledShown
    <3> QED
      BY <3>1, <3>2, <3>4
  <2> QED
    BY <2>1, <2>2
<1>3. PICK children, n, ends : children = nodes' /\ n = pc /\ ends = end'
  OBVIOUS
<1>4. Tiled(children, n, ends) /\ n \in Nat /\ n = pc' - 1
  BY <1>2, <1>3
<1>5. \A i \in 1 .. n : Present(i)' <=> Present(i)
  BY <1>2, <1>3
<1>6. Tiled(children, n, ends)'
  BY <1>2, <1>4, <1>5, TiledFrame
<1>7. AsValues'
  BY TiledAsValues, PTL
<1> QED
  BY <1>3, <1>4, <1>6, <1>7 DEF AsValues

\* A list of nodes that a step makes while the walk stays is tiled after it.
LEMMA TilesStay ==
    ASSUME UNCHANGED Given, UNCHANGED <<start, end, val, torn, unreadable>>
    PROVE  \A children : Tiles(children) =>
              /\ children = nodes' => Tiles(nodes)'
              /\ children = trees'.tree.nodes => Tiles(trees.tree.nodes)'
              /\ children = trees'.dissect.nodes => Tiles(trees.dissect.nodes)'
<1>1. \A children : Tiles(children) => Tiles(children)'
  BY WalkFrame, TilesFrame
<1>2. AsValues'
  BY TiledAsValues, PTL
<1> QED
  BY <1>1, <1>2 DEF AsValues

LEMMA TilingStops ==
    ASSUME TypeOK, ResultsType, NodesTiled, DissectFatal
    PROVE  Tiles(nodes)'
<1>1. /\ Memo /\ AtField /\ pc \in 1 .. N /\ Item(pc).kind # "join" /\ Present(pc)
      /\ FieldError(pc) \in Failures
      /\ nodes \in Seq(Nodes) => nodes' = nodes \o StoppedAt(pc, StartOf(pc))
      /\ UNCHANGED Given /\ UNCHANGED walk
  BY DissectStops
<1>2. nodes \in Seq(Nodes) /\ Tiled(nodes, pc - 1, end)
  BY DEF ResultsType, NodesTiled
<1>3. Tiles(nodes \o StoppedAt(pc, StartOf(pc)))
  BY <1>1, <1>2, TilesStopped
<1>4. PICK children : children = nodes'
  OBVIOUS
<1> QED
  BY <1>1, <1>2, <1>3, <1>4, TilesStay DEF walk

LEMMA TilingStep ==
    TypeOK /\ WalkIsSafe /\ ResultsType /\ Recomputed /\ Tiling /\ [Next]_vars => Tiling'
<1> SUFFICES ASSUME TypeOK, WalkIsSafe, ResultsType, Recomputed, Tiling, [Next]_vars
             PROVE  Tiling'
  OBVIOUS
<1>1. AsValues'
  BY TiledAsValues, PTL
<1>2. end[0] = ZeroLength /\ nodes \in Seq(Nodes) /\ StructLength.byte \in Usize
  BY StructLengthType DEF WalkIsSafe, ResultsType
<1>3. CASE UNCHANGED vars
  <2>1. /\ UNCHANGED Given /\ UNCHANGED <<start, end, val, torn, unreadable>>
        /\ UNCHANGED <<call, pc, nodes, trees, fatal>>
    BY <1>3 DEF vars, walk, Given
  <2>2. NodesTiled => NodesTiled'
    <3>1. PICK children, n, ends : children = nodes /\ n = pc - 1 /\ ends = end
      OBVIOUS
    <3>2. n \in Nat
      BY <3>1, LayoutShape DEF TypeOK
    <3>3. Tiled(children, n, ends) => Tiled(children, n, ends)'
      BY <2>1, <3>2, WalkFrame, TiledFrame
    <3>4. NodesTiled => Tiled(children, n, ends)
      BY <3>1 DEF NodesTiled
    <3> QED
      BY <1>1, <2>1, <3>1, <3>3, <3>4 DEF AsValues
  <2>3. /\ Tiles(nodes) => Tiles(nodes)'
        /\ Tiles(trees.tree.nodes) => Tiles(trees.tree.nodes)'
        /\ Tiles(trees.dissect.nodes) => Tiles(trees.dissect.nodes)'
    BY <2>1, TilesStay
  <2> QED
    BY <2>1, <2>2, <2>3 DEF Tiling
<1>4. call' = "tree" /\ ~UNCHANGED vars => NodesTiled'
  <2>1. CASE TreeJoin \/ TreeAbsent \/ TreePresent
    <3>1. call = "tree"
      BY <2>1 DEF TreeJoin, TreeAbsent, TreePresent
    <3> QED
      BY <2>1, <3>1, TilingInTree DEF Tiling
  <2>2. CASE ParseFinish /\ call' = "tree"
    <3>1. nodes' = <<>> /\ pc' = 1 /\ end' = end
      BY <2>2 DEF ParseFinish, Return, ResultsType
    <3> QED
      BY <1>1, <1>2, <3>1 DEF AsValues
  <2> QED
    BY <2>1, <2>2, IntoTree
<1>5. call' = "handoff" /\ ~UNCHANGED vars => Tiles(trees.tree.nodes)'
  <2>1. CASE TreeFinish
    <3>1. /\ call = "tree" /\ UNCHANGED Given /\ UNCHANGED <<start, end, val, torn, unreadable>>
          /\ trees'.tree.nodes = nodes \o TrailingNodes(Least(StructLength.byte, Size))
      <4>1. trees' = [trees EXCEPT !.tree =
                        Tree(Bits(StructLength),
                             nodes \o TrailingNodes(Least(StructLength.byte, Size)), "ok")]
        BY <2>1 DEF TreeFinish
      <4>2. "tree" \in DOMAIN trees
        BY DEF ResultsType
      <4>3. trees'.tree.nodes = nodes \o TrailingNodes(Least(StructLength.byte, Size))
        BY <4>1, <4>2 DEF Tree
      <4> QED
        BY <2>1, <4>3 DEF TreeFinish, walk, Given
    <3>2. Least(StructLength.byte, Size) \in Usize
      BY <1>2, InputShape DEF TypeOK, Least
    <3>3. Tiles(nodes)
      BY <3>1, TiledAsValues DEF Tiling, AsValues
    <3>4. Tiles(nodes \o TrailingNodes(Least(StructLength.byte, Size)))
      BY <1>2, <3>2, <3>3, TilesTrailing
    <3> QED
      BY <3>1, <3>4, TilesStay
  <2> QED
    BY <2>1, IntoHandoff
<1>6. call' = "dissect" /\ ~UNCHANGED vars =>
         Tiles(nodes)' /\ ((fatal = "none")' => NodesTiled')
  <2>1. CASE Handoff \/ ((ParseReject \/ ParseFinish) /\ call' = "dissect")
    <3>1. nodes' = <<>> /\ pc' = 1 /\ end'[0] = ZeroLength
      <4>1. nodes' = <<>> /\ Restart
        <5>1. CASE (ParseReject \/ ParseFinish) /\ call' = "dissect"
          BY <5>1 DEF ParseReject, ParseFinish, Return, ResultsType
        <5>2. CASE Handoff
          BY <5>2 DEF Handoff
        <5> QED
          BY <2>1, <5>1, <5>2
      <4>2. 0 \in 0 .. N
        BY LayoutShape DEF TypeOK
      <4> QED
        BY <4>1, <4>2 DEF Restart, AtStart
    <3> QED
      BY <1>1, <3>1 DEF AsValues
  <2>2. CASE (Join /\ call = "dissect") \/ DissectAbsent \/ DissectPresent \/ DissectRecover
    <3>1. call = "dissect" /\ fatal = "none"
      BY <2>2 DEF Join, DissectAbsent, DissectPresent, DissectRecover, AtDissect
    <3>2. NodesTiled'
      BY <2>2, <3>1, TilingInDissect DEF Tiling
    <3> QED
      BY <1>1, <3>2 DEF AsValues
  <2>3. CASE DissectFatal
    <3>1. call = "dissect" /\ fatal = "none" /\ fatal' # "none"
      BY <2>3, DissectStops DEF Failures
    <3> QED
      BY <2>3, <3>1, TilingStops DEF Tiling
  <2> QED
    BY <2>1, <2>2, <2>3, IntoDissect
<1>7. call' = "done" /\ ~UNCHANGED vars => Tiles(trees.dissect.nodes)'
  <2>1. CASE DissectFinish
    <3>1. /\ call = "dissect" /\ UNCHANGED Given /\ UNCHANGED <<start, end, val, torn, unreadable>>
          /\ \/ trees'.dissect.nodes = nodes
             \/ trees'.dissect.nodes = nodes \o TrailingNodes(StructLength.byte)
      <4>1. \E to, status : \E children \in {nodes, nodes \o TrailingNodes(StructLength.byte)} :
               trees' = [trees EXCEPT !.dissect = Tree(to, children, status)]
        BY <2>1 DEF DissectFinish
      <4>2. "dissect" \in DOMAIN trees
        BY DEF ResultsType
      <4>3. trees'.dissect.nodes \in {nodes, nodes \o TrailingNodes(StructLength.byte)}
        BY <4>1, <4>2 DEF Tree
      <4> QED
        BY <2>1, <4>3 DEF DissectFinish, walk, Given
    <3>2. Tiles(nodes)
      BY <3>1 DEF Tiling
    <3>3. Tiles(nodes \o TrailingNodes(StructLength.byte))
      BY <1>2, <3>2, TilesTrailing
    <3> QED
      BY <3>1, <3>2, <3>3, TilesStay
  <2> QED
    BY <2>1, IntoDone
<1>8. CASE ~UNCHANGED vars
  BY <1>4, <1>5, <1>6, <1>7, <1>8 DEF Tiling
<1> QED
  BY <1>3, <1>8

\* The nodes of the fields that are there and of their padding tile the input, in
\* the tree of a view and in a dissection, one that stopped at an error included:
\* no two overlap and no bit between two of them is left out, whatever the
\* conditionals, paddings and lengths of the struct.
THEOREM NodesTileTheInput == Spec => []NodesTile
<1>1. Init => Tiling
  BY DEF Init, Tiling
<1>2. Tiling => NodesTile
  BY DEF Tiling, NodesTile
<1> QED
  BY <1>1, <1>2, TilingStep, StructTypeCorrect, WalksAreSafe, ResultsTypeCorrect,
     GettersAnswerTheSame, PTL DEF Spec

-----------------------------------------------------------------------------
(* The running offset of Offsets is computed with the same lengths: it     *)
(* stays canonical and never moves back, and it is exact or out of reach,  *)
(* for every set of element lengths, counts and alignments.                *)

\* Whatever is accumulated keeps the state well typed; the ghost stays a
\* natural number because every contribution is one.
LEMMA AccumulateType ==
    ASSUME OffsetTypeOK, NEW l \in Lengths, NEW bits \in Nat, Accumulate(l, bits)
    PROVE  OffsetTypeOK' /\ ByteCeil(offset) <= ByteCeil(offset')
<1>1. offset \in Lengths /\ exact \in Nat /\ added \in 0 .. MaxFields
  BY DEF OffsetTypeOK
<1>2. offset' \in Lengths /\ ByteCeil(offset) <= ByteCeil(offset')
  BY <1>1, AddLengthGrows DEF Accumulate
<1>3. exact' \in Nat /\ added' \in 0 .. MaxFields
  BY <1>1, OffsetsAssumption DEF Accumulate
<1> QED
  BY <1>2, <1>3 DEF OffsetTypeOK

LEMMA ExactBitsType ==
    ASSUME NEW l \in Lengths
    PROVE  ExactBits(l) \in Nat
BY UsizeMaxAssumption DEF ExactBits, Lengths, Usize

LEMMA ExactPadType ==
    ASSUME NEW bits \in Nat, NEW align \in Nat
    PROVE  ExactPad(bits, align) \in Nat
<1> DEFINE bytes == (bits + 7) \div 8
<1>1. bytes \in Nat
  OBVIOUS
<1> HIDE DEF bytes
<1>2. CASE align > 0
  <2>1. (bytes + align - 1) \div align \in Nat
    BY <1>1, <1>2
  <2>2. align * ((bytes + align - 1) \div align) \in Nat
    BY <2>1
  <2> QED
    BY <1>2, <2>2 DEF ExactPad, bytes
<1>3. CASE ~(align > 0)
  BY <1>1, <1>3 DEF ExactPad, bytes
<1> QED
  BY <1>2, <1>3

\* One step of the accumulation, whatever the field: the state stays well
\* typed and the end offset does not move back.
LEMMA StepKeeps ==
    ASSUME OffsetTypeOK, [OffsetNext]_offsetVars
    PROVE  OffsetTypeOK' /\ ByteCeil(offset) <= ByteCeil(offset')
<1>1. offset \in Lengths /\ exact \in Nat /\ added \in 0 .. MaxFields
  BY DEF OffsetTypeOK
<1>2. CASE Element
  <2>1. PICK l \in ElementLengths : Accumulate(l, ExactBits(l))
    BY <1>2 DEF Element
  <2>2. l \in Lengths /\ ExactBits(l) \in Nat
    BY OffsetsAssumption, ExactBitsType
  <2> QED
    BY <2>1, <2>2, AccumulateType
<1>3. CASE CountedArray
  <2>1. PICK l \in ElementLengths, n \in Counts :
          Accumulate(MulLength(l, n), n * ExactBits(l))
    BY <1>3 DEF CountedArray
  <2>2. l \in Lengths /\ n \in Usize /\ n \in Nat
    BY OffsetsAssumption, UsizeMaxAssumption DEF Usize
  <2>3. MulLength(l, n) \in Lengths
    BY <2>2, MulLengthType
  <2>4. n * ExactBits(l) \in Nat
    <3>1. ExactBits(l) \in Nat
      BY <2>2, ExactBitsType
    <3> QED
      BY <2>2, <3>1
  <2> QED
    BY <2>1, <2>3, <2>4, AccumulateType
<1>4. CASE Pad
  <2>1. PICK align \in Alignments :
          offset' = PadTo(offset, align) /\ exact' = ExactPad(exact, align)
    BY <1>4 DEF Pad
  <2>2. align \in Nat
    BY OffsetsAssumption, UsizeMaxAssumption DEF Usize
  <2>3. offset' \in Lengths /\ ByteCeil(offset) <= ByteCeil(offset')
    BY <1>1, <2>1, <2>2, PadToGrows
  <2>4. exact' \in Nat
    BY <1>1, <2>1, <2>2, ExactPadType
  <2>5. added' \in 0 .. MaxFields
    BY <1>1, <1>4, OffsetsAssumption DEF Pad
  <2> QED
    BY <2>3, <2>4, <2>5 DEF OffsetTypeOK
<1>5. CASE UNCHANGED offsetVars
  <2>1. ByteCeil(offset) \in Int
    BY <1>1, ByteCeilBounds DEF Usize
  <2> QED
    BY <1>1, <1>5, <2>1 DEF offsetVars, OffsetTypeOK
<1> QED
  BY <1>2, <1>3, <1>4, <1>5 DEF OffsetNext

\* Offsets are canonical (bit < 8) in every reachable state.
THEOREM OffsetsTypeCorrect == OffsetSpec => []OffsetTypeOK
<1>1. OffsetInit => OffsetTypeOK
  BY UsizeMaxAssumption, OffsetsAssumption
     DEF OffsetInit, OffsetTypeOK, ZeroLength, Length, Lengths, Usize
<1>2. OffsetTypeOK /\ [OffsetNext]_offsetVars => OffsetTypeOK'
  BY StepKeeps
<1> QED
  BY <1>1, <1>2, PTL DEF OffsetSpec

\* No field ends before the field in front of it.
THEOREM OffsetsNeverBackwards == OffsetSpec => NeverBackwards
<1>1. OffsetTypeOK /\ [OffsetNext]_offsetVars => [ByteCeil(offset') >= ByteCeil(offset)]_offsetVars
  <2> SUFFICES ASSUME OffsetTypeOK, [OffsetNext]_offsetVars
               PROVE  ByteCeil(offset') >= ByteCeil(offset)
    OBVIOUS
  <2>1. OffsetTypeOK' /\ ByteCeil(offset) <= ByteCeil(offset')
    BY StepKeeps
  <2>2. ByteCeil(offset) \in Int /\ ByteCeil(offset') \in Int
    BY <2>1, ByteCeilBounds DEF OffsetTypeOK, Usize
  <2> QED
    BY <2>1, <2>2
<1> QED
  BY <1>1, OffsetsTypeCorrect, PTL DEF OffsetSpec, NeverBackwards

-----------------------------------------------------------------------------
(* An offset is exact, or no memory has room for the fields in front of it. *)

\* l is the length of `bits` bits, or it stuck on the way and the bits are too many.
Near(l, bits) ==
    \/ ExactBits(l) = bits
    \/ bits > UsizeMax /\ l.byte >= UsizeMax \div 8

\* The numbers of a length.
LEMMA LengthNumbers ==
    ASSUME NEW l \in Lengths
    PROVE  /\ l.byte \in Nat /\ l.byte <= UsizeMax /\ l.bit \in 0 .. 7 /\ UsizeMax \in Nat
           /\ ExactBits(l) \in Nat /\ ExactBits(l) = 8 * l.byte + l.bit
           /\ UsizeMax \div 8 \in Nat /\ UsizeMax \div 8 <= UsizeMax
BY UsizeMaxAssumption DEF ExactBits, Lengths, Usize

LEMMA NearAdd ==
    ASSUME NEW a \in Lengths, NEW b \in Lengths, NEW x \in Nat, NEW y \in Nat,
           Near(a, x), Near(b, y)
    PROVE  Near(AddLength(a, b), x + y)
<1> DEFINE s == AddLength(a, b)
<1>1. /\ a.byte \in Nat /\ a.byte <= UsizeMax /\ a.bit \in 0 .. 7
      /\ b.byte \in Nat /\ b.byte <= UsizeMax /\ b.bit \in 0 .. 7 /\ UsizeMax \in Nat
      /\ UsizeMax \div 8 \in Nat /\ UsizeMax \div 8 <= UsizeMax
  BY LengthNumbers
<1>2. s.byte = IF a.bit + b.bit >= 8 THEN Saturate(Saturate(a.byte + b.byte) + 1)
               ELSE Saturate(a.byte + b.byte)
  BY DEF AddLength, Length, SatAdd
<1>3. s.bit = IF a.bit + b.bit >= 8 THEN a.bit + b.bit - 8 ELSE a.bit + b.bit
  <2>1. CASE a.bit + b.bit >= 8
    BY <1>1, <2>1 DEF AddLength, Length
  <2>2. CASE ~(a.bit + b.bit >= 8)
    BY <2>2 DEF AddLength, Length
  <2> QED
    BY <2>1, <2>2
<1>4. a.byte <= s.byte /\ b.byte <= s.byte /\ s.byte \in Nat
  BY <1>1, <1>2 DEF Saturate
<1> HIDE DEF s
<1>5. CASE ExactBits(a) = x /\ ExactBits(b) = y
  <2>1. x = 8 * a.byte + a.bit /\ y = 8 * b.byte + b.bit
    BY <1>5 DEF ExactBits
  <2>2. \/ 8 * s.byte + s.bit = x + y
        \/ s.byte = UsizeMax /\ x + y > UsizeMax
    <3>1. CASE a.bit + b.bit >= 8
      <4>1. s.bit = a.bit + b.bit - 8 /\ s.byte = Saturate(Saturate(a.byte + b.byte) + 1)
        BY <1>2, <1>3, <3>1
      <4> QED
        <5>1. CASE a.byte + b.byte + 1 > UsizeMax
          <6>1. s.byte = UsizeMax
            BY <1>1, <4>1, <5>1 DEF Saturate
          <6>2. x + y >= 8 * (a.byte + b.byte + 1)
            BY <1>1, <2>1, <3>1
          <6> QED
            BY <1>1, <5>1, <6>1, <6>2
        <5>2. CASE ~(a.byte + b.byte + 1 > UsizeMax)
          <6>1. s.byte = a.byte + b.byte + 1
            BY <1>1, <4>1, <5>2 DEF Saturate
          <6> QED
            BY <1>1, <1>4, <2>1, <3>1, <4>1, <6>1
        <5> QED
          BY <5>1, <5>2
    <3>2. CASE ~(a.bit + b.bit >= 8)
      <4>1. s.bit = a.bit + b.bit /\ s.byte = Saturate(a.byte + b.byte)
        BY <1>2, <1>3, <3>2
      <4> QED
        BY <1>1, <2>1, <3>2, <4>1 DEF Saturate
    <3> QED
      BY <3>1, <3>2
  <2> QED
    BY <1>1, <2>2 DEF Near, ExactBits, s
<1>6. CASE (x > UsizeMax /\ a.byte >= UsizeMax \div 8) \/ (y > UsizeMax /\ b.byte >= UsizeMax \div 8)
  <2>1. x + y > UsizeMax /\ s.byte >= UsizeMax \div 8
    BY <1>1, <1>4, <1>6
  <2> QED
    BY <2>1 DEF Near, s
<1> QED
  BY <1>5, <1>6 DEF Near

LEMMA Octets == ASSUME NEW q \in Nat PROVE q = 8 * (q \div 8) + (q % 8)
OBVIOUS

LEMMA NearMul ==
    ASSUME NEW l \in Lengths, NEW n \in Usize
    PROVE  Near(MulLength(l, n), n * ExactBits(l))
<1> DEFINE m == MulLength(l, n)
           p == l.byte * n
           q == l.bit * n
<1>1. /\ l.byte \in Nat /\ l.bit \in Nat /\ n \in Nat /\ UsizeMax \in Nat
      /\ UsizeMax \div 8 \in Nat /\ UsizeMax \div 8 <= UsizeMax
  BY LengthNumbers DEF Usize
<1>2. p \in Nat /\ q \in Nat
  BY <1>1
<1>3. n * ExactBits(l) = 8 * p + q
  BY <1>1, Distribute DEF ExactBits
<1>4. m.byte = Saturate(Saturate(p) + Saturate(q) \div 8) /\ m.bit = Saturate(q) % 8
  BY DEF MulLength, Length, SatMul, SatAdd
<1> HIDE DEF m, p, q
<1>5. CASE q > UsizeMax
  <2>1. Saturate(q) = UsizeMax /\ Saturate(p) \in Nat
    BY <1>1, <1>2, <1>5 DEF Saturate
  <2>2. m.byte >= UsizeMax \div 8
    BY <1>1, <1>4, <2>1 DEF Saturate
  <2>3. 8 * p + q > UsizeMax
    BY <1>1, <1>2, <1>5
  <2> QED
    BY <1>3, <2>2, <2>3 DEF Near, m
<1>6. CASE ~(q > UsizeMax)
  <2>1. Saturate(q) = q /\ q \div 8 \in Nat /\ q = 8 * (q \div 8) + (q % 8)
    <3>1. Saturate(q) = q
      BY <1>6 DEF Saturate
    <3>2. q \div 8 \in Nat
      BY <1>2
    <3>3. q = 8 * (q \div 8) + (q % 8)
      BY <1>2, Octets
    <3> QED
      BY <3>1, <3>2, <3>3
  <2>2. CASE p > UsizeMax
    <3>1. m.byte = UsizeMax /\ 8 * p + q > UsizeMax
      BY <1>1, <1>2, <1>4, <2>1, <2>2 DEF Saturate
    <3> QED
      BY <1>1, <1>3, <3>1 DEF Near, m
  <2>3. CASE ~(p > UsizeMax)
    <3>1. Saturate(p) = p
      BY <2>3 DEF Saturate
    <3>2. CASE p + q \div 8 > UsizeMax
      <4>1. m.byte = UsizeMax /\ 8 * p + q > UsizeMax
        BY <1>1, <1>2, <1>4, <2>1, <3>1, <3>2 DEF Saturate
      <4> QED
        BY <1>1, <1>3, <4>1 DEF Near, m
    <3>3. CASE ~(p + q \div 8 > UsizeMax)
      <4>1. 8 * m.byte + m.bit = 8 * p + q
        BY <1>1, <1>2, <1>4, <2>1, <3>1, <3>3 DEF Saturate
      <4> QED
        BY <1>3, <4>1 DEF Near, ExactBits, m
    <3> QED
      BY <3>2, <3>3
  <2> QED
    BY <2>2, <2>3
<1> QED
  BY <1>5, <1>6

\* Rounding up to a multiple, as a quotient and as a remainder.
LEMMA RoundUp ==
    ASSUME NEW b \in Nat, NEW align \in Nat, align > 0
    PROVE  /\ b % align \in 0 .. align - 1
           /\ align * ((b + align - 1) \div align) = IF b % align = 0 THEN b ELSE b + (align - (b % align))
<1> DEFINE q == b \div align
           r == b % align
<1>1. q \in Nat /\ r \in 0 .. align - 1 /\ b = align * q + r
  OBVIOUS
<1> HIDE DEF q, r
<1>2. align * ((b + align - 1) \div align) = IF r = 0 THEN b ELSE b + (align - r)
  <2>1. CASE r = 0
    <3>1. b + align - 1 = align * q + (align - 1)
      BY <1>1, <2>1
    <3>2. (b + align - 1) \div align = q
      BY <1>1, <3>1
    <3> QED
      BY <1>1, <2>1, <3>2
  <2>2. CASE r # 0
    <3>1. b + align - 1 = align * (q + 1) + (r - 1)
      BY <1>1
    <3>2. (b + align - 1) \div align = q + 1
      BY <1>1, <2>2, <3>1
    <3>3. align * (q + 1) = align * q + align
      BY <1>1
    <3>4. align * ((b + align - 1) \div align) = b + (align - r)
      BY <1>1, <3>2, <3>3
    <3> QED
      BY <2>2, <3>4
  <2> QED
    BY <2>1, <2>2
<1>3. r \in 0 .. align - 1
  BY <1>1
<1> QED
  BY <1>2, <1>3 DEF r

LEMMA NearPad ==
    ASSUME NEW l \in Lengths, NEW x \in Nat, Near(l, x), NEW align \in Nat
    PROVE  Near(PadTo(l, align), ExactPad(x, align))
<1> DEFINE p == PadTo(l, align)
           byte == ByteCeil(l)
           bytes == (x + 7) \div 8
           padded == IF align > 0 THEN align * ((bytes + align - 1) \div align) ELSE bytes
<1>1. /\ l.byte \in Nat /\ l.byte <= UsizeMax /\ l.bit \in 0 .. 7 /\ UsizeMax \in Nat
      /\ UsizeMax \div 8 \in Nat /\ UsizeMax \div 8 <= UsizeMax
  BY LengthNumbers
<1>2. byte \in Nat /\ byte <= UsizeMax /\ l.byte <= byte
  BY ByteCeilBounds, <1>1 DEF Usize
<1>3. bytes \in Nat /\ 8 * bytes >= x
  OBVIOUS
<1>4. p.byte = (IF align > 0 /\ byte % align # 0 THEN Saturate(byte + (align - (byte % align))) ELSE byte)
      /\ p.bit = 0
  <2> DEFINE rem == IF align > 0 THEN byte % align ELSE 0
  <2>1. p = Length(IF rem # 0 THEN SatAdd(byte, align - rem) ELSE byte, 0)
    BY DEF PadTo
  <2>2. align > 0 => rem = byte % align
    OBVIOUS
  <2>3. ~(align > 0) => rem = 0
    OBVIOUS
  <2> HIDE DEF p, rem, byte
  <2>4. p.byte = (IF rem # 0 THEN SatAdd(byte, align - rem) ELSE byte) /\ p.bit = 0
    BY <2>1 DEF Length
  <2> QED
    BY <2>2, <2>3, <2>4 DEF SatAdd
<1>5. ExactPad(x, align) = 8 * padded
  BY DEF ExactPad
<1>6. byte = Saturate(l.byte + (IF l.bit > 0 THEN 1 ELSE 0))
  BY DEF ByteCeil, SatAdd
<1> HIDE DEF p, byte, bytes
<1>7. align > 0 => byte % align \in 0 .. align - 1 /\ (bytes % align) \in 0 .. align - 1
  BY <1>2, <1>3, RoundUp
<1>8. padded = (IF align > 0 /\ bytes % align # 0 THEN bytes + (align - (bytes % align)) ELSE bytes)
  BY <1>3, RoundUp
<1> HIDE DEF padded
<1>9. padded \in Nat /\ padded >= bytes
  BY <1>3, <1>7, <1>8
<1>10. p.byte \in Nat /\ p.byte >= byte
  BY <1>1, <1>2, <1>4, <1>7 DEF Saturate
<1>11. CASE x > UsizeMax /\ l.byte >= UsizeMax \div 8
  <2>1. 8 * padded > UsizeMax /\ p.byte >= UsizeMax \div 8
    BY <1>1, <1>2, <1>3, <1>9, <1>10, <1>11
  <2> QED
    BY <1>5, <2>1 DEF Near, p
<1>12. CASE ExactBits(l) = x
  <2>1. bytes = l.byte + (IF l.bit > 0 THEN 1 ELSE 0)
    BY <1>1, <1>12 DEF bytes, ExactBits
  <2>2. CASE bytes > UsizeMax
    <3>1. byte = UsizeMax /\ 8 * padded > UsizeMax
      BY <1>1, <1>3, <1>6, <1>9, <2>1, <2>2 DEF Saturate
    <3> QED
      BY <1>1, <1>5, <1>10, <3>1 DEF Near, p
  <2>3. CASE ~(bytes > UsizeMax)
    <3>1. byte = bytes
      BY <1>6, <2>1, <2>3 DEF Saturate
    <3>2. CASE padded > UsizeMax
      <4>1. p.byte = UsizeMax /\ 8 * padded > UsizeMax
        BY <1>1, <1>4, <1>8, <1>9, <2>3, <3>1, <3>2 DEF Saturate
      <4> QED
        BY <1>1, <1>5, <4>1 DEF Near, p
    <3>3. CASE ~(padded > UsizeMax)
      <4>1. p.byte = padded
        BY <1>4, <1>8, <3>1, <3>3 DEF Saturate
      <4> QED
        BY <1>4, <1>5, <1>9, <4>1 DEF Near, ExactBits, p
    <3> QED
      BY <3>2, <3>3
  <2> QED
    BY <2>2, <2>3
<1> QED
  BY <1>11, <1>12 DEF Near

LEMMA ExactStep == OffsetTypeOK /\ ExactOrHuge /\ [OffsetNext]_offsetVars => ExactOrHuge'
<1> SUFFICES ASSUME OffsetTypeOK, ExactOrHuge, [OffsetNext]_offsetVars PROVE Near(offset', exact')
  BY DEF ExactOrHuge, Near, ExactBits
<1>1. offset \in Lengths /\ exact \in Nat /\ Near(offset, exact)
  BY DEF OffsetTypeOK, ExactOrHuge, Near
<1>2. CASE Element
  <2>1. PICK l \in ElementLengths : Accumulate(l, ExactBits(l))
    BY <1>2 DEF Element
  <2>2. l \in Lengths /\ ExactBits(l) \in Nat /\ Near(l, ExactBits(l))
    BY OffsetsAssumption, ExactBitsType DEF Near
  <2> QED
    BY <1>1, <2>1, <2>2, NearAdd DEF Accumulate
<1>3. CASE CountedArray
  <2>1. PICK l \in ElementLengths, n \in Counts : Accumulate(MulLength(l, n), n * ExactBits(l))
    BY <1>3 DEF CountedArray
  <2>2. l \in Lengths /\ n \in Usize /\ n \in Nat /\ ExactBits(l) \in Nat
    BY OffsetsAssumption, UsizeMaxAssumption, ExactBitsType DEF Usize
  <2>3. n * ExactBits(l) \in Nat
    BY <2>2
  <2>4. MulLength(l, n) \in Lengths /\ Near(MulLength(l, n), n * ExactBits(l))
    BY <2>2, MulLengthType, NearMul
  <2> QED
    BY <1>1, <2>1, <2>3, <2>4, NearAdd DEF Accumulate
<1>4. CASE Pad
  <2>1. PICK align \in Alignments :
          offset' = PadTo(offset, align) /\ exact' = ExactPad(exact, align)
    BY <1>4 DEF Pad
  <2>2. align \in Nat
    BY OffsetsAssumption, UsizeMaxAssumption DEF Usize
  <2> QED
    BY <1>1, <2>1, <2>2, NearPad
<1>5. CASE UNCHANGED offsetVars
  BY <1>1, <1>5 DEF offsetVars
<1> QED
  BY <1>2, <1>3, <1>4, <1>5 DEF OffsetNext

\* The offset is the exact one, through every carry, array and padding, until it
\* saturates, and then the fields need more bits than usize can count.
THEOREM OffsetsExactOrHuge == OffsetSpec => []ExactOrHuge
<1>1. OffsetInit => ExactOrHuge
  BY DEF OffsetInit, ExactOrHuge, ExactBits, ZeroLength, Length
<1> QED
  BY <1>1, ExactStep, OffsetsTypeCorrect, PTL DEF OffsetSpec

=============================================================================
