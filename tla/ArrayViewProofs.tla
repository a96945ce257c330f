--------------------------- MODULE ArrayViewProofs ---------------------------
(***************************************************************************)
(* Proofs about ArrayView: no iterator over an array that parse accepted   *)
(* reads past its window, the elements and the nodes follow one another,   *)
(* and every loop over an iterator comes to its end for a reason.          *)
(***************************************************************************)
EXTENDS ArrayView, Integers, WellFoundedInduction, SequenceTheorems, FiniteSetTheorems, TLAPS

\* Induction over the natural numbers, from the well-foundedness of <.
LEMMA LeastOf ==
    ASSUME NEW T, T \subseteq Nat, T # {}
    PROVE  \E x \in T : \A y \in T : x <= y
<1>1. \E x \in T : \A y \in T : ~ (<<y, x>> \in OpToRel(<, Nat))
  BY WFMin, NatLessThanWellFounded, Zenon
<1>2. ASSUME NEW x \in T, NEW y \in T, ~ (<<y, x>> \in OpToRel(<, Nat)) PROVE x <= y
  BY <1>2 DEF OpToRel
<1> QED
  BY <1>1, <1>2

LEMMA Induct ==
    ASSUME NEW P \in SUBSET Nat, 0 \in P, \A n \in P : n + 1 \in P
    PROVE  P = Nat
<1> SUFFICES ASSUME P # Nat PROVE FALSE
  OBVIOUS
<1>1. Nat \ P # {} /\ Nat \ P \subseteq Nat
  OBVIOUS
<1>2. PICK n \in Nat \ P : \A m \in Nat \ P : n <= m
  BY <1>1, LeastOf
<1>3. n - 1 \in Nat /\ ~(n <= n - 1)
  BY <1>2
<1> QED
  BY <1>2, <1>3

Typed == layout \in Layouts /\ data \in Inputs

LEMMA Shape ==
    ASSUME Typed
    PROVE  /\ Size \in Nat /\ \A i \in Nat : i < Size => Byte(i) \in 0 .. 255
           /\ layout.elem \in Elems /\ layout.mode \in {"counted", "until", "greedy"}
           /\ layout.windowed \in BOOLEAN
           /\ layout.mode = "until" => layout.elem = "byte"
           /\ layout.elem = "bits" => layout.mode = "counted"
           /\ IsEntry => layout.mode = "greedy" /\ Cap \in Nat
           /\ layout.windowed => layout.mode # "counted"
<1>1. data \in Seq(0 .. 255)
  BY InputsAssumption DEF Typed
<1>2. Size \in Nat /\ \A i \in Nat : i < Size => Byte(i) \in 0 .. 255
  <2>1. Len(data) \in Nat /\ \A j \in 1 .. Len(data) : data[j] \in 0 .. 255
    <3>1. \A S, q : q \in Seq(S) => Len(q) \in Nat /\ \A j \in 1 .. Len(q) : q[j] \in S
      OBVIOUS
    <3> QED
      BY <1>1, <3>1
  <2>2. \A i \in Nat : i < Len(data) => i + 1 \in 1 .. Len(data)
    BY <2>1
  <2> QED
    BY <2>1, <2>2 DEF Size, Byte
<1>3. layout.elem = "entry" => Cap \in Nat
  <2>1. layout.cap \in SUBSET Nat /\ (layout.elem = "entry" => layout.cap # {})
    BY LayoutsAssumption DEF Typed
  <2> QED
    BY <2>1 DEF Cap
<1> QED
  BY <1>2, <1>3, LayoutsAssumption DEF Typed, IsEntry

\* The window ends inside the input.
LEMMA Window ==
    ASSUME Typed, Size >= 1
    PROVE  /\ WindowEnd \in Nat /\ 1 <= WindowEnd /\ WindowEnd <= Size /\ Room = WindowEnd - 1
           /\ Room \in Nat /\ Byte(0) \in 0 .. 255
<1>1. Size \in Nat /\ Byte(0) \in 0 .. 255 /\ layout.windowed \in BOOLEAN
  BY Shape
<1> QED
  BY <1>1 DEF WindowEnd, Least, Room, Minus, ItemsStart

LEMMA Sizes ==
    ASSUME Typed, ~IsEntry
    PROVE  /\ layout.elem \in {"byte", "pair", "record"} =>
                 ElemSize \in {1, 2} /\ ElemBits = 8 * ElemSize
           /\ layout.elem = "bits" => ElemBits = 3
           /\ layout.elem \in {"byte", "pair", "record", "bits"}
           /\ layout.elem = "byte" => ElemSize = 1
           /\ layout.elem = "pair" => ElemSize = 2
           /\ layout.elem = "record" => ElemSize = 2
<1>1. layout.elem \in {"byte", "pair", "record", "bits"}
  BY Shape DEF IsEntry, Elems
<1>2. 8 \div 8 = 1 /\ 16 \div 8 = 2
  OBVIOUS
<1> QED
  BY <1>1, <1>2 DEF ElemSize, ElemBits

\* What parse accepted holds Count elements, in the window and in the field.
LEMMA SentinelIsOne ==
    ASSUME Typed, Size >= 1, Sentinels # {}
    PROVE  Sentinel \in Nat /\ 1 <= Sentinel /\ Sentinel <= WindowEnd - 1
<1>1. WindowEnd \in Nat
  BY Window
<1>2. Sentinels \subseteq Nat /\ \A i \in Sentinels : 1 <= i /\ i <= WindowEnd - 1
  BY <1>1 DEF Sentinels, ItemsStart
<1>3. \E i \in Sentinels : \A j \in Sentinels : i <= j
  BY <1>2, LeastOf
<1>4. Sentinel \in Sentinels
  BY <1>3 DEF Sentinel
<1> QED
  BY <1>2, <1>4

LEMMA WindowedEnd ==
    ASSUME Typed, Accepts, layout.windowed
    PROVE  FieldEnd = 8 * WindowEnd
<1>1. Size \in Nat /\ Byte(0) \in 0 .. 255 /\ Size >= 1
  BY Shape, Window DEF Accepts
<1>2. FieldEnd = 8 + 8 * Byte(0) /\ (FieldEnd + 7) \div 8 <= Size
  BY DEF FieldEnd, FieldLength, ItemsStart, Accepts, Ceil
<1>3. 1 + Byte(0) <= Size
  BY <1>1, <1>2
<1>4. WindowEnd = 1 + Byte(0)
  BY <1>1, <1>3 DEF WindowEnd, Least, ItemsStart
<1> QED
  BY <1>1, <1>2, <1>4

LEMMA GreedyFits ==
    ASSUME Typed, Accepts, ~IsEntry, layout.mode = "greedy"
    PROVE  /\ Count \in Nat /\ 1 + ElemSize * Count <= WindowEnd
           /\ 8 * (1 + ElemSize * Count) <= FieldEnd /\ FieldEnd \in Nat
<1>1. /\ WindowEnd \in Nat /\ Room \in Nat /\ Room = WindowEnd - 1
      /\ Byte(0) \in 0 .. 255
  BY Window DEF Accepts
<1>2. layout.elem \in {"byte", "pair", "record"} /\ ElemSize \in {1, 2}
  BY Sizes, Shape
<1>3. Count = Room \div ElemSize
  BY DEF Count
<1>4. Count \in Nat /\ ElemSize * Count <= Room
  <2>1. CASE ElemSize = 1
    BY <1>1, <1>3, <2>1
  <2>2. CASE ElemSize = 2
    BY <1>1, <1>3, <2>2
  <2> QED
    BY <1>2, <2>1, <2>2
<1>5. CASE layout.windowed
  <2>1. FieldEnd = 8 * WindowEnd
    BY <1>5, WindowedEnd
  <2> QED
    BY <1>1, <1>2, <1>4, <2>1
<1>6. CASE ~layout.windowed
  <2>1. FieldEnd = 8 + 8 * (((Room + ElemSize - 1) \div ElemSize) * ElemSize)
    BY <1>6 DEF FieldEnd, FieldLength, ElementsLength, ItemsStart
  <2>2. CASE ElemSize = 1
    BY <1>1, <1>3, <1>4, <2>1, <2>2
  <2>3. CASE ElemSize = 2
    BY <1>1, <1>3, <1>4, <2>1, <2>3
  <2> QED
    BY <1>2, <2>2, <2>3
<1> QED
  BY <1>5, <1>6, Shape

LEMMA UntilFits ==
    ASSUME Typed, Accepts, layout.mode = "until"
    PROVE  /\ Count \in Nat /\ 1 + Count <= WindowEnd
           /\ 8 * (1 + Count) <= FieldEnd /\ FieldEnd \in Nat
<1>1. /\ WindowEnd \in Nat /\ 1 <= WindowEnd /\ Size >= 1
  BY Window DEF Accepts
<1>2. Count = IF Sentinels = {} THEN 0 ELSE Sentinel - 1
  BY DEF Count, ItemsStart
<1>3. Sentinels # {} => Sentinel \in Nat /\ 1 <= Sentinel /\ Sentinel <= WindowEnd - 1
  BY <1>1, SentinelIsOne
<1>4. Count \in Nat /\ 1 + Count <= WindowEnd
  BY <1>1, <1>2, <1>3
<1>5. CASE layout.windowed
  <2>1. FieldEnd = 8 * WindowEnd
    BY <1>5, WindowedEnd
  <2> QED
    BY <1>1, <1>4, <2>1
<1>6. CASE ~layout.windowed
  <2>1. FieldEnd = 8 + 8 * (IF Sentinels = {} THEN Minus(WindowEnd + 1, 1) ELSE Sentinel + 1 - 1)
    BY <1>6 DEF FieldEnd, FieldLength, ElementsLength, ItemsStart
  <2>2. Minus(WindowEnd + 1, 1) = WindowEnd
    BY <1>1 DEF Minus
  <2>3. CASE Sentinels = {}
    BY <1>1, <1>2, <2>1, <2>2, <2>3
  <2>4. CASE Sentinels # {}
    BY <1>2, <1>3, <1>4, <2>1, <2>4
  <2> QED
    BY <2>3, <2>4
<1> QED
  BY <1>5, <1>6, Shape

LEMMA CountedFits ==
    ASSUME Typed, Accepts, layout.mode = "counted"
    PROVE  /\ Count \in Nat /\ FieldEnd = 8 + ElemBits * Count /\ FieldEnd \in Nat
           /\ WindowEnd = Size
           /\ layout.elem # "bits" => 1 + ElemSize * Count <= WindowEnd
           /\ layout.elem = "bits" => 1 + Ceil(3 * Count) <= WindowEnd
<1>1. Size \in Nat /\ ~layout.windowed /\ ~IsEntry
  BY Shape
<1>2. Byte(0) \in 0 .. 255 /\ Count = Byte(0) /\ WindowEnd = Size
  BY <1>1, Window DEF Accepts, Count, WindowEnd
<1>3. FieldEnd = 8 + ElemBits * Count /\ (FieldEnd + 7) \div 8 <= Size
  BY <1>1, <1>2 DEF FieldEnd, FieldLength, ElementsLength, ItemsStart, Accepts, Ceil
<1>4. CASE layout.elem = "bits"
  <2>1. ElemBits = 3
    BY <1>1, <1>4, Sizes
  <2>2. \A q \in Nat : (8 + q) \div 8 = 1 + (q \div 8)
    OBVIOUS
  <2>3. 3 * Count + 7 \in Nat /\ FieldEnd + 7 = 8 + (3 * Count + 7)
    BY <1>2, <1>3, <2>1
  <2>4. 1 + ((3 * Count + 7) \div 8) <= Size
    BY <1>3, <2>2, <2>3
  <2> QED
    BY <1>1, <1>2, <1>3, <1>4, <2>1, <2>4 DEF Ceil
<1>5. CASE layout.elem # "bits"
  <2>1. ElemSize \in {1, 2} /\ ElemBits = 8 * ElemSize
    BY <1>1, <1>5, Sizes
  <2>2. CASE ElemSize = 1
    BY <1>1, <1>2, <1>3, <1>5, <2>1, <2>2
  <2>3. CASE ElemSize = 2
    BY <1>1, <1>2, <1>3, <1>5, <2>1, <2>3
  <2> QED
    BY <2>1, <2>2, <2>3
<1> QED
  BY <1>4, <1>5

LEMMA EntriesFit ==
    ASSUME Typed, Accepts, IsEntry
    PROVE  FieldEnd = 8 * WindowEnd
<1>1. WindowEnd \in Nat /\ Room = WindowEnd - 1 /\ layout.mode = "greedy"
  BY Window, Shape DEF Accepts
<1>2. CASE layout.windowed
  BY <1>2, WindowedEnd
<1>3. CASE ~layout.windowed
  BY <1>1, <1>3 DEF FieldEnd, FieldLength, ElementsLength, ItemsStart
<1> QED
  BY <1>2, <1>3, Shape

-----------------------------------------------------------------------------
(* One call of next.                                                       *)

Iters  == [idx : Nat, count : Nat, from : Nat, to : Nat, bit : Nat]
Yields == [kind : Kinds \cup {"none"}, from : Nat, to : Nat]

\* Where the next element starts, in bits.
Pos(it) == 8 * it.from + it.bit

\* What an iterator is after any number of calls.
Going(it) ==
    /\ it \in Iters /\ it.count = Opened.count /\ it.to = WindowEnd /\ it.idx <= it.count
    /\ 1 <= it.from /\ it.from <= it.to
    /\ layout.elem \in {"byte", "pair"} => it.from = 1 + ElemSize * it.idx
    /\ layout.elem = "record" => it.from <= 1 + 2 * it.idx
    /\ layout.elem = "bits" => it.from = 1 /\ it.bit = 3 * it.idx
    /\ layout.elem # "bits" => it.bit = 0
    /\ Pos(it) <= FieldEnd

\* It yields no further element, or nothing at all.
Broken(it) ==
    IF IsEntry THEN it.from = it.to
    ELSE layout.elem = "record" /\ ParseElement(it.from, it.to).kind # "item"

Exhausted(it) == IF IsEntry THEN it.from = it.to ELSE it.idx = it.count

\* s is a right answer of next to it.
TurnsWell(it, s) ==
    /\ Going(s.iter) /\ s.yields \in Yields
    /\ s.yields.kind = "none" => s.iter = it /\ Exhausted(it)
    /\ s.yields.kind # "none" => ~Exhausted(it)
    /\ s.yields.kind = "item" =>
          /\ ~Broken(it) /\ s.iter.idx = it.idx + 1
          /\ s.yields.from = Pos(it) /\ s.yields.to = Pos(s.iter) /\ Pos(it) <= Pos(s.iter)
    /\ s.yields.kind \notin {"item", "none"} =>
          /\ s.yields.from = s.yields.to /\ Broken(s.iter)
          /\ s.iter.idx = it.idx + 1 \/ (IsEntry /\ s.iter.idx = it.idx)

LEMMA OpenedGoing ==
    ASSUME Typed, Accepts
    PROVE  Going(Opened) /\ Pos(Opened) = 8 /\ Opened # NoIterator
<1>1. WindowEnd \in Nat /\ 1 <= WindowEnd
  BY Window DEF Accepts
<1>2. Opened.count \in Nat
  BY Shape, GreedyFits, UntilFits, CountedFits DEF Opened
<1>3. Opened \in Iters /\ Opened.idx = 0 /\ Opened.from = 1 /\ Opened.to = WindowEnd /\ Opened.bit = 0
  BY <1>1, <1>2 DEF Opened, Iters, ItemsStart
<1>4. 8 <= FieldEnd
  <2>1. CASE IsEntry
    BY <1>1, <2>1, EntriesFit
  <2>2. CASE ~IsEntry
    <3>1. layout.mode = "counted" => 8 <= FieldEnd
      <4> SUFFICES ASSUME layout.mode = "counted" PROVE 8 <= FieldEnd
        OBVIOUS
      <4>1. ElemBits \in {8, 16, 3} /\ Count \in Nat /\ FieldEnd = 8 + ElemBits * Count
        BY <2>2, Sizes, CountedFits
      <4>2. ElemBits * Count \in Nat
        BY <4>1
      <4> QED
        BY <4>1, <4>2
    <3>2. layout.mode = "until" => 8 <= FieldEnd
      BY UntilFits
    <3>3. layout.mode = "greedy" => 8 <= FieldEnd
      <4> SUFFICES ASSUME layout.mode = "greedy" PROVE 8 <= FieldEnd
        OBVIOUS
      <4>1. /\ ElemSize \in {1, 2} /\ Count \in Nat /\ FieldEnd \in Nat
            /\ 8 * (1 + ElemSize * Count) <= FieldEnd
        BY <2>2, Sizes, Shape, GreedyFits
      <4>2. ElemSize * Count \in Nat
        BY <4>1
      <4> QED
        BY <4>1, <4>2
    <3> QED
      BY <3>1, <3>2, <3>3, Shape
  <2> QED
    BY <2>1, <2>2
<1>5. Pos(Opened) = 8
  BY <1>3 DEF Pos
<1>6. ElemSize * 0 = 0 \/ layout.elem \notin {"byte", "pair"}
  BY Sizes, Shape DEF IsEntry
<1>7. NoIterator.from = 0
  BY DEF NoIterator
<1>8. Opened # NoIterator
  BY <1>3, <1>7
<1> QED
  BY <1>1, <1>2, <1>3, <1>4, <1>5, <1>6, <1>8 DEF Going

\* All elements of the counted kinds fit.
LEMMA AllFit ==
    ASSUME Typed, Accepts, ~IsEntry
    PROVE  /\ Count \in Nat /\ Opened.count = Count /\ FieldEnd \in Nat
           /\ layout.elem # "bits" =>
                 1 + ElemSize * Count <= WindowEnd /\ 8 * (1 + ElemSize * Count) <= FieldEnd
           /\ layout.elem = "bits" =>
                 1 + Ceil(3 * Count) <= WindowEnd /\ 8 + 3 * Count <= FieldEnd
<1>1. Opened.count = Count
  BY DEF Opened
<1>2. CASE layout.mode = "greedy"
  BY <1>1, <1>2, GreedyFits, Shape
<1>3. CASE layout.mode = "until"
  <2>1. ElemSize = 1 /\ layout.elem = "byte"
    BY <1>3, Sizes, Shape
  <2>2. /\ Count \in Nat /\ 1 + Count <= WindowEnd
        /\ 8 * (1 + Count) <= FieldEnd /\ FieldEnd \in Nat
    BY <1>3, UntilFits
  <2>3. ElemSize * Count = Count
    BY <2>1, <2>2
  <2> QED
    BY <1>1, <2>1, <2>2, <2>3
<1>4. CASE layout.mode = "counted"
  <2>1. /\ Count \in Nat /\ FieldEnd = 8 + ElemBits * Count /\ FieldEnd \in Nat
        /\ layout.elem # "bits" => 1 + ElemSize * Count <= WindowEnd
        /\ layout.elem = "bits" => 1 + Ceil(3 * Count) <= WindowEnd
    BY <1>4, CountedFits
  <2>2. CASE layout.elem = "bits"
    BY <1>1, <2>1, <2>2, Sizes
  <2>3. CASE layout.elem # "bits"
    <3>1. ElemSize \in {1, 2} /\ ElemBits = 8 * ElemSize
      BY <2>3, Sizes
    <3>2. 8 + ElemBits * Count = 8 * (1 + ElemSize * Count)
      BY <2>1, <3>1
    <3> QED
      BY <1>1, <2>1, <2>3, <3>2
  <2> QED
    BY <2>2, <2>3
<1> QED
  BY <1>2, <1>3, <1>4, Shape

LEMMA TurnBytes ==
    ASSUME Typed, Accepts, layout.elem \in {"byte", "pair"}, NEW it, Going(it), it.idx # it.count
    PROVE  TurnsWell(it, NextBytes(it))
<1>1. /\ it \in Iters /\ it.count = Count /\ it.idx < Count /\ it.to = WindowEnd
      /\ it.from = 1 + ElemSize * it.idx /\ it.bit = 0 /\ ~IsEntry /\ layout.elem # "bits"
      /\ layout.elem # "record"
  BY AllFit DEF Going, Iters, IsEntry
<1>2. ElemSize \in {1, 2} /\ Count \in Nat /\ it.idx \in Nat /\ FieldEnd \in Nat /\ WindowEnd \in Nat
      /\ it.from \in Nat /\ it.to \in Nat /\ it.count \in Nat
      /\ 1 + ElemSize * Count <= WindowEnd /\ 8 * (1 + ElemSize * Count) <= FieldEnd
  BY <1>1, AllFit, Sizes, Window DEF Accepts, Iters
<1>3. /\ ElemSize * (it.idx + 1) = ElemSize * it.idx + ElemSize
      /\ ElemSize * it.idx + ElemSize <= ElemSize * Count
      /\ ElemSize * it.idx \in Nat /\ ElemSize * Count \in Nat
  BY <1>1, <1>2
<1> DEFINE after == [it EXCEPT !.idx = @ + 1, !.from = @ + ElemSize]
           y == Yield("item", 8 * it.from, 8 * (it.from + ElemSize))
<1>4. NextBytes(it) = Step(after, y)
  BY <1>1, <1>2, <1>3 DEF NextBytes
<1>5. /\ after \in Iters /\ after.idx = it.idx + 1 /\ after.count = it.count /\ after.to = it.to
      /\ after.from = it.from + ElemSize /\ after.bit = 0
  <2>1. ElemSize \in Nat
    BY <1>2
  <2>2. it.idx + 1 \in Nat /\ it.from + ElemSize \in Nat
    BY <1>2, <2>1
  <2> QED
    BY <1>1, <1>2, <2>2 DEF Iters
<1>6. y \in Yields /\ y.kind = "item" /\ y.from = 8 * it.from /\ y.to = 8 * (it.from + ElemSize)
  BY <1>2 DEF Yield, Yields, Kinds
<1> HIDE DEF after, y
<1>7. Pos(it) = 8 * it.from /\ Pos(after) = 8 * (it.from + ElemSize)
  BY <1>1, <1>2, <1>5 DEF Pos
<1>8. Going(after)
  <2>1. Opened.count = it.count
    BY DEF Going
  <2> QED
    BY <1>1, <1>2, <1>3, <1>5, <1>7, <2>1 DEF Going
<1>9. ~Broken(it) /\ ~Exhausted(it)
  BY <1>1, <1>2 DEF Broken, Exhausted
<1> QED
  BY <1>2, <1>4, <1>5, <1>6, <1>7, <1>8, <1>9 DEF TurnsWell, Step

LEMMA TurnBits ==
    ASSUME Typed, Accepts, layout.elem = "bits", NEW it, Going(it), it.idx # it.count
    PROVE  TurnsWell(it, NextBits(it))
<1>1. /\ it \in Iters /\ it.count = Count /\ it.idx < Count /\ it.to = WindowEnd
      /\ it.from = 1 /\ it.bit = 3 * it.idx /\ ~IsEntry /\ ElemBits = 3
  BY AllFit, Sizes DEF Going, Iters, IsEntry
<1>2. Count \in Nat /\ it.idx \in Nat /\ FieldEnd \in Nat /\ WindowEnd \in Nat
      /\ it.to \in Nat /\ it.count \in Nat
      /\ 1 + Ceil(3 * Count) <= WindowEnd /\ 8 + 3 * Count <= FieldEnd
  BY <1>1, AllFit, Window DEF Accepts, Iters
<1>3. Ceil(it.bit + 3) \in Nat /\ Ceil(it.bit + 3) <= Ceil(3 * Count)
  <2>1. it.bit + 3 \in Nat /\ 3 * Count \in Nat /\ it.bit + 3 <= 3 * Count
    BY <1>1, <1>2
  <2>2. \A p, q \in Nat : p <= q => (p + 7) \div 8 <= (q + 7) \div 8 /\ (p + 7) \div 8 \in Nat
    OBVIOUS
  <2> QED
    BY <2>1, <2>2 DEF Ceil
<1> DEFINE after == [it EXCEPT !.idx = @ + 1, !.bit = @ + ElemBits]
           y == Yield("item", 8 * it.from + it.bit, 8 * it.from + it.bit + ElemBits)
<1>4. NextBits(it) = Step(after, y)
  <2>1. Ceil(3 * Count) \in Nat
    BY <1>2 DEF Ceil
  <2>2. ~(it.from + Ceil(it.bit + ElemBits) > it.to)
    BY <1>1, <1>2, <1>3, <2>1
  <2> QED
    BY <2>2 DEF NextBits
<1>5. /\ after \in Iters /\ after.idx = it.idx + 1 /\ after.count = it.count /\ after.to = it.to
      /\ after.from = 1 /\ after.bit = it.bit + 3
  <2>1. it.idx + 1 \in Nat /\ it.bit + ElemBits \in Nat /\ ElemBits = 3
    BY <1>1, <1>2
  <2> QED
    BY <1>1, <1>2, <2>1 DEF Iters
<1>6. y \in Yields /\ y.kind = "item" /\ y.from = 8 + it.bit /\ y.to = 8 + it.bit + 3
  BY <1>1, <1>2 DEF Yield, Yields, Kinds
<1> HIDE DEF after, y
<1>7. Pos(it) = 8 + it.bit /\ Pos(after) = 8 + it.bit + 3
  BY <1>1, <1>2, <1>5 DEF Pos
<1>8. Going(after)
  <2>1. Opened.count = it.count /\ 1 <= it.to
    BY <1>1 DEF Going
  <2> QED
    BY <1>1, <1>2, <1>5, <1>7, <2>1 DEF Going
<1>9. ~Broken(it) /\ ~Exhausted(it)
  BY <1>1, <1>2 DEF Broken, Exhausted
<1> QED
  BY <1>1, <1>2, <1>4, <1>5, <1>6, <1>7, <1>8, <1>9 DEF TurnsWell, Step

\* A record or an entry that does not parse has no bytes.
LEMMA RecordShape ==
    ASSUME Typed, layout.elem = "record", NEW from \in Nat, NEW to \in Nat, to <= Size
    PROVE  /\ ParseElement(from, to) \in Yields /\ ParseElement(from, to).kind # "none"
           /\ ParseElement(from, to).kind # "item" =>
                 ParseElement(from, to).from = ParseElement(from, to).to
           /\ ParseElement(from, to).kind = "item" =>
                 /\ from + 2 <= to /\ ParseElement(from, to).from = 8 * from
                 /\ ParseElement(from, to).to = 8 * (from + 2)
<1>1. Size \in Nat
  BY Shape
<1>2. CASE from + 2 > to
  BY <1>2 DEF ParseElement, Yield, Yields, Kinds
<1>3. CASE ~(from + 2 > to)
  <2>1. Byte(from) \in Nat /\ RecordLimit \in Nat
    <3>1. from < Size
      BY <1>1, <1>3
    <3> QED
      BY <3>1, Shape DEF RecordLimit
  <2>2. 8 * from \in Nat /\ 8 * (from + 2) \in Nat /\ from + 2 <= to
    BY <1>3
  <2>3. CASE Byte(from) > RecordLimit
    BY <1>3, <2>2, <2>3 DEF ParseElement, Yield, Yields, Kinds
  <2>4. CASE ~(Byte(from) > RecordLimit)
    BY <1>3, <2>2, <2>4 DEF ParseElement, Yield, Yields, Kinds
  <2> QED
    BY <2>3, <2>4
<1> QED
  BY <1>2, <1>3

LEMMA EntryShape ==
    ASSUME Typed, IsEntry, NEW from \in Nat, NEW to \in Nat, from < to, to <= Size
    PROVE  /\ ParseElement(from, to) \in Yields /\ ParseElement(from, to).kind # "none"
           /\ ParseElement(from, to).kind # "item" =>
                 ParseElement(from, to).from = ParseElement(from, to).to
           /\ ParseElement(from, to).kind = "item" =>
                 \E n \in Nat : /\ from + n <= to /\ ParseElement(from, to).from = 8 * from
                                /\ ParseElement(from, to).to = 8 * (from + n)
<1>1. Size \in Nat /\ layout.elem = "entry"
  BY Shape DEF IsEntry
<1>2. Byte(from) \in Nat
  <2>1. from < Size
    BY <1>1
  <2> QED
    BY <2>1, Shape
<1>3. 8 * from \in Nat /\ 8 * (from + Byte(from)) \in Nat
  BY <1>2
<1>4. CASE from + Byte(from) > to
  BY <1>1, <1>3, <1>4 DEF ParseElement, Yield, Yields, Kinds
<1>5. CASE ~(from + Byte(from) > to)
  <2>1. ParseElement(from, to) = Yield("item", 8 * from, 8 * (from + Byte(from)))
    BY <1>1, <1>5 DEF ParseElement
  <2>2. from + Byte(from) <= to
    BY <1>2, <1>5
  <2> QED
    BY <1>2, <1>3, <2>1, <2>2 DEF Yield, Yields, Kinds
<1> QED
  BY <1>4, <1>5

LEMMA TurnRecord ==
    ASSUME Typed, Accepts, layout.elem = "record", NEW it, Going(it), it.idx # it.count
    PROVE  TurnsWell(it, NextRecord(it))
<1> DEFINE y == ParseElement(it.from, it.to)
           after == [it EXCEPT !.idx = @ + 1, !.from = IF y.kind = "item" THEN @ + 2 ELSE @]
<1>1. /\ it \in Iters /\ it.count = Count /\ it.idx < Count /\ it.to = WindowEnd
      /\ 1 <= it.from /\ it.from <= it.to /\ it.from <= 1 + 2 * it.idx /\ it.bit = 0
      /\ ~IsEntry /\ Pos(it) <= FieldEnd /\ Opened.count = it.count
  BY AllFit DEF Going, Iters, IsEntry
<1>2. /\ Count \in Nat /\ it.idx \in Nat /\ FieldEnd \in Nat /\ WindowEnd \in Nat /\ ElemSize = 2
      /\ it.from \in Nat /\ it.to \in Nat /\ it.count \in Nat
      /\ 1 + 2 * Count <= WindowEnd /\ 8 * (1 + 2 * Count) <= FieldEnd /\ WindowEnd <= Size
  BY <1>1, AllFit, Sizes, Window DEF Accepts, Iters
<1>3. NextRecord(it) = Step(after, y)
  BY DEF NextRecord
<1>4. /\ y \in Yields /\ y.kind # "none" /\ (y.kind # "item" => y.from = y.to)
      /\ y.kind = "item" =>
            it.from + 2 <= it.to /\ y.from = 8 * it.from /\ y.to = 8 * (it.from + 2)
  BY <1>1, <1>2, RecordShape
<1> HIDE DEF y
<1>5. /\ after \in Iters /\ after.idx = it.idx + 1 /\ after.count = it.count /\ after.to = it.to
      /\ after.bit = 0
      /\ y.kind = "item" => after.from = it.from + 2
      /\ y.kind # "item" => after.from = it.from
  <2>1. it.idx + 1 \in Nat /\ it.from + 2 \in Nat
    BY <1>2
  <2>2. CASE y.kind = "item"
    BY <1>1, <1>2, <2>1, <2>2 DEF Iters
  <2>3. CASE y.kind # "item"
    BY <1>1, <1>2, <2>1, <2>3 DEF Iters
  <2> QED
    BY <2>2, <2>3
<1> HIDE DEF after
<1>6. Pos(it) = 8 * it.from /\ Pos(after) = 8 * after.from
  BY <1>1, <1>2, <1>5 DEF Pos, Iters
<1>7. CASE y.kind = "item"
  <2>1. Going(after)
    <3>1. after.from <= 1 + 2 * after.idx /\ after.idx <= Count
      BY <1>1, <1>2, <1>5, <1>7
    <3>2. Pos(after) <= FieldEnd
      BY <1>2, <1>5, <1>6, <1>7, <3>1
    <3>3. 1 <= after.from /\ after.from <= after.to
      BY <1>1, <1>2, <1>4, <1>5, <1>7
    <3> QED
      BY <1>1, <1>5, <3>1, <3>2, <3>3 DEF Going
  <2>2. ~Broken(it) /\ ~Exhausted(it)
    BY <1>1, <1>7 DEF Broken, Exhausted, y
  <2>3. y.from = Pos(it) /\ y.to = Pos(after) /\ Pos(it) <= Pos(after)
    BY <1>2, <1>4, <1>5, <1>6, <1>7
  <2> QED
    BY <1>3, <1>4, <1>5, <1>7, <2>1, <2>2, <2>3 DEF TurnsWell, Step
<1>8. CASE y.kind # "item"
  <2>1. Going(after)
    <3>1. after.from <= 1 + 2 * after.idx /\ after.idx <= Count
      BY <1>1, <1>2, <1>5, <1>8
    <3> QED
      BY <1>1, <1>5, <1>6, <1>8, <3>1 DEF Going
  <2>2. Broken(after)
    <3>1. ParseElement(after.from, after.to) = y
      BY <1>5, <1>8 DEF y
    <3> QED
      BY <1>1, <1>8, <3>1 DEF Broken
  <2>3. ~Exhausted(it)
    BY <1>1 DEF Exhausted
  <2> QED
    BY <1>3, <1>4, <1>5, <1>8, <2>1, <2>2, <2>3 DEF TurnsWell, Step
<1> QED
  BY <1>7, <1>8

LEMMA TurnEntry ==
    ASSUME Typed, Accepts, IsEntry, NEW it, Going(it)
    PROVE  TurnsWell(it, NextEntry(it))
<1> DEFINE y == ParseElement(it.from, it.to)
           counted == [it EXCEPT !.idx = @ + 1]
           after == [counted EXCEPT !.from = y.to \div 8]
<1>1. /\ it \in Iters /\ it.to = WindowEnd /\ it.idx <= it.count /\ it.bit = 0
      /\ 1 <= it.from /\ it.from <= it.to /\ Opened.count = it.count /\ layout.elem = "entry"
      /\ it.idx \in Nat /\ it.from \in Nat /\ it.to \in Nat /\ it.count \in Nat
  BY DEF Going, Iters, IsEntry
<1>2. WindowEnd \in Nat /\ FieldEnd = 8 * WindowEnd /\ WindowEnd <= Size /\ 1 <= WindowEnd
  BY EntriesFit, Window DEF Accepts
<1>3. \A i \in Iters : /\ Emptied(i) \in Iters /\ Emptied(i).idx = i.idx /\ Emptied(i).to = i.to
                       /\ Emptied(i).count = i.count /\ Emptied(i).bit = i.bit
                       /\ Emptied(i).from = i.to
  BY DEF Emptied, Iters
<1>4. \A i \in Iters : i.idx <= it.count /\ i.count = it.count /\ i.to = it.to /\ i.bit = 0
                          /\ 1 <= i.from /\ i.from <= i.to => Going(i)
  <2> TAKE i \in Iters
  <2> HAVE i.idx <= it.count /\ i.count = it.count /\ i.to = it.to /\ i.bit = 0
           /\ 1 <= i.from /\ i.from <= i.to
  <2>1. Pos(i) <= FieldEnd
    <3>1. i.from \in Nat /\ i.from <= WindowEnd
      BY <1>1 DEF Iters
    <3> QED
      BY <1>2, <3>1 DEF Pos
  <2> QED
    BY <1>1, <2>1 DEF Going
<1>5. CASE it.from = it.to
  <2>1. NextEntry(it) = Step(it, None)
    BY <1>5 DEF NextEntry
  <2>2. None \in Yields /\ None.kind = "none"
    BY DEF None, Yield, Yields
  <2>3. Exhausted(it)
    BY <1>5 DEF Exhausted
  <2> QED
    BY <2>1, <2>2, <2>3 DEF TurnsWell, Step
<1>6. CASE it.from # it.to /\ it.idx = it.count
  <2>1. NextEntry(it) = Step(Emptied(it), Yield("cap", 8 * it.from, 8 * it.from))
    BY <1>6 DEF NextEntry
  <2>2. /\ Yield("cap", 8 * it.from, 8 * it.from) \in Yields
        /\ Yield("cap", 8 * it.from, 8 * it.from).kind = "cap"
        /\ Yield("cap", 8 * it.from, 8 * it.from).from = Yield("cap", 8 * it.from, 8 * it.from).to
    BY <1>1 DEF Yield, Yields, Kinds
  <2>3. /\ Emptied(it) \in Iters /\ Emptied(it).idx = it.idx /\ Emptied(it).to = it.to
        /\ Emptied(it).count = it.count /\ Emptied(it).bit = it.bit /\ Emptied(it).from = it.to
    BY <1>1, <1>3
  <2>4. 1 <= it.to /\ it.to <= it.to
    BY <1>1, <1>2
  <2>5. Going(Emptied(it))
    BY <1>1, <1>4, <2>3, <2>4
  <2>6. Broken(Emptied(it)) /\ ~Exhausted(it)
    BY <1>6, <2>3 DEF Broken, Exhausted
  <2> QED
    BY <2>1, <2>2, <2>3, <2>5, <2>6 DEF TurnsWell, Step
<1>7. CASE it.from # it.to /\ it.idx # it.count
  <2>1. it.from < it.to /\ it.idx + 1 <= it.count /\ it.idx + 1 \in Nat
    BY <1>1, <1>7
  <2>2. /\ y \in Yields /\ y.kind # "none" /\ (y.kind # "item" => y.from = y.to)
        /\ y.kind = "item" => \E n \in Nat : /\ it.from + n <= it.to /\ y.from = 8 * it.from
                                             /\ y.to = 8 * (it.from + n)
    BY <1>1, <1>2, <2>1, EntryShape
  <2>3. NextEntry(it) = IF y.kind = "item" THEN Step(after, y) ELSE Step(Emptied(counted), y)
    BY <1>7 DEF NextEntry
  <2> HIDE DEF y
  <2>4. /\ counted \in Iters /\ counted.idx = it.idx + 1 /\ counted.to = it.to
        /\ counted.from = it.from /\ counted.count = it.count /\ counted.bit = 0
    BY <1>1, <2>1 DEF Iters
  <2> HIDE DEF counted
  <2>5. ~Exhausted(it)
    BY <1>7 DEF Exhausted
  <2>6. CASE y.kind = "item"
    <3>1. PICK n \in Nat : /\ it.from + n <= it.to /\ y.from = 8 * it.from
                           /\ y.to = 8 * (it.from + n)
      BY <2>2, <2>6
    <3>2. y.to \div 8 = it.from + n /\ it.from + n \in Nat
      BY <1>1, <3>1
    <3>3. /\ after \in Iters /\ after.idx = it.idx + 1 /\ after.to = it.to
          /\ after.from = it.from + n /\ after.count = it.count /\ after.bit = 0
      BY <2>4, <3>2 DEF Iters
    <3> HIDE DEF after
    <3>4. 1 <= after.from /\ after.from <= after.to
      BY <1>1, <3>1, <3>3
    <3>5. Going(after)
      BY <1>4, <2>1, <3>3, <3>4
    <3>6. Pos(it) = 8 * it.from /\ Pos(after) = 8 * (it.from + n) /\ Pos(it) <= Pos(after)
      BY <1>1, <3>2, <3>3 DEF Pos
    <3>7. ~Broken(it)
      BY <1>7 DEF Broken
    <3> QED
      BY <2>2, <2>3, <2>5, <2>6, <3>1, <3>3, <3>5, <3>6, <3>7 DEF TurnsWell, Step
  <2>7. CASE y.kind # "item"
    <3>1. /\ Emptied(counted) \in Iters /\ Emptied(counted).idx = it.idx + 1
          /\ Emptied(counted).to = it.to /\ Emptied(counted).from = it.to
          /\ Emptied(counted).count = it.count /\ Emptied(counted).bit = 0
      BY <1>3, <2>4
    <3>2. 1 <= it.to /\ it.to <= it.to
      BY <1>1, <1>2
    <3>3. Going(Emptied(counted))
      BY <1>4, <2>1, <3>1, <3>2
    <3>4. Broken(Emptied(counted))
      BY <3>1 DEF Broken
    <3> QED
      BY <2>2, <2>3, <2>5, <2>7, <3>1, <3>3, <3>4 DEF TurnsWell, Step
  <2> QED
    BY <2>6, <2>7
<1> QED
  BY <1>5, <1>6, <1>7

\* next answers rightly, whatever the elements.
LEMMA Turn ==
    ASSUME Typed, Accepts, NEW it, Going(it)
    PROVE  TurnsWell(it, Following(it))
<1>1. CASE IsEntry
  BY <1>1, TurnEntry DEF Following
<1>2. CASE ~IsEntry /\ it.idx = it.count
  <2>1. Following(it) = Step(it, None)
    BY <1>2 DEF Following, NextCounted
  <2>2. None \in Yields /\ None.kind = "none" /\ Exhausted(it)
    BY <1>2 DEF None, Yield, Yields, Exhausted
  <2> QED
    BY <2>1, <2>2 DEF TurnsWell, Step
<1>3. CASE ~IsEntry /\ it.idx # it.count
  <2>1. layout.elem \in {"byte", "pair"} => Following(it) = NextBytes(it)
    BY <1>3 DEF Following, NextCounted
  <2>2. layout.elem = "bits" => Following(it) = NextBits(it)
    BY <1>3 DEF Following, NextCounted
  <2>3. layout.elem = "record" => Following(it) = NextRecord(it)
    BY <1>3 DEF Following, NextCounted
  <2> QED
    BY <1>3, <2>1, <2>2, <2>3, TurnBytes, TurnBits, TurnRecord, Sizes
<1> QED
  BY <1>1, <1>2, <1>3

-----------------------------------------------------------------------------
(* What a caller sees.                                                     *)

SeenYields == [kind : Kinds, from : Nat, to : Nat]

Items(q) == {i \in 1 .. Len(q) : q[i].kind = "item"}

\* The items among q follow one another from the start of the array, inside the field.
Follow(q) ==
    \A i \in Items(q) :
        /\ IF i = 1 THEN q[i].from = 8 * ItemsStart
           ELSE i - 1 \in Items(q) /\ q[i].from = q[i - 1].to
        /\ q[i].to <= FieldEnd

\* The iterator is where the last item ended, or yields no further one.
Left(q, it) ==
    /\ q = <<>> => Pos(it) = 8
    /\ q # <<>> => IF q[Len(q)].kind = "item" THEN q[Len(q)].to = Pos(it) ELSE Broken(it)

\* Of the counted kinds every call counts; of entries the error at the cap does not.
Counted(n, it) ==
    IF IsEntry THEN n <= it.idx + 1 /\ (n = it.idx + 1 => Broken(it)) ELSE n = it.idx

\* After the elements and errors q the iterator is it; e: it returned None.
Reading(it, q, e) ==
    /\ Going(it) /\ q \in Seq(SeenYields) /\ \A i \in 1 .. Len(q) : q[i].from <= q[i].to
    /\ Follow(q) /\ Left(q, it) /\ Counted(Len(q), it)
    /\ Cardinality(Items(q)) <= it.idx
    /\ e => Exhausted(it)

Caller ==
    /\ Typed /\ phase \in {"parsing", "open", "rejected"} /\ ended \in BOOLEAN
    /\ phase = "open" => Accepts
    /\ iter = NoIterator => seen = <<>> /\ ~ended
    /\ iter # NoIterator => phase = "open" /\ Reading(iter, seen, ended)

LEMMA AppendItem ==
    ASSUME NEW q \in Seq(SeenYields), NEW y \in SeenYields
    PROVE  /\ Append(q, y) \in Seq(SeenYields) /\ Len(Append(q, y)) = Len(q) + 1
           /\ Append(q, y)[Len(q) + 1] = y /\ Append(q, y) # <<>> /\ Len(q) \in Nat
           /\ \A i \in 1 .. Len(q) : Append(q, y)[i] = q[i]
           /\ Items(q) \subseteq 1 .. Len(q)
           /\ y.kind = "item" => Items(Append(q, y)) = Items(q) \cup {Len(q) + 1}
           /\ y.kind # "item" => Items(Append(q, y)) = Items(q)
           /\ IsFiniteSet(Items(q)) /\ Cardinality(Items(q)) \in Nat
           /\ y.kind = "item" => Cardinality(Items(Append(q, y))) = Cardinality(Items(q)) + 1
<1>1. /\ Append(q, y) \in Seq(SeenYields) /\ Len(Append(q, y)) = Len(q) + 1
      /\ Append(q, y)[Len(q) + 1] = y /\ Append(q, y) # <<>> /\ Len(q) \in Nat
      /\ \A i \in 1 .. Len(q) : Append(q, y)[i] = q[i]
  OBVIOUS
<1>2. Items(q) \subseteq 1 .. Len(q)
  BY DEF Items
<1>3. 1 .. Len(q) + 1 = (1 .. Len(q)) \cup {Len(q) + 1} /\ Len(q) + 1 \notin 1 .. Len(q)
  BY <1>1
<1>4. y.kind = "item" => Items(Append(q, y)) = Items(q) \cup {Len(q) + 1}
  BY <1>1, <1>3 DEF Items
<1>5. y.kind # "item" => Items(Append(q, y)) = Items(q)
  BY <1>1, <1>3 DEF Items
<1>6. IsFiniteSet(Items(q)) /\ Cardinality(Items(q)) \in Nat
  <2>1. 1 \in Int /\ Len(q) \in Int
    BY <1>1
  <2>2. IsFiniteSet(1 .. Len(q))
    BY <2>1, FS_Interval
  <2>3. IsFiniteSet(Items(q))
    BY <1>2, <2>2, FS_Subset
  <2> QED
    BY <2>3, FS_CardinalityType
<1>7. y.kind = "item" => Cardinality(Items(Append(q, y))) = Cardinality(Items(q)) + 1
  <2>1. Len(q) + 1 \notin Items(q)
    BY <1>2, <1>3
  <2> QED
    BY <1>4, <1>6, <2>1, FS_AddElement
<1> QED
  BY <1>1, <1>2, <1>4, <1>5, <1>6, <1>7

LEMMA FollowItem ==
    ASSUME Typed, Accepts, NEW q \in Seq(SeenYields), Follow(q), NEW it, Going(it), Left(q, it),
           ~Broken(it), NEW y \in SeenYields, y.kind = "item", y.from = Pos(it), y.to <= FieldEnd
    PROVE  Follow(Append(q, y))
<1> DEFINE r == Append(q, y)
           n == Len(q)
<1>1. /\ n \in Nat /\ r[n + 1] = y /\ (\A i \in 1 .. n : r[i] = q[i]) /\ Items(q) \subseteq 1 .. n
      /\ Items(r) = Items(q) \cup {n + 1}
  BY AppendItem
<1>2. q = <<>> <=> n = 0
  OBVIOUS
<1> HIDE DEF r, n
<1> SUFFICES ASSUME NEW i \in Items(r)
             PROVE  /\ IF i = 1 THEN r[i].from = 8 * ItemsStart
                       ELSE i - 1 \in Items(r) /\ r[i].from = r[i - 1].to
                    /\ r[i].to <= FieldEnd
  BY DEF Follow, r
<1>3. CASE i = n + 1
  <2>1. CASE n = 0
    BY <1>1, <1>2, <1>3, <2>1 DEF Left, ItemsStart
  <2>2. CASE n # 0
    <3>1. n \in 1 .. n /\ q[n].kind = "item" /\ q[n].to = Pos(it)
      BY <1>1, <1>2, <2>2 DEF Left, n
    <3>2. n \in Items(q)
      BY <3>1 DEF Items, n
    <3>3. i # 1 /\ i - 1 = n /\ r[n] = q[n]
      BY <1>1, <1>3, <2>2, <3>1
    <3> QED
      BY <1>1, <1>3, <3>1, <3>2, <3>3
  <2> QED
    BY <2>1, <2>2
<1>4. CASE i # n + 1
  <2>1. i \in Items(q) /\ i \in 1 .. n /\ r[i] = q[i]
    BY <1>1, <1>4
  <2>2. i # 1 => i - 1 \in 1 .. n
    BY <1>1, <2>1
  <2>3. i # 1 => r[i - 1] = q[i - 1]
    BY <1>1, <2>2
  <2> QED
    BY <1>1, <2>1, <2>3 DEF Follow
<1> QED
  BY <1>3, <1>4

LEMMA FollowError ==
    ASSUME NEW q \in Seq(SeenYields), Follow(q), NEW y \in SeenYields, y.kind # "item"
    PROVE  Follow(Append(q, y))
<1> DEFINE r == Append(q, y)
<1>1. /\ Len(q) \in Nat /\ (\A i \in 1 .. Len(q) : r[i] = q[i]) /\ Items(q) \subseteq 1 .. Len(q)
      /\ Items(r) = Items(q)
  BY AppendItem
<1> HIDE DEF r
<1> SUFFICES ASSUME NEW i \in Items(r)
             PROVE  /\ IF i = 1 THEN r[i].from = 8 * ItemsStart
                       ELSE i - 1 \in Items(r) /\ r[i].from = r[i - 1].to
                    /\ r[i].to <= FieldEnd
  BY DEF Follow, r
<1>2. i \in Items(q) /\ r[i] = q[i]
  BY <1>1
<1>3. i # 1 => i - 1 \in Items(q) /\ r[i - 1] = q[i - 1]
  BY <1>1, <1>2 DEF Follow
<1> QED
  BY <1>1, <1>2, <1>3 DEF Follow

\* What is read of the array stays as it is.
LEMMA SameArray ==
    ASSUME layout' = layout, data' = data
    PROVE  /\ Typed' = Typed /\ Accepts' = Accepts /\ IsEntry' = IsEntry /\ Turns' = Turns
           /\ WindowEnd' = WindowEnd /\ FieldEnd' = FieldEnd /\ ElemSize' = ElemSize
           /\ Opened' = Opened
<1>1. Size' = Size /\ IsEntry' = IsEntry /\ ElemBits' = ElemBits /\ Cap' = Cap
      /\ Byte(0)' = Byte(0)
  BY DEF Size, IsEntry, ElemBits, Cap, Byte
<1>2. ElemSize' = ElemSize
  BY <1>1 DEF ElemSize
<1>3. WindowEnd' = WindowEnd
  BY <1>1 DEF WindowEnd, Least
<1>4. Room' = Room
  BY <1>3 DEF Room, Minus
<1>5. Sentinels' = Sentinels
  BY <1>3 DEF Sentinels, Byte
<1>6. Sentinel' = Sentinel
  BY <1>5 DEF Sentinel
<1>7. Count' = Count
  BY <1>1, <1>2, <1>4, <1>5, <1>6 DEF Count
<1>8. ElementsLength' = ElementsLength
  BY <1>1, <1>2, <1>3, <1>4, <1>5, <1>6 DEF ElementsLength, Minus
<1>9. FieldEnd' = FieldEnd
  BY <1>1, <1>8 DEF FieldEnd, FieldLength
<1>10. Rest' = Rest
  BY <1>3, <1>8 DEF Rest, ElementsEnd, Ceil
<1>11. Accepts' = Accepts
  BY <1>1, <1>7, <1>9, <1>10 DEF Accepts, Ceil
<1>12. Opened' = Opened
  BY <1>1, <1>3, <1>7 DEF Opened
<1>13. Turns' = Turns
  BY <1>12 DEF Turns
<1> QED
  BY <1>1, <1>2, <1>3, <1>9, <1>11, <1>12, <1>13 DEF Typed

LEMMA ReadingKept ==
    ASSUME layout' = layout, data' = data, NEW it, NEW q, NEW e, iter' = it, seen' = q, ended' = e,
           Reading(it, q, e)
    PROVE  Reading(iter, seen, ended)'
<1>1. /\ IsEntry' = IsEntry /\ WindowEnd' = WindowEnd /\ FieldEnd' = FieldEnd
      /\ ElemSize' = ElemSize /\ Opened' = Opened
  BY SameArray
<1>2. Going(iter)'
  BY <1>1 DEF Reading, Going, Pos
<1>3. Broken(it) => Broken(iter)'
  BY <1>1 DEF Broken, ParseElement, Byte
<1>4. Follow(seen)' /\ Items(seen)' = Items(q)
  BY <1>1 DEF Reading, Follow, Items
<1>5. Left(seen, iter)'
  BY <1>3 DEF Reading, Left, Pos
<1>6. Counted(Len(seen), iter)'
  BY <1>1, <1>3 DEF Reading, Counted
<1>7. ended' => Exhausted(iter)'
  BY <1>1 DEF Reading, Exhausted
<1> QED
  BY <1>2, <1>4, <1>5, <1>6, <1>7 DEF Reading

\* The iterator moves on by one call of next.
LEMMA ReadingOn ==
    ASSUME Typed, Accepts, NEW it, NEW q, NEW e, Reading(it, q, e), NEW y,
           y = Following(it).yields, y.kind # "none"
    PROVE  Reading(Following(it).iter, Append(q, y), FALSE) /\ ~e
<1> DEFINE s == Following(it)
<1>1. TurnsWell(it, s) /\ Going(it) /\ q \in Seq(SeenYields) /\ Going(s.iter)
  BY Turn DEF Reading, TurnsWell
<1>2. y \in SeenYields /\ ~Exhausted(it) /\ ~e /\ y.from <= y.to
  BY <1>1 DEF TurnsWell, Yields, SeenYields, Reading
<1> HIDE DEF s
<1>3. /\ y.kind = "item" => /\ ~Broken(it) /\ s.iter.idx = it.idx + 1
                            /\ y.from = Pos(it) /\ y.to = Pos(s.iter) /\ Pos(it) <= Pos(s.iter)
      /\ y.kind # "item" => /\ Broken(s.iter)
                            /\ s.iter.idx = it.idx + 1 \/ (IsEntry /\ s.iter.idx = it.idx)
  BY <1>1 DEF TurnsWell, s
<1>4. /\ Append(q, y) \in Seq(SeenYields) /\ Len(Append(q, y)) = Len(q) + 1
      /\ Append(q, y)[Len(q) + 1] = y /\ Append(q, y) # <<>> /\ Len(q) \in Nat
      /\ \A i \in 1 .. Len(q) : Append(q, y)[i] = q[i]
  BY <1>1, <1>2, AppendItem
<1>5. it.idx \in Nat /\ s.iter.idx \in Nat /\ Pos(s.iter) <= FieldEnd
  BY <1>1 DEF Going, Iters
<1>6. Follow(Append(q, y))
  <2>1. CASE y.kind = "item"
    BY <1>1, <1>2, <1>3, <1>5, <2>1, FollowItem DEF Reading
  <2>2. CASE y.kind # "item"
    BY <1>1, <1>2, <2>2, FollowError DEF Reading
  <2> QED
    BY <2>1, <2>2
<1>7. Left(Append(q, y), s.iter)
  BY <1>3, <1>4 DEF Left
<1>8. Counted(Len(Append(q, y)), s.iter)
  <2>1. CASE ~IsEntry
    BY <1>3, <1>4, <1>5, <2>1 DEF Reading, Counted
  <2>2. CASE IsEntry
    <3>1. Len(q) <= it.idx
      BY <1>2, <1>4, <1>5, <2>2 DEF Reading, Counted, Broken, Exhausted
    <3> QED
      BY <1>3, <1>4, <1>5, <2>2, <3>1 DEF Counted
  <2> QED
    BY <2>1, <2>2
<1>9. Cardinality(Items(Append(q, y))) <= s.iter.idx
  <2>1. Cardinality(Items(q)) \in Nat /\ Cardinality(Items(q)) <= it.idx
    BY <1>1, <1>2, AppendItem DEF Reading
  <2>2. CASE y.kind = "item"
    <3>1. Cardinality(Items(Append(q, y))) = Cardinality(Items(q)) + 1
      BY <1>1, <1>2, <2>2, AppendItem
    <3> QED
      BY <1>3, <1>5, <2>1, <2>2, <3>1
  <2>3. CASE y.kind # "item"
    <3>1. Items(Append(q, y)) = Items(q)
      BY <1>1, <1>2, <2>3, AppendItem
    <3> QED
      BY <1>3, <1>5, <2>1, <2>3, <3>1
  <2> QED
    BY <2>2, <2>3
<1>10. ASSUME NEW i \in 1 .. Len(Append(q, y))
       PROVE  Append(q, y)[i].from <= Append(q, y)[i].to
  <2>1. CASE i = Len(q) + 1
    BY <1>2, <1>4, <2>1
  <2>2. CASE i # Len(q) + 1
    <3>1. i \in 1 .. Len(q)
      BY <1>4, <2>2
    <3> QED
      BY <1>4, <3>1 DEF Reading
  <2> QED
    BY <2>1, <2>2
<1>11. Reading(s.iter, Append(q, y), FALSE)
  BY <1>1, <1>4, <1>6, <1>7, <1>8, <1>9, <1>10 DEF Reading
<1> QED
  BY <1>2, <1>11 DEF s

LEMMA CallerNext ==
    ASSUME Caller, NextElement
    PROVE  Caller'
<1> DEFINE s == Following(iter)
           y == s.yields
<1>1. /\ phase = "open" /\ iter # NoIterator /\ Typed /\ Accepts /\ Reading(iter, seen, ended)
      /\ ended \in BOOLEAN
  BY DEF NextElement, Caller
<1>2. TurnsWell(iter, s)
  BY <1>1, Turn DEF Reading
<1>3. y \in Yields /\ y.kind # "panic"
  BY <1>2 DEF TurnsWell, Yields, Kinds
<1>4. /\ iter' = s.iter /\ phase' = phase /\ ended' = (ended \/ y.kind = "none")
      /\ seen' = IF y.kind = "none" THEN seen ELSE Append(seen, y)
      /\ layout' = layout /\ data' = data
  BY <1>3 DEF NextElement
<1>5. Typed' /\ Accepts' /\ phase' = "open"
  BY <1>1, <1>4, SameArray
<1>6. iter' # NoIterator
  BY <1>2, <1>4 DEF TurnsWell, Going, NoIterator
<1>7. Reading(iter, seen, ended)'
  <2>1. CASE y.kind = "none"
    <3>1. iter' = iter /\ seen' = seen /\ ended' = TRUE /\ Exhausted(iter)
      BY <1>2, <1>4, <2>1 DEF TurnsWell
    <3>2. Reading(iter, seen, TRUE)
      BY <1>1, <3>1 DEF Reading
    <3> QED
      BY <1>4, <3>1, <3>2, ReadingKept
  <2>2. CASE y.kind # "none"
    <3>1. Reading(s.iter, Append(seen, y), FALSE) /\ ~ended
      BY <1>1, <2>2, ReadingOn
    <3>2. iter' = s.iter /\ seen' = Append(seen, y) /\ ended' = FALSE
      BY <1>4, <2>2, <3>1
    <3> QED
      BY <1>4, <3>1, <3>2, ReadingKept
  <2> QED
    BY <2>1, <2>2
<1> QED
  BY <1>1, <1>4, <1>5, <1>6, <1>7 DEF Caller

-----------------------------------------------------------------------------
(* The loop of field_tree.                                                 *)

TreeNodes == [name : {"element", "error"}, from : Nat, to : Nat, bytes : Nat]
Loops     == [iter : Iters, start : Nat, nodes : Seq(TreeNodes), over : {"no", "none"}]

\* The nodes q follow one another from the array's start, inside the field.
Tiles(q) ==
    \A i \in 1 .. Len(q) :
        /\ q[i].from = IF i = 1 THEN 8 * ItemsStart ELSE q[i - 1].to
        /\ q[i].to <= FieldEnd
        /\ q[i].name = "rest" => q[i].to = FieldEnd

\* What l may be after n turns.
LoopWell(n, l) ==
    /\ l \in Loops /\ Going(l.iter) /\ Tiles(l.nodes)
    /\ l.start = (IF l.nodes = <<>> THEN 8 ELSE l.nodes[Len(l.nodes)].to) /\ l.start <= FieldEnd
    /\ l.start = Pos(l.iter) \/ Broken(l.iter)
    /\ l.over = "no" => Counted(n, l.iter)

LEMMA TilesOn ==
    ASSUME NEW S, NEW q \in Seq(S), NEW x \in S, Tiles(q),
           x.from = (IF q = <<>> THEN 8 ELSE q[Len(q)].to), x.to <= FieldEnd,
           x.name = "rest" => x.to = FieldEnd
    PROVE  Tiles(Append(q, x))
<1> DEFINE r == Append(q, x)
           n == Len(q)
<1>1. /\ n \in Nat /\ Len(r) = n + 1 /\ r[n + 1] = x /\ (\A i \in 1 .. n : r[i] = q[i])
      /\ (q = <<>> <=> n = 0)
  OBVIOUS
<1>2. x.from = IF n = 0 THEN 8 ELSE q[n].to
  BY <1>1
<1> HIDE DEF r, n
<1> SUFFICES ASSUME NEW i \in 1 .. n + 1
             PROVE  /\ r[i].from = IF i = 1 THEN 8 * ItemsStart ELSE r[i - 1].to
                    /\ r[i].to <= FieldEnd
                    /\ r[i].name = "rest" => r[i].to = FieldEnd
  BY <1>1 DEF Tiles, r
<1>3. CASE i = n + 1
  <2>1. i # 1 => i - 1 = n /\ n # 0 /\ n \in 1 .. n /\ r[n] = q[n]
    BY <1>1, <1>3
  <2>2. i = 1 => n = 0
    BY <1>1, <1>3
  <2> QED
    BY <1>1, <1>2, <1>3, <2>1, <2>2 DEF ItemsStart
<1>4. CASE i # n + 1
  <2>1. i \in 1 .. n /\ r[i] = q[i]
    BY <1>1, <1>4
  <2>2. i # 1 => i - 1 \in 1 .. n /\ r[i - 1] = q[i - 1]
    BY <1>1, <2>1
  <2> QED
    BY <2>1, <2>2 DEF Tiles, n
<1> QED
  BY <1>3, <1>4

LEMMA EnteredWell ==
    ASSUME Typed, Accepts
    PROVE  LoopWell(0, Entered)
<1>1. Going(Opened) /\ Pos(Opened) = 8 /\ Opened \in Iters /\ Opened.idx = 0
  BY OpenedGoing DEF Going, Opened
<1>2. /\ Entered.iter = Opened /\ Entered.start = 8 /\ Entered.nodes = <<>> /\ Entered.over = "no"
      /\ Entered \in Loops
  BY <1>1 DEF Entered, ItemsStart, Loops
<1>3. 8 <= FieldEnd
  BY <1>1 DEF Going
<1>4. Tiles(<<>>)
  BY DEF Tiles
<1>5. Counted(0, Opened)
  BY <1>1 DEF Counted
<1> QED
  BY <1>1, <1>2, <1>3, <1>4, <1>5 DEF LoopWell

LEMMA TurnedWell ==
    ASSUME Typed, Accepts, NEW n \in Nat, NEW l, LoopWell(n, l)
    PROVE  LoopWell(n + 1, Turned(l))
<1> DEFINE s == Following(l.iter)
           y == s.yields
           m == Node(l.start, y)
<1>1. /\ l \in Loops /\ Going(l.iter) /\ Tiles(l.nodes) /\ l.nodes \in Seq(TreeNodes)
      /\ l.start \in Nat /\ l.start <= FieldEnd /\ l.over \in {"no", "none"}
      /\ l.start = (IF l.nodes = <<>> THEN 8 ELSE l.nodes[Len(l.nodes)].to)
      /\ l.start = Pos(l.iter) \/ Broken(l.iter)
  BY DEF LoopWell, Loops
<1>2. TurnsWell(l.iter, s)
  BY <1>1, Turn
<1>3. Going(s.iter) /\ y \in Yields /\ y.kind # "panic"
  BY <1>2 DEF TurnsWell, Yields, Kinds
<1>4. CASE l.over # "no"
  <2>1. Turned(l) = l
    BY <1>4 DEF Turned
  <2> QED
    BY <1>4, <2>1 DEF LoopWell
<1>5. CASE l.over = "no" /\ y.kind = "none"
  <2>1. Turned(l) = [l EXCEPT !.over = "none"]
    BY <1>5 DEF Turned
  <2>2. /\ Turned(l) \in Loops /\ Turned(l).iter = l.iter /\ Turned(l).start = l.start
        /\ Turned(l).nodes = l.nodes /\ Turned(l).over = "none"
    BY <1>1, <2>1 DEF Loops
  <2> QED
    BY <1>1, <2>2 DEF LoopWell
<1>6. CASE l.over = "no" /\ y.kind # "none"
  <2>1. /\ Turned(l).iter = s.iter /\ Turned(l).start = l.start + (y.to - y.from)
        /\ Turned(l).nodes = Append(l.nodes, m) /\ Turned(l).over = "no"
        /\ Turned(l) = [iter |-> s.iter, start |-> l.start + (y.to - y.from),
                        nodes |-> Append(l.nodes, m), over |-> "no"]
    BY <1>3, <1>6 DEF Turned
  <2>2. /\ y.kind = "item" => /\ ~Broken(l.iter) /\ s.iter.idx = l.iter.idx + 1
                              /\ y.from = Pos(l.iter) /\ y.to = Pos(s.iter)
                              /\ Pos(l.iter) <= Pos(s.iter)
        /\ y.kind # "item" => /\ Broken(s.iter) /\ y.from = y.to
                              /\ s.iter.idx = l.iter.idx + 1 \/ (IsEntry /\ s.iter.idx = l.iter.idx)
        /\ ~Exhausted(l.iter)
    BY <1>2, <1>6 DEF TurnsWell
  <2>3. y.from \in Nat /\ y.to \in Nat /\ y.from <= y.to /\ y.to - y.from \in Nat
    BY <1>3, <2>2 DEF Yields
  <2>4. /\ l.start + (y.to - y.from) \in Nat
        /\ l.start + (y.to - y.from) = Pos(s.iter) \/ Broken(s.iter)
        /\ l.start + (y.to - y.from) <= FieldEnd
    <3>1. Pos(s.iter) <= FieldEnd
      BY <1>3 DEF Going
    <3>2. CASE y.kind = "item"
      <4>1. l.start = y.from
        BY <1>1, <2>2, <3>2
      <4>2. l.start + (y.to - y.from) = y.to
        BY <2>3, <4>1
      <4> QED
        BY <2>2, <2>3, <3>1, <3>2, <4>2
    <3>3. CASE y.kind # "item"
      <4>1. l.start + (y.to - y.from) = l.start
        BY <1>1, <2>2, <2>3, <3>3
      <4> QED
        BY <1>1, <2>2, <3>3, <4>1
    <3> QED
      BY <3>2, <3>3
  <2>5. /\ m \in TreeNodes /\ m.from = l.start /\ m.to = l.start + (y.to - y.from)
        /\ m.name # "rest"
    <3>1. Ceil(y.to - y.from) \in Nat
      BY <2>3 DEF Ceil
    <3> QED
      BY <1>1, <2>4, <3>1 DEF Node, TreeNodes
  <2> HIDE DEF m
  <2>6. Tiles(Append(l.nodes, m))
    BY <1>1, <2>4, <2>5, TilesOn
  <2>7. /\ Append(l.nodes, m) \in Seq(TreeNodes) /\ Append(l.nodes, m) # <<>>
        /\ Append(l.nodes, m)[Len(Append(l.nodes, m))] = m
    BY <1>1, <2>5
  <2>8. Turned(l) \in Loops
    BY <1>3, <2>1, <2>4, <2>7 DEF Loops, Going
  <2>9. Counted(n + 1, s.iter)
    <3>1. Counted(n, l.iter) /\ l.iter.idx \in Nat /\ s.iter.idx \in Nat
      BY <1>1, <1>3, <1>6 DEF LoopWell, Going, Iters
    <3>2. CASE ~IsEntry
      BY <2>2, <3>1, <3>2 DEF Counted
    <3>3. CASE IsEntry
      <4>1. n <= l.iter.idx
        BY <2>2, <3>1, <3>3 DEF Counted, Broken, Exhausted
      <4> QED
        BY <2>2, <3>1, <3>3, <4>1 DEF Counted
    <3> QED
      BY <3>2, <3>3
  <2> QED
    BY <1>3, <2>1, <2>4, <2>5, <2>6, <2>7, <2>8, <2>9 DEF LoopWell
<1> QED
  BY <1>3, <1>4, <1>5, <1>6

\* The first m turns exist, so all of them do.
Turning(m, f) == f = [n \in 0 .. m |-> IF n = 0 THEN Entered ELSE Turned(f[n - 1])]

LEMMA TurningExists ==
    ASSUME NEW m \in Nat
    PROVE  \E f : Turning(m, f)
<1> DEFINE P == {k \in Nat : \E f : Turning(k, f)}
<1>1. 0 \in P
  <2>1. Turning(0, [n \in 0 .. 0 |-> Entered])
    BY DEF Turning
  <2> QED
    BY <2>1
<1>2. ASSUME NEW k \in P PROVE k + 1 \in P
  <2>1. PICK f : Turning(k, f)
    OBVIOUS
  <2>2. k \in Nat /\ k + 1 \in Nat
    OBVIOUS
  <2>3. \A n \in 0 .. k : f[n] = IF n = 0 THEN Entered ELSE Turned(f[n - 1])
    BY <2>1 DEF Turning
  <2> DEFINE g == [n \in 0 .. k + 1 |-> IF n = k + 1 THEN Turned(f[k]) ELSE f[n]]
  <2>4. ASSUME NEW n \in 0 .. k + 1
        PROVE  g[n] = IF n = 0 THEN Entered ELSE Turned(g[n - 1])
    <3>1. CASE n = k + 1
      <4>1. n # 0 /\ n - 1 = k /\ k \in 0 .. k + 1 /\ k # k + 1
        BY <2>2, <3>1
      <4>2. g[n] = Turned(f[k]) /\ g[k] = f[k]
        BY <3>1, <4>1
      <4> QED
        BY <4>1, <4>2
    <3>2. CASE n # k + 1
      <4>1. n \in 0 .. k /\ (n # 0 => n - 1 \in 0 .. k + 1 /\ n - 1 # k + 1)
        BY <2>2, <3>2
      <4>2. g[n] = f[n] /\ (n # 0 => g[n - 1] = f[n - 1])
        BY <3>2, <4>1
      <4> QED
        BY <2>3, <4>1, <4>2
    <3> QED
      BY <3>1, <3>2
  <2>5. g = [n \in 0 .. k + 1 |-> g[n]]
    OBVIOUS
  <2> HIDE DEF g
  <2>6. Turning(k + 1, g)
    BY <2>4, <2>5 DEF Turning
  <2> QED
    BY <2>2, <2>6
<1>3. P \in SUBSET Nat
  OBVIOUS
<1> HIDE DEF P
<1>4. P = Nat
  BY <1>1, <1>2, <1>3, Induct
<1> QED
  BY <1>4 DEF P

\* Every call next gets in the loop is counted, and so the loop comes to its end in
\* the bound, without a read past the window.
LEMMA LoopedWell ==
    ASSUME Typed, Accepts
    PROVE  LoopWell(Turns, Looped) /\ Looped.over = "none"
<1>1. Going(Opened) /\ Opened.count \in Nat
  BY OpenedGoing DEF Going, Iters
<1>2. Turns \in Nat /\ Turns = Opened.count + 2
  BY <1>1 DEF Turns
<1>3. Turning(Turns, Loop)
  <2>1. \E f : Turning(Turns, f)
    BY <1>2, TurningExists
  <2> QED
    BY <2>1 DEF Turning, Loop
<1>4. \A n \in 0 .. Turns : Loop[n] = IF n = 0 THEN Entered ELSE Turned(Loop[n - 1])
  BY <1>3 DEF Turning
<1> DEFINE P == {n \in Nat : n <= Turns => LoopWell(n, Loop[n])}
<1>5. 0 \in P
  <2>1. 0 \in 0 .. Turns
    BY <1>2
  <2>2. Loop[0] = Entered
    BY <1>4, <2>1
  <2>3. LoopWell(0, Loop[0])
    BY <2>2, EnteredWell
  <2> QED
    BY <2>3
<1>6. ASSUME NEW n \in P PROVE n + 1 \in P
  <2> SUFFICES ASSUME n + 1 <= Turns PROVE LoopWell(n + 1, Loop[n + 1])
    OBVIOUS
  <2>1. n \in Nat /\ LoopWell(n, Loop[n])
    BY <1>2
  <2>2. n + 1 \in 0 .. Turns /\ n + 1 # 0 /\ (n + 1) - 1 = n
    BY <1>2, <2>1
  <2>3. Loop[n + 1] = Turned(Loop[n])
    BY <1>4, <2>2
  <2> QED
    BY <2>1, <2>3, TurnedWell
<1>7. P \in SUBSET Nat
  OBVIOUS
<1>8. P = Nat
  <2> HIDE DEF P
  <2> QED
    BY <1>5, <1>6, <1>7, Induct
<1>9. LoopWell(Turns, Looped)
  <2>1. Turns \in P
    BY <1>2, <1>8
  <2> QED
    BY <1>2, <2>1 DEF Looped
<1>10. Looped.over = "none"
  <2> SUFFICES ASSUME Looped.over # "none" PROVE FALSE
    OBVIOUS
  <2>1. Looped.over = "no" /\ Going(Looped.iter) /\ Counted(Turns, Looped.iter)
    BY <1>9 DEF LoopWell, Loops
  <2>2. Looped.iter.idx \in Nat /\ Looped.iter.idx <= Opened.count
    BY <2>1 DEF Going, Iters
  <2> QED
    BY <1>1, <1>2, <2>1, <2>2 DEF Counted
<1> QED
  BY <1>9, <1>10

LEMMA ChildrenWell ==
    ASSUME Typed, Accepts
    PROVE  Tiles(Children)
<1> DEFINE nodes == Looped.nodes
           consumed == IF nodes = <<>> THEN 8 * ItemsStart ELSE nodes[Len(nodes)].to
           node == [name |-> "rest", from |-> Least(consumed, FieldEnd), to |-> FieldEnd,
                    bytes |-> Rest.to - Rest.from]
<1>1. /\ nodes \in Seq(TreeNodes) /\ Tiles(nodes)
      /\ Looped.start = (IF nodes = <<>> THEN 8 ELSE nodes[Len(nodes)].to)
      /\ Looped.start <= FieldEnd
  BY LoopedWell DEF LoopWell, Loops
<1>2. FieldEnd \in Nat /\ Looped.start \in Nat
  BY AllFit, EntriesFit, Window, LoopedWell DEF Accepts, LoopWell, Loops
<1>3. consumed = Looped.start /\ Least(consumed, FieldEnd) = consumed
  <2>1. consumed = Looped.start
    BY <1>1 DEF ItemsStart
  <2> HIDE DEF consumed
  <2> QED
    BY <1>1, <1>2, <2>1 DEF Least
<1>4. node.from = (IF nodes = <<>> THEN 8 ELSE nodes[Len(nodes)].to) /\ node.to = FieldEnd
  BY <1>1, <1>3
<1>5. Children = nodes \/ Children = Append(nodes, node)
  BY DEF Children
<1>6. FieldEnd <= FieldEnd
  BY <1>2
<1> HIDE DEF nodes, node
<1>7. nodes \in Seq(TreeNodes \cup {node})
  BY <1>1
<1>8. Tiles(Append(nodes, node))
  BY <1>1, <1>4, <1>6, <1>7, TilesOn
<1> QED
  BY <1>1, <1>5, <1>8

-----------------------------------------------------------------------------
(* The invariant.                                                          *)

Told == Caller /\ Tiles(answer)

LEMMA ToldInit == Init => Told
<1> SUFFICES ASSUME Init PROVE Told
  OBVIOUS
<1>1. Tiles(answer)
  BY DEF Init, Tiles
<1> QED
  BY <1>1 DEF Init, Told, Caller, Typed

LEMMA AnswerKept ==
    ASSUME layout' = layout, data' = data, NEW q, answer' = q, Tiles(q)
    PROVE  Tiles(answer)'
<1>1. FieldEnd' = FieldEnd
  BY SameArray
<1> QED
  BY <1>1 DEF Tiles

LEMMA ToldStep == Told /\ [Next]_vars => Told'
<1> SUFFICES ASSUME Told, [Next]_vars PROVE Told'
  OBVIOUS
<1>1. /\ Typed /\ Caller /\ Tiles(answer) /\ ended \in BOOLEAN
      /\ iter = NoIterator => seen = <<>> /\ ~ended
      /\ iter # NoIterator => phase = "open" /\ Reading(iter, seen, ended)
      /\ phase \in {"parsing", "open", "rejected"} /\ (phase = "open" => Accepts)
  BY DEF Told, Caller
<1>2. CASE Parse
  <2>1. /\ phase' \in {"open", "rejected"} /\ (phase' = "open" => Accepts) /\ iter = NoIterator
        /\ layout' = layout /\ data' = data /\ iter' = iter /\ seen' = seen /\ ended' = ended
        /\ answer' = answer
    BY <1>1, <1>2 DEF Parse
  <2>2. Typed' /\ (phase' = "open" => Accepts')
    BY <1>1, <2>1, SameArray
  <2>3. iter' = NoIterator
    BY <2>1
  <2> QED
    BY <1>1, <2>1, <2>2, <2>3, AnswerKept DEF Told, Caller, NoIterator
<1>3. CASE Open
  <2>1. /\ phase = "open" /\ phase' = phase /\ layout' = layout /\ data' = data
        /\ iter' = Opened /\ seen' = <<>> /\ ended' = FALSE /\ answer' = answer
    BY <1>3 DEF Open
  <2>2. Typed' /\ Accepts' /\ Accepts
    BY <1>1, <2>1, SameArray
  <2>3. Going(Opened) /\ Pos(Opened) = 8 /\ Opened # NoIterator /\ Opened.idx = 0
    BY <1>1, <2>2, OpenedGoing DEF Opened
  <2>4. Reading(Opened, <<>>, FALSE)
    <3>1. <<>> \in Seq(SeenYields) /\ Len(<<>>) = 0 /\ Items(<<>>) = {}
      BY DEF Items
    <3>2. Cardinality(Items(<<>>)) = 0
      BY <3>1, FS_EmptySet
    <3>3. Follow(<<>>) /\ Left(<<>>, Opened)
      BY <2>3, <3>1 DEF Follow, Left
    <3>4. Counted(0, Opened)
      BY <2>3 DEF Counted
    <3> QED
      BY <2>3, <3>1, <3>2, <3>3, <3>4 DEF Reading
  <2>5. Reading(iter, seen, ended)'
    BY <2>1, <2>4, ReadingKept
  <2>6. iter' # NoIterator
    BY <2>1, <2>3
  <2> QED
    BY <1>1, <2>1, <2>2, <2>5, <2>6, AnswerKept DEF Told, Caller, NoIterator
<1>4. CASE NextElement
  <2>1. layout' = layout /\ data' = data /\ answer' = answer
    BY <1>4 DEF NextElement
  <2> QED
    BY <1>1, <1>4, <2>1, CallerNext, AnswerKept DEF Told
<1>5. CASE FieldTree
  <2>1. phase = "open" /\ Looped.over # "panic" /\ Tiles(Children)
    BY <1>1, <1>5, LoopedWell, ChildrenWell DEF FieldTree
  <2>2. /\ phase' = phase /\ layout' = layout /\ data' = data /\ iter' = iter /\ seen' = seen
        /\ ended' = ended /\ answer' = Children
    BY <1>5, <2>1 DEF FieldTree
  <2>3. Typed' /\ Accepts'
    BY <1>1, <2>1, <2>2, SameArray
  <2>4. iter # NoIterator => Reading(iter, seen, ended)'
    BY <1>1, <2>2, ReadingKept
  <2> QED
    BY <1>1, <2>1, <2>2, <2>3, <2>4, AnswerKept DEF Told, Caller, NoIterator
<1>6. CASE UNCHANGED vars
  <2>1. /\ phase' = phase /\ layout' = layout /\ data' = data /\ iter' = iter /\ seen' = seen
        /\ ended' = ended /\ answer' = answer
    BY <1>6 DEF vars
  <2>2. Typed' /\ (phase = "open" => Accepts')
    BY <1>1, <2>1, SameArray
  <2>3. iter # NoIterator => Reading(iter, seen, ended)'
    BY <1>1, <2>1, ReadingKept
  <2> QED
    BY <1>1, <2>1, <2>2, <2>3, AnswerKept DEF Told, Caller, NoIterator
<1> QED
  BY <1>2, <1>3, <1>4, <1>5, <1>6 DEF Next

LEMMA AlwaysTold == Spec => []Told
<1> QED
  BY ToldInit, ToldStep, PTL DEF Spec

LEMMA ToldTyped == Told => TypeOK
<1> SUFFICES ASSUME Told PROVE TypeOK
  OBVIOUS
<1>1. Typed /\ Size \in Nat
  BY Shape DEF Told, Caller
<1>2. CASE iter = NoIterator
  <2>1. seen = <<>> /\ iter.idx = 0 /\ iter.count = 0 /\ iter.from = 0 /\ iter.to = 0
    BY <1>2 DEF Told, Caller, NoIterator
  <2> QED
    BY <1>1, <2>1 DEF Told, Caller, Typed, TypeOK
<1>3. CASE iter # NoIterator
  <2>1. /\ Going(iter) /\ seen \in Seq(SeenYields)
        /\ \A i \in 1 .. Len(seen) : seen[i].from <= seen[i].to
    BY <1>3 DEF Told, Caller, Reading
  <2>2. iter \in Iters /\ iter.idx <= iter.count /\ iter.from <= iter.to /\ iter.to = WindowEnd
    BY <2>1 DEF Going
  <2>3. WindowEnd <= Size
    BY <1>1, <1>3, Window DEF Told, Caller, Accepts
  <2>4. iter.idx \in 0 .. iter.count /\ iter.from \in 0 .. iter.to /\ iter.to <= Size
    BY <2>2, <2>3 DEF Iters
  <2>5. \A i \in 1 .. Len(seen) : seen[i].kind \in Kinds
    <3>1. \A i \in 1 .. Len(seen) : seen[i] \in SeenYields
      BY <2>1
    <3> QED
      BY <3>1 DEF SeenYields
  <2> QED
    BY <1>1, <2>1, <2>4, <2>5 DEF Told, Caller, Typed, TypeOK
<1> QED
  BY <1>2, <1>3

LEMMA ToldTiles == Told => ItemsTile
<1> SUFFICES ASSUME Told PROVE ItemsTile
  OBVIOUS
<1>1. phase # "panic" /\ ItemsSeen = Items(seen)
  BY DEF Told, Caller, ItemsSeen, Items
<1>2. Follow(seen)
  <2>1. CASE iter = NoIterator
    BY <2>1 DEF Told, Caller, Follow, Items
  <2>2. CASE iter # NoIterator
    BY <2>2 DEF Told, Caller, Reading
  <2> QED
    BY <2>1, <2>2
<1> QED
  BY <1>1, <1>2 DEF Follow, ItemsTile

LEMMA ToldEnds == Told => EndsForAReason
<1> SUFFICES ASSUME Told, ended PROVE EndsForAReason
  BY DEF EndsForAReason
<1>1. /\ Typed /\ Accepts /\ Going(iter) /\ Exhausted(iter) /\ Left(seen, iter)
      /\ Counted(Len(seen), iter) /\ Cardinality(Items(seen)) <= iter.idx /\ seen \in Seq(SeenYields)
  BY DEF Told, Caller, Reading
<1>2. /\ iter \in Iters /\ iter.count = Opened.count /\ iter.to = WindowEnd /\ iter.idx <= iter.count
      /\ (layout.elem # "bits" => iter.bit = 0)
  BY <1>1 DEF Going
<1>3. ItemsSeen = Items(seen)
  BY DEF ItemsSeen, Items
<1>4. CASE IsEntry
  <2>1. Pos(iter) = 8 * WindowEnd /\ iter.count = Cap
    <3>1. iter.from = iter.to /\ iter.bit = 0 /\ iter.from \in Nat
      BY <1>1, <1>2, <1>4 DEF Exhausted, IsEntry, Iters
    <3> QED
      BY <1>2, <1>4, <3>1 DEF Pos, Opened
  <2>2. Cardinality(ItemsSeen) <= Cap
    <3>1. Cardinality(Items(seen)) \in Nat
      <4>1. Len(seen) \in Nat /\ Items(seen) \subseteq 1 .. Len(seen)
        BY <1>1 DEF Items
      <4>2. 1 \in Int /\ Len(seen) \in Int
        BY <4>1
      <4> QED
        BY <4>1, <4>2, FS_Interval, FS_Subset, FS_CardinalityType
    <3> QED
      BY <1>1, <1>2, <1>3, <2>1, <3>1 DEF Iters
  <2>3. CASE seen = <<>>
    <3>1. 8 * ItemsStart = 8 * WindowEnd
      BY <1>1, <2>1, <2>3 DEF Left, ItemsStart
    <3> QED
      BY <1>4, <2>2, <2>3, <3>1 DEF EndsForAReason
  <2>4. CASE seen # <<>>
    <3>1. seen[Len(seen)].kind = "item" => seen[Len(seen)].to = 8 * WindowEnd
      BY <1>1, <2>1, <2>4 DEF Left
    <3> QED
      BY <1>4, <2>2, <2>4, <3>1 DEF EndsForAReason
  <2> QED
    BY <2>3, <2>4
<1>5. CASE ~IsEntry
  <2>1. Len(seen) = Count
    BY <1>1, <1>2, <1>5 DEF Counted, Exhausted, Opened
  <2> QED
    BY <1>5, <2>1 DEF EndsForAReason
<1> QED
  BY <1>4, <1>5

-----------------------------------------------------------------------------
(* No iterator leaves the window: its index stays within its count and its *)
(* slice within the input, whatever the elements say of their own length.  *)
(* (bounded_next, the iterator of greedy structs)                          *)
THEOREM ArrayTypeCorrect == Spec => []TypeOK
<1> QED
  BY AlwaysTold, ToldTyped, PTL

(* Of an array that parse accepted no call of next and no field_tree reads *)
(* past the slice, the elements follow one another from its start within   *)
(* what parse consumed, and none comes behind one that does not parse: for *)
(* every array the generator accepts and every input.                      *)
(* (the checks of parse, with the slices next leaves behind)               *)
THEOREM ElementsTileTheArray == Spec => []ItemsTile
<1> QED
  BY AlwaysTold, ToldTiles, PTL

(* An iterator returns None only after as many elements and errors as the  *)
(* array has, or, of entries, at the end of the window or behind the error *)
(* that says why not; it yields no more entries than @max_iter.            *)
(* (bounded_next and the iterator of greedy structs)                       *)
THEOREM IterationEndsForAReason == Spec => []EndsForAReason
<1> QED
  BY AlwaysTold, ToldEnds, PTL

(* The nodes field_tree makes of an array follow one another from its      *)
(* start, inside the field, and with a node for the rest they end with it. *)
(* (the loop of a tree over the iterator, and its node for the rest)       *)
THEOREM NodesTileTheArray == Spec => []ChildrenTile
<1>1. Told => ChildrenTile
  BY DEF Told, Tiles, ChildrenTile
<1> QED
  BY AlwaysTold, <1>1, PTL

(* The loops over an iterator end by themselves: a caller has had fewer    *)
(* answers than Turns whenever it calls next, and field_tree's loop has    *)
(* stopped at None by then.  The bound of the model cuts nothing off.      *)
(* (counted down, or emptied by an error and at @max_iter)                 *)
THEOREM TurnsAreEnough ==
    Spec => [](/\ iter # NoIterator => Len(seen) < Turns
               /\ phase = "open" => Looped.over = "none")
<1>1. ASSUME Told PROVE /\ iter # NoIterator => Len(seen) < Turns
                        /\ phase = "open" => Looped.over = "none"
  <2>1. phase = "open" => Looped.over = "none"
    BY <1>1, LoopedWell DEF Told, Caller
  <2>2. ASSUME iter # NoIterator PROVE Len(seen) < Turns
    <3>1. Going(iter) /\ Counted(Len(seen), iter) /\ seen \in Seq(SeenYields)
      BY <1>1, <2>2 DEF Told, Caller, Reading
    <3>2. iter.idx \in Nat /\ iter.count \in Nat /\ iter.count = Opened.count
          /\ iter.idx <= iter.count /\ Len(seen) \in Nat
      BY <3>1 DEF Going, Iters
    <3> QED
      BY <3>1, <3>2 DEF Counted, Turns
  <2> QED
    BY <2>1, <2>2
<1> QED
  BY AlwaysTold, <1>1, PTL

=============================================================================
