------------------------------ MODULE Offsets ------------------------------
(***************************************************************************)
(* The running end offset of a struct, as the code generator and the       *)
(* generated getters accumulate it: each field pads, then adds the length  *)
(* of one element or of a counted array.  `exact` is a ghost: the bits the *)
(* fields really need, in unbounded arithmetic.                            *)
(***************************************************************************)
EXTENDS Lengths

CONSTANTS ElementLengths,  \* lengths of single elements
          Counts,          \* array counts read from the input
          Alignments,      \* arguments of @pad_to
          MaxFields        \* bound: fields accumulated in one behaviour

ASSUME OffsetsAssumption ==
    /\ ElementLengths \subseteq Lengths
    /\ Counts \subseteq Usize
    /\ Alignments \subseteq Usize
    /\ MaxFields \in Nat

VARIABLES offset,   \* the Len the program holds
          exact,    \* ghost: the same offset in bits, never saturated
          added     \* how many fields were accumulated

offsetVars == <<offset, exact, added>>

ExactBits(l) == 8 * l.byte + l.bit

OffsetInit == offset = ZeroLength /\ exact = 0 /\ added = 0

Accumulate(l, bits) ==
    /\ added < MaxFields
    /\ added' = added + 1
    /\ offset' = AddLength(offset, l)
    /\ exact' = exact + bits

\* A field of one element: end = start + len.
Element == \E l \in ElementLengths : Accumulate(l, ExactBits(l))

\* A counted array: end = start + len * count.
CountedArray ==
    \E l \in ElementLengths, n \in Counts :
        Accumulate(MulLength(l, n), n * ExactBits(l))

\* The least multiple of `align` bytes at or after `bits`.
ExactPad(bits, align) ==
    LET bytes == (bits + 7) \div 8
    IN  8 * (IF align > 0 THEN align * ((bytes + align - 1) \div align) ELSE bytes)

\* @pad_to(align) before a field.
Pad ==
    /\ added < MaxFields
    /\ \E align \in Alignments :
        /\ offset' = PadTo(offset, align)
        /\ exact' = ExactPad(exact, align)
    /\ added' = added + 1

OffsetNext == Element \/ CountedArray \/ Pad

OffsetSpec == OffsetInit /\ [][OffsetNext]_offsetVars

-----------------------------------------------------------------------------
\* Every offset is canonical: its bit part stays below 8 and its byte part in
\* usize, so that `self.bit + other.bit` cannot overflow and is_byte_aligned,
\* byte_ceil and the bit-field shifts (8 - start_bit - width) are well defined.
OffsetTypeOK == offset \in Lengths /\ exact \in Nat /\ added \in 0 .. MaxFields

\* An offset is exact until it saturates: below the last representable byte
\* the running sum equals the unbounded one, through every carry of the bits,
\* every array and every pad.  An offset that is not exact belongs to fields
\* that no slice can hold (they need more than an eighth of the address space).
ExactOrHuge ==
    \/ ExactBits(offset) = exact
    \/ exact > UsizeMax /\ offset.byte >= UsizeMax \div 8

\* The end offset of a struct never moves back: no pad, array or bit carry can
\* make a later field end before an earlier one, saturated or not.
NeverBackwards == [][ByteCeil(offset') >= ByteCeil(offset)]_offsetVars

=============================================================================
