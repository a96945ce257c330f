---------------------------- MODULE FixedFields ----------------------------
(***************************************************************************)
(* Setters and getters of fields of known size, bit by bit: bit fields in  *)
(* either bit order, also across two bytes, integers in either byte order, *)
(* arrays of them, byte arrays and concats.  A writer's setter and the     *)
(* parser's getter are generated by different code and have to agree, and  *)
(* a setter has to leave the bits of all other fields alone.               *)
(***************************************************************************)
EXTENDS Naturals, Sequences, TLC

CONSTANTS
    ByteBits,    \* bits of a byte
    Lists,       \* the fields of the structs, without their offsets
    Buffers,     \* contents a buffer may have at first
    Values       \* what setters are called with

ASSUME ByteBitsAssumption == ByteBits \in Nat /\ ByteBits > 1

VARIABLES
    fields,      \* the struct's fields with their bit offsets
    data,        \* the buffer
    held         \* for each field the value it is to read

vars == <<fields, data, held>>

-----------------------------------------------------------------------------
(* Fields: bits, an integer, or a group of these that is set at once.      *)

BitField(width, order) == [kind |-> "bits", width |-> width, order |-> order]
Integer(bytes, endian) == [kind |-> "int", width |-> bytes * ByteBits, order |-> endian]
Group(members)         == [kind |-> "group", members |-> members]

Width(f) ==
    CASE f.kind = "group" ->
            LET s[k \in 0 .. Len(f.members)] ==
                  IF k = 0 THEN 0 ELSE s[k - 1] + f.members[k].width
            IN  s[Len(f.members)]
      [] OTHER -> f.width

\* The bit offset of the n-th of these fields.
Offset(list, n) ==
    LET s[k \in 0 .. n - 1] == IF k = 0 THEN 0 ELSE s[k - 1] + Width(list[k])
    IN  s[n - 1]

Aligned(bits) == bits % ByteBits = 0

\* What the classification accepts: integers and groups start on a byte, bit
\* fields are narrower than one, and the end lies on a byte.
Accepted(list) ==
    /\ \A n \in 1 .. Len(list) :
          IF list[n].kind = "bits" THEN list[n].width \in 1 .. ByteBits - 1
                                   ELSE Aligned(Offset(list, n))
    /\ Aligned(Offset(list, Len(list) + 1))

\* A group is accepted as a struct of its own would be.
AcceptedGroups(list) ==
    \A n \in 1 .. Len(list) : list[n].kind = "group" => Accepted(list[n].members)

Place(list, from) ==
    [n \in 1 .. Len(list) |-> list[n] @@ [at |-> from + Offset(list, n)]]

PlaceAll(list) ==
    [n \in 1 .. Len(list) |->
        IF list[n].kind = "group"
        THEN Group(Place(list[n].members, Offset(list, n)))
        ELSE list[n] @@ [at |-> Offset(list, n)]]

-----------------------------------------------------------------------------
(* Bytes: `width` bits of b from bit `shift` up, and b with them replaced. *)

Extract(b, shift, width) == (b \div 2^shift) % 2^width
Replace(b, shift, width, v) == b + 2^shift * (v % 2^width) - 2^shift * Extract(b, shift, width)

\* Where a bit field lies: its first byte, its bit in there, and, if it runs
\* over, how many bits are in the first byte and in the second.
ByteOf(f)   == f.at \div ByteBits + 1
BitOf(f)    == f.at % ByteBits
Straddles(f) == BitOf(f) + f.width > ByteBits
InFirst(f)  == ByteBits - BitOf(f)
InSecond(f) == f.width - InFirst(f)

\* Bits are counted from the most or from the least significant one.
Shift(f) == IF f.order = "msb" THEN ByteBits - BitOf(f) - f.width ELSE BitOf(f)

\* bitfield_setter_body: the value is cut to the width.
SetWithin(d, f, v) == [d EXCEPT ![ByteOf(f)] = Replace(@, Shift(f), f.width, v)]

\* Mutant: the second byte is not shifted to its end.
SetAcrossUnshifted(d, f, v) ==
    [d EXCEPT ![ByteOf(f)] = Replace(@, 0, InFirst(f), (v % 2^f.width) \div 2^InSecond(f)),
              ![ByteOf(f) + 1] = Replace(@, 0, InSecond(f), v)]

SetAcross(d, f, v) ==
    LET cut == v % 2^f.width
    IN  IF f.order = "msb"
        THEN [d EXCEPT ![ByteOf(f)] = Replace(@, 0, InFirst(f), cut \div 2^InSecond(f)),
                       ![ByteOf(f) + 1] = Replace(@, ByteBits - InSecond(f), InSecond(f), cut)]
        ELSE [d EXCEPT ![ByteOf(f)] = Replace(@, BitOf(f), InFirst(f), cut),
                       ![ByteOf(f) + 1] = Replace(@, 0, InSecond(f), cut \div 2^InFirst(f))]

\* primitive_setter_body: to_be_bytes or to_le_bytes of the value.
Bytes(f) == f.width \div ByteBits
Digit(f, k) == IF f.order = "big" THEN Bytes(f) - k ELSE k - 1

SetInteger(d, f, v) ==
    [b \in 1 .. Len(d) |->
        LET k == b - ByteOf(f) + 1
        IN  IF k \in 1 .. Bytes(f) THEN Extract(v, ByteBits * Digit(f, k), ByteBits) ELSE d[b]]

SetOne(d, f, v) ==
    CASE f.kind = "int" -> SetInteger(d, f, v)
      [] f.kind = "bits" /\ Straddles(f) -> SetAcross(d, f, v)
      [] f.kind = "bits" /\ ~Straddles(f) -> SetWithin(d, f, v)

\* concat_setter_body and multibyte_setter_body: one member after the other.
SetField(d, f, v) ==
    IF f.kind # "group" THEN SetOne(d, f, v)
    ELSE LET after[k \in 0 .. Len(f.members)] ==
               IF k = 0 THEN d ELSE SetOne(after[k - 1], f.members[k], v[k])
         IN  after[Len(f.members)]

-----------------------------------------------------------------------------
(* The parser's getters.                                                   *)

GetAcross(d, f) ==
    LET first == d[ByteOf(f)]
        second == d[ByteOf(f) + 1]
    IN  IF f.order = "msb"
        THEN (first % 2^InFirst(f)) * 2^InSecond(f) + second \div 2^(ByteBits - InSecond(f))
        ELSE Extract(first, BitOf(f), InFirst(f)) + (second % 2^InSecond(f)) * 2^InFirst(f)

GetInteger(d, f) ==
    LET s[k \in 0 .. Bytes(f)] ==
          IF k = 0 THEN 0
          ELSE s[k - 1] + d[ByteOf(f) + k - 1] * 2^(ByteBits * Digit(f, k))
    IN  s[Bytes(f)]

GetOne(d, f) ==
    CASE f.kind = "int" -> GetInteger(d, f)
      [] f.kind = "bits" /\ Straddles(f) -> GetAcross(d, f)
      [] f.kind = "bits" /\ ~Straddles(f) -> Extract(d[ByteOf(f)], Shift(f), f.width)

GetField(d, f) ==
    IF f.kind # "group" THEN GetOne(d, f)
    ELSE [k \in 1 .. Len(f.members) |-> GetOne(d, f.members[k])]

-----------------------------------------------------------------------------
(* Setters in any order, any number of times.                              *)

Fits(list, d) == Offset(list, Len(list) + 1) <= ByteBits * Len(d)

Init ==
    /\ \E list \in Lists :
          /\ Accepted(list) /\ AcceptedGroups(list)
          /\ fields = PlaceAll(list)
          /\ data \in {d \in Buffers : Fits(list, d)}
    /\ held = [n \in 1 .. Len(fields) |-> GetField(data, fields[n])]

\* A setter's argument is as wide as a whole byte, or as the integer.
Arguments(f) ==
    CASE f.kind = "group" ->
            {[k \in 1 .. Len(f.members) |-> (v + k) % 2^f.members[k].width] : v \in Values}
      [] f.kind = "bits" -> {v \in Values : v < 2^ByteBits}
      [] OTHER           -> {v \in Values : v < 2^f.width}

Kept(f, v) == IF f.kind = "bits" THEN v % 2^f.width ELSE v

Set ==
    \E n \in 1 .. Len(fields) : \E v \in Arguments(fields[n]) :
        /\ data' = SetField(data, fields[n], v)
        /\ held' = [held EXCEPT ![n] = Kept(fields[n], v)]
        /\ UNCHANGED fields

Next == Set
Spec == Init /\ [][Next]_vars

-----------------------------------------------------------------------------
\* Type invariant: the bytes stay bytes.
TypeOK == \A b \in 1 .. Len(data) : data[b] \in 0 .. 2^ByteBits - 1

\* The getter of every field reads what its setter was given last, or what it
\* read at the start: no setter disturbs another field, and reader and writer
\* take the same bits in the same order.
ReadsWhatWasSet == \A n \in 1 .. Len(fields) : GetField(data, fields[n]) = held[n]
=============================================================================
