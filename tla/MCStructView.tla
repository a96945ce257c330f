---------------------------- MODULE MCStructView ----------------------------
(* Small structs, inputs and hook answers for model-checking StructView.   *)
EXTENDS StructView, TLC

Const(n)   == [of |-> 0, minus |-> 0, times |-> 1, plus |-> n]
Use(i)     == [of |-> i, minus |-> 0, times |-> 1, plus |-> 0]
When(i, n)   == [of |-> i, is |-> n, sense |-> TRUE]
Unless(i, n) == [of |-> i, is |-> n, sense |-> FALSE]

\* A one-byte integer at offset 0, and the fields that differ from it.
Plain ==
    [kind |-> "uint", size |-> Length(1, 0), count |-> Const(0), bounded |-> FALSE,
     len |-> Const(0), pad |-> 0, padTo |-> 0, align |-> 0, prev |-> 0, gate |-> {},
     lo |-> 0, hi |-> UsizeMax, cap |-> UsizeMax, stop |-> 0, dynamic |-> FALSE,
     cond |-> {}, yes |-> 0, no |-> 0]
Field(kind, prev, changes) == changes @@ [Plain EXCEPT !.kind = kind, !.prev = prev]
Late(kind, prev, changes)  == [Field(kind, prev, changes) EXCEPT !.dynamic = TRUE]
U8(prev)       == Field("uint", prev, <<>>)
LateU8(prev)   == Late("uint", prev, <<>>)
BitsOf(n, prev) == Field("bits", prev, [size |-> Length(0, n)])
IfU8(prev, lit) == Field("uint", prev, [gate |-> {lit}])
EndIf(prev, lit, yes, no, gate) ==
    [Plain EXCEPT !.kind = "join", !.prev = prev, !.cond = {lit}, !.yes = yes,
                  !.no = no, !.gate = gate]

Struct(items, payload) ==
    [items |-> items, bounded |-> FALSE, len |-> Const(0), payload |-> payload]
StructOfLength(len, items, payload) ==
    [items |-> items, bounded |-> TRUE, len |-> len, payload |-> payload]

-----------------------------------------------------------------------------
(* Guarded layouts.                                                        *)

\* n: u8, items: [u16; n - 1] with @max_iter(1), payload: [u8; n]
Counted == Struct(
    <<U8(0),
      Field("counted", 1, [size |-> Length(2, 0), cap |-> 1,
                           count |-> [of |-> 1, minus |-> 1, times |-> 1, plus |-> 0]]),
      Late("counted", 2, [count |-> Use(1)])>>, 3)

\* k: b<3> in 0 .. 2, bits: [b<3>; k], x: u8 through a hook, wherever it falls
BitFields == Struct(
    <<Field("bits", 0, [size |-> Length(0, 3), hi |-> 2]),
      Field("counted", 1, [size |-> Length(0, 3), count |-> Use(1)]),
      Late("conv", 2, <<>>)>>, 0)

\* k: b<3>, bits: [b<5>; k], rest: [u8] read from a bit offset
BitsThenRest == Struct(
    <<BitsOf(3, 0), Field("counted", 1, [size |-> Length(0, 5), count |-> Use(1)]),
      Late("greedy", 2, <<>>)>>, 3)

\* name: [u8] up to a 0, of at most 1 byte; x: u8
Terminated == Struct(<<Field("until", 0, [cap |-> 1]), LateU8(1)>>, 1)

\* n: u8 in 1 .. 2, name: [u8] up to a 0 in n bytes, rest: [u16] to the end
BoundedArrays == Struct(
    <<Field("uint", 0, [lo |-> 1, hi |-> 2]),
      Field("until", 1, [bounded |-> TRUE, len |-> Use(1)]),
      Late("greedy", 2, [size |-> Length(2, 0)])>>, 3)

\* n: u8, pairs: [u16] in n bytes, which may end in half a pair; x: u8
HalfPair == Struct(
    <<U8(0), Field("greedy", 1, [size |-> Length(2, 0), bounded |-> TRUE, len |-> Use(1)]),
      LateU8(2)>>, 2)

\* v: hook, rest: [u8; v], aligned to 2
Hooked == Struct(
    <<Field("hook", 0, [hi |-> 2]), Late("counted", 1, [count |-> Use(1), align |-> 2])>>, 2)

\* n: u8, v: hook in n bytes, w: hook after it
BoundedHook == Struct(
    <<U8(0), Field("hook", 1, [bounded |-> TRUE, len |-> Use(1), pad |-> 1]),
      Late("hook", 2, <<>>)>>, 0)

\* n: u8, inner: a struct of dynamic length, outer: another in n bytes
Nested == Struct(
    <<U8(0), Field("ref", 1, <<>>), Late("ref", 2, [bounded |-> TRUE, len |-> Use(1)])>>, 3)

\* n: u8, if n = 1 { a: u16, b: u8 } else { c: u8 }, tail: [u8] of at most 1
Conditional == Struct(
    <<U8(0), Field("uint", 1, [size |-> Length(2, 0), gate |-> {When(1, 1)}]),
      IfU8(2, When(1, 1)), IfU8(1, Unless(1, 1)),
      EndIf(1, When(1, 1), 3, 4, {}), Late("greedy", 5, [cap |-> 1])>>, 6)

\* n: u8, m: u8, if n = 1 { a: u8, if m = 2 { b: u8 } }, tail: u8
NestedIf == Struct(
    <<U8(0), U8(1), IfU8(2, When(1, 1)),
      Field("uint", 3, [gate |-> {When(1, 1), When(2, 2)}]),
      EndIf(3, When(2, 2), 4, 3, {When(1, 1)}),
      EndIf(2, When(1, 1), 5, 2, {}), LateU8(6)>>, 7)

\* n: u8, a: [u8; n], m: u8, k: u8, if m = 1 { if k = 2 { b: u8 } }, tail: u8
LateNestedIf == Struct(
    <<U8(0), Field("counted", 1, [count |-> Use(1)]), LateU8(2), LateU8(3),
      Late("uint", 4, [gate |-> {When(3, 1), When(4, 2)}]),
      [EndIf(4, When(4, 2), 5, 4, {When(3, 1)}) EXCEPT !.dynamic = TRUE],
      [EndIf(4, When(3, 1), 6, 4, {}) EXCEPT !.dynamic = TRUE], LateU8(7)>>, 8)

\* n: u8, a: [u8; n], x: u8 padded to 2 bytes, y: u8 one byte on, aligned to 2
Padded == Struct(
    <<U8(0), Field("counted", 1, [count |-> Use(1)]), Late("uint", 2, [padTo |-> 2]),
      Late("uint", 3, [pad |-> 1, align |-> 2])>>, 2)

\* @len(n): n: u8, x: u8, y: [u8] in n - 2 bytes
Bounded == StructOfLength(Use(1),
    <<U8(0), U8(1),
      Field("greedy", 2, [bounded |-> TRUE,
                          len |-> [of |-> 1, minus |-> 2, times |-> 1, plus |-> 0]])>>, 3)

-----------------------------------------------------------------------------
(* Layouts that are not.                                                   *)

\* n: u8 in 0 .. 1, then a hook after one byte of padding: dissect goes past a
\* number that parse rejects
PaddedHook == Struct(<<Field("uint", 0, [hi |-> 1]), Field("hook", 1, [pad |-> 1])>>, 0)

\* n: u8, if n = 1 { a: u16, v: hook, b: u8 }
ConditionalHook == Struct(
    <<U8(0), Field("uint", 1, [size |-> Length(2, 0), gate |-> {When(1, 1)}]),
      Field("hook", 2, [gate |-> {When(1, 1)}]), Late("uint", 3, [gate |-> {When(1, 1)}]),
      EndIf(1, When(1, 1), 4, 1, {})>>, 0)

\* @len(total): total: u8, x: u8, payload: [u8] (specs/ip.bsm has this form)
ShortLength == StructOfLength(Use(1), <<U8(0), U8(1), Field("greedy", 2, <<>>)>>, 3)

\* @len(total): total: u8, payload: [u8; 2]
ShortPayload == StructOfLength(Use(1), <<U8(0), Field("counted", 1, [count |-> Const(2)])>>, 2)

\* k: b<3>, bits: [b<3>; k], x: u8, if x = 1 { y: u8 }
LateInteger == Struct(
    <<BitsOf(3, 0), Field("counted", 1, [size |-> Length(0, 3), count |-> Use(1)]),
      LateU8(2), Late("uint", 3, [gate |-> {When(3, 1)}]),
      [EndIf(3, When(3, 1), 4, 3, {}) EXCEPT !.dynamic = TRUE]>>, 0)

\* The same integer as the struct's @len
LateLength == StructOfLength(Use(3),
    <<BitsOf(3, 0), Field("counted", 1, [size |-> Length(0, 3), count |-> Use(1)]),
      LateU8(2)>>, 0)

\* n: u8, if n = 1 { a: u16, b: u8 }: the branch may be absent
AbsentTail == Struct(
    <<U8(0), Field("uint", 1, [size |-> Length(2, 0), gate |-> {When(1, 1)}]),
      IfU8(2, When(1, 1)), EndIf(1, When(1, 1), 3, 1, {})>>, 0)

GuardedLayouts ==
    {Counted, BitFields, BitsThenRest, Terminated, BoundedArrays, HalfPair, Hooked, BoundedHook,
     Nested, Conditional, NestedIf, LateNestedIf, Padded, Bounded, ShortPayload, AbsentTail}
AllLayouts ==
    GuardedLayouts \cup {PaddedHook, ConditionalHook, ShortLength, LateInteger, LateLength}

OnlyPaddedHook      == {PaddedHook}
OnlyShortLength     == {ShortLength}
OnlyShortPayload    == {ShortPayload}
OnlyAbsentTail      == {AbsentTail}
OnlyConditionalHook == {ConditionalHook}
OnlyLateInteger     == {LateInteger}

\* 97 is 011 00001: three as a b<3>.
Bytes       == {0, 1, 2, 97}
SmallInputs ==
    UNION {[1 .. n -> Bytes] : n \in 0 .. 4} \cup [1 .. 5 -> {1, 2}]

SmallAnswers ==
    {[ok |-> FALSE, value |-> 0, used |-> 0], [ok |-> TRUE, value |-> 2, used |-> 1],
     [ok |-> TRUE, value |-> 1, used |-> 2], [ok |-> TRUE, value |-> 3, used |-> 5]}

=============================================================================
