------------------------------- MODULE Reader -------------------------------
(***************************************************************************)
(* What the generated parser makes of the bytes of a struct: the value of  *)
(* each field and where the struct ends, or that it does not parse.  The   *)
(* fields are the items of WriterLayout, so that a writer can be compared  *)
(* with the parser of the same struct.  StructView has the steps in which  *)
(* the parser gets there; here they are folded into one function.          *)
(***************************************************************************)
EXTENDS WriterLayout

\* The parser so far: the offset it is at and the values of the items.
Start  == [ok |-> TRUE, at |-> 0, vals |-> <<>>]
Failed == [ok |-> FALSE, at |-> 0, vals |-> <<>>]

Take(s, n, value) == [s EXCEPT !.at = @ + n, !.vals = Append(@, value)]

\* The value of a length expression: sums and products saturate.
Amount(e, s) == Minus(s.vals[e.of] * e.times + e.plus, e.minus)

Window(bytes, at, n) == SubSeq(bytes, at + 1, at + n)
Records(bytes, at, n, size) == [k \in 1 .. n |-> Window(bytes, at + (k - 1) * size, size)]

\* n bytes with this value, if they are there.
TakeIfThere(bytes, s, n, value) == IF s.at + n <= Len(bytes) THEN Take(s, n, value) ELSE Failed

NumberStep(bytes, s) ==
    IF s.at < Len(bytes) THEN Take(s, 1, bytes[s.at + 1]) ELSE Failed

BytesStep(bytes, s, n) == TakeIfThere(bytes, s, n, Window(bytes, s.at, n))

ConstStep(it, bytes, s) ==
    IF Window(bytes, s.at, it.size) = it.bytes THEN BytesStep(bytes, s, it.size) ELSE Failed

\* A struct within the bytes @len gives it; the rest of them stays unread.
RefStep(it, bytes, s) ==
    LET n == Amount(it.len, s)
    IN  IF n >= it.size THEN TakeIfThere(bytes, s, n, Window(bytes, s.at, it.size)) ELSE Failed

\* Structs one after the other: as many as counted, or as the bytes hold, in
\* which case they have to hold a whole number of them.
RecordsStep(it, bytes, s) ==
    LET left == Minus(Len(bytes), s.at)
        n == IF it.len.of # 0 THEN Amount(it.len, s) ELSE left \div it.size
    IN  IF it.len.of = 0 /\ left % it.size # 0 THEN Failed
        ELSE TakeIfThere(bytes, s, n * it.size, Records(bytes, s.at, n, it.size))

HookStep(it, bytes, s) ==
    LET r == ReadHook(it.read, SubSeq(bytes, s.at + 1, Len(bytes)))
    IN  IF r.ok THEN Take(s, r.took, r.value) ELSE Failed

PlainStep(it, bytes, s) ==
    CASE IsNumber(it) -> NumberStep(bytes, s)
      [] it.kind = "const" -> ConstStep(it, bytes, s)
      [] it.kind \in {"fixed", "multi"} -> BytesStep(bytes, s, it.size)
      [] it.kind = "arr" -> BytesStep(bytes, s, Amount(it.len, s))
      [] it.kind = "greedy" -> BytesStep(bytes, s, Minus(Len(bytes), s.at))
      [] it.kind = "hook" -> HookStep(it, bytes, s)
      [] it.kind = "ref" -> RefStep(it, bytes, s)
      [] it.kind = "recs" -> RecordsStep(it, bytes, s)

\* @pad: the field starts after the padding.
FieldStep(it, bytes, s) ==
    IF s.ok THEN PlainStep(it, bytes, [s EXCEPT !.at = @ + it.pad]) ELSE Failed

\* A struct whose items are all fields of their own, as in an arm or a branch.
ReadFields(items, bytes) ==
    FoldItems(LAMBDA s, it, i : FieldStep(it, bytes, s), Start, items)

-----------------------------------------------------------------------------
(* Unions and conditional fields.                                          *)

Matches(matcher, discs) == matcher = <<>> \/ matcher = discs

\* The first arm with a matcher that fits; the last one has a wildcard.
ArmFor(u, discs) ==
    LET fitting == {n \in 1 .. Len(u.arms) :
                        \E m \in 1 .. Len(u.arms[n].matchers) :
                            Matches(u.arms[n].matchers[m], discs)}
    IN  CHOOSE n \in fitting : \A m \in fitting : n <= m

DiscsRead(u, s) == [d \in 1 .. Len(u.discs) |-> s.vals[u.discs[d]]]

\* An error arm takes no bytes.  Any other arm is parsed in the window @len
\* gives the union, or in all the bytes there are; the union then takes the
\* window, or what its arm took.
UnionStep(u, bytes, s) ==
    LET arm == ArmFor(u, DiscsRead(u, s))
        window == IF u.len.of = 0 THEN SubSeq(bytes, s.at + 1, Len(bytes))
                                  ELSE Window(bytes, s.at, Amount(u.len, s))
        body == ReadFields(u.arms[arm].items, window)
        took == IF u.len.of = 0 THEN body.at ELSE Amount(u.len, s)
    IN  CASE u.arms[arm].error ->
                TakeIfThere(bytes, s, IF u.len.of = 0 THEN 0 ELSE took,
                            [arm |-> arm, fields |-> <<>>])
          [] ~u.arms[arm].error /\ body.ok ->
                TakeIfThere(bytes, s, took, [arm |-> arm, fields |-> body.vals])
          [] OTHER -> Failed

\* The branch the condition selects, in saturating arithmetic; its fields are as
\* if they stood here.
BranchStep(it, bytes, s) ==
    LET branch == IF (Amount(it.len, s) = it.is) = it.sense THEN it.yes ELSE it.no
        body == ReadFields(branch, SubSeq(bytes, s.at + 1, Len(bytes)))
    IN  IF body.ok THEN Take(s, body.at, body.vals) ELSE Failed

ItemStep(it, bytes, s) ==
    CASE ~s.ok -> Failed
      [] s.ok /\ it.kind = "union" -> UnionStep(it, bytes, s)
      [] s.ok /\ it.kind = "cond" -> BranchStep(it, bytes, s)
      [] OTHER -> FieldStep(it, bytes, s)

\* parse: the values and the end, or not ok.
Read(items, bytes) ==
    FoldItems(LAMBDA s, it, i : ItemStep(it, bytes, s), Start, items)
=============================================================================
