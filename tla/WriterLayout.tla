---------------------------- MODULE WriterLayout ----------------------------
(***************************************************************************)
(* How bytesmith-codegen's writer.rs classifies a struct: which of its     *)
(* writer shapes the struct gets, and with which offsets and segments.     *)
(*                                                                         *)
(* An item is a field as the classification sees it.  Everything here lies *)
(* on byte boundaries; the bits within a byte are the concern of           *)
(* FixedFields.  A size counts bytes, and an offset is where the writer    *)
(* puts a field, which need not be where the parser looks for it.          *)
(***************************************************************************)
EXTENDS Digits, FiniteSets

FoldItems(step(_, _, _), from, items) ==
    LET after[n \in 0 .. Len(items)] ==
          IF n = 0 THEN from ELSE step(after[n - 1], items[n], n)
    IN  after[Len(items)]

\* The elements of s that are in the set, and the sum of the first n values of f.
Those(s, set) ==
    LET kept[n \in 0 .. Len(s)] ==
          IF n = 0 THEN <<>>
          ELSE IF s[n] \in set THEN Append(kept[n - 1], s[n]) ELSE kept[n - 1]
    IN  kept[Len(s)]

Total(f, n) == LET s[k \in 0 .. n] == IF k = 0 THEN 0 ELSE s[k - 1] + f[k] IN s[n]

-----------------------------------------------------------------------------
(* Items, and what an expression over them looks like.                     *)

ItemKinds ==
    {"num",     \* unsigned integer of one byte
     "int",     \* signed integer of one byte
     "bits",    \* bit fields of eight bits in all
     "const",   \* a literal
     "fixed",   \* byte array or struct whose size is known
     "multi",   \* array of wider integers, or concat, of known size
     "arr",     \* [u8; expr]
     "greedy",  \* [u8] with @greedy
     "hook",    \* [u8] with @hook
     "ref",     \* a struct with @len
     "recs",    \* array of structs of known size, counted or greedy
     "union",
     "cond"}    \* if ... { } else { }, not a field

\* field * times + plus - minus; of = 0 stands for no expression.  A length, or
\* what a condition compares with a literal.
Affine(e) == e.of # 0 /\ e.times = 1 /\ (e.plus = 0 \/ e.minus = 0)

\* Mutant: the sign of the constant is kept.
LenValueUnsolved(n, e) == IF e.plus > 0 THEN n + e.plus ELSE Minus(n, e.minus)

\* The expression solved for the field: what to write for n bytes of region.
LenValue(n, e) == IF e.plus > 0 THEN Minus(n, e.plus) ELSE n + e.minus

IsNumber(it) == it.kind \in {"num", "int", "bits"}

\* Attributes no writer shape knows: @pad and the like, here as `pad` bytes in
\* front and `skip`.
Plain(it) == it.pad = 0 /\ ~it.skip

\* classify_fixed_field: what a run of fields may hold.
FixedField(it) == it.kind \in {"num", "int", "bits", "fixed"} /\ Plain(it) /\ it.len.of = 0

\* classify_field_type, for a struct with padding.
PaddedField(it) ==
    it.kind \in {"num", "int", "bits", "const", "fixed", "multi"} /\ it.len.of = 0

\* fields_all_simple
Simple(it) == it.kind # "multi"

\* field_bit_width; an item that is not of known size takes no room in a prefix.
Size(it) == IF it.kind \in {"num", "int", "bits"} THEN 1
            ELSE IF it.kind \in {"const", "fixed", "multi"} THEN it.size ELSE 0

\* Where a field of a run lies: behind the fields that precede it in the run.
OffsetIn(items, run, i) ==
    Total([n \in 1 .. Len(run) |-> IF run[n] < i THEN Size(items[run[n]]) ELSE 0], Len(run))
RunBytes(items, run) == OffsetIn(items, run, Len(items) + 1)

Upto(n) == [i \in 1 .. n |-> i]
AllFixed(items, from, to) == \A i \in from .. to : FixedField(items[i])

\* The unsigned integer an affine length names, if it is one of these fields.
LenField(items, fields, e) ==
    IF Affine(e) /\ e.of \in fields /\ items[e.of].kind = "num" THEN e.of ELSE 0

None == [shape |-> "none"]

-----------------------------------------------------------------------------
(* Arms of a union.                                                        *)

\* A run of fixed fields, a region whose length a field of the run before it
\* holds (or none does), or a region with a variable-length integer in front.
Run(fields)            == [k |-> "run", fields |-> fields]
Region(i, len, e, run) == [k |-> "dyn", item |-> i, len |-> len, e |-> e, run |-> run]
VarintRegion(i, hook)  == [k |-> "varint", item |-> i, hook |-> hook]

RunIfAny(fields) == IF fields = <<>> THEN <<>> ELSE <<Run(fields)>>

\* classify_variant_layout: `run` collects fixed fields, `hook` is a length
\* hook whose region has not come yet.
VariantStep(items, s, it, i) ==
    CASE ~s.ok -> s
      [] s.ok /\ it.kind = "arr" /\ ~Plain(it) -> [s EXCEPT !.ok = FALSE]
      [] s.ok /\ it.kind = "arr" /\ Plain(it) /\ s.hook # 0 ->
            [s EXCEPT !.ok = it.len.of = s.hook /\ Affine(it.len)
                                /\ it.len.plus = 0 /\ it.len.minus = 0,
                      !.segs = @ \o RunIfAny(s.run) \o <<VarintRegion(i, s.hook)>>,
                      !.run = <<>>, !.hook = 0]
      [] s.ok /\ it.kind = "arr" /\ Plain(it) /\ s.hook = 0 ->
            LET len == LenField(items, {s.run[n] : n \in 1 .. Len(s.run)}, it.len)
            IN  [s EXCEPT !.ok = len # 0,
                          !.segs = @ \o <<Run(s.run), Region(i, len, it.len, Len(@) + 1)>>,
                          !.run = <<>>]
      [] s.ok /\ it.kind = "hook" ->
            [s EXCEPT !.ok = it.write = "encode, width" /\ s.hook = 0, !.hook = i]
      [] s.ok /\ it.kind = "greedy" /\ i = Len(items) ->
            [s EXCEPT !.segs = @ \o RunIfAny(s.run) \o <<Region(i, 0, it.len, 0)>>,
                      !.run = <<>>]
      [] OTHER -> [s EXCEPT !.ok = FixedField(it), !.run = Append(@, i)]

\* Its end: the last run, and a layout only if a region is among the segments.
VariantEnd(s) ==
    IF s.ok /\ s.hook = 0 /\ \E n \in 1 .. Len(s.segs) : s.segs[n].k # "run"
    THEN s.segs \o RunIfAny(s.run) ELSE <<>>

VariantLayout(items) ==
    VariantEnd(FoldItems(LAMBDA t, it, i : VariantStep(items, t, it, i),
                         [ok |-> TRUE, segs |-> <<>>, run |-> <<>>, hook |-> 0], items))

\* The values an arm writes to the discriminants: those of its first matcher
\* that is not a wildcard (<<>>), or none.
DiscValues(arm) ==
    LET literal == {n \in 1 .. Len(arm.matchers) : arm.matchers[n] # <<>>}
    IN  IF literal = {} THEN <<>>
        ELSE arm.matchers[CHOOSE n \in literal : \A m \in literal : n <= m]

Wild(arm) == DiscValues(arm) = <<>>

\* push_union_variant: how an arm is written, if it can be.
ArmBody(arm, lenient, wildcardWritable) ==
    IF AllFixed(arm.items, 1, Len(arm.items))
    THEN IF Wild(arm) /\ (arm.items = <<>> \/ ~wildcardWritable) THEN "skipped" ELSE "fixed"
    ELSE IF lenient /\ (~Wild(arm) \/ wildcardWritable) /\ VariantLayout(arm.items) # <<>>
         THEN "dynamic"
         ELSE IF Wild(arm) \/ lenient THEN "skipped" ELSE "fails"

\* Arms that can be written: none fails, and not all are skipped.
SomeWritten(bodies) ==
    IF /\ \A n \in 1 .. Len(bodies) : bodies[n] # "fails"
       /\ \E n \in 1 .. Len(bodies) : bodies[n] # "skipped"
    THEN bodies ELSE <<>>

\* build_union_layout: "skipped" arms, and those that are errors, have no writer.
UnionLayout(items, u, prefix, lenient) ==
    LET discs == u.discs
        wildcardWritable == Len(discs) = 1 /\ items[discs[1]].kind \in {"num", "int"}
        body(n) == IF u.arms[n].error THEN "skipped"
                   ELSE ArmBody(u.arms[n], lenient, wildcardWritable)
    IN  IF /\ discs # <<>>
           /\ \A d \in 1 .. Len(discs) : /\ \E n \in 1 .. Len(prefix) : prefix[n] = discs[d]
                                         /\ IsNumber(items[discs[d]])
        THEN SomeWritten([n \in 1 .. Len(u.arms) |-> body(n)]) ELSE <<>>

-----------------------------------------------------------------------------
(* The shapes, in the order in which classify tries them.                  *)

\* classify_greedy_struct_tail: attributes of the array are not looked at.
GreedyStructTail(items) ==
    LET n == Len(items)
    IN  IF items[n].kind = "recs" /\ items[n].len.of = 0 /\ AllFixed(items, 1, n - 1)
        THEN [shape |-> "GreedyStructTail", region |-> n] ELSE None

Conditional(items) ==
    LET n == Len(items)
        branch(b) == \A i \in 1 .. Len(b) : FixedField(b[i])
    IN  IF /\ items[n].kind = "cond" /\ AllFixed(items, 1, n - 1)
           /\ IsNumber(items[items[n].len.of])
           /\ branch(items[n].yes) /\ branch(items[n].no)
        THEN [shape |-> "Conditional", region |-> n] ELSE None

\* classify_forward: one region whose length comes first, then fixed fields.
Forward(items) ==
    LET regions == {i \in 1 .. Len(items) :
                        /\ items[i].kind \in {"arr", "ref", "recs"} /\ items[i].len.of # 0
                        /\ Plain(items[i]) /\ Affine(items[i].len)}
        r == CHOOSE i \in regions : \A j \in regions : i <= j
    IN  IF /\ regions # {}
           /\ AllFixed(items, 1, r - 1) /\ AllFixed(items, r + 1, Len(items))
           /\ LenField(items, 1 .. r - 1, items[r].len) # 0
           /\ items[r].kind = "arr" => r < Len(items)
        THEN [shape |-> "Forward", region |-> r] ELSE None

LenUnion(items) ==
    LET n == Len(items)
        bodies == UnionLayout(items, items[n], Upto(n - 1), FALSE)
    IN  IF /\ items[n].kind = "union" /\ Plain(items[n]) /\ AllFixed(items, 1, n - 1)
           /\ LenField(items, 1 .. n - 1, items[n].len) # 0
           /\ bodies # <<>>
        THEN [shape |-> "LenUnion", region |-> n, prefix |-> Upto(n - 1), bodies |-> bodies]
        ELSE None

\* classify_multi_region: regions a hook reads, runs between them, a union with
\* @len whose length and discriminants are in the run in front of it.
RegionStep(items, s, it, i) ==
    CASE ~s.ok -> s
      [] s.ok /\ it.kind = "hook" ->
            [s EXCEPT !.ok = /\ it.write # "encode, width"
                             /\ \A j \in i + 1 .. Len(items) :
                                    items[j].kind \in {"union", "ref"} => items[j].len.of # i,
                      !.segs = @ \o RunIfAny(s.run) \o <<[k |-> "bytes", item |-> i]>>,
                      !.run = <<>>, !.hooked = TRUE]
      [] s.ok /\ it.kind = "union" ->
            LET bodies == UnionLayout(items, it, s.run, TRUE)
            IN  [s EXCEPT !.ok = /\ i = Len(items) /\ Plain(it) /\ bodies # <<>>
                                 /\ LenField(items, {s.run[n] : n \in 1 .. Len(s.run)},
                                             it.len) # 0,
                          !.segs = Append(@, [k |-> "union", item |-> i, fields |-> s.run,
                                              bodies |-> bodies]),
                          !.run = <<>>, !.ended = TRUE]
      [] OTHER -> [s EXCEPT !.ok = FixedField(it), !.run = Append(@, i)]

MultiRegion(items) ==
    LET s == FoldItems(LAMBDA t, it, i : RegionStep(items, t, it, i),
                       [ok |-> TRUE, segs |-> <<>>, run |-> <<>>,
                        hooked |-> FALSE, ended |-> FALSE], items)
    IN  IF s.ok /\ s.hooked /\ s.ended
        THEN [shape |-> "MultiRegion", segs |-> s.segs] ELSE None

FixedPadded(items) ==
    IF /\ \A i \in 1 .. Len(items) : PaddedField(items[i])
       /\ \E i \in 1 .. Len(items) : ~Plain(items[i])
    THEN [shape |-> "FixedPadded"] ELSE None

-----------------------------------------------------------------------------
(* The fall-back: a prefix of known size and at most one tail.             *)

Prefix(items) ==
    {i \in 1 .. Len(items) :
        items[i].kind \in {"num", "int", "bits", "const", "fixed", "multi"}}

\* The prefix fields before item i, as the writer lays them out: a length hook
\* among them takes no room.
PrefixRun(items, i) == Those(Upto(i - 1), Prefix(items))

Hooks(items) == {i \in 1 .. Len(items) : items[i].kind = "hook"}

SimplePrefix(items) == \A i \in Prefix(items) : Simple(items[i])

\* A counted tail, behind a length field or behind a length hook.
DynamicTail(items, n) ==
    LET run == PrefixRun(items, n)
        fields == {run[k] : k \in 1 .. Len(run)}
        hook == CHOOSE i \in Hooks(items) : TRUE
    IN  IF Hooks(items) # {} /\ items[n].len.of = hook /\ items[n].len.times = 1
              /\ items[n].len.plus = 0 /\ items[n].len.minus = 0
        THEN IF items[hook].write = "encode, width"
             THEN [shape |-> "DynamicTailHook", region |-> n, hook |-> hook]
             ELSE [shape |-> "MissingWriteHook"]
        ELSE IF LenField(items, fields, items[n].len) # 0
             THEN [shape |-> "DynamicTail", region |-> n] ELSE None

UnionTail(items, n) ==
    LET run == PrefixRun(items, n)
        hook == CHOOSE i \in Hooks(items) : TRUE
        strict == UnionLayout(items, items[n], run, FALSE)
        lenient == UnionLayout(items, items[n], run, TRUE)
    IN  IF Hooks(items) = {}
        THEN IF Plain(items[n]) /\ items[n].len.of = 0 /\ strict # <<>>
             THEN [shape |-> "Union", region |-> n, prefix |-> run, bodies |-> strict] ELSE None
        ELSE IF Plain(items[n]) /\ items[n].len.of = hook /\ Affine(items[n].len)
             THEN IF items[hook].write # "encode, width" THEN [shape |-> "MissingWriteHook"]
                  ELSE IF lenient = <<>> THEN None
                  ELSE [shape |-> "LenUnionHook", region |-> n, hook |-> hook,
                        prefix |-> run, bodies |-> lenient]
             ELSE None

\* classify_content_hook: the one hook reads the value itself, and is last.
ContentHook(items) ==
    LET hook == CHOOSE i \in Hooks(items) : TRUE
    IN  CASE items[hook].write = "none" -> [shape |-> "MissingWriteHook"]
          [] items[hook].write # "none" /\ (hook # Len(items) \/ ~SimplePrefix(items)) -> None
          [] items[hook].write = "encode, width" /\ hook = Len(items) /\ SimplePrefix(items) ->
                [shape |-> "ContentHook", region |-> hook]
          [] OTHER -> [shape |-> "ContentHookNoWidth", region |-> hook]

LastItem(items) ==
    LET n == Len(items)
    IN  CASE items[n].kind = "greedy" /\ Hooks(items) = {} ->
                IF SimplePrefix(items) THEN [shape |-> "DynamicTailOpen", region |-> n] ELSE None
          [] items[n].kind = "arr" ->
                IF SimplePrefix(items) /\ Plain(items[n]) THEN DynamicTail(items, n) ELSE None
          [] items[n].kind = "union" ->
                IF SimplePrefix(items) THEN UnionTail(items, n) ELSE None
          [] items[n].kind \in {"num", "int", "bits", "const", "fixed", "multi", "hook"} ->
                IF Hooks(items) # {} THEN ContentHook(items) ELSE [shape |-> "Fixed"]
          [] OTHER -> None

FallBack(items) ==
    IF /\ Cardinality(Hooks(items)) <= 1
       /\ \A i \in 1 .. Len(items) - 1 : i \in Prefix(items) \cup Hooks(items)
       /\ \A i \in Prefix(items) : Plain(items[i]) /\ items[i].len.of = 0
    THEN LastItem(items) ELSE None

Attempts(items) ==
    <<GreedyStructTail(items), Conditional(items), Forward(items), LenUnion(items),
      MultiRegion(items), FixedPadded(items), FallBack(items)>>

\* The first shape that fits, or none: then the struct has no writer.
FirstFitting(attempts) ==
    LET fitting == {k \in 1 .. Len(attempts) : attempts[k] # None}
    IN  IF fitting = {} THEN None
        ELSE attempts[CHOOSE k \in fitting : \A j \in fitting : k <= j]

Classify(items) == IF items = <<>> THEN None ELSE FirstFitting(Attempts(items))
=============================================================================
