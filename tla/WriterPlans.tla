---------------------------- MODULE WriterPlans ----------------------------
(***************************************************************************)
(* What the writers that writer.rs emits do with one content: for every    *)
(* shape of WriterLayout a plan, that is, the bytes the writer asks for,   *)
(* the stores it makes in their order, and the error that stops it.        *)
(*                                                                         *)
(* A content gives each item its value: a byte, a sequence of bytes, for a *)
(* content hook a number, for an array of structs a sequence of them, for  *)
(* a union the arm with its discriminant and content, for a conditional    *)
(* the fields of both branches, each of which may be Absent, that is None. *)
(***************************************************************************)
EXTENDS WriterLayout

CONSTANT OverflowChecks      \* whether the build checks arithmetic (debug builds do)

ASSUME OverflowChecksAssumption == OverflowChecks \in BOOLEAN

Absent  == <<>>
Some(v) == <<v>>

-----------------------------------------------------------------------------
(* The structs that the parser of specifications and the checks let        *)
(* through, and what the types of a content let a caller give.             *)

Byte  == 0 .. MaxByte
Bytes == Seq(Byte)

Exprs == [of: Nat, times: Nat, plus: Nat, minus: Nat]

ItemsWith(arms, branches) ==
    [kind: ItemKinds, pad: Nat, skip: BOOLEAN, size: Nat, bytes: Bytes, len: Exprs,
     write: {"none", "encode", "encode, width"}, read: {"none", "varint", "prefixed", "name"},
     discs: Seq(Nat), arms: arms, is: Byte, sense: BOOLEAN, yes: branches, no: branches]

Fields == ItemsWith({<<>>}, {<<>>})
Arms   == [error: BOOLEAN, matchers: Seq(Bytes), items: Seq(Fields)]
Items  == ItemsWith(Seq(Arms), Seq(Fields))

\* The i-th of the fields: an expression names fields in front of it.
FieldWell(it, i) ==
    /\ it.len.of < i
    /\ it.kind = "const" => Len(it.bytes) = it.size
    /\ it.kind = "recs" => it.size > 0
    /\ it.kind = "hook" => it.read # "none"

FieldsWell(fields) ==
    \A i \in 1 .. Len(fields) :
        FieldWell(fields[i], i) /\ fields[i].kind \notin {"union", "cond"}

\* A matcher has a value for each discriminant.
ItemWell(it, i) ==
    /\ FieldWell(it, i)
    /\ it.kind = "union" =>
          \A n \in 1 .. Len(it.arms) :
              /\ FieldsWell(it.arms[n].items)
              /\ \A m \in 1 .. Len(it.arms[n].matchers) :
                    it.arms[n].matchers[m] = <<>> \/ Len(it.arms[n].matchers[m]) = Len(it.discs)
    /\ it.kind = "cond" => it.len.of # 0 /\ FieldsWell(it.yes) /\ FieldsWell(it.no)

FieldHolds(it, v) ==
    /\ IsNumber(it) => v \in Byte
    /\ it.kind \in {"fixed", "multi", "ref"} => v \in Bytes /\ Len(v) = it.size
    /\ it.kind \in {"arr", "greedy"} => v \in Bytes
    /\ it.kind = "recs" => v \in Seq(Bytes) /\ \A n \in 1 .. Len(v) : Len(v[n]) = it.size

FieldsHold(fields, values) ==
    DOMAIN values = 1 .. Len(fields) /\ \A i \in 1 .. Len(fields) : FieldHolds(fields[i], values[i])

\* A branch's fields are optional.
BranchHolds(branch, values) ==
    \A i \in 1 .. Len(branch) : values[i] # Absent => FieldHolds(branch[i], values[i][1])

ItemHolds(it, v) ==
    CASE it.kind = "union" ->
            v.arm \in 1 .. Len(it.arms) /\ v.disc \in Byte
              /\ FieldsHold(it.arms[v.arm].items, v.fields)
      [] it.kind = "cond" -> BranchHolds(it.yes, v.yes) /\ BranchHolds(it.no, v.no)
      [] OTHER -> FieldHolds(it, v)

\* The writer of a union has the arms that can be written, a content hook takes
\* a number, and a region that a hook reads is bytes.
UnionHolds(bodies, v) == bodies[v.arm] \in {"fixed", "dynamic"}

SegmentHolds(items, c, seg) ==
    CASE seg.k = "union" -> UnionHolds(seg.bodies, c[seg.item])
      [] seg.k = "bytes" -> /\ c[seg.item] \in Bytes
                            /\ items[seg.item].write = "encode" => Len(c[seg.item]) <= MaxByte
      [] OTHER -> TRUE

ShapeHolds(items, c, lay) ==
    /\ lay.shape \in {"Union", "LenUnion", "LenUnionHook"} => UnionHolds(lay.bodies, c[lay.region])
    /\ lay.shape = "ContentHook" => c[lay.region] \in 0 .. MaxHooked
    /\ lay.shape = "ContentHookNoWidth" => c[lay.region] \in Nat
    /\ lay.shape = "MultiRegion" =>
          \A n \in 1 .. Len(lay.segs) : SegmentHolds(items, c, lay.segs[n])

\* A struct, and a content of it.
StructWell(items) == items \in Seq(Items) /\ \A i \in 1 .. Len(items) : ItemWell(items[i], i)
ContentOf(items, c) ==
    /\ DOMAIN c = 1 .. Len(items) /\ \A i \in 1 .. Len(items) : ItemHolds(items[i], c[i])
    /\ ShapeHolds(items, c, Classify(items))

-----------------------------------------------------------------------------
(* Plans.                                                                  *)

\* `hook`: the bytes are written by a hook, which reports a slice too short.
Store(at, bytes) == [at |-> at, bytes |-> bytes, hook |-> FALSE]
HookStore(at, bytes) == [at |-> at, bytes |-> bytes, hook |-> TRUE]
\* Mutant: one byte further.
ShiftFurther(stores, by) == [n \in 1 .. Len(stores) |-> [stores[n] EXCEPT !.at = @ + by + 1]]

Shift(stores, by) == [n \in 1 .. Len(stores) |-> [stores[n] EXCEPT !.at = @ + by]]

\* `early`: the error before the first store; `late`: the one after the last.
Plan(need, stores) ==
    [need |-> need, early |-> "none", stores |-> stores, late |-> "none", used |-> need]

\* p, then q on the bytes from `at` on, unless an error has stopped p.
Then(p, q, at) ==
    IF p.late # "none" THEN p
    ELSE [p EXCEPT !.stores = @ \o Shift(q.stores, at), !.late = q.late]

-----------------------------------------------------------------------------
(* Fields of known size, and the length field of a region.                 *)

FieldBytes(it, v) == IF it.kind = "const" THEN it.bytes ELSE IF IsNumber(it) THEN <<v>> ELSE v

\* The stores of a run's fields but some, at the offsets they have in it.
RunStores(items, c, run, but) ==
    LET kept == Those(run, (1 .. Len(items)) \ but)
    IN  [n \in 1 .. Len(kept) |->
            Store(OffsetIn(items, run, kept[n]), FieldBytes(items[kept[n]], c[kept[n]]))]

LenError(e, n) == IF LenValue(n, e) > MaxByte THEN "ValueTooLarge" ELSE "none"

\* The field that holds the length of n bytes of region, checked on the spot.
LenPlan(items, run, e, n) ==
    [Plan(0, IF LenError(e, n) = "none"
             THEN <<Store(OffsetIn(items, run, e.of), <<LenValue(n, e)>>)>> ELSE <<>>)
        EXCEPT !.late = LenError(e, n)]

FixedPlan(items, c) ==
    Plan(RunBytes(items, Upto(Len(items))), RunStores(items, c, Upto(Len(items)), {}))

\* FixedPadded: padding in front of fields, all zeroes first, skipped fields not set.
PaddedOffset(items, i) ==
    Total([j \in 1 .. i |-> items[j].pad + (IF j < i THEN Size(items[j]) ELSE 0)], i)
\* Mutant: the padding is not zeroed.
PaddedPlanKept(items, c) ==
    LET n == Len(items)
    IN  Plan(PaddedOffset(items, n) + Size(items[n]),
             [k \in 1 .. n |-> Store(PaddedOffset(items, k), FieldBytes(items[k], c[k]))])
PaddedPlan(items, c) ==
    LET n == Len(items)
        size == PaddedOffset(items, n) + Size(items[n])
        set == Those(Upto(n), {i \in 1 .. n : ~items[i].skip})
    IN  Plan(size, <<Store(0, Zeroes(size))>>
                     \o [k \in 1 .. Len(set) |->
                            Store(PaddedOffset(items, set[k]),
                                  FieldBytes(items[set[k]], c[set[k]]))])

-----------------------------------------------------------------------------
(* emit_variant_writer: an arm with regions.                               *)

SegmentBytes(items, c, seg) ==
    CASE seg.k = "run" -> RunBytes(items, seg.fields)
      [] seg.k = "dyn" -> Len(c[seg.item])
      [] seg.k = "varint" -> Width(Cast(Len(c[seg.item]))) + Len(c[seg.item])

\* The region a length field measures: derived_len_for_run counts the regions
\* without those behind a variable-length integer, the locals it names count all.
MeasuredRegion(segs, n) ==
    LET plain(k) == Cardinality({j \in 1 .. k - 1 : segs[j].k = "dyn"})
        all(k) == Cardinality({j \in 1 .. k - 1 : segs[j].k # "run"})
    IN  segs[CHOOSE k \in 1 .. Len(segs) : segs[k].k # "run" /\ all(k) = plain(n)].item

LenFields(segs) == {segs[n].len : n \in {k \in 1 .. Len(segs) : segs[k].k = "dyn"}}

SegmentPlan(items, c, segs, n) ==
    LET seg == segs[n]
        derived == {k \in 1 .. Len(segs) :
                        segs[k].k = "dyn" /\ segs[k].len # 0 /\ segs[k].run = n}
        k == CHOOSE d \in derived : TRUE
        fields == Plan(0, RunStores(items, c, seg.fields, LenFields(segs)))
    IN  CASE seg.k = "run" /\ derived = {} -> fields
          [] seg.k = "run" /\ derived # {} ->
                Then(fields, LenPlan(items, seg.fields, segs[k].e,
                                     Len(c[MeasuredRegion(segs, k)])), 0)
          [] seg.k = "dyn" -> Plan(0, <<Store(0, c[seg.item])>>)
          [] seg.k = "varint" ->
                LET v == Varint(Cast(Len(c[seg.item])))
                IN  Plan(0, <<HookStore(0, v), Store(Len(v), c[seg.item])>>)

SegmentsPlan(items, c, segs) ==
    LET base(n) == Total([k \in 1 .. Len(segs) |-> SegmentBytes(items, c, segs[k])], n - 1)
        upto[n \in 0 .. Len(segs)] ==
            IF n = 0 THEN Plan(base(Len(segs) + 1), <<>>)
            ELSE Then(upto[n - 1], SegmentPlan(items, c, segs, n), base(n))
    IN  upto[Len(segs)]

VariantPlan(items, c) == SegmentsPlan(items, c, VariantLayout(items))

-----------------------------------------------------------------------------
(* Unions: v is the arm, its discriminant (for a wildcard) and content.    *)

BodyPlan(u, bodies, v) ==
    IF bodies[v.arm] = "fixed" THEN FixedPlan(u.arms[v.arm].items, v.fields)
                               ELSE VariantPlan(u.arms[v.arm].items, v.fields)

\* The discriminants: what the arm's matcher says, or what the caller says.
DiscStores(items, u, prefix, v) ==
    LET values == IF Wild(u.arms[v.arm]) THEN <<v.disc>> ELSE DiscValues(u.arms[v.arm])
    IN  [d \in 1 .. Len(u.discs) |-> Store(OffsetIn(items, prefix, u.discs[d]), <<values[d]>>)]

DiscSet(u) == {u.discs[d] : d \in 1 .. Len(u.discs)}

\* The fields in front of a union, the discriminants, and then `before` the body.
AroundBody(items, c, prefix, i, but, before) ==
    LET u == items[i]
    IN  Then(Plan(0, RunStores(items, c, prefix, DiscSet(u) \cup but)
                       \o DiscStores(items, u, prefix, c[i])), before, 0)

UnionPlan(items, c, lay) ==
    LET i == lay.region
        at == RunBytes(items, lay.prefix)
        body == BodyPlan(items[i], lay.bodies, c[i])
    IN  [Then(AroundBody(items, c, lay.prefix, i, {}, Plan(0, <<>>)), body, at)
            EXCEPT !.need = at + body.need, !.used = at + body.need]

LenUnionPlan(items, c, lay) ==
    LET i == lay.region
        e == items[i].len
        at == RunBytes(items, lay.prefix)
        body == BodyPlan(items[i], lay.bodies, c[i])
        len == LenPlan(items, lay.prefix, e, body.need)
    IN  [Then(AroundBody(items, c, lay.prefix, i, {e.of}, len), body, at)
            EXCEPT !.need = at + body.need, !.used = at + body.need]

\* The length goes into the hook, behind all other fields of the prefix.
LenUnionHookPlan(items, c, lay) ==
    LET i == lay.region
        at == RunBytes(items, lay.prefix)
        body == BodyPlan(items[i], lay.bodies, c[i])
        v == Varint(Cast(LenValue(body.need, items[i].len)))
        len == Plan(0, <<HookStore(at, v)>>)
    IN  [Then(AroundBody(items, c, lay.prefix, i, {}, len), body, at + Len(v))
            EXCEPT !.need = at + Len(v) + body.need, !.used = at + Len(v) + body.need]

-----------------------------------------------------------------------------
(* One tail.                                                               *)

\* new writes the length, then the fields and the region follow.
DynamicTailPlan(items, c, lay) ==
    LET i == lay.region
        e == items[i].len
        run == PrefixRun(items, i)
        at == RunBytes(items, run)
    IN  [Plan(at + Len(c[i]), LenPlan(items, run, e, Len(c[i])).stores
                                \o RunStores(items, c, run, {e.of}) \o <<Store(at, c[i])>>)
            EXCEPT !.early = LenError(e, Len(c[i]))]

DynamicTailOpenPlan(items, c, lay) ==
    LET run == PrefixRun(items, lay.region)
        at == RunBytes(items, run)
    IN  Plan(at + Len(c[lay.region]),
             RunStores(items, c, run, {}) \o <<Store(at, c[lay.region])>>)

\* The hook is written where it stands, the region behind it; the fields where
\* they would be without it.
DynamicTailHookPlan(items, c, lay) ==
    LET at == RunBytes(items, PrefixRun(items, lay.hook))
        v == Varint(Cast(Len(c[lay.region])))
    IN  Plan(at + Len(v) + Len(c[lay.region]),
             <<HookStore(at, v)>> \o RunStores(items, c, PrefixRun(items, lay.region), {})
               \o <<Store(at + Len(v), c[lay.region])>>)

RecordStores(it, at, records) ==
    [n \in 1 .. Len(records) |-> Store(at + (n - 1) * it.size, records[n])]

GreedyStructTailPlan(items, c, lay) ==
    LET run == Upto(lay.region - 1)
        at == RunBytes(items, run)
    IN  Plan(at + Len(c[lay.region]) * items[lay.region].size,
             RunStores(items, c, run, {}) \o RecordStores(items[lay.region], at, c[lay.region]))

\* lower_condition: the arithmetic of a condition is that of usize, where the
\* parser's saturates.  A difference below zero wraps around, and no literal
\* equals it, unless the build checks arithmetic.
ConditionBelow(it, c) == c[it.len.of] * it.len.times + it.len.plus < it.len.minus
ConditionPanics(it, c) == OverflowChecks /\ ConditionBelow(it, c)
Taken(it, c) ==
    (~ConditionBelow(it, c) /\ c[it.len.of] * it.len.times + it.len.plus - it.len.minus = it.is)
        = it.sense

\* Both branches start behind the prefix; absent fields are not written.
BranchPlan(items, c, lay) ==
    LET it == items[lay.region]
        branch == IF Taken(it, c) THEN it.yes ELSE it.no
        values == IF Taken(it, c) THEN c[lay.region].yes ELSE c[lay.region].no
        run == Upto(lay.region - 1)
        absent == {i \in 1 .. Len(branch) : values[i] = Absent}
        given == [i \in 1 .. Len(branch) |-> IF i \in absent THEN 0 ELSE values[i][1]]
    IN  Plan(RunBytes(items, run) + RunBytes(branch, Upto(Len(branch))),
             RunStores(items, c, run, {})
               \o Shift(RunStores(branch, given, Upto(Len(branch)), absent),
                        RunBytes(items, run)))

\* encoded_len, which every way of writing begins with, evaluates the condition.
PanicPlan == [Plan(0, <<>>) EXCEPT !.early = "panic"]
ConditionalPlan(items, c, lay) ==
    IF ConditionPanics(items[lay.region], c) THEN PanicPlan ELSE BranchPlan(items, c, lay)

ContentHookPlan(items, c, lay) ==
    LET run == PrefixRun(items, lay.region)
        at == RunBytes(items, run)
    IN  Plan(at + Width(c[lay.region]),
             RunStores(items, c, run, {}) \o <<HookStore(at, Varint(c[lay.region]))>>)

\* Without a width only the prefix is asked for, and the hook itself says when a
\* number is too large for it.
ContentHookNoWidthPlan(items, c, lay) ==
    LET run == PrefixRun(items, lay.region)
    IN  IF c[lay.region] <= MaxHooked
        THEN [ContentHookPlan(items, c, lay) EXCEPT !.need = RunBytes(items, run)]
        ELSE [Plan(RunBytes(items, run), RunStores(items, c, run, {}))
                EXCEPT !.late = "ValueTooLarge"]

-----------------------------------------------------------------------------
(* Several regions.                                                        *)

\* The length counts bytes, or structs in an array of them.
ForwardLens(it, v) == IF it.kind = "ref" THEN it.size ELSE Len(v)
ForwardBytes(it, lens) == IF it.kind = "recs" THEN lens * it.size ELSE lens

ForwardPlan(items, c, lay) ==
    LET i == lay.region
        it == items[i]
        run == Upto(i - 1)
        trailer == [n \in 1 .. Len(items) - i |-> i + n]
        at == RunBytes(items, run)
        n == ForwardLens(it, c[i])
        after == at + ForwardBytes(it, n)
        region == IF it.kind = "recs" THEN RecordStores(it, at, c[i]) ELSE <<Store(at, c[i])>>
    IN  [Plan(after + RunBytes(items, trailer),
              LenPlan(items, run, it.len, n).stores \o RunStores(items, c, run, {it.len.of})
                \o region \o Shift(RunStores(items, c, trailer, {}), after))
            EXCEPT !.early = LenError(it.len, n)]

\* What a segment is counted with in encoded_len, and what it takes.
RegionNeed(items, c, seg) ==
    CASE seg.k = "run" -> RunBytes(items, seg.fields)
      [] seg.k = "bytes" -> Len(c[seg.item])
      [] seg.k = "union" -> RunBytes(items, seg.fields)
                              + BodyPlan(items[seg.item], seg.bodies, c[seg.item]).need
RegionBytes(items, c, seg) ==
    IF seg.k = "bytes" /\ items[seg.item].write = "encode"
    THEN Len(Prefixed(c[seg.item])) ELSE RegionNeed(items, c, seg)

RegionPlan(items, c, seg) ==
    CASE seg.k = "run" -> Plan(0, RunStores(items, c, seg.fields, {}))
      [] seg.k = "bytes" -> Plan(0, IF items[seg.item].write = "encode"
                                    THEN <<HookStore(0, Prefixed(c[seg.item]))>>
                                    ELSE <<Store(0, c[seg.item])>>)
      [] seg.k = "union" ->
            LenUnionPlan(items, c, [region |-> seg.item, prefix |-> seg.fields,
                                    bodies |-> seg.bodies])

MultiRegionPlan(items, c, lay) ==
    LET segs == lay.segs
        base(n) == Total([k \in 1 .. Len(segs) |-> RegionBytes(items, c, segs[k])], n - 1)
        need == Total([k \in 1 .. Len(segs) |-> RegionNeed(items, c, segs[k])], Len(segs))
        upto[n \in 0 .. Len(segs)] ==
            IF n = 0 THEN Plan(need, <<>>)
            ELSE Then(upto[n - 1], RegionPlan(items, c, segs[n]), base(n))
    IN  [upto[Len(segs)] EXCEPT !.used = base(Len(segs) + 1)]

-----------------------------------------------------------------------------
Written(lay) == lay.shape \notin {"none", "MissingWriteHook"}

WritePlan(items, c, lay) ==
    CASE lay.shape = "Fixed" -> FixedPlan(items, c)
      [] lay.shape = "FixedPadded" -> PaddedPlan(items, c)
      [] lay.shape = "DynamicTail" -> DynamicTailPlan(items, c, lay)
      [] lay.shape = "DynamicTailHook" -> DynamicTailHookPlan(items, c, lay)
      [] lay.shape = "DynamicTailOpen" -> DynamicTailOpenPlan(items, c, lay)
      [] lay.shape = "GreedyStructTail" -> GreedyStructTailPlan(items, c, lay)
      [] lay.shape = "Conditional" -> ConditionalPlan(items, c, lay)
      [] lay.shape = "ContentHook" -> ContentHookPlan(items, c, lay)
      [] lay.shape = "ContentHookNoWidth" -> ContentHookNoWidthPlan(items, c, lay)
      [] lay.shape = "Union" -> UnionPlan(items, c, lay)
      [] lay.shape = "LenUnion" -> LenUnionPlan(items, c, lay)
      [] lay.shape = "LenUnionHook" -> LenUnionHookPlan(items, c, lay)
      [] lay.shape = "Forward" -> ForwardPlan(items, c, lay)
      [] lay.shape = "MultiRegion" -> MultiRegionPlan(items, c, lay)
=============================================================================
