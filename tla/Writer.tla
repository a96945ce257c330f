------------------------------- MODULE Writer -------------------------------
(***************************************************************************)
(* A caller of a generated writer.  It writes one content into a buffer    *)
(* with write_into, or gets a new one from to_vec, or makes a writer with  *)
(* new and sets the fields in an order of its own, and then may edit one   *)
(* field in place through writer_over.  The stores of a call are steps: a  *)
(* call that fails leaves behind what it had stored.                       *)
(***************************************************************************)
EXTENDS WriterPlans, Reader

CONSTANTS
    Cases,       \* what can be written: records [items, content]
    Sizes,       \* lengths of the caller's buffer
    Fills,       \* bytes it may be full of
    FirstCap,    \* to_vec without a width starts with so many bytes
    LastCap      \* and gives up from so many on

ASSUME CasesAssumption == \A k \in Cases : StructWell(k.items) /\ ContentOf(k.items, k.content)
ASSUME BuffersAssumption ==
    Sizes \subseteq Nat /\ Fills \subseteq 0 .. MaxByte /\ {FirstCap, LastCap} \subseteq Nat

VARIABLES
    items,       \* the struct
    content,     \* what its fields are to hold
    layout,      \* the writer it has
    plan,        \* what that does with the content
    by,          \* the function that was called
    call,        \* "free" before the call, "busy" during it, "returned" after it
    buffer,      \* the bytes
    handed,      \* the bytes as they were when the call began
    todo,        \* stores still to come
    result       \* the outcome

vars == <<items, content, layout, plan, by, call, buffer, handed, todo, result>>

Functions == {"none", "write_into", "to_vec", "new"}
Phases == {"free", "busy", "returned", "edited"}
Outcomes == {"none", "ok", "vec", "NotEnoughSpace", "ValueTooLarge", "InvalidContent", "panic"}

Result(is, used) == [is |-> is, used |-> used]
Pending == Result("none", 0)

struct == <<items, content, layout, plan>>

-----------------------------------------------------------------------------
(* Stores.                                                                 *)

InRange(bytes, s) == s.at + Len(s.bytes) <= Len(bytes)

Stored(bytes, s) ==
    [k \in 1 .. Len(bytes) |->
        IF k > s.at /\ k <= s.at + Len(s.bytes) THEN s.bytes[k - s.at] ELSE bytes[k]]

\* The bytes after all of the stores.
StoredAll(bytes, stores) ==
    LET after[n \in 0 .. Len(stores)] ==
          IF n = 0 THEN bytes ELSE Stored(after[n - 1], stores[n])
    IN  after[Len(stores)]

Without(s, n) == SubSeq(s, 1, n - 1) \o SubSeq(s, n + 1, Len(s))

-----------------------------------------------------------------------------
(* write_into and to_vec.                                                  *)

Init ==
    /\ \E k \in Cases : items = k.items /\ content = k.content
    /\ layout = Classify(items) /\ Written(layout)
    /\ plan = WritePlan(items, content, layout)
    /\ \E n \in Sizes, fill \in Fills : buffer = [i \in 1 .. n |-> fill]
    /\ by = "none" /\ call = "free" /\ handed = buffer /\ todo = <<>> /\ result = Pending

\* Why a call ends before its first store: the room, then the length field.
Refusal(room) == IF room < plan.need THEN "NotEnoughSpace" ELSE plan.early

WriteInto ==
    /\ call = "free"
    /\ by' = "write_into" /\ call' = "busy" /\ todo' = plan.stores
    /\ UNCHANGED <<struct, buffer, handed, result>>

\* A buffer of zeroes, as long as encoded_len says if the writer has it.
ToVec ==
    /\ call = "free"
    /\ by' = "to_vec" /\ call' = "busy" /\ todo' = plan.stores
    /\ buffer' = Zeroes(IF layout.shape = "ContentHookNoWidth" THEN FirstCap ELSE plan.need)
    /\ handed' = buffer'
    /\ UNCHANGED <<struct, result>>

\* These cut the vector to what was written, which is nothing after an error.
Cutting == {"ContentHook", "ContentHookNoWidth", "MultiRegion"}

\* to_vec has write_into's outcome before it, and shows no error.
Vector(is, used) ==
    LET cut == IF layout.shape \notin Cutting THEN buffer
               ELSE SubSeq(buffer, 1, IF is = "ok" THEN used ELSE 0)
    IN  /\ buffer' = cut
        /\ result' = Result("vec", Len(cut))
        /\ call' = "returned" /\ todo' = <<>> /\ UNCHANGED handed

\* Mutant: the buffer keeps its length.
GrowNothing ==
    /\ buffer' = Zeroes(Len(buffer)) /\ handed' = buffer'
    /\ todo' = plan.stores
    /\ UNCHANGED <<call, result>>

\* Without a width the buffer is doubled until it is long enough.
Grow ==
    /\ buffer' = Zeroes(2 * Len(buffer)) /\ handed' = buffer'
    /\ todo' = plan.stores
    /\ UNCHANGED <<call, result>>

Return(is, used) ==
    CASE is = "panic" \/ by # "to_vec" ->
            /\ result' = Result(is, used) /\ call' = "returned" /\ todo' = <<>>
            /\ UNCHANGED <<buffer, handed>>
      [] is # "panic" /\ by = "to_vec" ->
            IF is # "ok" /\ layout.shape = "ContentHookNoWidth" /\ Len(buffer) < LastCap
            THEN Grow ELSE Vector(is, used)

Writing == call = "busy" /\ by # "new"

Refuse ==
    /\ Writing /\ Refusal(Len(buffer)) # "none"
    /\ Return(Refusal(Len(buffer)), 0)
    /\ UNCHANGED <<struct, by>>

Accepted == Writing /\ Refusal(Len(buffer)) = "none"

Put ==
    /\ Accepted /\ todo # <<>> /\ InRange(buffer, Head(todo))
    /\ buffer' = Stored(buffer, Head(todo)) /\ todo' = Tail(todo)
    /\ UNCHANGED <<struct, by, call, handed, result>>

\* A hook says that its slice is too short; a slice that is not there panics.
OutOfRange ==
    /\ Accepted /\ todo # <<>> /\ ~InRange(buffer, Head(todo))
    /\ Return(IF Head(todo).hook THEN "NotEnoughSpace" ELSE "panic", 0)
    /\ UNCHANGED <<struct, by>>

Finish ==
    /\ Accepted /\ todo = <<>>
    /\ IF plan.late = "none" THEN Return("ok", plan.used) ELSE Return(plan.late, 0)
    /\ UNCHANGED <<struct, by>>

-----------------------------------------------------------------------------
(* new and the setters.                                                    *)

\* The shapes with a setter for every field a content has.
Settable ==
    \/ layout.shape \in {"Fixed", "FixedPadded", "DynamicTail", "DynamicTailHook",
                         "DynamicTailOpen"}
    \/ layout.shape = "Forward" /\ items[layout.region].kind # "recs"

\* The stores new makes: the length.  What is left for the setters does not
\* hold the zeroes write_into puts under fields with padding.
NewStores ==
    IF layout.shape \in {"Fixed", "FixedPadded", "DynamicTailOpen"} THEN <<>>
    ELSE <<Head(plan.stores)>>
OwnStores == IF layout.shape = "FixedPadded" THEN 1 ELSE Len(NewStores)

\* Where constants lie, which have no setter.
ConstantOffset(i) ==
    IF layout.shape = "FixedPadded" THEN PaddedOffset(items, i)
                                    ELSE OffsetIn(items, Upto(Len(items)), i)
ConstantOffsets == {ConstantOffset(i) : i \in {j \in 1 .. Len(items) : items[j].kind = "const"}}

SetterStores ==
    LET rest == SubSeq(plan.stores, OwnStores + 1, Len(plan.stores))
    IN  Those(rest, {rest[n] : n \in {m \in 1 .. Len(rest) : rest[m].at \notin ConstantOffsets}})

New ==
    /\ call = "free" /\ Settable /\ by' = "new"
    /\ IF Refusal(Len(buffer)) # "none"
       THEN /\ result' = Result(Refusal(Len(buffer)), 0) /\ call' = "returned"
            /\ UNCHANGED <<buffer, todo>>
       ELSE /\ buffer' = StoredAll(buffer, NewStores) /\ call' = "busy" /\ todo' = SetterStores
            /\ UNCHANGED result
    /\ UNCHANGED <<struct, handed>>

\* A setter stores its bytes, if they are there.
SetterStep(s, left) ==
    IF InRange(buffer, s)
    THEN /\ buffer' = Stored(buffer, s) /\ todo' = left
         /\ UNCHANGED <<call, handed, result>>
    ELSE Return("panic", 0)

\* The call of the same setter with another value: here all bytes are alike.
Uniform(s, b) == [s EXCEPT !.bytes = [k \in 1 .. Len(s.bytes) |-> b]]

\* The setter of a field is called again and again, with other values first, and
\* the calls of several setters interleave.
SetBefore ==
    /\ call = "busy" /\ by = "new"
    /\ \E n \in 1 .. Len(todo), b \in Byte :
          SetterStep(Uniform(todo[n], b), todo)
    /\ UNCHANGED <<struct, by>>

\* The last call of the setter of some field.
Set ==
    /\ call = "busy" /\ by = "new"
    /\ \E n \in 1 .. Len(todo) : SetterStep(todo[n], Without(todo, n))
    /\ UNCHANGED <<struct, by>>

Built ==
    /\ call = "busy" /\ by = "new" /\ todo = <<>>
    /\ Return("ok", plan.used)
    /\ UNCHANGED <<struct, by>>

-----------------------------------------------------------------------------
(* writer_over.                                                            *)

Over == {"Fixed", "FixedPadded", "DynamicTail", "DynamicTailOpen", "GreedyStructTail", "Forward"}

\* Mutant: the region is taken to reach to the end of the bytes.
RegionLensToEnd(r) ==
    Minus(Len(buffer), RunBytes(items, PrefixRun(items, layout.region)))

\* The region's length as the parser finds it, in bytes or in structs.
RegionLens(r) ==
    LET it == items[layout.region]
    IN  IF it.kind = "ref" THEN Amount(it.len, r) ELSE Len(r.vals[layout.region])

\* Where the writer finds field i; fields behind a region follow its length.
FieldAt(lens, i) ==
    CASE layout.shape = "FixedPadded" -> PaddedOffset(items, i)
      [] layout.shape = "Forward" /\ i > layout.region ->
            RunBytes(items, Upto(layout.region - 1))
              + ForwardBytes(items[layout.region], lens)
              + OffsetIn(items, [n \in 1 .. Len(items) - layout.region |-> layout.region + n], i)
      [] OTHER -> OffsetIn(items, PrefixRun(items, Len(items) + 1), i)

\* A field with a setter or an accessor.
Editable(i) ==
    /\ items[i].kind \in {"num", "int", "fixed", "arr", "greedy", "ref"}
    /\ ~items[i].skip
    /\ layout.shape \in {"DynamicTail", "Forward"} => items[layout.region].len.of # i

\* The fixed part and, behind a region, the trailer: what lens says is needed.
OverNeed(lens) ==
    IF layout.shape \in {"Fixed", "FixedPadded"} THEN plan.need
    ELSE LET it == items[layout.region]
         IN  RunBytes(items, PrefixRun(items, Len(items) + 1))
               + (IF it.kind = "recs" THEN lens * it.size ELSE lens)

\* writer_over and a setter: one field of what was written gets the value it has in another content.
Edit ==
    /\ call = "returned" /\ result.is \in {"ok", "vec"} /\ layout.shape \in Over
    /\ \E k \in Cases, i \in 1 .. Len(items) :
          LET written == SubSeq(buffer, 1, result.used)
              r == Read(items, written)
              fixed == layout.shape \in {"Fixed", "FixedPadded"}
              invalid == ~fixed /\ ~r.ok
              lens == IF fixed \/ invalid THEN 0 ELSE RegionLens(r)
              value == FieldBytes(items[i], k.content[i])
          IN  /\ k.items = items /\ Editable(i)
              /\ Len(value) = Len(FieldBytes(items[i], content[i]))
              /\ IF invalid \/ OverNeed(lens) > Len(written)
                 THEN /\ result' = Result(IF invalid THEN "InvalidContent" ELSE "NotEnoughSpace", 0)
                      /\ UNCHANGED <<buffer, content, plan>>
                 ELSE /\ buffer' = Stored(buffer, Store(FieldAt(lens, i), value))
                      /\ content' = [content EXCEPT ![i] = k.content[i]]
                      /\ plan' = WritePlan(items, content', layout)
                      /\ UNCHANGED result
    /\ call' = "edited"
    /\ UNCHANGED <<items, layout, by, handed, todo>>

Next == WriteInto \/ ToVec \/ Refuse \/ Put \/ OutOfRange \/ Finish
          \/ New \/ SetBefore \/ Set \/ Built \/ Edit

Spec == Init /\ [][Next]_vars

\* What is fair is the body of a call that has begun.
FairSpec == Spec /\ WF_vars(Refuse \/ Put \/ OutOfRange \/ Finish)

-----------------------------------------------------------------------------
(* What a content gives and what the parser reads.                         *)

Consts(fields) == {i \in 1 .. Len(fields) : fields[i].kind = "const"}

\* Fields of an arm that the writer works out itself.
DerivedInArm(fields) ==
    Consts(fields) \cup (IF AllFixed(fields, 1, Len(fields)) THEN {}
                         ELSE Hooks(fields) \cup LenFields(VariantLayout(fields)))

\* The same for the struct: constants, discriminants, the length of its region.
Derived ==
    Consts(items)
      \cup {items[i].len.of : i \in {j \in 1 .. Len(items) :
                                        items[j].kind \in {"arr", "ref", "recs", "union"}}}
      \cup UNION {DiscSet(items[i]) : i \in {j \in 1 .. Len(items) : items[j].kind = "union"}}

FieldsAgree(given, read, derived) ==
    \A i \in 1 .. Len(given) : i \notin derived => given[i] = read[i]

ArmAgrees(u, v, read) ==
    /\ read.arm = v.arm
    /\ FieldsAgree(v.fields, read.fields, DerivedInArm(u.arms[v.arm].items))

\* The branch that was read is the one that was given, with all its fields.
BranchAgrees(v, read) ==
    \E branch \in {v.yes, v.no} :
        /\ Len(branch) = Len(read)
        /\ \A i \in 1 .. Len(branch) : branch[i] \in {Absent, Some(read[i])}

ItemAgrees(it, given, read) ==
    CASE it.kind = "union" -> ArmAgrees(it, given, read)
      [] it.kind = "cond" -> BranchAgrees(given, read)
      [] OTHER -> it.skip \/ given = read

Agrees(r) ==
    \A i \in 1 .. Len(items) : i \notin Derived => ItemAgrees(items[i], content[i], r.vals[i])

Ended   == call \in {"returned", "edited"}
Success == Ended /\ result.is \in {"ok", "vec"}

-----------------------------------------------------------------------------
(* Properties.                                                             *)

\* Type invariant: the bytes stay bytes, and a vector's outcome is its length.
TypeOK ==
    /\ by \in Functions /\ call \in Phases /\ result.is \in Outcomes
    /\ \A n \in 1 .. Len(buffer) : buffer[n] \in 0 .. MaxByte
    /\ Len(buffer) = Len(handed) \/ result.is = "vec"
    /\ result.used <= Len(buffer)
    /\ Ended <=> result # Pending

\* The length fields can hold the lengths of the regions, and every byte of the
\* packet has somebody to set it: new and the setters leave out the constants.
Writable ==
    /\ plan.early = "none" /\ plan.late = "none"
    /\ by = "new" => Consts(items) = {}

\* The generated parser accepts the bytes, ends with them, and reads the content.
ReadsBack(bytes) ==
    LET r == Read(items, bytes) IN r.ok /\ r.at = Len(bytes) /\ Agrees(r)

\* parse(serialize(x)) = x, for write_into, to_vec, new with its setters in any
\* order, and an edit in place, of all that can be written.
RoundTrip == Success /\ Writable => ReadsBack(SubSeq(buffer, 1, result.used))

\* The same of whatever to_vec returns.
VectorReadsBack == result.is = "vec" => ReadsBack(buffer)

\* Nothing that was in the buffer before shows in the packet, and whichever way
\* the fields were set, edits included, the bytes are those write_into stores;
\* but for padding under fields set one by one, which new does not clear.
NoStaleBytes ==
    Success /\ Writable /\ ~(by = "new" /\ layout.shape = "FixedPadded") =>
        SubSeq(buffer, 1, result.used)
            = SubSeq(StoredAll(Zeroes(plan.used), plan.stores), 1, result.used)

\* At no time does a call touch the bytes behind the packet.
BehindUntouched ==
    \A k \in 1 .. Len(buffer) :
        k > plan.need /\ k > plan.used => buffer[k] = handed[k]

\* encoded_len, write_into and writer_over count the same bytes: no call panics,
\* whatever the buffer it is given, room for the packet is enough, and a writer
\* over a packet takes it.
RoomIsEnough ==
    /\ result.is # "panic"
    /\ result.is = "NotEnoughSpace" => call # "edited" /\ Len(handed) < plan.used

\* write_into and to_vec come to an end, also the to_vec that grows its buffer,
\* and does so for an error that no growing mends.
EventuallyReturns == call = "busy" /\ by # "new" ~> Ended
=============================================================================
