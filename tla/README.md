# bytesmith in TLA+

bytesmith compiles `.bsm` specifications of binary formats to Rust: zero-copy
parsers, writers and packet dissectors. This directory holds TLA+ models of its
core, the TLC runs that check them on small instances, and proofs for the
properties that matter most. Paths below are relative to the repository.

## 1. Inventory

| Component | Code | State | Operations |
|---|---|---|---|
| Runtime lengths | `bytesmith/src/lib.rs` | a `Len {byte, bit}` | `+`, `*`, `pad_to`, `byte_ceil`, `bits`, all saturating |
| Runtime field tree | `bytesmith/src/tree.rs` | a tree of nodes with bit ranges and status | build, shift, rename, set paths, render |
| Runtime hooks | `bytesmith/src/hooks.rs` | none | LEB128 and QUIC integers, back references |
| Code generation driver | `bytesmith-codegen/src/lib.rs` | maps of structs to do and done, layers of ready structs | `generate`, `generate_writers` |
| Struct generator and what it emits | `struct_.rs`, `field.rs`, `expr.rs`, `attr.rs`, `type_/*.rs` of `bytesmith-codegen/src` | generator: running offset, last end getter, gate; emitted view: a slice and optional caches | `parse`, getters, `field_tree`, `handoff`, `dissect` |
| Unions, arrays of structs, concats | `type_/union_.rs`, `type_/array.rs`, `type_/concat.rs` | iterators: index and rest of the slice | select an arm, iterate |
| Writer generator | `writer.rs` | classified layout; emitted writer: a buffer | `write_into`, `to_vec`, `new`, setters, `writer_over` |
| DSL parser | `bytesmith-dsl-parse` | position in the text | parse, parse with recovery |
| DSL syntax tree | `bytesmith-dsl` | data types | none |
| Language server | `bytesmith-lsp` | a concurrent map of documents | open, change, save, close, semantic tokens |
| Protocols | `bytesmith-protocols` | a DNS label iterator | `dns_name`, `write_dns_name`, `labels` |
| CLI, benchmarks, fuzz targets | `bytesmith-cli`, `bytesmith-bench`, `fuzz` | none | one pass each |

How they interact: the DSL parser turns text into definitions; the driver orders
the structs and calls the struct generator once for each, in dependency order,
because a field of struct type needs the length and the end getter of the struct
it refers to; the emitted code calls the runtime crate (lengths, nodes, errors)
and user hooks. The language server calls the DSL parser for every version of a
document. Nothing in the parsers is concurrent or persistent: their hazards are
the order of checks, numbers from the input and offsets that are computed again
and again. The driver's hazards are hash-map order and its bookkeeping. The
language server's handlers are the one place where tasks interleave.

What makes each correct:

- lengths: canonical (`bit < 8`), monotone, exact until they saturate;
- emitted parsers: no panic on any bytes; fields in order and inside the input;
  parse, `field_tree` and `dissect` tell the same story; what is handed on is
  what was parsed;
- driver: each struct once, after what it refers to; a cycle found exactly when
  there is one; the same output whatever the hash order;
- unions and iterators: the arm checked is the arm read; iteration ends;
- writers: what is written parses to what was set; no write past the buffer;
- DSL recovery: progress, and every definition found once (not modelled);
- language server: the last text sent is the one stored and diagnosed.

`PROJECT.json` lists the components with their status and every hazard with the
line where it bites.

## 2. Modules

| Module | Models | Builds on |
|---|---|---|
| `Lengths` | `bytesmith::Len` and its arithmetic; `UsizeMax` is a parameter | |
| `Offsets` | the running end offset of a struct, with a ghost in unbounded arithmetic | `Lengths` |
| `StructView` | the code emitted for one struct, run on one input | `Lengths` |
| `UnionView` | the code emitted for a struct with a union, without caches; at the same time the abstract specification of the next | |
| `CachedUnionView` | the same struct with `@cache` on any of its fields | `UnionView` |
| `ArrayView` | check, iterator, rest and tree of an array field | |
| `Definitions` | the driver's view of a specification | |
| `GenerationOrder` | abstract: what `CodeGen::generate` promises | `Definitions` |
| `CodegenOrder` | the driver itself: scan, link, worklist, print | `GenerationOrder` |
| `Digits` | bytes with a small base; length and content hooks | |
| `WriterLayout` | how `writer.rs` classifies a struct into one of fourteen shapes | `Digits` |
| `WriterPlans` | per shape: the room asked for, the stores in their order, the errors | `WriterLayout` |
| `Reader` | what the generated parser makes of the bytes, as one function | `WriterLayout` |
| `Writer` | a caller of a writer: the composition of `WriterPlans` with `Reader` over one buffer | both |
| `FixedFields` | setters and getters of fields of known size, bit by bit | |
| `BackReferences` | the hooks for DNS names and blobs that refer to earlier bytes, and a reader of labels | |
| `LanguageServer` | the handlers of bytesmith-lsp over the shared map, an editor, and the publications on their way | |
| `StructViewProofs` (also about `Offsets`), `CodegenOrderProofs`, `UnionViewProofs`, `ArrayViewProofs`, `BackReferencesProofs`, `WriterProofs` and on top of it `WriterBytesProofs`, `LanguageServerProofs` | proofs | the modules they are about |
| `MCOffsets`, `MCStructView`, `MCUnionView`, `MCArrayView`, `MCCodegenOrder`, `MCWriter`, `MCWriterFaults`, `MCFixedFields`, `MCBackReferences`, `MCLanguageServer` | small values for TLC | |

A definition marked "Mutant" is the definition behind it with a plausible slip. It belongs to
no specification: put in the place of that definition, it shows that a property notices the slip.

### StructView

A *layout* is a struct as the generator sees it: items in declaration order, each
with its kind, its attributes, the item its offset starts from (`prev`) and the
conditionals around it (`gate`). `ItemAccepted` is what the generator accepts. A
`join` item stands for `conditional_{n}_end_offset`.

One behaviour is one input through the API: `parse`; if it returns a view,
`field_tree` and `handoff` on that view; then `dissect` on the same bytes. Each
visit of a field is one step; its disjunct says what the emitted statement does:

| Action | Emitted code |
|---|---|
| `ParseAbsent`, `ParseAccept`, `ParseReject`, `ParseFinish` | `if me.gate() { fatal_check()?; recoverable_check()?; }`, then the length check of `parse` |
| `TreeAbsent`, `TreePresent`, `TreeJoin`, `TreeFinish` | the statements of `field_tree`: pad node, then absent or present node; the trailing node |
| `Handoff` | `handoff` |
| `DissectAbsent`, `DissectPresent`, `DissectRecover`, `DissectFatal`, `DissectFinish` | the statements of `dissect` and its end |
| `ParsePanic`, `TreePanic`, `DissectPanic` | a slice out of range or a failed `debug_assert!` |
| `Join` | the end of a conditional becomes the current offset |

Getters are pure and recompute offsets at every call. The model computes the
offsets of an item once per walk and remembers (`torn`, `unreadable`) which of
them would panic if something evaluated them; they panic in the model exactly
where the code evaluates them. A hook, and the parse of a nested struct, is any
pure answer out of `Answers` (accept or not, the number, the bytes consumed).
Left out: node names, values and labels, error payloads, the nodes of array
elements and of nested structs. Integers are read big-endian and unsigned, bit
fields from the most significant bit. Expressions keep the form
`((field - a) * b) + c` and conditions the form `field == n`, with the saturating
arithmetic of `expr.rs`; other operators of the expression language are left out.

### CodegenOrder

The hash maps become functions and sets; a hash set that is iterated becomes a
choice of any element (`Notify`). `GenerateStruct` failures are a property of the
definition (`fails`), and the model adds the one failure the order could cause: a
struct generated before one it refers to is done (`Verdict`). Names are numbers,
because `RejectUnknown` reports the least one. The order inside a layer is the order
in which `Notify` appended.

### UnionView and CachedUnionView

The struct has two bytes, a hook `key`, the union `body` and a converted byte `tail`; its
layout says whether the union is selected by one or two discriminants, has `@len`, `@pad`, and
(cached) which fields have a slot. `Parse` is one field of `parse`; `Ask` is any getter,
`body_rest`, the length or the tree, on a view that `parse` returned, in any order and as often
as one likes; `BeginDissect` and `Dissect` walk the same bytes on a view of their own.
`FirstArm` is the emitted `match`; `ReadBody`, `CheckBody` and `BodyLength` are the getter, the
check and the end offset, which are generated separately and take different slices. The arms'
parsers are those of other structs: bytes of a fixed number, a counted array, a greedy one, a byte
with `@range`, and `@error`.

`CachedUnionView` threads the slots (`memo`) through the same calls: each getter is a function
of the slots that returns a value and the slots afterwards. A hook fills its slot only when it
succeeds, a union always. `AnswersAsUncached == Spec`, checked as a property of
`CachedSpec`, says that the struct with caches implements the one without; the mapping is the identity,
because a slot is not visible.

### ArrayView

`Parse` is the array's check; `Open` is the getter, which makes an iterator (again, once the caller has
drained the one it has); `NextElement` is `next`, by kind of array: `NextBytes`, `NextBits` and `NextRecord`
count, `NextEntry` is `bounded_next` over structs of unknown length; `FieldTree` builds the node of the array:
its loop over an iterator of its own is `Loop`, a turn of it `Turned`, and `_rest` adds a node for what the window leaves.
`seen` keeps what was yielded, for the properties. `cap` is the set of at most one number that `@max_iter`
gives. Loops over an iterator have at most `Turns` turns; that no loop needs more is proved (`TurnsAreEnough`).

### Writer, WriterLayout, WriterPlans, Reader

Generating a writer is the pure function `Classify`: its shapes are tried in the code's order, and the
first that fits decides. What the emitted writer does with a content is a *plan*: the room it
asks for, an error in front of the first store, the stores, an error behind the last. `Writer` carries
plans out on a buffer, one store a step, so that what a failing call leaves behind is visible:
`WriteInto` and `ToVec` begin a call, whose body is `Refuse`, `Put`, `OutOfRange` and `Finish` (with `Grow` in `to_vec`);
`New` makes a writer, `SetBefore` and `Set` are the calls of its setters, `Built` is the caller that has set everything;
`Edit` is `writer_over` with a setter, its refusals included. Setters are called in any order, and each any number of times:
`SetBefore` with other values (all bytes alike, any byte), `Set` with the value that stands in the end. `Reader` is the
parser of the same items, folded into one function (`StructView` has its steps).

A condition compares `field * times + plus - minus` with a literal by `==` or `!=`. The writer computes it in `usize`
arithmetic and the parser in saturating arithmetic; where the difference is below zero the writer panics in a build that
checks arithmetic (`OverflowChecks`), and takes the branch of inequality in one that does not. The other operators of
`lower_condition` and overflow at the upper end of `usize` are left out. Bit fields that fill a byte together are items of the
kind `bits`; where their bits lie is the matter of `FixedFields`.

Bytes are digits of base 4, so that a length field overflows at four bytes, and a length hook
takes two bytes from three on. Everything here lies on byte boundaries; `FixedFields` has the bits:
fields in both bit orders within one byte or across two, integers in both byte orders, arrays and
concats, with the emitted masks and shifts of the setter on one side and the getter's on the other.

### BackReferences

`Write` appends a name or a blob as its hook does: labels up to the first suffix that the message
holds already, then a pointer; a blob that is there already as a pointer. `Send` ends the message.
What a name must be for the hook is `Starts`: labels that follow one another to a 0, as `write_dns_name`
expects of its caller (`hooks.rs:122`). A reader then takes `Labels` of any offset whose bytes `dns_name` accepts, and goes through the turns
of `DnsLabelIter::next` (`Follow`, `Yield`, `End`). A byte has two bits, a pointer reaches four bytes
of a message, a blob's sixteen: every limit of the code is met within ten bytes.

### LanguageServer

The editor sends any legal sequence of open, change (of none, one or two texts), save (with or
without text), close, and requests for tokens. `tower-lsp` polls the handlers in one task: each is
one step up to its only await, in which it publishes. `DidOpen`, `DidChange`, `DidSave`, `DidClose`
are these steps (`Refresh` is `Backend::refresh`), `SemanticTokensFull` the request; `Publish` is the rest of a
handler, its publication. Whether publications overtake each other depends on the server's
runtime and not on this code, so both are modelled: `inOrder` is chosen at the start. At most `Lanes`
handlers wait (`tower-lsp` has a limit of this kind; the run has three, so that three publications can be
on their way). The editor gives a document any version of `FirstVersions` whenever it opens it, and counts on from there. `life`
numbers a document's openings; no program has it, it is there to say which opening a publication is of.

## 3. Runs

| Run | Instance | States | Shows |
|---|---|---|---|
| `offsets` | `UsizeMax = 33`, four fields, five element lengths, six counts, four alignments | 10 399 | offsets are canonical, monotone, exact until they no longer fit |
| `struct_view` | 21 layouts, every input up to 4 bytes of `{0, 1, 2, 97}` and five of `{1, 2}`, four hook answers, debug build | 228 062 | all safety properties of `StructView` |
| `union_view` | 18 layouts of one or two discriminants, six kinds of arm, with and without `@len`, `@pad`, with no, one, some or all of the caches; all inputs up to 5 bytes of `{0, 1, 2}` and six of `{1, 2}`; four hook answers | 211 370 | what parse accepts can be read; trees tile; caches change no answer |
| `array_view` | 28 layouts: every kind of array and element, `@len`, `@max_iter` of 0, 1, 2, 3 or none; all inputs up to 5 bytes of `{0, 1, 2}`, six of `{0, 1, 4}` | 180 470 | iteration is safe, tiles and ends |
| `writer` | a struct or several of each shape, contents at the ends of their ranges; buffers of 0, 2, 4, 7 and 12 bytes, clean and dirty; setters called again with each value of a byte | 12 444 | round trip, no stale bytes, nothing behind the packet is touched |
| `fixed_fields` | bytes of four bits; all runs of two and three bit fields of one bit order, integers, arrays and concats before and behind; three buffers, five values | 3 365 | every getter reads what was set |
| `back_references` | messages of up to ten bytes of two bits, six names, four blobs, all starts of up to two bytes and four loops of pointers | 412 535 | names and blobs are read back; labels end |
| `lsp` | two documents, two texts, four messages, three handlers at their await, publications in order and not, every opening with version 1 | 156 286 | the map follows the editor; what is shown is current, or its version tells, within an opening |
| `codegen_order` | all graphs on three structs, with each failure in each place; all specifications of two definitions; five larger shapes; error blocks | 83 976 | all properties of `CodegenOrder`, and the refinement of `GenerationOrder` |

Why the bounds are enough. `UsizeMax = 33` and `63` make sums, products and pads
saturate with counts of one byte and inputs of a few. Inputs of five bytes reach
past every fixed part of every layout, and are cut at every place in front of it;
97 is three as a `b<3>`, so that a count of bits leaves an offset inside a
byte. The hook answers fail, consume one byte, two bytes, and more than any window. The
21 layouts use each kind of field and each attribute, before and after a
field of dynamic length, and nest conditionals. Three structs are enough for
self-reference, cycles of two and three, a diamond with its top missing, and
followers of a cycle; the shapes of five have diamonds and chains in several layers.
In `array_view` six bytes hold three records or five entries, a partial element
at the end of the window, a sentinel inside, at the end of and behind it, and `@max_iter` below, at and above
the count. In `union_view` each arm meets a slice that is too short, exact and too long, the padded
start lies past the input, and hooks fail, take nothing, one byte, and three. In `writer` the largest content a length
byte can say and an empty one are there for each region, and the buffers are shorter than, as long as
and longer than the packets; a number too large for its hook makes `to_vec` double its buffer up to `LastCap` and give up.
Three of the four messages of `lsp` can be under way at once for one
document while a fourth is sent; two documents show that handlers do not mix them up. `FirstVersions = {1}` makes every opening
repeat the versions of the one before, which is what editors do and what confuses most; the proof is for any versions.

Bounds on counters: `MaxFields` (four lengths added),
`MaxSends` (four messages), `Lanes`, `Capacity` (ten bytes), `MaxJumps` (three
for the code's eight), `FirstCap` and `LastCap` (`to_vec` tries one, two and four bytes for the code's 64 up
to 2^24). The runs of programs that come to an end leave deadlock unchecked; `fixed_fields` goes
on for ever and has it checked.

**Properties of `StructView`.** `GuardedNeverPanics` is README.md's "never panics", for
the layouts where the code keeps it (`Guarded`). `WalkIsSafe` is the
invariant behind it. `FieldsInOrder`: present fields lie in the input, in order,
across conditionals. `IteratorsInside`: what an array's iterator will read lies in
its window. `RemainderUntouched`: no field lies in the bytes `parse` returns as the
rest. `ParseDissectAgree`: the first error in the dissection is the one `parse`
returns, at the same field, and there is none if it accepts. `TreesAgree`:
`field_tree` of a view equals the nodes of `dissect`. `NodesTile`: the nodes of what is
there, with padding, tile the struct. `HandoffIsPayload`: clamping never changes the payload.

**Properties of `CodegenOrder`.** `QueueIsExact`: the queue is what waits for nothing,
each once. `BlameIsOwn`: no struct fails because of the order. `CycleVerdict`: a cycle is
reported exactly when there is one. `OutputInOrder`: the output is deterministic.
`ImplementsOrder`: refinement. `AlwaysAnswers`: the call ends. `Bookkeeping` is the
inductive invariant.

**Properties of `CachedUnionView`.** `AcceptedIsReadable`: the getter returns a view or a
declared error after a check that took another slice, and nothing panics. `BodyTiled`: the nodes of the arm and of
what it leaves tile the union's range, each with as many bytes as its range says. `DissectAgrees`: `dissect` comes to
the error of `parse`. `AnswersAsUncached`: refinement.

**Properties of `ArrayView`.** `ItemsTile`: elements follow one another inside what
`parse` consumed, none behind an error, and no `next` panics. `EndsForAReason`: an iterator at its end has all elements, or
was at the window's end, or has said why not. `ChildrenTile`: so do the nodes. `EventuallyEnds`: a loop over
entries that take no bytes ends.

**Properties of `Writer` and `FixedFields`.** `RoundTrip`: what was written, whichever way, is
parsed back, edits included; it excludes what `Writable` names (contents the length fields cannot say, and constants,
which `new` and setters leave out). `NoStaleBytes`: a dirty buffer does not show in the packet. `BehindUntouched`: no store,
also of a failing call, lies behind the packet. `RoomIsEnough`: `encoded_len`, `write_into` and `writer_over` count the
same bytes, so that nothing panics or is refused room it has. `EventuallyReturns`: a call of `write_into` or `to_vec` comes to
an end, also the `to_vec` that no buffer helps. `ReadsWhatWasSet`: each getter reads its
own setter's last value after any sequence of others.

**Properties of `BackReferences`.** `ItemsReadBack`: each name and blob reads back as it was
written, also when its bytes, or bytes it refers to, were meant as something else; a written name costs its
reader one jump. `LabelsEnd`: reading the labels of any accepted name ends, loops of pointers included.

**Properties of `LanguageServer`.** `ServesCurrent`: the map holds the editor's text as soon as
the notifications about it are taken up, and tokens are of the text asked about. `ShownIsCurrent`: with nothing under
way, and publications in order, the editor shows its text's diagnostics. `VersionsTell`: out of order, of the publications of
the present opening one with the editor's version is the right one. `EventuallyShown`: a text that stays is shown.

Each module states its `TypeOK`. That of `Offsets` is in its run (it says that lengths are canonical); those of
`StructView` and `CodegenOrder` are proved; the others hold in their runs as well when added to the cfg.

**Fairness.** In `CodegenOrder`, `FairSpec` is weak fairness of the program's steps: one thread that nothing
stops. In `Writer` it is that of the body of `write_into` and `to_vec`: a call that has begun goes on. A caller may stop
at any time, between two setters as well. `StructView` needs none: the emitted code has no loop. In `ArrayView` and `BackReferences` it is a `for` loop over an iterator, which asks
again until `None`. In `LanguageServer` the runtime takes up the next message when a lane is free and resumes
handlers whose await is over; nothing is assumed of the editor. Nothing is assumed of the choice among steps.

### Where code and documents disagree

Three runs check a promise of the repository and find it broken.

| Run | Promise | What the code does |
|---|---|---|
| `padded_hook` | README.md:30, "Never panics" | a hook without `@len` after `@pad` slices `&self.data[start..]` before the padding was compared with the input |
| `short_length` | README.md:30, "Never panics" | a struct `@len` below the fields in front of a filling array makes the array's slice start after its end; `bytesmith-protocols/specs/ip.bsm` has this form |
| `two_regions` | README.md:32, "Round-trips" | in a union's arm, the length field of a region behind a length hook is given the length of an earlier region |

### Observations

Met while modelling. Those of the first list can be seen by a run of the module named, with a cfg
that gives the constant the value named and checks the property named.

| Module | Constant | Property | What the code does |
|---|---|---|---|
| `MCStructView` | `Layouts <- OnlyConditionalHook` | `NeverPanics` | the absent node of a field evaluates a hook of the same absent branch, past the input |
| | `OnlyLateInteger`, with `DebugAsserts = TRUE` | `NeverPanics` | debug builds: an integer after a run-time number of bits trips `debug_assert!` |
| | `OnlyShortPayload` | `HandoffInsideConsumed` | the payload can reach past what `parse` consumed, when the struct's `@len` is short (docs/fuzzing-plan.md:541) |
| | `OnlyAbsentTail` | `OkNodesInsideInput` | the empty node of an absent field lies past the input, and `dissect`'s root ends there (docs/fuzzing-plan.md:526-528) |
| `MCCodegenOrder` | `Specs <- AllSpecs` | `CycleNamesItsMembers` | the list of a dependency cycle holds structs that only wait for the cycle (bytesmith-codegen/src/lib.rs:100) |
| `MCUnionView` | `Layouts <- PaddedLayouts` | `AcceptedIsReadable` | behind `@pad`, the check of a cached union takes the slice of the getter, from a start that may lie past the input |
| `MCArrayView` | `Layouts <- WindowedUntil` | `RangesAreExact` | with `@len` and `@until`, the node of what is left begins at the sentinel, its bytes behind it (README.md:34) |
| `MCWriterFaults` | `Cases <- LongRegion` | `VectorReadsBack` | `to_vec` swallows the error of `write_into`: a region too long for its length field gives bytes the parser rejects |
| | `ConditionBelowZero`, with `OverflowChecks = TRUE` | `RoomIsEnough` | a condition `n - 1 == 0` of `n = 0` panics in the writer (`writer.rs:980`) |
| | `ConditionBelowZero`, with `OverflowChecks = FALSE` | `RoundTrip` | the same condition is false for the writer and true for the parser, whose arithmetic saturates |
| | `ShortRegion` | `RoundTrip` | the length of a region shorter than its expression's constant saturates at zero |
| | `FieldBehindHook` | `RoundTrip` | a field between a length hook and its region is written in front of the hook |
| | `FieldsBehindHook` | `BehindUntouched` | more such fields than the hook's bytes and the region take lie behind the room that `encoded_len` asks for: in a larger buffer `write_into` stores behind the packet (`writer.rs:3869`) |
| | `PaddedGreedy` | `RoundTrip` | the padding in front of a region that takes the rest is not written |
| | `EncodedRegion` | `RoomIsEnough` | bytes that a hook encodes are counted with their own length: a buffer of `encoded_len` bytes is too short, and `to_vec` slices past it (`writer.rs:4389`) |
| `MCFixedFields` | `Lists <- MixedLists` | `ReadsWhatWasSet` | neighbouring bit fields of different bit order are placed from opposite ends and may overlap |

Read in the code, outside what the models tell apart or true in them as well:

- `array.rs:463`: the node of the rest of an array of records whose `@range` fails starts where the nodes of the
  elements end. A counted iterator repeats the error until it has counted down. Half a pair at the end of a window
  makes `_rest` an error although `parse` accepted.
- A counted array of elements of no length asks for nothing and may yield up to 2^64 elements.
- Counted arrays of structs of dynamic length take their length from an expression of the element
  evaluated on the parent (`array.rs:608-622`); what is generated does not compile.
- Generated writers: `new` and setters leave out constants; `new` of a padded layout does not clear the padding; a
  conditional whose fields are `None` keeps what the buffer held; the length given to a hook is cast to the
  hook's type; a discriminant given to a `_` arm may be another arm's literal, and the parser then selects that.
- `b<8>` overflows the mask `1u8 << width` in `bitfield.rs`.
- `dns_name` validates a name up to its first pointer only, so its check of more than eight jumps is never reached;
  `DnsLabelIter` follows the rest and needs its own. A written name may point into header bytes that are edited later.
- A blob's pointer takes three bytes and an empty blob two: a repeated empty blob grows.
- `leb128_signed` ignores the upper bits of a tenth byte.
- `to_vec` without a width shows no error of its hook: after it gave up it returns an empty vector.
- A publication of an earlier opening may arrive last, when publications overtake each other, and with the version the editor
  has now, when it counts versions anew: open, close and open again, and the diagnostics of the first text stay. The
  server keeps nothing that would tell (`did_open`, `refresh`); `VersionsTell` therefore speaks of one opening.
- Of several structs of one layer that fail, hash order decides which is reported.

## 4. Proofs

The last part of `StructViewProofs`, about `Offsets` over any usize: `OffsetsTypeCorrect`,
`OffsetsNeverBackwards`, `OffsetsExactOrHuge`. (It extends both modules, which is why `Offsets` names its state
machine `OffsetInit`, `OffsetNext`, `OffsetSpec`.) They rest
on the lemmas about `Lengths` at the start of that module: the operations return canonical lengths, and none of them
moves `byte_ceil` back. The third relates every offset to the same sum in unbounded arithmetic: it is exact, or
the fields need more bits than usize counts and the offset is at an eighth of the address space or beyond, where no slice reaches. That is inductive for the exact half; that an offset
once near the end stays there (`Near`) needs that adding and padding go forward from it.

`StructViewProofs`, for every set of accepted layouts, every input shorter than an
eighth of the address space (`InputsAssumption`; a Rust slice is), every hook answer,
debug or release: `StructTypeCorrect`, `WalksAreSafe`, `GuardedStructsNeverPanic`.
"No panic" alone is not inductive: that a slice is in range at a field follows from
what earlier checks established. `WalkIsSafe` says it: every visited field ends where or
after it starts; a present field ends inside the input; where no field has bits,
no offset has; nothing visited of a guarded layout is torn. An item starts where its
predecessor ends, and a present item's predecessor is present or is padding, which gives
the next step its bound. The getters of `field_tree` and `handoff` evaluate offsets
again after a successful parse, so the invariant keeps all items in those calls
(`Visited`).

`ElementsStayInside`, in the same module, is about what arrays read after `parse`. A counted array's elements
fit its window if the end that `parse` computed from the count is still the one its getter computes
(`CountedSettled`), and if that end, which saturates, is the true one: an end inside an input shorter than an eighth
of the address space cannot have saturated (`MulFits`). A greedy count is a quotient of what
is left. An `@until` count ends at the sentinel or at the end of the data, and its
elements are bytes, since the generator rejects others (`array.rs:131`).

The rest of `StructViewProofs` is about what the walks say of each other.

- `FieldsFollowOneAnother`, `RemainderIsUntouched`. The running offset of the walk (`InOrder`) is past every present field.
  It passes from a field to the next only where both are present, and a field behind a conditional starts at its
  `join`: what lies between an item and its predecessor, and every item of the branch not taken, is absent. The layout's
  assumption says so of the generator (`Adjacent`, `Apart`: gates that contradict each other). `Consumed` adds that `parse`
  returns the end of the last field.
- `HandoffHandsThePayload`. `PayloadShown` follows the payload's slice through the clamping of `handoff`.
- `GettersAnswerTheSame` (`Recomputed`). Every getter walks its predecessors again, on the view that `parse` made. What it
  finds of an item is what the walk recorded when it passed it.
- `ParseAndDissectAgree`, `BothTreesAgree`. `dissect` repeats the checks of `parse` in the same order but
  goes on behind an error that leaves a length. `Passed` and `Verdict` keep what `parse` saw, `Shelved` its tree,
  and `Dissecting` says that the second walk, as far as it has come, is the first.
- `NodesTileTheInput`. Nodes are made one by one, with a padding node in front where the item is padded. `Tiling`: the
  nodes so far tile the bits from 0 to the running offset. Absent fields have nodes without bits, which
  the property passes over.

`CodegenOrderProofs`, for every specification and every hash order:
`CodegenTypeCorrect`, `CodegenBookkeeping`, and from it `WorklistIsExact`,
`CyclesAreFound`, `DependenciesComeFirst` and `CodegenImplementsOrder`. `Bookkeeping`
relates the maps to the definitions: what a struct waits for is what it refers to
without what is done (and, until it is told, the struct just generated); the queue
is what waits for nothing, without repetition; no member of a cycle is done. The last
part is what makes the verdict right: `Stuck` is the largest set of structs each of which
refers to a member, so that a ready struct is outside it, and a set of structs in which
nobody is ready is inside it.

`CodeInDefinitionOrder` is about the output, which is put together from hash maps: `Combined`, a recursive function, goes
through `definition_order` and takes the code of each generated struct out of the map once. `ScannedInOrder` says that
the first pass keeps that list in the order of the text. That the recursion has a value, and that it is the sequence of
the first i names with code (`CombinedFrom`, `CombinedExists`), is an induction over the places.

`UnionViewProofs`, with caches, for all structs, inputs and hook answers: `CachesChangeNothing`, the refinement, and
`SlotsAreFresh`. The invariant is `Valid(memo)`, a full slot holds what its getter
computes, with what the walk has shown so far (`Passed`). Each getter has a lemma: from valid slots it returns
the uncached value and leaves valid slots. For most getters this needs nothing else, but the check of a cached union
parses the slice the getter takes, the check of the other the slice from the clamped start; they are the same
only if the start lies in the input. The check of the field in front gives that, unless padding lies
between. So the theorems have the hypothesis `Unpadded`: no cached union behind padding. It is needed; `PaddedLayouts` in
section 3 is a counterexample without it. The getters, too, rely on the walk: the end of a cached union is its view's length, which
is the computed one only where the check of the body passed, and they are called on views `parse` returned.

On the struct without caches, it has `UncachedIsReadable`, `UncachedTiles`, `UncachedDissectAgrees`, with any
padding. A check takes the slice from the clamped start and the getter from the start
itself. The argument is that a body that passed ends inside the input, so it starts there, and the two slices are one
(`FittingBody`). `ViewInv` adds that an answer is what the input gives (`Truthful`), and that `refused` is the error of
the first field that does not pass (`Verdict`), which `dissect` then meets at the same field. The refinement carries the three to
the struct with caches: `CachedIsReadable`, `CachedTiles`, `CachedDissectAgrees`.

`ArrayViewProofs`, for every array the generator accepts (a sentinel among bytes only, bits in counted arrays
only, `LayoutsAssumption`) and every input: `ArrayTypeCorrect`, `ElementsTileTheArray`, `IterationEndsForAReason`,
`NodesTileTheArray`, `TurnsAreEnough`. That `next` does not slice past the end rests on the check that `parse` made: `count` less
`idx` elements still fit the slice in front of the iterator. For bits that is a statement about the
bit the iterator has come to, whose slice does not move. An entry says its own length, which is compared with the slice
in `next` itself. `Caller` says this of the iterator a caller has, with how many answers it has had: of counted
arrays `idx`, of entries at most one more than `@max_iter`. `FieldTree` runs its loop in one step, so the proof has the same
invariant for the loop, by induction over its turns: the nodes are the elements so far, and the place of the next node
is the end of the last element. The two meet in that an iterator that is drained, by whomever, yields the same.

`BackReferencesProofs`, for every alphabet of bytes, every message the writers start from, all uncompressed names and all
blobs: `BackReferencesTypeCorrect`, `WrittenItemsReadBack`. A reference is found by comparing bytes, so what it
refers to may be a piece of another name, of a blob, or of bytes that were there before, and may itself hold what looks like pointers.
The invariant `Sound` says where each item's bytes are (`ItemWell`): a name lies in place in full, or up to one of its
labels with a pointer behind, and the rest of it lies *in full* at the target, in front of it. That is why one jump is enough:
`find_subslice` looks for the labels up to the terminator, and so never ends at a pointer. Bytes that
are appended later disturb none of this (`NameKept`, `BlobKept`). An iterator over a name that was written is at
one of its labels, before or after the jump, and has yielded the labels in front (`Where`, `Tracked`); at
each place exactly one of `Follow`, `Yield` and `End` can go on.

`WriterProofs`, for every struct, content of it, buffer, fill, base of bytes and `to_vec` cap: `WriterBehindUntouched`, through all
fourteen shapes, calls that fail half-way included. That a store lies in the packet is a fact about the plan, and
the plan is one about the layout, so the proof has three parts.
- What classification promises (`LayWell`, `ClassifiedWell`): of each shape, which items are fixed, which one is the
  region, which field has its length, and how the segments of an arm follow one another. The fold over a union's arm
  and the one over several regions have an invariant of their own.
- That each shape's plan stores inside `used`, and asks for no more (`PlansContained`, `Contained`). The work is in
  offsets: `RunBytes` adds the sizes of a run as the generator's `bit_offset` does, and a field of the run
  ends at or before it (`OffsetIn`); a segment's base is the sum of those in front (`Total`).
- `WriterInv`, the inductive invariant: what is still to be stored lies in the packet (`CallInv`), the plan is that of the
  content (`StructInv`), and the bytes behind the packet are as handed over (`BehindSame`). "Untouched" alone is not
  inductive: a setter may be called again at any time, and `writer_over` computes its offsets from what the call before
  returned, which `CallInv` ties to the plan. `RunStores` of a later edit are shown to be those of the plan (`OffsetBehind`, `EditFits`).
The theorem has one hypothesis, `HookInFront`: a struct of the shape `DynamicTailHook` has its length hook directly in front
of its region. The proof does not go through without it, and the property is false there: `FieldsBehindHook` of
section 3 shows it.

`WriterRoomIsEnough`, in the same module: no call panics, one that says there is not enough space was given less than
the packet takes, and `writer_over` takes every packet that was written. Three arguments meet in it.
- A writer asks for all the room it uses, or the store that takes more is a hook's, which checks for itself: `Counted`, and of
  the plans `PlansCounted`. So where a store is out of range, the buffer is shorter than the packet
  (`CountedInRange`). Without a width (`ContentHookNoWidth`) that is the only check.
- The setters find room because `new` asked for the whole packet: the shapes that have setters (`Settable`) use exactly
  what they need.
- `writer_over` parses the packet to learn the region's length, and then asks for the fixed part and the region. The parser
  behind the writer has an invariant of its own, over the fields it has come to (`TailIn`, `Rd`, `TailReads`): what it has
  read of the fixed fields and the region's extent are behind it, so that what `writer_over` asks for is no more than the parser has
  consumed (`RegionLensIs`).

`RoomInv` needs `WriterInv`, and has two more hypotheses. `RoomCounted`: of several regions none is `encode`d; `encoded_len`
counts such a region without its length prefix. `ConditionInRange`: in a build that checks arithmetic, the difference in a condition is not
below zero. Both are needed: `EncodedRegion` and `ConditionBelowZero` of section 3 are the counterexamples. The other theorems
about `Writer` hold of a writer that panics there as well, which stores nothing (`Panicking`).

`WriterBytesProofs`, on top of it, says which bytes a packet has: `WriterNoStaleBytes`. The packet is what `write_into`
stores in cleared memory (`Packet`), and the theorem is that the other ways, in a buffer full of anything, arrive at the same.
- A byte is that of the last store that reaches it (`LastStore`). So two buffers agree wherever a store reaches, and the packet
  does not depend on the buffer if the plan's stores reach all of it (`Complete`, for each shape `PlansInOrder`).
- Plans with a union are made of plans one behind the other: the fields in front, the length, the arm, and in the arm its
  runs and regions. Each part is `Full`, it reaches every byte it is given room for unless an error stops it, and so are they
  together (`ThenFull`, `ChainFull`). A run leaves out the fields that somebody else stores: the discriminants
  (`DiscStored`), and the length fields of *any* region of the arm, of which the run itself writes only one. That this is the only one it
  leaves out (`LengthOfRun`) is a fact about the classification: it closes a run at each region, so that the runs of an arm
  have their fields in ascending order and none in common (`Ascending`, `Ahead` in `VGood`, which the fold over the arm's
  items keeps), and the length field of a region is in the run right in front of it.
- The setters are called in any order. That is harmless because no two stores of such a plan differ on a byte they share (`Agree`): a
  length field, which `new` writes, is left out of the stores of the fields. What an earlier
  call of a setter left lies where its last call will store, and is `Queued` until then.
- `writer_over` changes one field of a packet. The stores of the two contents are the same but for one (`Swapped`, `OverSwaps`),
  at the place the packet has the field (`FieldAtPlace`). Behind a region that place depends on the region's length, which
  `writer_over` reads in the packet: `LensIs` shows that it reads the right one. The parser finds no length less than the region's
  in the packet, whose length field holds it solved (`LensAtLeast`), and one that is more would ask for more bytes than there are.

`CleanInv` holds in every reachable state, with `WriterInv`. During `write_into` it says that the stores to come make the packet out of
the buffer (`Sequential`); between setters, that every byte is the packet's or is still to be set (`Free`). The hypotheses
(`CasesGiven`) are `HookInFront`, as above, and `BranchGiven`: of the branch that is taken no field is `None`, for those
the writer leaves out (the bytes there are what the buffer held, see section 3).

`CasesAssumption` says what reaches the generator and what Rust's types let a caller give
(`StructWell`, `ContentOf`): expressions name fields in front, matchers have a literal for each discriminant, arrays of known
size have that size, and the variants of a union's content are those the writer has.

Where a proof needs induction over the numbers, it takes a least counterexample (`LeastOf`, from `WFMin` of the library), and
`Induct` restates that for sets of numbers. The library's own induction theorems have an operator as
parameter, which the installed provers do not instantiate. That a recursive function takes the values of its recursion
is proved as well (`RunsExist` of `BackReferencesProofs`, for recursions that go on towards the end of a sequence).

`LanguageServerProofs`, for every set of documents and texts and any number of messages:
`ServerTypeCorrect`, `ServerServesCurrent`, `ServerShowsCurrent`, `ServerVersionsTell`, whatever version the editor begins an
opening with. What the server stores is behind what the editor
has by the messages not handled yet, which is not a statement about one step. `Explained`
makes it one: there is a `History`, a sequence of maps from the stored one to the editor's, one for each message under way,
in which every message changes its own document only. A message sent extends it at one end, a message handled
shortens it at the other. `Published` does the same for the publications that are still to arrive; `VersionsKept`
ties the versions of an opening to the texts they were sent with.

The constants' assumptions are in the modules that declare them: `UsizeMaxAssumption`,
`OffsetsAssumption`, `DebugAssertsAssumption`, `SpecsAssumption`, `ErrorNameAssumption`, `MaxSendsAssumption`,
`LanesAssumption`, `FirstVersionsAssumption`, `ParseErrorsAssumption`; `LayoutsAssumption`, `InputsAssumption` and `AnswersAssumption` of `StructView` and of
`UnionView` (the generator's own conditions, slices of bytes, and what hooks may answer) and `ArmsAssumption`, which says that some arm
of a union takes every value: the generator rejects a union without one (`NonExhaustive`, `union_.rs:65`). Of `ArrayView`,
`LayoutsAssumption` (the generator's conditions) and `InputsAssumption`; of `BackReferences`, `BaseAssumption`, `JumpsAssumption`,
`BytesAssumption` and `NamesAssumption` (messages, names and blobs are bytes, and names are those the hook is for). Of `Writer`,
`CasesAssumption`, `BuffersAssumption` and `OverflowChecksAssumption`; all hold of the structs in `MCWriterFaults` as well.

Only model-checked:

- `ReadsWhatWasSet` of `FixedFields`: masks and shifts, with powers of two whose exponent is a variable, for which the
  installed provers have no arithmetic.
- `RoundTrip` of `Writer`: it goes through the reader's fold for each of fourteen shapes.
- The liveness properties: they, like `ENABLED`, are outside what the proof system does. The bounds that
  make them true are proved for `ArrayView` (`TurnsAreEnough`).

## 5. Plan

Done: `Lengths`, `Offsets`, `StructView`, `CodegenOrder` with `GenerationOrder` and their proofs; unions and their caches with
the refinement and its proof; array iterators; classification, plans and use of writers, composed with the parser; fields bit by
bit; back references; the language server. Proofs of every safety property except the two named above.

Left, in this order:

1. A proof of `RoundTrip`, shape by shape along `PlansContained`; that the packet is the plan's (`WriterNoStaleBytes`) is the
   first half of it, what the parser makes of the packet the other.
2. A release-build run of `StructView`, and larger layouts taken from `bytesmith-protocols/specs`.

### Not modelled

- The DSL parser and its recovery: parser combinators over text without a state of their own. Where recovery
  resumes depends on the characters of the definition that failed, which a model would have to spell out.
- How the tokens of a text are classified (`semantic_tokens.rs`): a pure function of the text.
- The runtime's LEB128, zigzag and QUIC integers and `cstring`: they decode digit by digit and keep no state.
- Shifting, paths and rendering of finished field trees: pure functions; the nodes' ranges and status are in `StructView`,
  `UnionView` and `ArrayView`.
- Signed integers, and operators of the expression language beyond `+`, `-`, `*`, `==` and `!=`.
- Wording and layout of the generated Rust, the command line tool, fuzz targets and benchmarks.
