----------------------------- MODULE StructView -----------------------------
(***************************************************************************)
(* The Rust code that bytesmith-codegen emits for one struct, run on one   *)
(* input slice: T::parse(data), then view.field_tree() and view.handoff()  *)
(* on the view a successful parse returned, then T::dissect(data).         *)
(*                                                                         *)
(* A layout is the struct as the generator sees it: a sequence of items in *)
(* declaration order.  A field item points back (`prev`) to the item whose *)
(* end offset it starts from; a "join" item closes a conditional and takes *)
(* the end of the branch that is present.  Index 0 is the start of data.   *)
(*                                                                         *)
(* The generated getters recompute offsets on every call and are pure, so  *)
(* the model computes each item's offsets once per walk, in `start` and    *)
(* `end`.  What a getter would do wrong is kept too: `torn` are the items  *)
(* whose end offset cannot be computed without slicing out of range, and   *)
(* `unreadable` the integers whose read trips a debug assertion.  Both     *)
(* panic only when something evaluates them, as in the code.               *)
(***************************************************************************)
EXTENDS Lengths, Sequences, FiniteSets

CONSTANTS Layouts,       \* the struct layouts considered
          Inputs,        \* the input slices: sequences of bytes
          Answers,       \* what a user hook or a nested parse may answer
          DebugAsserts   \* TRUE for a build with debug_assertions

VARIABLES layout, data,  \* the struct and its input
          answer,        \* what each hook or nested parse answers (they are pure)
          call,          \* "parse", "tree", "handoff", "dissect", "done" or "panic"
          pc,            \* next item of the walk
          start, end,    \* offsets of the items visited so far
          val,           \* numeric values of the items visited so far
          torn, unreadable,
          parsed,        \* what parse returned
          handoff,       \* what handoff returned
          nodes,         \* child nodes pushed by the current tree walk
          trees,         \* the finished trees of field_tree and dissect
          fatal          \* the error that stopped the dissection, or "none"

-----------------------------------------------------------------------------
(* What a layout is: the structs bytesmith-codegen accepts.                *)

Kinds == {"uint",     \* integer of one or two bytes
          "bits",     \* b<n>, n < 8
          "counted",  \* [T; expr]
          "greedy",   \* [T] up to the end of its window
          "until",    \* [u8] up to a sentinel
          "hook",     \* @hook on [u8]: user code says how much it consumes
          "conv",     \* @hook on an integer: user code converts it
          "ref",      \* nested struct of dynamic length
          "join"}     \* the end of a conditional

Numeric == {"uint", "bits", "hook", "conv"}

\* What an expression declared at item i may read: unconditional numbers before it.
Numbers(l, i) == {j \in 1 .. i - 1 : l.items[j].kind \in Numeric /\ l.items[j].gate = {}}

\* ((field - minus) * times) + plus, of field 0 for a constant.
Exprs(l, i) ==
    [of : {0} \cup Numbers(l, i), minus : Usize, times : Usize, plus : Usize]

\* `field == is`, or its negation.
Literals(l, i) == [of : Numbers(l, i), is : Usize, sense : BOOLEAN]
Negation(lit)  == [lit EXCEPT !.sense = ~lit.sense]

ItemType(l, i) ==
    [kind : Kinds,
     size : Lengths,             \* of the field, or of one array element
     count : Exprs(l, i),        \* elements of a counted array
     bounded : BOOLEAN,          \* has @len(len)
     len : Exprs(l, i),
     pad : Usize, padTo : Usize, align : Usize,    \* 0: no such attribute
     prev : 0 .. i - 1,
     gate : SUBSET Literals(l, i),                 \* the conditionals around it
     lo : Usize, hi : Usize,     \* @range; 0 .. UsizeMax: none
     cap : Usize,                \* @max_iter; UsizeMax: none
     stop : 0 .. 255,            \* the sentinel of @until
     dynamic : BOOLEAN,          \* its offset is known only at run time
     cond : SUBSET Literals(l, i), yes : 0 .. i - 1, no : 0 .. i - 1]   \* of a join

Checked(f) == f.lo > 0 \/ f.hi < UsizeMax

LengthIsDynamic(f) ==
    \/ f.bounded /\ f.len.of # 0
    \/ ~f.bounded /\ f.kind \in {"greedy", "until", "hook", "ref", "join"}
    \/ f.kind = "counted" /\ f.count.of # 0

\* Gates of the branch items of a join, closed under the literal it decides on.
GateWithin(l, j, literals) == j = 0 \/ l.items[j].gate \subseteq literals

\* Conditionals nest and have an else: what lies between an item and the item it
\* starts from belongs to the other branch.
Apart(literals, others) == \E lit \in literals : Negation(lit) \in others
Adjacent(l, j, i, literals) == \A k \in j + 1 .. i - 1 : Apart(l.items[k].gate, literals)

ItemAccepted(l, i) ==
    LET f == l.items[i]
    IN  /\ f \in ItemType(l, i)
        /\ f.kind = "uint" \/ f.kind = "conv" => f.size \in {Length(1, 0), Length(2, 0)}
        /\ f.kind = "bits" => f.size.byte = 0 /\ f.size.bit > 0
        /\ f.kind \in {"greedy", "until"} => f.size.bit = 0 /\ f.size.byte > 0
        /\ f.kind = "until" => f.size.byte = 1
        /\ f.bounded => f.kind \in {"greedy", "until", "hook", "ref"} /\ f.gate = {}
        /\ Checked(f) => f.kind \in Numeric /\ f.gate = {}
        /\ f.cap < UsizeMax => f.gate = {}
        /\ f.align > 0 => f.dynamic
        /\ f.kind = "ref" /\ ~f.bounded => ~f.dynamic
        /\ f.dynamic = (f.prev # 0 /\ (l.items[f.prev].dynamic \/ LengthIsDynamic(l.items[f.prev])))
        /\ GateWithin(l, f.prev, f.gate)
        /\ f.kind # "join" => Adjacent(l, f.prev, i, f.gate)
        /\ f.kind \in {"greedy", "until"} /\ ~f.bounded /\ l.bounded => l.len \in Exprs(l, i)
        /\ f.kind = "join" =>
              \E c \in f.cond : /\ f.cond = {c}
                                /\ GateWithin(l, f.yes, f.gate \cup {c})
                                /\ GateWithin(l, f.no, f.gate \cup {Negation(c)})
                                /\ Adjacent(l, f.yes, i, f.gate \cup {c})
                                /\ Adjacent(l, f.no, i, f.gate \cup {Negation(c)})

Accepted(l) ==
    /\ DOMAIN l = {"items", "bounded", "len", "payload"}
    /\ l.items # <<>> /\ DOMAIN l.items = 1 .. Len(l.items)
    /\ l.bounded \in BOOLEAN
    /\ l.len \in Exprs(l, Len(l.items) + 1)
    /\ \A i \in 1 .. Len(l.items) : ItemAccepted(l, i)
    /\ l.items[Len(l.items)].gate = {}
    /\ l.payload \in 0 .. Len(l.items)
    /\ l.payload # 0 => l.items[l.payload].gate = {}
                        /\ l.items[l.payload].kind \notin {"hook", "conv", "join"}

ASSUME LayoutsAssumption == \A l \in Layouts : Accepted(l)

\* A slice is shorter than a usize can count, in bits too.
ASSUME InputsAssumption ==
    \A d \in Inputs : d \in Seq(0 .. 255) /\ 8 * (Len(d) + 1) <= UsizeMax

ASSUME AnswersAssumption == Answers \subseteq [ok : BOOLEAN, value : Usize, used : Usize]

ASSUME DebugAssertsAssumption == DebugAsserts \in BOOLEAN

-----------------------------------------------------------------------------
walk == <<pc, start, end, val, torn, unreadable>>
vars == <<layout, data, answer, call, walk, parsed, handoff, nodes, trees, fatal>>

N       == Len(layout.items)
Size    == Len(data)
Item(i) == layout.items[i]
Answered == {"hook", "conv", "ref"}

-----------------------------------------------------------------------------
(* Expressions and conditions over earlier fields.                         *)

\* ((field - minus) * times) + plus; the field is read `as usize`.
Eval(e) ==
    LET v == IF e.of = 0 THEN 0 ELSE val[e.of]
    IN  SatAdd(SatMul(SatSub(v, e.minus), e.times), e.plus)

Holds(lit)  == (val[lit.of] = lit.is) = lit.sense
Present(i)  == \A lit \in Item(i).gate : Holds(lit)

\* The gate of the conditional that decides on this literal of an item's gate: the
\* code tests it first, and the literal only when it holds (`outer() && ...`).
OuterGate(i, lit) ==
    LET closing == {k \in i + 1 .. N : /\ Item(k).cond \in {{lit}, {Negation(lit)}}
                                       /\ Item(k).gate \subseteq Item(i).gate \ {lit}}
    IN  {outer \in Item(i).gate :
            \E k \in closing : outer \in Item(k).gate /\ \A m \in closing : k <= m}

\* A literal is tested whose field cannot be read.
GatePanics(i) ==
    \E lit \in Item(i).gate :
        lit.of \in unreadable /\ \A outer \in OuterGate(i, lit) : Holds(outer)

\* The fields whose getters run when the end offset is computed.
EndReads(i)  == {Item(i).count.of, Item(i).len.of}
                  \cup (IF layout.bounded THEN {layout.len.of} ELSE {})

-----------------------------------------------------------------------------
(* Offsets and lengths.                                                    *)

StartOf(i) ==
    LET padded == AddLength(end[Item(i).prev], Length(Item(i).pad, 0))
    IN  IF Item(i).padTo > 0 THEN PadTo(padded, Item(i).padTo) ELSE padded

\* Where the slice a field may read ends: its own @len, else for the arrays
\* that fill what is left the struct's @len, else the input.
WindowEnd(i, s) ==
    IF Item(i).bounded THEN Least(SatAdd(ByteCeil(s), Eval(Item(i).len)), Size)
    ELSE IF layout.bounded /\ Item(i).kind \in {"greedy", "until"}
         THEN Least(Eval(layout.len), Size)
         ELSE Size

\* Mutant: a partial last element counts.
GreedyCountRoundedUp(i, s) ==
    (SatSub(WindowEnd(i, s), ByteCeil(s)) + Item(i).size.byte - 1) \div Item(i).size.byte

\* Whole elements left in the window, rounded down to read and up to advance.
GreedyCount(i, s) == SatSub(WindowEnd(i, s), ByteCeil(s)) \div Item(i).size.byte
GreedyBytes(i, s) ==
    LET rem   == SatSub(WindowEnd(i, s), ByteCeil(s))
        extra == rem % Item(i).size.byte
    IN  IF extra > 0 THEN SatAdd(rem - extra, Item(i).size.byte) ELSE rem

\* Where the first sentinel of the window is: a set of one position, or of none.
Sentinel(i, s) ==
    {p \in ByteCeil(s) .. WindowEnd(i, s) - 1 :
        /\ data[p + 1] = Item(i).stop
        /\ \A q \in ByteCeil(s) .. p - 1 : data[q + 1] # Item(i).stop}

\* The elements in front of the sentinel, and the bytes up to and with it; no
\* sentinel reads nothing and asks for one byte more than the window has.
UntilCount(i, s) ==
    IF Sentinel(i, s) = {} THEN 0 ELSE (CHOOSE p \in Sentinel(i, s) : TRUE) - ByteCeil(s)
UntilBytes(i, s) ==
    IF Sentinel(i, s) = {} THEN SatSub(SatAdd(WindowEnd(i, s), 1), ByteCeil(s))
                           ELSE SatAdd(UntilCount(i, s), 1)

\* The {field}_raw function of a hook on a `[u8]` field.
HookError(i, s) ==
    IF s.bit > 0 THEN "Unaligned"
    ELSE IF ~answer[i].ok THEN "HookFailed"
    ELSE IF SatAdd(s.byte, answer[i].used) > WindowEnd(i, s) THEN "NotEnoughData"
    ELSE "none"

\* A nested parse accepts when it fits the slice it was given.
ChildFits(i, s) ==
    /\ s.bit = 0
    /\ answer[i].ok
    /\ SatAdd(Least(s.byte, Size), answer[i].used) <= WindowEnd(i, s)

LengthOf(i, s) ==
    LET f == Item(i)
    IN  CASE f.bounded -> Length(Eval(f.len), 0)
          [] f.kind = "counted" -> MulLength(f.size, Eval(f.count))
          [] f.kind = "greedy" /\ ~f.bounded -> Length(GreedyBytes(i, s), 0)
          [] f.kind = "until" /\ ~f.bounded -> Length(UntilBytes(i, s), 0)
          [] f.kind = "hook" /\ ~f.bounded ->
                Length(IF HookError(i, s) = "none" THEN answer[i].used ELSE 0, 0)
          [] f.kind = "ref" /\ ~f.bounded ->
                Length(IF ChildFits(i, s) THEN answer[i].used ELSE 0, 0)
          [] f.kind \in {"uint", "bits", "conv"} -> f.size

\* Big-endian, most significant bit first; one value spans at most two bytes.
Byte(k)         == IF k \in 1 .. Size THEN data[k] ELSE 0
BigEndian(a, b) == IF b = a + 1 THEN Byte(b) ELSE 256 * Byte(b - 1) + Byte(b)
PowerOfTwo      == <<1, 2, 4, 8, 16, 32, 64, 128>>

\* The number a getter returns: an integer, a bit field, or what a hook made of
\* the field (0 when the hook fails); expressions read nothing else.
ConvError(i, s) ==
    IF s.bit > 0 THEN "Unaligned" ELSE IF answer[i].ok THEN "none" ELSE "HookFailed"
NumberAt(i, s, e) ==
    LET f == Item(i)
    IN  CASE f.kind = "uint" -> BigEndian(s.byte, s.byte + f.size.byte) % (UsizeMax + 1)
          [] f.kind = "bits" -> (BigEndian(s.byte, ByteCeil(e)) \div PowerOfTwo[((8 - e.bit) % 8) + 1])
                                     % PowerOfTwo[f.size.bit + 1]
          [] f.kind = "hook" -> IF HookError(i, s) = "none" THEN answer[i].value ELSE 0
          [] f.kind = "conv" -> IF ConvError(i, s) = "none" THEN answer[i].value ELSE 0
          [] OTHER -> 0

-----------------------------------------------------------------------------
(* What goes wrong at an item: panics, fatal errors, recoverable errors.   *)

\* `&self.data[start..]` of a hook that has no @len.
HookTears(i, s) == Item(i).kind = "hook" /\ ~Item(i).bounded /\ s.bit = 0 /\ s.byte > Size

StartPanics(i) == Item(i).prev \in torn
EndPanics(i) ==
    StartPanics(i) \/ HookTears(i, StartOf(i)) \/ EndReads(i) \cap unreadable # {}

\* debug_assert!(offset.bit == 0) in the getter of an integer.
AssertFails(i, s) ==
    DebugAsserts /\ Item(i).kind = "uint" /\ Item(i).dynamic /\ s.bit # 0

\* {field}_fatal_check: alignment, then the hook or the @until window, then the
\* length check every field has.
Misaligned(i, s) == Item(i).align > 0 /\ (s.bit # 0 \/ s.byte % Item(i).align # 0)
\* Mutant: the length check is missing.
FatalErrorWithoutLength(i, s, e) ==
    IF Misaligned(i, s) THEN "Misaligned"
    ELSE IF Item(i).kind = "hook" THEN HookError(i, s) ELSE "none"

FatalError(i, s, e) ==
    LET f == Item(i)
    IN  IF Misaligned(i, s) THEN "Misaligned"
        ELSE IF f.kind = "hook" /\ HookError(i, s) # "none" THEN HookError(i, s)
        ELSE IF f.kind = "until" /\ f.bounded
                /\ SatAdd(ByteCeil(s), UntilBytes(i, s)) > WindowEnd(i, s) THEN "NotEnoughData"
        ELSE IF Size < ByteCeil(e) THEN "NotEnoughData"
        ELSE "none"

FatalPanics(i) == StartPanics(i) \/ (~Misaligned(i, StartOf(i)) /\ EndPanics(i))

ElementCount(i, s) ==
    CASE Item(i).kind = "counted" -> Eval(Item(i).count)
      [] Item(i).kind = "greedy" -> GreedyCount(i, s)
      [] Item(i).kind = "until" -> UntilCount(i, s)
      [] OTHER -> 0

\* {field}_recoverable_check: @max_iter, the converting hook, then @range/@check.
RecoverableError(i, s, e) ==
    LET f == Item(i)
    IN  IF ElementCount(i, s) > f.cap THEN "MaxIterations"
        ELSE IF f.kind = "conv" /\ ConvError(i, s) # "none" THEN ConvError(i, s)
        ELSE IF Checked(f) /\ NumberAt(i, s, e) \notin f.lo .. f.hi THEN "Validation"
        ELSE "none"

\* Slicing the window at an offset past its end, or a read past the input.
WindowTears(i, s) ==
    /\ Item(i).kind \in {"counted", "greedy", "until"}
    /\ s.bit = 0 \/ Item(i).kind = "until"
    /\ ByteCeil(s) > WindowEnd(i, s)
RecoverablePanics(i, s) ==
    \/ Item(i).kind = "until" /\ Item(i).cap < UsizeMax /\ WindowTears(i, s)
    \/ Checked(Item(i)) /\ AssertFails(i, s)
NodePanics(i, s, e) ==
    \/ WindowTears(i, s)
    \/ AssertFails(i, s)
    \/ Item(i).kind \in {"uint", "bits", "conv"} /\ ByteCeil(e) > Size
    \/ Item(i).kind = "ref" /\ s.bit = 0
        /\ (IF Item(i).bounded THEN ByteCeil(e) ELSE s.byte) > Size

-----------------------------------------------------------------------------
(* The walk over the items that parse, field_tree and dissect share.       *)

NoNumbers == [i \in 0 .. N |-> 0]
AtStart   == [i \in 0 .. N |-> ZeroLength]

Restart ==
    /\ pc' = 1
    /\ start' = AtStart /\ end' = AtStart
    /\ val' = NoNumbers
    /\ torn' = {} /\ unreadable' = {}

EndOf(i) == AddLength(StartOf(i), LengthOf(i, StartOf(i)))

\* Go past field pc: from here on its getters can be called.
VisitField ==
    LET s == StartOf(pc)
    IN  /\ pc' = pc + 1
        /\ start' = [start EXCEPT ![pc] = s]
        /\ end' = [end EXCEPT ![pc] = EndOf(pc)]
        /\ val' = [val EXCEPT ![pc] = NumberAt(pc, s, EndOf(pc))]
        /\ torn' = IF EndPanics(pc) THEN torn \cup {pc} ELSE torn
        /\ unreadable' = IF AssertFails(pc, s) THEN unreadable \cup {pc} ELSE unreadable

AtField == pc <= N /\ Item(pc).kind # "join"

\* conditional_{n}_end_offset: the end of the branch that is present.
Taken(i)     == Present(i) /\ \A lit \in Item(i).cond : Holds(lit)
\* Mutant: the ends of the branches are swapped.
BranchSwapped(i) == IF Taken(i) THEN Item(i).no ELSE Item(i).yes

Branch(i)    == IF Taken(i) THEN Item(i).yes ELSE Item(i).no
TakenPanics(i) ==
    GatePanics(i) \/ (Present(i) /\ \E lit \in Item(i).cond : lit.of \in unreadable)

Join ==
    /\ call \in {"parse", "dissect"}
    /\ fatal = "none"
    /\ pc <= N
    /\ Item(pc).kind = "join"
    /\ pc' = pc + 1
    /\ end' = [end EXCEPT ![pc] = end[Branch(pc)]]
    /\ torn' = IF Branch(pc) \in torn \/ TakenPanics(pc)
               THEN torn \cup {pc} ELSE torn
    /\ UNCHANGED <<layout, data, answer, call, start, val, unreadable, parsed, handoff, nodes, trees, fatal>>

\* Mutant: the last field is left out.
StructLengthOfLastStart ==
    IF layout.bounded THEN Length(Eval(layout.len), 0) ELSE start[N]

\* The struct's length: its @len if it has one, else the last end offset.
StructLength == IF layout.bounded THEN Length(Eval(layout.len), 0) ELSE end[N]
StructLengthPanics ==
    IF layout.bounded THEN layout.len.of \in unreadable ELSE N \in torn

Panic ==
    /\ call' = "panic"
    /\ UNCHANGED <<layout, data, answer, walk, parsed, handoff, nodes, trees, fatal>>

-----------------------------------------------------------------------------
(* T::parse(data)                                                          *)

Outcome(status, at, used) == [status |-> status, at |-> at, used |-> used]

FieldError(i) ==
    LET s == StartOf(i)
    IN  IF FatalError(i, s, EndOf(i)) # "none" THEN FatalError(i, s, EndOf(i))
        ELSE RecoverableError(i, s, EndOf(i))

CheckPanics(i) ==
    \/ FatalPanics(i)
    \/ FatalError(i, StartOf(i), EndOf(i)) = "none" /\ RecoverablePanics(i, StartOf(i))

\* parse returned.  Ok gives the caller a view, whose getters go on answering
\* what they answered here; an error leaves only dissect to call.
Return(outcome) ==
    /\ parsed' = outcome
    /\ IF outcome.status = "ok"
       THEN call' = "tree" /\ pc' = 1 /\ UNCHANGED <<start, end, val, torn, unreadable>>
       ELSE call' = "dissect" /\ Restart
    /\ UNCHANGED <<layout, data, answer, handoff, nodes, trees, fatal>>

ParseAbsent ==
    /\ call = "parse" /\ AtField
    /\ ~GatePanics(pc) /\ ~Present(pc)
    /\ VisitField
    /\ UNCHANGED <<layout, data, answer, call, parsed, handoff, nodes, trees, fatal>>

ParseAccept ==
    /\ call = "parse" /\ AtField
    /\ ~GatePanics(pc) /\ Present(pc)
    /\ ~CheckPanics(pc) /\ FieldError(pc) = "none"
    /\ VisitField
    /\ UNCHANGED <<layout, data, answer, call, parsed, handoff, nodes, trees, fatal>>

ParseReject ==
    /\ call = "parse" /\ AtField
    /\ ~GatePanics(pc) /\ Present(pc)
    /\ ~CheckPanics(pc) /\ FieldError(pc) # "none"
    /\ Return(Outcome(FieldError(pc), pc, 0))

ParsePanic ==
    /\ call = "parse"
    /\ \/ AtField /\ (GatePanics(pc) \/ (Present(pc) /\ CheckPanics(pc)))
       \/ pc > N /\ StructLengthPanics
    /\ Panic

ParseFinish ==
    /\ call = "parse" /\ pc > N
    /\ ~StructLengthPanics
    /\ Return(IF StructLength.bit # 0 THEN Outcome("Unaligned", N + 1, 0)
              ELSE IF Size < StructLength.byte THEN Outcome("NotEnoughData", N + 1, 0)
              ELSE Outcome("ok", N + 1, StructLength.byte))

Parse == ParseAbsent \/ ParseAccept \/ ParseReject \/ ParsePanic \/ ParseFinish

-----------------------------------------------------------------------------
(* The nodes of a field tree, their ranges in bits.                        *)

Node(i, from, to, status) == [at |-> i, from |-> from, to |-> to, status |-> status]

HasPad(i) == Item(i).pad > 0 \/ Item(i).padTo > 0

\* Mutant: @pad_to makes no node.
PadNodesOfPadOnly(i, s) ==
    IF Item(i).pad > 0 THEN <<Node(i, Bits(end[Item(i).prev]), Bits(s), "pad")>> ELSE <<>>

\* {field}_pad_node, pushed whether or not the field itself is present.
PadNodes(i, s) ==
    LET from == Bits(end[Item(i).prev])
    IN  IF HasPad(i) /\ from < Bits(s) THEN <<Node(i, from, Bits(s), "pad")>> ELSE <<>>

\* {field}_absent_node: an empty range at the offset the field would have.
AbsentNodes(i, s) == PadNodes(i, s) \o <<Node(i, Bits(s), Bits(s), "absent")>>

\* {field}_present_node; only a nested struct can fail this late.
PresentNodes(i, s, e) ==
    PadNodes(i, s) \o
    <<Node(i, Bits(s), Bits(e), IF Item(i).kind = "ref" /\ ~ChildFits(i, s) THEN "Child" ELSE "ok")>>

LastTo(children) == IF children = <<>> THEN 0 ELSE children[Len(children)].to

\* Bytes inside the struct's @len that no field consumed.
TrailingNodes(bound) ==
    LET consumed == Least((LastTo(nodes) + 7) \div 8, bound)
    IN  IF layout.bounded /\ consumed < bound
        THEN <<Node(N + 1, SatMul(consumed, 8), SatMul(bound, 8), "trailing")>>
        ELSE <<>>

NoTree == [done |-> FALSE, to |-> 0, nodes |-> <<>>, status |-> "none"]
Tree(to, children, status) ==
    [done |-> TRUE, to |-> to, nodes |-> children, status |-> status]

-----------------------------------------------------------------------------
(* view.field_tree() and view.handoff(), after parse returned Ok(view).    *)

TreeShow(shown) ==
    /\ pc' = pc + 1
    /\ nodes' = nodes \o shown
    /\ UNCHANGED <<layout, data, answer, call, start, end, val, torn, unreadable,
                   parsed, handoff, trees, fatal>>

TreeJoin == call = "tree" /\ pc <= N /\ Item(pc).kind = "join" /\ TreeShow(<<>>)

\* Mutant: an absent field leaves no node.
TreeAbsentForgotten ==
    call = "tree" /\ AtField /\ ~Present(pc) /\ ~StartPanics(pc) /\ TreeShow(<<>>)

TreeAbsent ==
    /\ call = "tree" /\ AtField
    /\ ~Present(pc) /\ ~StartPanics(pc)
    /\ TreeShow(AbsentNodes(pc, start[pc]))

TreePresent ==
    /\ call = "tree" /\ AtField
    /\ Present(pc) /\ pc \notin torn /\ ~NodePanics(pc, start[pc], end[pc])
    /\ TreeShow(PresentNodes(pc, start[pc], end[pc]))

TreePanic ==
    /\ call = "tree" /\ AtField
    /\ IF Present(pc) THEN pc \in torn \/ NodePanics(pc, start[pc], end[pc])
                      ELSE StartPanics(pc)
    /\ Panic

TreeFinish ==
    /\ call = "tree" /\ pc > N
    /\ trees' = [trees EXCEPT !.tree =
                   Tree(Bits(StructLength),
                        nodes \o TrailingNodes(Least(StructLength.byte, Size)), "ok")]
    /\ call' = "handoff"
    /\ UNCHANGED <<layout, data, answer, walk, parsed, handoff, nodes, fatal>>

NoHandoff == [some |-> FALSE, from |-> 0, to |-> 0]

\* Mutant: everything after the payload's start is handed on.
HandoffToTheEnd ==
    /\ call = "handoff"
    /\ handoff' = IF layout.payload = 0 THEN NoHandoff
                  ELSE [some |-> TRUE, from |-> Least(start[layout.payload].byte, Size), to |-> Size]
    /\ call' = "dissect" /\ nodes' = <<>>
    /\ Restart
    /\ UNCHANGED <<layout, data, answer, parsed, trees, fatal>>

\* handoff(): the payload's bytes, clamped to the input.
Handoff ==
    /\ call = "handoff"
    /\ handoff' =
         IF layout.payload = 0 THEN NoHandoff
         ELSE LET s == start[layout.payload]
                  e == end[layout.payload]
                  from == Least(s.byte, Size)
              IN  IF IsByteAligned(s) /\ IsByteAligned(e)
                  THEN [some |-> TRUE, from |-> from,
                        to |-> IF e.byte < from THEN from ELSE Least(e.byte, Size)]
                  ELSE NoHandoff
    /\ call' = "dissect"
    /\ nodes' = <<>>
    /\ Restart
    /\ UNCHANGED <<layout, data, answer, parsed, trees, fatal>>

View == TreeJoin \/ TreeAbsent \/ TreePresent \/ TreePanic \/ TreeFinish \/ Handoff

-----------------------------------------------------------------------------
(* T::dissect(data): a tree even of what does not parse.                   *)

AtDissect == call = "dissect" /\ fatal = "none" /\ AtField

DissectShow(shown) ==
    /\ VisitField
    /\ nodes' = nodes \o shown
    /\ UNCHANGED <<layout, data, answer, call, parsed, handoff, trees, fatal>>

DissectPanics(i) ==
    \/ GatePanics(i)
    \/ IF Present(i)
       THEN \/ CheckPanics(i)
            \/ FieldError(i) = "none" /\ NodePanics(i, StartOf(i), EndOf(i))
       ELSE StartPanics(i)

DissectAbsent ==
    /\ AtDissect /\ ~DissectPanics(pc)
    /\ ~Present(pc)
    /\ DissectShow(AbsentNodes(pc, StartOf(pc)))

\* Mutant: the recoverable check is skipped.
DissectPresentUnchecked ==
    /\ AtDissect /\ ~DissectPanics(pc)
    /\ Present(pc) /\ FatalError(pc, StartOf(pc), EndOf(pc)) = "none"
    /\ DissectShow(PresentNodes(pc, StartOf(pc), EndOf(pc)))

DissectPresent ==
    /\ AtDissect /\ ~DissectPanics(pc)
    /\ Present(pc) /\ FieldError(pc) = "none"
    /\ DissectShow(PresentNodes(pc, StartOf(pc), EndOf(pc)))

\* A recoverable error marks the node and the walk goes on.
DissectRecover ==
    /\ AtDissect /\ ~DissectPanics(pc)
    /\ Present(pc)
    /\ FatalError(pc, StartOf(pc), EndOf(pc)) = "none" /\ FieldError(pc) # "none"
    /\ DissectShow(PadNodes(pc, StartOf(pc)) \o
                   <<Node(pc, Bits(StartOf(pc)), Bits(EndOf(pc)), FieldError(pc))>>)

\* A fatal error marks an empty node and stops the walk.
DissectFatal ==
    /\ AtDissect /\ ~DissectPanics(pc)
    /\ Present(pc)
    /\ FatalError(pc, StartOf(pc), EndOf(pc)) # "none"
    /\ fatal' = FieldError(pc)
    /\ nodes' = nodes \o PadNodes(pc, StartOf(pc)) \o
                <<Node(pc, Bits(StartOf(pc)), Bits(StartOf(pc)), FieldError(pc))>>
    /\ UNCHANGED <<layout, data, answer, call, walk, parsed, handoff, trees>>

DissectPanic ==
    /\ AtDissect /\ DissectPanics(pc)
    /\ Panic

\* The field the struct's @len reads was read before, for its own node.
DissectFinish ==
    /\ call = "dissect" /\ (fatal # "none" \/ pc > N)
    /\ LET short  == fatal = "none" /\ layout.bounded /\ Size < StructLength.byte
           status == IF short THEN "NotEnoughData" ELSE fatal
       IN  trees' = [trees EXCEPT !.dissect =
                       Tree(IF layout.bounded /\ status = "none" THEN Bits(StructLength) ELSE LastTo(nodes),
                            IF status = "none" THEN nodes \o TrailingNodes(StructLength.byte) ELSE nodes,
                            IF status = "none" THEN "ok" ELSE status)]
    /\ call' = "done"
    /\ UNCHANGED <<layout, data, answer, walk, parsed, handoff, nodes, fatal>>

Dissect == DissectAbsent \/ DissectPresent \/ DissectRecover \/ DissectFatal
             \/ DissectPanic \/ DissectFinish

-----------------------------------------------------------------------------
AnswersOf(l) == [{i \in 1 .. Len(l.items) : l.items[i].kind \in Answered} -> Answers]

Init ==
    /\ layout \in Layouts
    /\ data \in Inputs
    /\ answer \in AnswersOf(layout)
    /\ call = "parse"
    /\ pc = 1
    /\ start = AtStart /\ end = AtStart /\ val = NoNumbers
    /\ torn = {} /\ unreadable = {}
    /\ parsed = Outcome("none", 0, 0)
    /\ handoff = NoHandoff
    /\ nodes = <<>>
    /\ trees = [tree |-> NoTree, dissect |-> NoTree]
    /\ fatal = "none"

Next == Parse \/ Join \/ View \/ Dissect

Spec == Init /\ [][Next]_vars

-----------------------------------------------------------------------------
Statuses == {"ok", "absent", "pad", "trailing", "Child", "Misaligned", "Unaligned",
             "HookFailed", "NotEnoughData", "MaxIterations", "Validation"}
Nodes    == [at : 1 .. N + 1, from : Usize, to : Usize, status : Statuses]

TypeOK ==
    /\ layout \in Layouts /\ data \in Inputs /\ answer \in AnswersOf(layout)
    /\ call \in {"parse", "tree", "handoff", "dissect", "done", "panic"}
    /\ pc \in 1 .. N + 1
    /\ start \in [0 .. N -> Lengths] /\ end \in [0 .. N -> Lengths]
    /\ val \in [0 .. N -> Int]
    /\ torn \subseteq 1 .. N /\ unreadable \subseteq 1 .. N

-----------------------------------------------------------------------------
(* Never panics.                                                           *)

BitFree(l) == \A i \in 1 .. Len(l.items) : l.items[i].size.bit = 0

\* The layouts for which the code keeps README.md's promise: an @hook without
\* @len follows no padding and no conditional field of its own branch, arrays
\* inside a struct-level @len carry their own, and in a debug build no integer
\* can come to lie across bytes.
Guarded(l) ==
    \A i \in 1 .. Len(l.items) :
        LET f == l.items[i]
        IN  /\ f.kind = "hook" /\ ~f.bounded =>
                  /\ f.pad = 0 /\ f.padTo = 0
                  /\ f.prev = 0 \/ l.items[f.prev].gate = {}
            /\ f.kind \in {"greedy", "until"} /\ l.bounded => f.bounded
            /\ DebugAsserts /\ f.kind = "uint" /\ f.dynamic => BitFree(l)

\* The items whose offsets the current walk has computed.
Visited == IF call \in {"tree", "handoff"} THEN 1 .. N ELSE 1 .. pc - 1

\* Why no getter of a guarded layout slices out of range, as an invariant that
\* every step keeps: fields end where or after they start, what is present ends
\* in the input, nothing visited would panic if it were evaluated again.
WalkIsSafe ==
    /\ end[0] = ZeroLength
    /\ \A i \in Visited :
          /\ Item(i).kind # "join" => ByteCeil(start[i]) <= ByteCeil(end[i])
          /\ Present(i) => ByteCeil(end[i]) <= Size
    /\ BitFree(layout) => \A i \in 0 .. N : start[i].bit = 0 /\ end[i].bit = 0
    /\ Guarded(layout) => torn = {} /\ unreadable = {} /\ call # "panic"

\* No call panics, whatever the struct: what README.md:30 promises.
NeverPanics == call # "panic"

\* No call on a guarded layout panics, whatever the bytes and the hooks' answers:
\* every slice the generated getters take lies inside data.
GuardedNeverPanics == Guarded(layout) => NeverPanics

-----------------------------------------------------------------------------
(* Offsets.                                                                *)

Fields(shown) == {i \in shown : Item(i).kind # "join" /\ Present(i)}

\* A checked field that is present lies in the input, and starts where or after
\* every earlier present field ended: conditionals hand on the right offset.
FieldsInOrder ==
    \A i \in Fields(Visited) :
        /\ ByteCeil(end[i]) <= Size
        /\ \A j \in Fields(Visited) : j < i => Bits(end[j]) <= Bits(start[i])

\* The elements an array's iterator hands out lie in the window the array was
\* given, so that the saturating length check is enough for next() to read them.
IteratorsInside ==
    \A i \in Fields(Visited) :
        LET s == start[i]
            count == ElementCount(i, s)
        IN  s.bit = 0 /\ count > 0 =>
                8 * s.byte + count * (8 * Item(i).size.byte + Item(i).size.bit)
                    <= 8 * WindowEnd(i, s)

\* A struct without @len never reads into the remainder parse hands back.
RemainderUntouched ==
    call = "tree" /\ ~layout.bounded =>
        \A i \in Fields(1 .. N) : Bits(end[i]) <= 8 * parsed.used

-----------------------------------------------------------------------------
(* The trees of field_tree and dissect.                                    *)

Benign == {"ok", "absent", "pad", "trailing", "Child"}
Errors(children) == {k \in DOMAIN children : children[k].status \notin Benign}

\* dissect and parse agree: what parse accepts is dissected without an error, and
\* the first error of the tree is the one parse reports, at the same field (only
\* parse rejects a struct that ends inside a byte).
ParseDissectAgree ==
    call = "done" =>
        LET children == trees.dissect.nodes
        IN  /\ parsed.status = "ok" =>
                  trees.dissect.status = "ok" /\ Errors(children) = {}
            /\ parsed.status # "ok" /\ parsed.at <= N =>
                  \E k \in Errors(children) :
                      /\ children[k].at = parsed.at /\ children[k].status = parsed.status
                      /\ \A m \in Errors(children) : k <= m
            /\ parsed.status = "NotEnoughData" /\ parsed.at > N =>
                  Errors(children) = {} /\ trees.dissect.status = "NotEnoughData"

\* The tree of a parsed view and the tree of its bytes show the same nodes.
TreesAgree ==
    call = "done" /\ parsed.status = "ok" => trees.tree.nodes = trees.dissect.nodes

\* The nodes of the fields that are there, and of their padding, tile the input:
\* none overlap and no bit of the struct is left out between two of them.
Shown(children) ==
    {k \in DOMAIN children : /\ children[k].status \notin {"absent", "trailing"}
                             /\ children[k].status = "pad" => Present(children[k].at)}
Tiles(children) ==
    \A k \in Shown(children) :
        \/ children[k].from = 0 /\ \A m \in Shown(children) : k <= m
        \/ \E j \in Shown(children) :
              /\ j < k /\ children[k].from = children[j].to
              /\ \A m \in Shown(children) : m <= j \/ k <= m
NodesTile ==
    /\ call = "handoff" => Tiles(trees.tree.nodes)
    /\ call = "done" => Tiles(trees.dissect.nodes)

\* A node with status Ok ends inside the input (docs/fuzzing-plan.md:526-528).
OkNodesInsideInput ==
    \A tree \in {trees.tree, trees.dissect} :
        /\ tree.status = "ok" => tree.to <= 8 * Size
        /\ \A k \in 1 .. Len(tree.nodes) :
              tree.nodes[k].status \in Benign \ {"Child"} => tree.nodes[k].to <= 8 * Size

\* The bytes handed to the next parser are the payload field's: clamping to the
\* input never changes them once parse has accepted.
HandoffIsPayload ==
    call = "dissect" /\ handoff.some =>
        \E k \in 1 .. Len(trees.tree.nodes) :
            LET n == trees.tree.nodes[k]
            IN  /\ n.at = layout.payload /\ n.status # "pad"
                /\ n.from = 8 * handoff.from /\ n.to = 8 * handoff.to

\* The payload ends inside what parse consumed (docs/fuzzing-plan.md:541).
HandoffInsideConsumed == handoff.some => handoff.to <= parsed.used

=============================================================================
