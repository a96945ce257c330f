------------------------------ MODULE ArrayView ------------------------------
(***************************************************************************)
(* The code generated for an array field: the check parse makes, the       *)
(* iterator the getter returns, the bytes behind the elements (_rest) and  *)
(* the node of the field tree.                                             *)
(*                                                                         *)
(*     n: u8,  items: [E; n] or @greedy [E] or @until(0) [u8], the last    *)
(*             two also in @len(n), each with or without @max_iter         *)
(*                                                                         *)
(* E is a byte, a pair of bytes, three bits, a record of two bytes whose   *)
(* first has a @range, or an entry: struct E @len(n) { n: u8 }, which may   *)
(* take no bytes at all.                                                   *)
(***************************************************************************)
EXTENDS Naturals, Sequences, FiniteSets

CONSTANTS Layouts,    \* the arrays considered
          Inputs      \* the input slices: sequences of bytes

Elems == {"byte", "pair", "bits", "record", "entry"}

\* What the generator accepts: a sentinel among bytes only, bits in counted arrays
\* only, entries in greedy arrays that have a @max_iter only.
ASSUME LayoutsAssumption ==
    \A l \in Layouts :
        /\ l \in [mode : {"counted", "until", "greedy"}, elem : Elems, windowed : BOOLEAN,
                  cap : SUBSET Nat]
        /\ \A c, d \in l.cap : c = d
        /\ l.mode = "until" => l.elem = "byte"
        /\ l.elem = "bits" => l.mode = "counted"
        /\ l.elem = "entry" => l.mode = "greedy" /\ l.cap # {}
        /\ l.windowed => l.mode # "counted"
ASSUME InputsAssumption == Inputs \subseteq Seq(0 .. 255)

VARIABLES layout, data,
          phase,      \* "parsing", "open", "rejected" or "panic"
          iter,       \* the iterator the caller has, or NoIterator
          seen,       \* the elements and errors it yielded
          ended,      \* it returned None
          answer      \* what the last _rest or field_tree returned

vars == <<layout, data, phase, iter, seen, ended, answer>>

Size    == Len(data)
Byte(i) == data[i + 1]
Least(a, b)  == IF a < b THEN a ELSE b
Minus(a, b)  == IF a > b THEN a - b ELSE 0

ItemsStart == 1       \* the offset behind n

RecordLimit == 1      \* the @range of a record's first byte

ElemBits == CASE layout.elem = "byte" -> 8
              [] layout.elem \in {"pair", "record"} -> 16
              [] layout.elem = "bits" -> 3
ElemSize == ElemBits \div 8
Ceil(bits) == (bits + 7) \div 8

IsEntry == layout.elem = "entry"

-----------------------------------------------------------------------------
(* Where the array ends and how many elements it has.                      *)

\* self.data, or the part of it @len(n) lets the array see.
WindowEnd == IF layout.windowed THEN Least(ItemsStart + Byte(0), Size) ELSE Size
Room      == Minus(WindowEnd, ItemsStart)

Sentinels == {i \in ItemsStart .. WindowEnd - 1 : Byte(i) = 0}
Sentinel  == CHOOSE i \in Sentinels : \A j \in Sentinels : i <= j

Count ==
    CASE layout.mode = "counted" -> Byte(0)
      [] layout.mode = "until" -> IF Sentinels = {} THEN 0 ELSE Sentinel - ItemsStart
      [] layout.mode = "greedy" -> IF IsEntry THEN 0 ELSE Room \div ElemSize

\* In bits.  A partial element and a missing sentinel ask for more than there is.
ElementsLength ==
    CASE layout.mode = "counted" -> ElemBits * Byte(0)
      [] layout.mode = "until" ->
             8 * IF Sentinels = {} THEN Minus(WindowEnd + 1, ItemsStart)
                 ELSE Sentinel + 1 - ItemsStart
      [] layout.mode = "greedy" ->
             8 * IF IsEntry THEN Room
                 ELSE ((Room + ElemSize - 1) \div ElemSize) * ElemSize

FieldLength == IF layout.windowed THEN 8 * Byte(0) ELSE ElementsLength
FieldEnd    == 8 * ItemsStart + FieldLength

\* {field}_rest: what the elements leave of the window.
ElementsEnd == ItemsStart + Ceil(ElementsLength)
Rest == IF ElementsEnd > WindowEnd THEN [ok |-> FALSE, from |-> 0, to |-> 0]
        ELSE [ok |-> TRUE, from |-> ElementsEnd, to |-> WindowEnd]

\* parse: n is there; the sentinel, too; then the length, the cap and whole bytes.
Accepts ==
    /\ Size >= 1
    /\ layout.mode = "until" /\ layout.windowed => Rest.ok
    /\ Ceil(FieldEnd) <= Size
    /\ ~IsEntry => \A c \in layout.cap : Count <= c
    /\ FieldEnd % 8 = 0

-----------------------------------------------------------------------------
(* The iterator: how far it is and the slice in front of it.               *)

NoIterator == [idx |-> 0, count |-> 0, from |-> 0, to |-> 0, bit |-> 0]

Cap == CHOOSE c \in layout.cap : TRUE

Opened ==
    [idx |-> 0, count |-> IF IsEntry THEN Cap ELSE Count,
     from |-> ItemsStart, to |-> WindowEnd, bit |-> 0]

\* Bound: the calls of next of one loop, the last of which returns None.
Turns == Opened.count + 2

Yield(kind, from, to) == [kind |-> kind, from |-> from, to |-> to]    \* in bits
None  == Yield("none", 0, 0)
Panic == Yield("panic", 0, 0)
Step(it, y) == [iter |-> it, yields |-> y]

\* What the parser of a record or an entry says of the slice from..to.
ParseElement(from, to) ==
    IF layout.elem = "record"
    THEN IF from + 2 > to THEN Yield("short", 8 * from, 8 * from)
         ELSE IF Byte(from) > RecordLimit THEN Yield("range", 8 * from, 8 * from)
         ELSE Yield("item", 8 * from, 8 * (from + 2))
    ELSE IF from + Byte(from) > to THEN Yield("short", 8 * from, 8 * from)
         ELSE Yield("item", 8 * from, 8 * (from + Byte(from)))

NextBytes(it) ==
    IF it.from + ElemSize > it.to THEN Step(it, Panic)
    ELSE Step([it EXCEPT !.idx = @ + 1, !.from = @ + ElemSize],
              Yield("item", 8 * it.from, 8 * (it.from + ElemSize)))

\* The bits of an element may lie in two bytes.
NextBits(it) ==
    IF it.from + Ceil(it.bit + ElemBits) > it.to THEN Step(it, Panic)
    ELSE Step([it EXCEPT !.idx = @ + 1, !.bit = @ + ElemBits],
              Yield("item", 8 * it.from + it.bit, 8 * it.from + it.bit + ElemBits))

\* Mutant: the records are read from the same place.
NextRecordStaying(it) == Step([it EXCEPT !.idx = @ + 1], ParseElement(it.from, it.to))

\* An error leaves the iterator where it is: it says the same until it has counted down.
NextRecord(it) ==
    LET y == ParseElement(it.from, it.to)
    IN  Step([it EXCEPT !.idx = @ + 1, !.from = IF y.kind = "item" THEN @ + 2 ELSE @], y)

NextCounted(it) ==
    IF it.idx = it.count THEN Step(it, None)
    ELSE CASE layout.elem \in {"byte", "pair"} -> NextBytes(it)
           [] layout.elem = "bits" -> NextBits(it)
           [] layout.elem = "record" -> NextRecord(it)

Emptied(it) == [it EXCEPT !.from = it.to]

\* Mutant: entries are not counted.
NextEntryCountless(it) ==
    LET y == ParseElement(it.from, it.to)
    IN  IF it.from = it.to THEN Step(it, None)
        ELSE IF it.idx = it.count THEN Step(Emptied(it), Yield("cap", 8 * it.from, 8 * it.from))
        ELSE IF y.kind = "item" THEN Step([it EXCEPT !.from = y.to \div 8], y)
        ELSE Step(Emptied([it EXCEPT !.idx = @ + 1]), y)

\* Mutant: the cap ends the iteration without a word.
NextEntrySilent(it) ==
    LET y == ParseElement(it.from, it.to)
        counted == [it EXCEPT !.idx = @ + 1]
    IN  IF it.from = it.to \/ it.idx = it.count THEN Step(it, None)
        ELSE IF y.kind = "item" THEN Step([counted EXCEPT !.from = y.to \div 8], y)
        ELSE Step(Emptied(counted), y)

\* Entries, until the slice is empty; the cap and an error empty it.
NextEntry(it) ==
    LET y == ParseElement(it.from, it.to)
        counted == [it EXCEPT !.idx = @ + 1]
    IN  IF it.from = it.to THEN Step(it, None)
        ELSE IF it.idx = it.count THEN Step(Emptied(it), Yield("cap", 8 * it.from, 8 * it.from))
        ELSE IF y.kind = "item" THEN Step([counted EXCEPT !.from = y.to \div 8], y)
        ELSE Step(Emptied(counted), y)

Following(it) == IF IsEntry THEN NextEntry(it) ELSE NextCounted(it)

-----------------------------------------------------------------------------
(* field_tree: a node per element, and one for what is left of the window. *)

\* An error has a node without bytes, behind the last element.
Node(start, y) ==
    [name |-> IF y.kind = "item" THEN "element" ELSE "error",
     from |-> start, to |-> start + (y.to - y.from), bytes |-> Ceil(y.to - y.from)]

\* The loop over the iterator: where its next node starts, the nodes it pushed, and
\* what ended it.
Entered == [iter |-> Opened, start |-> 8 * ItemsStart, nodes |-> <<>>, over |-> "no"]

Turned(l) ==
    LET s == Following(l.iter)
    IN  IF l.over # "no" THEN l
        ELSE IF s.yields.kind \in {"none", "panic"} THEN [l EXCEPT !.over = s.yields.kind]
        ELSE [iter |-> s.iter, start |-> l.start + (s.yields.to - s.yields.from),
              nodes |-> Append(l.nodes, Node(l.start, s.yields)), over |-> "no"]

Loop[n \in 0 .. Turns] == IF n = 0 THEN Entered ELSE Turned(Loop[n - 1])

Looped == Loop[Turns]

\* Mutant: the node of the rest begins where its bytes do not.
ChildrenFromWindow ==
    IF ~layout.windowed \/ ~Rest.ok \/ Rest.from = Rest.to THEN Looped.nodes
    ELSE Append(Looped.nodes, [name |-> "rest", from |-> 8 * ItemsStart, to |-> FieldEnd,
                               bytes |-> Rest.to - Rest.from])

Children ==
    LET nodes == Looped.nodes
        consumed == IF nodes = <<>> THEN 8 * ItemsStart ELSE nodes[Len(nodes)].to
    IN  IF ~layout.windowed \/ ~Rest.ok \/ Rest.from = Rest.to THEN nodes
        ELSE Append(nodes, [name |-> "rest", from |-> Least(consumed, FieldEnd), to |-> FieldEnd,
                            bytes |-> Rest.to - Rest.from])

-----------------------------------------------------------------------------
Init ==
    /\ layout \in Layouts /\ data \in Inputs
    /\ phase = "parsing" /\ iter = NoIterator /\ seen = <<>> /\ ended = FALSE
    /\ answer = <<>>

Parse ==
    /\ phase = "parsing"
    /\ phase' = IF Accepts THEN "open" ELSE "rejected"
    /\ UNCHANGED <<layout, data, iter, seen, ended, answer>>

\* The getter: a caller has one iterator at a time and drains it before the next.
Open ==
    /\ phase = "open" /\ (iter = NoIterator \/ ended)
    /\ iter' = Opened /\ seen' = <<>> /\ ended' = FALSE
    /\ UNCHANGED <<layout, data, phase, answer>>

NextElement ==
    /\ phase = "open" /\ iter # NoIterator
    /\ Len(seen) < Turns
    /\ LET s == Following(iter)
       IN  /\ iter' = s.iter
           /\ phase' = IF s.yields.kind = "panic" THEN "panic" ELSE phase
           /\ ended' = (ended \/ s.yields.kind = "none")
           /\ seen' = IF s.yields.kind \in {"none", "panic"} THEN seen
                      ELSE Append(seen, s.yields)
    /\ UNCHANGED <<layout, data, answer>>

FieldTree ==
    /\ phase = "open"
    /\ answer' = Children
    /\ phase' = IF Looped.over = "panic" THEN "panic" ELSE phase
    /\ UNCHANGED <<layout, data, iter, seen, ended>>

Next == Parse \/ Open \/ NextElement \/ FieldTree
Spec == Init /\ [][Next]_vars

\* A loop over the iterator goes on until it returns None.
FairSpec == Spec /\ WF_vars(NextElement)

-----------------------------------------------------------------------------
Kinds == {"item", "short", "range", "cap"}

TypeOK ==
    /\ layout \in Layouts /\ data \in Inputs
    /\ phase \in {"parsing", "open", "rejected", "panic"}
    /\ iter.idx \in 0 .. iter.count /\ iter.from \in 0 .. iter.to /\ iter.to <= Size
    /\ \A i \in 1 .. Len(seen) : seen[i].kind \in Kinds /\ seen[i].from <= seen[i].to
    /\ ended \in BOOLEAN

ItemsSeen == {i \in 1 .. Len(seen) : seen[i].kind = "item"}

(* Iterating what parse accepted never reads past the slice: the elements  *)
(* follow one another from the start of the array, within the bytes parse  *)
(* consumed, and none comes behind one that does not parse.                *)
(* (the slices next leaves behind)                                         *)
ItemsTile ==
    /\ phase # "panic"
    /\ \A i \in ItemsSeen :
           /\ IF i = 1 THEN seen[i].from = 8 * ItemsStart
              ELSE i - 1 \in ItemsSeen /\ seen[i].from = seen[i - 1].to
           /\ seen[i].to <= FieldEnd

(* An iterator that is at its end has yielded as many elements and errors  *)
(* as the array has, or, of entries, has come to the end of the window, or *)
(* has said why not; never more entries than @max_iter.                    *)
(* (bounded_next and the iterator of greedy structs)                       *)
EndsForAReason ==
    ended => IF IsEntry
             THEN /\ Cardinality(ItemsSeen) <= Cap
                  /\ LET last == IF seen = <<>> THEN [kind |-> "item", to |-> 8 * ItemsStart]
                                 ELSE seen[Len(seen)]
                     IN  last.kind = "item" => last.to = 8 * WindowEnd
             ELSE Len(seen) = Count

(* The children of the array's node follow one another from its start, and *)
(* with a node for what the elements left they end where it ends.          *)
(* (the tree of an array, with @len and without)                           *)
ChildrenTile ==
    \A i \in 1 .. Len(answer) :
        /\ answer[i].from = IF i = 1 THEN 8 * ItemsStart ELSE answer[i - 1].to
        /\ answer[i].to <= FieldEnd
        /\ answer[i].name = "rest" => answer[i].to = FieldEnd

(* Every node has as many bytes as its range says.                         *)
(* (README.md:34 "every field reports its exact bit range")                *)
RangesAreExact ==
    \A i \in 1 .. Len(answer) : answer[i].bytes = Ceil(answer[i].to - answer[i].from)

(* A loop over an iterator ends, also over entries without bytes.          *)
(* (@max_iter, docs/fuzzing-plan.md:491)                                   *)
EventuallyEnds == phase = "open" /\ iter # NoIterator ~> ended
=============================================================================
