--------------------------- MODULE UnionViewProofs ---------------------------
(***************************************************************************)
(* Proofs about CachedUnionView and UnionView: a full slot holds what its  *)
(* getter computes, so that the struct with caches implements the one      *)
(* without; what parse accepted can be read and its tree tiles its range,  *)
(* dissect comes to parse's verdict, and by the refinement the same holds  *)
(* with caches.                                                            *)
(***************************************************************************)
EXTENDS CachedUnionView, Integers, WellFoundedInduction, TLAPS

\* From the well-foundedness of <.
LEMMA LeastOf ==
    ASSUME NEW T, T \subseteq Nat, T # {}
    PROVE  \E x \in T : \A y \in T : x <= y
<1>1. \E x \in T : \A y \in T : ~ (<<y, x>> \in OpToRel(<, Nat))
  BY WFMin, NatLessThanWellFounded, Zenon
<1>2. ASSUME NEW x \in T, NEW y \in T, ~ (<<y, x>> \in OpToRel(<, Nat)) PROVE x <= y
  BY <1>2 DEF OpToRel
<1> QED
  BY <1>1, <1>2

\* What the uncached functions compute.
TheBody == ReadBody(Selected, Start)
TheTail == TailOf(BodyEnd)

\* The slots m hold what the getters compute.
Valid(m) ==
    /\ DOMAIN m = Slots
    /\ IsFull(m, "key") => Slot(m, "key") = KeyRaw
    /\ IsFull(m, "end") => Slot(m, "end") = KeyEnd
    /\ IsFull(m, "body") => Slot(m, "body") = TheBody
    /\ IsFull(m, "tail") => Slot(m, "tail") = TheTail

\* A getter answers like the uncached one.
Gives(r, v) == Valid(r.memo) /\ r.value = v

LEMMA WithGives == ASSUME NEW m, Valid(m), NEW v PROVE Gives(With(m, v), v)
BY DEF Gives, With

LEMMA SlotOfFilled ==
    ASSUME NEW m, DOMAIN m = Slots, NEW slot \in Slots, NEW v, Cached(slot)
    PROVE  /\ DOMAIN Fill(m, slot, v) = Slots
           /\ Slot(Fill(m, slot, v), slot) = v
           /\ \A other \in Slots \ {slot} : Fill(m, slot, v)[other] = m[other]
<1>1. Fill(m, slot, v) = [m EXCEPT ![slot] = {v}]
  BY DEF Fill
<1>2. Fill(m, slot, v)[slot] = {v}
  BY <1>1
<1>3. (CHOOSE w \in {v} : TRUE) = v
  OBVIOUS
<1> QED
  BY <1>1, <1>2, <1>3 DEF Slot

\* What is stored is what the slot's getter computes.
LEMMA StoredGives ==
    ASSUME NEW m, Valid(m), NEW slot \in Slots, NEW v,
           slot = "key" => v = KeyRaw, slot = "end" => v = KeyEnd,
           slot = "body" => v = TheBody, slot = "tail" => v = TheTail
    PROVE  Gives(Stored(m, slot, v), v)
<1>1. CASE ~Cached(slot)
  BY <1>1 DEF Gives, Stored, With, Fill
<1>2. CASE Cached(slot)
  <2>1. Valid(Fill(m, slot, v))
    BY <1>2, SlotOfFilled DEF Valid, IsFull, Slot, Slots
  <2> QED
    BY <2>1 DEF Gives, Stored, With
<1> QED
  BY <1>1, <1>2

LEMMA IfOkStoredGives ==
    ASSUME NEW m, Valid(m), NEW slot \in Slots, NEW v,
           slot = "key" => v = KeyRaw, slot = "end" => v = KeyEnd,
           slot = "body" => v = TheBody, slot = "tail" => v = TheTail
    PROVE  Gives(IfOkStored(m, slot, v), v)
BY StoredGives, WithGives DEF IfOkStored

LEMMA KeyGiven == ASSUME NEW m, Valid(m) PROVE Gives(ReadKey(m), KeyRaw)
<1>1. CASE IsFull(m, "key")
  BY <1>1, WithGives DEF ReadKey, Valid
<1>2. CASE ~IsFull(m, "key")
  BY <1>2, IfOkStoredGives DEF ReadKey, Slots
<1> QED
  BY <1>1, <1>2

LEMMA KeyEndGiven == ASSUME NEW m, Valid(m) PROVE Gives(ReadKeyEnd(m), KeyEnd)
<1>1. CASE ~HasKey
  <2>1. KeyEnd = KeyStart
    BY <1>1 DEF KeyEnd, KeyStart
  <2>2. ReadKeyEnd(m) = With(m, KeyStart)
    BY <1>1 DEF ReadKeyEnd
  <2> QED
    BY <2>1, <2>2, WithGives
<1>2. CASE HasKey /\ IsFull(m, "end")
  BY <1>2, WithGives DEF ReadKeyEnd, Valid
<1>3. CASE HasKey /\ ~IsFull(m, "end")
  <2>1. ReadKeyEnd(m) = Stored(ReadKey(m).memo, "end",
                              KeyStart + IF ReadKey(m).value.ok THEN ReadKey(m).value.used ELSE 0)
    BY <1>3 DEF ReadKeyEnd, Then
  <2>2. Valid(ReadKey(m).memo) /\ ReadKey(m).value = KeyRaw
    BY KeyGiven DEF Gives
  <2> QED
    BY <1>3, <2>1, <2>2, StoredGives DEF KeyEnd, Slots
<1> QED
  BY <1>1, <1>2, <1>3

LEMMA SelectedGiven ==
    ASSUME layout \in Layouts, NEW m, Valid(m) PROVE Gives(ReadSelected(m), Selected)
<1>1. CASE layout.args = 1
  <2>1. Selected = FirstArm(Discriminants(0))
    BY <1>1 DEF Selected, Discriminants
  <2> QED
    BY <1>1, <2>1, WithGives DEF ReadSelected
<1>2. CASE layout.args # 1
  <2>1. HasKey
    BY <1>2, LayoutsAssumption DEF HasKey
  <2>2. ReadSelected(m) = With(ReadKey(m).memo,
            FirstArm(Discriminants(IF ReadKey(m).value.ok THEN ReadKey(m).value.value ELSE 0)))
    BY <1>2 DEF ReadSelected, Then
  <2>3. Valid(ReadKey(m).memo) /\ ReadKey(m).value = KeyRaw
    BY KeyGiven DEF Gives
  <2>4. Selected = FirstArm(Discriminants(IF KeyRaw.ok THEN KeyRaw.value ELSE 0))
    BY <2>1 DEF Selected
  <2> QED
    BY <2>2, <2>3, <2>4, WithGives
<1> QED
  BY <1>1, <1>2

LEMMA PlaceGiven ==
    ASSUME layout \in Layouts, NEW m, Valid(m)
    PROVE  Gives(ReadPlace(m), [arm |-> Selected, start |-> Start])
<1> DEFINE r == ReadSelected(m)
           q == ReadKeyEnd(r.memo)
<1>1. ReadPlace(m) = With(q.memo, [arm |-> r.value, start |-> BodyStart(q.value)])
  BY DEF ReadPlace, Then
<1>2. Valid(r.memo) /\ r.value = Selected
  BY SelectedGiven DEF Gives
<1>3. Valid(q.memo) /\ q.value = KeyEnd
  BY <1>2, KeyEndGiven DEF Gives
<1> HIDE DEF r, q
<1> QED
  BY <1>1, <1>2, <1>3, WithGives DEF Start

LEMMA UnionGiven ==
    ASSUME layout \in Layouts, NEW m, Valid(m) PROVE Gives(ReadUnion(m), TheBody)
<1>1. CASE IsFull(m, "body")
  BY <1>1, WithGives DEF ReadUnion, Valid
<1>2. CASE ~IsFull(m, "body")
  <2> DEFINE p == ReadPlace(m)
  <2>1. ReadUnion(m) = Answered(p.memo, ReadBody(p.value.arm, p.value.start))
    BY <1>2 DEF ReadUnion, Then
  <2>2. Valid(p.memo) /\ p.value = [arm |-> Selected, start |-> Start]
    BY PlaceGiven DEF Gives
  <2> HIDE DEF p
  <2>3. ReadUnion(m) = Answered(p.memo, TheBody)
    BY <2>1, <2>2 DEF TheBody
  <2> QED
    BY <2>2, <2>3, WithGives, StoredGives DEF Answered, Slots
<1> QED
  BY <1>1, <1>2

LEMMA RestGiven ==
    ASSUME layout \in Layouts, NEW m, Valid(m) PROVE Gives(ReadRest(m), RestOf(TheBody, Start))
<1> DEFINE u == ReadUnion(m)
           e == ReadKeyEnd(u.memo)
<1>1. ReadRest(m) = With(e.memo, RestOf(u.value, BodyStart(e.value)))
  BY DEF ReadRest, Then
<1>2. Valid(u.memo) /\ u.value = TheBody
  BY UnionGiven DEF Gives
<1>3. Valid(e.memo) /\ e.value = KeyEnd
  BY <1>2, KeyEndGiven DEF Gives
<1> HIDE DEF u, e
<1> QED
  BY <1>1, <1>2, <1>3, WithGives DEF Start

-----------------------------------------------------------------------------
(* The check and the end of a cached union take the getter's slice.  It is *)
(* that of the check without a cache where the start lies in the input.    *)

Typed == layout \in Layouts /\ data \in Inputs /\ hook \in Answers

\* No cached union behind padding.
Unpadded == \A l \in Layouts : "body" \in l.cached => l.pad = 0

FrontFits   == KeyEnd <= Size
BodyChecked == CheckBody(Selected, Start).why = "none"

LEMMA KeyEndType == ASSUME Typed PROVE KeyEnd \in Nat /\ Size \in Nat
<1>1. Size \in Nat
  BY InputsAssumption DEF Typed, Size
<1>2. KeyRaw.used \in Nat
  BY AnswersAssumption DEF Typed, KeyRaw
<1>3. (IF HasKey /\ KeyRaw.ok THEN KeyRaw.used ELSE 0) \in Nat
  BY <1>2
<1> QED
  BY <1>1, <1>3 DEF KeyEnd, KeyStart

LEMMA StartInside ==
    ASSUME Typed, Unpadded, Cached("body"), FrontFits
    PROVE  Clamped(Start) = Start
<1>1. layout.pad = 0
  BY DEF Typed, Unpadded, Cached
<1>2. Start = KeyEnd
  BY <1>1, KeyEndType DEF Start, BodyStart
<1> QED
  BY <1>2, KeyEndType DEF FrontFits, Clamped, Least

LEMMA BodyIsChecked ==
    ASSUME Typed, Unpadded, Cached("body"), FrontFits
    PROVE  /\ Passes(TheBody).why = CheckBody(Selected, Start).why
           /\ BodyChecked /\ ~layout.windowed => TheBody.len = BodyLength(Selected, Start)
<1>1. CASE IsError(Selected)
  <2>1. TheBody = Outcome("declared", Selected, Start, Start, 0)
    BY <1>1 DEF TheBody, ReadBody
  <2>2. CheckBody(Selected, Start) = Outcome("none", Selected, Start, Start, 0)
    BY <1>1 DEF CheckBody
  <2>3. ~layout.windowed => BodyLength(Selected, Start) = 0
    BY <1>1 DEF BodyLength, ArmLength, IsError
  <2> QED
    BY <2>1, <2>2, <2>3 DEF Passes, Outcome
<1>2. CASE ~IsError(Selected)
  <2> DEFINE r == ParseArm(Selected, Start, WindowEnd(Start))
  <2>1. TheBody = r /\ CheckBody(Selected, Start) = r
    BY <1>2, StartInside DEF TheBody, ReadBody, CheckBody
  <2>2. r.why # "declared"
    BY DEF ParseArm, Outcome, Panic
  <2>3. r.why = "none" => r.len = ArmLength(Body(Selected), Start, WindowEnd(Start))
    BY DEF ParseArm, Outcome, Panic
  <2>4. ~layout.windowed => BodyLength(Selected, Start)
                              = ArmLength(Body(Selected), Start, WindowEnd(Start))
    BY StartInside DEF BodyLength, WindowEnd
  <2> HIDE DEF r
  <2> QED
    BY <2>1, <2>2, <2>3, <2>4 DEF Passes, BodyChecked
<1> QED
  BY <1>1, <1>2

LEMMA CheckGiven ==
    ASSUME Typed, Unpadded, FrontFits, NEW m, Valid(m)
    PROVE  Valid(ReadCheck(m).memo) /\ ReadCheck(m).value.why = CheckBody(Selected, Start).why
<1>1. CASE Cached("body")
  <2> DEFINE u == ReadUnion(m)
  <2>1. ReadCheck(m) = With(u.memo, Passes(u.value))
    BY <1>1 DEF ReadCheck, Then
  <2>2. Valid(u.memo) /\ u.value = TheBody
    BY UnionGiven DEF Gives, Typed
  <2> HIDE DEF u
  <2> QED
    BY <1>1, <2>1, <2>2, BodyIsChecked DEF With
<1>2. CASE ~Cached("body")
  <2> DEFINE p == ReadPlace(m)
  <2>1. ReadCheck(m) = With(p.memo, CheckBody(p.value.arm, p.value.start))
    BY <1>2 DEF ReadCheck, Then
  <2>2. Valid(p.memo) /\ p.value = [arm |-> Selected, start |-> Start]
    BY PlaceGiven DEF Gives, Typed
  <2> HIDE DEF p
  <2> QED
    BY <2>1, <2>2 DEF With
<1> QED
  BY <1>1, <1>2

LEMMA EndGiven ==
    ASSUME Typed, Unpadded, FrontFits, BodyChecked, NEW m, Valid(m)
    PROVE  Gives(ReadBodyEnd(m), BodyEnd)
<1> DEFINE k == ReadKeyEnd(m)
<1>1. ReadBodyEnd(m) = EndFrom(k.memo, BodyStart(k.value))
  BY DEF ReadBodyEnd, Then
<1>2. Valid(k.memo) /\ k.value = KeyEnd
  BY KeyEndGiven DEF Gives
<1> HIDE DEF k
<1>3. ReadBodyEnd(m) = EndFrom(k.memo, Start)
  BY <1>1, <1>2 DEF Start
<1>4. CASE layout.windowed
  BY <1>2, <1>3, <1>4, WithGives DEF EndFrom, BodyEnd, BodyLength
<1>5. CASE ~layout.windowed /\ Cached("body")
  <2> DEFINE u == ReadUnion(k.memo)
  <2>1. EndFrom(k.memo, Start) = With(u.memo, Start + u.value.len)
    BY <1>5 DEF EndFrom, Then
  <2>2. Valid(u.memo) /\ u.value = TheBody
    BY <1>2, UnionGiven DEF Gives, Typed
  <2>3. TheBody.len = BodyLength(Selected, Start)
    BY <1>5, BodyIsChecked
  <2> HIDE DEF u
  <2> QED
    BY <1>3, <2>1, <2>2, <2>3, WithGives DEF BodyEnd
<1>6. CASE ~layout.windowed /\ ~Cached("body")
  <2> DEFINE i == ReadSelected(k.memo)
  <2>1. EndFrom(k.memo, Start) = With(i.memo, Start + BodyLength(i.value, Start))
    BY <1>6 DEF EndFrom, Then
  <2>2. Valid(i.memo) /\ i.value = Selected
    BY <1>2, SelectedGiven DEF Gives, Typed
  <2> HIDE DEF i
  <2> QED
    BY <1>3, <2>1, <2>2, WithGives DEF BodyEnd
<1> QED
  BY <1>4, <1>5, <1>6

LEMMA TailGiven ==
    ASSUME Typed, Unpadded, FrontFits, BodyChecked, NEW m, Valid(m)
    PROVE  Gives(ReadTail(m), TheTail)
<1>1. CASE IsFull(m, "tail")
  BY <1>1, WithGives DEF ReadTail, Valid
<1>2. CASE ~IsFull(m, "tail")
  <2> DEFINE e == ReadBodyEnd(m)
  <2>1. ReadTail(m) = IfOkStored(e.memo, "tail", TailOf(e.value))
    BY <1>2 DEF ReadTail, Then
  <2>2. Valid(e.memo) /\ e.value = BodyEnd
    BY EndGiven DEF Gives
  <2> HIDE DEF e
  <2> QED
    BY <2>1, <2>2, IfOkStoredGives DEF TheTail, Slots
<1> QED
  BY <1>1, <1>2

-----------------------------------------------------------------------------
(* The checks of a field, once those in front of it found nothing.         *)

\* What has been checked in front of field f.
InFront(f) == (f \in {"body", "tail"} => FrontFits) /\ (f = "tail" => BodyChecked)

FieldNames == {"head", "size", "key", "body", "tail"}

LEMMA FatalGiven ==
    ASSUME Typed, Unpadded, NEW f \in FieldNames, InFront(f), NEW m, Valid(m)
    PROVE  Gives(CachedFatal(f, m), Fatal(f))
<1>1. CASE f = "key" /\ HasKey
  <2> DEFINE k == ReadKey(m)
             e == ReadKeyEnd(k.memo)
  <2>1. CachedFatal(f, m) = IF k.value.ok THEN With(e.memo, Fits(e.value))
                                         ELSE With(k.memo, "hook")
    BY <1>1 DEF CachedFatal, Then
  <2>2. Valid(k.memo) /\ k.value = KeyRaw
    BY KeyGiven DEF Gives
  <2>3. Valid(e.memo) /\ e.value = KeyEnd
    BY <2>2, KeyEndGiven DEF Gives
  <2>4. Fatal(f) = IF KeyRaw.ok THEN Fits(KeyEnd) ELSE "hook"
    BY <1>1 DEF Fatal, First
  <2> HIDE DEF k, e
  <2> QED
    BY <2>1, <2>2, <2>3, <2>4, WithGives
<1>2. CASE f = "body"
  <2> DEFINE c == ReadCheck(m)
             e == ReadBodyEnd(c.memo)
  <2>1. CachedFatal(f, m) = IF c.value.why = "none" THEN With(e.memo, Fits(e.value))
                                                   ELSE With(c.memo, c.value.why)
    BY <1>2 DEF CachedFatal, Then
  <2>2. Valid(c.memo) /\ c.value.why = CheckBody(Selected, Start).why
    BY <1>2, CheckGiven DEF InFront
  <2>3. BodyChecked => Valid(e.memo) /\ e.value = BodyEnd
    BY <1>2, <2>2, EndGiven DEF Gives, InFront
  <2>4. Fatal(f) = IF CheckBody(Selected, Start).why = "none" THEN Fits(BodyEnd)
                  ELSE CheckBody(Selected, Start).why
    BY <1>2 DEF Fatal
  <2> HIDE DEF c, e
  <2> QED
    BY <2>1, <2>2, <2>3, <2>4, WithGives DEF BodyChecked
<1>3. CASE f = "tail"
  <2> DEFINE e == ReadBodyEnd(m)
  <2>1. CachedFatal(f, m) = With(e.memo, Fits(e.value + 1))
    BY <1>3 DEF CachedFatal, Then
  <2>2. Valid(e.memo) /\ e.value = BodyEnd
    BY <1>3, EndGiven DEF Gives, InFront
  <2>3. Fatal(f) = Fits(BodyEnd + 1)
    BY <1>3 DEF Fatal
  <2> HIDE DEF e
  <2> QED
    BY <2>1, <2>2, <2>3, WithGives
<1>4. CASE f \in {"head", "size"} \/ (f = "key" /\ ~HasKey)
  <2>1. CachedFatal(f, m) = With(m, Fatal(f))
    BY <1>4 DEF CachedFatal
  <2> QED
    BY <2>1, WithGives
<1> QED
  BY <1>1, <1>2, <1>3, <1>4 DEF FieldNames

\* Both errors of a field; the second is Recoverable's if the first is none.
ErrorsOf(f) == [fatal |-> Fatal(f),
                recoverable |-> IF Fatal(f) = "none" THEN Recoverable(f) ELSE "none"]

LEMMA ErrorsGiven ==
    ASSUME Typed, Unpadded, NEW f \in FieldNames, InFront(f), NEW m, Valid(m)
    PROVE  Gives(CachedErrors(f, m), ErrorsOf(f))
<1> DEFINE e == CachedFatal(f, m)
           w == CachedRecoverable(f, e.memo)
<1>1. CachedErrors(f, m) = IF e.value # "none" THEN With(e.memo, [NoErrors EXCEPT !.fatal = e.value])
                           ELSE With(w.memo, [NoErrors EXCEPT !.recoverable = w.value])
  BY DEF CachedErrors, Then
<1>2. Valid(e.memo) /\ e.value = Fatal(f)
  BY FatalGiven DEF Gives
<1> HIDE DEF e
<1>3. Valid(w.memo) /\ w.value = Recoverable(f)
  <2>1. CASE f = "tail"
    <3> DEFINE t == ReadTail(e.memo)
    <3>1. w = With(t.memo, t.value.why)
      BY <2>1 DEF CachedRecoverable, Then
    <3>2. Valid(t.memo) /\ t.value = TheTail
      BY <1>2, <2>1, TailGiven DEF Gives, InFront
    <3> HIDE DEF t
    <3> QED
      BY <2>1, <3>1, <3>2 DEF With, Recoverable, TheTail
  <2>2. CASE f # "tail"
    BY <1>2, <2>2 DEF CachedRecoverable, Recoverable, With
  <2> QED
    BY <2>1, <2>2
<1> HIDE DEF w
<1>4. CASE Fatal(f) # "none"
  BY <1>1, <1>2, <1>4, WithGives DEF ErrorsOf, NoErrors
<1>5. CASE Fatal(f) = "none"
  BY <1>1, <1>2, <1>3, <1>5, WithGives DEF ErrorsOf, NoErrors
<1> QED
  BY <1>4, <1>5

-----------------------------------------------------------------------------
(* The answers of a view that parse returned.                              *)

LEMMA TreeGiven ==
    ASSUME Typed, Unpadded, FrontFits, BodyChecked, NEW m, Valid(m)
    PROVE  Gives(CachedTree(m), Answer("tree"))
<1> DEFINE s == ReadKeyEnd(m)
           e == ReadBodyEnd(s.memo)
           u == ReadUnion(e.memo)
           r == IF layout.windowed /\ u.value.why # "panic" THEN ReadRest(u.memo)
                ELSE With(u.memo, u.value)
<1>1. CachedTree(m) = With(r.memo, TreeOf(u.value, r.value, BodyStart(s.value), e.value))
  BY DEF CachedTree, Then
<1>2. Valid(s.memo) /\ s.value = KeyEnd
  BY KeyEndGiven DEF Gives
<1>3. Valid(e.memo) /\ e.value = BodyEnd
  BY <1>2, EndGiven DEF Gives
<1>4. Valid(u.memo) /\ u.value = TheBody
  BY <1>3, UnionGiven DEF Gives, Typed
<1>5. Valid(r.memo) /\ (layout.windowed => r.value = RestOf(TheBody, Start))
  <2>1. CASE layout.windowed /\ u.value.why # "panic"
    BY <1>4, <2>1, RestGiven DEF Gives, Typed
  <2>2. CASE ~(layout.windowed /\ u.value.why # "panic")
    BY <1>4, <2>2 DEF With, RestOf
  <2> QED
    BY <2>1, <2>2
<1> HIDE DEF s, e, u, r
<1>6. Children(TheBody, r.value, Start, BodyEnd)
          = Children(TheBody, RestOf(TheBody, Start), Start, BodyEnd)
  BY <1>5 DEF Children
<1>7. Answer("tree") = TreeOf(TheBody, RestOf(TheBody, Start), Start, BodyEnd)
  BY DEF Answer, TreeOf, TheBody
<1>8. CachedTree(m) = With(r.memo, Answer("tree"))
  BY <1>1, <1>2, <1>3, <1>4, <1>6, <1>7 DEF TreeOf, Start
<1> QED
  BY <1>5, <1>8, WithGives

LEMMA AnswersGiven ==
    ASSUME Typed, Unpadded, FrontFits, BodyChecked, NEW call \in Calls, NEW m, Valid(m)
    PROVE  Gives(CachedAnswer(call, m), Answer(call))
<1>1. CASE call = "key"
  <2>1. CachedAnswer(call, m)
            = With(ReadKey(m).memo, Reply(call, KeyOf(ReadKey(m).value), <<>>))
    BY <1>1 DEF CachedAnswer, Then
  <2>2. Answer(call) = Reply(call, KeyOf(KeyRaw), <<>>)
    BY <1>1 DEF Answer
  <2>3. Valid(ReadKey(m).memo) /\ ReadKey(m).value = KeyRaw
    BY KeyGiven DEF Gives
  <2> QED
    BY <2>1, <2>2, <2>3, WithGives
<1>2. CASE call = "body"
  <2>1. CachedAnswer(call, m) = With(ReadUnion(m).memo, Reply(call, ReadUnion(m).value, <<>>))
    BY <1>2 DEF CachedAnswer, Then
  <2>2. Answer(call) = Reply(call, TheBody, <<>>)
    BY <1>2 DEF Answer, TheBody
  <2>3. Valid(ReadUnion(m).memo) /\ ReadUnion(m).value = TheBody
    BY UnionGiven DEF Gives, Typed
  <2> QED
    BY <2>1, <2>2, <2>3, WithGives
<1>3. CASE call = "rest"
  <2>1. CachedAnswer(call, m) = With(ReadRest(m).memo, Reply(call, ReadRest(m).value, <<>>))
    BY <1>3 DEF CachedAnswer, Then
  <2>2. Answer(call) = Reply(call, RestOf(TheBody, Start), <<>>)
    BY <1>3 DEF Answer, TheBody
  <2>3. Valid(ReadRest(m).memo) /\ ReadRest(m).value = RestOf(TheBody, Start)
    BY RestGiven DEF Gives, Typed
  <2> QED
    BY <2>1, <2>2, <2>3, WithGives
<1>4. CASE call = "end"
  <2> DEFINE s == ReadKeyEnd(m)
             e == ReadBodyEnd(s.memo)
  <2>1. CachedAnswer(call, m)
            = With(e.memo, Reply(call, Outcome("none", 0, BodyStart(s.value), e.value, 0), <<>>))
    BY <1>4 DEF CachedAnswer, Then
  <2>2. Answer(call) = Reply(call, Outcome("none", 0, Start, BodyEnd, 0), <<>>)
    BY <1>4 DEF Answer
  <2>3. Valid(s.memo) /\ s.value = KeyEnd
    BY KeyEndGiven DEF Gives
  <2>4. Valid(e.memo) /\ e.value = BodyEnd
    BY <2>3, EndGiven DEF Gives
  <2> HIDE DEF s, e
  <2> QED
    BY <2>1, <2>2, <2>3, <2>4, WithGives DEF Start
<1>5. CASE call = "tail"
  <2>1. CachedAnswer(call, m) = With(ReadTail(m).memo, Reply(call, ReadTail(m).value, <<>>))
    BY <1>5 DEF CachedAnswer, Then
  <2>2. Answer(call) = Reply(call, TheTail, <<>>)
    BY <1>5 DEF Answer, TheTail
  <2>3. Valid(ReadTail(m).memo) /\ ReadTail(m).value = TheTail
    BY TailGiven DEF Gives
  <2> QED
    BY <2>1, <2>2, <2>3, WithGives
<1>6. CASE call = "tree"
  BY <1>6, TreeGiven DEF CachedAnswer
<1> QED
  BY <1>1, <1>2, <1>3, <1>4, <1>5, <1>6 DEF Calls

-----------------------------------------------------------------------------
(* The walks: a field is checked when those in front of it were.           *)

\* What the checks of the fields before the nth have shown.
Known(n) ==
    /\ n > 2 => 2 <= Size
    /\ n > 3 => FrontFits
    /\ n > 4 => BodyChecked

Walking == phase \in {"parsing", "dissecting"}

Passed ==
    /\ Walking => pc \in 1 .. 5 /\ Known(pc)
    /\ phase = "open" => Known(6)

LEMMA KnownInFront ==
    ASSUME NEW n \in 1 .. 5, Known(n) PROVE Fields[n] \in FieldNames /\ InFront(Fields[n])
BY DEF Known, InFront, Fields, FieldNames

LEMMA KnownNext ==
    ASSUME Typed, NEW n \in 1 .. 5, Known(n), Fatal(Fields[n]) = "none"
    PROVE  Known(n + 1)
<1>1. n + 1 > 2 => 2 <= Size
  BY DEF Known, Fields, Fatal, Fits
<1>2. n + 1 > 3 => FrontFits
  <2>1. CASE n > 3
    BY <2>1 DEF Known
  <2>2. CASE n = 3 /\ HasKey
    <3>1. First(IF KeyRaw.ok THEN "none" ELSE "hook", Fits(KeyEnd)) = "none"
      BY <2>2 DEF Fields, Fatal
    <3>2. Fits(KeyEnd) = "none"
      BY <3>1 DEF First
    <3> QED
      BY <3>2 DEF Fits, FrontFits
  <2>3. CASE n = 3 /\ ~HasKey
    <3>1. KeyEnd = 2
      BY <2>3 DEF KeyEnd, KeyStart
    <3> QED
      BY <2>3, <3>1 DEF Known, FrontFits
  <2> QED
    BY <2>1, <2>2, <2>3
<1>3. n + 1 > 4 => BodyChecked
  <2>1. CASE n > 4
    BY <2>1 DEF Known
  <2>2. CASE n = 4
    <3>1. Fatal("body") = "none"
      BY <2>2 DEF Fields
    <3> QED
      BY <3>1 DEF Fatal, BodyChecked
  <2> QED
    BY <2>1, <2>2
<1> QED
  BY <1>1, <1>2, <1>3 DEF Known

\* A view's struct, input and hook do not change.
Still == UNCHANGED <<layout, data, hook>>

LEMMA StillComputes ==
    ASSUME Still
    PROVE  /\ Typed' <=> Typed
           /\ KeyRaw' = KeyRaw /\ KeyEnd' = KeyEnd /\ TheBody' = TheBody /\ TheTail' = TheTail
           /\ Size' = Size /\ (FrontFits' <=> FrontFits) /\ (BodyChecked' <=> BodyChecked)
<1>0. layout' = layout /\ data' = data /\ hook' = hook
  BY DEF Still
<1>1. Typed' <=> Typed
  BY <1>0 DEF Typed
<1>2. Size' = Size
  BY <1>0 DEF Size
<1>3. KeyRaw' = KeyRaw
  BY <1>0, <1>2 DEF KeyRaw
<1>4. KeyEnd' = KeyEnd
  BY <1>0, <1>3 DEF KeyEnd, HasKey
<1>5. Selected' = Selected
  BY <1>0, <1>3 DEF Selected, HasKey, FirstArm, Matching, Discriminants, Byte
<1>6. Start' = Start
  BY <1>0, <1>4 DEF Start, BodyStart
<1>7. TheBody' = TheBody
  BY <1>0, <1>2, <1>5, <1>6
  DEF TheBody, ReadBody, IsError, Body, WindowEnd, Byte, ParseArm, ArmLength
<1>8. BodyEnd' = BodyEnd
  BY <1>0, <1>2, <1>5, <1>6 DEF BodyEnd, BodyLength, Clamped, Byte, Body, ArmLength
<1>9. TheTail' = TheTail
  BY <1>0, <1>8 DEF TheTail, TailOf, Byte
<1>10. BodyChecked' <=> BodyChecked
  BY <1>0, <1>2, <1>5, <1>6
  DEF BodyChecked, CheckBody, IsError, Body, WindowEnd, Clamped, Byte, ParseArm, ArmLength
<1> QED
  BY <1>1, <1>2, <1>3, <1>4, <1>7, <1>9, <1>10 DEF FrontFits

LEMMA StillValid ==
    ASSUME Still, NEW m, Valid(m), memo' = m PROVE Valid(memo)'
BY StillComputes DEF Still, Valid, IsFull, Slot, Cached

LEMMA StillKnown == ASSUME Still, NEW n PROVE Known(n)' <=> Known(n)
BY StillComputes DEF Known

-----------------------------------------------------------------------------
(* The invariant, and what each step does.                                 *)

Inv == Typed /\ Valid(memo) /\ Passed

LEMMA EmptyIsValid == Valid(Empty)
BY DEF Valid, Empty, IsFull, Slots

LEMMA InitiallyInv == CachedInit => Init /\ Inv
<1> SUFFICES ASSUME CachedInit PROVE Init /\ Inv
  OBVIOUS
<1>1. Typed /\ Valid(memo)
  BY EmptyIsValid DEF CachedInit, Init, Typed
<1>2. Passed
  BY DEF CachedInit, Init, Passed, Walking, Known
<1> QED
  BY <1>1, <1>2 DEF CachedInit, Inv

LEMMA ParseStep == ASSUME Inv, Unpadded, CachedParse PROVE Parse /\ Inv'
<1> DEFINE f == Fields[pc]
           r == CachedErrors(f, memo)
           why == IF r.value.fatal = "none" THEN r.value.recoverable ELSE r.value.fatal
<1>1. phase = "parsing" /\ Checked(why) /\ memo' = r.memo
  BY DEF CachedParse
<1>2. pc \in 1 .. 5 /\ Known(pc)
  BY <1>1 DEF Inv, Passed, Walking
<1>3. Valid(r.memo) /\ r.value = ErrorsOf(f)
  BY <1>2, KnownInFront, ErrorsGiven DEF Inv, Gives
<1>4. why = Check(f)
  BY <1>3 DEF ErrorsOf, Check
<1> HIDE DEF r, why
<1>5. Parse
  BY <1>1, <1>4 DEF Parse
<1>6. Still
  BY <1>1 DEF Checked, Still
<1>7. why = "none" => Known(pc + 1)
  BY <1>2, <1>4, KnownNext DEF Inv, Check
<1>8. Passed'
  <2>1. CASE why = "none"
    <3>1. pc' = pc + 1 /\ phase' = IF pc = 5 THEN "open" ELSE "parsing"
      BY <1>1, <2>1 DEF Checked, Fields
    <3>2. Known(pc + 1) /\ Known(pc)
      BY <1>2, <1>7, <2>1
    <3>3. Known(pc)'
      BY <1>6, <3>1, <3>2, StillComputes DEF Known
    <3>4. pc = 5 => Known(6)'
      BY <1>6, <3>2, StillComputes DEF Known
    <3> QED
      BY <1>2, <3>1, <3>3, <3>4 DEF Passed, Walking
  <2>2. CASE why # "none"
    BY <1>1, <2>2 DEF Checked, Passed, Walking
  <2> QED
    BY <2>1, <2>2
<1> QED
  BY <1>1, <1>3, <1>5, <1>6, <1>8, StillComputes, StillValid DEF Inv

LEMMA AskStep == ASSUME Inv, Unpadded, CachedAsk PROVE Ask /\ Inv'
<1>1. PICK call \in Calls :
          /\ Offered(call)
          /\ Replied(CachedAnswer(call, memo).value)
          /\ memo' = CachedAnswer(call, memo).memo
  BY DEF CachedAsk
<1>2. phase = "open"
  BY DEF CachedAsk
<1>3. FrontFits /\ BodyChecked
  BY <1>2 DEF Inv, Passed, Known
<1>4. Valid(CachedAnswer(call, memo).memo) /\ CachedAnswer(call, memo).value = Answer(call)
  BY <1>3, AnswersGiven DEF Inv, Gives
<1>5. Ask
  BY <1>1, <1>4 DEF Ask
<1>6. Still /\ (phase' = "open" \/ phase' = "panic")
  BY <1>1, <1>2 DEF Replied, Still
<1>7. Passed'
  BY <1>2, <1>6, StillComputes DEF Inv, Passed, Walking, Known
<1> QED
  BY <1>1, <1>4, <1>5, <1>6, <1>7, StillComputes, StillValid DEF Inv

LEMMA BeginStep == ASSUME Inv, CachedBegin PROVE BeginDissect /\ Inv'
<1>1. Still /\ pc' = 1 /\ phase' = "dissecting" /\ memo' = Empty
  BY DEF CachedBegin, BeginDissect, Still
<1>2. Passed'
  BY <1>1 DEF Passed, Walking, Known
<1> QED
  BY <1>1, <1>2, EmptyIsValid, StillComputes, StillValid DEF Inv, CachedBegin

LEMMA DissectStep == ASSUME Inv, Unpadded, CachedDissect PROVE Dissect /\ Inv'
<1> DEFINE f == Fields[pc]
           r == CachedErrors(f, memo)
           t == IF r.value = NoErrors /\ f = "body" THEN CachedTree(r.memo)
                ELSE With(r.memo, NoReply)
           shown == Shown(f, r.value.fatal, r.value.recoverable, t.value)
<1>1. phase = "dissecting" /\ Visited(r.value.fatal, shown) /\ memo' = t.memo
  BY DEF CachedDissect
<1>2. pc \in 1 .. 5 /\ Known(pc)
  BY <1>1 DEF Inv, Passed, Walking
<1>3. f \in FieldNames /\ InFront(f)
  BY <1>2, KnownInFront
<1>4. Valid(r.memo) /\ r.value = ErrorsOf(f)
  BY <1>3, ErrorsGiven DEF Inv, Gives
<1> HIDE DEF f, r
<1>5. r.value = NoErrors /\ f = "body" => Valid(t.memo) /\ t.value = Answer("tree")
  <2> SUFFICES ASSUME r.value = NoErrors, f = "body"
               PROVE  Gives(CachedTree(r.memo), Answer("tree"))
    BY DEF Gives
  <2>1. Fatal("body") = "none"
    BY <1>4 DEF ErrorsOf, NoErrors
  <2>2. FrontFits /\ BodyChecked
    BY <1>3, <2>1 DEF InFront, Fatal, BodyChecked
  <2> QED
    BY <1>4, <2>2, TreeGiven DEF Inv
<1>6. Valid(t.memo)
  BY <1>4, <1>5 DEF With
<1>7. shown = Shown(f, Fatal(f), Recoverable(f), Answer("tree"))
  <2>1. CASE Fatal(f) # "none"
    BY <1>4, <2>1 DEF Shown, ErrorsOf
  <2>2. CASE Fatal(f) = "none" /\ Recoverable(f) # "none"
    BY <1>4, <2>2 DEF Shown, ErrorsOf
  <2>3. CASE Fatal(f) = "none" /\ Recoverable(f) = "none"
    <3>1. r.value = NoErrors
      BY <1>4, <2>3 DEF ErrorsOf, NoErrors
    <3> QED
      BY <1>4, <1>5, <2>3, <3>1 DEF Shown, ErrorsOf
  <2> QED
    BY <2>1, <2>2, <2>3
<1> HIDE DEF t, shown
<1>8. Visited(Fatal(f), Shown(f, Fatal(f), Recoverable(f), Answer("tree")))
  BY <1>1, <1>4, <1>7 DEF ErrorsOf
<1>9. Dissect
  BY <1>8 DEF Dissect, f
<1>10. Still /\ pc' = pc + 1 /\ phase' # "parsing" /\ phase' # "open"
  BY <1>8 DEF Visited, Still
<1>11. phase' = "dissecting" => Fatal(f) = "none" /\ pc # 5
  BY <1>8 DEF Visited, Fields
<1>12. Passed'
  <2>1. CASE phase' = "dissecting"
    <3>1. Known(pc + 1)
      BY <1>2, <1>11, <2>1, KnownNext DEF Inv, f
    <3>2. Known(pc)'
      BY <1>10, <3>1, StillComputes DEF Known
    <3> QED
      BY <1>2, <1>10, <1>11, <2>1, <3>2 DEF Passed, Walking
  <2>2. CASE phase' # "dissecting"
    BY <1>10, <2>2 DEF Passed, Walking
  <2> QED
    BY <2>1, <2>2
<1> QED
  BY <1>1, <1>6, <1>9, <1>10, <1>12, StillComputes, StillValid DEF Inv

LEMMA StutterStep == ASSUME Inv, UNCHANGED cachedVars PROVE UNCHANGED vars /\ Inv'
<1>1. Still /\ phase' = phase /\ pc' = pc /\ memo' = memo
  BY DEF cachedVars, vars, Still
<1>2. Passed'
  BY <1>1, StillComputes DEF Inv, Passed, Walking, Known
<1> QED
  BY <1>1, <1>2, StillComputes, StillValid DEF Inv, cachedVars

LEMMA CachedStep ==
    ASSUME Inv, Unpadded, [CachedNext]_cachedVars PROVE [Next]_vars /\ Inv'
BY ParseStep, AskStep, BeginStep, DissectStep, StutterStep DEF CachedNext, Next

(* Whatever structs, inputs and hooks there are: as long as no cached union *)
(* lies behind padding, every call and both walks answer with the caches    *)
(* as without them, in every order.  (the getters of a @cache field)        *)
THEOREM CachesChangeNothing == Unpadded => (CachedSpec => AnswersAsUncached)
<1> SUFFICES ASSUME Unpadded PROVE CachedSpec => AnswersAsUncached
  OBVIOUS
<1>1. CachedInit => Init /\ Inv
  BY InitiallyInv
<1>2. Inv /\ [CachedNext]_cachedVars => [Next]_vars /\ Inv'
  BY CachedStep
<1> QED
  BY <1>1, <1>2, PTL DEF CachedSpec, AnswersAsUncached, Spec

(* Under the same condition a full slot holds what its getter would         *)
(* compute afresh.  (field.rs: the slots of a view)                         *)
THEOREM SlotsAreFresh == Unpadded => (CachedSpec => []Valid(memo))
<1> SUFFICES ASSUME Unpadded PROVE CachedSpec => []Valid(memo)
  OBVIOUS
<1>1. CachedInit => Inv
  BY InitiallyInv
<1>2. Inv /\ [CachedNext]_cachedVars => Inv'
  BY CachedStep
<1>3. Inv => Valid(memo)
  BY DEF Inv
<1> QED
  BY <1>1, <1>2, <1>3, PTL DEF CachedSpec

-----------------------------------------------------------------------------
(* The struct without caches.                                              *)

\* The match always finds an arm.
LEMMA SelectedIsArm ==
    ASSUME Typed PROVE Body(Selected) \in Bodies
<1> DEFINE d == Discriminants(IF HasKey /\ KeyRaw.ok THEN KeyRaw.value ELSE 0)
<1>1. layout.arms \in Seq([matchers : SUBSET Seq(Nat), body : Bodies])
  BY ArmsAssumption DEF Typed
<1>2. PICK i \in DOMAIN layout.arms :
          \E m \in layout.arms[i].matchers : \A k \in DOMAIN m : m[k] = Any
  BY ArmsAssumption DEF Typed
<1> HIDE DEF d
<1>3. i \in Matching(d)
  BY <1>2 DEF Matching, Matches
<1>4. Matching(d) \subseteq Nat
  BY <1>1 DEF Matching
<1>5. \E x \in Matching(d) : \A y \in Matching(d) : x <= y
  BY <1>3, <1>4, LeastOf
<1>6. FirstArm(d) \in Matching(d)
  BY <1>5 DEF FirstArm
<1>7. Selected \in DOMAIN layout.arms
  BY <1>6 DEF Selected, Matching, d
<1>8. layout.arms[Selected] \in [matchers : SUBSET Seq(Nat), body : Bodies]
  <2>1. \A S, T : T \in Seq(S) => \A k \in DOMAIN T : T[k] \in S
    OBVIOUS
  <2> QED
    BY <1>1, <1>7, <2>1
<1> QED
  BY <1>8 DEF Body

LEMMA ByteType == ASSUME Typed, NEW i \in Nat, i < Size PROVE Byte(i) \in Nat
<1>1. data \in Seq(Nat)
  BY InputsAssumption DEF Typed
<1> QED
  BY <1>1 DEF Byte, Size

LEMMA ArmLengthType ==
    ASSUME Typed, NEW body \in Bodies, NEW from \in Nat, NEW to \in Nat, from <= to, to <= Size
    PROVE  ArmLength(body, from, to) \in Nat
<1>1. from < to => Byte(from) \in Nat
  BY ByteType, KeyEndType
<1>2. body.kind \in {"fixed", "counted", "greedy", "ranged", "error"} /\ body.size \in Nat
  BY DEF Bodies
<1>3. (IF from < to THEN Byte(from) ELSE 0) \in Nat
  BY <1>1
<1>4. to - from \in Nat
  OBVIOUS
<1> QED
  BY <1>2, <1>3, <1>4 DEF ArmLength

LEMMA StartType ==
    ASSUME Typed PROVE Start \in Nat /\ Clamped(Start) \in Nat /\ Clamped(Start) <= Size
<1>1. layout.pad \in Nat
  BY LayoutsAssumption DEF Typed
<1>2. Start \in Nat
  BY <1>1, KeyEndType DEF Start, BodyStart
<1> QED
  BY <1>2, KeyEndType DEF Clamped, Least

\* The window of the body: from its start, clamped, not past the input.
LEMMA WindowType ==
    ASSUME Typed, 2 <= Size
    PROVE  /\ Byte(1) \in Nat /\ WindowEnd(Start) \in Nat
           /\ Clamped(Start) <= WindowEnd(Start) /\ WindowEnd(Start) <= Size
<1>1. Byte(1) \in Nat
  BY ByteType, KeyEndType
<1> QED
  BY <1>1, StartType, KeyEndType DEF WindowEnd, Clamped, Least

LEMMA CheckNeverPanics ==
    ASSUME Typed, 2 <= Size
    PROVE  CheckBody(Selected, Start).why \in {"none", "short", "range"}
<1>1. CASE IsError(Selected)
  BY <1>1 DEF CheckBody, Outcome
<1>2. CASE ~IsError(Selected)
  <2>1. ~(Clamped(Start) > WindowEnd(Start))
    BY WindowType, StartType
  <2> QED
    BY <1>2, <2>1 DEF CheckBody, ParseArm, Outcome
<1> QED
  BY <1>1, <1>2

\* What the check of the body means for those who read it.
LEMMA FittingBody ==
    ASSUME Typed, 2 <= Size, Fatal("body") = "none"
    PROVE  /\ BodyEnd \in Nat /\ Start <= BodyEnd /\ BodyEnd <= Size
           /\ WindowEnd(Start) \in Nat /\ BodyEnd <= WindowEnd(Start) /\ WindowEnd(Start) <= Size
           /\ layout.windowed => WindowEnd(Start) = BodyEnd
           /\ \/ IsError(Selected) /\ TheBody = Outcome("declared", Selected, Start, Start, 0)
              \/ \E n \in Nat :
                     /\ TheBody = Outcome("none", Selected, Start, WindowEnd(Start), n)
                     /\ Start + n <= BodyEnd
                     /\ ~layout.windowed => Start + n = BodyEnd
<1>1. CheckBody(Selected, Start).why = "none" /\ BodyEnd <= Size
  BY DEF Fatal, Fits
<1>2. Body(Selected) \in Bodies
  BY SelectedIsArm
<1>3. ArmLength(Body(Selected), Clamped(Start), Size) \in Nat
  BY <1>2, StartType, KeyEndType, ArmLengthType
<1>4. BodyLength(Selected, Start) \in Nat
  BY <1>3, WindowType DEF BodyLength
<1>5. BodyEnd \in Nat /\ Start <= BodyEnd /\ Start <= Size
  BY <1>1, <1>4, StartType, KeyEndType DEF BodyEnd
<1>6. Clamped(Start) = Start
  BY <1>5, StartType, KeyEndType DEF Clamped, Least
<1>7. layout.windowed => WindowEnd(Start) = BodyEnd
  BY <1>1, WindowType, StartType, KeyEndType DEF BodyEnd, BodyLength, WindowEnd, Least
<1>8. BodyEnd <= WindowEnd(Start) /\ WindowEnd(Start) \in Nat /\ WindowEnd(Start) <= Size
  BY <1>1, <1>5, <1>7, WindowType, KeyEndType DEF WindowEnd
<1>9. CASE IsError(Selected)
  BY <1>1, <1>5, <1>7, <1>8, <1>9 DEF TheBody, ReadBody
<1>10. CASE ~IsError(Selected)
  <2> DEFINE n == ArmLength(Body(Selected), Start, WindowEnd(Start))
  <2>1. n \in Nat
    BY <1>2, <1>5, <1>8, StartType, ArmLengthType
  <2>2. TheBody = ParseArm(Selected, Start, WindowEnd(Start))
    BY <1>10 DEF TheBody, ReadBody
  <2>3. ParseArm(Selected, Start, WindowEnd(Start)).why = "none"
    BY <1>1, <1>6, <1>10 DEF CheckBody
  <2>4. TheBody = Outcome("none", Selected, Start, WindowEnd(Start), n)
            /\ n <= WindowEnd(Start) - Start
    BY <1>8, <2>1, <2>2, <2>3, StartType DEF ParseArm, Outcome, Panic
  <2>5. ~layout.windowed => BodyEnd = Start + n
    BY <1>6 DEF BodyEnd, BodyLength, WindowEnd
  <2> HIDE DEF n
  <2>6. Start + n <= BodyEnd
    BY <1>5, <1>7, <1>8, <2>1, <2>4, <2>5, StartType
  <2> QED
    BY <1>1, <1>5, <1>7, <1>8, <2>1, <2>4, <2>5, <2>6
<1> QED
  BY <1>9, <1>10

-----------------------------------------------------------------------------
(* The answers about a view that passed its checks.                        *)

\* The fields before the nth passed.
Upto(n) == \A i \in 1 .. n - 1 : Check(Fields[i]) = "none"

LEMMA UptoShows ==
    ASSUME Typed
    PROVE  /\ Upto(4) => 2 <= Size
           /\ Upto(5) => Fatal("body") = "none"
           /\ Upto(6) => Recoverable("tail") = "none" /\ Fatal("tail") = "none"
<1>1. \A f \in FieldNames : Check(f) = "none" => Fatal(f) = "none" /\ Recoverable(f) = "none"
  BY DEF Check
<1>2. /\ Fields[2] = "size" /\ Fields[4] = "body" /\ Fields[5] = "tail"
      /\ {"size", "body", "tail"} \subseteq FieldNames
  BY DEF Fields, FieldNames
<1>3. Fatal("size") = "none" => 2 <= Size
  BY DEF Fatal, Fits
<1>4. (Upto(4) => Check("size") = "none") /\ (Upto(5) => Check("body") = "none")
          /\ (Upto(6) => Check("tail") = "none")
  BY <1>2 DEF Upto
<1> QED
  BY <1>1, <1>2, <1>3, <1>4

LEMMA UptoLess == ASSUME NEW n \in Nat, NEW k \in Nat, k <= n, Upto(n) PROVE Upto(k)
BY DEF Upto

\* What is answered can be read.
Readable(r) == r.why \in {"none", "declared"} /\ (r.why = "none" => r.to <= Size)

LEMMA BodyReadable == ASSUME Typed, Upto(5) PROVE Readable(TheBody)
<1>1. 2 <= Size /\ Fatal("body") = "none"
  BY UptoShows, UptoLess
<1>2. WindowEnd(Start) <= Size
  BY <1>1, FittingBody
<1>3. CASE TheBody = Outcome("declared", Selected, Start, Start, 0)
  BY <1>3 DEF Readable, Outcome
<1>4. CASE \E n \in Nat : TheBody = Outcome("none", Selected, Start, WindowEnd(Start), n)
  BY <1>2, <1>4 DEF Readable, Outcome
<1> QED
  BY <1>1, <1>3, <1>4, FittingBody

LEMMA RestReadable == ASSUME Typed, Upto(5) PROVE Readable(RestOf(TheBody, Start))
<1>1. CASE TheBody.why = "none"
  <2>1. TheBody.to <= Size
    BY <1>1, BodyReadable DEF Readable
  <2>2. \E n : TheBody = Outcome("none", Selected, Start, WindowEnd(Start), n)
    <3>1. 2 <= Size /\ Fatal("body") = "none"
      BY UptoShows, UptoLess
    <3>2. Outcome("declared", Selected, Start, Start, 0).why = "declared"
      BY DEF Outcome
    <3> QED
      BY <1>1, <3>1, <3>2, FittingBody
  <2>3. PICK n : TheBody = Outcome("none", Selected, Start, WindowEnd(Start), n)
    BY <2>2
  <2>4. RestOf(TheBody, Start) = [TheBody EXCEPT !.from = @ + TheBody.len]
    BY <1>1 DEF RestOf
  <2>5. RestOf(TheBody, Start).why = "none" /\ RestOf(TheBody, Start).to = TheBody.to
    BY <2>3, <2>4 DEF Outcome
  <2> QED
    BY <2>1, <2>5 DEF Readable
<1>2. CASE TheBody.why = "declared"
  <2>1. RestOf(TheBody, Start) = Outcome("none", TheBody.arm, Clamped(Start), Clamped(Start), 0)
    BY <1>2 DEF RestOf
  <2> QED
    BY <2>1, StartType DEF Readable, Outcome
<1> QED
  BY <1>1, <1>2, BodyReadable DEF Readable

LEMMA AnswerReadable ==
    ASSUME Typed, NEW call \in Calls, Upto(5), call = "tail" => Upto(6)
    PROVE  Answer(call).call = call /\ Readable(Answer(call).result)
<1>1. 2 <= Size /\ Fatal("body") = "none"
  BY UptoShows, UptoLess
<1>2. BodyEnd <= Size
  BY <1>1, FittingBody
<1>3. CASE call = "key"
  <2>1. KeyStart + KeyRaw.used <= Size
    BY <1>1, KeyEndType DEF KeyRaw, KeyStart
  <2> QED
    BY <1>3, <2>1 DEF Answer, Reply, KeyOf, Outcome, Readable
<1>4. CASE call = "body"
  BY <1>4, BodyReadable DEF Answer, Reply, TheBody
<1>5. CASE call = "rest"
  BY <1>5, RestReadable DEF Answer, Reply, TheBody
<1>6. CASE call = "end"
  BY <1>2, <1>6 DEF Answer, Reply, Outcome, Readable
<1>7. CASE call = "tail"
  <2>1. TailOf(BodyEnd).why = "none" /\ BodyEnd + 1 <= Size
    BY <1>7, UptoShows DEF Recoverable, Fatal, Fits
  <2>2. TailOf(BodyEnd).to = BodyEnd + 1
    BY DEF TailOf, Outcome
  <2> QED
    BY <1>7, <2>1, <2>2 DEF Answer, Reply, Readable
<1>8. CASE call = "tree"
  <2>1. Answer(call) = Reply("tree", Outcome(TheBody.why, TheBody.arm, Start, BodyEnd, 0),
                            Children(TheBody, RestOf(TheBody, Start), Start, BodyEnd))
    BY <1>8 DEF Answer, TheBody
  <2> QED
    BY <1>2, <1>8, <2>1, BodyReadable DEF Reply, Outcome, Readable
<1> QED
  BY <1>3, <1>4, <1>5, <1>6, <1>7, <1>8 DEF Calls

\* The children follow one another from the start of the range to its end.
Tiles(c, r) ==
    /\ c # <<>> /\ c[1].from = r.from /\ c[Len(c)].to = r.to
    /\ \A i \in 1 .. Len(c) - 1 : c[i].to = c[i + 1].from
    /\ \A i \in 1 .. Len(c) : c[i].bytes = c[i].to - c[i].from

LEMMA OneTiles ==
    ASSUME NEW n, NEW r, n.from = r.from, n.to = r.to, n.bytes = n.to - n.from
    PROVE  Tiles(<<n>> \o <<>>, r)
<1>1. <<n>> \o <<>> = <<n>>
  OBVIOUS
<1> QED
  BY <1>1 DEF Tiles

LEMMA TwoTile ==
    ASSUME NEW n, NEW o, NEW r, n.from = r.from, n.to = o.from, o.to = r.to,
           n.bytes = n.to - n.from, o.bytes = o.to - o.from
    PROVE  Tiles(<<n>> \o <<o>>, r)
<1> DEFINE c == <<n>> \o <<o>>
<1>1. <<n>> \in Seq({n, o}) /\ <<o>> \in Seq({n, o})
  OBVIOUS
<1>2. Len(c) = 2 /\ c[1] = n /\ c[2] = o
  BY <1>1
<1>3. c # <<>>
  BY <1>1, <1>2
<1> HIDE DEF c
<1>4. \A i \in 1 .. Len(c) - 1 : i = 1
  BY <1>2
<1>5. \A i \in 1 .. Len(c) : i = 1 \/ i = 2
  BY <1>2
<1>6. 1 + 1 = 2
  OBVIOUS
<1>7. Tiles(c, r)
  BY <1>2, <1>3, <1>4, <1>5, <1>6 DEF Tiles
<1> QED
  BY <1>7 DEF c

LEMMA TreeTiles ==
    ASSUME Typed, Upto(5), Answer("tree").result.why = "none"
    PROVE  Tiles(Answer("tree").children, Answer("tree").result)
<1> DEFINE a == Answer("tree")
           rest == RestOf(TheBody, Start)
<1>1. 2 <= Size /\ Fatal("body") = "none"
  BY UptoShows, UptoLess
<1>2. a = Reply("tree", Outcome(TheBody.why, TheBody.arm, Start, BodyEnd, 0),
                Children(TheBody, rest, Start, BodyEnd))
  BY DEF Answer, TheBody
<1>3. /\ a.result.why = TheBody.why /\ a.result.from = Start /\ a.result.to = BodyEnd
      /\ a.children = Children(TheBody, rest, Start, BodyEnd)
  BY <1>2 DEF Reply, Outcome
<1>4. Outcome("declared", Selected, Start, Start, 0).why = "declared"
  BY DEF Outcome
<1>5. PICK n \in Nat : /\ TheBody = Outcome("none", Selected, Start, WindowEnd(Start), n)
                       /\ Start + n <= BodyEnd
                       /\ ~layout.windowed => Start + n = BodyEnd
  BY <1>1, <1>3, <1>4, FittingBody
<1>6. TheBody.ok /\ TheBody.len = n /\ TheBody.why = "none"
  BY <1>5 DEF Outcome
<1>7. rest = Outcome("none", Selected, Start + n, WindowEnd(Start), n)
  BY <1>5, <1>6 DEF RestOf, Outcome
<1> HIDE DEF rest
<1>8. rest.ok /\ rest.from = Start + n /\ rest.to = WindowEnd(Start)
  BY <1>7 DEF Outcome
<1>9. Start \in Nat /\ BodyEnd \in Nat /\ (layout.windowed => WindowEnd(Start) = BodyEnd)
  BY <1>1, StartType, FittingBody
<1> DEFINE arm == Node("arm", Start, Start + n, n)
           left == Node("rest", Start + n, BodyEnd, BodyEnd - (Start + n))
<1>10. /\ arm.from = Start /\ arm.to = Start + n /\ arm.bytes = n
       /\ left.from = Start + n /\ left.to = BodyEnd /\ left.bytes = BodyEnd - (Start + n)
  BY DEF Node
<1>11. Least(Start + n, BodyEnd) = Start + n
  BY <1>5, <1>9 DEF Least
<1> HIDE DEF a
<1>12. CASE layout.windowed /\ Start + n < BodyEnd
  <2>1. a.children = <<arm>> \o <<left>>
    BY <1>3, <1>6, <1>8, <1>9, <1>11, <1>12 DEF Children
  <2>2. BodyEnd - (Start + n) = left.to - left.from /\ n = arm.to - arm.from
    BY <1>9, <1>10
  <2> HIDE DEF arm, left
  <2>3. Tiles(<<arm>> \o <<left>>, a.result)
    BY <1>3, <1>10, <2>2, TwoTile
  <2> QED
    BY <2>1, <2>3 DEF a
<1>13. CASE ~(layout.windowed /\ Start + n < BodyEnd)
  <2>1. a.children = <<arm>> \o <<>>
    BY <1>3, <1>6, <1>8, <1>9, <1>11, <1>13 DEF Children
  <2>2. Start + n = BodyEnd
    BY <1>5, <1>9, <1>13
  <2> HIDE DEF arm, left
  <2> QED
    BY <1>3, <1>9, <1>10, <2>1, <2>2, OneTiles DEF a
<1> QED
  BY <1>12, <1>13

-----------------------------------------------------------------------------
(* The invariant.                                                          *)

LEMMA CheckNever ==
    ASSUME Typed, NEW f \in FieldNames, f = "body" => 2 <= Size
    PROVE  Fatal(f) # "panic" /\ Check(f) # "panic" /\ (Recoverable(f) # "none" => f = "tail")
<1>1. \A n : Fits(n) # "panic"
  BY DEF Fits
<1>2. Fatal(f) # "panic"
  <2>1. CASE f \in {"head", "size", "tail"}
    BY <1>1, <2>1 DEF Fatal
  <2>2. CASE f = "key"
    BY <1>1, <2>2 DEF Fatal, First
  <2>3. CASE f = "body"
    BY <1>1, <2>3, CheckNeverPanics DEF Fatal
  <2> QED
    BY <2>1, <2>2, <2>3 DEF FieldNames
<1>3. Recoverable(f) # "panic" /\ (Recoverable(f) # "none" => f = "tail")
  BY DEF Recoverable, TailOf, Outcome
<1> QED
  BY <1>2, <1>3 DEF Check

\* What parse returned is what the first field that did not pass was found to be.
Verdict ==
    IF refused = "none" THEN Upto(6)
    ELSE \E k \in 1 .. 5 : Check(Fields[k]) = refused /\ Upto(k)

Walk ==
    /\ phase \in {"parsing", "open", "rejected", "dissecting", "dissected"}
    /\ Walking => pc \in 1 .. 5 /\ Upto(pc)
    /\ phase \in {"parsing", "open"} => refused = "none"
    /\ phase # "parsing" => Verdict

\* A call's answer is the one the input gives.
Truthful == answer.call \in Calls => answer = Answer(answer.call) /\ Upto(5)

ViewInv == Typed /\ Walk /\ Truthful /\ DissectAgrees

LEMMA StillChecks ==
    ASSUME Still
    PROVE  /\ \A n \in 1 .. 6 : Upto(n)' <=> Upto(n)
           /\ \A k \in 1 .. 5 : Check(Fields[k])' = Check(Fields[k])
           /\ \A call \in Calls : Answer(call)' = Answer(call)
<1>0. layout' = layout /\ data' = data /\ hook' = hook
  BY DEF Still
<1>1. /\ KeyRaw' = KeyRaw /\ KeyEnd' = KeyEnd /\ TheBody' = TheBody /\ TheTail' = TheTail
      /\ Size' = Size
  BY StillComputes
<1>2. Selected' = Selected
  BY <1>0, <1>1 DEF Selected, HasKey, FirstArm, Matching, Discriminants, Byte
<1>3. Start' = Start
  BY <1>0, <1>1 DEF Start, BodyStart
<1>4. BodyEnd' = BodyEnd
  BY <1>0, <1>1, <1>2, <1>3 DEF BodyEnd, BodyLength, Clamped, Byte, Body, ArmLength
<1>5. CheckBody(Selected, Start)' = CheckBody(Selected, Start)
  BY <1>0, <1>1, <1>2, <1>3
  DEF CheckBody, IsError, Body, WindowEnd, Clamped, Byte, ParseArm, ArmLength
<1>6. \A f \in FieldNames : Fatal(f)' = Fatal(f)
  BY <1>0, <1>1, <1>4, <1>5 DEF Fatal, Fits, HasKey
<1>7. \A f \in FieldNames : Recoverable(f)' = Recoverable(f)
  BY <1>1 DEF Recoverable, TheTail
<1>8. \A f \in FieldNames : Check(f)' = Check(f)
  BY <1>6, <1>7 DEF Check
<1>9. \A k \in 1 .. 5 : Check(Fields[k])' = Check(Fields[k])
  BY <1>8 DEF Fields, FieldNames
<1>10. \A call \in Calls : Answer(call)' = Answer(call)
  BY <1>0, <1>1, <1>3, <1>4
  DEF Answer, TheBody, TheTail, Children, RestOf, Clamped
<1> QED
  BY <1>9, <1>10 DEF Upto

LEMMA UptoNext ==
    ASSUME NEW n \in 1 .. 5, Upto(n), Check(Fields[n]) = "none" PROVE Upto(n + 1)
BY DEF Upto

LEMMA FieldAt ==
    ASSUME Typed, NEW n \in 1 .. 5, Upto(n)
    PROVE  /\ Fields[n] \in FieldNames
           /\ Fatal(Fields[n]) # "panic" /\ Check(Fields[n]) # "panic"
           /\ Recoverable(Fields[n]) # "none" => n = 5
           /\ Fields[n] = "body" => n = 4
<1>1. /\ Fields[n] \in FieldNames /\ (Fields[n] = "body" => n = 4)
      /\ Fields[n] = "tail" => n = 5
  BY DEF Fields, FieldNames
<1>2. Fields[n] = "body" => 2 <= Size
  BY <1>1, UptoShows
<1> QED
  BY <1>1, <1>2, CheckNever

LEMMA NoReplyCall == NoReply.call = "none" /\ "none" \notin Calls
BY DEF NoReply, Reply, Calls

LEMMA StillTruthful ==
    ASSUME Still, Truthful, answer' = answer PROVE Truthful'
BY StillChecks DEF Truthful

LEMMA StillVerdict ==
    ASSUME Still, Verdict, refused' = refused PROVE Verdict'
<1>1. CASE refused = "none"
  BY <1>1, StillChecks DEF Verdict
<1>2. CASE refused # "none"
  <2>1. PICK k \in 1 .. 5 : Check(Fields[k]) = refused /\ Upto(k)
    BY <1>2 DEF Verdict
  <2>2. Check(Fields[k])' = refused' /\ Upto(k)'
    BY <2>1, StillChecks
  <2> QED
    BY <1>2, <2>2 DEF Verdict
<1> QED
  BY <1>1, <1>2

LEMMA ViewInitially == Init => ViewInv
<1> SUFFICES ASSUME Init PROVE ViewInv
  OBVIOUS
<1>1. Typed
  BY DEF Init, Typed
<1>2. Walk
  BY DEF Init, Walk, Walking, Upto
<1>3. Truthful /\ DissectAgrees
  BY NoReplyCall DEF Init, Truthful, DissectAgrees
<1> QED
  BY <1>1, <1>2, <1>3 DEF ViewInv

LEMMA ViewParse == ASSUME ViewInv, phase = "parsing", Parse PROVE ViewInv'
<1> DEFINE why == Check(Fields[pc])
<1>1. pc \in 1 .. 5 /\ Upto(pc) /\ refused = "none"
  BY DEF ViewInv, Walk, Walking
<1>2. why # "panic"
  BY <1>1, FieldAt DEF ViewInv
<1>3. Checked(why)
  BY DEF Parse
<1> HIDE DEF why
<1>4. Still /\ answer' = answer /\ refused' = why
  BY <1>3 DEF Checked, Still
<1>5. Walk'
  <2>1. CASE why = "none"
    <3>1. pc' = pc + 1 /\ phase' = IF pc = 5 THEN "open" ELSE "parsing"
      BY <1>3, <2>1 DEF Checked, Fields
    <3>2. Upto(pc + 1)
      BY <1>1, <2>1, UptoNext DEF why
    <3>3. PICK n \in 1 .. 6 : n = pc + 1
      BY <1>1
    <3>4. Upto(n)'
      BY <1>4, <3>2, <3>3, StillChecks
    <3>5. Upto(pc)'
      BY <3>1, <3>3, <3>4 DEF Upto
    <3>6. pc = 5 => Upto(6)'
      BY <3>3, <3>4
    <3> QED
      BY <1>1, <1>4, <2>1, <3>1, <3>5, <3>6 DEF Walk, Walking, Verdict
  <2>2. CASE why # "none"
    <3>1. phase' = "rejected"
      BY <1>2, <1>3, <2>2 DEF Checked
    <3>2. PICK k \in 1 .. 5 : k = pc
      BY <1>1
    <3>3. Check(Fields[k])' = refused' /\ Upto(k)'
      BY <1>1, <1>4, <3>2, StillChecks DEF why
    <3>4. Verdict'
      BY <1>4, <2>2, <3>3 DEF Verdict
    <3> QED
      BY <3>1, <3>4 DEF Walk, Walking
  <2> QED
    BY <2>1, <2>2
<1>6. phase' # "dissected"
  BY <1>5, <1>3, <1>2 DEF Checked
<1> QED
  BY <1>4, <1>5, <1>6, StillComputes, StillTruthful DEF ViewInv, DissectAgrees

LEMMA ViewAsk == ASSUME ViewInv, Ask PROVE ViewInv'
<1>1. PICK call \in Calls : Replied(Answer(call))
  BY DEF Ask
<1>2. phase = "open" /\ Still /\ answer' = Answer(call) /\ pc' = pc /\ refused' = refused
  BY <1>1 DEF Replied, Still
<1>3. Upto(6) /\ refused = "none" /\ Verdict
  BY <1>2 DEF ViewInv, Walk, Verdict
<1>4. Upto(5)
  BY <1>3, UptoLess
<1>5. Answer(call).call = call /\ Readable(Answer(call).result)
  BY <1>3, <1>4, AnswerReadable DEF ViewInv
<1>6. phase' = "open"
  BY <1>1, <1>2, <1>5 DEF Replied, Readable
<1>7. Walk'
  BY <1>2, <1>3, <1>6, StillVerdict DEF Walk, Walking
<1>8. Truthful'
  <2>1. Answer(call)' = Answer(call)
    BY <1>2, StillChecks
  <2>2. Upto(5)'
    BY <1>2, <1>4, StillChecks
  <2> QED
    BY <1>2, <1>5, <2>1, <2>2 DEF Truthful
<1> QED
  BY <1>2, <1>6, <1>7, <1>8, StillComputes DEF ViewInv, DissectAgrees

LEMMA ViewBegin == ASSUME ViewInv, BeginDissect PROVE ViewInv'
<1>1. Still /\ phase' = "dissecting" /\ pc' = 1 /\ answer' = NoReply /\ refused' = refused
  BY DEF BeginDissect, Still
<1>2. Verdict
  BY DEF BeginDissect, ViewInv, Walk
<1>3. Upto(pc)'
  BY <1>1 DEF Upto
<1>4. Walk'
  BY <1>1, <1>2, <1>3, StillVerdict DEF Walk, Walking
<1> QED
  BY <1>1, <1>4, StillComputes, NoReplyCall DEF ViewInv, Truthful, DissectAgrees

LEMMA ViewDissect == ASSUME ViewInv, Dissect PROVE ViewInv'
<1> DEFINE f == Fields[pc]
           tree == Answer("tree")
           shown == Shown(f, Fatal(f), Recoverable(f), tree)
<1>1. phase = "dissecting" /\ Visited(Fatal(f), shown)
  BY DEF Dissect, Visited
<1>2. pc \in 1 .. 5 /\ Upto(pc) /\ Verdict
  BY <1>1 DEF ViewInv, Walk, Walking
<1>3. /\ f \in FieldNames /\ Fatal(f) # "panic" /\ Check(f) # "panic"
      /\ Recoverable(f) # "none" => pc = 5
      /\ f = "body" => pc = 4
  BY <1>2, FieldAt DEF ViewInv
<1>4. Still /\ pc' = pc + 1 /\ answer' = shown /\ refused' = refused
  BY <1>1 DEF Visited, Still
<1>5. \A k \in 1 .. 5 : Check(Fields[k]) = refused /\ refused # "none" /\ Upto(k) => pc <= k
  BY <1>2 DEF Upto
<1>6. CASE Check(f) = "none"
  <2>1. Fatal(f) = "none" /\ Recoverable(f) = "none"
    BY <1>6 DEF Check
  <2>2. shown = IF f = "body" THEN tree ELSE NoReply
    BY <2>1 DEF Shown
  <2>3. Upto(pc + 1)
    BY <1>2, <1>6, UptoNext
  <2>4. f = "body" => /\ tree.call = "tree" /\ tree.result.why # "panic" /\ Upto(5)
    <3> SUFFICES ASSUME f = "body"
                 PROVE  tree.call = "tree" /\ tree.result.why # "panic" /\ Upto(5)
      OBVIOUS
    <3>1. Upto(5)
      BY <1>3, <2>3
    <3>2. tree.call = "tree" /\ Readable(tree.result)
      BY <3>1, AnswerReadable DEF ViewInv, Calls
    <3> QED
      BY <3>1, <3>2 DEF Readable
  <2>5. NoReply.result.why = "none"
    BY DEF NoReply, Reply, Outcome
  <2> HIDE DEF f, tree, shown
  <2>6. phase' = IF pc = 5 THEN "dissected" ELSE "dissecting"
    <3>1. shown.result.why # "panic"
      BY <2>2, <2>4, <2>5
    <3>2. phase' = CASE Fatal(f) = "panic" \/ shown.result.why = "panic" -> "panic"
                     [] Fatal(f) # "none" \/ pc = Len(Fields) -> "dissected"
                     [] OTHER -> "dissecting"
      BY <1>1 DEF Visited
    <3>3. Len(Fields) = 5
      BY DEF Fields
    <3> QED
      BY <2>1, <3>1, <3>2, <3>3
  <2>7. pc # 5 => Upto(pc)'
    <3> SUFFICES ASSUME pc # 5 PROVE Upto(pc)'
      OBVIOUS
    <3>1. PICK n \in 1 .. 6 : n = pc + 1
      BY <1>2
    <3>2. Upto(n)'
      BY <1>4, <2>3, <3>1, StillChecks
    <3> QED
      BY <1>4, <3>1, <3>2 DEF Upto
  <2>8. Verdict'
    BY <1>2, <1>4, StillVerdict
  <2>9. Walk'
    BY <1>2, <1>4, <2>6, <2>7, <2>8 DEF Walk, Walking
  <2>10. Truthful'
    <3>1. CASE f = "body"
      <4>1. Answer("tree")' = Answer("tree")
        BY <1>4, StillChecks DEF Calls
      <4>2. Upto(5)'
        BY <1>4, <2>4, <3>1, StillChecks
      <4>3. answer' = Answer("tree") /\ answer'.call = "tree"
        BY <1>4, <2>2, <2>4, <3>1 DEF tree
      <4> QED
        BY <4>1, <4>2, <4>3 DEF Truthful
    <3>2. CASE f # "body"
      BY <1>4, <2>2, <3>2, NoReplyCall DEF Truthful
    <3> QED
      BY <3>1, <3>2
  <2>11. DissectAgrees'
    <3> SUFFICES ASSUME pc = 5 PROVE refused' = "none" /\ answer'.call # "error"
      BY <1>2, <2>6 DEF DissectAgrees
    <3>1. Upto(6)
      BY <2>3
    <3>2. refused = "none"
      BY <1>2, <3>1 DEF Verdict, Upto
    <3> QED
      BY <1>3, <1>4, <2>2, <3>2, NoReplyCall
  <2> QED
    BY <1>4, <2>9, <2>10, <2>11, StillComputes DEF ViewInv
<1>7. CASE Check(f) # "none"
  <2>1. shown = Reply("error", Outcome(Check(f), 0, 0, 0, 0), <<>>)
    BY <1>7 DEF Shown, Check
  <2>2. shown.call = "error" /\ shown.result.why = Check(f)
    BY <2>1 DEF Reply, Outcome
  <2>3. Fatal(f) # "none" \/ pc = 5
    BY <1>3, <1>7 DEF Check
  <2>4. refused = Check(f)
    <3>1. refused # "none"
      BY <1>2, <1>7 DEF Verdict, Upto
    <3>2. PICK k \in 1 .. 5 : Check(Fields[k]) = refused /\ Upto(k)
      BY <1>2, <3>1 DEF Verdict
    <3>3. pc <= k
      BY <1>5, <3>1, <3>2
    <3>4. k <= pc
      BY <1>2, <1>7, <3>2 DEF Upto
    <3>5. k = pc
      BY <1>2, <3>3, <3>4
    <3> QED
      BY <3>2, <3>5
  <2> HIDE DEF f, shown
  <2>5. phase' = "dissected"
    BY <1>1, <1>3, <2>2, <2>3 DEF Visited, Fields
  <2>6. Walk'
    BY <1>2, <1>4, <2>5, StillVerdict DEF Walk, Walking
  <2>7. Truthful'
    BY <1>4, <2>2 DEF Truthful, Calls
  <2>8. DissectAgrees'
    BY <1>4, <1>7, <2>2, <2>4 DEF DissectAgrees
  <2> QED
    BY <1>4, <2>6, <2>7, <2>8, StillComputes DEF ViewInv
<1> QED
  BY <1>6, <1>7

LEMMA ViewStutter == ASSUME ViewInv, UNCHANGED vars PROVE ViewInv'
<1>1. Still /\ phase' = phase /\ pc' = pc /\ refused' = refused /\ answer' = answer
  BY DEF vars, Still
<1>2. Walking => Upto(pc)'
  <2> SUFFICES ASSUME Walking PROVE Upto(pc)'
    OBVIOUS
  <2>1. PICK n \in 1 .. 6 : n = pc /\ Upto(n)
    BY DEF ViewInv, Walk
  <2>2. Upto(n)'
    BY <1>1, <2>1, StillChecks
  <2> QED
    BY <1>1, <2>1, <2>2 DEF Upto
<1>3. Walk'
  BY <1>1, <1>2, StillVerdict DEF ViewInv, Walk, Walking
<1> QED
  BY <1>1, <1>3, StillComputes, StillTruthful DEF ViewInv, DissectAgrees

LEMMA ViewStep == ASSUME ViewInv, [Next]_vars PROVE ViewInv'
<1>1. Parse => phase = "parsing"
  BY DEF Parse, Checked
<1> QED
  BY <1>1, ViewParse, ViewAsk, ViewBegin, ViewDissect, ViewStutter DEF Next

LEMMA ViewInvReads == ASSUME ViewInv PROVE AcceptedIsReadable
<1>1. phase # "panic"
  BY DEF ViewInv, Walk
<1>2. ASSUME phase = "open", answer.call \in Calls PROVE Readable(answer.result)
  <2>1. Upto(6)
    BY <1>2 DEF ViewInv, Walk, Verdict
  <2>2. answer = Answer(answer.call) /\ Upto(5)
    BY <1>2 DEF ViewInv, Truthful
  <2>3. Readable(Answer(answer.call).result)
    BY <1>2, <2>1, <2>2, AnswerReadable DEF ViewInv
  <2> QED
    BY <2>2, <2>3
<1> QED
  BY <1>1, <1>2 DEF AcceptedIsReadable, Readable

LEMMA ViewInvTiles == ASSUME ViewInv PROVE BodyTiled
<1> SUFFICES ASSUME answer.call = "tree", answer.result.why = "none"
             PROVE  Tiles(answer.children, answer.result)
  BY DEF BodyTiled, Tiles
<1>1. answer = Answer("tree") /\ Upto(5)
  BY DEF ViewInv, Truthful, Calls
<1> QED
  BY <1>1, TreeTiles DEF ViewInv

LEMMA SpecKeepsViewInv == Spec => []ViewInv
<1>1. Init => ViewInv
  BY ViewInitially
<1>2. ViewInv /\ [Next]_vars => ViewInv'
  BY ViewStep
<1> QED
  BY <1>1, <1>2, PTL DEF Spec

-----------------------------------------------------------------------------
(* Without caches, wherever the union lies.                                *)

(* What parse accepted can be read: no getter panics or meets an error of  *)
(* an arm's parser, and no answer leaves the input.  (the union's check    *)
(* takes its slice from a clamped start, its getter does not)              *)
THEOREM UncachedIsReadable == Spec => []AcceptedIsReadable
BY SpecKeepsViewInv, ViewInvReads, PTL

(* The children of the union's node cover its range, for each call and in  *)
(* each dissection.  (the tree functions of the union)                     *)
THEOREM UncachedTiles == Spec => []BodyTiled
BY SpecKeepsViewInv, ViewInvTiles, PTL

(* dissect comes to the error parse returned, or to none if it accepted.   *)
(* (the checks of the fields, made twice on one input)                     *)
THEOREM UncachedDissectAgrees == Spec => []DissectAgrees
<1>1. ViewInv => DissectAgrees
  BY DEF ViewInv
<1> QED
  BY <1>1, SpecKeepsViewInv, PTL

-----------------------------------------------------------------------------
(* With caches, where no cached union lies behind padding: the struct      *)
(* implements the one without, so what was proved of that one holds.       *)

(* As UncachedIsReadable, with a slot behind every getter.  (the getters   *)
(* of a @cache field)                                                      *)
THEOREM CachedIsReadable == Unpadded => (CachedSpec => []AcceptedIsReadable)
BY CachesChangeNothing, UncachedIsReadable, PTL DEF AnswersAsUncached

(* As UncachedTiles, with the arm and what is left of it read from slots.  *)
(* (the tree functions of a @cache union)                                  *)
THEOREM CachedTiles == Unpadded => (CachedSpec => []BodyTiled)
BY CachesChangeNothing, UncachedTiles, PTL DEF AnswersAsUncached

(* As UncachedDissectAgrees: the view dissect makes fills slots of its own *)
(* and comes to the same error.  (the checks of a @cache field)            *)
THEOREM CachedDissectAgrees == Unpadded => (CachedSpec => []DissectAgrees)
BY CachesChangeNothing, UncachedDissectAgrees, PTL DEF AnswersAsUncached
=============================================================================
