--------------------------- MODULE CachedUnionView ---------------------------
(***************************************************************************)
(* The same struct with @cache on some of its fields: a getter looks into  *)
(* a slot of the view before it computes, and fills it.  A hook's slot is  *)
(* filled only when the hook succeeds, a union's whatever its arm's parser *)
(* says, the slot of an end offset whenever it is asked for.               *)
(*                                                                         *)
(* Reading a slot changes when things are computed, and for a union also   *)
(* which slice: the cached check reads what the getter reads.  The answers *)
(* must be those of UnionView.                                             *)
(***************************************************************************)
EXTENDS UnionView

VARIABLE memo      \* the slots of the view

cachedVars == <<vars, memo>>

Slots == {"key", "end", "body", "tail"}
Cached(slot) == slot \in layout.cached

\* An empty slot is the empty set.
Empty == [key |-> {}, end |-> {}, body |-> {}, tail |-> {}]
Slot(m, slot)    == CHOOSE v \in m[slot] : TRUE
IsFull(m, slot)  == Cached(slot) /\ m[slot] # {}
Fill(m, slot, v) == IF Cached(slot) THEN [m EXCEPT ![slot] = {v}] ELSE m

\* What a getter returns, and the slots behind it; the next one goes on from there.
With(m, v)             == [memo |-> m, value |-> v]
Then(r, go(_, _))      == go(r.memo, r.value)
Stored(m, slot, v)     == With(Fill(m, slot, v), v)
IfOkStored(m, slot, v) == IF v.ok THEN Stored(m, slot, v) ELSE With(m, v)

-----------------------------------------------------------------------------
(* The getters, from the slots m of the view.                              *)

\* key_raw
ReadKey(m) ==
    IF IsFull(m, "key") THEN With(m, Slot(m, "key")) ELSE IfOkStored(m, "key", KeyRaw)

\* key_end_offset
ReadKeyEnd(m) ==
    CASE ~HasKey -> With(m, KeyStart)
      [] HasKey /\ IsFull(m, "end") -> With(m, Slot(m, "end"))
      [] OTHER -> Then(ReadKey(m), LAMBDA n, k :
                      Stored(n, "end", KeyStart + IF k.ok THEN k.used ELSE 0))

ReadSelected(m) ==
    IF layout.args = 1 THEN With(m, FirstArm(Discriminants(0)))
    ELSE Then(ReadKey(m), LAMBDA n, k :
             With(n, FirstArm(Discriminants(IF k.ok THEN k.value ELSE 0))))

\* The arm selected and where it starts, in the order the match evaluates them.
ReadPlace(m) ==
    Then(ReadSelected(m), LAMBDA n, i :
        Then(ReadKeyEnd(n), LAMBDA o, e : With(o, [arm |-> i, start |-> BodyStart(e)])))

\* What the arm's parser says is kept, an error too; a panic ends everything.
Answered(m, r) == IF r.why = "panic" THEN With(m, r) ELSE Stored(m, "body", r)

\* body_cached, or the match of the getter without a cache.
ReadUnion(m) ==
    IF IsFull(m, "body") THEN With(m, Slot(m, "body"))
    ELSE Then(ReadPlace(m), LAMBDA n, p : Answered(n, ReadBody(p.arm, p.start)))

\* Mutant: an error arm is an error of parse, too.
PassesAll(r) == r

\* An error arm is an answer, not an error of parse.
Passes(r) == IF r.why = "declared" THEN [r EXCEPT !.ok = TRUE, !.why = "none"] ELSE r

\* body_union_check
ReadCheck(m) ==
    IF Cached("body") THEN Then(ReadUnion(m), LAMBDA n, u : With(n, Passes(u)))
    ELSE Then(ReadPlace(m), LAMBDA n, p : With(n, CheckBody(p.arm, p.start)))

\* The end: of the window, of the cached view, or of the arm as it would be.
EndFrom(m, start) ==
    CASE layout.windowed -> With(m, start + Byte(1))
      [] ~layout.windowed /\ Cached("body") ->
             Then(ReadUnion(m), LAMBDA n, u : With(n, start + u.len))
      [] OTHER -> Then(ReadSelected(m), LAMBDA n, i : With(n, start + BodyLength(i, start)))

ReadBodyEnd(m) == Then(ReadKeyEnd(m), LAMBDA n, e : EndFrom(n, BodyStart(e)))

\* body_rest
ReadRest(m) ==
    Then(ReadUnion(m), LAMBDA n, u :
        Then(ReadKeyEnd(n), LAMBDA o, e : With(o, RestOf(u, BodyStart(e)))))

\* The converting hook of the tail.
ReadTail(m) ==
    IF IsFull(m, "tail") THEN With(m, Slot(m, "tail"))
    ELSE Then(ReadBodyEnd(m), LAMBDA n, e : IfOkStored(n, "tail", TailOf(e)))

-----------------------------------------------------------------------------
(* The checks, calls and nodes of UnionView, on the slots.                 *)

CachedFatal(f, m) ==
    CASE f = "key" /\ HasKey ->
             Then(ReadKey(m), LAMBDA n, k :
                 IF k.ok THEN Then(ReadKeyEnd(n), LAMBDA o, e : With(o, Fits(e)))
                 ELSE With(n, "hook"))
      [] f = "body" ->
             Then(ReadCheck(m), LAMBDA n, c :
                 IF c.why = "none" THEN Then(ReadBodyEnd(n), LAMBDA o, e : With(o, Fits(e)))
                 ELSE With(n, c.why))
      [] f = "tail" -> Then(ReadBodyEnd(m), LAMBDA n, e : With(n, Fits(e + 1)))
      [] OTHER -> With(m, Fatal(f))

CachedRecoverable(f, m) ==
    IF f = "tail" THEN Then(ReadTail(m), LAMBDA n, t : With(n, t.why)) ELSE With(m, "none")

NoErrors == [fatal |-> "none", recoverable |-> "none"]

\* Both checks of a field; the second is made if the first finds nothing.
CachedErrors(f, m) ==
    Then(CachedFatal(f, m), LAMBDA n, e :
        IF e # "none" THEN With(n, [NoErrors EXCEPT !.fatal = e])
        ELSE Then(CachedRecoverable(f, n), LAMBDA o, w :
                 With(o, [NoErrors EXCEPT !.recoverable = w])))

TreeOf(u, rest, start, end) ==
    Reply("tree", Outcome(u.why, u.arm, start, end, 0), Children(u, rest, start, end))

CachedTree(m) ==
    Then(ReadKeyEnd(m), LAMBDA m1, s :
    Then(ReadBodyEnd(m1), LAMBDA m2, e :
    Then(ReadUnion(m2), LAMBDA m3, u :
    Then(IF layout.windowed /\ u.why # "panic" THEN ReadRest(m3) ELSE With(m3, u), LAMBDA m4, r :
        With(m4, TreeOf(u, r, BodyStart(s), e))))))

CachedAnswer(call, m) ==
    CASE call = "key" ->
             Then(ReadKey(m), LAMBDA n, k : With(n, Reply(call, KeyOf(k), <<>>)))
      [] call = "body" -> Then(ReadUnion(m), LAMBDA n, u : With(n, Reply(call, u, <<>>)))
      [] call = "rest" -> Then(ReadRest(m), LAMBDA n, r : With(n, Reply(call, r, <<>>)))
      [] call = "end" ->
             Then(ReadKeyEnd(m), LAMBDA n, s :
                 Then(ReadBodyEnd(n), LAMBDA o, e :
                     With(o, Reply(call, Outcome("none", 0, BodyStart(s), e, 0), <<>>))))
      [] call = "tail" -> Then(ReadTail(m), LAMBDA n, t : With(n, Reply(call, t, <<>>)))
      [] call = "tree" -> CachedTree(m)

-----------------------------------------------------------------------------
CachedInit == Init /\ memo = Empty

CachedParse ==
    /\ phase = "parsing"
    /\ \E r \in {CachedErrors(Fields[pc], memo)} :
           /\ Checked(IF r.value.fatal = "none" THEN r.value.recoverable ELSE r.value.fatal)
           /\ memo' = r.memo

CachedAsk ==
    /\ phase = "open"
    /\ \E call \in Calls :
           /\ Offered(call)
           /\ \E a \in {CachedAnswer(call, memo)} : Replied(a.value) /\ memo' = a.memo

\* dissect makes a view of its own, with empty slots.
CachedBegin == BeginDissect /\ memo' = Empty

CachedDissect ==
    /\ phase = "dissecting"
    /\ \E r \in {CachedErrors(Fields[pc], memo)} :
       \E t \in {IF r.value = NoErrors /\ Fields[pc] = "body"
                 THEN CachedTree(r.memo) ELSE With(r.memo, NoReply)} :
           /\ Visited(r.value.fatal,
                      Shown(Fields[pc], r.value.fatal, r.value.recoverable, t.value))
           /\ memo' = t.memo

CachedNext == CachedParse \/ CachedAsk \/ CachedBegin \/ CachedDissect
CachedSpec == CachedInit /\ [][CachedNext]_cachedVars

-----------------------------------------------------------------------------
OutcomeType ==
    [ok : BOOLEAN, why : {"none", "short", "range", "hook", "declared", "panic"},
     arm : Nat, from : Nat, to : Nat, len : Nat]

TypeOK ==
    /\ layout \in Layouts /\ data \in Inputs /\ hook \in Answers
    /\ phase \in {"parsing", "open", "rejected", "dissecting", "dissected", "panic"}
    /\ pc \in 1 .. Len(Fields) + 1
    /\ refused \in {"none", "short", "range", "hook", "panic"}
    /\ answer.result \in OutcomeType
    /\ memo.key \in SUBSET Answers /\ memo.end \in SUBSET (KeyStart .. Size)
    /\ memo.body \in SUBSET OutcomeType /\ memo.tail \in SUBSET OutcomeType

(* What parse accepted can be read: the union answers with a view of an    *)
(* arm or with a declared error, never with an error of the arm's parser   *)
(* or a panic, and what it shows lies within the input.                    *)
(* (body_union_check reads another slice than the getter)                  *)
AcceptedIsReadable ==
    /\ phase # "panic"
    /\ phase = "open" /\ answer.call \in Calls
           => /\ answer.result.why \in {"none", "declared"}
              /\ answer.result.why = "none" => answer.result.to <= Size

(* The children of the body's node follow one another, cover its range,    *)
(* and each has as many bytes as its range says.  A declared error has     *)
(* none.  (the tree functions of the union)                                *)
BodyTiled ==
    answer.call = "tree" /\ answer.result.why = "none"
        => LET c == answer.children
               r == answer.result
           IN  /\ c # <<>> /\ c[1].from = r.from /\ c[Len(c)].to = r.to
               /\ \A i \in 1 .. Len(c) - 1 : c[i].to = c[i + 1].from
               /\ \A i \in 1 .. Len(c) : c[i].bytes = c[i].to - c[i].from

(* dissect comes to the error parse returned, or to none if it accepted.   *)
(* (the fatal and recoverable checks, run on two views)                    *)
DissectAgrees ==
    phase = "dissected"
        => IF refused = "none" THEN answer.call # "error"
           ELSE answer.call = "error" /\ answer.result.why = refused

(* A struct with caches answers every call, in every order, as the same    *)
(* struct without them.  (@cache, docs/eager-parse-handoff.md:87)          *)
AnswersAsUncached == Spec
=============================================================================
