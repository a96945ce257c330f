------------------------------ MODULE UnionView ------------------------------
(***************************************************************************)
(* The code generated for a struct with a union, as it is without @cache:  *)
(* what parse, the getters and the trees answer about it.                  *)
(*                                                                         *)
(*     head: u8,  size: u8,  key: @hook [u8],                              *)
(*     body: union(head) or union(head, key), with or without @pad and     *)
(*           @len(size),                                                   *)
(*     tail: @hook u8                                                      *)
(*                                                                         *)
(* Every getter computes its answer from the input.  An arm's parser is    *)
(* the generated parser of another struct: ParseArm says what it accepts   *)
(* of the slice it is given.                                               *)
(***************************************************************************)
EXTENDS Naturals, Sequences

CONSTANTS Layouts,    \* the structs considered
          Inputs,     \* the input slices: sequences of bytes
          Answers     \* what the hook of key may answer

Any == 256           \* the matcher _, which is no byte

\* The parser of an arm, by what it takes.
Bodies == [kind : {"fixed", "counted", "greedy", "ranged", "error"}, size : Nat]

ASSUME LayoutsAssumption ==
    \A l \in Layouts :
        /\ l.pad \in Nat /\ l.keyed \in BOOLEAN /\ l.windowed \in BOOLEAN
        /\ l.args # 1 => l.keyed
ASSUME ArmsAssumption ==      \* a union without an arm for every value is rejected
    \A l \in Layouts :
        /\ l.arms \in Seq([matchers : SUBSET Seq(Nat), body : Bodies])
        /\ \E i \in DOMAIN l.arms : \E m \in l.arms[i].matchers : \A k \in DOMAIN m : m[k] = Any
ASSUME InputsAssumption  == Inputs \subseteq Seq(Nat)
ASSUME AnswersAssumption == Answers \subseteq [ok : BOOLEAN, value : Nat, used : Nat]

VARIABLES layout, data, hook,   \* the struct, its input, the hook's answer (it is pure)
          phase,     \* "parsing", "open", "rejected", "dissecting", "dissected", "panic"
          pc,        \* the field the walk has come to
          refused,   \* the error parse returned, or "none"
          answer     \* what the last call answered

vars == <<layout, data, hook, phase, pc, refused, answer>>

\* A matcher is a tuple of literals and Any; an arm has a set of them.
Fixed(n)   == [kind |-> "fixed", size |-> n]     \* n bytes
Counted    == [kind |-> "counted", size |-> 1]   \* n: u8, then n bytes
Greedy     == [kind |-> "greedy", size |-> 0]    \* all bytes there are
Ranged(n)  == [kind |-> "ranged", size |-> n]    \* u8 in 0 .. n
Declared   == [kind |-> "error", size |-> 0]     \* an @error arm
Arm(matchers, body) == [matchers |-> matchers, body |-> body]

Fields == <<"head", "size", "key", "body", "tail">>
HasKey == layout.keyed
Size   == Len(data)

Least(a, b) == IF a < b THEN a ELSE b
Byte(i)     == data[i + 1]

-----------------------------------------------------------------------------
(* key: user code says what it read of data[2..].                          *)

KeyStart == 2
KeyRaw ==
    IF hook.ok /\ KeyStart + hook.used <= Size THEN hook
    ELSE [ok |-> FALSE, value |-> 0, used |-> 0]

KeyEnd == KeyStart + IF HasKey /\ KeyRaw.ok THEN KeyRaw.used ELSE 0

-----------------------------------------------------------------------------
(* Which arm.                                                              *)

\* A hook that fails counts as 0 (unwrap_or).
Discriminants(key) == IF layout.args = 1 THEN <<Byte(0)>> ELSE <<Byte(0), key>>

Matches(matcher, d) == \A i \in DOMAIN matcher : matcher[i] \in {Any, d[i]}
Matching(d) == {i \in DOMAIN layout.arms : \E m \in layout.arms[i].matchers : Matches(m, d)}

\* The arms of a match are tried from the first on; one of them catches all.
FirstArm(d) == CHOOSE i \in Matching(d) : \A j \in Matching(d) : i <= j

Body(i) == layout.arms[i].body

-----------------------------------------------------------------------------
(* The arm's parser on data[from .. to]: the view and what it consumed.    *)

Outcome(why, i, from, to, len) ==
    [ok |-> why = "none", why |-> why, arm |-> i, from |-> from, to |-> to, len |-> len]
Panic == Outcome("panic", 0, 0, 0, 0)

\* What the arm takes of a slice; too much, if the slice does not hold a count.
ArmLength(body, from, to) ==
    CASE body.kind = "fixed" -> body.size
      [] body.kind = "ranged" -> 1
      [] body.kind = "counted" -> 1 + IF from < to THEN Byte(from) ELSE 0
      [] body.kind = "greedy" -> to - from
      [] body.kind = "error" -> 0

ParseArm(i, from, to) ==
    LET n == ArmLength(Body(i), from, to)
    IN  IF from > to THEN Panic
        ELSE IF n > to - from THEN Outcome("short", i, from, to, 0)
        ELSE IF Body(i).kind = "ranged" /\ Byte(from) > Body(i).size
             THEN Outcome("range", i, from, to, 0)
        ELSE Outcome("none", i, from, to, n)

IsError(i) == Body(i).kind = "error"

-----------------------------------------------------------------------------
(* body: what the generated functions make of the arm and where it starts. *)

BodyStart(end)   == end + layout.pad
Clamped(s)       == Least(s, Size)
WindowEnd(s)     == IF layout.windowed THEN Least(s + Byte(1), Size) ELSE Size

\* match ... { arm => parse(&data[start..end]), error => Err(...) }
ReadBody(i, s) ==
    IF IsError(i) THEN Outcome("declared", i, s, s, 0) ELSE ParseArm(i, s, WindowEnd(s))

\* Mutant: the check asks only whether the arm's bytes are there.
CheckBodyLength(i, s) ==
    IF ArmLength(Body(i), Clamped(s), WindowEnd(s)) <= WindowEnd(s) - Clamped(s)
    THEN Outcome("none", i, s, s, 0) ELSE Outcome("short", i, s, s, 0)

\* The check takes the slice from the clamped start, and lets error arms pass.
CheckBody(i, s) ==
    IF IsError(i) THEN Outcome("none", i, s, s, 0) ELSE ParseArm(i, Clamped(s), WindowEnd(s))

\* The length of an arm that was not parsed; its getters may read past the input.
BodyLength(i, s) ==
    IF layout.windowed THEN Byte(1)
    ELSE ArmLength(Body(i), Clamped(s), Size)

\* The bytes of the window the arm left, from what parse returned.
RestOf(r, s) ==
    CASE r.why = "none" -> [r EXCEPT !.from = @ + r.len]
      [] r.why = "declared" -> Outcome("none", r.arm, Clamped(s), Clamped(s), 0)
      [] OTHER -> r

Node(kind, from, to, bytes) == [kind |-> kind, from |-> from, to |-> to, bytes |-> bytes]

\* Mutant: what is left begins where the window does.
ChildrenFromStart(r, rest, s, end) ==
    LET arm == IF r.ok THEN <<Node("arm", s, s + r.len, r.len)>> ELSE <<>>
        left == IF layout.windowed /\ rest.ok /\ rest.from < rest.to
                THEN <<Node("rest", s, end, rest.to - rest.from)>> ELSE <<>>
    IN  arm \o left

\* The node of the body: the arm's tree, and what is left of the window.
Children(r, rest, s, end) ==
    LET arm == IF r.ok THEN <<Node("arm", s, s + r.len, r.len)>> ELSE <<>>
        consumed == Least(IF r.ok THEN s + r.len ELSE s, end)
        left == IF layout.windowed /\ rest.ok /\ rest.from < rest.to
                THEN <<Node("rest", consumed, end, rest.to - rest.from)>> ELSE <<>>
    IN  arm \o left

\* The hook of the tail converts every byte but those above the layout's limit.
TailOf(at) == IF Byte(at) <= layout.tailMax THEN Outcome("none", 0, at, at + 1, 1)
              ELSE Outcome("range", 0, at, at + 1, 0)

-----------------------------------------------------------------------------
(* The answers without caches.                                             *)

Start    == BodyStart(KeyEnd)
Selected == FirstArm(Discriminants(IF HasKey /\ KeyRaw.ok THEN KeyRaw.value ELSE 0))
BodyEnd  == Start + BodyLength(Selected, Start)

Fits(n) == IF n <= Size THEN "none" ELSE "short"
First(a, b) == IF a = "none" THEN b ELSE a

\* What ends the walk of dissect, and what only marks the field.
Fatal(f) ==
    CASE f = "head" -> Fits(1)
      [] f = "size" -> Fits(2)
      [] f = "key"  -> IF HasKey THEN First(IF KeyRaw.ok THEN "none" ELSE "hook", Fits(KeyEnd))
                       ELSE "none"
      [] f = "body" -> LET why == CheckBody(Selected, Start).why
                       IN  IF why = "none" THEN Fits(BodyEnd) ELSE why
      [] f = "tail" -> Fits(BodyEnd + 1)
Recoverable(f) == IF f = "tail" THEN TailOf(BodyEnd).why ELSE "none"
Check(f) == LET why == Fatal(f) IN IF why = "none" THEN Recoverable(f) ELSE why

Calls == {"key", "body", "rest", "end", "tail", "tree"}

Reply(call, r, children) == [call |-> call, result |-> r, children |-> children]
NoReply == Reply("none", Outcome("none", 0, 0, 0, 0), <<>>)

\* The calls the view has functions for.
Offered(call) ==
    CASE call = "key" -> HasKey
      [] call = "rest" -> layout.windowed
      [] OTHER -> TRUE

KeyOf(raw) == Outcome("none", raw.value, KeyStart, KeyStart + raw.used, raw.used)

Answer(call) ==
    LET r == ReadBody(Selected, Start)
    IN  CASE call = "key" -> Reply(call, KeyOf(KeyRaw), <<>>)
          [] call = "body" -> Reply(call, r, <<>>)
          [] call = "rest" -> Reply(call, RestOf(r, Start), <<>>)
          [] call = "end"  -> Reply(call, Outcome("none", 0, Start, BodyEnd, 0), <<>>)
          [] call = "tail" -> Reply(call, TailOf(BodyEnd), <<>>)
          [] call = "tree" -> Reply(call, Outcome(r.why, r.arm, Start, BodyEnd, 0),
                                    Children(r, RestOf(r, Start), Start, BodyEnd))

-----------------------------------------------------------------------------
(* parse checks field after field; what it returns is asked in any order;  *)
(* dissect walks over a view of its own.                                   *)

Init ==
    /\ layout \in Layouts /\ data \in Inputs /\ hook \in Answers
    /\ ~layout.keyed => hook = CHOOSE a \in Answers : TRUE
    /\ phase = "parsing" /\ pc = 1 /\ refused = "none" /\ answer = NoReply

\* The check of the field at pc came out like this.
Checked(why) ==
    /\ phase = "parsing"
    /\ refused' = why
    /\ IF why = "none" THEN pc' = pc + 1 ELSE pc' = pc
    /\ phase' = CASE why = "panic" -> "panic"
                  [] why # "none" /\ why # "panic" -> "rejected"
                  [] why = "none" -> IF pc = Len(Fields) THEN "open" ELSE "parsing"
    /\ UNCHANGED <<layout, data, hook, answer>>

Replied(reply) ==
    /\ phase = "open"
    /\ answer' = reply
    /\ phase' = IF reply.result.why = "panic" THEN "panic" ELSE phase
    /\ UNCHANGED <<layout, data, hook, pc, refused>>

BeginDissect ==
    /\ phase \in {"open", "rejected"}
    /\ phase' = "dissecting" /\ pc' = 1 /\ answer' = NoReply
    /\ UNCHANGED <<layout, data, hook, refused>>

\* A field of the dissection: its error stops it or not, the body has a node.
Visited(fatal, reply) ==
    /\ phase = "dissecting"
    /\ pc' = pc + 1
    /\ answer' = reply
    /\ phase' = CASE fatal = "panic" \/ reply.result.why = "panic" -> "panic"
                  [] fatal # "none" \/ pc = Len(Fields) -> "dissected"
                  [] OTHER -> "dissecting"
    /\ UNCHANGED <<layout, data, hook, refused>>

\* Mutant: only errors that end the walk are shown.
ShownFatal(f, fatal, recoverable, node) ==
    CASE fatal # "none" -> Reply("error", Outcome(fatal, 0, 0, 0, 0), <<>>)
      [] OTHER -> IF f = "body" THEN node ELSE NoReply

\* What dissect shows of a field: its node, or the error in its place.
Shown(f, fatal, recoverable, node) ==
    CASE fatal # "none" -> Reply("error", Outcome(fatal, 0, 0, 0, 0), <<>>)
      [] fatal = "none" /\ recoverable # "none" ->
             Reply("error", Outcome(recoverable, 0, 0, 0, 0), <<>>)
      [] OTHER -> IF f = "body" THEN node ELSE NoReply

Parse == Checked(Check(Fields[pc]))
Ask   == \E call \in Calls : Offered(call) /\ Replied(Answer(call))
Dissect ==
    LET f == Fields[pc]
    IN  Visited(Fatal(f), Shown(f, Fatal(f), Recoverable(f), Answer("tree")))

Next == Parse \/ Ask \/ BeginDissect \/ Dissect
Spec == Init /\ [][Next]_vars
=============================================================================
