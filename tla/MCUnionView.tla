---------------------------- MODULE MCUnionView ----------------------------
(* Small structs, inputs and hook answers for CachedUnionView.             *)
EXTENDS CachedUnionView

\* union(head) with every kind of arm, and one that ends in an error.
Views  == <<Arm({<<1>>}, Fixed(1)), Arm({<<2>>}, Counted), Arm({<<Any>>}, Greedy)>>
Errors == <<Arm({<<1>>, <<2>>}, Ranged(1)), Arm({<<Any>>}, Declared)>>

\* union(head, key): matchers overlap, the first holds.
Pairs == <<Arm({<<1, Any>>}, Counted), Arm({<<Any, 1>>, <<2, 2>>}, Fixed(2)),
           Arm({<<Any, Any>>}, Declared)>>

Layout(args, keyed, arms, windowed, pad, cached) ==
    [args |-> args, keyed |-> keyed, arms |-> arms, windowed |-> windowed, pad |-> pad,
     cached |-> cached, tailMax |-> 1]

Nothing    == {}
Everything == {"key", "end", "body", "tail"}

SmallLayouts ==
    {Layout(1, FALSE, arms, windowed, 0, cached) :
        arms \in {Views, Errors}, windowed \in BOOLEAN, cached \in {Nothing, {"body", "tail"}}}
    \cup {Layout(2, TRUE, Pairs, windowed, 0, cached) :
              windowed \in BOOLEAN, cached \in {Nothing, {"key"}, {"end", "tail"}, Everything}}
    \cup {Layout(1, FALSE, Views, FALSE, 1, Nothing), Layout(2, TRUE, Pairs, TRUE, 1, {"key", "end"})}

\* A cached union behind padding: its check takes the slice of the getter.
PaddedLayouts == {Layout(1, FALSE, Views, FALSE, 1, {"body"})}

SmallInputs == UNION {[1 .. n -> {0, 1, 2}] : n \in 0 .. 5} \cup [1 .. 6 -> {1, 2}]

SmallAnswers ==
    {[ok |-> FALSE, value |-> 0, used |-> 0], [ok |-> TRUE, value |-> 1, used |-> 1],
     [ok |-> TRUE, value |-> 2, used |-> 0], [ok |-> TRUE, value |-> 2, used |-> 3]}
=============================================================================
