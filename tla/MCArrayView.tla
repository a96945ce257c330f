---------------------------- MODULE MCArrayView ----------------------------
(* Every legal array of ArrayView over inputs of up to six bytes.          *)
EXTENDS ArrayView

Layout(mode, elem, windowed, cap) ==
    [mode |-> mode, elem |-> elem, windowed |-> windowed, cap |-> cap]

AllLayouts ==
    {Layout("counted", elem, FALSE, cap) :
        elem \in {"byte", "pair", "bits", "record"}, cap \in {{2}, {}}}
    \cup {Layout("until", "byte", windowed, cap) : windowed \in BOOLEAN, cap \in {{1}, {}}}
    \cup {Layout("greedy", elem, windowed, cap) :
              elem \in {"byte", "pair", "record"}, windowed \in BOOLEAN, cap \in {{1}, {}}}
    \cup {Layout("greedy", "entry", windowed, cap) : windowed \in BOOLEAN, cap \in {{0}, {3}}}

\* @len(n) @until(0) [u8]
WindowedUntil == {Layout("until", "byte", TRUE, {})}

SmallInputs ==
    UNION {[1 .. n -> 0 .. 2] : n \in 0 .. 5} \cup [1 .. 6 -> {0, 1, 4}]
    \cup {<<8, 1, 1, 1>>, <<5, 2, 0, 2, 0>>}
=============================================================================
