--------------------------- MODULE MCBackReferences ---------------------------
(* Bytes of two bits: a pointer reaches the first four bytes, that of a    *)
(* blob the first sixteen.  A message begins with up to two bytes of any   *)
(* value, or with one of the loops of pointers that fit.                   *)
EXTENDS BackReferences

Bytes0(n) == UNION {[1 .. k -> 0 .. Base - 1] : k \in 0 .. n}

Openings == Bytes0(2) \cup {<<3, 2, 3, 0>>, <<1, 3, 3, 0>>, <<1, 1, 3, 2>>, <<0, 3, 1>>}

SomeNames ==
    {<<0>>, <<1, 0, 0>>, <<1, 1, 0>>, <<1, 0, 1, 1, 0>>, <<1, 3, 1, 1, 0>>, <<2, 1, 0, 0>>}

SomeBlobs == {<<>>, <<1, 0>>, <<1, 1, 0>>, <<0, 0, 0, 0>>}
=============================================================================
