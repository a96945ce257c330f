----------------------------- MODULE MCOffsets -----------------------------
(* A small usize, so that sums, products and pads reach their limit. *)
EXTENDS Offsets

MCElementLengths ==
    {Length(0, 1), Length(0, 3), Length(0, 7), Length(1, 0), Length(2, 5)}

=============================================================================
