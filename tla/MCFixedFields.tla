---------------------------- MODULE MCFixedFields ----------------------------
(* Bytes of four bits; all runs of up to four bit fields in one bit order   *)
(* that fill one or two bytes, before or after integers in both byte        *)
(* orders, arrays and concats; and runs that mix the bit orders.            *)
EXTENDS FixedFields, TLC

Runs(orders) ==
    UNION {{[n \in 1 .. k |-> BitField(w[n], o[n])] : w \in [1 .. k -> 1 .. ByteBits - 1],
                                                      o \in [1 .. k -> orders]} : k \in 2 .. 3}

Wide == {Integer(1, "big"), Integer(2, "big"), Integer(2, "little"),
         Group(<<Integer(2, "little"), Integer(1, "big")>>),
         Group(<<BitField(3, "msb"), BitField(2, "msb"), BitField(3, "msb")>>)}

\* Runs in one bit order, with something wider in front or behind.
UniformLists ==
    {list \in Runs({"msb"}) \cup Runs({"lsb"}) : Accepted(list)}
      \cup {<<f, BitField(3, o), BitField(1, o)>> : f \in Wide, o \in {"msb", "lsb"}}
      \cup {<<BitField(1, o), BitField(3, o), f>> : f \in Wide, o \in {"msb", "lsb"}}
      \cup {<<f, g>> : f \in Wide, g \in Wide}

\* Two bit orders within a byte.
MixedLists == {list \in Runs({"msb", "lsb"}) : Accepted(list)}

SomeBuffers == {<<0, 0, 0, 0>>, <<15, 15, 15, 15>>, <<5, 10, 6, 9>>}
SomeValues == {0, 5, 15, 147, 2014}
=============================================================================
