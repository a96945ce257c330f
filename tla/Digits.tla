------------------------------- MODULE Digits -------------------------------
(***************************************************************************)
(* Bytes with a small base, and the hooks that read and write them: those  *)
(* the specifications name in @hook and @write_hook, with the forms of the *)
(* runtime's (a number of one or two bytes, bytes behind their number,     *)
(* bytes up to a zero).                                                    *)
(***************************************************************************)
EXTENDS Naturals, Sequences

CONSTANT Base      \* bytes are the digits 0 .. Base - 1

ASSUME BaseAssumption == Base \in Nat /\ Base > 1

MaxByte == Base - 1
Zeroes(n) == [i \in 1 .. n |-> 0]

Minus(a, b) == IF a > b THEN a - b ELSE 0            \* usize::saturating_sub

\* The largest number a length hook or a content hook can write.
MaxHooked == MaxByte + MaxByte

Width(v)  == IF v < MaxByte THEN 1 ELSE 2
Varint(v) == IF v < MaxByte THEN <<v>> ELSE <<MaxByte, v - MaxByte>>
Prefixed(bytes) == <<Len(bytes)>> \o bytes

\* A length is cast to the return type of its hook: that holds the numbers the
\* hook can write, and wraps around behind them.
Cast(n) == n % (MaxByte + Base)

\* What a hook reads from the front of bytes: the value and how much it took.
Unread == [ok |-> FALSE, value |-> 0, took |-> 0]
ReadAs(value, took) == [ok |-> TRUE, value |-> value, took |-> took]

ReadVarint(bytes) ==
    CASE bytes = <<>> -> Unread
      [] bytes # <<>> /\ bytes[1] < MaxByte -> ReadAs(bytes[1], 1)
      [] Len(bytes) > 1 /\ bytes[1] = MaxByte -> ReadAs(MaxByte + bytes[2], 2)
      [] OTHER -> Unread

ReadPrefixed(bytes) ==
    IF bytes # <<>> /\ Len(bytes) > bytes[1]
    THEN ReadAs(SubSeq(bytes, 2, 1 + bytes[1]), 1 + bytes[1]) ELSE Unread

ReadName(bytes) ==
    LET zeroes == {n \in 1 .. Len(bytes) : bytes[n] = 0}
        first == CHOOSE n \in zeroes : \A m \in zeroes : n <= m
    IN  IF zeroes # {} THEN ReadAs(SubSeq(bytes, 1, first), first) ELSE Unread

ReadHook(form, bytes) ==
    CASE form = "varint" -> ReadVarint(bytes)
      [] form = "prefixed" -> ReadPrefixed(bytes)
      [] form = "name" -> ReadName(bytes)
=============================================================================
