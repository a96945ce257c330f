------------------------------ MODULE MCWriter ------------------------------
(* A struct of each writer shape, with contents at the ends of the ranges: *)
(* regions that are empty and as long as the length field can say, arms    *)
(* with and without regions, hooks of one and of two bytes.                *)
EXTENDS Writer

NoLen == [of |-> 0, times |-> 1, plus |-> 0, minus |-> 0]
By(i) == [NoLen EXCEPT !.of = i]
Less(i, n) == [By(i) EXCEPT !.minus = n]      \* i - n
More(i, n) == [By(i) EXCEPT !.plus = n]       \* i + n

Item(kind) ==
    [kind |-> kind, pad |-> 0, skip |-> FALSE, size |-> 0, bytes |-> <<>>, len |-> NoLen,
     write |-> "none", read |-> "none", discs |-> <<>>, arms |-> <<>>,
     is |-> 0, sense |-> TRUE, yes |-> <<>>, no |-> <<>>]

Num          == Item("num")
Int          == Item("int")
Bits         == Item("bits")
Const(bytes) == [Item("const") EXCEPT !.bytes = bytes, !.size = Len(bytes)]
Fixed(n)     == [Item("fixed") EXCEPT !.size = n]
Multi(n)     == [Item("multi") EXCEPT !.size = n]
Arr(len)     == [Item("arr") EXCEPT !.len = len]
Greedy       == Item("greedy")
Ref(len, n)  == [Item("ref") EXCEPT !.len = len, !.size = n]
Recs(len, n) == [Item("recs") EXCEPT !.len = len, !.size = n]
LenHook      == [Item("hook") EXCEPT !.read = "varint", !.write = "encode, width"]
ValueHook    == [Item("hook") EXCEPT !.read = "varint", !.write = "encode"]
NameHook     == [Item("hook") EXCEPT !.read = "name"]
Padded(n, it) == [it EXCEPT !.pad = n]
Skipped(it)   == [it EXCEPT !.skip = TRUE]

Arm(matchers, fields) == [error |-> FALSE, matchers |-> matchers, items |-> fields]
ErrorArm(matchers)    == [error |-> TRUE, matchers |-> matchers, items |-> <<>>]
Any == <<>>
Union(discs, len, arms) ==
    [Item("union") EXCEPT !.discs = discs, !.len = len, !.arms = arms]
If(left, is, yes, no) ==
    [Item("cond") EXCEPT !.len = left, !.is = is, !.yes = yes, !.no = no]
Unless(left, is, yes, no) == [If(left, is, yes, no) EXCEPT !.sense = FALSE]

Chosen(arm, disc, fields) == [arm |-> arm, disc |-> disc, fields |-> fields]

\* Byte strings of up to n bytes, and contents of a struct.
Strings(n) == {[i \in 1 .. k |-> (i + k) % Base] : k \in 0 .. n}
Case(fields, contents) == {[items |-> fields, content |-> c] : c \in contents}

FixedCases ==
    Case(<<Bits, Fixed(2), Int>>, {<<0, <<1, 2>>, 3>>, <<2, <<3, 0>>, 1>>})
      \cup Case(<<Const(<<2, 1>>), Num, Multi(2)>>, {<<0, 3, <<1, 2>>>>})

PaddedCases ==
    Case(<<Num, Padded(1, Num), Skipped(Padded(2, Int)), Padded(1, Fixed(2))>>,
         {<<3, 2, 0, <<1, 3>>>>, <<0, 1, 0, <<2, 2>>>>})

TailCases ==
    Case(<<Num, Int, Arr(By(1))>>, {<<0, 2, s>> : s \in Strings(4)})
      \cup Case(<<Bits, Num, Fixed(1), Arr(Less(2, 1))>>,
                {<<1, 0, <<2>>, s>> : s \in Strings(3)})
      \cup Case(<<Num, Const(<<3>>), Greedy>>, {<<1, 0, s>> : s \in Strings(3)})

HookTailCases ==
    Case(<<Num, LenHook, Arr(By(2))>>, {<<2, 0, s>> : s \in Strings(3)})

RecordCases ==
    Case(<<Num, Recs(NoLen, 2)>>, {<<1, s>> : s \in {<<>>, <<<<1, 2>>>>, <<<<1, 2>>, <<3, 0>>>>}})

\* A field is compared as it is, and as 2 * field - 1, which is not below zero.
IfCases ==
    Case(<<Num, If(By(1), 1, <<Num, Fixed(2)>>, <<Int>>)>>,
         {<<1, [yes |-> <<Some(2), Some(<<3, 1>>)>>, no |-> <<Absent>>]>>,
          <<2, [yes |-> <<Absent, Absent>>, no |-> <<Some(3)>>]>>})
      \cup Case(<<Bits, Unless([Less(1, 1) EXCEPT !.times = 2], 3, <<>>, <<Bits>>)>>,
                {<<1, [yes |-> <<>>, no |-> <<Absent>>]>>,
                 <<2, [yes |-> <<>>, no |-> <<Some(3)>>]>>})

\* What a hook without a width is too narrow for, it refuses however much room
\* there is.
ValueCases ==
    UNION {Case(<<Num, hook>>, {<<1, n>> : n \in {0, MaxByte - 1, MaxByte, MaxByte + 2}}) :
              hook \in {LenHook, ValueHook}}
      \cup Case(<<Num, ValueHook>>, {<<1, MaxHooked + 1>>})

Narrow == <<Arm(<<<<1>>>>, <<Num>>), Arm(<<<<0>>, <<2>>>>, <<>>), Arm(<<Any>>, <<Num, Fixed(1)>>)>>
Wide   == <<Arm(<<<<1>>>>, <<Num, Num, Arr(Less(2, 1)), Greedy>>),
            Arm(<<<<2>>>>, <<LenHook, Arr(By(1)), Num>>),
            ErrorArm(<<<<3>>>>), Arm(<<Any>>, <<Int>>)>>

Pairs  == <<Arm(<<<<1, 0>>>>, <<Num>>), Arm(<<Any, <<0, 1>>>>, <<Num, Int>>)>>

NarrowBodies == {Chosen(1, 1, <<3>>), Chosen(2, 0, <<>>), Chosen(3, 3, <<2, <<1>>>>)}
WideBodies ==
    {Chosen(1, 1, <<3, 0, s, t>>) : s \in Strings(2), t \in {<<>>, <<2>>}}
      \cup {Chosen(2, 2, <<0, s, 1>>) : s \in Strings(3)} \cup {Chosen(4, 0, <<2>>)}

UnionCases ==
    Case(<<Num, Num, Union(<<1>>, NoLen, Narrow)>>, {<<0, 2, v>> : v \in NarrowBodies})
      \cup Case(<<Num, Num, Union(<<2>>, More(1, 1), Narrow)>>,
                {<<0, 0, v>> : v \in NarrowBodies \ {Chosen(2, 0, <<>>)}})
      \cup Case(<<Num, Bits, Union(<<1, 2>>, NoLen, Pairs)>>,
                {<<0, 0, Chosen(1, 0, <<3>>)>>, <<0, 0, Chosen(2, 0, <<1, 2>>)>>})
      \cup Case(<<Num, LenHook, Union(<<1>>, By(2), Wide)>>, {<<0, 0, v>> : v \in WideBodies})

RegionCases ==
    Case(<<Num, Arr(By(1)), Num, Fixed(1)>>, {<<0, s, 2, <<3>>>> : s \in Strings(4)})
      \cup Case(<<Int, Num, Recs(By(2), 2), Num>>,
                {<<1, 0, s, 2>> : s \in {<<>>, <<<<1, 2>>>>, <<<<1, 2>>, <<3, 0>>>>}})
      \cup Case(<<Num, Ref(Less(1, 1), 2), Num>>, {<<0, <<3, 1>>, 2>>, <<0, <<1, 1>>, 0>>})
      \cup Case(<<Num, NameHook, Num, Num, Union(<<4>>, By(3), Wide)>>,
                {<<2, s, 0, 0, v>> : s \in {<<0>>, <<1, 3, 0>>}, v \in WideBodies})

AllCases == FixedCases \cup PaddedCases \cup TailCases \cup HookTailCases \cup RecordCases
              \cup IfCases \cup ValueCases \cup UnionCases \cup RegionCases
=============================================================================
