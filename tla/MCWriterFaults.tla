--------------------------- MODULE MCWriterFaults ---------------------------
(* Structs the code generator accepts and whose writer does not write what *)
(* the parser reads, each with a content that shows it.                    *)
EXTENDS MCWriter

\* A region longer than its length field can say.
LongRegion == Case(<<Num, Arr(By(1))>>, {<<0, s>> : s \in Strings(4)})

\* A region too short for the expression that is its length.
ShortRegion == Case(<<Num, Arr(More(1, 2))>>, {<<0, s>> : s \in Strings(3)})

\* An arm with a region behind a length hook and one behind a length field.
TwoRegionArm ==
    <<Arm(<<<<1>>>>, <<LenHook, Arr(By(1)), Num, Arr(By(3))>>), Arm(<<Any>>, <<Num>>)>>
TwoRegions ==
    Case(<<Num, LenHook, Union(<<1>>, By(2), TwoRegionArm)>>,
                {<<0, 0, Chosen(1, 1, <<0, s, 0, t>>)>> : s \in Strings(1), t \in Strings(2)})

\* A field between a length hook and its region.
FieldBehindHook == Case(<<Num, LenHook, Num, Arr(By(2))>>, {<<1, 0, 2, s>> : s \in Strings(2)})

\* Two of them, more than the hook takes.
FieldsBehindHook ==
    Case(<<Num, LenHook, Num, Num, Arr(By(2))>>, {<<1, 0, 2, 3, s>> : s \in Strings(1)})

\* A condition below zero: n - 1 = 0 for n = 0, which the parser takes for true.
ConditionBelowZero ==
    Case(<<Num, If(Less(1, 1), 0, <<Num>>, <<>>)>>, {<<0, [yes |-> <<Some(2)>>, no |-> <<>>]>>})

\* Padding in front of a region that takes the rest.
PaddedGreedy == Case(<<Num, Padded(1, Greedy)>>, {<<1, s>> : s \in Strings(2)})

\* Bytes that a hook writes behind their number, and a union.
EncodedRegion ==
    Case(<<[Item("hook") EXCEPT !.read = "prefixed", !.write = "encode"], Num, Num,
           Union(<<3>>, By(2), Wide)>>,
         {<<s, 0, 0, v>> : s \in Strings(2), v \in WideBodies})
=============================================================================
