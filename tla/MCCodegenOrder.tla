--------------------------- MODULE MCCodegenOrder ---------------------------
(* Small specifications for model-checking CodegenOrder.  The name 0 is    *)
(* that of the generated error enum, "Error".                              *)
EXTENDS CodegenOrder

S(name, refs) == [kind |-> "struct", name |-> name, refs |-> refs, fails |-> "none"]
Bad(name, refs, fails) == [S(name, refs) EXCEPT !.fails = fails]
E(fails) == [kind |-> "errors", fails |-> fails]

\* Up to two definitions, of any names, referring to any of three.
Pairs == UNION {[1 .. n -> {S(s, refs) : s \in 1 .. 2, refs \in SUBSET (1 .. 3)}] : n \in 0 .. 2}

\* Every dependency graph on three structs.
Graphs3 == {<<S(2, f[1]), S(1, f[2]), S(3, f[3])>> : f \in [1 .. 3 -> SUBSET (1 .. 3)]}

\* The same, and one struct that cannot be generated.
Failing3 ==
    {[g EXCEPT ![i].fails = fails] :
        g \in Graphs3, i \in 1 .. 3, fails \in StructFails \ {"none"}}

\* Layers: diamonds, a chain beside a short cut, a cycle with followers, two
\* layers that depend on two others, two failures in one layer.
Shapes ==
    {<<S(4, {2, 3}), S(2, {1}), S(3, {1}), S(1, {})>>,
     <<S(5, {4, 1}), S(4, {3}), S(3, {1}), S(2, {1}), S(1, {})>>,
     <<S(1, {2}), S(2, {1}), S(3, {2, 5}), S(4, {3}), S(5, {})>>,
     <<S(1, {}), S(2, {}), S(3, {1, 2}), S(4, {1, 2}), S(5, {3, 4, 1})>>,
     <<S(1, {}), Bad(2, {1}, "GenerateStruct"), Bad(3, {1}, "Writer"), S(4, {4})>>}

\* The error block, twice, wrong, or beside a struct of its name.
Blocks ==
    {<<E(fails), S(1, {2}), S(2, refs)>> : fails \in ErrorFails, refs \in {{}, {1}, {3}}}
      \cup {<<E("none"), S(1, {}), E("none")>>, <<S(0, {}), E("none")>>, <<S(0, {}), S(0, {})>>}

AllSpecs == Pairs \cup Graphs3 \cup Failing3 \cup Shapes \cup Blocks

\* A struct that only uses one on a cycle.
Downstream == {<<S(1, {2}), S(2, {1}), S(3, {2})>>}

=============================================================================
