---------------------------- MODULE Definitions ----------------------------
(***************************************************************************)
(* A parsed specification as the code generator reads it: a sequence of    *)
(* definitions, each a struct or the error block.  A name is a number, so  *)
(* that names are ordered.  `refs` are the structs a struct refers to, in  *)
(* fields, array elements, concats, union variants and both branches of a  *)
(* conditional.  `fails` is the error that its own generation ends in.     *)
(***************************************************************************)
EXTENDS Naturals, Sequences, FiniteSets

StructFails == {"none", "GenerateStruct", "Writer", "InvalidGeneratedCode"}
ErrorFails  == {"none", "ReservedErrorVariant", "DuplicateErrorVariant"}

Struct == [kind : {"struct"}, name : Nat, refs : SUBSET Nat, fails : StructFails]
Errors == [kind : {"errors"}, fails : ErrorFails]

Asts == Seq(Struct \cup Errors)

StructDefs(ast) == {k \in DOMAIN ast : ast[k].kind = "struct"}
ErrorDefs(ast)  == {k \in DOMAIN ast : ast[k].kind = "errors"}
Structs(ast)    == {ast[k].name : k \in StructDefs(ast)}

\* The one definition of a struct, in specifications without duplicates.
DefOf(ast, s)   == CHOOSE k \in StructDefs(ast) : ast[k].name = s
RefsOf(ast, s)  == ast[DefOf(ast, s)].refs
FailsOf(ast, s) == ast[DefOf(ast, s)].fails

\* The structs that can never be generated: the largest set in which everyone
\* refers to a member.  It is empty exactly when no struct contains itself.
Stuck(ast) ==
    UNION {B \in SUBSET Structs(ast) : \A s \in B : RefsOf(ast, s) \cap B # {}}

\* s contains itself: every set that holds its references and theirs holds s.
OnCycle(ast, s) ==
    \A C \in SUBSET Structs(ast) :
        RefsOf(ast, s) \subseteq C /\ (\A t \in C : RefsOf(ast, t) \subseteq C) => s \in C

=============================================================================
