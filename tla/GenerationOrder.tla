-------------------------- MODULE GenerationOrder --------------------------
(***************************************************************************)
(* What CodeGen::generate promises of the structs of one specification:    *)
(* each is generated once, after the structs it refers to; the call fails  *)
(* when the definitions are not valid, when some struct cannot be          *)
(* generated or when structs wait for each other, and else returns the     *)
(* code of all of them.  In which order, and which of several failures is  *)
(* reported, is left open.                                                 *)
(***************************************************************************)
EXTENDS Definitions

CONSTANTS Specs,      \* the specifications considered
          ErrorName   \* the name "Error"

VARIABLES ast,            \* the definitions, in order
          emit_writers,   \* generate_writers rather than generate
          made,           \* the structs generated so far
          outcome         \* "running", "ok", "rejected" or "cycle"

vars == <<ast, emit_writers, made, outcome>>

Valid ==
    /\ \A j, k \in StructDefs(ast) : ast[j].name = ast[k].name => j = k
    /\ \A j, k \in ErrorDefs(ast) : j = k
    /\ \A k \in StructDefs(ast) : ast[k].refs \subseteq Structs(ast)
    /\ ErrorDefs(ast) # {} => ErrorName \notin Structs(ast)
    /\ \A k \in ErrorDefs(ast) : ast[k].fails = "none"

Unfit(s) ==
    \/ FailsOf(ast, s) = "GenerateStruct"
    \/ emit_writers /\ FailsOf(ast, s) = "Writer"

Ready(s) == s \in Structs(ast) \ made /\ RefsOf(ast, s) \subseteq made

-----------------------------------------------------------------------------
Init ==
    /\ ast \in Specs
    /\ emit_writers \in BOOLEAN
    /\ made = {}
    /\ outcome = "running"

Make(s) ==
    /\ outcome = "running" /\ Valid
    /\ Ready(s) /\ ~Unfit(s)
    /\ made' = made \cup {s}
    /\ UNCHANGED <<ast, emit_writers, outcome>>

Reject ==
    /\ outcome = "running"
    /\ Valid => \E s \in Structs(ast) : Ready(s) /\ Unfit(s)
    /\ outcome' = "rejected"
    /\ UNCHANGED <<ast, emit_writers, made>>

Finish ==
    /\ outcome = "running" /\ Valid
    /\ \A s \in Structs(ast) : ~Ready(s)
    /\ outcome' =
         IF made # Structs(ast) THEN "cycle"
         ELSE IF \E s \in made : FailsOf(ast, s) = "InvalidGeneratedCode" THEN "rejected"
         ELSE "ok"
    /\ UNCHANGED <<ast, emit_writers, made>>

Next == (\E s \in Structs(ast) : Make(s)) \/ Reject \/ Finish

Spec == Init /\ [][Next]_vars

=============================================================================
