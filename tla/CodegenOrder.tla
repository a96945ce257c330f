---------------------------- MODULE CodegenOrder ----------------------------
(***************************************************************************)
(* CodeGen::generate_with of bytesmith-codegen: it scans the definitions   *)
(* into a map of structs to do and a map of reverse dependencies, then     *)
(* generates layer by layer the structs whose dependencies are done, and   *)
(* prints the result in definition order.  The maps are hash maps: the     *)
(* order in which the dependants of a struct are visited is not defined.   *)
(***************************************************************************)
EXTENDS Definitions, SequencesExt

CONSTANTS Specs, ErrorName

ASSUME SpecsAssumption == Specs \subseteq Asts
ASSUME ErrorNameAssumption == ErrorName \in Nat

VARIABLES ast, emit_writers,   \* the arguments
          at,                  \* "scan", "link", "generate" or "finished"
          k,                   \* next definition to scan
          definition_order,    \* the names of the structs scanned
          error_enum,          \* the error block scanned: a set of its index, or {}
          reverse_deps,        \* pairs <<dependency, dependant>>
          todo,                \* names of the structs not taken up yet
          dependencies,        \* of each struct scanned, those not generated yet
          roots, next,         \* this layer of structs to generate, and the next
          root, notify,        \* the struct just generated, its dependants to visit
          done,                \* the structs generated, in that order
          result

maps  == <<definition_order, error_enum, reverse_deps>>
work  == <<todo, dependencies, roots, next, root, notify, done>>
vars  == <<ast, emit_writers, at, k, maps, work, result>>

NoResult == [kind |-> "none", names |-> {}, output |-> <<>>]

Finished(kind, names, output) ==
    /\ at' = "finished"
    /\ result' = [kind |-> kind, names |-> names, output |-> output]

Fail(kind, names) ==
    Finished(kind, names, <<>>) /\ UNCHANGED <<ast, emit_writers, k, maps, work>>

-----------------------------------------------------------------------------
(* The scan of the definitions.                                            *)

Scanning(kind) == at = "scan" /\ k <= Len(ast) /\ ast[k].kind = kind

\* Mutant: only one of a struct's dependencies is told of it.
ScanStructOnce ==
    /\ Scanning("struct")
    /\ LET s == ast[k].name
           refs == ast[k].refs
       IN  /\ s \notin todo
           /\ definition_order' = Append(definition_order, s)
           /\ roots' = IF refs = {} THEN Append(roots, s) ELSE roots
           /\ reverse_deps' = reverse_deps \cup
                  (IF refs = {} THEN {} ELSE {<<CHOOSE d \in refs : TRUE, s>>})
           /\ todo' = todo \cup {s}
           /\ dependencies' = [t \in todo' |-> IF t = s THEN refs ELSE dependencies[t]]
    /\ k' = k + 1
    /\ UNCHANGED <<ast, emit_writers, at, error_enum, next, root, notify, done, result>>

ScanStruct ==
    /\ Scanning("struct")
    /\ LET s == ast[k].name
           refs == ast[k].refs
       IN  /\ s \notin todo
           /\ definition_order' = Append(definition_order, s)
           /\ roots' = IF refs = {} THEN Append(roots, s) ELSE roots
           /\ reverse_deps' = reverse_deps \cup {<<d, s>> : d \in refs}
           /\ todo' = todo \cup {s}
           /\ dependencies' = [t \in todo' |-> IF t = s THEN refs ELSE dependencies[t]]
    /\ k' = k + 1
    /\ UNCHANGED <<ast, emit_writers, at, error_enum, next, root, notify, done, result>>

RejectStructTwice ==
    /\ Scanning("struct") /\ ast[k].name \in todo
    /\ Fail("DuplicateStruct", {ast[k].name})

ScanErrors ==
    /\ Scanning("errors") /\ error_enum = {}
    /\ error_enum' = {k}
    /\ k' = k + 1
    /\ UNCHANGED <<ast, emit_writers, at, definition_order, reverse_deps, work, result>>

RejectErrorsTwice ==
    /\ Scanning("errors") /\ error_enum # {}
    /\ Fail("DuplicateErrorBlock", {})

EndScan ==
    /\ at = "scan" /\ k > Len(ast)
    /\ at' = "link"
    /\ UNCHANGED <<ast, emit_writers, k, maps, work, result>>

-----------------------------------------------------------------------------
(* Dependants are linked, then the error block is generated.               *)

Unknown == {p[1] : p \in reverse_deps} \ todo

\* Of several unknown structs the least name is reported.
RejectUnknown ==
    /\ at = "link" /\ Unknown # {}
    /\ Fail("UnknownStruct", {CHOOSE n \in Unknown : \A m \in Unknown : n <= m})

RejectErrors ==
    /\ at = "link" /\ Unknown = {}
    /\ IF error_enum # {} /\ ErrorName \in todo
       THEN Fail("ErrorStructConflict", {})
       ELSE \E e \in error_enum : ast[e].fails # "none" /\ Fail(ast[e].fails, {})

Link ==
    /\ at = "link" /\ Unknown = {}
    /\ error_enum # {} => ErrorName \notin todo
    /\ \A e \in error_enum : ast[e].fails = "none"
    /\ at' = "generate"
    /\ UNCHANGED <<ast, emit_writers, k, maps, work, result>>

-----------------------------------------------------------------------------
(* The worklist.                                                           *)

\* What struct_::generate, and writer::generate after it, make of struct s: a
\* reference to a struct that is not done is an error of the struct.
Verdict(s) ==
    IF FailsOf(ast, s) = "GenerateStruct" \/ ~(RefsOf(ast, s) \subseteq ToSet(done))
    THEN "GenerateStruct"
    ELSE IF emit_writers /\ FailsOf(ast, s) = "Writer" THEN "Writer"
    ELSE "none"

AtRoot == at = "generate" /\ notify = {} /\ roots # <<>>

\* Mutant: a struct taken up stays in the map.
GenerateKept ==
    /\ AtRoot /\ Head(roots) \in todo /\ Verdict(Head(roots)) = "none"
    /\ roots' = Tail(roots)
    /\ root' = Head(roots)
    /\ done' = Append(done, root')
    /\ notify' = {p[2] : p \in {q \in reverse_deps : q[1] = root'}}
    /\ UNCHANGED <<ast, emit_writers, at, k, maps, todo, dependencies, next, result>>

\* One root: it is generated unless it was taken up before.
Generate ==
    /\ AtRoot
    /\ roots' = Tail(roots)
    /\ IF Head(roots) \in todo
       THEN /\ Verdict(Head(roots)) = "none"
            /\ todo' = todo \ {Head(roots)}
            /\ root' = Head(roots)
            /\ done' = Append(done, root')
            /\ notify' = {p[2] : p \in {q \in reverse_deps : q[1] = root'}}
       ELSE UNCHANGED <<todo, root, done, notify>>
    /\ UNCHANGED <<ast, emit_writers, at, k, maps, dependencies, next, result>>

RejectStruct ==
    /\ AtRoot
    /\ Head(roots) \in todo /\ Verdict(Head(roots)) # "none"
    /\ Fail(Verdict(Head(roots)), {Head(roots)})

\* Mutant: a dependant is queued before all of its dependencies are done.
NotifyAtOnce ==
    \E d \in notify :
        /\ notify' = notify \ {d}
        /\ dependencies' = [dependencies EXCEPT ![d] = @ \ {root}]
        /\ next' = IF d \in todo THEN Append(next, d) ELSE next
        /\ UNCHANGED <<ast, emit_writers, at, k, maps, todo, roots, root, done, result>>

\* Visit one dependant of the struct just generated, in any order.
Notify ==
    \E d \in notify :
        /\ notify' = notify \ {d}
        /\ IF d \in todo
           THEN /\ dependencies' = [dependencies EXCEPT ![d] = @ \ {root}]
                /\ next' = IF dependencies'[d] = {} THEN Append(next, d) ELSE next
           ELSE UNCHANGED <<dependencies, next>>
        /\ UNCHANGED <<ast, emit_writers, at, k, maps, todo, roots, root, done, result>>

LayerDone == at = "generate" /\ notify = {} /\ roots = <<>>

\* Mutant: the layers are copied, not swapped.
NextLayerCopied ==
    /\ LayerDone /\ next # <<>>
    /\ roots' = next
    /\ UNCHANGED <<ast, emit_writers, at, k, maps, todo, dependencies, next, root, notify, done, result>>

NextLayer ==
    /\ LayerDone /\ next # <<>>
    /\ roots' = next /\ next' = <<>>
    /\ UNCHANGED <<ast, emit_writers, at, k, maps, todo, dependencies, root, notify, done, result>>

\* Mutant: the next layer is not waited for.
RejectCycleEarly ==
    LayerDone /\ todo # {} /\ Fail("DependencyCycle", todo)

RejectCycle ==
    /\ LayerDone /\ next = <<>>
    /\ todo # {}
    /\ Fail("DependencyCycle", todo)

\* Mutant: the structs are printed as they were generated.
PrintAsGenerated ==
    /\ LayerDone /\ next = <<>> /\ todo = {}
    /\ Finished("ok", {}, done)
    /\ UNCHANGED <<ast, emit_writers, k, maps, work>>

\* What print makes of the first i names of definition_order: the code of each, which
\* it takes out of the map.
Combined[i \in 0 .. Len(definition_order)] ==
    IF i = 0 THEN <<>>
    ELSE IF definition_order[i] \in ToSet(done) \ ToSet(Combined[i - 1])
    THEN Append(Combined[i - 1], definition_order[i])
    ELSE Combined[i - 1]

PrintStructs ==
    /\ LayerDone /\ next = <<>> /\ todo = {}
    /\ IF \E s \in ToSet(done) : FailsOf(ast, s) = "InvalidGeneratedCode"
       THEN Finished("InvalidGeneratedCode", {}, <<>>)
       ELSE Finished("ok", {}, Combined[Len(definition_order)])
    /\ UNCHANGED <<ast, emit_writers, k, maps, work>>

-----------------------------------------------------------------------------
Init ==
    /\ ast \in Specs /\ emit_writers \in BOOLEAN
    /\ at = "scan" /\ k = 1
    /\ definition_order = <<>> /\ error_enum = {} /\ reverse_deps = {}
    /\ todo = {} /\ dependencies = <<>>
    /\ roots = <<>> /\ next = <<>>
    /\ root = 0 /\ notify = {}
    /\ done = <<>>
    /\ result = NoResult

Scan  == ScanStruct \/ RejectStructTwice \/ ScanErrors \/ RejectErrorsTwice \/ EndScan
Check == RejectUnknown \/ RejectErrors \/ Link
Work  == Generate \/ RejectStruct \/ Notify \/ NextLayer \/ RejectCycle \/ PrintStructs

Next == Scan \/ Check \/ Work

Spec == Init /\ [][Next]_vars

FairSpec == Spec /\ WF_vars(Next)    \* one thread, which nothing stops

-----------------------------------------------------------------------------
(* The worklist implements the promise of GenerationOrder.                 *)

Outcome ==
    IF at # "finished" THEN "running"
    ELSE IF result.kind = "ok" THEN "ok"
    ELSE IF result.kind = "DependencyCycle" THEN "cycle"
    ELSE "rejected"

Order == INSTANCE GenerationOrder WITH made <- ToSet(done), outcome <- Outcome

\* The structs are generated once each, after what they refer to, and the call ends
\* in code for all of them or in an error there is a reason for, in every order in
\* which the hash maps may be visited.
ImplementsOrder == Order!Spec

-----------------------------------------------------------------------------
TypeOK ==
    /\ ast \in Specs /\ emit_writers \in BOOLEAN
    /\ at \in {"scan", "link", "generate", "finished"}
    /\ k \in 1 .. Len(ast) + 1
    /\ error_enum \subseteq ErrorDefs(ast)
    /\ reverse_deps \subseteq Nat \X Structs(ast)
    /\ definition_order \in Seq(Structs(ast))
    /\ todo \subseteq Structs(ast) \ ToSet(done)
    /\ dependencies \in [todo \cup ToSet(done) -> SUBSET Nat]
    /\ roots \in Seq(Structs(ast)) /\ next \in Seq(Structs(ast))
    /\ root \in Nat /\ notify \subseteq Structs(ast)
    /\ done \in Seq(Structs(ast)) /\ (at \in {"scan", "link"} => done = <<>>)

\* The bookkeeping that makes the worklist right, kept by every step: what each
\* struct waits for is what it refers to without what is generated (and, until it
\* is told, the struct just generated); the queue holds the structs that wait for
\* nothing, each once; no struct of a cycle is generated.
Scanned == StructDefs(ast) \cap 1 .. k - 1
Told(s) == IF s \in notify THEN ToSet(done) \ {root} ELSE ToSet(done)

Bookkeeping ==
    at # "finished" =>
        /\ \A i, j \in Scanned : ast[i].name = ast[j].name => i = j
        /\ todo \cup ToSet(done) = {ast[j].name : j \in Scanned}
        /\ reverse_deps = UNION {{<<d, ast[j].name>> : d \in ast[j].refs} : j \in Scanned}
        /\ \A j \in Scanned : ast[j].name \in todo =>
              dependencies[ast[j].name] = ast[j].refs \ Told(ast[j].name)
        /\ IsInjective(roots \o next)
        /\ ToSet(roots \o next) = {s \in todo : dependencies[s] = {}}
        /\ \A d \in notify : <<root, d>> \in reverse_deps /\ root \in ToSet(done)
        /\ error_enum = ErrorDefs(ast) \cap 1 .. k - 1
        /\ \A i, j \in error_enum : i = j
        /\ at # "scan" => k = Len(ast) + 1
        /\ at = "generate" => Order!Valid
        /\ at # "generate" => next = <<>> /\ notify = {}
        /\ Stuck(ast) \cap ToSet(done) = {}

\* The worklist loses no struct and repeats none: between two roots, the structs
\* queued are those that wait for nothing that is not generated, each once.
QueueIsExact ==
    at = "generate" /\ notify = {} =>
        /\ IsInjective(roots \o next)
        /\ ToSet(roots \o next) = {s \in todo : RefsOf(ast, s) \subseteq ToSet(done)}

\* A struct is blamed only for what is wrong with itself, never because a struct
\* it refers to was not generated in time.
BlameIsOwn ==
    result.kind = "GenerateStruct" =>
        \A s \in result.names : FailsOf(ast, s) = "GenerateStruct"

\* A cycle is reported exactly when there is one, whatever the order of the hash
\* maps, with all the structs that cannot be generated.
CycleVerdict ==
    /\ result.kind = "DependencyCycle" => result.names = Stuck(ast) /\ Stuck(ast) # {}
    /\ result.kind = "ok" => Stuck(ast) = {}

\* The code comes out in the order of the definitions, nothing missing, however
\* the hash maps ordered the work (the test generation_is_deterministic).
OutputInOrder ==
    result.kind = "ok" =>
        /\ Len(result.output) = Cardinality(StructDefs(ast))
        /\ \A i, j \in DOMAIN result.output :
              i < j => DefOf(ast, result.output[i]) < DefOf(ast, result.output[j])

\* "dependency cycle among structs: ..." lists structs of a cycle.
CycleNamesItsMembers ==
    result.kind = "DependencyCycle" => \A s \in result.names : OnCycle(ast, s)

\* The generator comes to an end, with code or an error.
AlwaysAnswers == <>(at = "finished")

=============================================================================
