------------------------- MODULE CodegenOrderProofs -------------------------
(***************************************************************************)
(* Proofs about CodegenOrder: its bookkeeping is inductive, so the worklist *)
(* holds exactly what is ready, cycle errors are right, and the generator   *)
(* implements GenerationOrder.                                             *)
(***************************************************************************)
EXTENDS CodegenOrder, Integers, WellFoundedInduction, SequenceTheorems, FiniteSetTheorems, TLAPS

\* Induction over the natural numbers, from the well-foundedness of <.
LEMMA LeastOf ==
    ASSUME NEW T, T \subseteq Nat, T # {}
    PROVE  \E x \in T : \A y \in T : x <= y
<1>1. \E x \in T : \A y \in T : ~ (<<y, x>> \in OpToRel(<, Nat))
  BY WFMin, NatLessThanWellFounded, Zenon
<1>2. ASSUME NEW x \in T, NEW y \in T, ~ (<<y, x>> \in OpToRel(<, Nat)) PROVE x <= y
  BY <1>2 DEF OpToRel
<1> QED
  BY <1>1, <1>2

LEMMA Induct ==
    ASSUME NEW P \in SUBSET Nat, 0 \in P, \A n \in P : n + 1 \in P
    PROVE  P = Nat
<1> SUFFICES ASSUME P # Nat PROVE FALSE
  OBVIOUS
<1>1. Nat \ P # {} /\ Nat \ P \subseteq Nat
  OBVIOUS
<1>2. PICK n \in Nat \ P : \A m \in Nat \ P : n <= m
  BY <1>1, LeastOf
<1>3. n - 1 \in Nat /\ ~(n <= n - 1)
  BY <1>2
<1> QED
  BY <1>2, <1>3

-----------------------------------------------------------------------------
(* Queues: sequences in which nothing occurs twice.                        *)

LEMMA Push ==
    ASSUME NEW S, NEW q \in Seq(S), NEW x
    PROVE  /\ x \in S => Append(q, x) \in Seq(S)
           /\ ToSet(Append(q, x)) = ToSet(q) \cup {x}
           /\ IsInjective(q) /\ x \notin ToSet(q) => IsInjective(Append(q, x))
<1>1. /\ DOMAIN q = 1 .. Len(q) /\ Len(q) \in Nat
      /\ DOMAIN Append(q, x) = 1 .. Len(q) + 1
      /\ \A i \in 1 .. Len(q) : Append(q, x)[i] = q[i]
      /\ Append(q, x)[Len(q) + 1] = x
  OBVIOUS
<1>2. 1 .. Len(q) + 1 = (1 .. Len(q)) \cup {Len(q) + 1} /\ Len(q) + 1 \notin 1 .. Len(q)
  BY <1>1
<1>3. ToSet(Append(q, x)) = ToSet(q) \cup {x}
  BY <1>1, <1>2 DEF ToSet
<1>4. ASSUME IsInjective(q), x \notin ToSet(q) PROVE IsInjective(Append(q, x))
  BY <1>1, <1>2, <1>4 DEF IsInjective, ToSet
<1> QED
  BY <1>3, <1>4

LEMMA Pop ==
    ASSUME NEW S, NEW q \in Seq(S), q # <<>>
    PROVE  /\ Head(q) \in ToSet(q) /\ Head(q) \in S
           /\ Tail(q) \in Seq(S) /\ ToSet(Tail(q)) \subseteq ToSet(q)
           /\ IsInjective(q) => /\ IsInjective(Tail(q))
                                /\ ToSet(Tail(q)) = ToSet(q) \ {Head(q)}
<1>1. /\ Len(q) \in Nat \ {0} /\ DOMAIN q = 1 .. Len(q)
      /\ Tail(q) \in Seq(S) /\ DOMAIN Tail(q) = 1 .. Len(q) - 1
      /\ \A i \in 1 .. Len(q) - 1 : Tail(q)[i] = q[i + 1]
      /\ Head(q) = q[1]
  BY HeadTailProperties
<1>2. Head(q) \in ToSet(q) /\ Head(q) \in S
  BY <1>1 DEF ToSet
<1>3. ToSet(Tail(q)) \subseteq ToSet(q)
  BY <1>1 DEF ToSet
<1>4. ASSUME IsInjective(q)
      PROVE  IsInjective(Tail(q)) /\ ToSet(Tail(q)) = ToSet(q) \ {Head(q)}
  <2>1. IsInjective(Tail(q))
    BY <1>1, <1>4 DEF IsInjective
  <2>2. Head(q) \notin ToSet(Tail(q))
    BY <1>1, <1>4 DEF IsInjective, ToSet
  <2>3. ASSUME NEW x \in ToSet(q), x # Head(q) PROVE x \in ToSet(Tail(q))
    <3>1. PICK i \in 1 .. Len(q) : q[i] = x
      BY <1>1 DEF ToSet
    <3>2. i - 1 \in 1 .. Len(q) - 1 /\ Tail(q)[i - 1] = x
      BY <1>1, <2>3, <3>1
    <3> QED
      BY <1>1, <3>2 DEF ToSet
  <2> QED
    BY <1>3, <2>1, <2>2, <2>3
<1> QED
  BY <1>1, <1>2, <1>3, <1>4

\* The two layers are one queue: pushed at the end of the second, popped at the
\* head of the first.
LEMMA TwoLayers ==
    ASSUME NEW S, NEW q \in Seq(S), NEW r \in Seq(S)
    PROVE  /\ q \o r \in Seq(S)
           /\ \A x \in S : q \o Append(r, x) = Append(q \o r, x)
           /\ q \o <<>> = q /\ <<>> \o q = q
           /\ q # <<>> => /\ q \o r # <<>> /\ Head(q \o r) = Head(q)
                          /\ Tail(q \o r) = Tail(q) \o r
<1>1. q \o r \in Seq(S) /\ q \o <<>> = q /\ <<>> \o q = q
  BY ConcatProperties, ConcatEmptySeq
<1>2. ASSUME NEW x \in S PROVE q \o Append(r, x) = Append(q \o r, x)
  <2>1. q \o Append(r, x) \in Seq(S) /\ Append(q \o r, x) \in Seq(S)
    OBVIOUS
  <2>2. Len(q \o Append(r, x)) = Len(Append(q \o r, x))
    OBVIOUS
  <2>3. \A i \in 1 .. Len(q) + Len(r) + 1 : (q \o Append(r, x))[i] = Append(q \o r, x)[i]
    OBVIOUS
  <2> QED
    BY <2>1, <2>2, <2>3, SeqEqual
<1>3. ASSUME q # <<>>
      PROVE  q \o r # <<>> /\ Head(q \o r) = Head(q) /\ Tail(q \o r) = Tail(q) \o r
  <2>1. Len(q) \in Nat \ {0} /\ Len(r) \in Nat
    BY <1>3
  <2>2. q \o r # <<>> /\ Head(q \o r) = Head(q)
    BY <1>1, <2>1
  <2>3. Tail(q \o r) \in Seq(S) /\ Tail(q) \in Seq(S) /\ Tail(q) \o r \in Seq(S)
    BY <1>1, <1>3, <2>2, HeadTailProperties
  <2>4. Len(Tail(q \o r)) = Len(q) + Len(r) - 1 /\ Len(Tail(q) \o r) = Len(q) + Len(r) - 1
    BY <1>1, <1>3, <2>1, <2>2, <2>3, HeadTailProperties, ConcatProperties
  <2>5. ASSUME NEW i \in 1 .. Len(q) + Len(r) - 1 PROVE Tail(q \o r)[i] = (Tail(q) \o r)[i]
    <3>1. Tail(q \o r)[i] = (q \o r)[i + 1]
      BY <1>1, <2>2, <2>4, HeadTailProperties
    <3>2. CASE i < Len(q)
      BY <1>3, <2>1, <2>3, <3>1, <3>2, HeadTailProperties
    <3>3. CASE i >= Len(q)
      <4>1. (q \o r)[i + 1] = r[i + 1 - Len(q)]
        BY <2>1, <3>3
      <4>2. (Tail(q) \o r)[i] = r[i - Len(Tail(q))] /\ Len(Tail(q)) = Len(q) - 1
        BY <1>3, <2>1, <2>3, <3>3, HeadTailProperties
      <4> QED
        BY <2>1, <3>1, <4>1, <4>2
    <3> QED
      BY <2>1, <3>2, <3>3
  <2> QED
    BY <2>2, <2>3, <2>4, <2>5, SeqEqual
<1> QED
  BY <1>1, <1>2, <1>3

-----------------------------------------------------------------------------
(* Types.                                                                  *)

LEMMA AstShape ==
    ASSUME ast \in Specs
    PROVE  /\ Len(ast) \in Nat /\ DOMAIN ast = 1 .. Len(ast)
           /\ Structs(ast) \subseteq Nat
           /\ \A j \in StructDefs(ast) : /\ j \in 1 .. Len(ast)
                                         /\ ast[j].name \in Structs(ast)
                                         /\ ast[j].refs \in SUBSET Nat
           /\ \A j \in 1 .. Len(ast) : j \in StructDefs(ast) \/ j \in ErrorDefs(ast)
<1>1. ast \in Seq(Struct \cup Errors)
  BY SpecsAssumption DEF Asts
<1>2. Len(ast) \in Nat /\ DOMAIN ast = 1 .. Len(ast)
      /\ \A j \in 1 .. Len(ast) : ast[j] \in Struct \cup Errors
  BY <1>1
<1>3. \A j \in StructDefs(ast) : j \in 1 .. Len(ast) /\ ast[j] \in Struct
  BY <1>2 DEF StructDefs, Struct, Errors
<1>4. \A j \in StructDefs(ast) : ast[j].name \in Nat /\ ast[j].refs \in SUBSET Nat
  BY <1>3 DEF Struct
<1>5. \A j \in 1 .. Len(ast) : j \in StructDefs(ast) \/ j \in ErrorDefs(ast)
  BY <1>2 DEF StructDefs, ErrorDefs, Struct, Errors
<1> QED
  BY <1>2, <1>3, <1>4, <1>5 DEF Structs

LEMMA TypeStep == TypeOK /\ [Next]_vars => TypeOK'
<1> SUFFICES ASSUME TypeOK, [Next]_vars PROVE TypeOK'
  OBVIOUS
<1>1. /\ ast \in Specs /\ k \in 1 .. Len(ast) + 1 /\ Len(ast) \in Nat
      /\ Structs(ast) \subseteq Nat /\ DOMAIN ast = 1 .. Len(ast)
      /\ roots \in Seq(Structs(ast)) /\ next \in Seq(Structs(ast))
      /\ done \in Seq(Structs(ast))
  BY AstShape DEF TypeOK
<1>2. ASSUME NEW kind, NEW names, Fail(kind, names) PROVE TypeOK'
  BY <1>2 DEF Fail, Finished, TypeOK, maps, work
<1>3. CASE ScanStruct
  <2>1. /\ ast[k].name \notin todo
        /\ definition_order' = Append(definition_order, ast[k].name)
        /\ roots' = IF ast[k].refs = {} THEN Append(roots, ast[k].name) ELSE roots
        /\ reverse_deps' = reverse_deps \cup {<<d, ast[k].name>> : d \in ast[k].refs}
        /\ todo' = todo \cup {ast[k].name}
        /\ dependencies' = [t \in todo' |-> IF t = ast[k].name THEN ast[k].refs ELSE dependencies[t]]
        /\ k' = k + 1 /\ at = "scan"
        /\ UNCHANGED <<ast, emit_writers, at, error_enum, next, root, notify, done, result>>
    BY <1>3 DEF ScanStruct, Scanning
  <2>2. k \in StructDefs(ast) /\ k' \in 1 .. Len(ast) + 1
    BY <1>1, <1>3 DEF ScanStruct, Scanning, StructDefs
  <2>3. ast[k].name \in Structs(ast) /\ ast[k].refs \in SUBSET Nat
    BY <1>1, <2>2, AstShape
  <2>4. definition_order' \in Seq(Structs(ast)) /\ roots' \in Seq(Structs(ast))
    BY <1>1, <2>1, <2>3, Push DEF TypeOK
  <2>5. reverse_deps' \subseteq Nat \X Structs(ast)
    BY <2>1, <2>3 DEF TypeOK
  <2>6. todo' \subseteq Structs(ast) \ ToSet(done')
    <3>1. done' = <<>> /\ ToSet(done') = {}
      BY <2>1 DEF TypeOK, ToSet
    <3> QED
      BY <2>1, <2>3, <3>1 DEF TypeOK
  <2>7. dependencies' \in [todo' \cup ToSet(done') -> SUBSET Nat]
    <3>1. todo \cup ToSet(done) = todo /\ todo' \cup ToSet(done') = todo'
      BY <2>1 DEF TypeOK, ToSet
    <3>2. \A t \in todo : dependencies[t] \in SUBSET Nat
      BY <3>1 DEF TypeOK
    <3> QED
      BY <2>1, <2>3, <3>1, <3>2
  <2> QED
    BY <1>1, <2>1, <2>2, <2>4, <2>5, <2>6, <2>7 DEF TypeOK
<1>4. CASE RejectStructTwice
  BY <1>2, <1>4 DEF RejectStructTwice
<1>5. CASE ScanErrors
  <2>1. k \in ErrorDefs(ast) /\ k' \in 1 .. Len(ast) + 1
    BY <1>1, <1>5 DEF ScanErrors, Scanning, ErrorDefs
  <2> QED
    BY <1>5, <2>1 DEF ScanErrors, TypeOK, work
<1>6. CASE RejectErrorsTwice
  BY <1>2, <1>6 DEF RejectErrorsTwice
<1>7. CASE EndScan
  BY <1>7 DEF EndScan, TypeOK, maps, work
<1>8. CASE RejectUnknown
  BY <1>2, <1>8 DEF RejectUnknown
<1>9. CASE RejectErrors
  BY <1>2, <1>9 DEF RejectErrors
<1>10. CASE Link
  BY <1>10 DEF Link, TypeOK, maps, work
<1>11. CASE Generate
  <2>1. /\ Head(roots) \in Structs(ast) /\ roots' \in Seq(Structs(ast))
    BY <1>1, <1>11, Pop DEF Generate, AtRoot
  <2>2. CASE Head(roots) \in todo
    <3>1. /\ todo' = todo \ {Head(roots)} /\ root' = Head(roots)
          /\ done' = Append(done, Head(roots))
          /\ notify' = {p[2] : p \in {q \in reverse_deps : q[1] = root'}}
          /\ UNCHANGED <<ast, emit_writers, at, k, maps, dependencies, next, result>>
          /\ at = "generate"
      BY <1>11, <2>2 DEF Generate, AtRoot
    <3>2. done' \in Seq(Structs(ast)) /\ ToSet(done') = ToSet(done) \cup {Head(roots)}
      BY <1>1, <2>1, <3>1, Push
    <3>3. notify' \subseteq Structs(ast)
      BY <3>1 DEF TypeOK
    <3>4. todo' \cup ToSet(done') = todo \cup ToSet(done)
      BY <2>2, <3>1, <3>2
    <3> QED
      BY <1>1, <2>1, <3>1, <3>2, <3>3, <3>4 DEF TypeOK, maps
  <2>3. CASE Head(roots) \notin todo
    BY <1>11, <2>1, <2>3 DEF Generate, TypeOK, maps
  <2> QED
    BY <2>2, <2>3
<1>12. CASE RejectStruct
  BY <1>2, <1>12 DEF RejectStruct
<1>13. CASE Notify
  <2>1. PICK d \in notify :
          /\ notify' = notify \ {d}
          /\ IF d \in todo
             THEN /\ dependencies' = [dependencies EXCEPT ![d] = @ \ {root}]
                  /\ next' = IF dependencies'[d] = {} THEN Append(next, d) ELSE next
             ELSE UNCHANGED <<dependencies, next>>
          /\ UNCHANGED <<ast, emit_writers, at, k, maps, todo, roots, root, done, result>>
    BY <1>13 DEF Notify
  <2>2. d \in Structs(ast)
    BY DEF TypeOK
  <2>3. next' \in Seq(Structs(ast))
    <3>1. next' = next \/ next' = Append(next, d)
      BY <2>1
    <3> QED
      <4>1. Append(next, d) \in Seq(Structs(ast))
        BY <1>1, <2>2
      <4> QED
        BY <1>1, <3>1, <4>1
  <2>4. dependencies' \in [todo \cup ToSet(done) -> SUBSET Nat]
    BY <2>1 DEF TypeOK
  <2> QED
    BY <2>1, <2>3, <2>4 DEF TypeOK, maps
<1>14. CASE NextLayer
  BY <1>14 DEF NextLayer, TypeOK, maps
<1>15. CASE RejectCycle
  BY <1>2, <1>15 DEF RejectCycle
<1>16. CASE PrintStructs
  BY <1>16 DEF PrintStructs, Finished, TypeOK, maps, work
<1>17. CASE UNCHANGED vars
  BY <1>17 DEF vars, TypeOK, maps, work
<1> QED
  BY <1>3, <1>4, <1>5, <1>6, <1>7, <1>8, <1>9, <1>10, <1>11, <1>12, <1>13, <1>14,
     <1>15, <1>16, <1>17 DEF Next, Scan, Check, Work

\* The maps and the queues of the generator only ever hold structs of the
\* specification, and no struct is both to do and done.
THEOREM CodegenTypeCorrect == Spec => []TypeOK
<1>1. Init => TypeOK
  <2> SUFFICES ASSUME Init PROVE TypeOK
    OBVIOUS
  <2>1. Len(ast) \in Nat
    BY AstShape DEF Init
  <2>2. \A S : <<>> \in Seq(S)
    OBVIOUS
  <2>3. ToSet(<<>>) = {} /\ <<>> \in [{} -> SUBSET Nat]
    BY DEF ToSet
  <2> QED
    BY <2>1, <2>2, <2>3 DEF Init, TypeOK
<1> QED
  BY <1>1, TypeStep, PTL DEF Spec

-----------------------------------------------------------------------------
(* The bookkeeping.                                                        *)

\* Named parts of Bookkeeping.
NamesDiffer  == \A i, j \in Scanned : ast[i].name = ast[j].name => i = j
AllAreThere  == todo \cup ToSet(done) = {ast[j].name : j \in Scanned}
ReverseRight      == UNION {{<<d, ast[j].name>> : d \in ast[j].refs} : j \in Scanned}
WaitsRight   == \A j \in Scanned : ast[j].name \in todo =>
                    dependencies[ast[j].name] = ast[j].refs \ Told(ast[j].name)
QueueRight   == /\ IsInjective(roots \o next)
                /\ ToSet(roots \o next) = {s \in todo : dependencies[s] = {}}
NotifyRight  == \A d \in notify : <<root, d>> \in reverse_deps /\ root \in ToSet(done)
ErrorsRight  == /\ error_enum = ErrorDefs(ast) \cap 1 .. k - 1
                /\ \A i, j \in error_enum : i = j
PhaseRight   == /\ at # "scan" => k = Len(ast) + 1
                /\ at = "generate" => Order!Valid
                /\ at # "generate" => next = <<>> /\ notify = {}
NoneStuck    == Stuck(ast) \cap ToSet(done) = {}

LEMMA BookkeepingParts ==
    Bookkeeping <=>
        (at # "finished" =>
            /\ NamesDiffer /\ AllAreThere /\ reverse_deps = ReverseRight /\ WaitsRight
            /\ QueueRight /\ NotifyRight /\ ErrorsRight /\ PhaseRight /\ NoneStuck)
BY DEF Bookkeeping, NamesDiffer, AllAreThere, ReverseRight, WaitsRight, QueueRight, NotifyRight,
       ErrorsRight, PhaseRight, NoneStuck

LEMMA PartsNext ==
    ASSUME NamesDiffer', AllAreThere', reverse_deps' = ReverseRight', WaitsRight', QueueRight',
           NotifyRight', ErrorsRight', PhaseRight', NoneStuck'
    PROVE  Bookkeeping'
BY DEF Bookkeeping, NamesDiffer, AllAreThere, ReverseRight, WaitsRight, QueueRight, NotifyRight,
       ErrorsRight, PhaseRight, NoneStuck

\* GenerationOrder reads the definitions as CodegenOrder does.
LEMMA SameDefinitions ==
    /\ Order!StructDefs(ast) = StructDefs(ast) /\ Order!ErrorDefs(ast) = ErrorDefs(ast)
    /\ Order!Structs(ast) = Structs(ast)
    /\ \A s : Order!RefsOf(ast, s) = RefsOf(ast, s) /\ Order!FailsOf(ast, s) = FailsOf(ast, s)
<1>1. Order!StructDefs(ast) = StructDefs(ast) /\ Order!ErrorDefs(ast) = ErrorDefs(ast)
  BY DEF Order!StructDefs, StructDefs, Order!ErrorDefs, ErrorDefs
<1>2. \A s : Order!DefOf(ast, s) = DefOf(ast, s)
  BY <1>1 DEF Order!DefOf, DefOf
<1> QED
  BY <1>1, <1>2 DEF Order!Structs, Structs, Order!RefsOf, RefsOf, Order!FailsOf, FailsOf

LEMMA ValidMeans ==
    Order!Valid <=>
        /\ \A i, j \in StructDefs(ast) : ast[i].name = ast[j].name => i = j
        /\ \A i, j \in ErrorDefs(ast) : i = j
        /\ \A j \in StructDefs(ast) : ast[j].refs \subseteq Structs(ast)
        /\ ErrorDefs(ast) # {} => ErrorName \notin Structs(ast)
        /\ \A j \in ErrorDefs(ast) : ast[j].fails = "none"
BY SameDefinitions DEF Order!Valid

\* In a valid specification a struct has one definition.
LEMMA OneDefinition ==
    ASSUME ast \in Specs, Order!Valid, NEW j \in StructDefs(ast)
    PROVE  DefOf(ast, ast[j].name) = j /\ RefsOf(ast, ast[j].name) = ast[j].refs
           /\ FailsOf(ast, ast[j].name) = ast[j].fails
<1>1. \A i \in StructDefs(ast) : ast[i].name = ast[j].name <=> i = j
  BY ValidMeans
<1>2. DefOf(ast, ast[j].name) = j
  BY <1>1 DEF DefOf
<1> QED
  BY <1>2 DEF RefsOf, FailsOf

\* When the scan is over it has seen every definition.
LEMMA AllScanned ==
    ASSUME TypeOK, Bookkeeping, at \in {"link", "generate"}
    PROVE  /\ Scanned = StructDefs(ast) /\ todo \cup ToSet(done) = Structs(ast)
           /\ error_enum = ErrorDefs(ast)
<1>1. k = Len(ast) + 1 /\ AllAreThere /\ error_enum = ErrorDefs(ast) \cap 1 .. k - 1
  BY BookkeepingParts DEF PhaseRight, ErrorsRight
<1>2. StructDefs(ast) \subseteq 1 .. k - 1 /\ ErrorDefs(ast) \subseteq 1 .. k - 1
  BY <1>1, AstShape DEF TypeOK, StructDefs, ErrorDefs
<1> QED
  BY <1>1, <1>2 DEF Scanned, AllAreThere, Structs

\* What a queued struct refers to is generated, once nobody is left to notify.
LEMMA QueuedIsReady ==
    ASSUME TypeOK, Bookkeeping, at = "generate", notify = {}, NEW s \in todo
    PROVE  dependencies[s] = RefsOf(ast, s) \ ToSet(done) /\ RefsOf(ast, s) \subseteq Structs(ast)
<1>1. WaitsRight /\ AllAreThere /\ Order!Valid
  BY BookkeepingParts DEF PhaseRight
<1>2. PICK j \in Scanned : ast[j].name = s
  BY <1>1 DEF AllAreThere
<1>3. j \in StructDefs(ast) /\ RefsOf(ast, s) = ast[j].refs
  BY <1>1, <1>2, OneDefinition DEF Scanned, TypeOK
<1>4. dependencies[s] = ast[j].refs \ ToSet(done)
  BY <1>1, <1>2 DEF WaitsRight, Told
<1>5. ast[j].refs \subseteq Structs(ast)
  BY <1>1, <1>3, ValidMeans
<1> QED
  BY <1>3, <1>4, <1>5

LEMMA RootIsReady ==
    ASSUME TypeOK, Bookkeeping, AtRoot
    PROVE  Head(roots) \in todo /\ RefsOf(ast, Head(roots)) \subseteq ToSet(done)
<1>1. QueueRight /\ roots \in Seq(Structs(ast)) /\ next \in Seq(Structs(ast))
  BY BookkeepingParts DEF AtRoot, TypeOK
<1>2. roots \o next \in Seq(Structs(ast)) /\ roots \o next # <<>> /\ Head(roots \o next) = Head(roots)
  BY <1>1, TwoLayers DEF AtRoot
<1>3. Head(roots) \in ToSet(roots \o next)
  BY <1>2, Pop
<1>4. Head(roots) \in todo /\ dependencies[Head(roots)] = {}
  BY <1>1, <1>3 DEF QueueRight
<1> QED
  BY <1>4, QueuedIsReady DEF AtRoot

\* A struct whose references are all generated is not stuck.
LEMMA ReadyIsNotStuck ==
    ASSUME NEW s, NEW S, RefsOf(ast, s) \subseteq S, Stuck(ast) \cap S = {}
    PROVE  s \notin Stuck(ast)
BY DEF Stuck

\* A scanned struct joins the maps, and the roots if it refers to nothing.
LEMMA BookScanStruct ==
    ASSUME TypeOK, Bookkeeping, ScanStruct
    PROVE  Bookkeeping'
<1> DEFINE s == ast[k].name
           refs == ast[k].refs
<1>1. /\ s \notin todo /\ at = "scan" /\ at' = "scan"
      /\ roots' = IF refs = {} THEN Append(roots, s) ELSE roots
      /\ reverse_deps' = reverse_deps \cup {<<d, s>> : d \in refs}
      /\ todo' = todo \cup {s}
      /\ dependencies' = [t \in todo' |-> IF t = s THEN refs ELSE dependencies[t]]
      /\ k' = k + 1
      /\ UNCHANGED <<ast, emit_writers, at, error_enum, next, root, notify, done, result>>
  BY DEF ScanStruct, Scanning
<1>2. /\ NamesDiffer /\ AllAreThere /\ reverse_deps = ReverseRight /\ WaitsRight
      /\ QueueRight /\ ErrorsRight /\ next = <<>> /\ notify = {} /\ done = <<>>
  BY <1>1, BookkeepingParts DEF PhaseRight, TypeOK
<1>3. ToSet(done) = {} /\ ToSet(done') = {}
  BY <1>1, <1>2 DEF ToSet
<1>4. k \in StructDefs(ast) /\ k \notin ErrorDefs(ast) /\ k \in Nat \ {0} /\ k \notin Scanned
  <2>1. k \in 1 .. Len(ast) /\ ast[k].kind = "struct"
    BY AstShape DEF TypeOK, ScanStruct, Scanning
  <2> QED
    BY <2>1, AstShape DEF TypeOK, StructDefs, ErrorDefs, Scanned
<1>5. Scanned' = Scanned \cup {k}
  <2>1. 1 .. k' - 1 = (1 .. k - 1) \cup {k}
    BY <1>1, <1>4
  <2>2. StructDefs(ast') = StructDefs(ast)
    BY <1>1
  <2> QED
    BY <1>4, <2>1, <2>2 DEF Scanned
<1>6. \A j \in Scanned : ast[j].name \in todo /\ ast[j].name # s
  BY <1>1, <1>2, <1>3 DEF AllAreThere
<1>7. NamesDiffer'
  BY <1>1, <1>2, <1>5, <1>6 DEF NamesDiffer
<1>8. AllAreThere'
  BY <1>1, <1>2, <1>3, <1>5 DEF AllAreThere
<1>9. reverse_deps' = ReverseRight'
  <2>1. ReverseRight' = ReverseRight \cup {<<d, s>> : d \in refs}
    BY <1>1, <1>5 DEF ReverseRight
  <2> QED
    BY <1>1, <1>2, <2>1
<1>10. WaitsRight'
  <2>1. \A j \in Scanned' : Told(ast[j].name)' = {}
    BY <1>1, <1>2, <1>3 DEF Told
  <2>2. ASSUME NEW j \in Scanned' PROVE dependencies'[ast[j].name] = ast[j].refs
    <3>1. CASE j = k
      BY <1>1, <3>1
    <3>2. CASE j \in Scanned
      <4>1. dependencies'[ast[j].name] = dependencies[ast[j].name]
        BY <1>1, <1>6, <3>2
      <4> QED
        BY <1>2, <1>3, <1>6, <3>2, <4>1 DEF WaitsRight, Told
    <3> QED
      BY <1>5, <3>1, <3>2
  <2> QED
    BY <1>1, <2>1, <2>2 DEF WaitsRight
<1>11. QueueRight'
  <2>1. /\ roots \in Seq(Structs(ast)) /\ next \in Seq(Structs(ast))
        /\ roots' \in Seq(Structs(ast)) /\ roots \o next = roots /\ roots' \o next' = roots'
    <3>1. s \in Structs(ast)
      BY <1>4, AstShape DEF TypeOK
    <3>2. roots' \in Seq(Structs(ast))
      BY <1>1, <3>1 DEF TypeOK
    <3> QED
      BY <1>1, <1>2, <3>2, TwoLayers DEF TypeOK
  <2>2. s \notin ToSet(roots)
    BY <1>1, <1>2, <2>1 DEF QueueRight
  <2>3. {t \in todo' : dependencies'[t] = {}} =
          {t \in todo : dependencies[t] = {}} \cup (IF refs = {} THEN {s} ELSE {})
    BY <1>1
  <2>4. CASE refs = {}
    <3>1. IsInjective(roots') /\ ToSet(roots') = ToSet(roots) \cup {s}
      BY <1>1, <1>2, <2>1, <2>2, <2>4, Push DEF QueueRight
    <3> QED
      BY <1>2, <2>1, <2>3, <2>4, <3>1 DEF QueueRight
  <2>5. CASE refs # {}
    BY <1>1, <1>2, <2>1, <2>3, <2>5 DEF QueueRight
  <2> QED
    BY <2>4, <2>5
<1>12. ErrorsRight'
  <2>1. ErrorDefs(ast) \cap 1 .. k' - 1 = ErrorDefs(ast) \cap 1 .. k - 1
    BY <1>1, <1>4
  <2> QED
    BY <1>1, <1>2, <2>1 DEF ErrorsRight
<1>13. NotifyRight' /\ PhaseRight' /\ NoneStuck'
  BY <1>1, <1>2, <1>3 DEF NotifyRight, PhaseRight, NoneStuck
<1> QED
  BY <1>7, <1>8, <1>9, <1>10, <1>11, <1>12, <1>13, PartsNext

\* The maps and the worklist stay as they are when only the phase changes.
LEMMA BookPhase ==
    ASSUME TypeOK, Bookkeeping, at # "finished", PhaseRight',
           UNCHANGED <<ast, emit_writers, k, maps, work, result>>
    PROVE  Bookkeeping'
<1>1. /\ NamesDiffer /\ AllAreThere /\ reverse_deps = ReverseRight /\ WaitsRight
      /\ QueueRight /\ NotifyRight /\ ErrorsRight /\ NoneStuck
  BY BookkeepingParts
<1>2. Scanned' = Scanned /\ \A t : Told(t)' = Told(t)
  BY DEF Scanned, Told, work
<1>3. NamesDiffer' /\ AllAreThere' /\ reverse_deps' = ReverseRight' /\ WaitsRight'
  BY <1>1, <1>2 DEF NamesDiffer, AllAreThere, ReverseRight, WaitsRight, work, maps
<1>4. QueueRight' /\ NotifyRight' /\ ErrorsRight' /\ NoneStuck'
  BY <1>1, <1>2 DEF QueueRight, NotifyRight, ErrorsRight, NoneStuck, work, maps
<1> QED
  BY <1>3, <1>4, PartsNext

LEMMA BookScanErrors ==
    ASSUME TypeOK, Bookkeeping, ScanErrors
    PROVE  Bookkeeping'
<1>1. /\ at = "scan" /\ at' = "scan" /\ error_enum = {} /\ error_enum' = {k} /\ k' = k + 1
      /\ UNCHANGED <<ast, definition_order, reverse_deps, todo, dependencies, roots, next,
                     root, notify, done>>
  BY DEF ScanErrors, Scanning, work
<1>2. /\ NamesDiffer /\ AllAreThere /\ reverse_deps = ReverseRight /\ WaitsRight
      /\ QueueRight /\ NotifyRight /\ ErrorsRight /\ PhaseRight /\ NoneStuck
  BY <1>1, BookkeepingParts
<1>3. k \in ErrorDefs(ast) /\ k \notin StructDefs(ast) /\ k \in Nat \ {0}
  <2>1. k \in 1 .. Len(ast) /\ ast[k].kind = "errors"
    BY AstShape DEF TypeOK, ScanErrors, Scanning
  <2> QED
    BY <2>1, AstShape DEF TypeOK, StructDefs, ErrorDefs
<1>4. 1 .. k' - 1 = (1 .. k - 1) \cup {k}
  BY <1>1, <1>3
<1>5. Scanned' = Scanned /\ \A t : Told(t)' = Told(t)
  BY <1>1, <1>3, <1>4 DEF Scanned, Told
<1>6. NamesDiffer' /\ AllAreThere' /\ reverse_deps' = ReverseRight' /\ WaitsRight'
  BY <1>1, <1>2, <1>5 DEF NamesDiffer, AllAreThere, ReverseRight, WaitsRight
<1>7. ErrorsRight'
  BY <1>1, <1>2, <1>3, <1>4 DEF ErrorsRight
<1>8. QueueRight' /\ NotifyRight' /\ PhaseRight' /\ NoneStuck'
  BY <1>1, <1>2 DEF QueueRight, NotifyRight, PhaseRight, NoneStuck
<1> QED
  BY <1>6, <1>7, <1>8, PartsNext

\* With the error block sound and every reference known, the definitions are valid.
LEMMA BookLink ==
    ASSUME TypeOK, Bookkeeping, Link
    PROVE  Bookkeeping'
<1>1. /\ at = "link" /\ at' = "generate" /\ Unknown = {}
      /\ error_enum # {} => ErrorName \notin todo
      /\ \A e \in error_enum : ast[e].fails = "none"
      /\ UNCHANGED <<ast, emit_writers, k, maps, work, result>>
  BY DEF Link
<1>2. /\ NamesDiffer /\ reverse_deps = ReverseRight /\ ErrorsRight /\ PhaseRight
      /\ Scanned = StructDefs(ast) /\ error_enum = ErrorDefs(ast)
  BY <1>1, BookkeepingParts, AllScanned
<1>3. todo = Structs(ast)
  <2>1. done = <<>> /\ ToSet(done) = {}
    BY <1>1 DEF TypeOK, ToSet
  <2> QED
    BY <1>1, <2>1, AllScanned
<1>4. ASSUME NEW j \in StructDefs(ast), NEW d \in ast[j].refs PROVE d \in Structs(ast)
  <2>1. <<d, ast[j].name>> \in reverse_deps
    BY <1>2, <1>4 DEF ReverseRight
  <2> QED
    BY <1>1, <1>3, <2>1 DEF Unknown
<1>5. Order!Valid
  BY <1>1, <1>2, <1>3, <1>4, ValidMeans DEF NamesDiffer, ErrorsRight
<1>6. Order!Valid'
  BY <1>1, <1>5 DEF Order!Valid, Order!Structs, Order!StructDefs, Order!ErrorDefs
<1>7. PhaseRight'
  BY <1>1, <1>2, <1>6 DEF PhaseRight
<1> QED
  BY <1>1, <1>7, BookPhase

LEMMA BookGenerate ==
    ASSUME TypeOK, Bookkeeping, Generate
    PROVE  Bookkeeping'
<1> DEFINE s == Head(roots)
<1>1. s \in todo /\ RefsOf(ast, s) \subseteq ToSet(done)
  BY RootIsReady DEF Generate
<1>2. /\ at = "generate" /\ at' = "generate" /\ notify = {} /\ roots # <<>>
      /\ roots' = Tail(roots) /\ todo' = todo \ {s} /\ root' = s /\ done' = Append(done, s)
      /\ notify' = {p[2] : p \in {q \in reverse_deps : q[1] = s}}
      /\ UNCHANGED <<ast, emit_writers, k, definition_order, error_enum, reverse_deps,
                     dependencies, next>>
  BY <1>1 DEF Generate, AtRoot, maps
<1>3. /\ NamesDiffer /\ AllAreThere /\ reverse_deps = ReverseRight /\ WaitsRight
      /\ QueueRight /\ ErrorsRight /\ PhaseRight /\ NoneStuck
  BY <1>2, BookkeepingParts
<1>4. /\ ToSet(done') = ToSet(done) \cup {s} /\ s \notin ToSet(done)
  BY <1>1, <1>2, Push DEF TypeOK
<1>5. Scanned' = Scanned
  BY <1>2 DEF Scanned
<1>6. ASSUME NEW t PROVE t \in notify' <=> <<s, t>> \in reverse_deps
  <2>1. \A p \in reverse_deps : p = <<p[1], p[2]>>
    BY DEF TypeOK
  <2> QED
    BY <1>2, <2>1
<1>7. AllAreThere'
  <2>1. todo' \cup ToSet(done') = todo \cup ToSet(done)
    BY <1>1, <1>2, <1>4
  <2> QED
    BY <1>2, <1>3, <1>5, <2>1 DEF AllAreThere
<1>8. WaitsRight'
  <2> SUFFICES ASSUME NEW j \in Scanned, ast[j].name \in todo'
               PROVE  dependencies[ast[j].name] = ast[j].refs \ Told(ast[j].name)'
    BY <1>2, <1>5 DEF WaitsRight
  <2>1. dependencies[ast[j].name] = ast[j].refs \ ToSet(done)
    BY <1>2, <1>3 DEF WaitsRight, Told
  <2>2. CASE ast[j].name \in notify'
    <3>1. Told(ast[j].name)' = ToSet(done)
      BY <1>2, <1>4, <2>2 DEF Told
    <3> QED
      BY <2>1, <3>1
  <2>3. CASE ast[j].name \notin notify'
    <3>1. s \notin ast[j].refs
      BY <1>3, <1>6, <2>3 DEF ReverseRight
    <3>2. Told(ast[j].name)' = ToSet(done) \cup {s}
      <4>1. Told(ast[j].name)' = ToSet(done')
        BY <1>2, <2>3 DEF Told
      <4> QED
        BY <1>4, <4>1
    <3> QED
      BY <2>1, <3>1, <3>2
  <2> QED
    BY <2>2, <2>3
<1>9. QueueRight'
  <2>1. roots \in Seq(Structs(ast)) /\ next \in Seq(Structs(ast))
    BY DEF TypeOK
  <2>2. /\ roots \o next \in Seq(Structs(ast)) /\ roots \o next # <<>>
        /\ Head(roots \o next) = s /\ roots' \o next' = Tail(roots \o next)
    BY <1>2, <2>1, TwoLayers
  <2>3. /\ IsInjective(roots' \o next')
        /\ ToSet(roots' \o next') = ToSet(roots \o next) \ {s}
    <3>1. IsInjective(roots \o next)
      BY <1>3 DEF QueueRight
    <3>2. /\ IsInjective(Tail(roots \o next))
          /\ ToSet(Tail(roots \o next)) = ToSet(roots \o next) \ {Head(roots \o next)}
      BY <2>2, <3>1, Pop
    <3> QED
      BY <2>2, <3>2
  <2> QED
    BY <1>2, <1>3, <2>3 DEF QueueRight
<1>10. NotifyRight'
  BY <1>2, <1>4, <1>6 DEF NotifyRight
<1>11. NoneStuck'
  <2>1. s \notin Stuck(ast)
    BY <1>1, <1>3, ReadyIsNotStuck DEF NoneStuck
  <2> QED
    BY <1>2, <1>3, <1>4, <2>1 DEF NoneStuck
<1>12. PhaseRight'
  <2>1. Order!Valid'
    BY <1>2, <1>3 DEF PhaseRight, Order!Valid, Order!Structs, Order!StructDefs, Order!ErrorDefs
  <2> QED
    BY <1>2, <1>3, <2>1 DEF PhaseRight
<1>13. NamesDiffer' /\ reverse_deps' = ReverseRight' /\ ErrorsRight'
  BY <1>2, <1>3, <1>5 DEF NamesDiffer, ReverseRight, ErrorsRight
<1> QED
  BY <1>7, <1>8, <1>9, <1>10, <1>11, <1>12, <1>13, PartsNext

\* A dependant told of the struct just generated is queued when it waits for no other.
LEMMA BookNotify ==
    ASSUME TypeOK, Bookkeeping, Notify
    PROVE  Bookkeeping'
<1>1. PICK d \in notify :
        /\ notify' = notify \ {d}
        /\ IF d \in todo
           THEN /\ dependencies' = [dependencies EXCEPT ![d] = @ \ {root}]
                /\ next' = IF dependencies'[d] = {} THEN Append(next, d) ELSE next
           ELSE UNCHANGED <<dependencies, next>>
        /\ UNCHANGED <<ast, emit_writers, at, k, maps, todo, roots, root, done, result>>
  BY DEF Notify
<1>2. CASE at = "finished"
  BY <1>1, <1>2 DEF Bookkeeping
<1>3. CASE at # "finished"
  <2>1. /\ NamesDiffer /\ AllAreThere /\ reverse_deps = ReverseRight /\ WaitsRight
        /\ QueueRight /\ NotifyRight /\ ErrorsRight /\ PhaseRight /\ NoneStuck
    BY <1>3, BookkeepingParts
  <2>2. Scanned' = Scanned /\ at = "generate" /\ at' = "generate"
    BY <1>1, <1>3, <2>1 DEF Scanned, PhaseRight
  <2>3. PICK j \in Scanned : ast[j].name = d /\ root \in ast[j].refs /\ root \in ToSet(done)
    BY <2>1 DEF NotifyRight, ReverseRight
  <2>4. \A t : t # d => Told(t)' = Told(t)
    BY <1>1 DEF Told
  <2>5. Told(d)' = ToSet(done) /\ Told(d) = ToSet(done) \ {root}
    BY <1>1 DEF Told
  <2>6. WaitsRight'
    <3> SUFFICES ASSUME NEW i \in Scanned, ast[i].name \in todo
                 PROVE  dependencies'[ast[i].name] = ast[i].refs \ Told(ast[i].name)'
      BY <1>1, <2>2 DEF WaitsRight
    <3>1. dependencies[ast[i].name] = ast[i].refs \ Told(ast[i].name)
      BY <2>1 DEF WaitsRight
    <3>2. CASE ast[i].name # d
      <4>1. dependencies'[ast[i].name] = dependencies[ast[i].name]
        BY <1>1, <3>2 DEF TypeOK
      <4> QED
        BY <1>1, <2>4, <3>1, <3>2, <4>1
    <3>3. CASE ast[i].name = d
      <4>1. dependencies'[d] = dependencies[d] \ {root}
        BY <1>1, <3>3 DEF TypeOK
      <4> QED
        BY <1>1, <2>3, <2>5, <3>1, <3>3, <4>1
    <3> QED
      BY <3>2, <3>3
  <2>7. QueueRight'
    <3>1. /\ roots \in Seq(Structs(ast)) /\ next \in Seq(Structs(ast)) /\ d \in Structs(ast)
          /\ roots' = roots /\ todo' = todo
      BY <1>1 DEF TypeOK
    <3>2. CASE d \notin todo
      BY <1>1, <2>1, <3>1, <3>2 DEF QueueRight
    <3>3. CASE d \in todo
      <4>1. root \in dependencies[d]
        BY <2>1, <2>3, <2>5, <3>3 DEF WaitsRight
      <4>2. d \notin ToSet(roots \o next)
        BY <2>1, <4>1 DEF QueueRight
      <4>3. \A t \in todo : t # d => dependencies'[t] = dependencies[t]
        BY <1>1, <3>3 DEF TypeOK
      <4>4. CASE dependencies'[d] = {}
        <5>1. next' = Append(next, d)
          BY <1>1, <3>3, <4>4
        <5>2. roots \o next \in Seq(Structs(ast)) /\ roots' \o next' = Append(roots \o next, d)
          BY <3>1, <5>1, TwoLayers
        <5>3. IsInjective(roots \o next)
          BY <2>1 DEF QueueRight
        <5>4. /\ IsInjective(Append(roots \o next, d))
              /\ ToSet(Append(roots \o next, d)) = ToSet(roots \o next) \cup {d}
          BY <4>2, <5>2, <5>3, Push
        <5>5. {t \in todo : dependencies'[t] = {}} = {t \in todo : dependencies[t] = {}} \cup {d}
          BY <3>3, <4>3, <4>4
        <5> QED
          BY <2>1, <3>1, <5>2, <5>4, <5>5 DEF QueueRight
      <4>5. CASE dependencies'[d] # {}
        <5>1. next' = next
          BY <1>1, <3>3, <4>5
        <5>2. {t \in todo : dependencies'[t] = {}} = {t \in todo : dependencies[t] = {}}
          BY <4>1, <4>3, <4>5
        <5> QED
          BY <2>1, <3>1, <5>1, <5>2 DEF QueueRight
      <4> QED
        BY <4>4, <4>5
    <3> QED
      BY <3>2, <3>3
  <2>8. PhaseRight'
    <3>1. Order!Valid'
      BY <1>1, <2>1, <2>2 DEF PhaseRight, Order!Valid, Order!Structs, Order!StructDefs,
                             Order!ErrorDefs
    <3> QED
      BY <1>1, <2>1, <2>2, <3>1 DEF PhaseRight
  <2>9. NamesDiffer' /\ AllAreThere' /\ reverse_deps' = ReverseRight' /\ ErrorsRight'
    BY <1>1, <2>1, <2>2 DEF NamesDiffer, AllAreThere, ReverseRight, ErrorsRight, maps
  <2>10. NotifyRight' /\ NoneStuck'
    BY <1>1, <2>1 DEF NotifyRight, NoneStuck, maps
  <2> QED
    BY <2>6, <2>7, <2>8, <2>9, <2>10, PartsNext
<1> QED
  BY <1>2, <1>3

LEMMA BookNextLayer ==
    ASSUME TypeOK, Bookkeeping, NextLayer
    PROVE  Bookkeeping'
<1>1. /\ at = "generate" /\ notify = {} /\ roots = <<>> /\ roots' = next /\ next' = <<>>
      /\ UNCHANGED <<ast, at, k, error_enum, reverse_deps, todo, dependencies, root, notify, done>>
  BY DEF NextLayer, LayerDone, maps
<1>2. /\ NamesDiffer /\ AllAreThere /\ reverse_deps = ReverseRight /\ WaitsRight
      /\ QueueRight /\ NotifyRight /\ ErrorsRight /\ PhaseRight /\ NoneStuck
  BY <1>1, BookkeepingParts
<1>3. roots' \o next' = roots \o next
  BY <1>1, TwoLayers DEF TypeOK
<1>4. Scanned' = Scanned /\ \A t : Told(t)' = Told(t)
  BY <1>1 DEF Scanned, Told
<1>5. QueueRight'
  BY <1>1, <1>2, <1>3 DEF QueueRight
<1>6. PhaseRight'
  <2>1. Order!Valid'
    BY <1>1, <1>2 DEF PhaseRight, Order!Valid, Order!Structs, Order!StructDefs, Order!ErrorDefs
  <2> QED
    BY <1>1, <1>2, <2>1 DEF PhaseRight
<1>7. NamesDiffer' /\ AllAreThere' /\ reverse_deps' = ReverseRight' /\ WaitsRight'
  BY <1>1, <1>2, <1>4 DEF NamesDiffer, AllAreThere, ReverseRight, WaitsRight
<1>8. NotifyRight' /\ ErrorsRight' /\ NoneStuck'
  BY <1>1, <1>2 DEF NotifyRight, ErrorsRight, NoneStuck
<1> QED
  BY <1>5, <1>6, <1>7, <1>8, PartsNext

LEMMA BookStep == TypeOK /\ Bookkeeping /\ [Next]_vars => Bookkeeping'
<1> SUFFICES ASSUME TypeOK, Bookkeeping, [Next]_vars PROVE Bookkeeping'
  OBVIOUS
<1>1. ASSUME NEW kind, NEW names, NEW output, Finished(kind, names, output) PROVE Bookkeeping'
  BY <1>1 DEF Finished, Bookkeeping
<1>2. CASE RejectStructTwice \/ RejectErrorsTwice \/ RejectUnknown \/ RejectErrors
             \/ RejectStruct \/ RejectCycle \/ PrintStructs
  BY <1>1, <1>2 DEF Fail, RejectStructTwice, RejectErrorsTwice, RejectUnknown, RejectErrors,
                    RejectStruct, RejectCycle, PrintStructs
<1>3. CASE EndScan
  <2>1. at = "scan" /\ at' = "link" /\ PhaseRight
    BY <1>3, BookkeepingParts DEF EndScan
  <2>2. k = Len(ast) + 1
    BY <1>3, AstShape DEF EndScan, TypeOK
  <2>3. PhaseRight'
    BY <1>3, <2>1, <2>2 DEF EndScan, PhaseRight, work
  <2> QED
    BY <1>3, <2>1, <2>3, BookPhase DEF EndScan
<1>4. CASE UNCHANGED vars
  <2>1. CASE at = "finished"
    BY <1>4, <2>1 DEF vars, Bookkeeping
  <2>2. CASE at # "finished"
    <3>1. PhaseRight
      BY <2>2, BookkeepingParts
    <3>2. Order!Valid' <=> Order!Valid
      BY <1>4 DEF vars, Order!Valid, Order!Structs, Order!StructDefs, Order!ErrorDefs
    <3>3. PhaseRight'
      BY <1>4, <3>1, <3>2 DEF vars, work, PhaseRight
    <3> QED
      BY <1>4, <2>2, <3>3, BookPhase DEF vars
  <2> QED
    BY <2>1, <2>2
<1> QED
  BY <1>2, <1>3, <1>4, BookScanStruct, BookScanErrors, BookLink, BookGenerate, BookNotify,
     BookNextLayer DEF Next, Scan, Check, Work

\* The bookkeeping of the worklist is right in every state.
THEOREM CodegenBookkeeping == Spec => []Bookkeeping
<1>1. Init => Bookkeeping
  <2> SUFFICES ASSUME Init PROVE Bookkeeping
    OBVIOUS
  <2>1. Scanned = {} /\ ToSet(done) = {}
    BY DEF Init, Scanned, ToSet
  <2>2. roots \o next = <<>> /\ ToSet(<<>>) = {} /\ IsInjective(<<>>)
    BY DEF Init, ToSet, IsInjective
  <2>3. NamesDiffer /\ AllAreThere /\ reverse_deps = ReverseRight /\ WaitsRight
    BY <2>1 DEF Init, NamesDiffer, AllAreThere, ReverseRight, WaitsRight
  <2>4. QueueRight /\ NotifyRight /\ ErrorsRight /\ PhaseRight /\ NoneStuck
    BY <2>1, <2>2 DEF Init, QueueRight, NotifyRight, ErrorsRight, PhaseRight, NoneStuck
  <2> QED
    BY <2>3, <2>4, BookkeepingParts
<1> QED
  BY <1>1, BookStep, CodegenTypeCorrect, PTL DEF Spec

-----------------------------------------------------------------------------
(* What follows from the bookkeeping.                                      *)

LEMMA QueueFollows == TypeOK /\ Bookkeeping => QueueIsExact
<1> SUFFICES ASSUME TypeOK, Bookkeeping, at = "generate", notify = {}
             PROVE  /\ IsInjective(roots \o next)
                    /\ ToSet(roots \o next) = {s \in todo : RefsOf(ast, s) \subseteq ToSet(done)}
  BY DEF QueueIsExact
<1>1. QueueRight
  BY BookkeepingParts
<1>2. \A s \in todo : dependencies[s] = {} <=> RefsOf(ast, s) \subseteq ToSet(done)
  BY QueuedIsReady
<1> QED
  BY <1>1, <1>2 DEF QueueRight

\* Between two roots the worklist holds the structs that can be generated and no
\* other, each once, whatever the order in which dependants were visited.
THEOREM WorklistIsExact == Spec => []QueueIsExact
BY QueueFollows, CodegenTypeCorrect, CodegenBookkeeping, PTL

\* When both layers are empty, what is to do waits for something to do.
LEMMA NothingReady ==
    ASSUME TypeOK, Bookkeeping, LayerDone, next = <<>>
    PROVE  \A s \in todo : /\ ~(RefsOf(ast, s) \subseteq ToSet(done))
                           /\ RefsOf(ast, s) \cap todo # {}
<1>1. QueueRight /\ at = "generate" /\ notify = {} /\ roots = <<>>
  BY BookkeepingParts DEF LayerDone
<1>2. ToSet(roots \o next) = {}
  <2>1. roots \o next = <<>>
    BY <1>1
  <2> QED
    BY <2>1 DEF ToSet
<1> SUFFICES ASSUME NEW s \in todo
             PROVE  ~(RefsOf(ast, s) \subseteq ToSet(done)) /\ RefsOf(ast, s) \cap todo # {}
  OBVIOUS
<1>3. dependencies[s] # {}
  BY <1>1, <1>2 DEF QueueRight
<1>4. dependencies[s] = RefsOf(ast, s) \ ToSet(done) /\ RefsOf(ast, s) \subseteq Structs(ast)
  BY <1>1, QueuedIsReady
<1>5. Structs(ast) = todo \cup ToSet(done)
  BY <1>1, AllScanned
<1> QED
  BY <1>3, <1>4, <1>5

LEMMA TodoIsStuck ==
    ASSUME TypeOK, Bookkeeping, LayerDone, next = <<>>
    PROVE  todo = Stuck(ast)
<1>1. \A s \in todo : RefsOf(ast, s) \cap todo # {}
  BY NothingReady
<1>2. todo \in SUBSET Structs(ast) /\ Structs(ast) = todo \cup ToSet(done)
  BY AllScanned DEF LayerDone
<1>3. todo \subseteq Stuck(ast)
  BY <1>1, <1>2 DEF Stuck
<1>4. Stuck(ast) \subseteq Structs(ast) /\ Stuck(ast) \cap ToSet(done) = {}
  BY BookkeepingParts DEF Stuck, NoneStuck, LayerDone
<1> QED
  BY <1>2, <1>3, <1>4

LEMMA VerdictStep == TypeOK /\ Bookkeeping /\ CycleVerdict /\ [Next]_vars => CycleVerdict'
<1> SUFFICES ASSUME TypeOK, Bookkeeping, CycleVerdict, [Next]_vars PROVE CycleVerdict'
  OBVIOUS
<1>1. Stuck(ast') = Stuck(ast)
  <2>1. ast' = ast
    BY DEF Next, Scan, Check, Work, ScanStruct, RejectStructTwice, ScanErrors, RejectErrorsTwice,
           EndScan, RejectUnknown, RejectErrors, Link, Generate, RejectStruct, Notify, NextLayer,
           RejectCycle, PrintStructs, Fail, vars
  <2> QED
    BY <2>1
<1>2. CASE UNCHANGED result
  BY <1>1, <1>2 DEF CycleVerdict
<1>3. ASSUME NEW kind, NEW names, Fail(kind, names), kind \notin {"DependencyCycle", "ok"}
      PROVE  CycleVerdict'
  BY <1>3 DEF Fail, Finished, CycleVerdict
<1>4. CASE RejectErrors
  <2>1. \A e \in error_enum : ast[e].fails \in ErrorFails
    <3>1. \A e \in ErrorDefs(ast) : ast[e] \in Struct \cup Errors
      BY SpecsAssumption DEF TypeOK, Asts, ErrorDefs
    <3>2. \A e \in ErrorDefs(ast) : ast[e] \in Errors
      BY <3>1 DEF ErrorDefs, Struct, Errors
    <3> QED
      BY <3>2 DEF TypeOK, Errors
  <2> QED
    BY <1>3, <1>4, <2>1 DEF RejectErrors, ErrorFails
<1>5. CASE RejectCycle
  <2>1. LayerDone /\ next = <<>> /\ todo # {} /\ result'.kind = "DependencyCycle"
        /\ result'.names = todo
    BY <1>5 DEF RejectCycle, Fail, Finished
  <2>2. todo = Stuck(ast)
    BY <2>1, TodoIsStuck
  <2> QED
    BY <1>1, <2>1, <2>2 DEF CycleVerdict
<1>6. CASE PrintStructs
  <2>1. LayerDone /\ next = <<>> /\ todo = {} /\ result'.kind # "DependencyCycle"
    BY <1>6 DEF PrintStructs, Finished
  <2>2. Stuck(ast) = {}
    BY <2>1, TodoIsStuck
  <2> QED
    BY <1>1, <2>1, <2>2 DEF CycleVerdict
<1>7. CASE RejectStruct
  BY <1>3, <1>7 DEF RejectStruct, Verdict
<1>8. CASE RejectStructTwice \/ RejectErrorsTwice \/ RejectUnknown
  BY <1>3, <1>8 DEF RejectStructTwice, RejectErrorsTwice, RejectUnknown
<1>9. CASE ScanStruct \/ ScanErrors \/ EndScan \/ Link \/ Generate \/ Notify \/ NextLayer
            \/ UNCHANGED vars
  BY <1>2, <1>9 DEF ScanStruct, ScanErrors, EndScan, Link, Generate, Notify, NextLayer, vars
<1> QED
  BY <1>4, <1>5, <1>6, <1>7, <1>8, <1>9 DEF Next, Scan, Check, Work

\* A cycle error names exactly the structs that can never be generated, and code
\* is only returned for specifications without a cycle.
THEOREM CyclesAreFound == Spec => []CycleVerdict
<1>1. Init => CycleVerdict
  BY DEF Init, NoResult, CycleVerdict
<1> QED
  BY <1>1, VerdictStep, CodegenTypeCorrect, CodegenBookkeeping, PTL DEF Spec

LEMMA BlameStep == TypeOK /\ Bookkeeping /\ BlameIsOwn /\ [Next]_vars => BlameIsOwn'
<1> SUFFICES ASSUME TypeOK, Bookkeeping, BlameIsOwn, [Next]_vars PROVE BlameIsOwn'
  OBVIOUS
<1>1. ast' = ast
  BY DEF Next, Scan, Check, Work, ScanStruct, RejectStructTwice, ScanErrors, RejectErrorsTwice,
         EndScan, RejectUnknown, RejectErrors, Link, Generate, RejectStruct, Notify, NextLayer,
         RejectCycle, PrintStructs, Fail, vars
<1>2. CASE UNCHANGED result
  BY <1>1, <1>2 DEF BlameIsOwn
<1>3. ASSUME NEW kind, NEW names, NEW output, Finished(kind, names, output),
             kind # "GenerateStruct"
      PROVE  BlameIsOwn'
  BY <1>3 DEF Finished, BlameIsOwn
<1>4. CASE RejectErrors
  <2>1. \A e \in error_enum : ast[e].fails \in ErrorFails
    <3>1. \A e \in ErrorDefs(ast) : ast[e] \in Struct \cup Errors
      BY SpecsAssumption DEF TypeOK, Asts, ErrorDefs
    <3>2. \A e \in ErrorDefs(ast) : ast[e] \in Errors
      BY <3>1 DEF ErrorDefs, Struct, Errors
    <3> QED
      BY <3>2 DEF TypeOK, Errors
  <2> QED
    BY <1>3, <1>4, <2>1 DEF RejectErrors, ErrorFails, Fail
<1>5. CASE RejectStruct
  <2>1. RefsOf(ast, Head(roots)) \subseteq ToSet(done)
    BY <1>5, RootIsReady DEF RejectStruct
  <2>2. result'.names = {Head(roots)} /\ result'.kind = Verdict(Head(roots))
    BY <1>5 DEF RejectStruct, Fail, Finished
  <2> QED
    BY <1>1, <2>1, <2>2 DEF Verdict, BlameIsOwn
<1>6. CASE RejectStructTwice \/ RejectErrorsTwice \/ RejectUnknown \/ RejectCycle \/ PrintStructs
  BY <1>3, <1>6 DEF RejectStructTwice, RejectErrorsTwice, RejectUnknown, RejectCycle,
                    PrintStructs, Fail
<1>7. CASE ScanStruct \/ ScanErrors \/ EndScan \/ Link \/ Generate \/ Notify \/ NextLayer
            \/ UNCHANGED vars
  BY <1>2, <1>7 DEF ScanStruct, ScanErrors, EndScan, Link, Generate, Notify, NextLayer, vars
<1> QED
  BY <1>4, <1>5, <1>6, <1>7 DEF Next, Scan, Check, Work

\* No struct is rejected because one it refers to was not generated before it.
THEOREM DependenciesComeFirst == Spec => []BlameIsOwn
<1>1. Init => BlameIsOwn
  BY DEF Init, NoResult, BlameIsOwn
<1> QED
  BY <1>1, BlameStep, CodegenTypeCorrect, CodegenBookkeeping, PTL DEF Spec

-----------------------------------------------------------------------------
(* Refinement.                                                             *)

LEMMA RejectMaps ==
    ASSUME NEW kind, NEW names, Fail(kind, names), kind \notin {"ok", "DependencyCycle"},
           at # "finished",
           Order!Valid => \E s \in Structs(ast) : Order!Ready(s) /\ Order!Unfit(s)
    PROVE  Order!Reject
<1>1. Outcome = "running" /\ Outcome' = "rejected"
  BY DEF Outcome, Fail, Finished
<1>2. ast' = ast /\ emit_writers' = emit_writers /\ ToSet(done)' = ToSet(done)
  BY DEF Fail, work
<1> QED
  BY <1>1, <1>2, SameDefinitions DEF Order!Reject

LEMMA StepMaps ==
    TypeOK /\ Bookkeeping /\ [Next]_vars => [Order!Next]_(Order!vars)
<1> SUFFICES ASSUME TypeOK, Bookkeeping, [Next]_vars PROVE [Order!Next]_(Order!vars)
  OBVIOUS
<1>1. ASSUME UNCHANGED <<ast, emit_writers, at, done, result>> PROVE UNCHANGED Order!vars
  BY <1>1 DEF Order!vars, Outcome
<1>2. ASSUME at # "finished", at' # "finished", UNCHANGED <<ast, emit_writers, done>>
      PROVE  UNCHANGED Order!vars
  BY <1>2 DEF Order!vars, Outcome
<1>3. CASE ScanStruct \/ ScanErrors \/ Notify \/ NextLayer \/ UNCHANGED vars
  BY <1>1, <1>3 DEF ScanStruct, ScanErrors, Notify, NextLayer, vars, work
<1>4. CASE EndScan \/ Link
  BY <1>2, <1>4 DEF EndScan, Link, work
<1>5. CASE RejectStructTwice
  <2>1. /\ at = "scan" /\ ast[k].name \in todo /\ k \in StructDefs(ast) /\ k \notin Scanned
        /\ done = <<>> /\ ToSet(done) = {}
    BY <1>5, AstShape DEF RejectStructTwice, Scanning, StructDefs, Scanned, TypeOK, ToSet
  <2>2. PICK j \in Scanned : ast[j].name = ast[k].name
    BY <2>1, BookkeepingParts DEF AllAreThere
  <2>3. ~Order!Valid
    BY <2>1, <2>2, ValidMeans DEF Scanned
  <2> QED
    BY <1>5, <2>1, <2>3, RejectMaps DEF RejectStructTwice, Order!Next
<1>6. CASE RejectErrorsTwice
  <2>1. at = "scan" /\ error_enum # {} /\ k \in ErrorDefs(ast) /\ k \notin 1 .. k - 1
    BY <1>6, AstShape DEF RejectErrorsTwice, Scanning, ErrorDefs, TypeOK
  <2>2. PICK e \in error_enum : e \in ErrorDefs(ast) /\ e # k
    BY <2>1, BookkeepingParts DEF ErrorsRight
  <2>3. ~Order!Valid
    BY <2>1, <2>2, ValidMeans
  <2> QED
    BY <1>6, <2>1, <2>3, RejectMaps DEF RejectErrorsTwice, Order!Next
<1>7. CASE RejectUnknown \/ RejectErrors
  <2>1. /\ at = "link" /\ Scanned = StructDefs(ast) /\ error_enum = ErrorDefs(ast)
        /\ todo = Structs(ast) /\ reverse_deps = ReverseRight
    <3>1. at = "link" /\ ToSet(done) = {}
      BY <1>7 DEF RejectUnknown, RejectErrors, TypeOK, ToSet
    <3> QED
      BY <3>1, AllScanned, BookkeepingParts
  <2>2. CASE RejectUnknown
    <3>1. PICK p \in reverse_deps : p[1] \notin todo
      BY <2>2 DEF RejectUnknown, Unknown
    <3>2. PICK j \in StructDefs(ast) : p[1] \in ast[j].refs
      BY <2>1, <3>1 DEF ReverseRight
    <3>3. ~Order!Valid
      BY <2>1, <3>1, <3>2, ValidMeans
    <3> QED
      BY <2>1, <2>2, <3>3, RejectMaps DEF RejectUnknown, Order!Next
  <2>3. CASE RejectErrors /\ error_enum # {} /\ ErrorName \in todo
    <3>1. ~Order!Valid
      BY <2>1, <2>3, ValidMeans
    <3> QED
      BY <2>1, <2>3, <3>1, RejectMaps DEF RejectErrors, Order!Next
  <2>4. CASE RejectErrors /\ ~(error_enum # {} /\ ErrorName \in todo)
    <3>1. PICK e \in error_enum : ast[e].fails # "none" /\ Fail(ast[e].fails, {})
      BY <2>4 DEF RejectErrors
    <3>2. ast[e].fails \in ErrorFails
      <4>1. ast[e] \in Struct \cup Errors
        BY <2>1, SpecsAssumption DEF TypeOK, Asts, ErrorDefs
      <4>2. ast[e] \in Errors
        BY <2>1, <4>1 DEF ErrorDefs, Struct, Errors
      <4> QED
        BY <4>2 DEF Errors
    <3>3. ~Order!Valid
      BY <2>1, <3>1, ValidMeans
    <3> QED
      BY <2>1, <3>1, <3>2, <3>3, RejectMaps DEF ErrorFails, Order!Next
  <2> QED
    BY <1>7, <2>2, <2>3, <2>4
<1>8. ASSUME at = "generate"
      PROVE  Order!Valid /\ Structs(ast) = todo \cup ToSet(done)
  BY <1>8, BookkeepingParts, AllScanned DEF PhaseRight
<1>9. ASSUME AtRoot
      PROVE  Head(roots) \in Structs(ast) /\ Order!Ready(Head(roots)) /\ Head(roots) \in todo
  <2>1. Head(roots) \in todo /\ RefsOf(ast, Head(roots)) \subseteq ToSet(done)
    BY <1>9, RootIsReady
  <2>2. Head(roots) \in Structs(ast) \ ToSet(done)
    BY <2>1 DEF TypeOK
  <2> QED
    BY <2>1, <2>2, SameDefinitions DEF Order!Ready
<1>10. CASE Generate
  <2>1. /\ AtRoot /\ Verdict(Head(roots)) = "none" /\ done' = Append(done, Head(roots))
        /\ UNCHANGED <<ast, emit_writers, at, result>>
    BY <1>9, <1>10 DEF Generate
  <2>2. ToSet(done)' = ToSet(done) \cup {Head(roots)}
    BY <2>1, Push DEF TypeOK
  <2>3. ~Order!Unfit(Head(roots))
    BY <2>1, SameDefinitions DEF Verdict, Order!Unfit
  <2>4. Outcome = "running" /\ Outcome' = Outcome
    BY <2>1 DEF Outcome, AtRoot
  <2>5. Order!Make(Head(roots))
    BY <1>8, <1>9, <2>1, <2>2, <2>3, <2>4 DEF Order!Make, AtRoot
  <2> QED
    BY <1>9, <2>1, <2>5, SameDefinitions DEF Order!Next
<1>11. CASE RejectStruct
  <2>1. AtRoot /\ Verdict(Head(roots)) # "none" /\ Fail(Verdict(Head(roots)), {Head(roots)})
    BY <1>11 DEF RejectStruct
  <2>2. Order!Unfit(Head(roots))
    BY <2>1, RootIsReady, SameDefinitions DEF Verdict, Order!Unfit
  <2>3. Verdict(Head(roots)) \notin {"ok", "DependencyCycle"}
    BY DEF Verdict
  <2> QED
    BY <1>9, <2>1, <2>2, <2>3, RejectMaps DEF AtRoot, Order!Next
<1>12. ASSUME LayerDone, next = <<>> PROVE \A s \in Structs(ast) : ~Order!Ready(s)
  BY <1>8, <1>12, NothingReady, SameDefinitions DEF Order!Ready, LayerDone
<1>13. CASE RejectCycle
  <2>1. /\ LayerDone /\ next = <<>> /\ todo # {} /\ Fail("DependencyCycle", todo)
    BY <1>13 DEF RejectCycle
  <2>2. Outcome = "running" /\ Outcome' = "cycle"
    BY <2>1 DEF Outcome, LayerDone, Fail, Finished
  <2>3. ToSet(done) # Structs(ast)
    BY <1>8, <2>1 DEF TypeOK, LayerDone
  <2>4. Order!Finish
    BY <1>8, <1>12, <2>1, <2>2, <2>3, SameDefinitions DEF Order!Finish, LayerDone, Fail, work
  <2> QED
    BY <2>4 DEF Order!Next
<1>14. CASE PrintStructs
  <2>1. LayerDone /\ next = <<>> /\ todo = {} /\ UNCHANGED <<ast, emit_writers, done>>
    BY <1>14 DEF PrintStructs, work
  <2>2. ToSet(done) = Structs(ast)
    BY <1>8, <2>1 DEF LayerDone
  <2>3. /\ Outcome = "running"
        /\ Outcome' = IF \E s \in ToSet(done) : FailsOf(ast, s) = "InvalidGeneratedCode"
                      THEN "rejected" ELSE "ok"
    BY <1>14 DEF PrintStructs, Outcome, LayerDone, Finished
  <2>4. Order!Finish
    BY <1>8, <1>12, <2>1, <2>2, <2>3, SameDefinitions DEF Order!Finish, LayerDone
  <2> QED
    BY <2>4 DEF Order!Next
<1> QED
  BY <1>3, <1>4, <1>5, <1>6, <1>7, <1>10, <1>11, <1>13, <1>14 DEF Next, Scan, Check, Work

\* The worklist, in every order its hash maps may have, is an implementation of
\* the promise: each struct once, after its dependencies, and a justified verdict.
THEOREM CodegenImplementsOrder == Spec => ImplementsOrder
<1>1. Init => Order!Init
  <2> SUFFICES ASSUME Init PROVE Order!Init
    OBVIOUS
  <2>1. Outcome = "running" /\ ToSet(done) = {}
    BY DEF Init, Outcome, ToSet
  <2> QED
    BY <2>1 DEF Init, Order!Init
<1> QED
  BY <1>1, StepMaps, CodegenTypeCorrect, CodegenBookkeeping, PTL
     DEF Spec, ImplementsOrder, Order!Spec

-----------------------------------------------------------------------------
(* The order of the output.                                                *)

\* definition_order holds the structs scanned, each once and as they were met.
InDefinitionOrder ==
    at # "finished" =>
        /\ Len(definition_order) = Cardinality(Scanned)
        /\ \A i \in DOMAIN definition_order :
              \E a \in Scanned : ast[a].name = definition_order[i]
        /\ \A i, j \in DOMAIN definition_order : i < j =>
              \A a, b \in Scanned :
                 ast[a].name = definition_order[i] /\ ast[b].name = definition_order[j] => a < b

\* A struct definition joins what was scanned, any other definition does not.
LEMMA ScanGrows ==
    ASSUME TypeOK, at = "scan", k <= Len(ast), ast' = ast, k' = k + 1
    PROVE  /\ IsFiniteSet(Scanned) /\ \A j \in Scanned : j < k
           /\ ast[k].kind = "struct" => Scanned' = Scanned \cup {k}
           /\ ast[k].kind # "struct" => Scanned' = Scanned
<1>1. k \in Nat \ {0} /\ Len(ast) \in Nat /\ DOMAIN ast = 1 .. Len(ast) /\ k \in DOMAIN ast
  BY AstShape DEF TypeOK
<1>2. 1 .. k' - 1 = (1 .. k - 1) \cup {k} /\ k \notin 1 .. k - 1 /\ \A j \in 1 .. k - 1 : j < k
  BY <1>1
<1>3. IsFiniteSet(Scanned)
  <2>1. 1 \in Int /\ k - 1 \in Int
    BY <1>1
  <2>2. IsFiniteSet(1 .. k - 1)
    BY <2>1, FS_Interval
  <2>3. Scanned \in SUBSET (1 .. k - 1)
    BY DEF Scanned
  <2> QED
    BY <2>2, <2>3, FS_Subset
<1>4. StructDefs(ast)' = StructDefs(ast)
  BY DEF StructDefs
<1> QED
  BY <1>1, <1>2, <1>3, <1>4 DEF Scanned, StructDefs

LEMMA InOrderScanStruct ==
    ASSUME TypeOK, Bookkeeping, InDefinitionOrder, ScanStruct
    PROVE  InDefinitionOrder'
<1> DEFINE s == ast[k].name
           n == Len(definition_order)
<1>1. /\ s \notin todo /\ at = "scan" /\ k <= Len(ast) /\ ast[k].kind = "struct"
      /\ definition_order' = Append(definition_order, s)
      /\ k' = k + 1 /\ ast' = ast /\ at' = at
  BY DEF ScanStruct, Scanning
<1>2. /\ IsFiniteSet(Scanned) /\ Scanned' = Scanned \cup {k} /\ k \in Nat
      /\ \A j \in Scanned : j < k /\ j \in Nat
  BY <1>1, ScanGrows DEF TypeOK, Scanned
<1>3. k \notin Scanned
  BY <1>2
<1>4. \A j \in Scanned : ast[j].name # s
  <2>1. AllAreThere /\ ToSet(done) = {}
    BY <1>1, BookkeepingParts DEF TypeOK, ToSet
  <2> QED
    BY <1>1, <2>1 DEF AllAreThere
<1>5. /\ n \in Nat /\ DOMAIN definition_order = 1 .. n
      /\ Len(definition_order') = n + 1 /\ DOMAIN definition_order' = 1 .. n + 1
      /\ \A i \in 1 .. n : definition_order'[i] = definition_order[i]
      /\ definition_order'[n + 1] = s
  BY <1>1 DEF TypeOK
<1>6. /\ n = Cardinality(Scanned)
      /\ \A i \in 1 .. n : \E a \in Scanned : ast[a].name = definition_order[i]
      /\ \A i, j \in 1 .. n : i < j =>
            \A a, b \in Scanned :
               ast[a].name = definition_order[i] /\ ast[b].name = definition_order[j] => a < b
  BY <1>1, <1>5 DEF InDefinitionOrder
<1> HIDE DEF s, n
<1>7. Len(definition_order') = Cardinality(Scanned')
  <2>1. Cardinality(Scanned \cup {k}) = Cardinality(Scanned) + 1
    BY <1>2, <1>3, FS_AddElement
  <2> QED
    BY <1>2, <1>5, <1>6, <2>1
<1>8. ASSUME NEW i \in 1 .. n + 1 PROVE \E a \in Scanned' : ast[a].name = definition_order'[i]
  <2>1. CASE i = n + 1
    BY <1>2, <1>5, <2>1 DEF s
  <2>2. CASE i # n + 1
    <3>1. i \in 1 .. n
      BY <1>5, <2>2
    <3> QED
      BY <1>2, <1>5, <1>6, <3>1
  <2> QED
    BY <2>1, <2>2
<1>9. ASSUME NEW i \in 1 .. n + 1, NEW j \in 1 .. n + 1, i < j,
             NEW a \in Scanned', NEW b \in Scanned',
             ast[a].name = definition_order'[i], ast[b].name = definition_order'[j]
      PROVE  a < b
  <2>1. i \in 1 .. n
    BY <1>5, <1>9
  <2>2. a \in Scanned
    <3>1. definition_order'[i] # s
      BY <1>4, <1>5, <1>6, <2>1
    <3> QED
      BY <1>2, <1>9, <3>1 DEF s
  <2>3. CASE j = n + 1
    <3>1. b = k
      BY <1>2, <1>4, <1>5, <1>9, <2>3
    <3> QED
      BY <1>2, <2>2, <3>1
  <2>4. CASE j # n + 1
    <3>1. j \in 1 .. n
      BY <1>5, <2>4
    <3>2. b \in Scanned
      <4>1. definition_order'[j] # s
        BY <1>4, <1>5, <1>6, <3>1
      <4> QED
        BY <1>2, <1>9, <4>1 DEF s
    <3> QED
      BY <1>5, <1>6, <1>9, <2>1, <2>2, <3>1, <3>2
  <2> QED
    BY <2>3, <2>4
<1> QED
  BY <1>1, <1>5, <1>7, <1>8, <1>9 DEF InDefinitionOrder

LEMMA InOrderStep == TypeOK /\ Bookkeeping /\ InDefinitionOrder /\ [Next]_vars => InDefinitionOrder'
<1> SUFFICES ASSUME TypeOK, Bookkeeping, InDefinitionOrder, [Next]_vars PROVE InDefinitionOrder'
  OBVIOUS
<1>1. CASE at' = "finished"
  BY <1>1 DEF InDefinitionOrder
<1>2. CASE ScanErrors
  <2>1. /\ at = "scan" /\ k <= Len(ast) /\ ast[k].kind # "struct" /\ k' = k + 1
        /\ UNCHANGED <<ast, at, definition_order>>
    BY <1>2 DEF ScanErrors, Scanning
  <2>2. Scanned' = Scanned
    BY <2>1, ScanGrows
  <2> QED
    BY <2>1, <2>2 DEF InDefinitionOrder
<1>3. ASSUME UNCHANGED <<ast, k, definition_order>>, at = "finished" => at' = "finished"
      PROVE  InDefinitionOrder'
  <2>1. Scanned' = Scanned
    BY <1>3 DEF Scanned, StructDefs
  <2> QED
    BY <1>3, <2>1 DEF InDefinitionOrder
<1>4. CASE EndScan \/ Link \/ Generate \/ Notify \/ NextLayer \/ UNCHANGED vars
  <2>1. UNCHANGED <<ast, k, definition_order>>
    BY <1>4 DEF EndScan, Link, Generate, Notify, NextLayer, vars, maps
  <2>2. at = "finished" => at' = "finished"
    <3>1. Notify => at' = at
      BY DEF Notify
    <3> QED
      BY <1>4, <3>1 DEF EndScan, Link, Generate, AtRoot, NextLayer, LayerDone, vars
  <2> QED
    BY <1>3, <2>1, <2>2
<1>5. CASE RejectStructTwice \/ RejectErrorsTwice \/ RejectUnknown \/ RejectErrors
             \/ RejectStruct \/ RejectCycle \/ PrintStructs
  BY <1>1, <1>5 DEF Fail, Finished, RejectStructTwice, RejectErrorsTwice, RejectUnknown,
                    RejectErrors, RejectStruct, RejectCycle, PrintStructs
<1> QED
  BY <1>2, <1>4, <1>5, InOrderScanStruct DEF Next, Scan, Check, Work

\* The names scanned are kept once each and in the order of their definitions (lib.rs:137).
THEOREM ScannedInOrder == Spec => []InDefinitionOrder
<1>1. Init => InDefinitionOrder
  <2> SUFFICES ASSUME Init PROVE InDefinitionOrder
    OBVIOUS
  <2>1. Scanned = {} /\ definition_order = <<>>
    BY DEF Init, Scanned
  <2> QED
    BY <2>1, FS_EmptySet DEF InDefinitionOrder
<1> QED
  BY <1>1, InOrderStep, CodegenTypeCorrect, CodegenBookkeeping, PTL DEF Spec

\* Combined is well defined where all the names scanned are generated, each once:
\* the sequence of the first i names satisfies its equation.
CombinedFrom(f) ==
    f = [i \in 0 .. Len(definition_order) |->
           IF i = 0 THEN <<>>
           ELSE IF definition_order[i] \in ToSet(done) \ ToSet(f[i - 1])
           THEN Append(f[i - 1], definition_order[i])
           ELSE f[i - 1]]

AllGenerated ==
    /\ \A i \in DOMAIN definition_order : definition_order[i] \in ToSet(done)
    /\ \A i, j \in DOMAIN definition_order : i < j => definition_order[i] # definition_order[j]

LEMMA CombinedExists ==
    ASSUME TypeOK, AllGenerated
    PROVE  \E f : CombinedFrom(f)
<1> DEFINE n == Len(definition_order)
           f == [i \in 0 .. n |-> [j \in 1 .. i |-> definition_order[j]]]
<1>1. n \in Nat /\ DOMAIN definition_order = 1 .. n
      /\ \A i \in 1 .. n : definition_order[i] \in Structs(ast)
  BY DEF TypeOK
<1> HIDE DEF n
<1>2. ASSUME NEW i \in 0 .. n
      PROVE  f[i] = IF i = 0 THEN <<>>
                    ELSE IF definition_order[i] \in ToSet(done) \ ToSet(f[i - 1])
                    THEN Append(f[i - 1], definition_order[i])
                    ELSE f[i - 1]
  <2>1. CASE i = 0
    BY <2>1
  <2>2. CASE i # 0
    <3>1. i \in 1 .. n /\ i - 1 \in 0 .. n /\ i \in Nat
      BY <1>1, <2>2
    <3>2. f[i] = [j \in 1 .. i |-> definition_order[j]]
          /\ f[i - 1] = [j \in 1 .. i - 1 |-> definition_order[j]]
      BY <3>1
    <3>3. definition_order[i] \in ToSet(done)
      BY <1>1, <3>1 DEF AllGenerated
    <3>4. definition_order[i] \notin ToSet(f[i - 1])
      <4>1. ASSUME NEW j \in 1 .. i - 1 PROVE definition_order[j] # definition_order[i]
        BY <1>1, <3>1 DEF AllGenerated
      <4> QED
        BY <3>2, <4>1 DEF ToSet
    <3>5. Append(f[i - 1], definition_order[i]) = f[i]
      <4>1. f[i - 1] \in Seq(Structs(ast)) /\ Len(f[i - 1]) = i - 1
        BY <1>1, <3>1, <3>2
      <4>2. f[i] \in Seq(Structs(ast)) /\ Len(f[i]) = i
        BY <1>1, <3>1, <3>2
      <4>3. /\ Append(f[i - 1], definition_order[i]) \in Seq(Structs(ast))
            /\ Len(Append(f[i - 1], definition_order[i])) = i
        BY <1>1, <3>1, <4>1
      <4>4. \A j \in 1 .. i : Append(f[i - 1], definition_order[i])[j] = f[i][j]
        BY <3>1, <3>2, <4>1
      <4> QED
        BY <4>2, <4>3, <4>4, SeqEqual
    <3> QED
      BY <2>2, <3>3, <3>4, <3>5
  <2> QED
    BY <2>1, <2>2
<1>3. f = [i \in 0 .. n |->
             IF i = 0 THEN <<>>
             ELSE IF definition_order[i] \in ToSet(done) \ ToSet(f[i - 1])
             THEN Append(f[i - 1], definition_order[i])
             ELSE f[i - 1]]
  BY <1>2
<1> QED
  BY <1>3 DEF CombinedFrom, n

\* print takes every name in turn.
LEMMA AllCombined ==
    ASSUME TypeOK, AllGenerated
    PROVE  Combined[Len(definition_order)] = definition_order
<1> DEFINE n == Len(definition_order)
           Prefix(q, i) == /\ q \in Seq(Structs(ast)) /\ Len(q) = i
                           /\ \A j \in 1 .. i : q[j] = definition_order[j]
           P == {i \in Nat : i <= n => Prefix(Combined[i], i)}
<1>1. n \in Nat /\ DOMAIN definition_order = 1 .. n
      /\ \A i \in 1 .. n : definition_order[i] \in Structs(ast)
  BY DEF TypeOK
<1>2. CombinedFrom(Combined)
  BY CombinedExists DEF Combined, CombinedFrom
<1>3. \A i \in 0 .. n :
        Combined[i] = IF i = 0 THEN <<>>
                      ELSE IF definition_order[i] \in ToSet(done) \ ToSet(Combined[i - 1])
                      THEN Append(Combined[i - 1], definition_order[i])
                      ELSE Combined[i - 1]
  BY <1>2 DEF CombinedFrom
<1> HIDE DEF n
<1>4. 0 \in P
  <2>1. Combined[0] = <<>>
    BY <1>1, <1>3
  <2>2. Prefix(<<>>, 0)
    OBVIOUS
  <2>3. Prefix(Combined[0], 0)
    BY <2>1, <2>2
  <2> QED
    BY <2>3
<1>5. ASSUME NEW i \in P PROVE i + 1 \in P
  <2> SUFFICES ASSUME i + 1 <= n PROVE Prefix(Combined[i + 1], i + 1)
    OBVIOUS
  <2>1. i \in Nat /\ i + 1 \in 1 .. n /\ Prefix(Combined[i], i)
    BY <1>1
  <2>2. definition_order[i + 1] \in ToSet(done) /\ definition_order[i + 1] \in Structs(ast)
    BY <1>1, <2>1 DEF AllGenerated
  <2>3. definition_order[i + 1] \notin ToSet(Combined[i])
    <3>1. ASSUME NEW j \in 1 .. i PROVE Combined[i][j] # definition_order[i + 1]
      BY <1>1, <2>1 DEF AllGenerated
    <3> QED
      BY <2>1, <3>1 DEF ToSet
  <2>4. Combined[i + 1] = Append(Combined[i], definition_order[i + 1])
    <3>1. i + 1 \in 0 .. n /\ i + 1 # 0 /\ (i + 1) - 1 = i
      BY <1>1, <2>1
    <3> QED
      BY <1>3, <2>2, <2>3, <3>1
  <2> QED
    BY <2>1, <2>2, <2>4
<1> HIDE DEF P
<1>6. P = Nat
  <2>1. P \in SUBSET Nat
    BY DEF P
  <2> QED
    BY <1>4, <1>5, <2>1, Induct
<1>7. Prefix(Combined[n], n)
  BY <1>1, <1>6 DEF P
<1> QED
  BY <1>1, <1>7, SeqEqual DEF n, TypeOK

LEMMA PrintedInOrder ==
    ASSUME TypeOK, Bookkeeping, InDefinitionOrder, PrintStructs
    PROVE  OutputInOrder'
<1> SUFFICES ASSUME result'.kind = "ok" PROVE OutputInOrder'
  BY DEF OutputInOrder
<1>1. /\ at = "generate" /\ todo = {} /\ ast' = ast
      /\ result'.output = Combined[Len(definition_order)]
  BY DEF PrintStructs, LayerDone, Finished
<1>2. Scanned = StructDefs(ast) /\ ToSet(done) = Structs(ast) /\ Order!Valid
  BY <1>1, AllScanned, BookkeepingParts DEF PhaseRight
<1>3. /\ Len(definition_order) = Cardinality(StructDefs(ast))
      /\ \A i \in DOMAIN definition_order :
            \E a \in StructDefs(ast) : ast[a].name = definition_order[i]
      /\ \A i, j \in DOMAIN definition_order : i < j =>
            \A a, b \in StructDefs(ast) :
               ast[a].name = definition_order[i] /\ ast[b].name = definition_order[j] => a < b
  BY <1>1, <1>2 DEF InDefinitionOrder
<1>4. \A a \in StructDefs(ast) : DefOf(ast, ast[a].name) = a /\ a \in Nat
  BY <1>2, OneDefinition, AstShape DEF TypeOK
<1>5. AllGenerated
  <2>1. \A i \in DOMAIN definition_order : definition_order[i] \in ToSet(done)
    BY <1>2, <1>3 DEF Structs
  <2>2. ASSUME NEW i \in DOMAIN definition_order, NEW j \in DOMAIN definition_order, i < j,
               definition_order[i] = definition_order[j]
        PROVE  FALSE
    <3>1. PICK a \in StructDefs(ast) : ast[a].name = definition_order[i]
      BY <1>3
    <3>2. a < a /\ a \in Nat
      BY <1>3, <1>4, <2>2, <3>1
    <3> QED
      BY <3>2
  <2> QED
    BY <2>1, <2>2 DEF AllGenerated
<1>6. result'.output = definition_order
  BY <1>1, <1>5, AllCombined
<1>7. ASSUME NEW i \in DOMAIN definition_order, NEW j \in DOMAIN definition_order, i < j
      PROVE  DefOf(ast, definition_order[i]) < DefOf(ast, definition_order[j])
  <2>1. PICK a \in StructDefs(ast) : ast[a].name = definition_order[i]
    BY <1>3
  <2>2. PICK b \in StructDefs(ast) : ast[b].name = definition_order[j]
    BY <1>3
  <2>3. DefOf(ast, ast[a].name) = a /\ DefOf(ast, ast[b].name) = b
    BY <1>4
  <2> QED
    BY <1>3, <1>7, <2>1, <2>2, <2>3
<1>8. \A s : DefOf(ast, s)' = DefOf(ast, s)
  BY <1>1 DEF DefOf, StructDefs
<1>9. Cardinality(StructDefs(ast))' = Cardinality(StructDefs(ast))
  BY <1>1 DEF StructDefs
<1> QED
  BY <1>3, <1>6, <1>7, <1>8, <1>9 DEF OutputInOrder

LEMMA OutputStep ==
    TypeOK /\ Bookkeeping /\ InDefinitionOrder /\ OutputInOrder /\ [Next]_vars => OutputInOrder'
<1> SUFFICES ASSUME TypeOK, Bookkeeping, InDefinitionOrder, OutputInOrder, [Next]_vars
             PROVE  OutputInOrder'
  OBVIOUS
<1>1. CASE UNCHANGED <<ast, result>>
  BY <1>1 DEF OutputInOrder, DefOf, StructDefs
<1>2. ASSUME NEW kind, NEW names, Fail(kind, names), kind # "ok"
      PROVE  OutputInOrder'
  BY <1>2 DEF Fail, Finished, OutputInOrder
<1>3. CASE RejectErrors
  <2>1. \A e \in error_enum : ast[e].fails # "ok"
    <3>1. \A e \in ErrorDefs(ast) : ast[e] \in Struct \cup Errors
      BY SpecsAssumption DEF TypeOK, Asts, ErrorDefs
    <3>2. \A e \in ErrorDefs(ast) : ast[e].fails \in ErrorFails
      BY <3>1 DEF ErrorDefs, Struct, Errors
    <3> QED
      BY <3>2 DEF TypeOK, ErrorFails
  <2> QED
    BY <1>2, <1>3, <2>1 DEF RejectErrors
<1>4. CASE RejectStruct
  BY <1>2, <1>4 DEF RejectStruct, Verdict
<1>5. CASE RejectStructTwice \/ RejectErrorsTwice \/ RejectUnknown \/ RejectCycle
  BY <1>2, <1>5 DEF RejectStructTwice, RejectErrorsTwice, RejectUnknown, RejectCycle
<1>6. CASE ScanStruct \/ ScanErrors \/ EndScan \/ Link \/ Generate \/ Notify \/ NextLayer
            \/ UNCHANGED vars
  BY <1>1, <1>6 DEF ScanStruct, ScanErrors, EndScan, Link, Generate, Notify, NextLayer, vars
<1> QED
  BY <1>3, <1>4, <1>5, <1>6, PrintedInOrder DEF Next, Scan, Check, Work

\* The code comes out in the order of the definitions, with every struct once,
\* whatever order the hash maps gave the work (lib.rs, print).
THEOREM CodeInDefinitionOrder == Spec => []OutputInOrder
<1>1. Init => OutputInOrder
  BY DEF Init, NoResult, OutputInOrder
<1> QED
  BY <1>1, OutputStep, ScannedInOrder, CodegenTypeCorrect, CodegenBookkeeping, PTL DEF Spec

=============================================================================
