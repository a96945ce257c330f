------------------------ MODULE BackReferencesProofs ------------------------
(***************************************************************************)
(* Proofs about BackReferences: every name and every blob is read back as  *)
(* it was written, whatever earlier bytes it refers to, and a written name *)
(* costs its reader one jump.                                              *)
(***************************************************************************)
EXTENDS BackReferences, Integers, WellFoundedInduction, SequenceTheorems, TLAPS

\* Induction over the natural numbers, from the well-foundedness of <.
LEMMA LeastOf ==
    ASSUME NEW T, T \subseteq Nat, T # {}
    PROVE  \E x \in T : \A y \in T : x <= y
<1>1. \E x \in T : \A y \in T : ~ (<<y, x>> \in OpToRel(<, Nat))
  BY WFMin, NatLessThanWellFounded, Zenon
<1>2. ASSUME NEW x \in T, NEW y \in T, ~ (<<y, x>> \in OpToRel(<, Nat)) PROVE x <= y
  BY <1>2 DEF OpToRel
<1> QED
  BY <1>1, <1>2

LEMMA Induct ==
    ASSUME NEW P \in SUBSET Nat, 0 \in P, \A n \in P : n + 1 \in P
    PROVE  P = Nat
<1> SUFFICES ASSUME P # Nat PROVE FALSE
  OBVIOUS
<1>1. Nat \ P # {} /\ Nat \ P \subseteq Nat
  OBVIOUS
<1>2. PICK n \in Nat \ P : \A m \in Nat \ P : n <= m
  BY <1>1, LeastOf
<1>3. n - 1 \in Nat /\ ~(n <= n - 1)
  BY <1>2
<1> QED
  BY <1>2, <1>3

-----------------------------------------------------------------------------
(* Recursion towards the end of a sequence.                                *)

\* The values of a recursion that goes on from p at r.behind[p], with r.front[p] in front
\* where p joins, until it stops.
OneTurn(r, p, f) ==
    IF p \in r.stops THEN r.value[p]
    ELSE IF p \in r.joins THEN r.front[p] \o f[r.behind[p]] ELSE f[r.behind[p]]

Runs(n, k, r, f) == f = [p \in n - k .. n |-> OneTurn(r, p, f)]

LEMMA RunsExist ==
    ASSUME NEW n \in Nat, NEW r, \A p \in 0 .. n : p \notin r.stops => r.behind[p] \in p + 1 .. n
    PROVE  \E f : Runs(n, n, r, f)
<1> DEFINE P == {k \in Nat : k <= n => \E f : Runs(n, k, r, f)}
<1>1. ASSUME NEW k \in Nat, k <= n, NEW f,
             \A p \in n - k .. n : p # n - k => f[p] = OneTurn(r, p, f)
      PROVE  \E g : Runs(n, k, r, g)
  <2> DEFINE g == [p \in n - k .. n |-> IF p = n - k THEN OneTurn(r, p, f) ELSE f[p]]
  <2>1. ASSUME NEW p \in n - k .. n PROVE g[p] = OneTurn(r, p, g)
    <3>1. p \in 0 .. n
      BY <1>1
    <3>2. p \notin r.stops => r.behind[p] \in n - k .. n /\ r.behind[p] # n - k
      BY <1>1, <3>1
    <3>3. p \notin r.stops => g[r.behind[p]] = f[r.behind[p]]
      BY <3>2
    <3>4. OneTurn(r, p, g) = OneTurn(r, p, f)
      <4> HIDE DEF g
      <4> QED
        BY <3>3 DEF OneTurn
    <3> QED
      BY <1>1, <3>4
  <2>2. g = [p \in n - k .. n |-> g[p]]
    OBVIOUS
  <2> HIDE DEF g
  <2>3. Runs(n, k, r, g)
    BY <2>1, <2>2 DEF Runs
  <2> QED
    BY <2>3
<1>2. 0 \in P
  <2>1. \A p \in n - 0 .. n : p = n - 0
    OBVIOUS
  <2>2. \E g : Runs(n, 0, r, g)
    BY <1>1, <2>1
  <2> QED
    BY <2>2
<1>3. ASSUME NEW k \in P PROVE k + 1 \in P
  <2> SUFFICES ASSUME k + 1 <= n PROVE \E g : Runs(n, k + 1, r, g)
    OBVIOUS
  <2>1. k \in Nat /\ k <= n
    OBVIOUS
  <2>2. PICK f : Runs(n, k, r, f)
    BY <2>1
  <2>3. \A p \in n - k .. n : f[p] = OneTurn(r, p, f)
    BY <2>2 DEF Runs
  <2>4. \A p \in n - (k + 1) .. n : p # n - (k + 1) => p \in n - k .. n
    BY <2>1
  <2> QED
    BY <1>1, <2>1, <2>3, <2>4
<1>4. P \in SUBSET Nat
  OBVIOUS
<1>5. n \in P
  <2> HIDE DEF P
  <2> QED
    BY <1>2, <1>3, <1>4, Induct
<1> QED
  BY <1>5

\* Each value is one turn before the value behind it.
LEMMA RunsOver ==
    ASSUME NEW n \in Nat, NEW r, NEW f, Runs(n, n, r, f)
    PROVE  f = [p \in 0 .. n |-> OneTurn(r, p, f)]
<1>1. n - n = 0
  OBVIOUS
<1> QED
  BY <1>1 DEF Runs

-----------------------------------------------------------------------------
(* Bytes of a message.                                                     *)

ByteValues == 0 .. Base - 1
Text == Seq(ByteValues)

\* q lies at i in m.
Holds(m, i, q) == i + Len(q) <= Len(m) /\ \A k \in 1 .. Len(q) : m[i + k] = q[k]

LEMMA Joined ==
    ASSUME NEW S, NEW a \in Seq(S), NEW b \in Seq(S)
    PROVE  /\ a \o b \in Seq(S) /\ Len(a) \in Nat /\ Len(b) \in Nat
           /\ Len(a \o b) = Len(a) + Len(b)
           /\ \A k \in 1 .. Len(a) : (a \o b)[k] = a[k]
           /\ \A k \in 1 .. Len(b) : (a \o b)[Len(a) + k] = b[k]
<1>1. a \o b \in Seq(S) /\ Len(a) \in Nat /\ Len(b) \in Nat /\ Len(a \o b) = Len(a) + Len(b)
  OBVIOUS
<1>2. \A k \in 1 .. Len(a) : (a \o b)[k] = a[k]
  OBVIOUS
<1>3. \A k \in 1 .. Len(b) : (a \o b)[Len(a) + k] = b[k]
  OBVIOUS
<1> QED
  BY <1>1, <1>2, <1>3

LEMMA Cut ==
    ASSUME NEW S, NEW q \in Seq(S), NEW i \in 1 .. Len(q) + 1, NEW j \in i - 1 .. Len(q)
    PROVE  /\ SubSeq(q, i, j) \in Seq(S) /\ Len(SubSeq(q, i, j)) = j - i + 1
           /\ \A k \in 1 .. j - i + 1 : SubSeq(q, i, j)[k] = q[i + k - 1]
<1>1. Len(q) \in Nat /\ i \in Nat /\ j \in Nat /\ j - i + 1 \in Nat
  OBVIOUS
<1>2. Len(SubSeq(q, i, j)) = j - i + 1
  BY <1>1
<1>3. \A k \in 1 .. j - i + 1 : SubSeq(q, i, j)[k] = q[i + k - 1]
  BY <1>1
<1>4. SubSeq(q, i, j) \in Seq(S)
  BY <1>1
<1> QED
  BY <1>2, <1>3, <1>4

LEMMA HoldsOn ==
    ASSUME NEW S, NEW m \in Seq(S), NEW b \in Seq(S), NEW i \in Nat, NEW q, Len(q) \in Nat,
           Holds(m, i, q)
    PROVE  Holds(m \o b, i, q)
<1>1. /\ Len(m) \in Nat /\ Len(b) \in Nat /\ Len(m \o b) = Len(m) + Len(b)
      /\ \A k \in 1 .. Len(m) : (m \o b)[k] = m[k]
  BY Joined
<1>2. \A k \in 1 .. Len(q) : i + k \in 1 .. Len(m)
  BY <1>1 DEF Holds
<1> QED
  BY <1>1, <1>2 DEF Holds

LEMMA HoldsNew ==
    ASSUME NEW S, NEW m \in Seq(S), NEW b \in Seq(S)
    PROVE  Holds(m \o b, Len(m), b)
BY Joined DEF Holds

LEMMA HoldsBoth ==
    ASSUME NEW S, NEW m \in Seq(S), NEW a \in Seq(S), NEW b \in Seq(S)
    PROVE  /\ Holds(m \o (a \o b), Len(m), a)
           /\ Holds(m \o (a \o b), Len(m) + Len(a), b)
<1>1. /\ m \o a \in Seq(S) /\ Len(m \o a) = Len(m) + Len(a)
      /\ Len(m) \in Nat /\ Len(a) \in Nat
  BY Joined
<1>2. Holds(m \o a, Len(m), a)
  BY HoldsNew
<1>3. Holds((m \o a) \o b, Len(m), a)
  BY <1>1, <1>2, HoldsOn
<1>4. Holds((m \o a) \o b, Len(m \o a), b)
  BY <1>1, HoldsNew
<1>5. m \o (a \o b) = (m \o a) \o b
  OBVIOUS
<1> QED
  BY <1>1, <1>3, <1>4, <1>5

\* What find_subslice finds is there.
LEMMA FoundHolds ==
    ASSUME msg \in Text, NEW q \in Text, Found(q) # {}
    PROVE  /\ FirstOf(Found(q)) \in Nat /\ Holds(msg, FirstOf(Found(q)), q)
<1> DEFINE p == FirstOf(Found(q))
<1>1. Len(msg) \in Nat /\ Len(q) \in Nat
  BY DEF Text
<1>2. Found(q) \subseteq Nat
  BY <1>1 DEF Found, Size
<1>3. \E i \in Found(q) : \A j \in Found(q) : i <= j
  BY <1>2, LeastOf
<1>4. p \in Found(q)
  BY <1>3 DEF FirstOf
<1> HIDE DEF p
<1>5. p \in Nat /\ p + Len(q) <= Len(msg) /\ SubSeq(msg, p + 1, p + Len(q)) = q
  BY <1>1, <1>4 DEF Found, Size
<1>6. ASSUME NEW k \in 1 .. Len(q) PROVE msg[p + k] = q[k]
  <2>1. p + 1 \in 1 .. Len(msg) + 1 /\ p + Len(q) \in (p + 1) - 1 .. Len(msg)
        /\ (p + Len(q)) - (p + 1) + 1 = Len(q) /\ (p + 1) + k - 1 = p + k
    BY <1>1, <1>5
  <2> QED
    BY <1>5, <2>1, Cut DEF Text
<1> QED
  BY <1>5, <1>6 DEF Holds, p

-----------------------------------------------------------------------------
(* What the writers leave.                                                 *)

Pointer(p) == <<Tag + p \div Base, p % Base>>

\* The name at `at` is there in full, or up to a label with a pointer to the rest,
\* which ends before it.
NameAt(m, at, name, starts, t, p) ==
    /\ t \in starts /\ p \in Nat
    /\ IF t = Len(name) - 1 THEN Holds(m, at, name)
       ELSE /\ Holds(m, at, SubSeq(name, 1, t)) /\ Holds(m, at + t, Pointer(p))
            /\ p < PointerLimit /\ p + (Len(name) - t) <= at /\ Holds(m, p, From(name, t))

Room(name, t) == IF t = Len(name) - 1 THEN Len(name) ELSE t + 2

\* The blob is there, or a pointer to where it is.
BlobAt(m, at, value, used) ==
    /\ Len(value) < Base
    /\ \/ used = 2 + Len(value) /\ Holds(m, at, Inline(value))
       \/ used = 3 /\ \E p \in Nat : /\ p < Base * Base /\ Holds(m, p, Inline(value))
                                     /\ Holds(m, at, <<0, p \div Base, p % Base>>)

LEMMA AfterIs ==
    ASSUME NEW name \in Text, NEW s \in Nat, s < Len(name)
    PROVE  After(name, s) \in s + 1 .. Len(name)
<1>1. Len(name) \in Nat /\ s + 1 \in 1 .. Len(name)
  BY DEF Text
<1>2. name[s + 1] \in Nat
  BY <1>1, BaseAssumption DEF Text, ByteValues
<1> QED
  BY <1>1, <1>2 DEF After

\* The loop of write_dns_name.
Writing(name, f) ==
    f = [s \in 0 .. Len(name) |->
            IF s = Len(name) \/ name[s + 1] = 0 THEN name
            ELSE LET found == Found(Suffix(name, s))
                 IN  IF found # {} /\ FirstOf(found) < PointerLimit
                     THEN SubSeq(name, 1, s) \o <<Tag + FirstOf(found) \div Base,
                                                  FirstOf(found) % Base>>
                     ELSE f[After(name, s)]]

Referring(name, s) ==
    Found(Suffix(name, s)) # {} /\ FirstOf(Found(Suffix(name, s))) < PointerLimit

Referred(name, s) == SubSeq(name, 1, s) \o Pointer(FirstOf(Found(Suffix(name, s))))

LEMMA WritingIs ==
    ASSUME NEW name \in Text
    PROVE  \E f : Writing(name, f) /\ NameBytes(name) = f[0]
<1> DEFINE n == Len(name)
           r == [stops |-> {s \in 0 .. n : s = n \/ name[s + 1] = 0 \/ Referring(name, s)},
                 value |-> [s \in 0 .. n |-> IF s = n \/ name[s + 1] = 0 THEN name
                                                                     ELSE Referred(name, s)],
                 behind |-> [s \in 0 .. n |-> After(name, s)], joins |-> {}, front |-> <<>>]
<1>1. n \in Nat
  BY DEF Text
<1>2. \A s \in 0 .. n : s \notin r.stops => r.behind[s] \in s + 1 .. n
  BY <1>1, AfterIs
<1>3. PICK f : f = [s \in 0 .. n |-> OneTurn(r, s, f)]
  <2> HIDE DEF n, r
  <2> QED
    BY <1>1, <1>2, RunsExist, RunsOver
<1>4. Writing(name, f)
  <2>1. ASSUME NEW s \in 0 .. n
        PROVE  OneTurn(r, s, f)
                 = IF s = n \/ name[s + 1] = 0 THEN name
                   ELSE LET found == Found(Suffix(name, s))
                        IN  IF found # {} /\ FirstOf(found) < PointerLimit
                            THEN SubSeq(name, 1, s) \o <<Tag + FirstOf(found) \div Base,
                                                         FirstOf(found) % Base>>
                            ELSE f[After(name, s)]
    BY DEF OneTurn, Referring, Referred, Pointer
  <2> HIDE DEF r
  <2> QED
    BY <1>3, <2>1 DEF Writing
<1>5. \E g : Writing(name, g)
  BY <1>4
<1> QED
  BY <1>5 DEF NameBytes, Writing

\* A name is written in full, or up to a label that is there with the rest of the name.
LEMMA NameWritten ==
    ASSUME msg \in Text, NEW name \in Text, NEW starts, Starts(name, starts)
    PROVE  \/ NameBytes(name) = name
           \/ \E t \in starts \ {Len(name) - 1}, p \in Nat :
                 /\ p < PointerLimit /\ Holds(msg, p, From(name, t))
                 /\ NameBytes(name) = SubSeq(name, 1, t) \o Pointer(p)
<1> DEFINE n == Len(name)
           Right(q) == \/ q = name
                       \/ \E t \in starts \ {n - 1}, p \in Nat :
                             /\ p < PointerLimit /\ Holds(msg, p, From(name, t))
                             /\ q = SubSeq(name, 1, t) \o Pointer(p)
<1>1. n \in Nat /\ starts \subseteq 0 .. n - 1 /\ 0 \in starts /\ n - 1 \in starts /\ name[n] = 0
  BY DEF Text, Starts
<1>2. PICK f : Writing(name, f) /\ NameBytes(name) = f[0]
  BY WritingIs
<1>3. \A s \in 0 .. n :
        f[s] = IF s = n \/ name[s + 1] = 0 THEN name
               ELSE IF Referring(name, s) THEN Referred(name, s) ELSE f[After(name, s)]
  BY <1>2 DEF Writing, Referring, Referred, Pointer
<1> DEFINE P == {k \in Nat : \A s \in starts : s >= n - 1 - k => Right(f[s])}
<1>4. ASSUME NEW s \in starts, \A u \in starts : u > s => Right(f[u])
      PROVE  Right(f[s])
  <2>1. s \in 0 .. n /\ s \in Nat /\ s < n
    BY <1>1
  <2>2. CASE s = n - 1
    <3>1. s + 1 = n
      BY <1>1, <2>2
    <3>2. f[s] = name
      BY <1>1, <1>3, <2>1, <3>1
    <3> QED
      BY <3>2
  <2>3. CASE s # n - 1 /\ Referring(name, s)
    <3> DEFINE p == FirstOf(Found(Suffix(name, s)))
    <3>1. name[s + 1] # 0
      BY <2>3 DEF Starts
    <3>2. f[s] = SubSeq(name, 1, s) \o Pointer(p)
      <4>1. f[s] = Referred(name, s)
        BY <1>3, <2>1, <2>3, <3>1
      <4> QED
        BY <4>1 DEF Referred
    <3>3. Suffix(name, s) \in Text
      BY <1>1, <2>1, Cut DEF Suffix, From, Text
    <3>4. p \in Nat /\ Holds(msg, p, From(name, s)) /\ p < PointerLimit
      BY <2>3, <3>3, FoundHolds DEF Referring, Suffix
    <3> HIDE DEF p
    <3> QED
      BY <2>3, <3>2, <3>4
  <2>4. CASE s # n - 1 /\ ~Referring(name, s)
    <3>1. name[s + 1] \in 1 .. Tag - 1 /\ s + 1 + name[s + 1] \in starts
      BY <2>4 DEF Starts
    <3>2. name[s + 1] # 0 /\ name[s + 1] \in Nat /\ name[s + 1] > 0
      BY <3>1, BaseAssumption
    <3>3. After(name, s) = s + 1 + name[s + 1]
      BY <1>1, <3>1 DEF After
    <3>4. f[s] = f[After(name, s)]
      BY <1>3, <2>1, <2>4, <3>2
    <3>5. After(name, s) \in starts /\ After(name, s) > s
      BY <2>1, <3>1, <3>2, <3>3
    <3> QED
      BY <1>4, <3>4, <3>5
  <2> QED
    BY <2>2, <2>3, <2>4
<1> HIDE DEF Right
<1>5. 0 \in P
  <2>1. ASSUME NEW s \in starts, s >= n - 1 - 0 PROVE Right(f[s])
    <3>1. \A u \in starts : ~(u > s)
      BY <1>1, <2>1
    <3> QED
      BY <1>4, <3>1
  <2> QED
    BY <2>1
<1>6. ASSUME NEW k \in P PROVE k + 1 \in P
  <2>1. k \in Nat /\ \A s \in starts : s >= n - 1 - k => Right(f[s])
    OBVIOUS
  <2>2. ASSUME NEW s \in starts, s >= n - 1 - (k + 1) PROVE Right(f[s])
    <3>1. \A u \in starts : u > s => u >= n - 1 - k
      BY <1>1, <2>1, <2>2
    <3> QED
      BY <1>4, <2>1, <3>1
  <2> QED
    BY <2>1, <2>2
<1>7. P \in SUBSET Nat
  OBVIOUS
<1>8. n \in P
  <2> HIDE DEF P
  <2> QED
    BY <1>1, <1>5, <1>6, <1>7, Induct
<1>9. Right(f[0])
  <2>1. 0 >= n - 1 - n
    BY <1>1
  <2> QED
    BY <1>1, <1>8, <2>1
<1> QED
  BY <1>2, <1>9 DEF Right

-----------------------------------------------------------------------------
(* What a reader finds.                                                    *)

\* The label of `name` that starts at s lies at i in m.
LabelHere(m, i, name, s) ==
    i + 1 + name[s + 1] <= Len(m) /\ \A k \in 0 .. name[s + 1] : m[i + 1 + k] = name[s + 1 + k]

LEMMA StartsAre ==
    ASSUME NEW name \in Text, NEW starts, Starts(name, starts)
    PROVE  /\ Len(name) \in Nat \ {0} /\ starts \subseteq 0 .. Len(name) - 1
           /\ 0 \in starts /\ Len(name) - 1 \in starts /\ name[Len(name)] = 0
           /\ \A i \in 1 .. Len(name) : name[i] \in Nat
           /\ \A s \in starts \ {Len(name) - 1} :
                 /\ name[s + 1] \in 1 .. Tag - 1 /\ name[s + 1] \in Nat
                 /\ s + 1 + name[s + 1] \in starts /\ s + 1 + name[s + 1] <= Len(name) - 1
                 /\ \A u \in starts : u > s => u >= s + 1 + name[s + 1]
<1>1. Len(name) \in Nat /\ \A i \in 1 .. Len(name) : name[i] \in Nat
  BY BaseAssumption DEF Text, ByteValues
<1>2. /\ starts \subseteq 0 .. Len(name) - 1 /\ 0 \in starts /\ Len(name) - 1 \in starts
      /\ name[Len(name)] = 0
  BY DEF Starts
<1>3. Len(name) # 0
  BY <1>1, <1>2
<1>4. ASSUME NEW s \in starts \ {Len(name) - 1}
      PROVE  /\ name[s + 1] \in 1 .. Tag - 1 /\ s + 1 + name[s + 1] \in starts
             /\ \A u \in starts : u > s => u >= s + 1 + name[s + 1]
  BY DEF Starts
<1>5. ASSUME NEW s \in starts \ {Len(name) - 1}
      PROVE  name[s + 1] \in Nat /\ s + 1 + name[s + 1] <= Len(name) - 1
  BY <1>1, <1>2, <1>4, BaseAssumption
<1> QED
  BY <1>1, <1>2, <1>3, <1>4, <1>5

\* The labels in front of the pointer, or all of them, are where the name was written.
LEMMA LabelsInPlace ==
    ASSUME msg \in Text, NEW name \in Text, NEW starts, Starts(name, starts), NEW t, NEW p,
           NEW at \in Nat, NameAt(msg, at, name, starts, t, p),
           NEW s \in starts, s # Len(name) - 1, s < t \/ t = Len(name) - 1
    PROVE  LabelHere(msg, at + s, name, s)
<1>1. /\ Len(name) \in Nat /\ s \in Nat /\ t \in Nat /\ s + 1 + name[s + 1] \in starts
      /\ s + 1 + name[s + 1] <= Len(name) - 1 /\ name[s + 1] \in Nat /\ t <= Len(name) - 1
      /\ s < t => s + 1 + name[s + 1] <= t
  BY StartsAre DEF NameAt
<1>2. CASE t = Len(name) - 1
  <2>1. Holds(msg, at, name)
    BY <1>2 DEF NameAt
  <2>2. \A k \in 0 .. name[s + 1] : s + 1 + k \in 1 .. Len(name) /\ at + s + 1 + k = at + (s + 1 + k)
    BY <1>1
  <2>3. \A k \in 0 .. name[s + 1] : msg[at + s + 1 + k] = name[s + 1 + k]
    BY <2>1, <2>2 DEF Holds
  <2>4. at + s + 1 + name[s + 1] <= Len(msg)
    <3>1. Len(msg) \in Nat
      BY DEF Text
    <3> QED
      BY <1>1, <2>1, <3>1 DEF Holds
  <2> QED
    BY <2>3, <2>4 DEF LabelHere
<1>3. CASE t # Len(name) - 1
  <2>1. Holds(msg, at, SubSeq(name, 1, t)) /\ s + 1 + name[s + 1] <= t
    BY <1>1, <1>3 DEF NameAt
  <2>2. /\ Len(SubSeq(name, 1, t)) = t
        /\ \A k \in 1 .. t : SubSeq(name, 1, t)[k] = name[k]
    <3>1. 1 \in 1 .. Len(name) + 1 /\ t \in 1 - 1 .. Len(name) /\ t - 1 + 1 = t
          /\ \A k \in 1 .. t : 1 + k - 1 = k
      BY <1>1
    <3> QED
      BY <3>1, Cut DEF Text
  <2>3. \A k \in 0 .. name[s + 1] : s + 1 + k \in 1 .. t /\ at + s + 1 + k = at + (s + 1 + k)
    BY <1>1, <2>1
  <2>4. \A k \in 0 .. name[s + 1] : msg[at + s + 1 + k] = name[s + 1 + k]
    <3>1. \A j \in 1 .. t : msg[at + j] = name[j]
      BY <2>1, <2>2 DEF Holds
    <3> QED
      BY <2>3, <3>1
  <2>5. at + s + 1 + name[s + 1] <= Len(msg)
    <3>1. Len(msg) \in Nat
      BY DEF Text
    <3> QED
      BY <1>1, <2>1, <2>2, <3>1 DEF Holds
  <2> QED
    BY <2>4, <2>5 DEF LabelHere
<1> QED
  BY <1>2, <1>3

\* The others are where the pointer points.
LEMMA LabelsPointedTo ==
    ASSUME msg \in Text, NEW name \in Text, NEW starts, Starts(name, starts), NEW t, NEW p,
           NEW at \in Nat, NameAt(msg, at, name, starts, t, p), t # Len(name) - 1
    PROVE  /\ p \in Nat /\ p + (Len(name) - t) <= Len(msg)
           /\ \A k \in t + 1 .. Len(name) : msg[p + (k - t)] = name[k]
<1>1. Len(name) \in Nat /\ t \in Nat /\ t < Len(name) /\ p \in Nat /\ Len(msg) \in Nat
      /\ Holds(msg, p, From(name, t))
  BY StartsAre DEF NameAt, Text
<1>2. /\ Len(From(name, t)) = Len(name) - t
      /\ \A k \in 1 .. Len(name) - t : From(name, t)[k] = name[t + k]
  <2>1. t + 1 \in 1 .. Len(name) + 1 /\ Len(name) \in (t + 1) - 1 .. Len(name)
        /\ Len(name) - (t + 1) + 1 = Len(name) - t
        /\ \A k \in 1 .. Len(name) - t : (t + 1) + k - 1 = t + k
    BY <1>1
  <2> QED
    BY <2>1, Cut DEF Text, From
<1>3. \A k \in t + 1 .. Len(name) : k - t \in 1 .. Len(name) - t /\ t + (k - t) = k
  BY <1>1
<1> QED
  BY <1>1, <1>2, <1>3 DEF Holds

\* The pointer itself.
LEMMA PointerInPlace ==
    ASSUME msg \in Text, NEW name \in Text, NEW starts, Starts(name, starts), NEW t, NEW p,
           NEW at \in Nat, NameAt(msg, at, name, starts, t, p), t # Len(name) - 1
    PROVE  /\ at + t + 2 <= Len(msg) /\ msg[at + t + 1] = Tag + p \div Base
           /\ msg[at + t + 2] = p % Base /\ msg[at + t + 1] >= Tag
           /\ (msg[at + t + 1] - Tag) * Base + msg[at + t + 2] = p
<1>1. t \in Nat /\ p \in Nat /\ Holds(msg, at + t, Pointer(p)) /\ Len(msg) \in Nat
  BY StartsAre DEF NameAt, Text
<1>2. Len(Pointer(p)) = 2 /\ Pointer(p)[1] = Tag + p \div Base /\ Pointer(p)[2] = p % Base
  BY DEF Pointer
<1>3. /\ at + t + 2 <= Len(msg) /\ msg[at + t + 1] = Tag + p \div Base
      /\ msg[at + t + 2] = p % Base
  BY <1>1, <1>2 DEF Holds
<1>4. p \div Base \in Nat /\ ((p \div Base) * Base) + (p % Base) = p /\ Tag \in Nat
  <2>1. \A b \in Nat : b > 0 => p \div b \in Nat /\ ((p \div b) * b) + (p % b) = p
    BY <1>1
  <2> QED
    BY <2>1, BaseAssumption
<1>5. (Tag + p \div Base) - Tag = p \div Base /\ Tag + p \div Base >= Tag
  BY <1>4
<1> QED
  BY <1>3, <1>4, <1>5

-----------------------------------------------------------------------------
(* dns_name.                                                               *)

\* Its loop, over the labels up to a pointer or the terminator.
Scanning(at, f) ==
    f = [p \in 0 .. Size |->
            IF p = Size THEN NotRead
            ELSE IF Byte(p) >= Tag
                 THEN IF p + 2 > Size THEN NotRead ELSE Read(<<>>, p + 2 - at)
            ELSE IF Byte(p) = 0 THEN Read(<<>>, p + 1 - at)
            ELSE IF p + 1 + Byte(p) > Size THEN NotRead
            ELSE f[p + 1 + Byte(p)]]

GoesOn(p) == p < Size /\ Byte(p) < Tag /\ Byte(p) # 0 /\ p + 1 + Byte(p) <= Size

LEMMA ScanningIs ==
    ASSUME msg \in Text, NEW at
    PROVE  \E f : Scanning(at, f) /\ ReadName(at) = f[at]
<1> DEFINE r == [stops |-> {p \in 0 .. Size : ~GoesOn(p)},
                 value |-> [p \in 0 .. Size |->
                                IF p = Size THEN NotRead
                                ELSE IF Byte(p) >= Tag
                                     THEN IF p + 2 > Size THEN NotRead ELSE Read(<<>>, p + 2 - at)
                                ELSE IF Byte(p) = 0 THEN Read(<<>>, p + 1 - at)
                                ELSE NotRead],
                 behind |-> [p \in 0 .. Size |-> p + 1 + Byte(p)], joins |-> {}, front |-> <<>>]
<1>1. Size \in Nat /\ Tag \in Nat /\ \A p \in 0 .. Size : p # Size => Byte(p) \in Nat
  <2>1. Len(msg) \in Nat /\ \A j \in 1 .. Len(msg) : msg[j] \in Nat
    BY BaseAssumption DEF Text, ByteValues
  <2>2. \A p \in 0 .. Len(msg) : p # Len(msg) => p + 1 \in 1 .. Len(msg)
    BY <2>1
  <2> QED
    BY <2>1, <2>2, BaseAssumption DEF Size, Byte
<1>2. \A p \in 0 .. Size : p \notin r.stops => r.behind[p] \in p + 1 .. Size
  <2>1. ASSUME NEW p \in 0 .. Size, p \notin r.stops PROVE r.behind[p] \in p + 1 .. Size
    <3>1. GoesOn(p)
      BY <2>1
    <3>2. p + 1 + Byte(p) \in p + 1 .. Size
      BY <1>1, <3>1 DEF GoesOn
    <3> QED
      BY <3>2
  <2> QED
    BY <2>1
<1>3. PICK f : f = [p \in 0 .. Size |-> OneTurn(r, p, f)]
  <2> HIDE DEF r
  <2> QED
    BY <1>1, <1>2, RunsExist, RunsOver
<1>4. Scanning(at, f)
  <2>1. ASSUME NEW p \in 0 .. Size
        PROVE  OneTurn(r, p, f)
                 = IF p = Size THEN NotRead
                   ELSE IF Byte(p) >= Tag
                        THEN IF p + 2 > Size THEN NotRead ELSE Read(<<>>, p + 2 - at)
                   ELSE IF Byte(p) = 0 THEN Read(<<>>, p + 1 - at)
                   ELSE IF p + 1 + Byte(p) > Size THEN NotRead
                   ELSE f[p + 1 + Byte(p)]
    <3>1. CASE GoesOn(p)
      <4>1. OneTurn(r, p, f) = f[p + 1 + Byte(p)]
        BY <3>1 DEF OneTurn
      <4> QED
        BY <1>1, <3>1, <4>1 DEF GoesOn
    <3>2. CASE ~GoesOn(p)
      <4>1. OneTurn(r, p, f)
              = IF p = Size THEN NotRead
                ELSE IF Byte(p) >= Tag
                     THEN IF p + 2 > Size THEN NotRead ELSE Read(<<>>, p + 2 - at)
                ELSE IF Byte(p) = 0 THEN Read(<<>>, p + 1 - at)
                ELSE NotRead
        BY <3>2 DEF OneTurn
      <4>2. p # Size /\ ~(Byte(p) >= Tag) /\ Byte(p) # 0 => p + 1 + Byte(p) > Size
        BY <1>1, <3>2 DEF GoesOn
      <4> HIDE DEF r
      <4> QED
        BY <4>1, <4>2
    <3> QED
      BY <3>1, <3>2
  <2> HIDE DEF r
  <2> QED
    BY <1>3, <2>1 DEF Scanning
<1>5. \E g : Scanning(at, g)
  BY <1>4
<1> QED
  BY <1>5 DEF ReadName, Scanning

LEMMA NameIsRead ==
    ASSUME msg \in Text, NEW name \in Text, NEW starts, Starts(name, starts), NEW t, NEW p,
           NEW at \in Nat, NameAt(msg, at, name, starts, t, p)
    PROVE  ReadName(at) = Read(<<>>, Room(name, t))
<1> DEFINE n == Len(name)
           used == Read(<<>>, Room(name, t))
<1>1. /\ n \in Nat \ {0} /\ starts \subseteq 0 .. n - 1 /\ 0 \in starts /\ t \in starts
      /\ t \in Nat /\ n - 1 \in starts /\ name[n] = 0 /\ Len(msg) \in Nat /\ Tag \in Nat \ {0}
  BY StartsAre, BaseAssumption DEF NameAt, Text
<1>2. PICK f : Scanning(at, f) /\ ReadName(at) = f[at]
  BY ScanningIs
<1>3. \A i \in 0 .. Len(msg) :
        f[i] = IF i = Len(msg) THEN NotRead
               ELSE IF msg[i + 1] >= Tag
                    THEN IF i + 2 > Len(msg) THEN NotRead ELSE Read(<<>>, i + 2 - at)
               ELSE IF msg[i + 1] = 0 THEN Read(<<>>, i + 1 - at)
               ELSE IF i + 1 + msg[i + 1] > Len(msg) THEN NotRead
               ELSE f[i + 1 + msg[i + 1]]
  BY <1>2 DEF Scanning, Size, Byte
<1>4. f[at + t] = used
  <2>1. CASE t = n - 1
    <3>1. Holds(msg, at, name)
      BY <2>1 DEF NameAt
    <3>2. n \in 1 .. n /\ at + n <= Len(msg) /\ msg[at + n] = 0
      BY <1>1, <3>1 DEF Holds
    <3>3. at + t \in 0 .. Len(msg) /\ at + t # Len(msg) /\ at + t + 1 = at + n
      BY <1>1, <2>1, <3>2
    <3>4. f[at + t] = Read(<<>>, at + t + 1 - at)
      BY <1>1, <1>3, <3>2, <3>3
    <3>5. at + t + 1 - at = n
      BY <1>1, <2>1
    <3> QED
      BY <2>1, <3>4, <3>5 DEF Room
  <2>2. CASE t # n - 1
    <3>1. at + t + 2 <= Len(msg) /\ msg[at + t + 1] >= Tag
      BY <2>2, PointerInPlace
    <3>2. at + t \in 0 .. Len(msg) /\ at + t # Len(msg) /\ ~(at + t + 2 > Len(msg))
      BY <1>1, <3>1
    <3>3. f[at + t] = Read(<<>>, at + t + 2 - at)
      BY <1>3, <3>1, <3>2
    <3>4. at + t + 2 - at = t + 2
      BY <1>1
    <3> QED
      BY <2>2, <3>3, <3>4 DEF Room
  <2> QED
    BY <2>1, <2>2
<1> HIDE DEF used
<1> DEFINE P == {k \in Nat : \A s \in starts : s <= t /\ s >= t - k => f[at + s] = used}
<1>5. 0 \in P
  <2>1. ASSUME NEW s \in starts, s <= t, s >= t - 0 PROVE f[at + s] = used
    <3>1. s = t
      BY <1>1, <2>1
    <3> QED
      BY <1>4, <3>1
  <2> QED
    BY <2>1
<1>6. ASSUME NEW k \in P PROVE k + 1 \in P
  <2>1. k \in Nat /\ \A s \in starts : s <= t /\ s >= t - k => f[at + s] = used
    OBVIOUS
  <2>2. ASSUME NEW s \in starts, s <= t, s >= t - (k + 1) PROVE f[at + s] = used
    <3>1. CASE s = t
      BY <1>4, <3>1
    <3>2. CASE s # t
      <4>1. s < t /\ s # n - 1 /\ s \in Nat
        BY <1>1, <2>2, <3>2
      <4>2. /\ name[s + 1] \in 1 .. Tag - 1 /\ name[s + 1] \in Nat
            /\ s + 1 + name[s + 1] \in starts /\ s + 1 + name[s + 1] <= t
        BY <1>1, <4>1, StartsAre
      <4>3. LabelHere(msg, at + s, name, s)
        BY <4>1, LabelsInPlace
      <4>4. msg[at + s + 1] = name[s + 1] /\ at + s + 1 + name[s + 1] <= Len(msg)
        <5>1. 0 \in 0 .. name[s + 1] /\ at + s + 1 + 0 = at + s + 1 /\ s + 1 + 0 = s + 1
          BY <4>1, <4>2
        <5> QED
          BY <4>3, <5>1 DEF LabelHere
      <4>5. PICK d \in Nat : d = name[s + 1] /\ d > 0 /\ d < Tag
        BY <1>1, <4>2
      <4>6. /\ at + s \in 0 .. Len(msg) /\ at + s # Len(msg)
            /\ ~(d >= Tag) /\ d # 0 /\ ~(at + s + 1 + d > Len(msg))
        <5>1. at + s + 1 + d <= Len(msg) /\ Len(msg) \in Nat /\ Tag \in Nat
          BY <1>1, <4>4, <4>5
        <5> QED
          BY <4>1, <4>5, <5>1
      <4>7. f[at + s] = f[at + s + 1 + d]
        BY <1>3, <4>4, <4>5, <4>6
      <4>8. at + s + 1 + d = at + (s + 1 + d) /\ s + 1 + d >= t - k
        <5>1. t \in Nat /\ k \in Nat /\ s \in Nat /\ s >= t - (k + 1) /\ d \in Nat
          BY <1>1, <2>1, <2>2, <4>1
        <5> QED
          BY <5>1
      <4>9. s + 1 + d \in starts /\ s + 1 + d <= t
        BY <4>2, <4>5
      <4> QED
        BY <2>1, <4>7, <4>8, <4>9
    <3> QED
      BY <3>1, <3>2
  <2> QED
    BY <2>1, <2>2
<1>7. P \in SUBSET Nat
  OBVIOUS
<1>8. t \in P
  <2> HIDE DEF P
  <2> QED
    BY <1>1, <1>5, <1>6, <1>7, Induct
<1>9. f[at + 0] = used
  <2>1. 0 <= t /\ 0 >= t - t
    BY <1>1
  <2> QED
    BY <1>1, <1>8, <2>1
<1>10. at + 0 = at
  OBVIOUS
<1> QED
  BY <1>2, <1>9, <1>10 DEF used

-----------------------------------------------------------------------------
(* Blobs.                                                                  *)

LEMMA InlineIs ==
    ASSUME NEW value \in Text, Len(value) < Base
    PROVE  /\ Inline(value) \in Text /\ Len(value) \in Nat /\ Len(Inline(value)) = 2 + Len(value)
           /\ Inline(value)[1] = 1 /\ Inline(value)[2] = Len(value)
           /\ \A k \in 1 .. Len(value) : Inline(value)[2 + k] = value[k]
<1> DEFINE head == <<1, Len(value)>>
<1>1. Len(value) \in Nat /\ Base \in Nat /\ 1 < Base
  BY BaseAssumption DEF Text
<1>2. head \in Text /\ Len(head) = 2 /\ head[1] = 1 /\ head[2] = Len(value)
  <2>1. 1 \in ByteValues /\ Len(value) \in ByteValues
    BY <1>1 DEF ByteValues
  <2> QED
    BY <2>1 DEF Text
<1>3. Inline(value) = head \o value
  BY DEF Inline
<1> HIDE DEF head
<1>4. /\ head \o value \in Seq(ByteValues) /\ Len(head \o value) = Len(head) + Len(value)
      /\ \A k \in 1 .. Len(head) : (head \o value)[k] = head[k]
      /\ \A k \in 1 .. Len(value) : (head \o value)[Len(head) + k] = value[k]
  <2>1. head \in Seq(ByteValues) /\ value \in Seq(ByteValues)
    BY <1>2 DEF Text
  <2> QED
    BY <2>1, Joined
<1>5. 1 \in 1 .. Len(head) /\ 2 \in 1 .. Len(head)
  BY <1>2
<1> QED
  BY <1>1, <1>2, <1>3, <1>4, <1>5 DEF Text

\* The blob that lies at p is what backref_blob returns for it.
LEMMA InlineIsRead ==
    ASSUME msg \in Text, NEW value \in Text, Len(value) < Base, NEW p \in Nat, NEW used,
           Holds(msg, p, Inline(value))
    PROVE  /\ p + 2 <= Size /\ Byte(p) = 1 /\ Byte(p + 1) = Len(value)
           /\ ReadInline(p, used) = Read(value, used)
<1> DEFINE n == Len(value)
<1>1. /\ n \in Nat /\ Len(msg) \in Nat /\ p + (2 + n) <= Len(msg)
      /\ \A k \in 1 .. 2 + n : msg[p + k] = Inline(value)[k]
  BY InlineIs DEF Holds, Text
<1>2. msg[p + 1] = 1 /\ msg[p + 1 + 1] = n /\ \A k \in 1 .. n : msg[p + (2 + k)] = value[k]
  <2>1. 1 \in 1 .. 2 + n /\ 2 \in 1 .. 2 + n /\ p + 1 + 1 = p + 2 /\ \A k \in 1 .. n : 2 + k \in 1 .. 2 + n
    BY <1>1
  <2> QED
    BY <1>1, <2>1, InlineIs
<1>3. SubSeq(msg, p + 3, p + 2 + n) = value
  <2>1. /\ p + 3 \in 1 .. Len(msg) + 1 /\ p + 2 + n \in (p + 3) - 1 .. Len(msg)
        /\ (p + 2 + n) - (p + 3) + 1 = n /\ \A k \in 1 .. n : (p + 3) + k - 1 = p + (2 + k)
    BY <1>1
  <2>2. /\ SubSeq(msg, p + 3, p + 2 + n) \in Text /\ Len(SubSeq(msg, p + 3, p + 2 + n)) = n
        /\ \A k \in 1 .. n : SubSeq(msg, p + 3, p + 2 + n)[k] = msg[p + (2 + k)]
    BY <2>1, Cut DEF Text
  <2>3. \A k \in 1 .. n : SubSeq(msg, p + 3, p + 2 + n)[k] = value[k]
    BY <1>2, <2>2
  <2> QED
    BY <2>2, <2>3, SeqEqual DEF Text
<1>4. ~(p + 2 > Len(msg)) /\ ~(p + 2 + n > Len(msg)) /\ p + 2 <= Len(msg)
  BY <1>1
<1>5. Byte(p) = 1 /\ Byte(p + 1) = n
  BY <1>2 DEF Byte
<1> HIDE DEF n
<1>6. ReadInline(p, used) = Read(value, used)
  BY <1>3, <1>4, <1>5 DEF ReadInline, Size
<1> QED
  BY <1>4, <1>5, <1>6 DEF Size, n

\* A number below q * b has fewer than q whole parts of b, and is made of them.
LEMMA Parts ==
    ASSUME NEW b \in Nat, b > 0, NEW q \in Nat, NEW p \in Nat, p < q * b
    PROVE  p \div b \in Nat /\ p \div b < q /\ p % b \in 0 .. b - 1 /\ ((p \div b) * b) + (p % b) = p
<1>1. p \div b \in Nat /\ p % b \in 0 .. b - 1 /\ ((p \div b) * b) + (p % b) = p
  OBVIOUS
<1>2. p \div b < q
  <2> SUFFICES ASSUME p \div b >= q PROVE FALSE
    BY <1>1
  <2>1. (p \div b) * b >= q * b
    BY <1>1
  <2> QED
    BY <1>1, <2>1
<1> QED
  BY <1>1, <1>2

LEMMA BlobIsRead ==
    ASSUME msg \in Text, NEW value \in Text, NEW at \in Nat, NEW used, BlobAt(msg, at, value, used)
    PROVE  ReadBlob(at) = Read(value, used)
<1>1. Len(value) < Base /\ Len(msg) \in Nat /\ Len(value) \in Nat
  <2>1. Len(value) < Base
    BY Zenon DEF BlobAt
  <2> QED
    BY <2>1 DEF Text
<1>2. CASE used = 2 + Len(value) /\ Holds(msg, at, Inline(value))
  <2>1. at + 2 <= Size /\ Byte(at) = 1 /\ Byte(at + 1) = Len(value)
        /\ ReadInline(at, used) = Read(value, used)
    BY <1>1, <1>2, InlineIsRead
  <2>2. ~(at >= Size) /\ at + 1 < Size
    BY <1>1, <2>1 DEF Size
  <2> QED
    BY <1>2, <2>1, <2>2 DEF ReadBlob
<1>3. ASSUME used = 3, NEW p \in Nat, p < Base * Base,
             Holds(msg, at, <<0, p \div Base, p % Base>>), Holds(msg, p, Inline(value))
      PROVE  ReadBlob(at) = Read(value, used)
  <2>1. p + 2 <= Size /\ Byte(p) = 1 /\ ReadInline(p, 3) = Read(value, 3)
    BY <1>1, <1>3, InlineIsRead
  <2>2. /\ at + 3 <= Len(msg) /\ msg[at + 1] = 0 /\ msg[at + 2] = p \div Base
        /\ msg[at + 3] = p % Base
    <3>1. Len(<<0, p \div Base, p % Base>>) = 3
      OBVIOUS
    <3> QED
      BY <1>3, <3>1 DEF Holds
  <2>3. Byte(at) = 0 /\ Byte(at + 1) * Base + Byte(at + 2) = p
    <3>1. at + 1 + 1 = at + 2 /\ at + 2 + 1 = at + 3
      OBVIOUS
    <3>2. (p \div Base) * Base + (p % Base) = p
      BY <1>3, BaseAssumption, Parts
    <3> QED
      BY <2>2, <3>1, <3>2 DEF Byte
  <2>4. ~(at >= Size) /\ ~(at + 3 > Size) /\ ~(p >= Size)
    BY <1>1, <2>1, <2>2 DEF Size
  <2> QED
    BY <1>3, <2>1, <2>3, <2>4 DEF ReadBlob
<1> QED
  BY <1>2, <1>3 DEF BlobAt

-----------------------------------------------------------------------------
(* Labels.                                                                 *)

\* The labels of a name from each of its bytes on.
Labelling(name, f) ==
    f = [s \in 0 .. Len(name) |->
            IF s = Len(name) \/ name[s + 1] = 0 THEN <<>>
            ELSE <<SubSeq(name, s + 2, s + 1 + name[s + 1])>> \o f[After(name, s)]]

LabelsFrom(name) == CHOOSE f : Labelling(name, f)

LabelAt(name, s) == SubSeq(name, s + 2, s + 1 + name[s + 1])

LEMMA LabelsFromIs ==
    ASSUME NEW name \in Text
    PROVE  Labelling(name, LabelsFrom(name)) /\ LabelsOf(name) = LabelsFrom(name)[0]
<1> DEFINE n == Len(name)
           r == [stops |-> {s \in 0 .. n : s = n \/ name[s + 1] = 0},
                 value |-> [s \in 0 .. n |-> <<>>],
                 behind |-> [s \in 0 .. n |-> After(name, s)], joins |-> 0 .. n,
                 front |-> [s \in 0 .. n |-> <<SubSeq(name, s + 2, s + 1 + name[s + 1])>>]]
<1>1. n \in Nat
  BY DEF Text
<1>2. \A s \in 0 .. n : s \notin r.stops => r.behind[s] \in s + 1 .. n
  BY <1>1, AfterIs
<1>3. PICK f : f = [s \in 0 .. n |-> OneTurn(r, s, f)]
  <2> HIDE DEF n, r
  <2> QED
    BY <1>1, <1>2, RunsExist, RunsOver
<1>4. Labelling(name, f)
  <2>1. ASSUME NEW s \in 0 .. n
        PROVE  OneTurn(r, s, f)
                 = IF s = n \/ name[s + 1] = 0 THEN <<>>
                   ELSE <<SubSeq(name, s + 2, s + 1 + name[s + 1])>> \o f[After(name, s)]
    BY DEF OneTurn
  <2> HIDE DEF r
  <2> QED
    BY <1>3, <2>1 DEF Labelling
<1>5. Labelling(name, LabelsFrom(name))
  <2>1. \E g : Labelling(name, g)
    BY <1>4
  <2> HIDE DEF r, n
  <2> QED
    BY <2>1, Zenon DEF LabelsFrom
<1>6. LabelsOf(name) = LabelsFrom(name)[0]
  BY DEF LabelsOf, LabelsFrom, Labelling
<1> QED
  BY <1>5, <1>6

LEMMA LabelText ==
    ASSUME NEW name \in Text, NEW starts, Starts(name, starts), NEW s \in starts, s # Len(name) - 1
    PROVE  /\ LabelAt(name, s) \in Text /\ Len(LabelAt(name, s)) = name[s + 1]
           /\ \A k \in 1 .. name[s + 1] : LabelAt(name, s)[k] = name[s + 1 + k]
<1>1. /\ Len(name) \in Nat /\ s \in Nat /\ name[s + 1] \in Nat
      /\ s + 1 + name[s + 1] <= Len(name) - 1
  BY StartsAre
<1>2. \A n, a, d \in Nat : a + 1 + d <= n - 1 =>
         /\ a + 2 \in 1 .. n + 1 /\ a + 1 + d \in (a + 2) - 1 .. n /\ (a + 1 + d) - (a + 2) + 1 = d
         /\ \A k \in 1 .. d : (a + 2) + k - 1 = a + 1 + k
  OBVIOUS
<1>3. PICK d : d = name[s + 1]
  OBVIOUS
<1>4. /\ s + 2 \in 1 .. Len(name) + 1 /\ s + 1 + d \in (s + 2) - 1 .. Len(name)
      /\ (s + 1 + d) - (s + 2) + 1 = d /\ \A k \in 1 .. d : (s + 2) + k - 1 = s + 1 + k
  BY <1>1, <1>2, <1>3
<1>5. /\ SubSeq(name, s + 2, s + 1 + d) \in Text /\ Len(SubSeq(name, s + 2, s + 1 + d)) = d
      /\ \A k \in 1 .. d : SubSeq(name, s + 2, s + 1 + d)[k] = name[(s + 2) + k - 1]
  BY <1>4, Cut DEF Text
<1>6. LabelAt(name, s) = SubSeq(name, s + 2, s + 1 + d)
  BY <1>3 DEF LabelAt
<1> QED
  BY <1>3, <1>4, <1>5, <1>6

\* From the start of one label to that of the next.
LEMMA LabelsStep ==
    ASSUME NEW name \in Text, NEW starts, Starts(name, starts)
    PROVE  /\ LabelsFrom(name)[Len(name) - 1] = <<>>
           /\ \A s \in starts \ {Len(name) - 1} :
                 LabelsFrom(name)[s] = <<LabelAt(name, s)>> \o LabelsFrom(name)[s + 1 + name[s + 1]]
<1> DEFINE n == Len(name)
           f == LabelsFrom(name)
<1>1. /\ n \in Nat \ {0} /\ starts \subseteq 0 .. n - 1 /\ name[n] = 0
      /\ \A s \in starts \ {n - 1} :
            /\ name[s + 1] \in 1 .. Tag - 1 /\ name[s + 1] \in Nat
            /\ s + 1 + name[s + 1] <= n - 1
  BY StartsAre
<1>2. Labelling(name, f)
  BY LabelsFromIs
<1> HIDE DEF f
<1>3. \A s \in 0 .. n :
        f[s] = IF s = n \/ name[s + 1] = 0 THEN <<>> ELSE <<LabelAt(name, s)>> \o f[After(name, s)]
  BY <1>2 DEF Labelling, LabelAt
<1>4. f[n - 1] = <<>>
  <2>1. n - 1 \in 0 .. n /\ (n - 1) + 1 = n
    BY <1>1
  <2> QED
    BY <1>1, <1>3, <2>1
<1>5. ASSUME NEW s \in starts \ {n - 1}
      PROVE  f[s] = <<LabelAt(name, s)>> \o f[s + 1 + name[s + 1]]
  <2>1. s \in 0 .. n /\ s # n /\ name[s + 1] # 0
    BY <1>1, BaseAssumption
  <2>2. After(name, s) = s + 1 + name[s + 1]
    BY <1>1 DEF After
  <2> QED
    BY <1>3, <2>1, <2>2
<1> QED
  BY <1>4, <1>5 DEF f

LEMMA LabelsTyped ==
    ASSUME NEW name \in Text, NEW starts, Starts(name, starts), NEW s \in starts
    PROVE  LabelsFrom(name)[s] \in Seq(Text)
<1> DEFINE n == Len(name)
           P == {k \in Nat : \A u \in starts : u >= n - 1 - k => LabelsFrom(name)[u] \in Seq(Text)}
<1>1. n \in Nat \ {0} /\ starts \subseteq 0 .. n - 1
  BY StartsAre
<1>2. ASSUME NEW u \in starts, \A v \in starts : v > u => LabelsFrom(name)[v] \in Seq(Text)
      PROVE  LabelsFrom(name)[u] \in Seq(Text)
  <2>1. CASE u = n - 1
    <3>1. LabelsFrom(name)[u] = <<>>
      BY <2>1, LabelsStep
    <3> QED
      BY <3>1
  <2>2. CASE u # n - 1
    <3>1. name[u + 1] \in Nat /\ u + 1 + name[u + 1] \in starts
      BY <2>2, StartsAre
    <3>2. u + 1 + name[u + 1] > u
      <4>1. u \in Nat
        BY <1>1
      <4> QED
        BY <3>1, <4>1
    <3>3. LabelsFrom(name)[u + 1 + name[u + 1]] \in Seq(Text)
      BY <1>2, <3>1, <3>2
    <3>4. LabelsFrom(name)[u] = <<LabelAt(name, u)>> \o LabelsFrom(name)[u + 1 + name[u + 1]]
      BY <2>2, LabelsStep
    <3>5. <<LabelAt(name, u)>> \in Seq(Text)
      <4>1. LabelAt(name, u) \in Text
        BY <2>2, LabelText
      <4> QED
        BY <4>1
    <3> QED
      BY <3>3, <3>4, <3>5
  <2> QED
    BY <2>1, <2>2
<1>3. 0 \in P
  <2>1. \A u \in starts : u >= n - 1 - 0 => \A v \in starts : ~(v > u)
    BY <1>1
  <2> QED
    BY <1>2, <2>1
<1>4. ASSUME NEW k \in P PROVE k + 1 \in P
  <2>1. k \in Nat /\ \A u \in starts : u >= n - 1 - k => LabelsFrom(name)[u] \in Seq(Text)
    OBVIOUS
  <2>2. ASSUME NEW u \in starts, u >= n - 1 - (k + 1) PROVE LabelsFrom(name)[u] \in Seq(Text)
    <3>1. \A v \in starts : v > u => v >= n - 1 - k
      BY <1>1, <2>1, <2>2
    <3> QED
      BY <1>2, <2>1, <3>1
  <2> QED
    BY <2>1, <2>2
<1>5. P \in SUBSET Nat
  OBVIOUS
<1>6. n \in P
  <2> HIDE DEF P
  <2> QED
    BY <1>1, <1>3, <1>4, <1>5, Induct
<1>7. s >= n - 1 - n
  BY <1>1
<1> QED
  BY <1>6, <1>7

-----------------------------------------------------------------------------
(* What was written stays readable.                                        *)

NameItem(m, at, name, used) ==
    \E starts, t, p : /\ Starts(name, starts) /\ NameAt(m, at, name, starts, t, p)
                      /\ used = Room(name, t)

ItemWell(m, it) ==
    /\ it.at + it.used <= Len(m)
    /\ it.kind = "name" => NameItem(m, it.at, it.value, it.used)
    /\ it.kind = "blob" => BlobAt(m, it.at, it.value, it.used)

\* Bytes behind a message disturb nothing in it.
LEMMA NameKept ==
    ASSUME NEW m \in Text, NEW b \in Text, NEW at \in Nat, NEW name \in Text, NEW starts,
           Starts(name, starts), NEW t, NEW p, NameAt(m, at, name, starts, t, p)
    PROVE  NameAt(m \o b, at, name, starts, t, p)
<1>1. /\ Len(name) \in Nat /\ t \in Nat /\ t <= Len(name) - 1 /\ p \in Nat /\ t \in starts
      /\ m \in Seq(ByteValues) /\ b \in Seq(ByteValues)
  BY StartsAre DEF NameAt, Text
<1>2. CASE t = Len(name) - 1
  <2>1. Holds(m, at, name)
    BY <1>2 DEF NameAt
  <2>2. Holds(m \o b, at, name)
    BY <1>1, <2>1, HoldsOn
  <2> QED
    BY <1>1, <1>2, <2>2 DEF NameAt
<1>3. CASE t # Len(name) - 1
  <2>1. /\ Holds(m, at, SubSeq(name, 1, t)) /\ Holds(m, at + t, Pointer(p))
        /\ p < PointerLimit /\ p + (Len(name) - t) <= at /\ Holds(m, p, From(name, t))
    BY <1>3 DEF NameAt
  <2>2. Len(SubSeq(name, 1, t)) \in Nat /\ Len(From(name, t)) \in Nat /\ Len(Pointer(p)) \in Nat
    <3>1. /\ 1 \in 1 .. Len(name) + 1 /\ t \in 1 - 1 .. Len(name)
          /\ t + 1 \in 1 .. Len(name) + 1 /\ Len(name) \in (t + 1) - 1 .. Len(name)
          /\ t - 1 + 1 \in Nat /\ Len(name) - (t + 1) + 1 \in Nat
      BY <1>1
    <3>2. Len(SubSeq(name, 1, t)) \in Nat /\ Len(SubSeq(name, t + 1, Len(name))) \in Nat
      BY <3>1, Cut DEF Text
    <3> QED
      BY <3>2 DEF From, Pointer
  <2>3. at + t \in Nat
    BY <1>1
  <2>4. Holds(m \o b, at, SubSeq(name, 1, t))
    BY <1>1, <2>1, <2>2, HoldsOn
  <2>5. Holds(m \o b, at + t, Pointer(p))
    BY <1>1, <2>1, <2>2, <2>3, HoldsOn
  <2>6. Holds(m \o b, p, From(name, t))
    BY <1>1, <2>1, <2>2, HoldsOn
  <2> QED
    BY <1>1, <1>3, <2>1, <2>4, <2>5, <2>6 DEF NameAt
<1> QED
  BY <1>2, <1>3

LEMMA BlobKept ==
    ASSUME NEW m \in Text, NEW b \in Text, NEW at \in Nat, NEW value \in Text, NEW used,
           BlobAt(m, at, value, used)
    PROVE  BlobAt(m \o b, at, value, used)
<1>1. Len(value) < Base
  BY Zenon DEF BlobAt
<1>2. Len(Inline(value)) \in Nat /\ m \in Seq(ByteValues) /\ b \in Seq(ByteValues)
  BY <1>1, InlineIs DEF Text
<1>3. CASE used = 2 + Len(value) /\ Holds(m, at, Inline(value))
  <2>1. Holds(m \o b, at, Inline(value))
    BY <1>2, <1>3, HoldsOn
  <2> QED
    BY <1>1, <1>3, <2>1 DEF BlobAt
<1>4. ASSUME used = 3, NEW p \in Nat, p < Base * Base, Holds(m, p, Inline(value)),
             Holds(m, at, <<0, p \div Base, p % Base>>)
      PROVE  BlobAt(m \o b, at, value, used)
  <2>1. Holds(m \o b, p, Inline(value))
    BY <1>2, <1>4, HoldsOn
  <2>2. Len(<<0, p \div Base, p % Base>>) \in Nat
    OBVIOUS
  <2>3. Holds(m \o b, at, <<0, p \div Base, p % Base>>)
    BY <1>2, <1>4, <2>2, HoldsOn
  <2> QED
    BY <1>1, <1>4, <2>1, <2>3, Zenon DEF BlobAt
<1> QED
  BY <1>3, <1>4, Zenon DEF BlobAt

\* A name that is appended is there.
LEMMA NameAppended ==
    ASSUME msg \in Text, NEW name \in Names
    PROVE  /\ name \in Text /\ NameBytes(name) \in Text
           /\ NameItem(msg \o NameBytes(name), Len(msg), name, Len(NameBytes(name)))
<1>1. name \in Text
  BY NamesAssumption DEF Text, ByteValues
<1>2. PICK starts : Starts(name, starts)
  BY NamesAssumption
<1>3. /\ Len(name) \in Nat \ {0} /\ starts \subseteq 0 .. Len(name) - 1
      /\ Len(name) - 1 \in starts /\ Len(msg) \in Nat /\ msg \in Seq(ByteValues)
      /\ name \in Seq(ByteValues)
  BY <1>1, <1>2, StartsAre DEF Text
<1>4. CASE NameBytes(name) = name
  <2>1. Holds(msg \o name, Len(msg), name)
    BY <1>3, HoldsNew
  <2>2. NameAt(msg \o name, Len(msg), name, starts, Len(name) - 1, 0)
    BY <1>3, <2>1 DEF NameAt
  <2>3. Room(name, Len(name) - 1) = Len(name)
    BY DEF Room
  <2> QED
    BY <1>1, <1>2, <1>4, <2>2, <2>3 DEF NameItem
<1>5. ASSUME NEW t \in starts \ {Len(name) - 1}, NEW p \in Nat, p < PointerLimit,
             Holds(msg, p, From(name, t)),
             NameBytes(name) = SubSeq(name, 1, t) \o Pointer(p)
      PROVE  /\ NameBytes(name) \in Text
             /\ NameItem(msg \o NameBytes(name), Len(msg), name, Len(NameBytes(name)))
  <2> DEFINE front == SubSeq(name, 1, t)
             bytes == NameBytes(name)
  <2>1. t \in Nat /\ t < Len(name) - 1 /\ t + 1 <= Len(name)
    BY <1>3
  <2>2. front \in Seq(ByteValues) /\ Len(front) = t
    <3>1. 1 \in 1 .. Len(name) + 1 /\ t \in 1 - 1 .. Len(name) /\ t - 1 + 1 = t
      BY <1>3, <2>1
    <3> QED
      BY <1>3, <3>1, Cut
  <2>3. Len(From(name, t)) = Len(name) - t
    <3>1. t + 1 \in 1 .. Len(name) + 1 /\ Len(name) \in (t + 1) - 1 .. Len(name)
          /\ Len(name) - (t + 1) + 1 = Len(name) - t
      BY <1>3, <2>1
    <3>2. name \in Seq(ByteValues)
      BY <1>3
    <3>3. Len(SubSeq(name, t + 1, Len(name))) = Len(name) - (t + 1) + 1
      BY <3>1, <3>2, Cut
    <3> QED
      BY <3>1, <3>3 DEF From
  <2>4. Pointer(p) \in Seq(ByteValues) /\ Len(Pointer(p)) = 2
    <3>1. /\ Base \in Nat /\ Base > 0 /\ Tag \in Nat /\ Base - Tag \in Nat
          /\ p < (Base - Tag) * Base
      BY <1>5, BaseAssumption DEF PointerLimit
    <3>2. p \div Base \in Nat /\ p \div Base < Base - Tag /\ p % Base \in 0 .. Base - 1
      BY <3>1, Parts
    <3>3. Tag + p \div Base \in ByteValues /\ p % Base \in ByteValues
      BY <3>1, <3>2 DEF ByteValues
    <3> QED
      BY <3>3 DEF Pointer
  <2> HIDE DEF front
  <2>5. bytes = front \o Pointer(p)
    BY <1>5 DEF front
  <2>6. bytes \in Seq(ByteValues) /\ Len(bytes) = t + 2
    <3>1. front \o Pointer(p) \in Seq(ByteValues)
          /\ Len(front \o Pointer(p)) = Len(front) + Len(Pointer(p))
      BY <2>2, <2>4, Joined
    <3> QED
      BY <2>2, <2>4, <2>5, <3>1
  <2>7. /\ Holds(msg \o (front \o Pointer(p)), Len(msg), front)
        /\ Holds(msg \o (front \o Pointer(p)), Len(msg) + Len(front), Pointer(p))
    BY <1>3, <2>2, <2>4, HoldsBoth
  <2>8. Holds(msg \o bytes, Len(msg), front)
    BY <2>5, <2>7
  <2>9. Holds(msg \o bytes, Len(msg) + t, Pointer(p))
    BY <2>2, <2>5, <2>7
  <2>10. p + (Len(name) - t) <= Len(msg)
    BY <1>5, <2>3 DEF Holds
  <2>11. Len(From(name, t)) \in Nat
    BY <1>3, <2>1, <2>3
  <2>12. Holds(msg \o bytes, p, From(name, t))
    BY <1>3, <1>5, <2>6, <2>11, HoldsOn
  <2>13. NameAt(msg \o bytes, Len(msg), name, starts, t, p)
    BY <1>5, <2>8, <2>9, <2>10, <2>12 DEF NameAt, front
  <2>14. Room(name, t) = t + 2
    BY <1>5 DEF Room
  <2> HIDE DEF bytes
  <2>15. NameItem(msg \o bytes, Len(msg), name, Len(bytes))
    BY <1>2, <2>6, <2>13, <2>14 DEF NameItem
  <2> QED
    BY <2>6, <2>15 DEF bytes, Text
<1> QED
  BY <1>1, <1>2, <1>4, <1>5, NameWritten

\* A blob that is appended is there, or its reference to an earlier one is.
LEMMA BlobAppended ==
    ASSUME msg \in Text, NEW value \in Text, Len(value) < Base
    PROVE  /\ BlobBytes(value) \in Text
           /\ BlobAt(msg \o BlobBytes(value), Len(msg), value, Len(BlobBytes(value)))
<1> DEFINE found == Found(Sought(value))
           p == FirstOf(found)
<1>1. /\ Inline(value) \in Seq(ByteValues) /\ Len(Inline(value)) = 2 + Len(value)
      /\ Inline(value) \in Text /\ msg \in Seq(ByteValues)
      /\ Len(Inline(value)) \in Nat /\ Len(msg) \in Nat
  BY InlineIs DEF Text
<1>2. CASE found # {} /\ p < Base * Base
  <2>1. p \in Nat /\ Holds(msg, p, Inline(value))
    BY <1>1, <1>2, FoundHolds DEF Sought
  <2>2. BlobBytes(value) = <<0, p \div Base, p % Base>>
    BY <1>2 DEF BlobBytes
  <2> HIDE DEF p, found
  <2>3. <<0, p \div Base, p % Base>> \in Seq(ByteValues) /\ Len(<<0, p \div Base, p % Base>>) = 3
    <3>1. /\ Base \in Nat /\ Base > 0 /\ p \div Base \in Nat /\ p \div Base < Base
          /\ p % Base \in 0 .. Base - 1
      BY <1>2, <2>1, BaseAssumption, Parts
    <3>2. 0 \in ByteValues /\ p \div Base \in ByteValues /\ p % Base \in ByteValues
      BY <3>1 DEF ByteValues
    <3> QED
      BY <3>2
  <2>4. PICK bytes : bytes = <<0, p \div Base, p % Base>>
    OBVIOUS
  <2>5. Holds(msg \o bytes, Len(msg), bytes) /\ Holds(msg \o bytes, p, Inline(value))
    <3>1. bytes \in Seq(ByteValues)
      BY <2>3, <2>4
    <3> QED
      BY <1>1, <2>1, <3>1, HoldsNew, HoldsOn
  <2>6. BlobAt(msg \o bytes, Len(msg), value, 3)
    BY <1>2, <2>1, <2>4, <2>5, Zenon DEF BlobAt
  <2> QED
    BY <2>2, <2>3, <2>4, <2>6 DEF Text
<1>3. CASE ~(found # {} /\ p < Base * Base)
  <2>1. BlobBytes(value) = Inline(value)
    BY <1>3 DEF BlobBytes
  <2>2. Holds(msg \o Inline(value), Len(msg), Inline(value))
    BY <1>1, HoldsNew
  <2>3. BlobAt(msg \o Inline(value), Len(msg), value, 2 + Len(value))
    BY <2>2, Zenon DEF BlobAt
  <2> QED
    BY <1>1, <2>1, <2>3
<1> QED
  BY <1>2, <1>3

-----------------------------------------------------------------------------
(* An iterator over the labels of a name that was written.                 *)

\* Its next label is the one at s: before the jump, or after it.
Where(at, name, starts, t, p, r, s) ==
    /\ s \in starts
    /\ r.labels \o LabelsFrom(name)[s] = LabelsOf(name)
    /\ \/ r.jumps = 0 /\ s <= t /\ r.pos = at + s
       \/ r.jumps = 1 /\ t # Len(name) - 1 /\ s >= t /\ r.pos = p + (s - t)

\* It was created there and has yielded the labels in front of its place.
Follows(at, name, starts, t, p, r) ==
    /\ r.is = "reading" => \E s \in starts : Where(at, name, starts, t, p, r, s)
    /\ r.is = "ended" => /\ r.labels = LabelsOf(name) /\ r.jumps <= 1
                         /\ r.jumps = 1 => r.pos <= at

Tracks(m, at, name, r) ==
    \E starts, t, p : /\ Starts(name, starts) /\ NameAt(m, at, name, starts, t, p)
                      /\ Follows(at, name, starts, t, p, r)

LEMMA LabelIsYielded ==
    ASSUME msg \in Text, NEW name \in Text, NEW starts, Starts(name, starts),
           NEW s \in starts, s # Len(name) - 1, NEW i \in Nat, LabelHere(msg, i, name, s)
    PROVE  /\ i < Size /\ Byte(i) = name[s + 1] /\ Byte(i) \in 1 .. Tag - 1
           /\ i + 1 + Byte(i) <= Size
           /\ SubSeq(msg, i + 2, i + 1 + Byte(i)) = LabelAt(name, s)
<1>1. /\ Len(msg) \in Nat /\ s \in Nat /\ name[s + 1] \in 1 .. Tag - 1 /\ name[s + 1] \in Nat
      /\ Tag \in Nat /\ msg \in Seq(ByteValues)
  BY StartsAre, BaseAssumption DEF Text
<1>2. PICK d \in Nat : d = name[s + 1] /\ d >= 1 /\ d <= Tag - 1
  BY <1>1
<1>3. i + 1 + d <= Len(msg) /\ \A k \in 0 .. d : msg[i + 1 + k] = name[s + 1 + k]
  BY <1>2 DEF LabelHere
<1>4. msg[i + 1] = d
  <2>1. 0 \in 0 .. d /\ i + 1 + 0 = i + 1 /\ s + 1 + 0 = s + 1
    BY <1>1, <1>2
  <2> QED
    BY <1>2, <1>3, <2>1
<1>5. SubSeq(msg, i + 2, i + 1 + d) = LabelAt(name, s)
  <2>1. /\ i + 2 \in 1 .. Len(msg) + 1 /\ i + 1 + d \in (i + 2) - 1 .. Len(msg)
        /\ (i + 1 + d) - (i + 2) + 1 = d /\ \A k \in 1 .. d : (i + 2) + k - 1 = i + 1 + k
        /\ \A k \in 1 .. d : k \in 0 .. d
    <3>1. PICK n \in Nat : n = Len(msg)
      BY <1>1
    <3>2. i \in Nat /\ d \in Nat /\ d >= 1 /\ i + 1 + d <= n
      BY <1>2, <1>3, <3>1
    <3>3. i + 2 \in 1 .. n + 1 /\ i + 1 + d \in (i + 2) - 1 .. n
      BY <3>2
    <3>4. /\ (i + 1 + d) - (i + 2) + 1 = d
          /\ \A k \in 1 .. d : (i + 2) + k - 1 = i + 1 + k /\ k \in 0 .. d
      BY <3>2
    <3> QED
      BY <3>1, <3>3, <3>4
  <2>2. /\ SubSeq(msg, i + 2, i + 1 + d) \in Seq(ByteValues)
        /\ Len(SubSeq(msg, i + 2, i + 1 + d)) = d
        /\ \A k \in 1 .. d : SubSeq(msg, i + 2, i + 1 + d)[k] = msg[i + 1 + k]
    BY <1>1, <2>1, Cut
  <2>3. /\ LabelAt(name, s) \in Text /\ Len(LabelAt(name, s)) = d
        /\ \A k \in 1 .. d : LabelAt(name, s)[k] = name[s + 1 + k]
    BY <1>2, LabelText
  <2>4. \A k \in 1 .. d : SubSeq(msg, i + 2, i + 1 + d)[k] = LabelAt(name, s)[k]
    BY <1>3, <2>1, <2>2, <2>3
  <2> QED
    BY <2>2, <2>3, <2>4, SeqEqual DEF Text
<1> QED
  BY <1>1, <1>2, <1>3, <1>4, <1>5 DEF Size, Byte

\* What the iterator's place holds, when it is not at the pointer.
LEMMA PlaceHoldsLabel ==
    ASSUME msg \in Text, NEW name \in Text, NEW starts, Starts(name, starts), NEW t, NEW p,
           NEW at \in Nat, NameAt(msg, at, name, starts, t, p), NEW r, NEW s,
           Where(at, name, starts, t, p, r, s), s # Len(name) - 1,
           r.jumps = 1 \/ s # t
    PROVE  r.pos \in Nat /\ LabelHere(msg, r.pos, name, s)
<1>1. /\ Len(name) \in Nat /\ s \in Nat /\ t \in Nat /\ s \in starts /\ t <= Len(name) - 1
      /\ name[s + 1] \in Nat /\ s + 1 + name[s + 1] <= Len(name) - 1 /\ p \in Nat
      /\ Len(msg) \in Nat
  BY StartsAre DEF NameAt, Where, Text
<1>2. CASE r.jumps = 0 /\ s <= t /\ r.pos = at + s
  <2>1. s < t
    BY <1>1, <1>2
  <2> QED
    BY <1>1, <1>2, <2>1, LabelsInPlace
<1>3. CASE r.jumps = 1 /\ t # Len(name) - 1 /\ s >= t /\ r.pos = p + (s - t)
  <2>1. /\ p + (Len(name) - t) <= Len(msg)
        /\ \A k \in t + 1 .. Len(name) : msg[p + (k - t)] = name[k]
    BY <1>3, LabelsPointedTo
  <2>2. PICK d \in Nat : d = name[s + 1] /\ s + 1 + d <= Len(name) - 1
    BY <1>1
  <2>3. PICK n \in Nat, m \in Nat, a \in Nat, b \in Nat, c \in Nat :
           n = Len(name) /\ m = Len(msg) /\ a = s /\ b = t /\ c = p
    BY <1>1
  <2>4. /\ p + (s - t) \in Nat /\ p + (s - t) + 1 + d <= Len(msg)
        /\ \A k \in 0 .. d : /\ s + 1 + k \in t + 1 .. Len(name)
                              /\ p + ((s + 1 + k) - t) = p + (s - t) + 1 + k
    <3>1. a >= b /\ c + (n - b) <= m /\ a + 1 + d <= n - 1 /\ d \in Nat
      BY <1>3, <2>1, <2>2, <2>3
    <3>2. /\ c + (a - b) \in Nat /\ c + (a - b) + 1 + d <= m
          /\ \A k \in 0 .. d : /\ a + 1 + k \in b + 1 .. n
                                /\ c + ((a + 1 + k) - b) = c + (a - b) + 1 + k
      BY <3>1
    <3> QED
      BY <2>3, <3>2, Zenon
  <2>5. \A k \in 0 .. d : msg[p + (s - t) + 1 + k] = name[s + 1 + k]
    BY <2>1, <2>4
  <2> QED
    BY <1>3, <2>2, <2>4, <2>5 DEF LabelHere
<1> QED
  BY <1>2, <1>3 DEF Where

LEMMA PlaceHoldsEnd ==
    ASSUME msg \in Text, NEW name \in Text, NEW starts, Starts(name, starts), NEW t, NEW p,
           NEW at \in Nat, NameAt(msg, at, name, starts, t, p), NEW r, NEW s,
           Where(at, name, starts, t, p, r, s), s = Len(name) - 1
    PROVE  /\ r.pos \in Nat /\ r.pos < Size /\ Byte(r.pos) = 0 /\ r.labels \o <<>> = LabelsOf(name)
           /\ r.jumps <= 1 /\ (r.jumps = 1 => r.pos <= at)
<1>1. /\ Len(name) \in Nat \ {0} /\ t \in Nat /\ t <= Len(name) - 1 /\ p \in Nat
      /\ Len(msg) \in Nat /\ name[Len(name)] = 0
  BY StartsAre DEF NameAt, Text
<1>2. r.labels \o <<>> = LabelsOf(name)
  BY LabelsStep DEF Where
<1>3. CASE r.jumps = 0 /\ s <= t /\ r.pos = at + s
  <2>1. t = Len(name) - 1
    BY <1>1, <1>3
  <2>2. at + Len(name) <= Len(msg) /\ \A k \in 1 .. Len(name) : msg[at + k] = name[k]
    BY <2>1 DEF NameAt, Holds
  <2>3. /\ r.pos \in Nat /\ r.pos < Len(msg) /\ r.pos + 1 = at + Len(name)
        /\ Len(name) \in 1 .. Len(name)
    BY <1>1, <1>3, <2>2
  <2>4. Byte(r.pos) = 0
    BY <1>1, <2>2, <2>3 DEF Byte
  <2> QED
    BY <1>2, <1>3, <2>3, <2>4 DEF Size
<1>4. CASE r.jumps = 1 /\ t # Len(name) - 1 /\ s >= t /\ r.pos = p + (s - t)
  <2>1. /\ p + (Len(name) - t) <= Len(msg)
        /\ \A k \in t + 1 .. Len(name) : msg[p + (k - t)] = name[k]
    BY <1>4, LabelsPointedTo
  <2>2. p + (Len(name) - t) <= at
    BY <1>4 DEF NameAt
  <2>3. /\ r.pos \in Nat /\ r.pos < Len(msg) /\ r.pos + 1 = p + (Len(name) - t)
        /\ Len(name) \in t + 1 .. Len(name) /\ r.pos <= at
    BY <1>1, <1>4, <2>1, <2>2
  <2>4. Byte(r.pos) = 0
    BY <1>1, <2>1, <2>3 DEF Byte
  <2> QED
    BY <1>2, <1>4, <2>3, <2>4 DEF Size
<1> QED
  BY <1>3, <1>4 DEF Where

LEMMA PlaceHoldsPointer ==
    ASSUME msg \in Text, NEW name \in Text, NEW starts, Starts(name, starts), NEW t, NEW p,
           NEW at \in Nat, NameAt(msg, at, name, starts, t, p), NEW r, NEW s,
           Where(at, name, starts, t, p, r, s), s # Len(name) - 1, r.jumps = 0, s = t
    PROVE  /\ r.pos \in Nat /\ r.pos + 2 <= Size /\ Byte(r.pos) >= Tag
           /\ (Byte(r.pos) - Tag) * Base + Byte(r.pos + 1) = p
<1>1. t \in Nat /\ r.pos = at + t
  BY StartsAre DEF NameAt, Where
<1>2. /\ at + t + 2 <= Len(msg) /\ msg[at + t + 1] >= Tag
      /\ (msg[at + t + 1] - Tag) * Base + msg[at + t + 2] = p
  BY PointerInPlace
<1>3. at + t + 1 + 1 = at + t + 2 /\ at + t \in Nat
  BY <1>1
<1> QED
  BY <1>1, <1>2, <1>3 DEF Size, Byte

-----------------------------------------------------------------------------
(* A turn of the iterator.                                                 *)

ReaderSet == [at : Nat, pos : Nat, jumps : 0 .. MaxJumps, labels : Seq(Text),
              is : {"none", "reading", "ended"}]

LEMMA AppendOnto ==
    ASSUME NEW S, NEW a \in Seq(S), NEW b \in S, NEW c \in Seq(S)
    PROVE  Append(a, b) \o c = a \o (<<b>> \o c)
OBVIOUS

LEMMA TurnFromLabel ==
    ASSUME msg \in Text, NEW name \in Text, NEW starts, Starts(name, starts), NEW t, NEW p,
           NEW at \in Nat, NameAt(msg, at, name, starts, t, p), reader \in ReaderSet, NEW s,
           Where(at, name, starts, t, p, reader, s), s # Len(name) - 1,
           reader.jumps = 1 \/ s # t, Turn
    PROVE  Where(at, name, starts, t, p, reader', s + 1 + name[s + 1]) /\ reader'.is = "reading"
<1>1. reader.pos \in Nat /\ LabelHere(msg, reader.pos, name, s)
  BY PlaceHoldsLabel
<1>2. /\ s \in starts /\ s \in Nat /\ t \in Nat /\ t <= Len(name) - 1 /\ Len(name) \in Nat
      /\ p \in Nat /\ t \in starts
  BY StartsAre DEF Where, NameAt
<1>3. PICK d \in Nat : d = name[s + 1] /\ d >= 1 /\ d < Tag
  <2>1. name[s + 1] \in 1 .. Tag - 1 /\ name[s + 1] \in Nat /\ Tag \in Nat
    BY <1>2, StartsAre, BaseAssumption
  <2> QED
    BY <2>1
<1>4. /\ s + 1 + d \in starts /\ s + 1 + d <= Len(name) - 1 /\ s + 1 + d \in Nat
      /\ (t > s => t >= s + 1 + d)
  <2>1. /\ s + 1 + name[s + 1] \in starts /\ s + 1 + name[s + 1] <= Len(name) - 1
        /\ (t > s => t >= s + 1 + name[s + 1])
    BY <1>2, StartsAre
  <2>2. s + 1 + d \in Nat
    BY <1>2
  <2> QED
    BY <1>3, <2>1, <2>2
<1>5. /\ reader.pos < Size /\ Byte(reader.pos) = d /\ Byte(reader.pos) \in 1 .. Tag - 1
      /\ reader.pos + 1 + d <= Size
      /\ SubSeq(msg, reader.pos + 2, reader.pos + 1 + d) = LabelAt(name, s)
  BY <1>1, <1>2, <1>3, LabelIsYielded
<1>6. AtLabel /\ ~AtPointer
  <2>1. ~(d >= Tag)
    BY <1>3, BaseAssumption
  <2> QED
    BY <1>5, <2>1 DEF AtLabel, AtPointer
<1>7. Yield
  BY <1>6 DEF Turn, Follow, End
<1>8. /\ reader.is = "reading"
      /\ reader' = [reader EXCEPT !.pos = reader.pos + 1 + d,
                                  !.labels = Append(reader.labels, LabelAt(name, s))]
  BY <1>5, <1>7, Zenon DEF Yield, Reading
<1>9. /\ reader'.is = "reading" /\ reader'.jumps = reader.jumps
      /\ reader'.pos = reader.pos + 1 + d
      /\ reader'.labels = Append(reader.labels, LabelAt(name, s))
  BY <1>8 DEF ReaderSet
<1>10. reader'.labels \o LabelsFrom(name)[s + 1 + d] = LabelsOf(name)
  <2>1. LabelsFrom(name)[s] = <<LabelAt(name, s)>> \o LabelsFrom(name)[s + 1 + d]
    BY <1>2, <1>3, LabelsStep
  <2>2. LabelsFrom(name)[s + 1 + d] \in Seq(Text) /\ LabelAt(name, s) \in Text
    BY <1>2, <1>4, LabelsTyped, LabelText
  <2>3. reader.labels \in Seq(Text) /\ reader.labels \o LabelsFrom(name)[s] = LabelsOf(name)
    BY DEF ReaderSet, Where
  <2>4. Append(reader.labels, LabelAt(name, s)) \o LabelsFrom(name)[s + 1 + d]
          = reader.labels \o (<<LabelAt(name, s)>> \o LabelsFrom(name)[s + 1 + d])
    <3>1. PICK a \in Seq(Text), b \in Text, c \in Seq(Text) :
             a = reader.labels /\ b = LabelAt(name, s) /\ c = LabelsFrom(name)[s + 1 + d]
      BY <2>2, <2>3, Zenon
    <3>2. Append(a, b) \o c = a \o (<<b>> \o c)
      BY AppendOnto
    <3> QED
      BY <3>1, <3>2
  <2> QED
    BY <1>9, <2>1, <2>3, <2>4
<1>11. \/ reader.jumps = 0 /\ s + 1 + d <= t /\ reader'.pos = at + (s + 1 + d)
       \/ reader.jumps = 1 /\ t # Len(name) - 1 /\ s + 1 + d >= t /\ reader'.pos = p + ((s + 1 + d) - t)
  <2>1. CASE reader.jumps = 0 /\ s <= t /\ reader.pos = at + s
    <3>1. t > s
      BY <1>2, <2>1
    <3>2. at + s + 1 + d = at + (s + 1 + d)
      <4>1. \A a, b, c \in Nat : a + b + 1 + c = a + (b + 1 + c)
        OBVIOUS
      <4> QED
        BY <1>2, <4>1, Zenon
    <3> QED
      BY <1>4, <1>9, <2>1, <3>1, <3>2
  <2>2. CASE reader.jumps = 1 /\ t # Len(name) - 1 /\ s >= t /\ reader.pos = p + (s - t)
    <3>1. p + (s - t) + 1 + d = p + ((s + 1 + d) - t) /\ s + 1 + d >= t
      BY <1>2, <1>3, <2>2
    <3> QED
      BY <1>9, <2>2, <3>1
  <2> QED
    BY <2>1, <2>2 DEF Where
<1>12. Where(at, name, starts, t, p, reader', s + 1 + d)
  BY <1>4, <1>10, <1>9, <1>11 DEF Where
<1> QED
  BY <1>3, <1>9, <1>12, Zenon

LEMMA TurnFromPointer ==
    ASSUME msg \in Text, NEW name \in Text, NEW starts, Starts(name, starts), NEW t, NEW p,
           NEW at \in Nat, NameAt(msg, at, name, starts, t, p), reader \in ReaderSet, NEW s,
           Where(at, name, starts, t, p, reader, s), s # Len(name) - 1,
           reader.jumps = 0, s = t, Turn
    PROVE  Where(at, name, starts, t, p, reader', s) /\ reader'.is = "reading"
<1>1. /\ reader.pos \in Nat /\ reader.pos + 2 <= Size /\ Byte(reader.pos) >= Tag
      /\ (Byte(reader.pos) - Tag) * Base + Byte(reader.pos + 1) = p
  BY PlaceHoldsPointer
<1>2. t \in Nat /\ p \in Nat /\ s \in starts /\ Tag \in Nat
  BY StartsAre, BaseAssumption DEF NameAt, Where
<1>3. AtPointer /\ ~AtLabel
  <2>1. AtPointer
    BY <1>1 DEF AtPointer
  <2>2. Byte(reader.pos) \notin 1 .. Tag - 1
    BY <1>1, <1>2
  <2> QED
    BY <2>1, <2>2 DEF AtLabel
<1>4. Follow
  BY <1>3 DEF Turn, Yield, End
<1>5. reader.jumps # MaxJumps
  BY JumpsAssumption
<1>6. reader.is = "reading" /\ reader' = [reader EXCEPT !.jumps = reader.jumps + 1, !.pos = p]
  BY <1>1, <1>4, <1>5, Zenon DEF Follow, Reading
<1>7. /\ reader'.is = "reading" /\ reader'.jumps = 1 /\ reader'.pos = p
      /\ reader'.labels = reader.labels
  BY <1>6 DEF ReaderSet
<1>8. p = p + (s - t) /\ s >= t
  BY <1>2
<1> QED
  BY <1>2, <1>7, <1>8 DEF Where

LEMMA TurnFromEnd ==
    ASSUME msg \in Text, NEW name \in Text, NEW starts, Starts(name, starts), NEW t, NEW p,
           NEW at \in Nat, NameAt(msg, at, name, starts, t, p), reader \in ReaderSet, NEW s,
           Where(at, name, starts, t, p, reader, s), s = Len(name) - 1, Turn
    PROVE  /\ reader'.is = "ended" /\ reader'.labels = LabelsOf(name) /\ reader'.jumps <= 1
           /\ reader'.jumps = 1 => reader'.pos <= at
<1>1. /\ reader.pos \in Nat /\ Byte(reader.pos) = 0 /\ reader.labels \o <<>> = LabelsOf(name)
      /\ reader.jumps <= 1 /\ (reader.jumps = 1 => reader.pos <= at)
  BY PlaceHoldsEnd
<1>2. ~AtPointer /\ ~AtLabel
  <2>1. ~(0 >= Tag) /\ 0 \notin 1 .. Tag - 1
    BY BaseAssumption
  <2> QED
    BY <1>1, <2>1 DEF AtPointer, AtLabel
<1>3. reader' = [reader EXCEPT !.is = "ended"]
  BY <1>2 DEF Turn, Follow, Yield, End
<1>4. /\ reader'.is = "ended" /\ reader'.labels = reader.labels /\ reader'.jumps = reader.jumps
      /\ reader'.pos = reader.pos
  BY <1>3 DEF ReaderSet
<1>5. reader.labels \o <<>> = reader.labels
  BY DEF ReaderSet
<1> QED
  BY <1>1, <1>4, <1>5

\* Whatever the iterator finds, it stays with the name.
LEMMA TurnFollows ==
    ASSUME msg \in Text, NEW name \in Text, NEW starts, Starts(name, starts), NEW t, NEW p,
           NEW at \in Nat, NameAt(msg, at, name, starts, t, p), reader \in ReaderSet,
           Follows(at, name, starts, t, p, reader), Turn
    PROVE  Follows(at, name, starts, t, p, reader')
<1>1. PICK s : Where(at, name, starts, t, p, reader, s)
  BY DEF Follows, Turn, Follow, Yield, End, Reading
<1>2. CASE s = Len(name) - 1
  BY <1>1, <1>2, TurnFromEnd DEF Follows
<1>3. CASE s # Len(name) - 1 /\ (reader.jumps = 1 \/ s # t)
  <2>1. Where(at, name, starts, t, p, reader', s + 1 + name[s + 1]) /\ reader'.is = "reading"
    BY <1>1, <1>3, TurnFromLabel
  <2>2. s + 1 + name[s + 1] \in starts
    BY <2>1 DEF Where
  <2> QED
    BY <2>1, <2>2 DEF Follows
<1>4. CASE s # Len(name) - 1 /\ ~(reader.jumps = 1 \/ s # t)
  <2>1. reader.jumps = 0 /\ s = t
    BY <1>1, <1>4 DEF Where
  <2>2. Where(at, name, starts, t, p, reader', s) /\ reader'.is = "reading"
    BY <1>1, <1>4, <2>1, TurnFromPointer
  <2>3. s \in starts
    BY <2>2 DEF Where
  <2> QED
    BY <2>2, <2>3 DEF Follows
<1> QED
  BY <1>2, <1>3, <1>4

-----------------------------------------------------------------------------
(* The inductive invariant.                                                *)

MessageWell == msg \in Text /\ sent \in BOOLEAN

ItemSet == [kind : {"name", "blob"}, at : Nat, value : Text, used : Nat]

ItemsWell == items \in Seq(ItemSet) /\ \A i \in 1 .. Len(items) : ItemWell(msg, items[i])

ReaderWell ==
    /\ reader \in ReaderSet
    /\ reader.is = "none" => reader = NoReader
    /\ reader # NoReader => sent

\* An iterator at a written name follows it.
Tracked ==
    \A i \in NamesWritten :
        reader # NoReader /\ reader.at = items[i].at
            => Tracks(msg, items[i].at, items[i].value, reader)

Sound == MessageWell /\ ItemsWell /\ ReaderWell /\ Tracked

LEMMA InitSound == Init => Sound
<1> SUFFICES ASSUME Init PROVE Sound
  OBVIOUS
<1>1. msg \in Text /\ items = <<>> /\ sent = FALSE /\ reader = NoReader
  BY BytesAssumption DEF Init, Text, ByteValues
<1>2. MessageWell
  BY <1>1 DEF MessageWell
<1>3. items \in Seq(ItemSet) /\ Len(items) = 0
  BY <1>1
<1>4. ItemsWell
  BY <1>3 DEF ItemsWell
<1>5. NoReader \in ReaderSet
  <2>1. 0 \in Nat /\ 0 \in 0 .. MaxJumps /\ <<>> \in Seq(Text)
    BY JumpsAssumption
  <2> QED
    BY <2>1 DEF NoReader, ReaderSet
<1>6. ReaderWell
  BY <1>1, <1>5 DEF ReaderWell
<1>7. Tracked
  BY <1>1 DEF Tracked
<1> QED
  BY <1>2, <1>4, <1>6, <1>7 DEF Sound

\* The items so far outlast what is appended.
LEMMA ItemsKept ==
    ASSUME MessageWell, ItemsWell, NEW b \in Text
    PROVE  \A i \in 1 .. Len(items) : ItemWell(msg \o b, items[i])
<1> SUFFICES ASSUME NEW i \in 1 .. Len(items) PROVE ItemWell(msg \o b, items[i])
  OBVIOUS
<1> DEFINE it == items[i]
<1>1. it \in ItemSet /\ ItemWell(msg, it)
  BY DEF ItemsWell
<1> HIDE DEF it
<1>2. /\ it.at \in Nat /\ it.used \in Nat /\ it.value \in Text /\ msg \in Text
      /\ msg \in Seq(ByteValues) /\ b \in Seq(ByteValues)
  BY <1>1 DEF ItemSet, MessageWell, Text
<1>3. it.at + it.used <= Len(msg \o b)
  <2>1. Len(msg \o b) = Len(msg) + Len(b) /\ Len(msg) \in Nat /\ Len(b) \in Nat
    BY <1>2, Joined
  <2>2. it.at + it.used <= Len(msg)
    BY <1>1 DEF ItemWell
  <2> QED
    BY <1>2, <2>1, <2>2
<1>4. ASSUME it.kind = "name" PROVE NameItem(msg \o b, it.at, it.value, it.used)
  <2>1. PICK starts, t, p : /\ Starts(it.value, starts)
                            /\ NameAt(msg, it.at, it.value, starts, t, p)
                            /\ it.used = Room(it.value, t)
    BY <1>1, <1>4, Zenon DEF ItemWell, NameItem
  <2>2. NameAt(msg \o b, it.at, it.value, starts, t, p)
    BY <1>2, <2>1, NameKept
  <2> QED
    BY <2>1, <2>2, Zenon DEF NameItem
<1>5. ASSUME it.kind = "blob" PROVE BlobAt(msg \o b, it.at, it.value, it.used)
  <2>1. BlobAt(msg, it.at, it.value, it.used)
    BY <1>1, <1>5 DEF ItemWell
  <2> QED
    BY <1>2, <2>1, BlobKept
<1>6. ItemWell(msg \o b, it)
  BY <1>3, <1>4, <1>5 DEF ItemWell
<1> QED
  BY <1>6 DEF it

\* The item that a hook appends.
LEMMA ItemAppended ==
    ASSUME MessageWell, NEW kind, NEW value, ~Refused(kind, value),
           (kind = "name" /\ value \in Names) \/ (kind = "blob" /\ value \in Blobs)
    PROVE  LET it == [kind |-> kind, at |-> Size, value |-> value,
                      used |-> Len(Bytes(kind, value))]
           IN  /\ Bytes(kind, value) \in Text /\ it \in ItemSet
               /\ ItemWell(msg \o Bytes(kind, value), it)
<1> DEFINE b == Bytes(kind, value)
           it == [kind |-> kind, at |-> Len(msg), value |-> value, used |-> Len(b)]
<1>1. msg \in Text /\ msg \in Seq(ByteValues)
  BY DEF MessageWell, Text
<1>2. CASE kind = "name" /\ value \in Names
  <2>1. b = NameBytes(value)
    BY <1>2 DEF Bytes
  <2>2. value \in Text /\ b \in Text /\ NameItem(msg \o b, Len(msg), value, Len(b))
    BY <1>1, <1>2, <2>1, NameAppended
  <2> QED
    <3> HIDE DEF b
    <3>1. /\ b \in Seq(ByteValues) /\ Len(msg \o b) = Len(msg) + Len(b)
          /\ Len(msg) \in Nat /\ Len(b) \in Nat
      BY <1>1, <2>2, Joined DEF Text
    <3>2. it \in ItemSet
      BY <1>2, <2>2, <3>1 DEF ItemSet
    <3>3. /\ it.kind = "name" /\ it.at = Len(msg) /\ it.value = value /\ it.used = Len(b)
          /\ it.at + it.used <= Len(msg \o b)
      BY <1>2, <3>1
    <3>4. ItemWell(msg \o b, it)
      <4> HIDE DEF it
      <4> QED
        BY <2>2, <3>3 DEF ItemWell
    <3> QED
      BY <2>2, <3>2, <3>4 DEF b, Size
<1>3. CASE kind = "blob" /\ value \in Blobs
  <2>1. b = BlobBytes(value) /\ value \in Text
    BY <1>3, BytesAssumption DEF Bytes, Text, ByteValues
  <2>2. Len(value) < Base
    <3>1. ~(Len(value) > Base - 1) /\ Len(value) \in Nat /\ Base \in Nat
      BY <1>3, <2>1, BaseAssumption DEF Refused, Text
    <3> QED
      BY <3>1
  <2>3. b \in Text /\ BlobAt(msg \o b, Len(msg), value, Len(b))
    BY <1>1, <2>1, <2>2, BlobAppended
  <2> QED
    <3> HIDE DEF b
    <3>1. /\ b \in Seq(ByteValues) /\ Len(msg \o b) = Len(msg) + Len(b)
          /\ Len(msg) \in Nat /\ Len(b) \in Nat
      BY <1>1, <2>3, Joined DEF Text
    <3>2. it \in ItemSet
      BY <1>3, <2>1, <2>3, <3>1 DEF ItemSet
    <3>3. /\ it.kind = "blob" /\ it.at = Len(msg) /\ it.value = value /\ it.used = Len(b)
          /\ it.at + it.used <= Len(msg \o b)
      BY <1>3, <3>1
    <3>4. ItemWell(msg \o b, it)
      <4> HIDE DEF it
      <4> QED
        BY <2>3, <3>3 DEF ItemWell
    <3> QED
      BY <2>3, <3>2, <3>4 DEF b, Size
<1> QED
  BY <1>2, <1>3

LEMMA WriteSound ==
    ASSUME Sound, NEW kind, NEW value, Write(kind, value),
           (kind = "name" /\ value \in Names) \/ (kind = "blob" /\ value \in Blobs)
    PROVE  Sound'
<1>1. MessageWell /\ ItemsWell /\ ReaderWell /\ ~sent /\ reader' = reader
  BY DEF Sound, Write
<1>2. reader = NoReader /\ reader' = NoReader
  BY <1>1 DEF ReaderWell
<1>3. Tracked'
  BY <1>2 DEF Tracked
<1>4. ReaderWell'
  BY <1>1, <1>2 DEF ReaderWell
<1>5. CASE Refused(kind, value)
  <2>1. msg' = msg /\ items' = items /\ sent' = TRUE
    BY <1>5 DEF Write
  <2> QED
    BY <1>1, <1>3, <1>4, <2>1 DEF Sound, MessageWell, ItemsWell
<1>6. CASE ~Refused(kind, value)
  <2> DEFINE it == [kind |-> kind, at |-> Size, value |-> value, used |-> Len(Bytes(kind, value))]
             b == Bytes(kind, value)
  <2>1. msg' = msg \o b /\ items' = Append(items, it) /\ sent' = FALSE
    BY <1>6 DEF Write
  <2>2. b \in Text /\ it \in ItemSet /\ ItemWell(msg \o b, it)
    BY <1>1, <1>6, ItemAppended
  <2> HIDE DEF it, b
  <2>3. MessageWell'
    <3>1. msg \o b \in Text
      BY <1>1, <2>2, Joined DEF MessageWell, Text
    <3> QED
      BY <2>1, <3>1 DEF MessageWell
  <2>4. ItemsWell'
    <3>1. items \in Seq(ItemSet) /\ Len(items) \in Nat
      BY <1>1 DEF ItemsWell
    <3>2. items' \in Seq(ItemSet) /\ Len(items') = Len(items) + 1
      BY <2>1, <2>2, <3>1
    <3>3. \A i \in 1 .. Len(items) : items'[i] = items[i]
      BY <2>1, <2>2, <3>1
    <3>4. items'[Len(items) + 1] = it
      BY <2>1, <2>2, <3>1
    <3>5. \A i \in 1 .. Len(items) + 1 : i \in 1 .. Len(items) \/ i = Len(items) + 1
      BY <3>1
    <3>6. \A i \in 1 .. Len(items) : ItemWell(msg \o b, items[i])
      BY <1>1, <2>2, ItemsKept
    <3>7. \A i \in 1 .. Len(items') : ItemWell(msg', items'[i])
      BY <2>1, <2>2, <3>2, <3>3, <3>4, <3>5, <3>6
    <3> QED
      BY <3>2, <3>7 DEF ItemsWell
  <2> QED
    BY <1>3, <1>4, <2>3, <2>4 DEF Sound
<1> QED
  BY <1>5, <1>6

LEMMA LabelsSound ==
    ASSUME Sound, NEW at \in 0 .. Size - 1, Labels(at)
    PROVE  Sound'
<1>1. /\ MessageWell /\ ItemsWell /\ ReaderWell /\ sent
      /\ reader' = [NoReader EXCEPT !.at = at, !.pos = at, !.is = "reading"]
      /\ msg' = msg /\ items' = items /\ sent' = sent
  BY DEF Sound, Labels
<1>2. at \in Nat
  BY <1>1 DEF MessageWell, Text, Size
<1>3. /\ reader'.at = at /\ reader'.pos = at /\ reader'.jumps = 0 /\ reader'.labels = <<>>
      /\ reader'.is = "reading" /\ reader' \in ReaderSet
  <2>1. 0 \in 0 .. MaxJumps /\ <<>> \in Seq(Text)
    BY JumpsAssumption
  <2> QED
    BY <1>1, <1>2, <2>1 DEF NoReader, ReaderSet
<1>4. MessageWell' /\ ItemsWell'
  BY <1>1 DEF MessageWell, ItemsWell
<1>5. ReaderWell'
  BY <1>1, <1>3 DEF ReaderWell
<1>6. ASSUME NEW i \in NamesWritten', reader'.at = items'[i].at
      PROVE  Tracks(msg', items'[i].at, items'[i].value, reader')
  <2> DEFINE it == items[i]
  <2>1. i \in 1 .. Len(items) /\ it.kind = "name" /\ items'[i] = it /\ it.at = at
    BY <1>1, <1>3, <1>6 DEF NamesWritten
  <2>2. it \in ItemSet /\ ItemWell(msg, it)
    BY <1>1, <2>1 DEF ItemsWell
  <2> HIDE DEF it
  <2>3. PICK starts, t, p : Starts(it.value, starts) /\ NameAt(msg, at, it.value, starts, t, p)
    BY <2>1, <2>2 DEF ItemWell, NameItem
  <2>4. /\ 0 \in starts /\ t \in Nat /\ it.value \in Text
        /\ LabelsOf(it.value) = LabelsFrom(it.value)[0]
    BY <2>2, <2>3, StartsAre, LabelsFromIs DEF NameAt, ItemSet
  <2>5. <<>> \o LabelsFrom(it.value)[0] = LabelsOf(it.value)
    <3>1. LabelsFrom(it.value)[0] \in Seq(Text)
      BY <2>3, <2>4, LabelsTyped
    <3> QED
      BY <2>4, <3>1
  <2>6. 0 <= t /\ at = at + 0
    BY <1>2, <2>4
  <2>7. Where(at, it.value, starts, t, p, reader', 0)
    BY <1>3, <2>4, <2>5, <2>6 DEF Where
  <2>8. Follows(at, it.value, starts, t, p, reader')
    BY <1>3, <2>4, <2>7 DEF Follows
  <2>9. Tracks(msg, at, it.value, reader')
    BY <2>3, <2>8, Zenon DEF Tracks
  <2> QED
    BY <1>1, <2>1, <2>9
<1>7. Tracked'
  BY <1>6 DEF Tracked
<1> QED
  BY <1>4, <1>5, <1>7 DEF Sound

LEMMA TurnTyped ==
    ASSUME Sound, Turn
    PROVE  /\ reader.is = "reading" /\ reader' \in ReaderSet /\ reader'.is \in {"reading", "ended"}
           /\ reader'.at = reader.at /\ UNCHANGED <<msg, items, sent>>
<1>1. /\ reader \in ReaderSet /\ msg \in Seq(ByteValues) /\ Len(msg) \in Nat
      /\ reader.is = "reading" /\ UNCHANGED <<msg, items, sent>>
  BY DEF Sound, ReaderWell, MessageWell, Text, Turn, Follow, Yield, End, Reading
<1>2. /\ reader.at \in Nat /\ reader.pos \in Nat /\ reader.jumps \in 0 .. MaxJumps
      /\ reader.labels \in Seq(Text)
  BY <1>1 DEF ReaderSet
<1>3. \A i \in Nat : i < Size => Byte(i) \in Nat
  <2>1. \A j \in 1 .. Len(msg) : msg[j] \in Nat
    BY <1>1, BaseAssumption DEF ByteValues
  <2>2. \A i \in Nat : i < Len(msg) => i + 1 \in 1 .. Len(msg)
    BY <1>1
  <2> QED
    BY <2>1, <2>2 DEF Size, Byte
<1>4. CASE reader' = [reader EXCEPT !.is = "ended"]
  BY <1>1, <1>4 DEF ReaderSet
<1>5. ASSUME NEW q \in Nat, reader.jumps # MaxJumps,
             reader' = [reader EXCEPT !.jumps = reader.jumps + 1, !.pos = q]
      PROVE  reader' \in ReaderSet /\ reader'.is = "reading" /\ reader'.at = reader.at
  <2>1. reader.jumps + 1 \in 0 .. MaxJumps
    BY <1>2, <1>5, JumpsAssumption
  <2> QED
    BY <1>1, <1>5, <2>1 DEF ReaderSet
<1>6. ASSUME NEW q \in Nat, NEW label \in Text,
             reader' = [reader EXCEPT !.pos = q, !.labels = Append(reader.labels, label)]
      PROVE  reader' \in ReaderSet /\ reader'.is = "reading" /\ reader'.at = reader.at
  <2>1. Append(reader.labels, label) \in Seq(Text)
    BY <1>2, <1>6
  <2> QED
    BY <1>1, <1>6, <2>1 DEF ReaderSet
<1>7. CASE Follow /\ reader.jumps # MaxJumps
  <2> DEFINE q == (Byte(reader.pos) - Tag) * Base + Byte(reader.pos + 1)
  <2>1. /\ AtPointer
        /\ reader' = [reader EXCEPT !.jumps = reader.jumps + 1, !.pos = q]
    BY <1>7, Zenon DEF Follow
  <2>2. q \in Nat
    <3>1. reader.pos + 2 <= Size /\ Byte(reader.pos) >= Tag /\ Size \in Nat
      BY <1>1, <2>1 DEF AtPointer, Size
    <3>2. /\ Byte(reader.pos) - Tag \in Nat /\ Byte(reader.pos + 1) \in Nat
      BY <1>2, <1>3, <3>1, BaseAssumption
    <3>3. \A a, b, c \in Nat : a * b + c \in Nat
      OBVIOUS
    <3> QED
      BY <3>2, <3>3, BaseAssumption
  <2> HIDE DEF q
  <2>3. reader' \in ReaderSet /\ reader'.is = "reading" /\ reader'.at = reader.at
    BY <1>5, <1>7, <2>1, <2>2
  <2> QED
    BY <1>1, <2>3
<1>8. CASE Yield
  <2>1. /\ reader.pos < Size /\ reader.pos + 1 + Byte(reader.pos) <= Size
        /\ Byte(reader.pos) \in 1 .. Tag - 1
    BY <1>8 DEF Yield, AtLabel
  <2>2. PICK d \in Nat : d = Byte(reader.pos) /\ d >= 1
    BY <1>2, <1>3, <2>1, BaseAssumption
  <2>3. PICK label : label = SubSeq(msg, reader.pos + 2, reader.pos + 1 + d)
    OBVIOUS
  <2>4. label \in Text /\ reader.pos + 1 + d \in Nat
    <3>1. PICK i \in Nat, n \in Nat : i = reader.pos /\ n = Len(msg)
      BY <1>1, <1>2
    <3>2. i + 1 + d <= n
      BY <2>1, <2>2, <3>1 DEF Size
    <3>3. i + 2 \in 1 .. n + 1 /\ i + 1 + d \in (i + 2) - 1 .. n /\ i + 1 + d \in Nat
      BY <2>2, <3>2
    <3>4. SubSeq(msg, i + 2, i + 1 + d) \in Seq(ByteValues)
      BY <1>1, <3>1, <3>3, Cut
    <3> QED
      BY <2>3, <3>1, <3>3, <3>4 DEF Text
  <2>5. reader' = [reader EXCEPT !.pos = reader.pos + 1 + d,
                                 !.labels = Append(reader.labels, label)]
    BY <1>8, <2>2, <2>3, Zenon DEF Yield
  <2>6. reader' \in ReaderSet /\ reader'.is = "reading" /\ reader'.at = reader.at
    BY <1>6, <2>4, <2>5
  <2> QED
    BY <1>1, <2>6
<1>9. CASE End \/ (Follow /\ reader.jumps = MaxJumps)
  <2>1. reader' = [reader EXCEPT !.is = "ended"]
    BY <1>9 DEF End, Follow
  <2> QED
    BY <1>4, <2>1
<1> QED
  BY <1>7, <1>8, <1>9 DEF Turn

LEMMA TurnSound ==
    ASSUME Sound, Turn
    PROVE  Sound'
<1>1. /\ reader.is = "reading" /\ reader' \in ReaderSet /\ reader'.is \in {"reading", "ended"}
      /\ reader'.at = reader.at /\ msg' = msg /\ items' = items /\ sent' = sent
  BY TurnTyped
<1>2. MessageWell /\ ItemsWell /\ ReaderWell /\ Tracked
  BY DEF Sound
<1>3. reader # NoReader
  BY <1>1 DEF NoReader
<1>4. MessageWell' /\ ItemsWell'
  BY <1>1, <1>2 DEF MessageWell, ItemsWell
<1>5. ReaderWell'
  BY <1>1, <1>2, <1>3 DEF ReaderWell
<1>6. ASSUME NEW i \in NamesWritten', reader'.at = items'[i].at
      PROVE  Tracks(msg', items'[i].at, items'[i].value, reader')
  <2> DEFINE it == items[i]
  <2>1. i \in NamesWritten /\ i \in 1 .. Len(items) /\ items'[i] = it /\ it.at = reader.at
    BY <1>1, <1>6 DEF NamesWritten
  <2>2. it \in ItemSet /\ Tracks(msg, it.at, it.value, reader)
    BY <1>2, <1>3, <2>1 DEF ItemsWell, Tracked
  <2> HIDE DEF it
  <2>3. it.at \in Nat /\ it.value \in Text /\ msg \in Text /\ reader \in ReaderSet
    BY <1>2, <2>2 DEF ItemSet, MessageWell, ReaderWell
  <2>4. PICK starts, t, p : /\ Starts(it.value, starts)
                            /\ NameAt(msg, it.at, it.value, starts, t, p)
                            /\ Follows(it.at, it.value, starts, t, p, reader)
    BY <2>2, Zenon DEF Tracks
  <2>5. Follows(it.at, it.value, starts, t, p, reader')
    BY <2>3, <2>4, TurnFollows
  <2>6. Tracks(msg, it.at, it.value, reader')
    BY <2>4, <2>5, Zenon DEF Tracks
  <2> QED
    BY <1>1, <2>1, <2>6
<1>7. Tracked'
  BY <1>6 DEF Tracked
<1> QED
  BY <1>4, <1>5, <1>7 DEF Sound

LEMMA NextSound == Sound /\ [Next]_vars => Sound'
<1> SUFFICES ASSUME Sound, [Next]_vars PROVE Sound'
  OBVIOUS
<1>1. ASSUME NEW name \in Names, Write("name", name) PROVE Sound'
  BY <1>1, WriteSound
<1>2. ASSUME NEW blob \in Blobs, Write("blob", blob) PROVE Sound'
  BY <1>2, WriteSound
<1>3. CASE Send
  <2>1. sent' = TRUE /\ msg' = msg /\ items' = items /\ reader' = reader
    BY <1>3 DEF Send
  <2>2. MessageWell' /\ ItemsWell' /\ ReaderWell'
    BY <2>1 DEF Sound, MessageWell, ItemsWell, ReaderWell
  <2>3. Tracked'
    BY <2>1 DEF Sound, Tracked, NamesWritten
  <2> QED
    BY <2>2, <2>3 DEF Sound
<1>4. ASSUME NEW at \in 0 .. Size - 1, Labels(at) PROVE Sound'
  BY <1>4, LabelsSound
<1>5. CASE Turn
  BY <1>5, TurnSound
<1>6. CASE UNCHANGED vars
  <2>1. sent' = sent /\ msg' = msg /\ items' = items /\ reader' = reader
    BY <1>6 DEF vars
  <2>2. MessageWell' /\ ItemsWell' /\ ReaderWell'
    BY <2>1 DEF Sound, MessageWell, ItemsWell, ReaderWell
  <2>3. Tracked'
    BY <2>1 DEF Sound, Tracked, NamesWritten
  <2> QED
    BY <2>2, <2>3 DEF Sound
<1> QED
  BY <1>1, <1>2, <1>3, <1>4, <1>5, <1>6 DEF Next, WriteItem

LEMMA SoundMeansTypeOK == Sound => TypeOK
<1> SUFFICES ASSUME Sound PROVE TypeOK
  OBVIOUS
<1>1. msg \in Seq(0 .. Base - 1) /\ sent \in BOOLEAN
  BY DEF Sound, MessageWell, Text, ByteValues
<1>2. reader.is \in {"none", "reading", "ended"} /\ reader.jumps \in 0 .. MaxJumps
  BY DEF Sound, ReaderWell, ReaderSet
<1>3. \A i \in 1 .. Len(items) : items[i].at + items[i].used <= Size
  BY DEF Sound, ItemsWell, ItemWell, Size
<1> QED
  BY <1>1, <1>2, <1>3 DEF TypeOK

LEMMA SoundMeansItemsReadBack == Sound => ItemsReadBack
<1> SUFFICES ASSUME Sound PROVE ItemsReadBack
  OBVIOUS
<1>1. msg \in Text
  BY DEF Sound, MessageWell
<1>2. ASSUME NEW i \in NamesWritten
      PROVE  /\ ReadName(items[i].at) = Read(<<>>, items[i].used)
             /\ reader # NoReader /\ reader.at = items[i].at
                   => /\ reader.is = "ended" => reader.labels = LabelsOf(items[i].value)
                      /\ reader.jumps <= 1
                      /\ reader.jumps = 1 => reader.pos <= items[i].at
  <2> DEFINE it == items[i]
  <2>1. /\ it \in ItemSet /\ ItemWell(msg, it) /\ it.kind = "name"
        /\ (reader # NoReader /\ reader.at = it.at => Tracks(msg, it.at, it.value, reader))
    BY DEF Sound, ItemsWell, NamesWritten, Tracked
  <2> HIDE DEF it
  <2>2. it.at \in Nat /\ it.value \in Text
    BY <2>1 DEF ItemSet
  <2>3. ReadName(it.at) = Read(<<>>, it.used)
    <3>1. PICK starts, t, p : /\ Starts(it.value, starts)
                              /\ NameAt(msg, it.at, it.value, starts, t, p)
                              /\ it.used = Room(it.value, t)
      BY <2>1, Zenon DEF ItemWell, NameItem
    <3> QED
      BY <1>1, <2>2, <3>1, NameIsRead
  <2>4. ASSUME reader # NoReader, reader.at = it.at
        PROVE  /\ reader.is = "ended" => reader.labels = LabelsOf(it.value)
               /\ reader.jumps <= 1
               /\ reader.jumps = 1 => reader.pos <= it.at
    <3>1. PICK starts, t, p : /\ Starts(it.value, starts)
                              /\ NameAt(msg, it.at, it.value, starts, t, p)
                              /\ Follows(it.at, it.value, starts, t, p, reader)
      BY <2>1, <2>4, Zenon DEF Tracks
    <3>2. reader.is \in {"reading", "ended"}
      BY <2>4 DEF Sound, ReaderWell, ReaderSet
    <3>3. CASE reader.is = "ended"
      BY <3>1, <3>3 DEF Follows
    <3>4. CASE reader.is = "reading"
      <4>1. PICK s : Where(it.at, it.value, starts, t, p, reader, s)
        BY <3>1, <3>4 DEF Follows
      <4>2. /\ Len(it.value) \in Nat /\ s \in Nat /\ s <= Len(it.value) - 1
            /\ t \in Nat /\ p \in Nat
        BY <2>2, <3>1, <4>1, StartsAre DEF Where, NameAt
      <4>3. CASE reader.jumps = 0
        BY <3>4, <4>3
      <4>4. CASE reader.jumps = 1 /\ t # Len(it.value) - 1 /\ s >= t /\ reader.pos = p + (s - t)
        <5>1. p + (Len(it.value) - t) <= it.at
          BY <3>1, <4>4 DEF NameAt
        <5>2. reader.pos <= it.at
          BY <2>2, <4>2, <4>4, <5>1
        <5> QED
          BY <3>4, <4>4, <5>2
      <4> QED
        BY <4>1, <4>3, <4>4 DEF Where
    <3> QED
      BY <3>2, <3>3, <3>4
  <2> QED
    BY <2>3, <2>4 DEF it
<1>3. ASSUME NEW i \in BlobsWritten
      PROVE  ReadBlob(items[i].at) = Read(items[i].value, items[i].used)
  <2>1. items[i] \in ItemSet /\ ItemWell(msg, items[i]) /\ items[i].kind = "blob"
    BY DEF Sound, ItemsWell, BlobsWritten
  <2>2. items[i].at \in Nat /\ items[i].value \in Text
    BY <2>1 DEF ItemSet
  <2>3. BlobAt(msg, items[i].at, items[i].value, items[i].used)
    BY <2>1 DEF ItemWell
  <2> QED
    BY <1>1, <2>2, <2>3, BlobIsRead
<1> QED
  BY <1>2, <1>3 DEF ItemsReadBack, NamesReadBack, BlobsReadBack

-----------------------------------------------------------------------------
(* The message holds bytes, and every item lies inside it.                 *)
THEOREM BackReferencesTypeCorrect == Spec => []TypeOK
<1>1. Init => Sound
  BY InitSound
<1>2. Sound /\ [Next]_vars => Sound'
  BY NextSound
<1>3. Sound => TypeOK
  BY SoundMeansTypeOK
<1> QED
  BY <1>1, <1>2, <1>3, PTL DEF Spec

(* Whatever names and blobs are written, to whatever messages, each is     *)
(* read back, and a name's labels after at most one jump.                  *)
(* (write_dns_name, DnsLabelIter and the blob hooks)                       *)
THEOREM WrittenItemsReadBack == Spec => []ItemsReadBack
<1>1. Init => Sound
  BY InitSound
<1>2. Sound /\ [Next]_vars => Sound'
  BY NextSound
<1>3. Sound => ItemsReadBack
  BY SoundMeansItemsReadBack
<1> QED
  BY <1>1, <1>2, <1>3, PTL DEF Spec

=============================================================================
