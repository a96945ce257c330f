----------------------------- MODULE WriterProofs -----------------------------
(***************************************************************************)
(* Proofs about Writer: whatever a generated writer stores, into a buffer  *)
(* of the caller's, a vector or a packet it edits, lies in the packet, and *)
(* room for the packet is enough: no call panics or refuses it.            *)
(***************************************************************************)
EXTENDS Writer, Integers, WellFoundedInduction, SequenceTheorems, FiniteSetTheorems, TLAPS

-----------------------------------------------------------------------------
(* Induction over the natural numbers, from the well-foundedness of <.     *)

LEMMA LeastOf ==
    ASSUME NEW T, T \subseteq Nat, T # {}
    PROVE  \E x \in T : \A y \in T : x <= y
<1>1. \E x \in T : \A y \in T : ~ (<<y, x>> \in OpToRel(<, Nat))
  BY WFMin, NatLessThanWellFounded, Zenon
<1>2. ASSUME NEW x \in T, NEW y \in T, ~ (<<y, x>> \in OpToRel(<, Nat)) PROVE x <= y
  BY <1>2 DEF OpToRel
<1> QED
  BY <1>1, <1>2

LEMMA Induct ==
    ASSUME NEW P \in SUBSET Nat, 0 \in P, \A n \in P : n + 1 \in P
    PROVE  P = Nat
<1> SUFFICES ASSUME P # Nat PROVE FALSE
  OBVIOUS
<1>1. Nat \ P # {} /\ Nat \ P \subseteq Nat
  OBVIOUS
<1>2. PICK n \in Nat \ P : \A m \in Nat \ P : n <= m
  BY <1>1, LeastOf
<1>3. n - 1 \in Nat /\ ~(n <= n - 1)
  BY <1>2
<1> QED
  BY <1>2, <1>3

\* Up to a bound.
LEMMA InductUpto ==
    ASSUME NEW N \in Nat, NEW P, 0 \in P, \A n \in 0 .. N : n \in P /\ n < N => n + 1 \in P
    PROVE  \A n \in 0 .. N : n \in P
<1> DEFINE Q == {n \in Nat : n <= N => n \in P}
<1>1. Q \in SUBSET Nat /\ 0 \in Q
  OBVIOUS
<1>2. ASSUME NEW n \in Q PROVE n + 1 \in Q
  OBVIOUS
<1> HIDE DEF Q
<1>3. Q = Nat
  BY <1>1, <1>2, Induct
<1> QED
  BY <1>3 DEF Q

\* A recursion over 0 .. N whose steps stay in S has a value.
Recursion(f, N, a, step) ==
    f = [n \in 0 .. N |-> IF n = 0 THEN a ELSE step[<<n, f[n - 1]>>]]

LEMMA RecursionExists ==
    ASSUME NEW N \in Nat, NEW a, NEW step
    PROVE  \E f : Recursion(f, N, a, step)
<1> DEFINE P == {n \in Nat : \E f : Recursion(f, n, a, step)}
<1>1. P \in SUBSET Nat
  OBVIOUS
<1>2. 0 \in P
  <2> DEFINE f == [n \in 0 .. 0 |-> a]
  <2>1. Recursion(f, 0, a, step)
    BY DEF Recursion
  <2> QED
    BY <2>1
<1>3. ASSUME NEW n \in P PROVE n + 1 \in P
  <2>1. PICK f : Recursion(f, n, a, step)
    OBVIOUS
  <2> DEFINE g == [m \in 0 .. n + 1 |-> IF m = n + 1 THEN step[<<n + 1, f[n]>>] ELSE f[m]]
  <2>2. n \in Nat
    OBVIOUS
  <2>3. ASSUME NEW m \in 0 .. n + 1
        PROVE  g[m] = IF m = 0 THEN a ELSE step[<<m, g[m - 1]>>]
    <3>1. CASE m = n + 1
      BY <2>2, <3>1
    <3>2. CASE m # n + 1
      <4>1. m \in 0 .. n /\ (m # 0 => m - 1 \in 0 .. n)
        BY <2>2, <3>2
      <4>2. f[m] = IF m = 0 THEN a ELSE step[<<m, f[m - 1]>>]
        BY <2>1, <4>1 DEF Recursion
      <4> QED
        BY <2>2, <4>1, <4>2
    <3> QED
      BY <3>1, <3>2
  <2>4. Recursion(g, n + 1, a, step)
    BY <2>3 DEF Recursion
  <2> QED
    BY <2>2, <2>4
<1> HIDE DEF P
<1>4. P = Nat
  BY <1>1, <1>2, <1>3, Induct
<1> QED
  BY <1>4 DEF P

\* The same for a step that is known on the states of S.
LEMMA RecursionIn ==
    ASSUME NEW N \in Nat, NEW S, NEW a \in S, NEW step,
           \A n \in 1 .. N, x \in S : step[<<n, x>>] \in S,
           NEW f, Recursion(f, N, a, step)
    PROVE  \A n \in 0 .. N : f[n] \in S
<1> DEFINE P == {n \in 0 .. N : f[n] \in S}
<1>1. 0 \in P
  BY DEF Recursion
<1>2. ASSUME NEW n \in 0 .. N, n \in P, n < N PROVE n + 1 \in P
  <2>1. n + 1 \in 1 .. N /\ n + 1 # 0 /\ (n + 1) - 1 = n /\ n + 1 \in 0 .. N
    BY <1>2
  <2>2. f[n + 1] = step[<<n + 1, f[n]>>]
    BY <2>1 DEF Recursion
  <2> QED
    BY <1>2, <2>1, <2>2
<1> HIDE DEF P
<1>3. \A n \in 0 .. N : n \in P
  BY <1>1, <1>2, InductUpto
<1> QED
  BY <1>3 DEF P
-----------------------------------------------------------------------------
(* Sums.                                                                   *)

Sums(f, n, s) == s = [k \in 0 .. n |-> IF k = 0 THEN 0 ELSE s[k - 1] + f[k]]

LEMMA SumsExist ==
    ASSUME NEW n \in Nat, NEW f, \A k \in 1 .. n : f[k] \in Nat
    PROVE  \E s : Sums(f, n, s)
<1> DEFINE step == [p \in (1 .. n) \X Nat |-> p[2] + f[p[1]]]
<1>1. PICK s : Recursion(s, n, 0, step)
  BY RecursionExists
<1>2. \A k \in 1 .. n, x \in Nat : step[<<k, x>>] = x + f[k] /\ step[<<k, x>>] \in Nat
  OBVIOUS
<1> HIDE DEF step
<1>3. \A k \in 0 .. n : s[k] \in Nat
  BY <1>1, <1>2, RecursionIn
<1>4. ASSUME NEW k \in 0 .. n PROVE s[k] = IF k = 0 THEN 0 ELSE s[k - 1] + f[k]
  <2>1. s[k] = IF k = 0 THEN 0 ELSE step[<<k, s[k - 1]>>]
    BY <1>1 DEF Recursion
  <2>2. k # 0 => k \in 1 .. n /\ s[k - 1] \in Nat
    BY <1>3
  <2> QED
    BY <1>2, <2>1, <2>2
<1>5. s = [k \in 0 .. n |-> s[k]]
  BY <1>1 DEF Recursion
<1>6. [k \in 0 .. n |-> s[k]] = [k \in 0 .. n |-> IF k = 0 THEN 0 ELSE s[k - 1] + f[k]]
  BY <1>4
<1> QED
  BY <1>5, <1>6 DEF Sums

LEMMA SumsAgree ==
    ASSUME NEW n \in Nat, NEW m \in Nat, n <= m, NEW f, \A k \in 1 .. m : f[k] \in Nat,
           NEW s, Sums(f, n, s), NEW t, Sums(f, m, t)
    PROVE  s[n] = t[n] /\ t[n] \in Nat
<1> DEFINE P == {k \in 0 .. n : s[k] = t[k] /\ t[k] \in Nat}
<1>1. 0 \in P
  BY DEF Sums
<1>2. ASSUME NEW k \in 0 .. n, k \in P, k < n PROVE k + 1 \in P
  <2>1. k + 1 \in 0 .. n /\ k + 1 \in 0 .. m /\ k + 1 # 0 /\ (k + 1) - 1 = k /\ k + 1 \in 1 .. m
    BY <1>2
  <2>2. s[k + 1] = s[k] + f[k + 1] /\ t[k + 1] = t[k] + f[k + 1]
    BY <2>1 DEF Sums
  <2> QED
    BY <1>2, <2>1, <2>2
<1>3. \A k \in 0 .. n : k \in P
  <2> HIDE DEF P
  <2> QED
    BY <1>1, <1>2, InductUpto
<1> QED
  BY <1>3

\* What a sum is, step by step.
LEMMA TotalSteps ==
    ASSUME NEW N \in Nat, NEW f, \A k \in 1 .. N : f[k] \in Nat
    PROVE  /\ Total(f, 0) = 0
           /\ \A n \in 0 .. N : Total(f, n) \in Nat
           /\ \A n \in 1 .. N : Total(f, n) = Total(f, n - 1) + f[n]
<1>1. ASSUME NEW n \in 0 .. N PROVE \E s : Sums(f, n, s) /\ Total(f, n) = s[n]
  <2>1. \E s : Sums(f, n, s)
    BY SumsExist
  <2> QED
    BY <2>1, Zenon DEF Total, Sums
<1>2. PICK t : Sums(f, N, t)
  BY SumsExist
<1>3. ASSUME NEW n \in 0 .. N PROVE Total(f, n) = t[n] /\ t[n] \in Nat
  <2>1. PICK s : Sums(f, n, s) /\ Total(f, n) = s[n]
    BY <1>1
  <2>2. n \in Nat /\ n <= N
    OBVIOUS
  <2> QED
    BY <1>2, <2>1, <2>2, SumsAgree
<1>4. t[0] = 0 /\ \A n \in 1 .. N : t[n] = t[n - 1] + f[n]
  BY <1>2 DEF Sums
<1>5. 0 \in 0 .. N /\ \A n \in 1 .. N : n \in 0 .. N /\ n - 1 \in 0 .. N
  OBVIOUS
<1> QED
  BY <1>3, <1>4, <1>5

\* Summand by summand, one of them by d.
LEMMA TotalLess ==
    ASSUME NEW N \in Nat, NEW f, NEW g, \A k \in 1 .. N : f[k] \in Nat /\ g[k] \in Nat /\ f[k] <= g[k],
           NEW p \in 1 .. N, NEW d \in Nat, f[p] + d <= g[p]
    PROVE  Total(f, N) + d <= Total(g, N)
<1> DEFINE P == {n \in 0 .. N : Total(f, n) <= Total(g, n)
                                 /\ (p <= n => Total(f, n) + d <= Total(g, n))}
<1>0. /\ Total(f, 0) = 0 /\ Total(g, 0) = 0
      /\ \A n \in 0 .. N : Total(f, n) \in Nat /\ Total(g, n) \in Nat
      /\ \A n \in 1 .. N : Total(f, n) = Total(f, n - 1) + f[n] /\ Total(g, n) = Total(g, n - 1) + g[n]
  BY TotalSteps
<1>1. 0 \in P
  BY <1>0
<1>2. ASSUME NEW n \in 0 .. N, n \in P, n < N PROVE n + 1 \in P
  <2>1. n + 1 \in 1 .. N /\ (n + 1) - 1 = n
    BY <1>2
  <2>2. PICK a \in Nat, b \in Nat, x \in Nat, y \in Nat :
          a = Total(f, n) /\ b = Total(g, n) /\ x = f[n + 1] /\ y = g[n + 1]
    BY <1>0, <2>1
  <2>3. Total(f, n + 1) = a + x /\ Total(g, n + 1) = b + y /\ a <= b /\ x <= y
    BY <1>0, <1>2, <2>1, <2>2
  <2>4. p <= n + 1 => a + x + d <= b + y
    <3>1. CASE p <= n
      BY <1>2, <2>2, <2>3, <3>1
    <3>2. CASE p = n + 1
      BY <2>2, <2>3, <3>2
    <3> QED
      BY <3>1, <3>2
  <2> QED
    BY <2>1, <2>3, <2>4
<1>3. \A n \in 0 .. N : n \in P
  <2> HIDE DEF P
  <2> QED
    BY <1>1, <1>2, InductUpto
<1> QED
  BY <1>3

\* Sums of the same numbers are the same, and each is in the sum.
LEMMA TotalSame ==
    ASSUME NEW N \in Nat, NEW f, NEW g, \A k \in 1 .. N : f[k] \in Nat /\ g[k] = f[k]
    PROVE  Total(f, N) = Total(g, N)
<1> DEFINE P == {n \in 0 .. N : Total(f, n) = Total(g, n)}
<1>0. /\ Total(f, 0) = 0 /\ Total(g, 0) = 0
      /\ \A n \in 1 .. N : Total(f, n) = Total(f, n - 1) + f[n] /\ Total(g, n) = Total(g, n - 1) + g[n]
  BY TotalSteps
<1>1. 0 \in P
  BY <1>0
<1>2. ASSUME NEW n \in 0 .. N, n \in P, n < N PROVE n + 1 \in P
  <2>1. n + 1 \in 1 .. N /\ (n + 1) - 1 = n
    BY <1>2
  <2> QED
    BY <1>0, <1>2, <2>1
<1>3. \A n \in 0 .. N : n \in P
  <2> HIDE DEF P
  <2> QED
    BY <1>1, <1>2, InductUpto
<1> QED
  BY <1>3

LEMMA TotalGrows ==
    ASSUME NEW N \in Nat, NEW f, \A k \in 1 .. N : f[k] \in Nat, NEW m \in 0 .. N
    PROVE  Total(f, m) <= Total(f, N)
<1> DEFINE P == {n \in 0 .. N : m <= n => Total(f, m) <= Total(f, n)}
<1>0. /\ Total(f, 0) = 0 /\ \A n \in 0 .. N : Total(f, n) \in Nat
      /\ \A n \in 1 .. N : Total(f, n) = Total(f, n - 1) + f[n]
  BY TotalSteps
<1>1. 0 \in P
  BY <1>0
<1>2. ASSUME NEW n \in 0 .. N, n \in P, n < N PROVE n + 1 \in P
  <2>1. n + 1 \in 1 .. N /\ (n + 1) - 1 = n /\ n + 1 \in 0 .. N
    BY <1>2
  <2>2. PICK a \in Nat, b \in Nat, x \in Nat :
          a = Total(f, n) /\ b = Total(f, m) /\ x = f[n + 1]
    BY <1>0, <2>1
  <2>3. Total(f, n + 1) = a + x
    BY <1>0, <2>1, <2>2
  <2>4. CASE m <= n
    BY <1>2, <2>1, <2>2, <2>3, <2>4
  <2>5. CASE m = n + 1
    BY <1>0, <2>1, <2>5
  <2>6. CASE m > n + 1
    BY <2>1, <2>6
  <2> QED
    BY <2>4, <2>5, <2>6
<1>3. \A n \in 0 .. N : n \in P
  <2> HIDE DEF P
  <2> QED
    BY <1>1, <1>2, InductUpto
<1> QED
  BY <1>3
-----------------------------------------------------------------------------
(* Those elements of a sequence that are in a set.                         *)

Kept(s, set, kept) ==
    kept = [n \in 0 .. Len(s) |->
              IF n = 0 THEN <<>>
              ELSE IF s[n] \in set THEN Append(kept[n - 1], s[n]) ELSE kept[n - 1]]

KeptIn(T, s, set, kept) ==
    /\ Those(s, set) = kept[Len(s)] /\ kept[0] = <<>>
    /\ \A n \in 0 .. Len(s) : kept[n] \in Seq(T \cap set)
    /\ \A n \in 1 .. Len(s) :
          kept[n] = IF s[n] \in set THEN Append(kept[n - 1], s[n]) ELSE kept[n - 1]

LEMMA ThoseSteps ==
    ASSUME NEW T, NEW s \in Seq(T), NEW set
    PROVE  \E kept : KeptIn(T, s, set, kept)
<1> DEFINE S == Seq(T \cap set)
           step == [p \in (1 .. Len(s)) \X S |->
                      IF s[p[1]] \in set THEN Append(p[2], s[p[1]]) ELSE p[2]]
<1>1. Len(s) \in Nat /\ \A n \in 1 .. Len(s) : s[n] \in T
  OBVIOUS
<1>2. PICK t : Recursion(t, Len(s), <<>>, step)
  BY <1>1, RecursionExists
<1>3. \A n \in 1 .. Len(s), x \in S :
          /\ step[<<n, x>>] = IF s[n] \in set THEN Append(x, s[n]) ELSE x
          /\ step[<<n, x>>] \in S
  BY <1>1
<1>4. <<>> \in S
  OBVIOUS
<1>5. \A n \in 0 .. Len(s) : t[n] \in S
  <2> HIDE DEF step, S
  <2> QED
    BY <1>1, <1>2, <1>3, <1>4, RecursionIn
<1> HIDE DEF step
<1>6. ASSUME NEW n \in 0 .. Len(s)
      PROVE  t[n] = IF n = 0 THEN <<>>
                    ELSE IF s[n] \in set THEN Append(t[n - 1], s[n]) ELSE t[n - 1]
  <2>1. t[n] = IF n = 0 THEN <<>> ELSE step[<<n, t[n - 1]>>]
    BY <1>2 DEF Recursion
  <2>2. n # 0 => n \in 1 .. Len(s) /\ t[n - 1] \in S
    BY <1>1, <1>5
  <2> HIDE DEF S
  <2> QED
    BY <1>3, <2>1, <2>2
<1>7. Kept(s, set, t)
  <2>1. t = [n \in 0 .. Len(s) |-> t[n]]
    BY <1>2 DEF Recursion
  <2> QED
    BY <1>6, <2>1 DEF Kept
<1>8. ASSUME NEW kept, Kept(s, set, kept)
      PROVE  \A n \in 0 .. Len(s) : kept[n] = t[n]
  <2> DEFINE P == {n \in 0 .. Len(s) : kept[n] = t[n]}
  <2>1. 0 \in P
    BY <1>1, <1>7, <1>8 DEF Kept
  <2>2. ASSUME NEW n \in 0 .. Len(s), n \in P, n < Len(s) PROVE n + 1 \in P
    <3>1. n + 1 \in 0 .. Len(s) /\ n + 1 # 0 /\ (n + 1) - 1 = n
      BY <1>1, <2>2
    <3>2. /\ kept[n + 1] = IF s[n + 1] \in set THEN Append(kept[n], s[n + 1]) ELSE kept[n]
          /\ t[n + 1] = IF s[n + 1] \in set THEN Append(t[n], s[n + 1]) ELSE t[n]
      BY <1>7, <1>8, <3>1 DEF Kept
    <3> QED
      BY <2>2, <3>1, <3>2
  <2>3. \A n \in 0 .. Len(s) : n \in P
    <3> HIDE DEF P
    <3> QED
      BY <1>1, <2>1, <2>2, InductUpto
  <2> QED
    BY <2>3
<1>9. \E kept : Kept(s, set, kept) /\ Those(s, set) = kept[Len(s)]
  BY <1>7, Zenon DEF Those, Kept
<1>10. Those(s, set) = t[Len(s)]
  BY <1>1, <1>8, <1>9
<1>11. \A n \in 1 .. Len(s) : n \in 0 .. Len(s) /\ n # 0
  OBVIOUS
<1>12. t[0] = <<>>
  BY <1>1, <1>6
<1> QED
  BY <1>5, <1>6, <1>10, <1>11, <1>12 DEF KeptIn

LEMMA ThoseType ==
    ASSUME NEW T, NEW s \in Seq(T), NEW set
    PROVE  Those(s, set) \in Seq(T \cap set) /\ Those(s, set) \in Seq(T)
<1>1. PICK kept : KeptIn(T, s, set, kept)
  BY ThoseSteps
<1>2. Len(s) \in 0 .. Len(s)
  OBVIOUS
<1>3. \A q : q \in Seq(T \cap set) => q \in Seq(T)
  OBVIOUS
<1> QED
  BY <1>1, <1>2, <1>3 DEF KeptIn

LEMMA ThoseAll ==
    ASSUME NEW T, NEW s \in Seq(T), NEW set, \A n \in 1 .. Len(s) : s[n] \in set
    PROVE  Those(s, set) = s
<1>0. PICK kept : KeptIn(T, s, set, kept)
  BY ThoseSteps
<1>1. /\ Those(s, set) = kept[Len(s)] /\ kept[0] = <<>>
      /\ \A n \in 0 .. Len(s) : kept[n] \in Seq(T \cap set)
      /\ \A n \in 1 .. Len(s) :
            kept[n] = IF s[n] \in set THEN Append(kept[n - 1], s[n]) ELSE kept[n - 1]
  BY <1>0 DEF KeptIn
<1> DEFINE P == {n \in 0 .. Len(s) : Len(kept[n]) = n /\ \A k \in 1 .. n : kept[n][k] = s[k]}
<1>2. Len(s) \in Nat /\ 0 \in P
  BY <1>1
<1>3. ASSUME NEW n \in 0 .. Len(s), n \in P, n < Len(s) PROVE n + 1 \in P
  <2>1. n + 1 \in 1 .. Len(s) /\ (n + 1) - 1 = n /\ n + 1 \in 0 .. Len(s)
    BY <1>2, <1>3
  <2>2. kept[n + 1] = Append(kept[n], s[n + 1]) /\ kept[n] \in Seq(T)
    <3>1. \A q : q \in Seq(T \cap set) => q \in Seq(T)
      OBVIOUS
    <3>2. kept[n + 1] = Append(kept[n], s[n + 1])
      BY <1>1, <2>1
    <3> QED
      BY <1>1, <2>1, <3>1, <3>2
  <2>3. Len(kept[n + 1]) = n + 1 /\ \A k \in 1 .. n + 1 : kept[n + 1][k] = s[k]
    BY <1>3, <2>1, <2>2
  <2> QED
    BY <2>1, <2>3
<1>4. \A n \in 0 .. Len(s) : n \in P
  <2> HIDE DEF P
  <2> QED
    BY <1>2, <1>3, InductUpto
<1>5. Len(kept[Len(s)]) = Len(s) /\ kept[Len(s)] \in Seq(T)
      /\ \A k \in 1 .. Len(s) : kept[Len(s)][k] = s[k]
  BY <1>1, <1>2, <1>4
<1> QED
  BY <1>1, <1>5, SeqEqual

ValuesAt(w, s) == [n \in 1 .. Len(s) |-> w[s[n]]]
ValuesAtThose(w, s, set) == [n \in 1 .. Len(s) |-> IF s[n] \in set THEN w[s[n]] ELSE 0]

\* Summing over those elements is summing over all, the others with nothing.
LEMMA ThoseTotal ==
    ASSUME NEW T, NEW s \in Seq(T), NEW set, NEW w, \A x \in T \cap set : w[x] \in Nat
    PROVE  Total(ValuesAt(w, Those(s, set)), Len(Those(s, set))) = Total(ValuesAtThose(w, s, set), Len(s))
<1>0. PICK kept : KeptIn(T, s, set, kept)
  BY ThoseSteps
<1>1. /\ Those(s, set) = kept[Len(s)] /\ kept[0] = <<>>
      /\ \A n \in 0 .. Len(s) : kept[n] \in Seq(T \cap set)
      /\ \A n \in 1 .. Len(s) :
            kept[n] = IF s[n] \in set THEN Append(kept[n - 1], s[n]) ELSE kept[n - 1]
  BY <1>0 DEF KeptIn
<1> DEFINE over(q) == [n \in 1 .. Len(q) |-> w[q[n]]]
           all == [n \in 1 .. Len(s) |-> IF s[n] \in set THEN w[s[n]] ELSE 0]
           P == {n \in 0 .. Len(s) : Total(over(kept[n]), Len(kept[n])) = Total(all, n)}
<1>2. Len(s) \in Nat /\ \A n \in 1 .. Len(s) : s[n] \in T /\ all[n] \in Nat
  OBVIOUS
<1>3. /\ Total(all, 0) = 0 /\ \A n \in 0 .. Len(s) : Total(all, n) \in Nat
      /\ \A n \in 1 .. Len(s) : Total(all, n) = Total(all, n - 1) + all[n]
  <2> HIDE DEF all
  <2> QED
    BY <1>2, TotalSteps
<1>4. ASSUME NEW q \in Seq(T \cap set), NEW x \in T \cap set
      PROVE  Total(over(Append(q, x)), Len(Append(q, x))) = Total(over(q), Len(q)) + w[x]
  <2>1. /\ Len(q) \in Nat /\ Len(Append(q, x)) = Len(q) + 1
        /\ \A n \in 1 .. Len(q) : q[n] \in T \cap set /\ Append(q, x)[n] = q[n]
        /\ Append(q, x)[Len(q) + 1] = x
    OBVIOUS
  <2> DEFINE g == over(Append(q, x))
             f == over(q)
  <2>2. \A n \in 1 .. Len(q) : f[n] \in Nat /\ g[n] = f[n]
    BY <2>1
  <2>3. g[Len(q) + 1] = w[x] /\ \A n \in 1 .. Len(q) + 1 : g[n] \in Nat
    BY <2>1
  <2> HIDE DEF f, g
  <2>4. Total(f, Len(q)) = Total(g, Len(q))
    BY <2>1, <2>2, TotalSame
  <2>5. Total(g, Len(q) + 1) = Total(g, Len(q)) + g[Len(q) + 1]
    <3>1. Len(q) + 1 \in Nat /\ Len(q) + 1 \in 1 .. Len(q) + 1 /\ (Len(q) + 1) - 1 = Len(q)
      BY <2>1
    <3>2. \A n \in 1 .. Len(q) + 1 : Total(g, n) = Total(g, n - 1) + g[n]
      BY <2>3, <3>1, TotalSteps
    <3> QED
      BY <3>1, <3>2
  <2>6. Total(g, Len(Append(q, x))) = Total(f, Len(q)) + w[x]
    BY <2>1, <2>3, <2>4, <2>5
  <2> QED
    BY <2>6 DEF f, g
<1>5. 0 \in P
  <2>1. Len(<<>>) = 0 /\ 0 \in Nat
    OBVIOUS
  <2>2. Total(over(<<>>), 0) = 0
    <3>1. \A k \in 1 .. 0 : over(<<>>)[k] \in Nat
      OBVIOUS
    <3> HIDE DEF over
    <3> QED
      BY <2>1, <3>1, TotalSteps
  <2> QED
    BY <1>1, <1>2, <1>3, <2>1, <2>2
<1>6. ASSUME NEW n \in 0 .. Len(s), n \in P, n < Len(s) PROVE n + 1 \in P
  <2>1. n + 1 \in 1 .. Len(s) /\ (n + 1) - 1 = n /\ n + 1 \in 0 .. Len(s)
    BY <1>2, <1>6
  <2>2. kept[n] \in Seq(T \cap set) /\ s[n + 1] \in T
    BY <1>1, <1>2, <2>1
  <2>3. kept[n + 1] = IF s[n + 1] \in set THEN Append(kept[n], s[n + 1]) ELSE kept[n]
    BY <1>1, <2>1
  <2>4. Total(all, n + 1) = Total(all, n) + all[n + 1] /\ Total(all, n) \in Nat
    BY <1>3, <2>1
  <2>5. Total(over(kept[n]), Len(kept[n])) = Total(all, n)
    BY <1>6
  <2>6. CASE s[n + 1] \in set
    <3>1. all[n + 1] = w[s[n + 1]]
      BY <2>1, <2>6
    <3>2. Total(over(kept[n + 1]), Len(kept[n + 1])) = Total(over(kept[n]), Len(kept[n])) + w[s[n + 1]]
      BY <1>4, <2>2, <2>3, <2>6
    <3>3. Total(over(kept[n + 1]), Len(kept[n + 1])) = Total(all, n + 1)
      <4> HIDE DEF over, all, P
      <4> QED
        BY <2>4, <2>5, <3>1, <3>2
    <3> QED
      BY <2>1, <3>3
  <2>7. CASE s[n + 1] \notin set
    <3>1. all[n + 1] = 0
      BY <2>1, <2>7
    <3>2. kept[n + 1] = kept[n]
      BY <2>3, <2>7
    <3>3. Total(over(kept[n + 1]), Len(kept[n + 1])) = Total(all, n + 1)
      <4> HIDE DEF over, all, P
      <4> QED
        BY <2>4, <2>5, <3>1, <3>2
    <3> QED
      BY <2>1, <3>3
  <2> QED
    BY <2>6, <2>7
<1>7. \A n \in 0 .. Len(s) : n \in P
  <2> HIDE DEF P
  <2> QED
    BY <1>2, <1>5, <1>6, InductUpto
<1> QED
  BY <1>1, <1>2, <1>7 DEF ValuesAt, ValuesAtThose
LEMMA TotalZeros ==
    ASSUME NEW N \in Nat, NEW f, \A k \in 1 .. N : f[k] \in Nat, NEW m \in 0 .. N,
           \A k \in 1 .. N : k > m => f[k] = 0
    PROVE  Total(f, N) = Total(f, m)
<1> DEFINE P == {n \in 0 .. N : m <= n => Total(f, n) = Total(f, m)}
<1>0. /\ Total(f, 0) = 0 /\ \A n \in 0 .. N : Total(f, n) \in Nat
      /\ \A n \in 1 .. N : Total(f, n) = Total(f, n - 1) + f[n]
  BY TotalSteps
<1>1. 0 \in P
  BY <1>0
<1>2. ASSUME NEW n \in 0 .. N, n \in P, n < N PROVE n + 1 \in P
  <2>1. n + 1 \in 1 .. N /\ (n + 1) - 1 = n /\ n + 1 \in 0 .. N
    BY <1>2
  <2>2. CASE m <= n
    <3>1. f[n + 1] = 0 /\ Total(f, n + 1) = Total(f, n) + f[n + 1] /\ Total(f, n) \in Nat
      BY <1>0, <2>1, <2>2
    <3> QED
      BY <1>2, <2>1, <2>2, <3>1
  <2>3. CASE m >= n + 1
    BY <1>0, <2>1, <2>3
  <2> QED
    BY <2>2, <2>3
<1>3. \A n \in 0 .. N : n \in P
  <2> HIDE DEF P
  <2> QED
    BY <1>1, <1>2, InductUpto
<1> QED
  BY <1>3

-----------------------------------------------------------------------------
(* Runs of fields and the offsets in them.                                 *)

Sized(fields) ==
    Len(fields) \in Nat /\ \A i \in 1 .. Len(fields) : Size(fields[i]) \in Nat

LEMMA OffsetInRun ==
    ASSUME NEW fields, Sized(fields), NEW run \in Seq(1 .. Len(fields)), NEW i \in Nat
    PROVE  /\ OffsetIn(fields, run, i) \in Nat /\ RunBytes(fields, run) \in Nat
           /\ \A p \in 1 .. Len(run) :
                OffsetIn(fields, run, run[p]) + Size(fields[run[p]]) <= RunBytes(fields, run)
<1> DEFINE before(j) == [n \in 1 .. Len(run) |-> IF run[n] < j THEN Size(fields[run[n]]) ELSE 0]
<1>1. Len(run) \in Nat /\ \A n \in 1 .. Len(run) : run[n] \in 1 .. Len(fields)
      /\ Size(fields[run[n]]) \in Nat
  BY DEF Sized
<1>2. \A j \in Nat : \A n \in 1 .. Len(run) : before(j)[n] \in Nat
  BY <1>1
<1>3. Len(fields) + 1 \in Nat
  BY DEF Sized
<1>4. ASSUME NEW j \in Nat PROVE OffsetIn(fields, run, j) = Total(before(j), Len(run))
                                 /\ OffsetIn(fields, run, j) \in Nat
  <2>1. OffsetIn(fields, run, j) = Total(before(j), Len(run))
    BY DEF OffsetIn
  <2>2. Len(run) \in 0 .. Len(run) /\ \A n \in 1 .. Len(run) : before(j)[n] \in Nat
    BY <1>1, <1>2
  <2> HIDE DEF before
  <2>3. Total(before(j), Len(run)) \in Nat
    BY <1>1, <2>2, TotalSteps
  <2> QED
    BY <2>1, <2>3
<1>5. ASSUME NEW p \in 1 .. Len(run)
      PROVE  OffsetIn(fields, run, run[p]) + Size(fields[run[p]]) <= RunBytes(fields, run)
  <2>1. run[p] \in 1 .. Len(fields) /\ run[p] \in Nat /\ Size(fields[run[p]]) \in Nat
    BY <1>1
  <2> DEFINE f == before(run[p])
             g == before(Len(fields) + 1)
  <2>2. \A n \in 1 .. Len(run) : f[n] \in Nat /\ g[n] \in Nat /\ f[n] <= g[n]
    BY <1>1, <1>3, <2>1
  <2>3. f[p] = 0 /\ g[p] = Size(fields[run[p]])
    BY <1>1, <1>3, <2>1
  <2>4. f[p] + Size(fields[run[p]]) <= g[p]
    BY <2>1, <2>3
  <2> HIDE DEF f, g
  <2>5. Total(f, Len(run)) + Size(fields[run[p]]) <= Total(g, Len(run))
    BY <1>1, <2>1, <2>2, <2>4, TotalLess
  <2>6. OffsetIn(fields, run, run[p]) = Total(f, Len(run))
        /\ RunBytes(fields, run) = Total(g, Len(run))
    BY <1>3, <1>4, <2>1 DEF f, g, RunBytes
  <2> QED
    BY <2>5, <2>6
<1> QED
  BY <1>3, <1>4, <1>5 DEF RunBytes

\* The sizes of the first m fields.
SizesOf(fields) == [k \in 1 .. Len(fields) |-> Size(fields[k])]
Sum(fields, m) == Total(SizesOf(fields), m)

LEMMA UptoType ==
    ASSUME NEW N \in Nat, NEW m \in 0 .. N
    PROVE  Upto(m) \in Seq(1 .. N) /\ Len(Upto(m)) = m /\ \A k \in 1 .. m : Upto(m)[k] = k
BY DEF Upto

LEMMA SumSteps ==
    ASSUME NEW fields, Sized(fields)
    PROVE  /\ \A m \in 0 .. Len(fields) : Sum(fields, m) \in Nat
                                         /\ Sum(fields, m) <= Sum(fields, Len(fields))
           /\ Sum(fields, 0) = 0
           /\ \A m \in 1 .. Len(fields) : Sum(fields, m) = Sum(fields, m - 1) + Size(fields[m])
<1>1. Len(fields) \in Nat /\ \A k \in 1 .. Len(fields) : SizesOf(fields)[k] = Size(fields[k])
                                                       /\ SizesOf(fields)[k] \in Nat
  BY DEF Sized, SizesOf
<1> QED
  BY <1>1, TotalSteps, TotalGrows DEF Sum

\* Up to item i, or as far as the run goes.
LEMMA OffsetUpto ==
    ASSUME NEW fields, Sized(fields), NEW m \in 0 .. Len(fields), NEW i \in 1 .. Len(fields) + 1
    PROVE  OffsetIn(fields, Upto(m), i) = Sum(fields, IF i - 1 <= m THEN i - 1 ELSE m)
<1> DEFINE j == IF i - 1 <= m THEN i - 1 ELSE m
           f == [n \in 1 .. m |-> IF n < i THEN Size(fields[n]) ELSE 0]
<1>1. Len(fields) \in Nat /\ m \in Nat /\ j \in 0 .. m /\ j \in Nat
      /\ \A n \in 1 .. m : n \in 1 .. Len(fields) /\ Size(fields[n]) \in Nat
  BY DEF Sized
<1>2. OffsetIn(fields, Upto(m), i) = Total(f, m)
  <2>1. Len(Upto(m)) = m /\ \A n \in 1 .. m : Upto(m)[n] = n
    BY <1>1, UptoType
  <2>2. [n \in 1 .. Len(Upto(m)) |-> IF Upto(m)[n] < i THEN Size(fields[Upto(m)[n]]) ELSE 0] = f
    BY <2>1
  <2> QED
    BY <2>1, <2>2 DEF OffsetIn
<1>3. \A n \in 1 .. m : f[n] \in Nat /\ (n > j => f[n] = 0)
  BY <1>1
<1>4. \A n \in 1 .. j : f[n] = SizesOf(fields)[n] /\ SizesOf(fields)[n] \in Nat
  BY <1>1 DEF SizesOf
<1> HIDE DEF f, j
<1>5. Total(f, m) = Total(f, j)
  BY <1>1, <1>3, TotalZeros
<1>6. Total(SizesOf(fields), j) = Total(f, j)
  BY <1>1, <1>4, TotalSame
<1> QED
  BY <1>2, <1>5, <1>6 DEF Sum, j

\* In a prefix only its fields have a size.
LEMMA OffsetPrefix ==
    ASSUME NEW fields, Sized(fields), NEW m \in 0 .. Len(fields), NEW i \in 1 .. Len(fields) + 1
    PROVE  /\ PrefixRun(fields, m + 1) \in Seq(1 .. Len(fields))
           /\ \A p \in 1 .. Len(PrefixRun(fields, m + 1)) :
                    PrefixRun(fields, m + 1)[p] \in Prefix(fields)
           /\ OffsetIn(fields, PrefixRun(fields, m + 1), i)
                = Sum(fields, IF i - 1 <= m THEN i - 1 ELSE m)
<1> DEFINE T == 1 .. Len(fields)
           run == Those(Upto(m), Prefix(fields))
           w == [x \in T |-> IF x < i THEN Size(fields[x]) ELSE 0]
<1>1. Len(fields) \in Nat /\ m \in Nat /\ (m + 1) - 1 = m
      /\ \A n \in 1 .. m : n \in T /\ Size(fields[n]) \in Nat
  BY DEF Sized
<1>2. Upto(m) \in Seq(T) /\ Len(Upto(m)) = m /\ \A n \in 1 .. m : Upto(m)[n] = n
  BY <1>1, UptoType
<1>3. PrefixRun(fields, m + 1) = run
  BY <1>1 DEF PrefixRun
<1>4. \A x \in T : w[x] = (IF x < i THEN Size(fields[x]) ELSE 0) /\ w[x] \in Nat
  BY DEF Sized
<1>5. run \in Seq(T \cap Prefix(fields)) /\ run \in Seq(T)
  BY <1>2, ThoseType
<1>6. \A x \in T \ Prefix(fields) : w[x] = 0
  BY DEF Prefix, Size
<1>7. Total([n \in 1 .. Len(run) |-> w[run[n]]], Len(run))
        = Total([n \in 1 .. m |-> IF Upto(m)[n] \in Prefix(fields) THEN w[Upto(m)[n]] ELSE 0], m)
  <2> HIDE DEF w, T
  <2>1. \A x \in T \cap Prefix(fields) : w[x] \in Nat
    BY <1>4
  <2>2. Total(ValuesAt(w, run), Len(run)) = Total(ValuesAtThose(w, Upto(m), Prefix(fields)), Len(Upto(m)))
    BY <1>2, <2>1, ThoseTotal
  <2> QED
    BY <1>2, <2>2 DEF ValuesAt, ValuesAtThose
<1>8. [n \in 1 .. Len(run) |-> w[run[n]]]
        = [n \in 1 .. Len(run) |-> IF run[n] < i THEN Size(fields[run[n]]) ELSE 0]
  <2>1. \A n \in 1 .. Len(run) : run[n] \in T
    <3> HIDE DEF run, T
    <3> QED
      BY <1>5
  <2> HIDE DEF w, T, run
  <2> QED
    BY <1>4, <2>1
<1>9. [n \in 1 .. m |-> IF Upto(m)[n] \in Prefix(fields) THEN w[Upto(m)[n]] ELSE 0]
        = [n \in 1 .. m |-> IF Upto(m)[n] < i THEN Size(fields[Upto(m)[n]]) ELSE 0]
  <2> HIDE DEF w, T
  <2>1. \A n \in 1 .. m : (IF Upto(m)[n] \in Prefix(fields) THEN w[Upto(m)[n]] ELSE 0)
                            = (IF Upto(m)[n] < i THEN Size(fields[Upto(m)[n]]) ELSE 0)
    BY <1>1, <1>2, <1>4, <1>6
  <2> QED
    BY <2>1
<1>10. OffsetIn(fields, run, i) = OffsetIn(fields, Upto(m), i)
  <2> HIDE DEF w, T, run
  <2> QED
    BY <1>2, <1>7, <1>8, <1>9 DEF OffsetIn
<1>11. \A p \in 1 .. Len(run) : run[p] \in Prefix(fields)
  <2> HIDE DEF run, T
  <2> QED
    BY <1>5
<1> HIDE DEF run, T
<1>12. OffsetIn(fields, run, i) = Sum(fields, IF i - 1 <= m THEN i - 1 ELSE m)
  BY <1>10, OffsetUpto
<1> QED
  BY <1>3, <1>5, <1>11, <1>12 DEF T

LEMMA RunBytesUpto ==
    ASSUME NEW fields, Sized(fields), NEW m \in 0 .. Len(fields)
    PROVE  /\ RunBytes(fields, Upto(m)) = Sum(fields, m)
           /\ RunBytes(fields, PrefixRun(fields, m + 1)) = Sum(fields, m)
<1>1. Len(fields) \in Nat /\ Len(fields) + 1 \in 1 .. Len(fields) + 1
      /\ (IF (Len(fields) + 1) - 1 <= m THEN (Len(fields) + 1) - 1 ELSE m) = m
  BY DEF Sized
<1> QED
  BY <1>1, OffsetUpto, OffsetPrefix DEF RunBytes
-----------------------------------------------------------------------------
(* Stores that end within a room, and plans made of them.                  *)

Placed(room) == {s \in [at: Nat, bytes: Bytes, hook: BOOLEAN] : s.at + Len(s.bytes) <= room}
Within(room) == Seq(Placed(room))

LEMMA StoreFits ==
    ASSUME NEW room \in Nat, NEW at \in Nat, NEW bytes \in Bytes, at + Len(bytes) <= room
    PROVE  Store(at, bytes) \in Placed(room) /\ HookStore(at, bytes) \in Placed(room)
BY DEF Store, HookStore, Placed

LEMMA WithinGrows ==
    ASSUME NEW room \in Nat, NEW more \in Nat, room <= more
    PROVE  Placed(room) \subseteq Placed(more) /\ Within(room) \subseteq Within(more)
<1>1. ASSUME NEW s \in Placed(room) PROVE s \in Placed(more)
  <2>1. Len(s.bytes) \in Nat /\ s.at \in Nat
    BY DEF Placed, Bytes
  <2> QED
    BY <2>1 DEF Placed
<1>2. \A S, T : S \subseteq T => Seq(S) \subseteq Seq(T)
  OBVIOUS
<1> QED
  BY <1>1, <1>2 DEF Within

LEMMA ShiftFits ==
    ASSUME NEW room \in Nat, NEW d \in Nat, NEW stores \in Within(room)
    PROVE  Shift(stores, d) \in Within(room + d) /\ Len(Shift(stores, d)) = Len(stores)
<1>1. Len(stores) \in Nat /\ \A n \in 1 .. Len(stores) : stores[n] \in Placed(room)
  BY DEF Within
<1>2. ASSUME NEW s \in Placed(room) PROVE [s EXCEPT !.at = @ + d] \in Placed(room + d)
  <2>1. Len(s.bytes) \in Nat /\ s.at \in Nat
    BY DEF Placed, Bytes
  <2> QED
    BY <2>1 DEF Placed
<1>3. \A n \in 1 .. Len(stores) : [stores[n] EXCEPT !.at = @ + d] \in Placed(room + d)
  BY <1>1, <1>2
<1> QED
  BY <1>1, <1>3 DEF Shift, Within

\* Item i of a struct is written with the bytes of its size.
Writes(fields, c, i) ==
    FieldBytes(fields[i], c[i]) \in Bytes /\ Len(FieldBytes(fields[i], c[i])) = Size(fields[i])

LEMMA RunStoresFit ==
    ASSUME NEW fields, Sized(fields), NEW c, NEW but, NEW run \in Seq(1 .. Len(fields)),
           \A p \in 1 .. Len(run) : run[p] \notin but => Writes(fields, c, run[p])
    PROVE  RunStores(fields, c, run, but) \in Within(RunBytes(fields, run))
<1> DEFINE T == {run[p] : p \in 1 .. Len(run)}
           kept == Those(run, (1 .. Len(fields)) \ but)
           store(n) == Store(OffsetIn(fields, run, kept[n]), FieldBytes(fields[kept[n]], c[kept[n]]))
<1>1. Len(run) \in Nat /\ run \in Seq(T) /\ T \subseteq 1 .. Len(fields)
  OBVIOUS
<1>2. kept \in Seq(T \cap ((1 .. Len(fields)) \ but))
  <2> HIDE DEF T
  <2> QED
    BY <1>1, ThoseType
<1>3. Len(kept) \in Nat /\ \A n \in 1 .. Len(kept) : kept[n] \in T /\ kept[n] \notin but
  <2> HIDE DEF T, kept
  <2> QED
    BY <1>2
<1>4. ASSUME NEW n \in 1 .. Len(kept) PROVE store(n) \in Placed(RunBytes(fields, run))
  <2>1. PICK p \in 1 .. Len(run) : kept[n] = run[p] /\ run[p] \notin but
    BY <1>3
  <2>2. run[p] \in 1 .. Len(fields) /\ run[p] \in Nat /\ Len(fields) \in Nat
    BY DEF Sized
  <2>3. /\ OffsetIn(fields, run, run[p]) \in Nat /\ RunBytes(fields, run) \in Nat
        /\ OffsetIn(fields, run, run[p]) + Size(fields[run[p]]) <= RunBytes(fields, run)
    BY <2>2, OffsetInRun
  <2>4. FieldBytes(fields[run[p]], c[run[p]]) \in Bytes
        /\ Len(FieldBytes(fields[run[p]], c[run[p]])) = Size(fields[run[p]])
    BY <2>1 DEF Writes
  <2> HIDE DEF kept
  <2> QED
    BY <2>1, <2>3, <2>4, StoreFits
<1>5. RunStores(fields, c, run, but) = [n \in 1 .. Len(kept) |-> store(n)]
  BY Zenon DEF RunStores
<1> HIDE DEF kept, store
<1> QED
  BY <1>3, <1>4, <1>5 DEF Within

Errors == {"none", "ValueTooLarge"}
Plans(room) ==
    [need: Nat, early: Errors, stores: Within(room), late: Errors, used: Nat]

LEMMA PlanFits ==
    ASSUME NEW room, NEW need \in Nat, NEW stores \in Within(room)
    PROVE  /\ Plan(need, stores) \in Plans(room)
           /\ Plan(need, stores).need = need /\ Plan(need, stores).used = need
           /\ Plan(need, stores).stores = stores /\ Plan(need, stores).early = "none"
           /\ Plan(need, stores).late = "none"
BY DEF Plan, Plans, Errors

LEMMA PlansGrow ==
    ASSUME NEW room \in Nat, NEW more \in Nat, room <= more
    PROVE  Plans(room) \subseteq Plans(more)
<1>1. Within(room) \subseteq Within(more)
  BY WithinGrows
<1> QED
  BY <1>1 DEF Plans

LEMMA Concat ==
    ASSUME NEW room, NEW p \in Within(room), NEW q \in Within(room)
    PROVE  p \o q \in Within(room)
BY DEF Within

LEMMA Single ==
    ASSUME NEW room, NEW s \in Placed(room)
    PROVE  <<s>> \in Within(room)
BY DEF Within

LEMMA Empty ==
    ASSUME NEW room
    PROVE  <<>> \in Within(room)
BY DEF Within

LEMMA ThenFits ==
    ASSUME NEW room \in Nat, NEW p \in Plans(room), NEW part \in Nat, NEW q \in Plans(part),
           NEW at \in Nat, at + part <= room
    PROVE  /\ Then(p, q, at) \in Plans(room)
           /\ Then(p, q, at).need = p.need /\ Then(p, q, at).used = p.used
           /\ Then(p, q, at).early = p.early
<1>1. /\ p.stores \in Within(room) /\ p.late \in Errors /\ p.need \in Nat /\ p.used \in Nat
      /\ p.early \in Errors /\ q.stores \in Within(part) /\ q.late \in Errors
  BY DEF Plans
<1>2. Shift(q.stores, at) \in Within(part + at) /\ part + at \in Nat /\ part + at <= room
  <2>1. part + at \in Nat /\ part + at <= room
    OBVIOUS
  <2>2. Shift(q.stores, at) \in Within(part + at)
    BY <1>1, ShiftFits
  <2> QED
    BY <2>1, <2>2
<1>3. Shift(q.stores, at) \in Within(room)
  BY <1>2, WithinGrows
<1>4. p.stores \o Shift(q.stores, at) \in Within(room)
  BY <1>1, <1>3, Concat
<1>5. CASE p.late # "none"
  BY <1>5 DEF Then
<1>6. CASE p.late = "none"
  <2> DEFINE u == p.stores \o Shift(q.stores, at)
  <2>1. Then(p, q, at) = [p EXCEPT !.stores = u, !.late = q.late]
    BY <1>6 DEF Then
  <2>2. u \in Within(room)
    BY <1>4
  <2> HIDE DEF u
  <2> QED
    BY <1>1, <2>1, <2>2 DEF Plans
<1> QED
  BY <1>5, <1>6
-----------------------------------------------------------------------------
(* Structs and contents.                                                   *)

\* Items with the values of a content; those of a union or a conditional have
\* contents of their own.
Filled(fields, c) ==
    /\ fields \in Seq(Items)
    /\ \A i \in 1 .. Len(fields) :
          /\ FieldWell(fields[i], i)
          /\ fields[i].kind \notin {"union", "cond"} => FieldHolds(fields[i], c[i])

SizedKinds == {"num", "int", "bits", "const", "fixed", "multi"}

LEMMA ItemType ==
    ASSUME NEW it \in Items
    PROVE  /\ it.kind \in ItemKinds /\ it.pad \in Nat /\ it.skip \in BOOLEAN /\ it.size \in Nat
           /\ it.bytes \in Bytes /\ it.len \in Exprs /\ it.discs \in Seq(Nat)
           /\ it.arms \in Seq(Arms)
           /\ it.yes \in Seq(Fields) /\ it.no \in Seq(Fields)
           /\ it.len.of \in Nat /\ it.len.times \in Nat /\ it.len.plus \in Nat /\ it.len.minus \in Nat
           /\ it.write \in {"none", "encode", "encode, width"}
           /\ Size(it) \in Nat
<1>1. /\ it.kind \in ItemKinds /\ it.pad \in Nat /\ it.skip \in BOOLEAN /\ it.size \in Nat
      /\ it.bytes \in Bytes /\ it.len \in Exprs /\ it.discs \in Seq(Nat)
      /\ it.arms \in Seq(Arms)
      /\ it.yes \in Seq(Fields) /\ it.no \in Seq(Fields)
      /\ it.write \in {"none", "encode", "encode, width"}
  BY DEF Items, ItemsWith
<1>2. it.len.of \in Nat /\ it.len.times \in Nat /\ it.len.plus \in Nat /\ it.len.minus \in Nat
  BY <1>1 DEF Exprs
<1>3. Size(it) \in Nat
  BY <1>1 DEF Size
<1> QED
  BY <1>1, <1>2, <1>3

LEMMA FieldsAreItems == Fields \subseteq Items /\ Seq(Fields) \subseteq Seq(Items)
<1>1. {<<>>} \subseteq Seq(Arms) /\ {<<>>} \subseteq Seq(Fields)
  OBVIOUS
<1>2. ASSUME NEW A, NEW B, NEW C, NEW D, A \subseteq C, B \subseteq D
      PROVE  ItemsWith(A, B) \subseteq ItemsWith(C, D)
  BY <1>2 DEF ItemsWith
<1>3. Fields \subseteq Items
  <2>1. ItemsWith({<<>>}, {<<>>}) \subseteq ItemsWith(Seq(Arms), Seq(Fields))
    BY <1>1, <1>2
  <2> QED
    BY <2>1 DEF Fields, Items
<1>4. \A S, T : S \subseteq T => Seq(S) \subseteq Seq(T)
  OBVIOUS
<1> QED
  BY <1>3, <1>4

LEMMA FilledSized ==
    ASSUME NEW fields \in Seq(Items)
    PROVE  /\ Sized(fields) /\ DOMAIN fields = 1 .. Len(fields)
           /\ \A i \in 1 .. Len(fields) : fields[i] \in Items
<1>1. /\ Len(fields) \in Nat /\ DOMAIN fields = 1 .. Len(fields)
      /\ \A i \in 1 .. Len(fields) : fields[i] \in Items
  OBVIOUS
<1>2. \A i \in 1 .. Len(fields) : Size(fields[i]) \in Nat
  BY <1>1, ItemType
<1> QED
  BY <1>1, <1>2 DEF Sized

\* A field of known size is written with the bytes of its size.
LEMMA FieldWrites ==
    ASSUME NEW it \in Items, NEW i, FieldWell(it, i), NEW v, FieldHolds(it, v),
           it.kind \in SizedKinds
    PROVE  FieldBytes(it, v) \in Bytes /\ Len(FieldBytes(it, v)) = Size(it)
<1>1. it.bytes \in Bytes /\ it.size \in Nat
  BY ItemType
<1>2. CASE it.kind = "const"
  BY <1>1, <1>2 DEF FieldBytes, FieldWell, Size
<1>3. CASE it.kind \in {"num", "int", "bits"}
  <2>1. v \in Byte
    BY <1>3 DEF FieldHolds, IsNumber
  <2>2. FieldBytes(it, v) = <<v>> /\ Size(it) = 1
    BY <1>3 DEF FieldBytes, IsNumber, Size
  <2> QED
    BY <2>1, <2>2 DEF Bytes
<1>4. CASE it.kind \in {"fixed", "multi"}
  <2>1. FieldBytes(it, v) = v /\ Size(it) = it.size
    BY <1>4 DEF FieldBytes, IsNumber, Size
  <2>2. v \in Bytes /\ Len(v) = it.size
    BY <1>4 DEF FieldHolds
  <2> QED
    BY <2>1, <2>2
<1> QED
  BY <1>2, <1>3, <1>4 DEF SizedKinds

LEMMA FilledWrites ==
    ASSUME NEW fields, NEW c, Filled(fields, c), NEW i \in 1 .. Len(fields), fields[i].kind \in SizedKinds
    PROVE  Writes(fields, c, i)
<1>1. fields[i] \in Items
  BY FilledSized DEF Filled
<1>2. FieldWell(fields[i], i) /\ FieldHolds(fields[i], c[i])
  BY DEF Filled, SizedKinds
<1> QED
  BY <1>1, <1>2, FieldWrites DEF Writes

LEMMA FixedIsSized ==
    ASSUME NEW it, FixedField(it)
    PROVE  it.kind \in SizedKinds
BY DEF FixedField, SizedKinds

\* Fields of known size are stored within their run.
LEMMA FilledRun ==
    ASSUME NEW fields, NEW c, Filled(fields, c), NEW but, NEW run \in Seq(1 .. Len(fields)),
           \A p \in 1 .. Len(run) : fields[run[p]].kind \in SizedKinds
    PROVE  RunStores(fields, c, run, but) \in Within(RunBytes(fields, run))
           /\ RunBytes(fields, run) \in Nat
<1>1. Sized(fields)
  BY FilledSized DEF Filled
<1>2. ASSUME NEW p \in 1 .. Len(run) PROVE Writes(fields, c, run[p])
  <2>1. run[p] \in 1 .. Len(fields)
    OBVIOUS
  <2> QED
    BY <2>1, FilledWrites
<1>3. RunStores(fields, c, run, but) \in Within(RunBytes(fields, run))
  BY <1>1, <1>2, RunStoresFit
<1> QED
  BY <1>1, <1>3, OffsetInRun DEF RunBytes

LEMMA FilledUpto ==
    ASSUME NEW fields, NEW c, Filled(fields, c), NEW but, NEW m \in 0 .. Len(fields),
           \A i \in 1 .. m : fields[i].kind \in SizedKinds
    PROVE  /\ RunStores(fields, c, Upto(m), but) \in Within(RunBytes(fields, Upto(m)))
           /\ RunBytes(fields, Upto(m)) = Sum(fields, m) /\ Sum(fields, m) \in Nat
<1>1. Sized(fields) /\ Len(fields) \in Nat
  BY FilledSized DEF Filled, Sized
<1>2. Upto(m) \in Seq(1 .. Len(fields)) /\ Len(Upto(m)) = m /\ \A k \in 1 .. m : Upto(m)[k] = k
  BY <1>1, UptoType
<1> QED
  BY <1>1, <1>2, FilledRun, RunBytesUpto, SumSteps

LEMMA FilledPrefix ==
    ASSUME NEW fields, NEW c, Filled(fields, c), NEW but, NEW m \in 0 .. Len(fields)
    PROVE  /\ RunStores(fields, c, PrefixRun(fields, m + 1), but) \in Within(Sum(fields, m))
           /\ RunBytes(fields, PrefixRun(fields, m + 1)) = Sum(fields, m)
           /\ Sum(fields, m) \in Nat
<1>1. Sized(fields) /\ Len(fields) \in Nat /\ Len(fields) + 1 \in 1 .. Len(fields) + 1
  BY FilledSized DEF Filled, Sized
<1>2. /\ PrefixRun(fields, m + 1) \in Seq(1 .. Len(fields))
      /\ \A p \in 1 .. Len(PrefixRun(fields, m + 1)) : PrefixRun(fields, m + 1)[p] \in Prefix(fields)
  BY <1>1, OffsetPrefix
<1>3. \A i \in Prefix(fields) : fields[i].kind \in SizedKinds
  BY DEF Prefix, SizedKinds
<1> QED
  BY <1>1, <1>2, <1>3, FilledRun, RunBytesUpto, SumSteps

\* The store of one byte into a number of a run.
LEMMA NumberFits ==
    ASSUME NEW fields, Sized(fields), NEW run \in Seq(1 .. Len(fields)), NEW p \in 1 .. Len(run),
           IsNumber(fields[run[p]]), NEW b \in Byte
    PROVE  Store(OffsetIn(fields, run, run[p]), <<b>>) \in Placed(RunBytes(fields, run))
<1>1. run[p] \in Nat /\ Size(fields[run[p]]) = 1
  BY DEF IsNumber, Size
<1>2. /\ OffsetIn(fields, run, run[p]) \in Nat /\ RunBytes(fields, run) \in Nat
      /\ OffsetIn(fields, run, run[p]) + 1 <= RunBytes(fields, run)
  BY <1>1, OffsetInRun
<1>3. <<b>> \in Bytes /\ Len(<<b>>) = 1
  BY DEF Bytes
<1> QED
  BY <1>2, <1>3, StoreFits

\* The length field of n bytes, if the length is one it can hold.
LEMMA LenPlanFits ==
    ASSUME NEW fields, Sized(fields), NEW run \in Seq(1 .. Len(fields)), NEW p \in 1 .. Len(run),
           NEW e \in Exprs, e.of = run[p], IsNumber(fields[run[p]]), NEW n \in Nat
    PROVE  /\ LenPlan(fields, run, e, n) \in Plans(RunBytes(fields, run))
           /\ LenPlan(fields, run, e, n).stores \in Within(RunBytes(fields, run))
           /\ LenError(e, n) \in Errors
           /\ LenError(e, n) = "none" => LenPlan(fields, run, e, n).stores # <<>>
<1>1. e.plus \in Nat /\ e.minus \in Nat
  BY DEF Exprs
<1>2. LenValue(n, e) \in Nat
  BY <1>1 DEF LenValue, Minus
<1>3. LenError(e, n) \in Errors
  BY DEF LenError, Errors
<1>4. ASSUME LenError(e, n) = "none"
      PROVE  Store(OffsetIn(fields, run, e.of), <<LenValue(n, e)>>) \in Placed(RunBytes(fields, run))
  <2>1. LenValue(n, e) \in Byte
    BY <1>2, <1>4, BaseAssumption DEF LenError, Byte, MaxByte
  <2> QED
    BY <2>1, NumberFits
<1> DEFINE stores == IF LenError(e, n) = "none"
                     THEN <<Store(OffsetIn(fields, run, e.of), <<LenValue(n, e)>>)>> ELSE <<>>
<1>5. stores \in Within(RunBytes(fields, run))
  BY <1>4, Single, Empty
<1>6. LenPlan(fields, run, e, n) = [Plan(0, stores) EXCEPT !.late = LenError(e, n)]
  BY DEF LenPlan
<1>7. LenError(e, n) = "none" => stores # <<>>
  OBVIOUS
<1> HIDE DEF stores
<1>8. LenPlan(fields, run, e, n).stores = stores
  BY <1>6 DEF Plan
<1>9. LenPlan(fields, run, e, n) \in Plans(RunBytes(fields, run))
  BY <1>3, <1>5, <1>6 DEF Plan, Plans, Errors
<1> QED
  BY <1>3, <1>5, <1>7, <1>8, <1>9
-----------------------------------------------------------------------------
(* Fields of known size, with and without padding.                         *)

\* A plan whose stores lie in the room it asks for, all of which it uses.
InRoom(plan0) == plan0 \in Plans(plan0.need) /\ plan0.used = plan0.need

LEMMA FixedPlanFits ==
    ASSUME NEW fields, NEW c, Filled(fields, c),
           \A i \in 1 .. Len(fields) : fields[i].kind \in SizedKinds
    PROVE  InRoom(FixedPlan(fields, c)) /\ FixedPlan(fields, c).need = Sum(fields, Len(fields))
           /\ FixedPlan(fields, c).early = "none"
<1>1. Len(fields) \in 0 .. Len(fields)
  BY FilledSized DEF Filled, Sized
<1>2. /\ RunStores(fields, c, Upto(Len(fields)), {}) \in Within(RunBytes(fields, Upto(Len(fields))))
      /\ RunBytes(fields, Upto(Len(fields))) = Sum(fields, Len(fields))
      /\ Sum(fields, Len(fields)) \in Nat
  BY <1>1, FilledUpto
<1> QED
  BY <1>2, PlanFits DEF FixedPlan, InRoom

\* Pads and sizes of the first m fields.
WithPads(fields) == [k \in 1 .. Len(fields) |-> fields[k].pad + Size(fields[k])]

LEMMA PaddedOffsetIs ==
    ASSUME NEW fields \in Seq(Items), NEW i \in 1 .. Len(fields)
    PROVE  /\ PaddedOffset(fields, i) \in Nat
           /\ PaddedOffset(fields, i) + Size(fields[i]) = Total(WithPads(fields), i)
           /\ Total(WithPads(fields), i) \in Nat
           /\ Total(WithPads(fields), i) <= Total(WithPads(fields), Len(fields))
<1> DEFINE f == [j \in 1 .. i |-> fields[j].pad + (IF j < i THEN Size(fields[j]) ELSE 0)]
           g == WithPads(fields)
<1>1. /\ Len(fields) \in Nat /\ i \in Nat /\ i \in 1 .. i /\ i \in 0 .. i /\ i \in 0 .. Len(fields)
      /\ i - 1 \in Nat /\ i - 1 \in 0 .. i /\ i - 1 \in 0 .. Len(fields)
      /\ \A j \in 1 .. Len(fields) : fields[j].pad \in Nat /\ Size(fields[j]) \in Nat
  <2>1. Len(fields) \in Nat /\ \A j \in 1 .. Len(fields) : fields[j] \in Items
    BY FilledSized DEF Sized
  <2>2. \A j \in 1 .. Len(fields) : fields[j].pad \in Nat /\ Size(fields[j]) \in Nat
    BY <2>1, ItemType
  <2> QED
    BY <2>1, <2>2
<1>2. \A j \in 1 .. i : f[j] \in Nat /\ (j < i => f[j] = fields[j].pad + Size(fields[j]))
  BY <1>1
<1>3. f[i] = fields[i].pad
  BY <1>1
<1>4. \A j \in 1 .. Len(fields) : g[j] = fields[j].pad + Size(fields[j]) /\ g[j] \in Nat
  BY <1>1 DEF WithPads
<1>5. PaddedOffset(fields, i) = Total(f, i)
  BY DEF PaddedOffset
<1> HIDE DEF f, g
<1>6. Total(f, i) = Total(f, i - 1) + f[i] /\ Total(f, i - 1) \in Nat /\ Total(f, i) \in Nat
  BY <1>1, <1>2, TotalSteps
<1>7. Total(g, i) = Total(g, i - 1) + g[i] /\ Total(g, i) \in Nat
  BY <1>1, <1>4, TotalSteps
<1>8. Total(g, i - 1) = Total(f, i - 1)
  <2>1. \A j \in 1 .. i - 1 : f[j] \in Nat /\ g[j] = f[j]
    BY <1>1, <1>2, <1>4
  <2> QED
    BY <1>1, <2>1, TotalSame
<1>9. Total(g, i) <= Total(g, Len(fields))
  BY <1>1, <1>4, TotalGrows
<1>10. fields[i].pad \in Nat /\ Size(fields[i]) \in Nat /\ g[i] = fields[i].pad + Size(fields[i])
  BY <1>1, <1>4
<1>11. Total(f, i) + Size(fields[i]) = Total(g, i)
  <2> PICK a \in Nat, b \in Nat, d \in Nat :
        a = Total(f, i - 1) /\ b = fields[i].pad /\ d = Size(fields[i])
    BY <1>6, <1>10
  <2> QED
    BY <1>3, <1>6, <1>7, <1>8, <1>10
<1> QED
  BY <1>5, <1>6, <1>7, <1>9, <1>11 DEF g

LEMMA PaddedPlanFits ==
    ASSUME NEW fields, NEW c, Filled(fields, c), Len(fields) > 0,
           \A i \in 1 .. Len(fields) : fields[i].kind \in SizedKinds
    PROVE  /\ InRoom(PaddedPlan(fields, c)) /\ PaddedPlan(fields, c).early = "none"
           /\ PaddedPlan(fields, c).need = Total(WithPads(fields), Len(fields))
           /\ PaddedPlan(fields, c).stores # <<>>
<1> DEFINE n == Len(fields)
           size == PaddedOffset(fields, n) + Size(fields[n])
           set == Those(Upto(n), {i \in 1 .. n : ~fields[i].skip})
           store(k) == Store(PaddedOffset(fields, set[k]), FieldBytes(fields[set[k]], c[set[k]]))
           rest == [k \in 1 .. Len(set) |-> store(k)]
<1>1. n \in Nat /\ n \in 1 .. n /\ fields \in Seq(Items)
  BY FilledSized DEF Filled, Sized
<1>2. size = Total(WithPads(fields), n) /\ size \in Nat
  BY <1>1, PaddedOffsetIs
<1>3. set \in Seq(1 .. n)
  <2>1. Upto(n) \in Seq(1 .. n)
    BY <1>1, UptoType
  <2> HIDE DEF n
  <2> QED
    BY <2>1, ThoseType
<1>4. ASSUME NEW k \in 1 .. Len(set) PROVE store(k) \in Placed(size)
  <2>1. set[k] \in 1 .. n
    BY <1>3
  <2>2. Writes(fields, c, set[k])
    BY <2>1, FilledWrites
  <2>3. /\ PaddedOffset(fields, set[k]) \in Nat
        /\ PaddedOffset(fields, set[k]) + Size(fields[set[k]]) <= size
    BY <1>1, <1>2, <2>1, PaddedOffsetIs
  <2> HIDE DEF set, size
  <2> QED
    BY <1>2, <2>2, <2>3, StoreFits DEF Writes
<1>5. rest \in Within(size)
  <2>1. Len(set) \in Nat
    BY <1>3
  <2> HIDE DEF set, size, store
  <2> QED
    BY <1>4, <2>1 DEF Within
<1>6. Store(0, Zeroes(size)) \in Placed(size)
  <2>1. Zeroes(size) \in Bytes /\ Len(Zeroes(size)) = size
    <3> HIDE DEF size
    <3> QED
      BY <1>2, BaseAssumption DEF Zeroes, Bytes, Byte, MaxByte
  <2> HIDE DEF size
  <2> QED
    BY <1>2, <2>1, StoreFits
<1>7. PaddedPlan(fields, c) = Plan(size, <<Store(0, Zeroes(size))>> \o rest)
  BY Zenon DEF PaddedPlan
<1> HIDE DEF size, rest, set, store, n
<1>8. <<Store(0, Zeroes(size))>> \in Within(size)
  BY <1>6, Single
<1>9. <<Store(0, Zeroes(size))>> \o rest \in Within(size)
  BY <1>5, <1>8, Concat
<1>10. <<Store(0, Zeroes(size))>> \o rest # <<>>
  <2>1. Len(<<Store(0, Zeroes(size))>> \o rest) = 1 + Len(rest) /\ Len(rest) \in Nat
    BY <1>5, <1>8 DEF Within
  <2> QED
    BY <2>1
<1> DEFINE stores == <<Store(0, Zeroes(size))>> \o rest
<1> HIDE DEF stores
<1>11. /\ PaddedPlan(fields, c) \in Plans(size) /\ PaddedPlan(fields, c).need = size
       /\ PaddedPlan(fields, c).used = size /\ PaddedPlan(fields, c).early = "none"
       /\ PaddedPlan(fields, c).stores # <<>>
  <2>1. size \in Nat /\ stores \in Within(size) /\ PaddedPlan(fields, c) = Plan(size, stores)
        /\ stores # <<>>
    BY <1>2, <1>7, <1>9, <1>10 DEF stores
  <2> QED
    BY <2>1, PlanFits
<1> QED
  BY <1>2, <1>11 DEF InRoom, n
-----------------------------------------------------------------------------
(* Arms with regions: their segments.                                      *)

VSegs ==
    [k: {"run"}, fields: Seq(Nat)]
      \cup [k: {"dyn"}, item: Nat, len: Nat, e: Exprs, run: Nat]
      \cup [k: {"varint"}, item: Nat, hook: Nat]
VStates == [ok: BOOLEAN, segs: Seq(VSegs), run: Seq(Nat), hook: Nat]

Ascending(run) == \A p, q \in 1 .. Len(run) : p < q => run[p] < run[q]

\* A run of fixed fields among the first n.
FixedRun(fields, n, run) ==
    run \in Seq(1 .. n) /\ Ascending(run) /\ \A p \in 1 .. Len(run) : FixedField(fields[run[p]])

\* The runs of segments are among the first n items, and in front of a run.
Ahead(segs, n, run) ==
    \A j \in 1 .. Len(segs) : segs[j].k = "run" =>
        \A p \in 1 .. Len(segs[j].fields) :
            segs[j].fields[p] <= n /\ \A q \in 1 .. Len(run) : segs[j].fields[p] < run[q]

\* Runs follow each other in the order of their fields.  The length field of a
\* region is a number of the run in front of it.
SegWell(fields, segs, k) ==
    /\ segs[k].k = "run" =>
          /\ FixedRun(fields, Len(fields), segs[k].fields)
          /\ \A j \in 1 .. k - 1 : segs[j].k = "run" =>
                \A p \in 1 .. Len(segs[j].fields), q \in 1 .. Len(segs[k].fields) :
                    segs[j].fields[p] < segs[k].fields[q]
    /\ segs[k].k \in {"dyn", "varint"} =>
          segs[k].item \in 1 .. Len(fields) /\ fields[segs[k].item].kind \in {"arr", "greedy"}
    /\ segs[k].k = "dyn" /\ segs[k].len # 0 =>
          /\ segs[k].run \in 1 .. Len(segs) /\ segs[segs[k].run].k = "run"
          /\ segs[k].run + 1 = k /\ segs[k].len = segs[k].e.of
          /\ segs[k].e \in Exprs
          /\ \E p \in 1 .. Len(segs[segs[k].run].fields) :
                segs[segs[k].run].fields[p] = segs[k].e.of
                /\ IsNumber(fields[segs[segs[k].run].fields[p]])

SegsWell(fields, segs) == \A k \in 1 .. Len(segs) : SegWell(fields, segs, k)

VGood(fields, n, s) ==
    s.ok => FixedRun(fields, n, s.run) /\ SegsWell(fields, s.segs) /\ Ahead(s.segs, n, s.run)

LEMMA MoreSegs ==
    ASSUME NEW fields, NEW segs \in Seq(VSegs), NEW extra \in Seq(VSegs), SegsWell(fields, segs),
           \A k \in 1 .. Len(extra) : SegWell(fields, segs \o extra, Len(segs) + k)
    PROVE  SegsWell(fields, segs \o extra)
<1> DEFINE all == segs \o extra
<1>1. /\ Len(segs) \in Nat /\ Len(extra) \in Nat /\ Len(all) = Len(segs) + Len(extra)
      /\ \A k \in 1 .. Len(segs) : all[k] = segs[k]
  OBVIOUS
<1>2. ASSUME NEW k \in 1 .. Len(all) PROVE SegWell(fields, all, k)
  <2>1. CASE k <= Len(segs)
    <3>1. k \in 1 .. Len(segs) /\ all[k] = segs[k]
      BY <1>1, <2>1
    <3>2. SegWell(fields, segs, k)
      BY <3>1 DEF SegsWell
    <3>3. \A j \in 1 .. Len(segs) : j \in 1 .. Len(all) /\ all[j] = segs[j]
      BY <1>1
    <3>4. \A j \in 1 .. k - 1 : j \in 1 .. Len(segs)
      BY <1>1, <3>1
    <3> HIDE DEF all
    <3>5. all[k].k = "run" =>
              /\ FixedRun(fields, Len(fields), all[k].fields)
              /\ \A j \in 1 .. k - 1 : all[j].k = "run" =>
                    \A p \in 1 .. Len(all[j].fields), q \in 1 .. Len(all[k].fields) :
                        all[j].fields[p] < all[k].fields[q]
      BY <3>1, <3>2, <3>3, <3>4 DEF SegWell
    <3>6. all[k].k = "dyn" /\ all[k].len # 0 => all[all[k].run] = segs[segs[k].run]
      BY <3>1, <3>2, <3>3 DEF SegWell
    <3> QED
      BY <3>1, <3>2, <3>3, <3>5, <3>6 DEF SegWell
  <2>2. CASE k > Len(segs)
    <3>1. k - Len(segs) \in 1 .. Len(extra) /\ Len(segs) + (k - Len(segs)) = k
      BY <1>1, <2>2
    <3> QED
      BY <3>1
  <2> QED
    BY <1>1, <2>1, <2>2
<1> QED
  BY <1>2 DEF SegsWell

LEMMA RunSegWell ==
    ASSUME NEW fields, NEW segs, NEW k, NEW n \in Nat, NEW m \in Nat, n <= m, m = Len(fields), NEW run,
           FixedRun(fields, n, run), segs[k] = Run(run),
           \A j \in 1 .. k - 1 : segs[j].k = "run" =>
               \A p \in 1 .. Len(segs[j].fields), q \in 1 .. Len(run) : segs[j].fields[p] < run[q]
    PROVE  SegWell(fields, segs, k)
<1>1. segs[k].k = "run" /\ segs[k].fields = run
  BY DEF Run
<1>2. run \in Seq(1 .. n) /\ 1 .. n \subseteq 1 .. m
  BY DEF FixedRun
<1>3. \A S, T : S \subseteq T => Seq(S) \subseteq Seq(T)
  OBVIOUS
<1>4. run \in Seq(1 .. m)
  BY <1>2, <1>3
<1> QED
  BY <1>1, <1>4 DEF SegWell, FixedRun

LEMMA VariantStepType ==
    ASSUME NEW fields \in Seq(Items), NEW i \in 1 .. Len(fields), NEW s \in VStates
    PROVE  VariantStep(fields, s, fields[i], i) \in VStates
<1> DEFINE it == fields[i]
           inRun == {s.run[n] : n \in 1 .. Len(s.run)}
           len == LenField(fields, inRun, it.len)
<1>0. it \in Items /\ i \in Nat /\ Len(fields) \in Nat
  BY FilledSized
<1>1. it.kind \in ItemKinds /\ it.len \in Exprs /\ it.len.of \in Nat
  BY <1>0, ItemType
<1>2. s.ok \in BOOLEAN /\ s.segs \in Seq(VSegs) /\ s.run \in Seq(Nat) /\ s.hook \in Nat
  BY DEF VStates
<1>3. len \in Nat
  BY <1>1 DEF LenField
<1>4. ASSUME NEW r \in Seq(Nat) PROVE Run(r) \in VSegs /\ RunIfAny(r) \in Seq(VSegs)
  <2>1. Run(r) \in VSegs
    BY DEF Run, VSegs
  <2> QED
    BY <2>1 DEF RunIfAny
<1>5. Len(s.segs) + 1 \in Nat
  BY <1>2
<1>6. \A l \in Nat, r \in Nat : Region(i, l, it.len, r) \in VSegs
  BY <1>0, <1>1 DEF Region, VSegs
<1>7. VarintRegion(i, s.hook) \in VSegs
  BY <1>0, <1>2 DEF VarintRegion, VSegs
<1>8. s.segs \o RunIfAny(s.run) \o <<VarintRegion(i, s.hook)>> \in Seq(VSegs)
  BY <1>2, <1>4, <1>7
<1>9. s.segs \o <<Run(s.run), Region(i, len, it.len, Len(s.segs) + 1)>> \in Seq(VSegs)
  BY <1>2, <1>3, <1>4, <1>5, <1>6
<1>10. s.segs \o RunIfAny(s.run) \o <<Region(i, 0, it.len, 0)>> \in Seq(VSegs)
  BY <1>2, <1>4, <1>6
<1>11. Append(s.run, i) \in Seq(Nat) /\ <<>> \in Seq(Nat)
  BY <1>0, <1>2
<1> HIDE DEF it, len, inRun
<1>21. CASE ~s.ok
  BY <1>21 DEF VariantStep
<1>22. CASE s.ok /\ it.kind = "arr"
  <2>1. CASE ~Plain(it)
    <3>1. VariantStep(fields, s, it, i) = [s EXCEPT !.ok = FALSE]
      BY <1>22, <2>1 DEF VariantStep
    <3> QED
      BY <3>1 DEF it, VStates
  <2>2. CASE Plain(it) /\ s.hook # 0
    <3> DEFINE ok == it.len.of = s.hook /\ Affine(it.len) /\ it.len.plus = 0 /\ it.len.minus = 0
               segs == s.segs \o RunIfAny(s.run) \o <<VarintRegion(i, s.hook)>>
    <3>1. VariantStep(fields, s, it, i)
            = [s EXCEPT !.ok = ok, !.segs = segs, !.run = <<>>, !.hook = 0]
      BY <1>22, <2>2 DEF VariantStep
    <3>2. ok \in BOOLEAN /\ segs \in Seq(VSegs)
      BY <1>8
    <3> HIDE DEF ok, segs
    <3> DEFINE t == [s EXCEPT !.ok = ok, !.segs = segs, !.run = <<>>]
    <3>3. t \in VStates
      BY <1>11, <3>2 DEF VStates
    <3>4. VariantStep(fields, s, it, i) = [t EXCEPT !.hook = 0]
      BY <3>1
    <3> HIDE DEF t
    <3>5. [t EXCEPT !.hook = 0] \in VStates
      BY <3>3 DEF VStates
    <3> QED
      BY <3>4, <3>5 DEF it
  <2>3. CASE Plain(it) /\ s.hook = 0
    <3> DEFINE ok == len # 0
               segs == s.segs \o <<Run(s.run), Region(i, len, it.len, Len(s.segs) + 1)>>
    <3>1. VariantStep(fields, s, it, i) = [s EXCEPT !.ok = ok, !.segs = segs, !.run = <<>>]
      BY <1>22, <2>3 DEF VariantStep, len, inRun
    <3>2. ok \in BOOLEAN /\ segs \in Seq(VSegs)
      BY <1>9
    <3> HIDE DEF ok, segs
    <3> QED
      BY <1>11, <3>1, <3>2 DEF it, VStates
  <2> QED
    BY <1>2, <2>1, <2>2, <2>3
<1>23. CASE s.ok /\ it.kind = "hook"
  <2> DEFINE ok == it.write = "encode, width" /\ s.hook = 0
  <2>1. VariantStep(fields, s, it, i) = [s EXCEPT !.ok = ok, !.hook = i]
    BY <1>23 DEF VariantStep
  <2>2. ok \in BOOLEAN
    OBVIOUS
  <2> HIDE DEF ok
  <2> QED
    BY <1>0, <2>1, <2>2 DEF it, VStates
<1>24. CASE s.ok /\ it.kind = "greedy" /\ i = Len(fields)
  <2> DEFINE segs == s.segs \o RunIfAny(s.run) \o <<Region(i, 0, it.len, 0)>>
  <2>1. VariantStep(fields, s, it, i) = [s EXCEPT !.segs = segs, !.run = <<>>]
    BY <1>24 DEF VariantStep
  <2>2. segs \in Seq(VSegs)
    BY <1>10
  <2> HIDE DEF segs
  <2> QED
    BY <1>11, <2>1, <2>2 DEF it, VStates
<1>25. CASE s.ok /\ it.kind \notin {"arr", "hook"} /\ ~(it.kind = "greedy" /\ i = Len(fields))
  <2>1. VariantStep(fields, s, it, i) = [s EXCEPT !.ok = FixedField(it), !.run = Append(s.run, i)]
    BY <1>25 DEF VariantStep
  <2>2. FixedField(it) \in BOOLEAN
    BY DEF FixedField
  <2> QED
    BY <1>11, <2>1, <2>2 DEF it, VStates
<1> QED
  BY <1>2, <1>21, <1>22, <1>23, <1>24, <1>25
LEMMA LongerRun ==
    ASSUME NEW fields, NEW i \in Nat, i > 0, NEW run, FixedRun(fields, i - 1, run)
    PROVE  FixedRun(fields, i, run)
           /\ (FixedField(fields[i]) => FixedRun(fields, i, Append(run, i)))
<1>1. run \in Seq(1 .. i - 1) /\ 1 .. i - 1 \subseteq 1 .. i /\ i \in 1 .. i
  BY DEF FixedRun
<1>2. \A S, T : S \subseteq T => Seq(S) \subseteq Seq(T)
  OBVIOUS
<1>3. run \in Seq(1 .. i) /\ Append(run, i) \in Seq(1 .. i)
  BY <1>1, <1>2
<1>4. /\ Len(run) \in Nat /\ Len(Append(run, i)) = Len(run) + 1
      /\ \A p \in 1 .. Len(run) : Append(run, i)[p] = run[p]
      /\ Append(run, i)[Len(run) + 1] = i
  BY <1>1
<1>5. ASSUME FixedField(fields[i]), NEW p \in 1 .. Len(Append(run, i))
      PROVE  FixedField(fields[Append(run, i)[p]])
  <2>1. CASE p = Len(run) + 1
    BY <1>4, <1>5, <2>1
  <2>2. CASE p # Len(run) + 1
    <3>1. p \in 1 .. Len(run)
      BY <1>4, <2>2
    <3> QED
      BY <1>4, <3>1 DEF FixedRun
  <2> QED
    BY <2>1, <2>2
<1>6. Ascending(run) /\ Ascending(Append(run, i))
  <2>1. Ascending(run)
    BY DEF FixedRun
  <2>2. ASSUME NEW p \in 1 .. Len(Append(run, i)), NEW q \in 1 .. Len(Append(run, i)), p < q
        PROVE  Append(run, i)[p] < Append(run, i)[q]
    <3>1. p \in 1 .. Len(run) /\ Append(run, i)[p] = run[p] /\ run[p] < i
      BY <1>1, <1>4, <2>2
    <3>2. CASE q = Len(run) + 1
      BY <1>4, <3>1, <3>2
    <3>3. CASE q # Len(run) + 1
      <4>1. q \in 1 .. Len(run)
        BY <1>4, <3>3
      <4> QED
        BY <1>4, <2>1, <2>2, <3>1, <4>1 DEF Ascending
    <3> QED
      BY <3>2, <3>3
  <2> QED
    BY <2>1, <2>2 DEF Ascending
<1> QED
  BY <1>3, <1>5, <1>6 DEF FixedRun

LEMMA AheadLonger ==
    ASSUME NEW segs \in Seq(VSegs), NEW i \in Nat, i > 0, NEW run \in Seq(Nat), Ahead(segs, i - 1, run)
    PROVE  Ahead(segs, i, run) /\ Ahead(segs, i, Append(run, i))
<1>1. ASSUME NEW j \in 1 .. Len(segs), segs[j].k = "run", NEW p \in 1 .. Len(segs[j].fields)
      PROVE  /\ segs[j].fields[p] <= i /\ \A q \in 1 .. Len(run) : segs[j].fields[p] < run[q]
             /\ \A q \in 1 .. Len(Append(run, i)) : segs[j].fields[p] < Append(run, i)[q]
  <2>1. segs[j].fields[p] <= i - 1 /\ \A q \in 1 .. Len(run) : segs[j].fields[p] < run[q]
    BY <1>1 DEF Ahead
  <2>2. segs[j].fields[p] \in Nat
    <3>1. segs[j] \in VSegs
      OBVIOUS
    <3>2. segs[j].fields \in Seq(Nat)
      BY <1>1, <3>1 DEF VSegs
    <3> QED
      BY <3>2
  <2>3. PICK x : x = segs[j].fields[p] /\ x \in Nat
    BY <2>2
  <2>4. x <= i - 1 /\ x <= i /\ x < i
    BY <2>1, <2>3
  <2>5. ASSUME NEW q \in 1 .. Len(Append(run, i)) PROVE x < Append(run, i)[q]
    <3>1. q \in 1 .. Len(run) \/ q = Len(run) + 1
      OBVIOUS
    <3>2. CASE q \in 1 .. Len(run)
      <4>1. Append(run, i)[q] = run[q]
        BY <3>2
      <4> QED
        BY <2>1, <2>3, <3>2, <4>1
    <3>3. CASE q = Len(run) + 1
      <4>1. Append(run, i)[q] = i
        BY <3>3
      <4> QED
        BY <2>4, <4>1
    <3> QED
      BY <3>1, <3>2, <3>3
  <2> QED
    BY <2>1, <2>3, <2>4, <2>5
<1> QED
  BY <1>1 DEF Ahead

LEMMA AheadMore ==
    ASSUME NEW segs \in Seq(VSegs), NEW extra \in Seq(VSegs), NEW i \in Nat, i > 0, NEW run,
           run \in Seq(1 .. i - 1), Ahead(segs, i - 1, run),
           \A k \in 1 .. Len(extra) : extra[k].k = "run" => extra[k].fields = run
    PROVE  Ahead(segs \o extra, i, <<>>)
<1>1. ASSUME NEW seg \in VSegs, seg.k = "run", NEW p \in 1 .. Len(seg.fields),
             seg.fields[p] <= i - 1
      PROVE  seg.fields[p] <= i
  <2>1. seg.fields \in Seq(Nat)
    BY <1>1 DEF VSegs
  <2>2. PICK x \in Nat : x = seg.fields[p]
    BY <2>1
  <2> QED
    BY <1>1, <2>2
<1>2. \A p \in 1 .. Len(run) : run[p] <= i - 1
  OBVIOUS
<1>3. ASSUME NEW j \in 1 .. Len(segs \o extra)
      PROVE  \/ j \in 1 .. Len(segs) /\ (segs \o extra)[j] = segs[j] /\ segs[j] \in VSegs
             \/ \E k \in 1 .. Len(extra) : (segs \o extra)[j] = extra[k] /\ extra[k] \in VSegs
  <2>1. j \in 1 .. Len(segs) \/ (j - Len(segs) \in 1 .. Len(extra) /\ ~(j <= Len(segs)))
    OBVIOUS
  <2>2. (segs \o extra)[j] = IF j <= Len(segs) THEN segs[j] ELSE extra[j - Len(segs)]
    OBVIOUS
  <2> QED
    BY <2>1, <2>2
<1> DEFINE all == segs \o extra
<1> HIDE DEF all
<1>4. ASSUME NEW j \in 1 .. Len(all), all[j].k = "run", NEW p \in 1 .. Len(all[j].fields)
      PROVE  all[j].fields[p] <= i
  <2>1. CASE j \in 1 .. Len(segs) /\ all[j] = segs[j] /\ segs[j] \in VSegs
    <3>1. segs[j].fields[p] <= i - 1
      BY <1>4, <2>1 DEF Ahead
    <3> QED
      BY <1>1, <1>4, <2>1, <3>1
  <2>2. CASE \E k \in 1 .. Len(extra) : all[j] = extra[k] /\ extra[k] \in VSegs
    BY <1>1, <1>2, <1>4, <2>2
  <2> QED
    BY <1>3, <2>1, <2>2 DEF all
<1>5. \A q \in 1 .. Len(<<>>) : FALSE
  OBVIOUS
<1>6. Ahead(all, i, <<>>)
  BY <1>4, <1>5 DEF Ahead
<1> QED
  BY <1>6 DEF all

\* A region behind a run, in which its length is if it has one.
LEMMA RegionSegWell ==
    ASSUME NEW fields \in Seq(Items), NEW segs \in Seq(VSegs), SegsWell(fields, segs),
           NEW i \in 1 .. Len(fields), fields[i].kind \in {"arr", "greedy"}, NEW run, FixedRun(fields, i - 1, run),
           Ahead(segs, i - 1, run),
           NEW len \in Nat, NEW e \in Exprs,
           len # 0 => len = e.of /\ \E p \in 1 .. Len(run) : run[p] = e.of /\ IsNumber(fields[run[p]])
    PROVE  /\ SegsWell(fields, segs \o <<Run(run), Region(i, len, e, Len(segs) + 1)>>)
           /\ Ahead(segs \o <<Run(run), Region(i, len, e, Len(segs) + 1)>>, i, <<>>)
<1> DEFINE extra == <<Run(run), Region(i, len, e, Len(segs) + 1)>>
           all == segs \o extra
<1>1. Len(fields) \in Nat /\ i \in Nat /\ i > 0 /\ i - 1 \in Nat /\ i - 1 <= Len(fields) /\ Len(segs) \in Nat
  BY FilledSized
<1>2. run \in Seq(Nat)
  BY <1>1 DEF FixedRun
<1>3. Run(run) \in VSegs /\ Region(i, len, e, Len(segs) + 1) \in VSegs
  BY <1>1, <1>2 DEF Run, Region, VSegs
<1>4. extra \in Seq(VSegs) /\ Len(extra) = 2
  BY <1>3
<1>9. Ahead(all, i, <<>>)
  <2>1. ASSUME NEW k \in 1 .. Len(extra), extra[k].k = "run" PROVE extra[k].fields = run
    <3>1. extra[1] = Run(run) /\ extra[2] = Region(i, len, e, Len(segs) + 1)
      OBVIOUS
    <3>2. k = 1 \/ k = 2
      BY <1>4
    <3> HIDE DEF extra
    <3> QED
      BY <2>1, <3>1, <3>2 DEF Run, Region
  <2>2. run \in Seq(1 .. i - 1)
    BY DEF FixedRun
  <2> HIDE DEF extra
  <2> QED
    BY <1>1, <1>2, <1>4, <2>1, <2>2, AheadMore
<1>10. \A j \in 1 .. Len(segs) : all[j] = segs[j]
  <2> DEFINE two == extra
  <2>1. two \in Seq(VSegs)
    BY <1>4
  <2> HIDE DEF two
  <2>2. \A j \in 1 .. Len(segs) : (segs \o two)[j] = segs[j]
    BY <2>1
  <2> QED
    BY <2>2 DEF two
<1>5. all[Len(segs) + 1] = Run(run) /\ all[Len(segs) + 2] = Region(i, len, e, Len(segs) + 1)
      /\ Len(all) = Len(segs) + 2
  <2>1. extra[1] = Run(run) /\ extra[2] = Region(i, len, e, Len(segs) + 1)
    OBVIOUS
  <2>2. Len(segs \o extra) = Len(segs) + 2
    <3> DEFINE two == extra
    <3>1. two \in Seq(VSegs) /\ Len(two) = 2
      BY <1>4
    <3> HIDE DEF two
    <3>2. Len(segs \o two) = Len(segs) + Len(two)
      BY <3>1, ConcatProperties
    <3> QED
      BY <3>1, <3>2 DEF two
  <2>3. \A k \in 1 .. 2 : (segs \o extra)[Len(segs) + k] = extra[k]
    <3> DEFINE two == extra
    <3>1. two \in Seq(VSegs) /\ Len(two) = 2
      BY <1>4
    <3> HIDE DEF two
    <3>2. \A j \in 1 .. Len(segs) + Len(two) :
            (segs \o two)[j] = IF j <= Len(segs) THEN segs[j] ELSE two[j - Len(segs)]
      BY <3>1, ConcatProperties
    <3>3. \A k \in 1 .. 2 : (segs \o two)[Len(segs) + k] = two[k]
      <4>1. \A k \in 1 .. 2 : Len(segs) + k \in 1 .. Len(segs) + Len(two) /\ ~(Len(segs) + k <= Len(segs))
                               /\ (Len(segs) + k) - Len(segs) = k
        BY <1>1, <3>1
      <4> QED
        BY <3>2, <4>1
    <3> QED
      BY <3>3 DEF two
  <2> HIDE DEF extra
  <2> QED
    BY <1>1, <2>1, <2>2, <2>3
<1> HIDE DEF extra, all
<1>6. SegWell(fields, all, Len(segs) + 1)
  <2>1. \A j \in 1 .. (Len(segs) + 1) - 1 : j \in 1 .. Len(segs) /\ all[j] = segs[j]
    BY <1>1, <1>10
  <2>2. \A j \in 1 .. (Len(segs) + 1) - 1 : all[j].k = "run" =>
            \A p \in 1 .. Len(all[j].fields), q \in 1 .. Len(run) : all[j].fields[p] < run[q]
    BY <2>1 DEF Ahead
  <2> QED
    BY <1>1, <1>5, <2>2, RunSegWell
<1>7. SegWell(fields, all, Len(segs) + 2)
  <2> DEFINE k == Len(segs) + 2
  <2>1. /\ all[k].k = "dyn" /\ all[k].item = i /\ all[k].len = len /\ all[k].e = e
        /\ all[k].run = Len(segs) + 1
    BY <1>5 DEF Region
  <2>2. all[Len(segs) + 1].k = "run" /\ all[Len(segs) + 1].fields = run
    BY <1>5 DEF Run
  <2>3. Len(segs) + 1 \in 1 .. Len(all) /\ (Len(segs) + 1) + 1 = Len(segs) + 2
    BY <1>1, <1>5
  <2> HIDE DEF k
  <2> QED
    BY <1>1, <2>1, <2>2, <2>3 DEF SegWell, k
<1>8. \A k \in 1 .. Len(extra) : SegWell(fields, all, Len(segs) + k)
  BY <1>1, <1>4, <1>6, <1>7
<1>11. SegsWell(fields, all)
  BY <1>4, <1>8, MoreSegs DEF all
<1> QED
  BY <1>9, <1>11 DEF all, extra

\* A run, if any, and a region of its own.
LEMMA LastSegWell ==
    ASSUME NEW fields \in Seq(Items), NEW segs \in Seq(VSegs), SegsWell(fields, segs),
           NEW i \in 1 .. Len(fields), fields[i].kind \in {"arr", "greedy"}, NEW run, FixedRun(fields, i - 1, run),
           Ahead(segs, i - 1, run),
           NEW last \in VSegs, last.k \in {"dyn", "varint"}, last.item = i,
           last.k = "dyn" => last.len = 0
    PROVE  /\ SegsWell(fields, segs \o RunIfAny(run) \o <<last>>)
           /\ Ahead(segs \o RunIfAny(run) \o <<last>>, i, <<>>)
<1>1. Len(fields) \in Nat /\ i \in Nat /\ i > 0 /\ i - 1 \in Nat /\ i - 1 <= Len(fields) /\ Len(segs) \in Nat
  BY FilledSized
<1>2. run \in Seq(Nat)
  BY <1>1 DEF FixedRun
<1>3. Run(run) \in VSegs
  BY <1>2 DEF Run, VSegs
<1> DEFINE front == segs \o RunIfAny(run)
<1>4. front \in Seq(VSegs) /\ RunIfAny(run) \in Seq(VSegs)
  BY <1>3 DEF RunIfAny
<1>5. SegsWell(fields, front)
  <2>1. CASE run = <<>>
    <3>1. front = segs
      BY <2>1 DEF RunIfAny
    <3> QED
      BY <3>1
  <2>2. CASE run # <<>>
    <3>1. RunIfAny(run) = <<Run(run)>> /\ Len(<<Run(run)>>) = 1
      BY <2>2 DEF RunIfAny
    <3>2. front[Len(segs) + 1] = Run(run)
      BY <1>1, <1>3, <3>1
    <3>5. \A j \in 1 .. (Len(segs) + 1) - 1 : j \in 1 .. Len(segs) /\ front[j] = segs[j]
      BY <1>1, <1>3, <3>1
    <3> HIDE DEF front
    <3>6. \A j \in 1 .. (Len(segs) + 1) - 1 : front[j].k = "run" =>
              \A p \in 1 .. Len(front[j].fields), q \in 1 .. Len(run) : front[j].fields[p] < run[q]
      BY <3>5 DEF Ahead
    <3>3. SegWell(fields, front, Len(segs) + 1)
      BY <1>1, <3>2, <3>6, RunSegWell
    <3>4. \A k \in 1 .. Len(RunIfAny(run)) : SegWell(fields, segs \o RunIfAny(run), Len(segs) + k)
      BY <3>1, <3>3 DEF front
    <3> QED
      BY <1>4, <3>4, MoreSegs DEF front
  <2> QED
    BY <2>1, <2>2
<1> HIDE DEF front
<1> DEFINE all == front \o <<last>>
<1>6. Len(front) \in Nat /\ all[Len(front) + 1] = last /\ Len(<<last>>) = 1 /\ <<last>> \in Seq(VSegs)
  BY <1>4
<1> HIDE DEF all
<1>7. SegWell(fields, all, Len(front) + 1)
  BY <1>6 DEF SegWell
<1>8. \A k \in 1 .. Len(<<last>>) : SegWell(fields, front \o <<last>>, Len(front) + k)
  BY <1>6, <1>7 DEF all
<1>9. SegsWell(fields, front \o <<last>>)
  BY <1>4, <1>5, <1>6, <1>8, MoreSegs
<1> DEFINE extra == RunIfAny(run) \o <<last>>
<1>10. extra \in Seq(VSegs)
  BY <1>4, <1>6
<1>11. ASSUME NEW k \in 1 .. Len(extra), extra[k].k = "run" PROVE extra[k].fields = run
  <2>1. CASE run = <<>>
    <3>1. Len(extra) = 1 /\ extra[1] = last
      BY <2>1 DEF RunIfAny
    <3>2. k = 1
      BY <3>1
    <3> QED
      BY <1>11, <3>1, <3>2
  <2>2. CASE run # <<>>
    <3>1. Len(extra) = 2 /\ extra[1] = Run(run) /\ extra[2] = last
      BY <2>2 DEF RunIfAny
    <3>2. k = 1 \/ k = 2
      BY <3>1
    <3> HIDE DEF extra
    <3> QED
      BY <1>11, <3>1, <3>2 DEF Run
  <2> QED
    BY <2>1, <2>2
<1> HIDE DEF extra
<1>12. run \in Seq(1 .. i - 1)
  BY DEF FixedRun
<1>13. Ahead(segs \o extra, i, <<>>)
  BY <1>1, <1>2, <1>10, <1>11, <1>12, AheadMore
<1>14. segs \o extra = front \o <<last>>
  <2>1. RunIfAny(run) \in Seq(VSegs) /\ <<last>> \in Seq(VSegs)
    BY <1>4, <1>6
  <2> QED
    BY <2>1, SMT DEF extra, front
<1> QED
  BY <1>9, <1>13, <1>14 DEF front

\* The segments closed by a region that has no length of its own.
ClosedBy(segs, run, last) == segs \o RunIfAny(run) \o <<last>>
EndsAt(last, i) == last.k \in {"dyn", "varint"} /\ last.item = i /\ (last.k = "dyn" => last.len = 0)

LEMMA ClosedWell ==
    ASSUME NEW fields \in Seq(Items), NEW segs \in Seq(VSegs), SegsWell(fields, segs),
           NEW i \in 1 .. Len(fields), fields[i].kind \in {"arr", "greedy"}, NEW run,
           FixedRun(fields, i - 1, run), Ahead(segs, i - 1, run),
           NEW last \in VSegs, EndsAt(last, i)
    PROVE  SegsWell(fields, ClosedBy(segs, run, last)) /\ Ahead(ClosedBy(segs, run, last), i, <<>>)
  BY LastSegWell DEF ClosedBy, EndsAt

LEMMA VariantStepGood ==
    ASSUME NEW fields \in Seq(Items), NEW i \in 1 .. Len(fields), NEW s \in VStates,
           VGood(fields, i - 1, s)
    PROVE  VGood(fields, i, VariantStep(fields, s, fields[i], i))
<1> DEFINE it == fields[i]
           inRun == {s.run[n] : n \in 1 .. Len(s.run)}
           len == LenField(fields, inRun, it.len)
           t == VariantStep(fields, s, it, i)
<1>0. it \in Items /\ i \in Nat /\ i > 0 /\ Len(fields) \in Nat
  BY FilledSized
<1>1. it.kind \in ItemKinds /\ it.len \in Exprs /\ it.len.of \in Nat
  BY <1>0, ItemType
<1>2. s = [ok |-> s.ok, segs |-> s.segs, run |-> s.run, hook |-> s.hook] /\ s.segs \in Seq(VSegs)
      /\ s.ok \in BOOLEAN
  BY DEF VStates
<1>3. \A n \in 1 .. i : FixedRun(fields, i, <<>>)
  BY DEF FixedRun, Ascending
<1>4. FixedRun(fields, i, <<>>)
  BY <1>0, <1>3
<1> SUFFICES ASSUME t.ok
             PROVE  FixedRun(fields, i, t.run) /\ SegsWell(fields, t.segs) /\ Ahead(t.segs, i, t.run)
  BY DEF VGood
<1>5. CASE ~s.ok
  BY <1>5 DEF VariantStep
<1>6. ASSUME s.ok
      PROVE  /\ FixedRun(fields, i - 1, s.run) /\ SegsWell(fields, s.segs)
             /\ FixedRun(fields, i, s.run) /\ Ahead(s.segs, i - 1, s.run)
             /\ Ahead(s.segs, i, s.run) /\ Ahead(s.segs, i, Append(s.run, i))
  <2>1. FixedRun(fields, i - 1, s.run) /\ SegsWell(fields, s.segs) /\ Ahead(s.segs, i - 1, s.run)
    BY <1>6 DEF VGood
  <2>2. s.run \in Seq(Nat)
    BY DEF VStates
  <2> QED
    BY <1>0, <1>2, <2>1, <2>2, LongerRun, AheadLonger
<1>7. CASE s.ok /\ it.kind = "arr"
  <2>1. CASE ~Plain(it)
    <3>1. t = [s EXCEPT !.ok = FALSE]
      BY <1>7, <2>1 DEF VariantStep
    <3> QED
      BY <1>2, <3>1
  <2>2. CASE Plain(it) /\ s.hook # 0
    <3> DEFINE ok == it.len.of = s.hook /\ Affine(it.len) /\ it.len.plus = 0 /\ it.len.minus = 0
               last == VarintRegion(i, s.hook)
               segs == ClosedBy(s.segs, s.run, last)
    <3>1. t = [s EXCEPT !.ok = ok, !.segs = segs, !.run = <<>>, !.hook = 0]
      BY <1>7, <2>2 DEF VariantStep, ClosedBy
    <3>2. last \in VSegs /\ EndsAt(last, i)
      BY <1>0 DEF VarintRegion, VSegs, VStates, EndsAt
    <3>5. fields[i].kind \in {"arr", "greedy"}
      BY <1>7
    <3> HIDE DEF last
    <3>3. SegsWell(fields, segs) /\ Ahead(segs, i, <<>>)
      <4>1. /\ s.segs \in Seq(VSegs) /\ SegsWell(fields, s.segs)
            /\ FixedRun(fields, i - 1, s.run) /\ Ahead(s.segs, i - 1, s.run)
        BY <1>2, <1>6, <1>7
      <4> QED
        BY <4>1, <3>2, <3>5, ClosedWell
    <3> HIDE DEF ok, segs
    <3>4. t.run = <<>> /\ t.segs = segs
      BY <1>2, <3>1
    <3> QED
      BY <1>4, <3>3, <3>4
  <2>3. CASE Plain(it) /\ s.hook = 0
    <3> DEFINE ok == len # 0
               segs == s.segs \o <<Run(s.run), Region(i, len, it.len, Len(s.segs) + 1)>>
    <3>1. t = [s EXCEPT !.ok = ok, !.segs = segs, !.run = <<>>]
      BY <1>7, <2>3 DEF VariantStep
    <3>2. len \in Nat /\ (len # 0 => len = it.len.of /\ it.len.of \in inRun /\ fields[it.len.of].kind = "num")
      BY <1>1 DEF LenField
    <3>3. len # 0 => /\ len = it.len.of
                     /\ \E p \in 1 .. Len(s.run) : s.run[p] = it.len.of /\ IsNumber(fields[s.run[p]])
      BY <3>2 DEF IsNumber
    <3> HIDE DEF len
    <3>4. SegsWell(fields, segs) /\ Ahead(segs, i, <<>>)
      BY <1>1, <1>2, <1>6, <1>7, <3>2, <3>3, RegionSegWell
    <3> HIDE DEF ok, segs
    <3>5. t.run = <<>> /\ t.segs = segs
      BY <1>2, <3>1
    <3> QED
      BY <1>4, <3>4, <3>5
  <2> QED
    BY <2>1, <2>2, <2>3
<1>8. CASE s.ok /\ it.kind = "hook"
  <2> DEFINE ok == it.write = "encode, width" /\ s.hook = 0
  <2>1. t = [s EXCEPT !.ok = ok, !.hook = i]
    BY <1>8 DEF VariantStep
  <2> HIDE DEF ok
  <2>2. t.run = s.run /\ t.segs = s.segs
    BY <1>2, <2>1
  <2> QED
    BY <1>6, <1>8, <2>2
<1>9. CASE s.ok /\ it.kind = "greedy" /\ i = Len(fields)
  <2> DEFINE last == Region(i, 0, it.len, 0)
             segs == ClosedBy(s.segs, s.run, last)
  <2>1. t = [s EXCEPT !.segs = segs, !.run = <<>>]
    BY <1>9 DEF VariantStep, ClosedBy
  <2>2. last \in VSegs /\ EndsAt(last, i)
    BY <1>0, <1>1 DEF Region, VSegs, EndsAt
  <2>5. fields[i].kind \in {"arr", "greedy"}
    BY <1>9
  <2> HIDE DEF last
  <2>3. SegsWell(fields, segs) /\ Ahead(segs, i, <<>>)
    <3>1. /\ s.segs \in Seq(VSegs) /\ SegsWell(fields, s.segs)
          /\ FixedRun(fields, i - 1, s.run) /\ Ahead(s.segs, i - 1, s.run)
      BY <1>2, <1>6, <1>9
    <3> QED
      BY <3>1, <2>2, <2>5, ClosedWell
  <2> HIDE DEF segs
  <2>4. t.run = <<>> /\ t.segs = segs
    BY <1>2, <2>1
  <2> QED
    BY <1>4, <2>3, <2>4
<1>10. CASE s.ok /\ it.kind \notin {"arr", "hook"} /\ ~(it.kind = "greedy" /\ i = Len(fields))
  <2> DEFINE ok == FixedField(it)
             run == Append(s.run, i)
  <2>1. t = [s EXCEPT !.ok = ok, !.run = run]
    BY <1>10 DEF VariantStep
  <2>2. ok => FixedRun(fields, i, run)
    BY <1>0, <1>6, <1>10, LongerRun
  <2>4. Ahead(s.segs, i, run)
    BY <1>6, <1>10
  <2> HIDE DEF ok, run
  <2>3. t.run = run /\ t.segs = s.segs /\ t.ok = ok
    BY <1>2, <2>1
  <2> QED
    BY <1>6, <1>10, <2>2, <2>3, <2>4
<1> QED
  BY <1>2, <1>5, <1>7, <1>8, <1>9, <1>10

VStart == [ok |-> TRUE, segs |-> <<>>, run |-> <<>>, hook |-> 0]
VFold(fields, f) ==
    f = [n \in 0 .. Len(fields) |->
            IF n = 0 THEN VStart ELSE VariantStep(fields, f[n - 1], fields[n], n)]

LEMMA VariantFold ==
    ASSUME NEW fields \in Seq(Items)
    PROVE  \E s \in VStates : VGood(fields, Len(fields), s) /\ VariantLayout(fields) = VariantEnd(s)
<1> DEFINE step == [p \in (1 .. Len(fields)) \X VStates |->
                      VariantStep(fields, p[2], fields[p[1]], p[1])]
<1>1. Len(fields) \in Nat
  OBVIOUS
<1>2. PICK t : Recursion(t, Len(fields), VStart, step)
  BY <1>1, RecursionExists
<1>3. \A n \in 1 .. Len(fields), x \in VStates :
          /\ step[<<n, x>>] = VariantStep(fields, x, fields[n], n)
          /\ step[<<n, x>>] \in VStates
  BY VariantStepType
<1>4. VStart \in VStates /\ VGood(fields, 0, VStart)
  <2>1. <<>> \in Seq(VSegs) /\ <<>> \in Seq(Nat) /\ Len(<<>>) = 0
    OBVIOUS
  <2>2. VStart \in VStates
    BY <2>1 DEF VStart, VStates
  <2>3. FixedRun(fields, 0, <<>>) /\ SegsWell(fields, <<>>) /\ Ahead(<<>>, 0, <<>>)
    BY <2>1 DEF FixedRun, Ascending, SegsWell, Ahead
  <2> QED
    BY <2>2, <2>3 DEF VGood, VStart
<1>5. \A n \in 0 .. Len(fields) : t[n] \in VStates
  <2> HIDE DEF step
  <2> QED
    BY <1>1, <1>2, <1>3, <1>4, RecursionIn
<1> HIDE DEF step
<1>6. \E f : VFold(fields, f)
  <2>1. ASSUME NEW n \in 0 .. Len(fields)
        PROVE  t[n] = IF n = 0 THEN VStart ELSE VariantStep(fields, t[n - 1], fields[n], n)
    <3>1. t[n] = IF n = 0 THEN VStart ELSE step[<<n, t[n - 1]>>]
      BY <1>2 DEF Recursion
    <3>2. n # 0 => n \in 1 .. Len(fields) /\ n - 1 \in 0 .. Len(fields)
      BY <1>1
    <3> QED
      BY <1>3, <1>5, <3>1, <3>2
  <2>2. t = [n \in 0 .. Len(fields) |-> t[n]]
    BY <1>2 DEF Recursion
  <2>3. VFold(fields, t)
    BY <2>1, <2>2 DEF VFold
  <2> QED
    BY <2>3
<1>7. PICK f : VFold(fields, f) /\ VariantLayout(fields) = VariantEnd(f[Len(fields)])
  BY <1>6, Zenon DEF VariantLayout, FoldItems, VFold, VStart
<1> DEFINE P == {n \in 0 .. Len(fields) : f[n] \in VStates /\ VGood(fields, n, f[n])}
<1>8. 0 \in P
  BY <1>1, <1>4, <1>7 DEF VFold
<1>9. ASSUME NEW n \in 0 .. Len(fields), n \in P, n < Len(fields) PROVE n + 1 \in P
  <2>1. n + 1 \in 1 .. Len(fields) /\ n + 1 \in 0 .. Len(fields) /\ n + 1 # 0 /\ (n + 1) - 1 = n
    BY <1>1, <1>9
  <2>2. f[n + 1] = VariantStep(fields, f[n], fields[n + 1], n + 1)
    BY <1>7, <2>1 DEF VFold
  <2>3. f[n] \in VStates /\ VGood(fields, (n + 1) - 1, f[n])
    BY <1>9, <2>1
  <2>4. f[n + 1] \in VStates /\ VGood(fields, n + 1, f[n + 1])
    BY <2>1, <2>2, <2>3, VariantStepType, VariantStepGood
  <2> QED
    BY <2>1, <2>4
<1> HIDE DEF P
<1>10. \A n \in 0 .. Len(fields) : n \in P
  BY <1>1, <1>8, <1>9, InductUpto
<1>11. f[Len(fields)] \in VStates /\ VGood(fields, Len(fields), f[Len(fields)])
  BY <1>1, <1>10 DEF P
<1> QED
  BY <1>7, <1>11

\* What a layout of an arm is made of.
LEMMA VariantLayoutWell ==
    ASSUME NEW fields \in Seq(Items)
    PROVE  VariantLayout(fields) \in Seq(VSegs) /\ SegsWell(fields, VariantLayout(fields))
<1>1. PICK s \in VStates : VGood(fields, Len(fields), s) /\ VariantLayout(fields) = VariantEnd(s)
  BY VariantFold
<1>2. s.segs \in Seq(VSegs) /\ s.run \in Seq(Nat)
  BY DEF VStates
<1>3. CASE VariantEnd(s) = <<>>
  <2>1. Len(<<>>) = 0 /\ <<>> \in Seq(VSegs)
    OBVIOUS
  <2> QED
    BY <1>1, <1>3, <2>1 DEF SegsWell
<1>4. CASE VariantEnd(s) # <<>>
  <2>1. s.ok /\ VariantEnd(s) = s.segs \o RunIfAny(s.run)
    BY <1>4 DEF VariantEnd
  <2>2. FixedRun(fields, Len(fields), s.run) /\ SegsWell(fields, s.segs) /\ Ahead(s.segs, Len(fields), s.run)
    BY <1>1, <2>1 DEF VGood
  <2>3. CASE s.run = <<>>
    BY <1>1, <1>2, <2>1, <2>2, <2>3 DEF RunIfAny
  <2>4. CASE s.run # <<>>
    <3>1. Run(s.run) \in VSegs
      BY <1>2 DEF Run, VSegs
    <3> DEFINE extra == <<Run(s.run)>>
               all == s.segs \o extra
    <3>2. extra \in Seq(VSegs) /\ Len(extra) = 1 /\ extra[1] = Run(s.run)
      BY <3>1
    <3>3. VariantEnd(s) = all
      BY <2>1, <2>4 DEF RunIfAny
    <3>4. all[Len(s.segs) + 1] = Run(s.run) /\ Len(s.segs) \in Nat /\ all \in Seq(VSegs)
          /\ \A j \in 1 .. Len(s.segs) : all[j] = s.segs[j]
      BY <1>2, <3>1
    <3> HIDE DEF extra, all
    <3>5. SegWell(fields, all, Len(s.segs) + 1)
      <4>1. Len(fields) \in Nat
        OBVIOUS
      <4>2. \A j \in 1 .. (Len(s.segs) + 1) - 1 : j \in 1 .. Len(s.segs) /\ all[j] = s.segs[j]
        BY <3>4
      <4>3. \A j \in 1 .. (Len(s.segs) + 1) - 1 : all[j].k = "run" =>
                \A p \in 1 .. Len(all[j].fields), q \in 1 .. Len(s.run) : all[j].fields[p] < s.run[q]
        BY <2>2, <4>2 DEF Ahead
      <4>4. PICK k, m \in Nat : k = Len(s.segs) + 1 /\ m = Len(fields)
        BY <3>4, <4>1
      <4>5. \A j \in 1 .. k - 1 : all[j].k = "run" =>
                \A p \in 1 .. Len(all[j].fields), q \in 1 .. Len(s.run) : all[j].fields[p] < s.run[q]
        BY <4>3, <4>4
      <4>6. m <= m /\ FixedRun(fields, m, s.run) /\ all[k] = Run(s.run)
        BY <2>2, <3>4, <4>4
      <4>7. SegWell(fields, all, k)
        BY <4>4, <4>5, <4>6, RunSegWell
      <4> QED
        BY <4>4, <4>7
    <3>6. \A k \in 1 .. Len(extra) : SegWell(fields, s.segs \o extra, Len(s.segs) + k)
      BY <3>2, <3>5 DEF all
    <3> QED
      BY <1>1, <1>2, <2>2, <3>2, <3>3, <3>4, <3>6, MoreSegs DEF all
  <2> QED
    BY <2>3, <2>4
<1> QED
  BY <1>3, <1>4

\* The region whose length is derived is one of the arm's.
LEMMA MeasuredIsRegion ==
    ASSUME NEW segs \in Seq(VSegs), NEW n \in 1 .. Len(segs), segs[n].k = "dyn"
    PROVE  \E k \in 1 .. Len(segs) : segs[k].k # "run" /\ MeasuredRegion(segs, n) = segs[k].item
<1> DEFINE Plains(k) == {j \in 1 .. k - 1 : segs[j].k = "dyn"}
           All(k) == {j \in 1 .. k - 1 : segs[j].k # "run"}
           plain == Cardinality(Plains(n))
           all(k) == Cardinality(All(k))
           T == {k \in 1 .. n : all(k + 1) > plain}
<1>1. Len(segs) \in Nat /\ n \in Nat
  OBVIOUS
<1>2. ASSUME NEW k \in Nat PROVE IsFiniteSet(All(k)) /\ all(k) \in Nat
  <2>1. IsFiniteSet(1 .. k - 1)
    <3>1. 1 \in Int /\ k - 1 \in Int
      OBVIOUS
    <3> QED
      BY <3>1, FS_Interval
  <2>2. All(k) \subseteq 1 .. k - 1
    OBVIOUS
  <2>3. IsFiniteSet(All(k))
    <3> HIDE DEF All
    <3> QED
      BY <2>1, <2>2, FS_Subset
  <2> HIDE DEF All
  <2> QED
    BY <2>3, FS_CardinalityType
<1>3. plain \in Nat /\ plain <= all(n)
  <2>1. Plains(n) \subseteq All(n)
    OBVIOUS
  <2> HIDE DEF Plains, All
  <2> QED
    BY <1>1, <1>2, <2>1, FS_Subset, FS_CardinalityType
<1>4. ASSUME NEW k \in 1 .. n
      PROVE  all(k + 1) = IF segs[k].k = "run" THEN all(k) ELSE all(k) + 1
  <2>1. k \in Nat /\ k \notin All(k)
    OBVIOUS
  <2>2. CASE segs[k].k = "run"
    <3>1. All(k + 1) = All(k)
      BY <2>2
    <3> QED
      BY <2>2, <3>1
  <2>3. CASE segs[k].k # "run"
    <3>1. All(k + 1) = All(k) \cup {k}
      BY <2>3
    <3> HIDE DEF All
    <3> QED
      BY <1>2, <2>1, <2>3, <3>1, FS_AddElement
  <2> QED
    BY <2>2, <2>3
<1>5. T \subseteq Nat /\ n \in T
  <2>1. n \in 1 .. n /\ all(n + 1) = all(n) + 1 /\ all(n) \in Nat
    <3>1. n \in 1 .. n /\ segs[n].k # "run"
      BY <1>1
    <3>2. all(n + 1) = IF segs[n].k = "run" THEN all(n) ELSE all(n) + 1
      BY <1>4, <3>1
    <3>3. all(n) \in Nat
      BY <1>1, <1>2
    <3> HIDE DEF all
    <3> QED
      BY <3>1, <3>2, <3>3
  <2> HIDE DEF all, plain
  <2> QED
    BY <1>3, <2>1
<1>6. PICK k \in T : \A j \in T : k <= j
  <2> HIDE DEF T
  <2> QED
    BY <1>5, LeastOf
<1>7. k \in 1 .. n /\ k \in Nat /\ all(k + 1) > plain /\ all(k) \in Nat
  <2>1. k \in 1 .. n /\ k \in Nat /\ all(k + 1) > plain
    <3> HIDE DEF all, plain
    <3> QED
      BY <1>1, <1>6
  <2> HIDE DEF all, plain
  <2> QED
    BY <1>2, <2>1
<1>8. all(k) <= plain
  <2>1. CASE k = 1
    <3>1. All(1) = {}
      OBVIOUS
    <3>2. all(k) = 0
      <4> HIDE DEF All
      <4> QED
        BY <2>1, <3>1, FS_EmptySet
    <3> HIDE DEF all, plain
    <3> QED
      BY <1>3, <3>2
  <2>2. CASE k # 1
    <3>1. k - 1 \in 1 .. n /\ k - 1 \notin T /\ (k - 1) + 1 = k
      <4> HIDE DEF T
      <4> QED
        BY <1>1, <1>6, <1>7, <2>2
    <3>2. ~(all(k) > plain)
      <4> HIDE DEF all, plain
      <4> QED
        BY <3>1
    <3> HIDE DEF all, plain
    <3> QED
      BY <1>3, <1>7, <3>2
  <2> QED
    BY <2>1, <2>2
<1>9. segs[k].k # "run" /\ all(k) = plain
  <2>1. all(k + 1) = IF segs[k].k = "run" THEN all(k) ELSE all(k) + 1
    BY <1>4, <1>7
  <2> HIDE DEF all, plain
  <2> QED
    BY <1>3, <1>7, <1>8, <2>1
<1>10. k \in 1 .. Len(segs)
  BY <1>1, <1>7
<1> DEFINE chosen == CHOOSE m \in 1 .. Len(segs) : segs[m].k # "run" /\ all(m) = plain
<1>11. chosen \in 1 .. Len(segs) /\ segs[chosen].k # "run"
  <2> HIDE DEF all, plain
  <2> QED
    BY <1>9, <1>10
<1>12. MeasuredRegion(segs, n) = segs[chosen].item
  BY Zenon DEF MeasuredRegion
<1> HIDE DEF chosen
<1> QED
  BY <1>11, <1>12

LEMMA VarintFits ==
    ASSUME NEW v \in 0 .. MaxHooked
    PROVE  /\ Varint(v) \in Bytes /\ Len(Varint(v)) = Width(v)
           /\ Width(v) \in Nat
<1>1. MaxByte \in Nat /\ MaxByte \in Byte /\ v \in 0 .. MaxByte + MaxByte
  BY BaseAssumption DEF MaxByte, Byte, MaxHooked
<1>2. CASE v < MaxByte
  <2>1. v \in Byte
    BY <1>1, <1>2 DEF Byte
  <2> QED
    BY <1>2, <2>1 DEF Varint, Width, Bytes
<1>3. CASE ~(v < MaxByte)
  <2>1. v - MaxByte \in Byte
    BY <1>1, <1>3 DEF Byte
  <2> QED
    BY <1>1, <1>3, <2>1 DEF Varint, Width, Bytes
<1> QED
  BY <1>2, <1>3

LEMMA CastFits ==
    ASSUME NEW n \in Nat
    PROVE  Cast(n) \in 0 .. MaxHooked
<1>1. PICK d \in Nat : d = MaxByte + Base /\ d > 0 /\ d - 1 = MaxByte + MaxByte
  BY BaseAssumption DEF MaxByte
<1>2. n % d \in 0 .. d - 1
  BY <1>1
<1> QED
  BY <1>1, <1>2 DEF Cast, MaxHooked
-----------------------------------------------------------------------------
(* Arms with regions: what they store.                                     *)

\* A value for each region.
Regions(fields, c, segs) ==
    \A k \in 1 .. Len(segs) : segs[k].k # "run" => c[segs[k].item] \in Bytes

LEMMA FilledRegions ==
    ASSUME NEW fields, NEW c, Filled(fields, c), NEW segs \in Seq(VSegs), SegsWell(fields, segs)
    PROVE  Regions(fields, c, segs)
<1> SUFFICES ASSUME NEW k \in 1 .. Len(segs), segs[k].k # "run" PROVE c[segs[k].item] \in Bytes
  BY DEF Regions
<1>1. segs[k].k \in {"dyn", "varint"}
  <2>1. segs[k] \in VSegs
    OBVIOUS
  <2> QED
    BY <2>1 DEF VSegs
<1>2. segs[k].item \in 1 .. Len(fields) /\ fields[segs[k].item].kind \in {"arr", "greedy"}
  BY <1>1 DEF SegsWell, SegWell
<1>3. FieldHolds(fields[segs[k].item], c[segs[k].item])
  BY <1>2 DEF Filled
<1> QED
  BY <1>2, <1>3 DEF FieldHolds

LEMMA SegmentFits ==
    ASSUME NEW fields, NEW c, Filled(fields, c), NEW segs \in Seq(VSegs), SegsWell(fields, segs),
           NEW n \in 1 .. Len(segs)
    PROVE  /\ SegmentBytes(fields, c, segs[n]) \in Nat
           /\ SegmentPlan(fields, c, segs, n) \in Plans(SegmentBytes(fields, c, segs[n]))
<1> DEFINE seg == segs[n]
           Derived0 == {k \in 1 .. Len(segs) :
                          segs[k].k = "dyn" /\ segs[k].len # 0 /\ segs[k].run = n}
           d == CHOOSE x \in Derived0 : TRUE
           bare == Plan(0, RunStores(fields, c, seg.fields, LenFields(segs)))
           len == LenPlan(fields, seg.fields, segs[d].e, Len(c[MeasuredRegion(segs, d)]))
           room == SegmentBytes(fields, c, seg)
<1>1. Regions(fields, c, segs)
  BY FilledRegions
<1>2. seg \in VSegs /\ SegWell(fields, segs, n) /\ seg.k \in {"run", "dyn", "varint"}
  <2>1. seg \in VSegs
    OBVIOUS
  <2> QED
    BY <2>1 DEF SegsWell, VSegs
<1>3. Sized(fields)
  BY FilledSized DEF Filled
<1>4. CASE seg.k = "run"
  <2>1. seg.fields \in Seq(1 .. Len(fields))
        /\ \A p \in 1 .. Len(seg.fields) : FixedField(fields[seg.fields[p]])
    BY <1>2, <1>4 DEF SegWell, FixedRun
  <2>2. room = RunBytes(fields, seg.fields)
    BY <1>4 DEF SegmentBytes
  <2>3. RunStores(fields, c, seg.fields, LenFields(segs)) \in Within(room) /\ room \in Nat
    BY <2>1, <2>2, FixedIsSized, FilledRun
  <2>4. bare \in Plans(room)
    BY <2>3, PlanFits
  <2>5. CASE Derived0 = {}
    <3>1. SegmentPlan(fields, c, segs, n) = bare
      BY <1>4, <2>5 DEF SegmentPlan
    <3> QED
      BY <2>3, <2>4, <3>1
  <2>6. CASE Derived0 # {}
    <3>1. d \in Derived0
      BY <2>6
    <3>2. d \in 1 .. Len(segs) /\ segs[d].k = "dyn" /\ segs[d].len # 0 /\ segs[d].run = n
      BY <3>1
    <3> HIDE DEF d
    <3>3. SegWell(fields, segs, d)
      BY <3>2 DEF SegsWell
    <3>4. segs[d].e \in Exprs /\ \E p \in 1 .. Len(seg.fields) :
             seg.fields[p] = segs[d].e.of /\ IsNumber(fields[seg.fields[p]])
      BY <3>2, <3>3 DEF SegWell
    <3>5. Len(c[MeasuredRegion(segs, d)]) \in Nat
      <4>1. PICK k \in 1 .. Len(segs) : segs[k].k # "run" /\ MeasuredRegion(segs, d) = segs[k].item
        BY <3>2, MeasuredIsRegion
      <4>2. c[MeasuredRegion(segs, d)] \in Bytes
        BY <1>1, <4>1 DEF Regions
      <4> QED
        BY <4>2 DEF Bytes
    <3>6. PICK p \in 1 .. Len(seg.fields) :
             seg.fields[p] = segs[d].e.of /\ IsNumber(fields[seg.fields[p]])
      BY <3>4
    <3>7. len \in Plans(room)
      <4> HIDE DEF seg
      <4> QED
        BY <1>3, <2>1, <2>2, <3>4, <3>5, <3>6, LenPlanFits
    <3>8. Then(bare, len, 0) \in Plans(room)
      <4> HIDE DEF bare, len, room
      <4> QED
        BY <2>3, <2>4, <3>7, ThenFits
    <3>9. SegmentPlan(fields, c, segs, n) = Then(bare, len, 0)
      BY <1>4, <2>6 DEF SegmentPlan, d
    <3> QED
      BY <2>3, <3>8, <3>9
  <2> QED
    BY <2>5, <2>6
<1>5. ASSUME seg.k # "run" PROVE c[seg.item] \in Bytes /\ Len(c[seg.item]) \in Nat
  <2>1. c[seg.item] \in Bytes
    BY <1>1, <1>5 DEF Regions
  <2> QED
    BY <2>1 DEF Bytes
<1>6. CASE seg.k = "dyn"
  <2>1. c[seg.item] \in Bytes /\ Len(c[seg.item]) \in Nat /\ room = Len(c[seg.item])
    BY <1>5, <1>6 DEF SegmentBytes
  <2>2. Store(0, c[seg.item]) \in Placed(room)
    BY <2>1, StoreFits
  <2>3. Plan(0, <<Store(0, c[seg.item])>>) \in Plans(room)
    BY <2>2, Single, PlanFits
  <2>4. SegmentPlan(fields, c, segs, n) = Plan(0, <<Store(0, c[seg.item])>>)
    BY <1>6 DEF SegmentPlan
  <2> QED
    BY <2>1, <2>3, <2>4
<1>7. CASE seg.k = "varint"
  <2> DEFINE v == Varint(Cast(Len(c[seg.item])))
  <2>1. c[seg.item] \in Bytes /\ Len(c[seg.item]) \in Nat
        /\ room = Width(Cast(Len(c[seg.item]))) + Len(c[seg.item])
    BY <1>5, <1>7 DEF SegmentBytes
  <2>2. v \in Bytes /\ Len(v) = Width(Cast(Len(c[seg.item]))) /\ Width(Cast(Len(c[seg.item]))) \in Nat
    BY <2>1, CastFits, VarintFits
  <2> HIDE DEF v, room
  <2>3. room \in Nat /\ 0 + Len(v) <= room /\ Len(v) + Len(c[seg.item]) <= room /\ Len(v) \in Nat
    BY <2>1, <2>2
  <2>4. HookStore(0, v) \in Placed(room) /\ Store(Len(v), c[seg.item]) \in Placed(room)
    BY <2>1, <2>2, <2>3, StoreFits
  <2>5. <<HookStore(0, v), Store(Len(v), c[seg.item])>> \in Within(room)
    BY <2>4 DEF Within
  <2>6. Plan(0, <<HookStore(0, v), Store(Len(v), c[seg.item])>>) \in Plans(room)
    BY <2>5, PlanFits
  <2>7. SegmentPlan(fields, c, segs, n) = Plan(0, <<HookStore(0, v), Store(Len(v), c[seg.item])>>)
    BY <1>7 DEF SegmentPlan, v
  <2> QED
    BY <2>3, <2>6, <2>7 DEF room
<1> QED
  BY <1>2, <1>4, <1>6, <1>7

\* Plans one behind the other, each on bytes of its own.
Chain(parts, sizes, N, need, upto) ==
    upto = [n \in 0 .. N |-> IF n = 0 THEN Plan(need, <<>>)
                             ELSE Then(upto[n - 1], parts[n], Total(sizes, n - 1))]

ChainOf(room, need) ==
    {p \in Plans(room) : p.need = need /\ p.used = need /\ p.early = "none"}

LEMMA ChainFits ==
    ASSUME NEW N \in Nat, NEW need \in Nat, NEW sizes, \A n \in 1 .. N : sizes[n] \in Nat,
           NEW parts, \A n \in 1 .. N : parts[n] \in Plans(sizes[n])
    PROVE  /\ Total(sizes, N) \in Nat
           /\ \E upto : Chain(parts, sizes, N, need, upto)
           /\ \A upto : Chain(parts, sizes, N, need, upto) =>
                            upto[N] \in ChainOf(Total(sizes, N), need)
<1> DEFINE room == Total(sizes, N)
           S == ChainOf(room, need)
           step == [p \in (1 .. N) \X S |-> Then(p[2], parts[p[1]], Total(sizes, p[1] - 1))]
<1>1. /\ \A n \in 0 .. N : Total(sizes, n) \in Nat /\ Total(sizes, n) <= room
      /\ \A n \in 1 .. N : Total(sizes, n) = Total(sizes, n - 1) + sizes[n]
      /\ room \in Nat
  <2>1. N \in 0 .. N
    OBVIOUS
  <2> QED
    BY <2>1, TotalSteps, TotalGrows
<1>2. Plan(need, <<>>) \in S
  BY Empty, PlanFits DEF ChainOf
<1>3. ASSUME NEW n \in 1 .. N, NEW x \in S PROVE Then(x, parts[n], Total(sizes, n - 1)) \in S
  <2>1. n \in 0 .. N /\ n - 1 \in 0 .. N
    OBVIOUS
  <2>2. Total(sizes, n - 1) + sizes[n] <= room /\ Total(sizes, n - 1) \in Nat /\ sizes[n] \in Nat
    BY <1>1, <2>1
  <2>3. parts[n] \in Plans(sizes[n]) /\ x \in Plans(room)
    BY DEF ChainOf
  <2> HIDE DEF room
  <2> QED
    BY <1>1, <2>2, <2>3, ThenFits DEF ChainOf
<1>4. PICK t : Recursion(t, N, Plan(need, <<>>), step)
  BY RecursionExists
<1>5. \A n \in 1 .. N, x \in S :
          /\ step[<<n, x>>] = Then(x, parts[n], Total(sizes, n - 1))
          /\ step[<<n, x>>] \in S
  <2> HIDE DEF S
  <2> QED
    BY <1>3
<1>6. \A n \in 0 .. N : t[n] \in S
  <2> HIDE DEF step, S
  <2> QED
    BY <1>2, <1>4, <1>5, RecursionIn
<1>7. Chain(parts, sizes, N, need, t)
  <2> HIDE DEF step, S
  <2>1. ASSUME NEW n \in 0 .. N
        PROVE  t[n] = IF n = 0 THEN Plan(need, <<>>)
                      ELSE Then(t[n - 1], parts[n], Total(sizes, n - 1))
    <3>1. t[n] = IF n = 0 THEN Plan(need, <<>>) ELSE step[<<n, t[n - 1]>>]
      BY <1>4 DEF Recursion
    <3>2. n # 0 => n \in 1 .. N /\ n - 1 \in 0 .. N
      OBVIOUS
    <3> QED
      BY <1>5, <1>6, <3>1, <3>2
  <2>2. t = [n \in 0 .. N |-> t[n]]
    BY <1>4 DEF Recursion
  <2> QED
    BY <2>1, <2>2 DEF Chain
<1>8. ASSUME NEW upto, Chain(parts, sizes, N, need, upto) PROVE upto[N] \in S
  <2> DEFINE P == {n \in 0 .. N : upto[n] \in S}
  <2> HIDE DEF S, step
  <2>1. 0 \in P
    BY <1>2, <1>8 DEF Chain
  <2>2. ASSUME NEW n \in 0 .. N, n \in P, n < N PROVE n + 1 \in P
    <3>1. n + 1 \in 1 .. N /\ n + 1 \in 0 .. N /\ n + 1 # 0 /\ (n + 1) - 1 = n
      BY <2>2
    <3>2. upto[n + 1] = Then(upto[n], parts[n + 1], Total(sizes, (n + 1) - 1))
      BY <1>8, <3>1 DEF Chain
    <3>3. upto[n + 1] \in S
      BY <1>3, <2>2, <3>1, <3>2
    <3> QED
      BY <3>1, <3>3
  <2> HIDE DEF P
  <2>3. \A n \in 0 .. N : n \in P
    BY <2>1, <2>2, InductUpto
  <2> QED
    BY <2>3 DEF P
<1> QED
  BY <1>1, <1>7, <1>8

SegmentsChain(fields, c, segs, upto) ==
    LET base(n) == Total([k \in 1 .. Len(segs) |-> SegmentBytes(fields, c, segs[k])], n - 1)
    IN  upto = [n \in 0 .. Len(segs) |->
                  IF n = 0 THEN Plan(base(Len(segs) + 1), <<>>)
                  ELSE Then(upto[n - 1], SegmentPlan(fields, c, segs, n), base(n))]

\* The segments of an arm, one behind the other.
SegmentSizes(fields, c, segs) == [k \in 1 .. Len(segs) |-> SegmentBytes(fields, c, segs[k])]
SegmentParts(fields, c, segs) == [k \in 1 .. Len(segs) |-> SegmentPlan(fields, c, segs, k)]

LEMMA SegmentsChained ==
    ASSUME NEW fields, NEW c, Filled(fields, c), NEW segs \in Seq(VSegs), SegsWell(fields, segs),
           NEW sizes, sizes = SegmentSizes(fields, c, segs), NEW parts, parts = SegmentParts(fields, c, segs)
    PROVE  /\ \A n \in 1 .. Len(segs) : sizes[n] \in Nat /\ parts[n] \in Plans(sizes[n])
           /\ \A n \in 1 .. Len(segs) : sizes[n] = SegmentBytes(fields, c, segs[n])
                                        /\ parts[n] = SegmentPlan(fields, c, segs, n)
           /\ \E upto : /\ Chain(parts, sizes, Len(segs), Total(sizes, Len(segs)), upto)
                        /\ SegmentsPlan(fields, c, segs) = upto[Len(segs)]
<1> DEFINE N == Len(segs)
           need == Total(sizes, N)
<1>10. sizes = [k \in 1 .. N |-> SegmentBytes(fields, c, segs[k])]
       /\ parts = [k \in 1 .. N |-> SegmentPlan(fields, c, segs, k)]
  BY DEF SegmentSizes, SegmentParts
<1>1. N \in Nat /\ (N + 1) - 1 = N /\ N \in 0 .. N
  OBVIOUS
<1>11. \A n \in 1 .. N : sizes[n] = SegmentBytes(fields, c, segs[n])
                         /\ parts[n] = SegmentPlan(fields, c, segs, n)
  BY <1>10
<1>2. \A n \in 1 .. N : sizes[n] \in Nat /\ parts[n] \in Plans(sizes[n])
  BY <1>11, SegmentFits
<1>3. need \in Nat
  <2> HIDE DEF N
  <2> QED
    BY <1>1, <1>2, TotalSteps
<1>4. ASSUME NEW upto
      PROVE  SegmentsChain(fields, c, segs, upto) <=> Chain(parts, sizes, N, need, upto)
  <2>1. \A n \in 1 .. N : parts[n] = SegmentPlan(fields, c, segs, n)
    BY <1>11
  <2>2. SegmentsChain(fields, c, segs, upto)
          <=> upto = [n \in 0 .. N |->
                  IF n = 0 THEN Plan(Total(sizes, (N + 1) - 1), <<>>)
                  ELSE Then(upto[n - 1], SegmentPlan(fields, c, segs, n), Total(sizes, n - 1))]
    BY <1>10, Zenon DEF SegmentsChain
  <2>3. [n \in 0 .. N |->
                  IF n = 0 THEN Plan(Total(sizes, (N + 1) - 1), <<>>)
                  ELSE Then(upto[n - 1], SegmentPlan(fields, c, segs, n), Total(sizes, n - 1))]
         = [n \in 0 .. N |-> IF n = 0 THEN Plan(need, <<>>)
                             ELSE Then(upto[n - 1], parts[n], Total(sizes, n - 1))]
    <3>1. ASSUME NEW n \in 0 .. N
          PROVE  (IF n = 0 THEN Plan(Total(sizes, (N + 1) - 1), <<>>)
                  ELSE Then(upto[n - 1], SegmentPlan(fields, c, segs, n), Total(sizes, n - 1)))
                 = (IF n = 0 THEN Plan(need, <<>>)
                             ELSE Then(upto[n - 1], parts[n], Total(sizes, n - 1)))
      <4>1. n # 0 => n \in 1 .. N
        OBVIOUS
      <4> HIDE DEF N
      <4> QED
        BY <1>1, <2>1, <4>1
    <3> HIDE DEF N, need
    <3> QED
      BY <3>1
  <2> QED
    BY <2>2, <2>3 DEF Chain
<1> HIDE DEF need, N
<1>5. /\ \E upto : Chain(parts, sizes, N, need, upto)
      /\ \A upto : Chain(parts, sizes, N, need, upto) => upto[N] \in ChainOf(need, need)
  BY <1>1, <1>2, <1>3, ChainFits DEF need
<1>6. \E upto : SegmentsChain(fields, c, segs, upto)
  BY <1>4, <1>5
<1>7. PICK upto : SegmentsChain(fields, c, segs, upto)
                    /\ SegmentsPlan(fields, c, segs) = upto[Len(segs)]
  BY <1>6, Zenon DEF SegmentsPlan, SegmentsChain
<1> QED
  BY <1>2, <1>4, <1>7, <1>11 DEF N, need

LEMMA SegmentsFit ==
    ASSUME NEW fields, NEW c, Filled(fields, c), NEW segs \in Seq(VSegs), SegsWell(fields, segs)
    PROVE  InRoom(SegmentsPlan(fields, c, segs)) /\ SegmentsPlan(fields, c, segs).early = "none"
           /\ SegmentsPlan(fields, c, segs).need = Total(SegmentSizes(fields, c, segs), Len(segs))
           /\ SegmentsPlan(fields, c, segs).need \in Nat
<1> DEFINE N == Len(segs)
           sizes == SegmentSizes(fields, c, segs)
           parts == SegmentParts(fields, c, segs)
           need == Total(sizes, N)
<1>1. N \in Nat /\ N \in 0 .. N
  OBVIOUS
<1>2. /\ \A n \in 1 .. N : sizes[n] \in Nat /\ parts[n] \in Plans(sizes[n])
      /\ \E upto : Chain(parts, sizes, N, need, upto) /\ SegmentsPlan(fields, c, segs) = upto[N]
  BY SegmentsChained
<1> HIDE DEF sizes, parts, N
<1>3. need \in Nat
  BY <1>1, <1>2, TotalSteps
<1>4. \A upto : Chain(parts, sizes, N, need, upto) => upto[N] \in ChainOf(need, need)
  BY <1>1, <1>2, <1>3, ChainFits
<1>5. SegmentsPlan(fields, c, segs) \in ChainOf(need, need)
  BY <1>2, <1>4
<1> QED
  BY <1>3, <1>5 DEF ChainOf, InRoom, N, sizes

LEMMA VariantFits ==
    ASSUME NEW fields, NEW c, Filled(fields, c)
    PROVE  InRoom(VariantPlan(fields, c)) /\ VariantPlan(fields, c).early = "none"
           /\ VariantPlan(fields, c).need \in Nat
BY VariantLayoutWell, SegmentsFit DEF VariantPlan, Filled
-----------------------------------------------------------------------------
(* Unions.                                                                 *)

\* Item i is a union whose discriminants are in the run of fixed fields before
\* it, and the content has an arm that can be written.
UnionIn(fields, c, i, prefix, bodies) ==
    /\ Filled(fields, c) /\ i \in 1 .. Len(fields)
    /\ fields[i].kind = "union" /\ ItemWell(fields[i], i) /\ ItemHolds(fields[i], c[i])
    /\ prefix \in Seq(1 .. Len(fields))
    /\ \A p \in 1 .. Len(prefix) : fields[prefix[p]].kind \in SizedKinds
    /\ \E lenient \in BOOLEAN : bodies = UnionLayout(fields, fields[i], prefix, lenient)
    /\ bodies # <<>> /\ UnionHolds(bodies, c[i])

\* What a layout of a union says of the discriminants and of an arm.
LEMMA UnionLayoutIs ==
    ASSUME NEW fields, NEW u \in Items, NEW prefix, NEW lenient, UnionLayout(fields, u, prefix, lenient) # <<>>,
           NEW n \in 1 .. Len(u.arms), UnionLayout(fields, u, prefix, lenient)[n] \in {"fixed", "dynamic"}
    PROVE  /\ \A d \in 1 .. Len(u.discs) : /\ \E p \in 1 .. Len(prefix) : prefix[p] = u.discs[d]
                                           /\ IsNumber(fields[u.discs[d]])
           /\ UnionLayout(fields, u, prefix, lenient)[n] = "fixed" =>
                 AllFixed(u.arms[n].items, 1, Len(u.arms[n].items))
           /\ Wild(u.arms[n]) => Len(u.discs) = 1
<1> DEFINE wildcardWritable == Len(u.discs) = 1 /\ fields[u.discs[1]].kind \in {"num", "int"}
           body(m) == IF u.arms[m].error THEN "skipped"
                      ELSE ArmBody(u.arms[m], lenient, wildcardWritable)
           bodies == [m \in 1 .. Len(u.arms) |-> body(m)]
           good == /\ u.discs # <<>>
                   /\ \A d \in 1 .. Len(u.discs) : /\ \E p \in 1 .. Len(prefix) : prefix[p] = u.discs[d]
                                                   /\ IsNumber(fields[u.discs[d]])
<1>1. UnionLayout(fields, u, prefix, lenient) = IF good THEN SomeWritten(bodies) ELSE <<>>
  BY Zenon DEF UnionLayout
<1>2. good /\ SomeWritten(bodies) # <<>> /\ UnionLayout(fields, u, prefix, lenient) = SomeWritten(bodies)
  <2> HIDE DEF good, bodies
  <2> QED
    BY <1>1
<1>3. UnionLayout(fields, u, prefix, lenient) = bodies
  <2> HIDE DEF good, bodies
  <2> QED
    BY <1>2 DEF SomeWritten
<1>4. body(n) \in {"fixed", "dynamic"} /\ body(n) = UnionLayout(fields, u, prefix, lenient)[n]
  <2>1. bodies[n] = body(n)
    OBVIOUS
  <2> HIDE DEF bodies, body
  <2> QED
    BY <1>3, <2>1
<1>5. ArmBody(u.arms[n], lenient, wildcardWritable) = body(n)
  <2> HIDE DEF wildcardWritable
  <2> QED
    BY <1>4
<1> HIDE DEF body, wildcardWritable, bodies
<1>6. body(n) = "fixed" => AllFixed(u.arms[n].items, 1, Len(u.arms[n].items))
  BY <1>4, <1>5 DEF ArmBody
<1>7. Wild(u.arms[n]) => wildcardWritable
  BY <1>4, <1>5 DEF ArmBody
<1> QED
  BY <1>2, <1>4, <1>6, <1>7 DEF wildcardWritable

\* A literal matcher has a byte for each discriminant.
LEMMA DiscValuesIs ==
    ASSUME NEW arm \in Arms, NEW N \in Nat,
           \A m \in 1 .. Len(arm.matchers) : arm.matchers[m] = <<>> \/ Len(arm.matchers[m]) = N,
           ~Wild(arm)
    PROVE  DiscValues(arm) \in Bytes /\ Len(DiscValues(arm)) = N
<1> DEFINE literal == {n \in 1 .. Len(arm.matchers) : arm.matchers[n] # <<>>}
           first == CHOOSE n \in literal : \A m \in literal : n <= m
<1>1. DiscValues(arm) = IF literal = {} THEN <<>> ELSE arm.matchers[first]
  BY Zenon DEF DiscValues
<1>2. literal # {}
  BY <1>1 DEF Wild
<1>3. literal \subseteq Nat /\ literal \subseteq 1 .. Len(arm.matchers)
  OBVIOUS
<1>4. first \in literal
  <2> HIDE DEF literal
  <2>1. \E n \in literal : \A m \in literal : n <= m
    BY <1>2, <1>3, LeastOf
  <2> QED
    BY <2>1
<1>5. first \in 1 .. Len(arm.matchers) /\ arm.matchers[first] # <<>>
  <2> HIDE DEF first
  <2> QED
    BY <1>4
<1>6. arm.matchers \in Seq(Bytes)
  BY DEF Arms
<1> HIDE DEF first, literal
<1>7. arm.matchers[first] \in Bytes
  BY <1>5, <1>6
<1> QED
  BY <1>1, <1>2, <1>5, <1>7

LEMMA UnionType ==
    ASSUME NEW fields, NEW c, NEW i, NEW prefix, NEW bodies, UnionIn(fields, c, i, prefix, bodies)
    PROVE  /\ fields[i] \in Items /\ Sized(fields)
           /\ c[i].arm \in 1 .. Len(fields[i].arms) /\ c[i].disc \in Byte
           /\ fields[i].arms[c[i].arm] \in Arms
           /\ Filled(fields[i].arms[c[i].arm].items, c[i].fields)
           /\ bodies[c[i].arm] = "fixed" =>
                 AllFixed(fields[i].arms[c[i].arm].items, 1, Len(fields[i].arms[c[i].arm].items))
           /\ bodies[c[i].arm] \in {"fixed", "dynamic"}
           /\ \A d \in 1 .. Len(fields[i].discs) :
                 /\ \E p \in 1 .. Len(prefix) : prefix[p] = fields[i].discs[d]
                 /\ IsNumber(fields[fields[i].discs[d]])
           /\ Wild(fields[i].arms[c[i].arm]) => Len(fields[i].discs) = 1
           /\ ~Wild(fields[i].arms[c[i].arm]) =>
                 /\ DiscValues(fields[i].arms[c[i].arm]) \in Bytes
                 /\ Len(DiscValues(fields[i].arms[c[i].arm])) = Len(fields[i].discs)
<1> DEFINE u == fields[i]
           v == c[i]
           arm == u.arms[v.arm]
<1>1. fields \in Seq(Items) /\ i \in 1 .. Len(fields)
  BY DEF UnionIn, Filled
<1>2. u \in Items /\ Sized(fields)
  BY <1>1, FilledSized
<1>3. u.kind = "union" /\ ItemWell(u, i) /\ ItemHolds(u, v) /\ UnionHolds(bodies, v)
  BY DEF UnionIn
<1> HIDE DEF u, v
<1>4. v.arm \in 1 .. Len(u.arms) /\ v.disc \in Byte /\ FieldsHold(arm.items, v.fields)
  BY <1>3 DEF ItemHolds
<1>5. u.arms \in Seq(Arms) /\ u.discs \in Seq(Nat)
  BY <1>2, ItemType
<1>6. arm \in Arms
  BY <1>4, <1>5
<1>7. /\ FieldsWell(arm.items)
      /\ \A m \in 1 .. Len(arm.matchers) :
            arm.matchers[m] = <<>> \/ Len(arm.matchers[m]) = Len(u.discs)
  BY <1>3, <1>4 DEF ItemWell
<1>8. bodies[v.arm] \in {"fixed", "dynamic"}
  BY <1>3 DEF UnionHolds
<1> HIDE DEF arm
<1>9. Filled(arm.items, v.fields)
  <2>1. arm.items \in Seq(Items)
    BY <1>6, FieldsAreItems DEF Arms
  <2> QED
    BY <1>4, <1>7, <2>1 DEF Filled, FieldsWell, FieldsHold
<1>10. PICK lenient \in BOOLEAN : bodies = UnionLayout(fields, u, prefix, lenient) /\ bodies # <<>>
  BY DEF UnionIn, u
<1>11. /\ \A d \in 1 .. Len(u.discs) : /\ \E p \in 1 .. Len(prefix) : prefix[p] = u.discs[d]
                                      /\ IsNumber(fields[u.discs[d]])
       /\ bodies[v.arm] = "fixed" => AllFixed(arm.items, 1, Len(arm.items))
       /\ Wild(arm) => Len(u.discs) = 1
  <2> DEFINE lay == UnionLayout(fields, u, prefix, lenient)
  <2>1. lay = bodies /\ lay # <<>> /\ lay[v.arm] \in {"fixed", "dynamic"}
    BY <1>8, <1>10
  <2>2. /\ \A d \in 1 .. Len(u.discs) : /\ \E p \in 1 .. Len(prefix) : prefix[p] = u.discs[d]
                                        /\ IsNumber(fields[u.discs[d]])
        /\ lay[v.arm] = "fixed" =>
              AllFixed(u.arms[v.arm].items, 1, Len(u.arms[v.arm].items))
        /\ Wild(u.arms[v.arm]) => Len(u.discs) = 1
    BY <1>2, <1>4, <2>1, UnionLayoutIs
  <2> QED
    BY <2>1, <2>2, Zenon DEF arm
<1>12. ~Wild(arm) => DiscValues(arm) \in Bytes /\ Len(DiscValues(arm)) = Len(u.discs)
  <2>1. Len(u.discs) \in Nat
    BY <1>5
  <2> QED
    BY <1>6, <1>7, <2>1, DiscValuesIs
<1> QED
  BY <1>2, <1>4, <1>6, <1>8, <1>9, <1>11, <1>12 DEF u, v, arm

LEMMA BodyFits ==
    ASSUME NEW fields, NEW c, NEW i, NEW prefix, NEW bodies, UnionIn(fields, c, i, prefix, bodies)
    PROVE  InRoom(BodyPlan(fields[i], bodies, c[i])) /\ BodyPlan(fields[i], bodies, c[i]).need \in Nat
           /\ BodyPlan(fields[i], bodies, c[i]).early = "none"
<1> DEFINE inner == fields[i].arms[c[i].arm].items
<1>1. Filled(inner, c[i].fields) /\ (bodies[c[i].arm] = "fixed" => AllFixed(inner, 1, Len(inner)))
  BY UnionType
<1>2. CASE bodies[c[i].arm] = "fixed"
  <2>1. BodyPlan(fields[i], bodies, c[i]) = FixedPlan(inner, c[i].fields)
    BY <1>2, Zenon DEF BodyPlan
  <2> HIDE DEF inner
  <2>2. \A k \in 1 .. Len(inner) : inner[k].kind \in SizedKinds
    BY <1>1, <1>2, FixedIsSized DEF AllFixed
  <2>3. InRoom(FixedPlan(inner, c[i].fields)) /\ FixedPlan(inner, c[i].fields).need = Sum(inner, Len(inner))
        /\ FixedPlan(inner, c[i].fields).early = "none"
    BY <1>1, <2>2, FixedPlanFits
  <2>4. Sum(inner, Len(inner)) \in Nat
    <3>1. Sized(inner) /\ Len(inner) \in 0 .. Len(inner)
      BY <1>1, FilledSized DEF Filled, Sized
    <3> QED
      BY <3>1, SumSteps
  <2> QED
    BY <2>1, <2>3, <2>4
<1>3. CASE bodies[c[i].arm] # "fixed"
  <2>1. BodyPlan(fields[i], bodies, c[i]) = VariantPlan(inner, c[i].fields)
    BY <1>3, Zenon DEF BodyPlan
  <2> HIDE DEF inner
  <2> QED
    BY <1>1, <2>1, VariantFits
<1> QED
  BY <1>2, <1>3

LEMMA DiscStoresFit ==
    ASSUME NEW fields, NEW c, NEW i, NEW prefix, NEW bodies, UnionIn(fields, c, i, prefix, bodies)
    PROVE  DiscStores(fields, fields[i], prefix, c[i]) \in Within(RunBytes(fields, prefix))
<1> DEFINE u == fields[i]
           v == c[i]
           arm == u.arms[v.arm]
           values == IF Wild(arm) THEN <<v.disc>> ELSE DiscValues(arm)
           store(d) == Store(OffsetIn(fields, prefix, u.discs[d]), <<values[d]>>)
<1>1. u \in Items /\ Sized(fields) /\ v.disc \in Byte
  BY UnionType
<1>2. /\ \A d \in 1 .. Len(u.discs) : /\ \E p \in 1 .. Len(prefix) : prefix[p] = u.discs[d]
                                      /\ IsNumber(fields[u.discs[d]])
      /\ Wild(arm) => Len(u.discs) = 1
      /\ ~Wild(arm) => DiscValues(arm) \in Bytes /\ Len(DiscValues(arm)) = Len(u.discs)
  BY UnionType
<1>3. u.discs \in Seq(Nat) /\ Len(u.discs) \in Nat
  <2> HIDE DEF u
  <2>1. u.discs \in Seq(Nat)
    BY <1>1, ItemType
  <2> QED
    BY <2>1
<1>4. \A d \in 1 .. Len(u.discs) : values[d] \in Byte
  <2> HIDE DEF u, arm, v
  <2> QED
    BY <1>1, <1>2, <1>3 DEF Bytes
<1>5. prefix \in Seq(1 .. Len(fields))
  BY DEF UnionIn
<1> HIDE DEF u, arm, v, values
<1>6. ASSUME NEW d \in 1 .. Len(u.discs) PROVE store(d) \in Placed(RunBytes(fields, prefix))
  <2>1. PICK p \in 1 .. Len(prefix) : prefix[p] = u.discs[d] /\ IsNumber(fields[prefix[p]])
    BY <1>2
  <2>2. values[d] \in Byte
    BY <1>4
  <2> QED
    BY <1>1, <1>5, <2>1, <2>2, NumberFits
<1>7. DiscStores(fields, u, prefix, v) = [d \in 1 .. Len(u.discs) |-> store(d)]
  BY Zenon DEF DiscStores, values, arm
<1> HIDE DEF store
<1>8. DiscStores(fields, u, prefix, v) \in Within(RunBytes(fields, prefix))
  BY <1>3, <1>6, <1>7 DEF Within
<1> QED
  BY <1>8 DEF u, v

LEMMA AroundFits ==
    ASSUME NEW fields, NEW c, NEW i, NEW prefix, NEW bodies, UnionIn(fields, c, i, prefix, bodies),
           NEW but, NEW room \in Nat, RunBytes(fields, prefix) <= room,
           NEW before \in Plans(room)
    PROVE  /\ RunBytes(fields, prefix) \in Nat
           /\ AroundBody(fields, c, prefix, i, but, before) \in Plans(room)
           /\ AroundBody(fields, c, prefix, i, but, before).early = "none"
<1> DEFINE stores == RunStores(fields, c, prefix, DiscSet(fields[i]) \cup but)
                       \o DiscStores(fields, fields[i], prefix, c[i])
<1>1. Filled(fields, c) /\ prefix \in Seq(1 .. Len(fields))
      /\ \A p \in 1 .. Len(prefix) : fields[prefix[p]].kind \in SizedKinds
  BY DEF UnionIn
<1>2. RunStores(fields, c, prefix, DiscSet(fields[i]) \cup but) \in Within(RunBytes(fields, prefix))
      /\ RunBytes(fields, prefix) \in Nat
  BY <1>1, FilledRun
<1>3. DiscStores(fields, fields[i], prefix, c[i]) \in Within(RunBytes(fields, prefix))
  BY DiscStoresFit
<1>4. stores \in Within(RunBytes(fields, prefix))
  BY <1>2, <1>3, Concat
<1>5. AroundBody(fields, c, prefix, i, but, before) = Then(Plan(0, stores), before, 0)
  BY Zenon DEF AroundBody
<1> HIDE DEF stores
<1>6. stores \in Within(room)
  BY <1>2, <1>4, WithinGrows
<1>7. Plan(0, stores) \in Plans(room) /\ Plan(0, stores).early = "none"
  BY <1>6, PlanFits
<1>8. Then(Plan(0, stores), before, 0) \in Plans(room)
      /\ Then(Plan(0, stores), before, 0).early = Plan(0, stores).early
  BY <1>7, ThenFits
<1> QED
  BY <1>2, <1>5, <1>7, <1>8

\* A plan that uses all of the room it needs.
LEMMA NeedAll ==
    ASSUME NEW need \in Nat, NEW p \in Plans(need)
    PROVE  /\ InRoom([p EXCEPT !.need = need, !.used = need])
           /\ [p EXCEPT !.need = need, !.used = need].need = need
           /\ [p EXCEPT !.need = need, !.used = need].early = p.early
           /\ [p EXCEPT !.need = need, !.used = need].stores = p.stores
<1> DEFINE q == [p EXCEPT !.need = need, !.used = need]
<1>1. q \in Plans(need) /\ q.need = need /\ q.used = need /\ q.early = p.early /\ q.stores = p.stores
  BY DEF Plans
<1> HIDE DEF q
<1>2. InRoom(q) /\ q.need = need /\ q.early = p.early /\ q.stores = p.stores
  BY <1>1 DEF InRoom
<1> QED
  BY <1>2 DEF q

LEMMA InRoomPlans ==
    ASSUME NEW p, InRoom(p), NEW room, room = p.need
    PROVE  p \in Plans(room)
BY DEF InRoom

LEMMA UnionPlanFits ==
    ASSUME NEW fields, NEW c, NEW lay, UnionIn(fields, c, lay.region, lay.prefix, lay.bodies)
    PROVE  InRoom(UnionPlan(fields, c, lay)) /\ UnionPlan(fields, c, lay).early = "none"
<1> DEFINE i == lay.region
           at == RunBytes(fields, lay.prefix)
           body == BodyPlan(fields[i], lay.bodies, c[i])
           around == AroundBody(fields, c, lay.prefix, i, {}, Plan(0, <<>>))
           need == at + body.need
<1>1. InRoom(body) /\ body.need \in Nat
  BY BodyFits
<1>2. at \in Nat
  <2>1. Filled(fields, c) /\ lay.prefix \in Seq(1 .. Len(fields))
        /\ \A p \in 1 .. Len(lay.prefix) : fields[lay.prefix[p]].kind \in SizedKinds
    BY DEF UnionIn
  <2> QED
    BY <2>1, FilledRun
<1>3. Plan(0, <<>>) \in Plans(at)
  BY Empty, PlanFits
<1>4. around \in Plans(at) /\ around.early = "none"
  <2> HIDE DEF at
  <2>1. at <= at /\ RunBytes(fields, lay.prefix) <= at
    BY <1>2 DEF at
  <2> QED
    BY <1>2, <1>3, <2>1, AroundFits
<1>5. UnionPlan(fields, c, lay) = [Then(around, body, at) EXCEPT !.need = need, !.used = need]
  BY Zenon DEF UnionPlan
<1> HIDE DEF at, body, around, i
<1>6. need \in Nat /\ at <= need
  BY <1>1, <1>2
<1>7. around \in Plans(need)
  BY <1>2, <1>4, <1>6, PlansGrow
<1>8. body \in Plans(body.need)
  BY <1>1 DEF InRoom
<1>9. at + body.need <= need
  BY <1>1, <1>2
<1> HIDE DEF need
<1> DEFINE p0 == Then(around, body, at)
<1>10. p0 \in Plans(need) /\ p0.early = "none"
  BY <1>1, <1>2, <1>4, <1>6, <1>7, <1>8, <1>9, ThenFits
<1>11. UnionPlan(fields, c, lay) = [p0 EXCEPT !.need = need, !.used = need]
  BY <1>5
<1> HIDE DEF p0
<1>12. /\ InRoom([p0 EXCEPT !.need = need, !.used = need])
       /\ [p0 EXCEPT !.need = need, !.used = need].early = p0.early
  BY <1>6, <1>10, NeedAll
<1> QED
  BY <1>10, <1>11, <1>12

LEMMA LenUnionPlanFits ==
    ASSUME NEW fields, NEW c, NEW lay, UnionIn(fields, c, lay.region, lay.prefix, lay.bodies),
           \E p \in 1 .. Len(lay.prefix) : lay.prefix[p] = fields[lay.region].len.of
                                           /\ IsNumber(fields[lay.prefix[p]])
    PROVE  /\ InRoom(LenUnionPlan(fields, c, lay)) /\ LenUnionPlan(fields, c, lay).early = "none"
           /\ LenUnionPlan(fields, c, lay).need
                = RunBytes(fields, lay.prefix) + BodyPlan(fields[lay.region], lay.bodies, c[lay.region]).need
           /\ LenUnionPlan(fields, c, lay).need \in Nat
<1> DEFINE i == lay.region
           e == fields[i].len
           at == RunBytes(fields, lay.prefix)
           body == BodyPlan(fields[i], lay.bodies, c[i])
           len == LenPlan(fields, lay.prefix, e, body.need)
           around == AroundBody(fields, c, lay.prefix, i, {e.of}, len)
           need == at + body.need
<1>1. InRoom(body) /\ body.need \in Nat
  BY BodyFits
<1>2. /\ at \in Nat /\ Sized(fields) /\ lay.prefix \in Seq(1 .. Len(fields)) /\ e \in Exprs
  <2>1. Filled(fields, c) /\ lay.prefix \in Seq(1 .. Len(fields))
        /\ \A p \in 1 .. Len(lay.prefix) : fields[lay.prefix[p]].kind \in SizedKinds
    BY DEF UnionIn
  <2>2. at \in Nat
    BY <2>1, FilledRun
  <2>3. fields[i] \in Items /\ Sized(fields)
    BY UnionType
  <2>4. fields[i].len \in Exprs
    BY <2>3, ItemType
  <2> QED
    BY <2>1, <2>2, <2>3, <2>4
<1>3. len \in Plans(at)
  <2>1. PICK p \in 1 .. Len(lay.prefix) : lay.prefix[p] = e.of /\ IsNumber(fields[lay.prefix[p]])
    OBVIOUS
  <2> HIDE DEF e, body
  <2> QED
    BY <1>1, <1>2, <2>1, LenPlanFits
<1>4. around \in Plans(at) /\ around.early = "none"
  <2> HIDE DEF at, len, e
  <2>1. at <= at /\ RunBytes(fields, lay.prefix) <= at
    BY <1>2 DEF at
  <2> QED
    BY <1>2, <1>3, <2>1, AroundFits
<1>5. LenUnionPlan(fields, c, lay) = [Then(around, body, at) EXCEPT !.need = need, !.used = need]
  BY Zenon DEF LenUnionPlan
<1> HIDE DEF around
<1>6. need \in Nat /\ at <= need
  <2> HIDE DEF at, body
  <2> QED
    BY <1>1, <1>2
<1>7. around \in Plans(need)
  <2> HIDE DEF at, need
  <2> QED
    BY <1>2, <1>4, <1>6, PlansGrow
<1>8. body \in Plans(body.need)
  BY <1>1 DEF InRoom
<1>9. at + body.need <= need
  BY <1>6
<1> DEFINE p0 == Then(around, body, at)
<1>10. p0 \in Plans(need) /\ p0.early = "none"
  <2> HIDE DEF need, at, body
  <2>1. body.need \in Nat /\ at \in Nat /\ need \in Nat
    BY <1>1, <1>2, <1>6
  <2> QED
    BY <1>4, <1>7, <1>8, <1>9, <2>1, ThenFits
<1>11. LenUnionPlan(fields, c, lay) = [p0 EXCEPT !.need = need, !.used = need]
  BY <1>5
<1>12. need = RunBytes(fields, lay.prefix) + BodyPlan(fields[lay.region], lay.bodies, c[lay.region]).need
  OBVIOUS
<1> HIDE DEF p0, need, at, body
<1>13. /\ InRoom([p0 EXCEPT !.need = need, !.used = need])
       /\ [p0 EXCEPT !.need = need, !.used = need].need = need
       /\ [p0 EXCEPT !.need = need, !.used = need].early = p0.early
  BY <1>6, <1>10, NeedAll
<1> QED
  BY <1>6, <1>10, <1>11, <1>12, <1>13

LEMMA LenUnionHookPlanFits ==
    ASSUME NEW fields, NEW c, NEW lay, UnionIn(fields, c, lay.region, lay.prefix, lay.bodies)
    PROVE  InRoom(LenUnionHookPlan(fields, c, lay)) /\ LenUnionHookPlan(fields, c, lay).early = "none"
<1> DEFINE i == lay.region
           at == RunBytes(fields, lay.prefix)
           body == BodyPlan(fields[i], lay.bodies, c[i])
           v == Varint(Cast(LenValue(body.need, fields[i].len)))
           len == Plan(0, <<HookStore(at, v)>>)
           around == AroundBody(fields, c, lay.prefix, i, {}, len)
           need == at + Len(v) + body.need
<1>1. InRoom(body) /\ body.need \in Nat
  BY BodyFits
<1>2. at \in Nat /\ fields[i].len \in Exprs
  <2>1. Filled(fields, c) /\ lay.prefix \in Seq(1 .. Len(fields))
        /\ \A p \in 1 .. Len(lay.prefix) : fields[lay.prefix[p]].kind \in SizedKinds
    BY DEF UnionIn
  <2>2. at \in Nat
    BY <2>1, FilledRun
  <2>3. fields[i] \in Items
    BY UnionType
  <2> QED
    BY <2>2, <2>3, ItemType
<1>3. v \in Bytes /\ Len(v) \in Nat
  <2>1. LenValue(body.need, fields[i].len) \in Nat
    <3> HIDE DEF body, i
    <3> QED
      BY <1>1, <1>2 DEF LenValue, Minus, Exprs
  <2>2. v \in Bytes
    <3> HIDE DEF body, i
    <3> QED
      BY <2>1, CastFits, VarintFits
  <2> HIDE DEF v
  <2> QED
    BY <2>2 DEF Bytes
<1> DEFINE front == at + Len(v)
<1>4. front \in Nat /\ at <= front
  <2> HIDE DEF at, v
  <2> QED
    BY <1>2, <1>3
<1>5. len \in Plans(front)
  <2> HIDE DEF at, v
  <2>1. HookStore(at, v) \in Placed(front)
    BY <1>2, <1>3, <1>4, StoreFits
  <2> HIDE DEF front
  <2> QED
    BY <2>1, Single, PlanFits
<1>6. around \in Plans(front) /\ around.early = "none"
  <2>1. RunBytes(fields, lay.prefix) <= front
    BY <1>4
  <2> HIDE DEF front, len
  <2> QED
    BY <1>4, <1>5, <2>1, AroundFits
<1>7. LenUnionHookPlan(fields, c, lay)
        = [Then(around, body, front) EXCEPT !.need = need, !.used = need]
  BY Zenon DEF LenUnionHookPlan
<1> HIDE DEF around, body, at, v
<1>8. need \in Nat /\ front <= need /\ front + body.need <= need
  BY <1>1, <1>2, <1>3
<1> HIDE DEF front, need
<1>9. around \in Plans(need)
  BY <1>4, <1>6, <1>8, PlansGrow
<1>10. body \in Plans(body.need)
  BY <1>1 DEF InRoom
<1> DEFINE p0 == Then(around, body, front)
<1>11. p0 \in Plans(need) /\ p0.early = "none"
  BY <1>1, <1>4, <1>6, <1>8, <1>9, <1>10, ThenFits
<1>12. LenUnionHookPlan(fields, c, lay) = [p0 EXCEPT !.need = need, !.used = need]
  BY <1>7
<1> HIDE DEF p0
<1>13. /\ InRoom([p0 EXCEPT !.need = need, !.used = need])
       /\ [p0 EXCEPT !.need = need, !.used = need].early = p0.early
  BY <1>8, <1>11, NeedAll
<1> QED
  BY <1>11, <1>12, <1>13
-----------------------------------------------------------------------------
(* One tail.                                                               *)

\* The stores of a plan end within the bytes it uses, which are at least those
\* it asks for.
Contained(p) == p.used \in Nat /\ p.need <= p.used /\ p \in Plans(p.used)

\* A store in what was asked for, or a hook's, which says when it is not.
Counted(p) == {s \in Placed(p.used) : s.hook \/ s.at + Len(s.bytes) <= p.need}

LEMMA InRoomContained ==
    ASSUME NEW p, InRoom(p)
    PROVE  Contained(p)
<1>1. p \in Plans(p.need) /\ p.used = p.need
  BY DEF InRoom
<1>2. p.need \in Nat
  BY <1>1 DEF Plans
<1> QED
  BY <1>1, <1>2 DEF Contained

\* Stores in front and one region behind them.
LEMMA TailStores ==
    ASSUME NEW at \in Nat, NEW front \in Within(at), NEW v \in Bytes
    PROVE  /\ at + Len(v) \in Nat /\ front \o <<Store(at, v)>> \in Within(at + Len(v))
           /\ front \o <<Store(at, v)>> # <<>>
<1> DEFINE room == at + Len(v)
           stores == front \o <<Store(at, v)>>
<1>1. Len(v) \in Nat
  BY DEF Bytes
<1>2. room \in Nat /\ at <= room
  BY <1>1
<1>3. <<Store(at, v)>> \in Within(room)
  BY <1>1, <1>2, StoreFits, Single
<1>4. front \in Within(room)
  BY <1>2, WithinGrows
<1>5. stores \in Within(room)
  BY <1>3, <1>4, Concat
<1>6. stores # <<>>
  <2>1. Len(front) \in Nat /\ Len(stores) = Len(front) + 1
    BY <1>3, <1>4 DEF Within
  <2> QED
    BY <2>1
<1> QED
  BY <1>2, <1>5, <1>6

LEMMA TailFits ==
    ASSUME NEW at \in Nat, NEW front \in Within(at), NEW v \in Bytes, NEW early \in Errors
    PROVE  /\ Contained([Plan(at + Len(v), front \o <<Store(at, v)>>) EXCEPT !.early = early])
           /\ [Plan(at + Len(v), front \o <<Store(at, v)>>) EXCEPT !.early = early].stores # <<>>
<1> DEFINE room == at + Len(v)
           stores == front \o <<Store(at, v)>>
           q == [Plan(room, stores) EXCEPT !.early = early]
<1>1. room \in Nat /\ stores \in Within(room) /\ stores # <<>>
  BY TailStores
<1> HIDE DEF room, stores
<1>2. q \in Plans(room) /\ q.used = room /\ q.need = room /\ q.stores = stores
  BY <1>1 DEF Plans, Plan, Errors
<1> HIDE DEF q
<1>3. Contained(q) /\ q.stores # <<>>
  BY <1>1, <1>2 DEF Contained
<1> QED
  BY <1>3 DEF q, room, stores

\* The length field, where LenField finds it.
LEMMA LenFieldIs ==
    ASSUME NEW fields, NEW set, NEW e \in Exprs, LenField(fields, set, e) # 0
    PROVE  e.of \in set /\ IsNumber(fields[e.of])
BY DEF LenField, IsNumber

LEMMA DynamicTailFits ==
    ASSUME NEW fields, NEW c, Filled(fields, c), NEW lay, lay.region = Len(fields), Len(fields) > 0,
           fields[lay.region].kind = "arr",
           LenField(fields, {PrefixRun(fields, lay.region)[k] : k \in 1 .. Len(PrefixRun(fields, lay.region))},
                    fields[lay.region].len) # 0
    PROVE  /\ Contained(DynamicTailPlan(fields, c, lay))
           /\ DynamicTailPlan(fields, c, lay).stores # <<>>
<1> DEFINE i == lay.region
           e == fields[i].len
           run == PrefixRun(fields, i)
           at == RunBytes(fields, run)
           v == c[i]
           len == LenPlan(fields, run, e, Len(v))
           front == len.stores \o RunStores(fields, c, run, {e.of})
<1>1. Sized(fields) /\ i \in 1 .. Len(fields) /\ i - 1 \in 0 .. Len(fields) /\ (i - 1) + 1 = i
      /\ Len(fields) + 1 \in 1 .. Len(fields) + 1
  BY FilledSized DEF Filled, Sized
<1>2. RunStores(fields, c, run, {e.of}) \in Within(at) /\ at \in Nat
  BY <1>1, FilledPrefix
<1>3. run \in Seq(1 .. Len(fields))
  BY <1>1, OffsetPrefix
<1>4. fields[i] \in Items /\ FieldHolds(fields[i], c[i])
  BY <1>1, FilledSized DEF Filled
<1>5. v \in Bytes
  BY <1>4 DEF FieldHolds
<1>6. e \in Exprs /\ Len(v) \in Nat
  <2>1. e \in Exprs
    BY <1>4, ItemType
  <2> HIDE DEF v, e
  <2> QED
    BY <1>5, <2>1 DEF Bytes
<1>7. e.of \in {run[k] : k \in 1 .. Len(run)} /\ IsNumber(fields[e.of])
  <2> HIDE DEF run, e
  <2>1. LenField(fields, {run[k] : k \in 1 .. Len(run)}, e) # 0
    BY DEF run, e
  <2> QED
    BY <1>6, <2>1, LenFieldIs
<1>8. PICK p \in 1 .. Len(run) : e.of = run[p] /\ IsNumber(fields[run[p]])
  BY <1>7
<1>9. len.stores \in Within(at) /\ LenError(e, Len(v)) \in Errors
  <2> HIDE DEF e, run, v
  <2> QED
    BY <1>1, <1>3, <1>6, <1>8, LenPlanFits
<1>10. front \in Within(at)
  <2> HIDE DEF len, at, run
  <2> QED
    BY <1>2, <1>9, Concat
<1>11. DynamicTailPlan(fields, c, lay)
         = [Plan(at + Len(v), front \o <<Store(at, v)>>) EXCEPT !.early = LenError(e, Len(v))]
  BY Zenon DEF DynamicTailPlan
<1> HIDE DEF at, v, front, e
<1> QED
  BY <1>2, <1>5, <1>9, <1>10, <1>11, TailFits

\* The same without an error beforehand.
LEMMA OpenTailFits ==
    ASSUME NEW at \in Nat, NEW front \in Within(at), NEW v \in Bytes
    PROVE  /\ Contained(Plan(at + Len(v), front \o <<Store(at, v)>>))
           /\ Plan(at + Len(v), front \o <<Store(at, v)>>).stores # <<>>
<1> DEFINE room == at + Len(v)
           stores == front \o <<Store(at, v)>>
           q == Plan(room, stores)
<1>1. room \in Nat /\ stores \in Within(room) /\ stores # <<>>
  BY TailStores
<1> HIDE DEF room, stores
<1>2. q \in Plans(room) /\ q.used = room /\ q.need = room /\ q.stores = stores
  BY <1>1, PlanFits
<1> HIDE DEF q
<1>3. Contained(q) /\ q.stores # <<>>
  BY <1>1, <1>2 DEF Contained
<1> QED
  BY <1>3 DEF q, room, stores

LEMMA DynamicTailOpenFits ==
    ASSUME NEW fields, NEW c, Filled(fields, c), NEW lay, lay.region = Len(fields), Len(fields) > 0,
           fields[lay.region].kind = "greedy"
    PROVE  Contained(DynamicTailOpenPlan(fields, c, lay))
<1> DEFINE i == lay.region
           run == PrefixRun(fields, i)
           at == RunBytes(fields, run)
           front == RunStores(fields, c, run, {})
<1>1. i \in 1 .. Len(fields) /\ i - 1 \in 0 .. Len(fields) /\ (i - 1) + 1 = i
  BY FilledSized DEF Filled, Sized
<1>2. front \in Within(at) /\ at \in Nat
  BY <1>1, FilledPrefix
<1>3. c[i] \in Bytes
  BY <1>1 DEF Filled, FieldHolds
<1>4. DynamicTailOpenPlan(fields, c, lay) = Plan(at + Len(c[i]), front \o <<Store(at, c[i])>>)
  BY Zenon DEF DynamicTailOpenPlan
<1> HIDE DEF at, front
<1> QED
  BY <1>2, <1>3, <1>4, OpenTailFits

\* A length hook right in front of its region.
LEMMA DynamicTailHookFits ==
    ASSUME NEW fields, NEW c, Filled(fields, c), NEW lay, lay.region = Len(fields),
           lay.hook \in 1 .. Len(fields), lay.region = lay.hook + 1,
           fields[lay.region].kind = "arr", fields[lay.hook].kind = "hook"
    PROVE  /\ Contained(DynamicTailHookPlan(fields, c, lay))
           /\ DynamicTailHookPlan(fields, c, lay).stores # <<>>
<1> DEFINE i == lay.region
           h == lay.hook
           at == RunBytes(fields, PrefixRun(fields, h))
           v == Varint(Cast(Len(c[i])))
           rest == RunStores(fields, c, PrefixRun(fields, i), {})
           front == <<HookStore(at, v)>> \o rest
<1>1. /\ i \in 1 .. Len(fields) /\ h \in 0 .. Len(fields) /\ h + 1 = i
      /\ h - 1 \in 0 .. Len(fields) /\ (h - 1) + 1 = h /\ Sized(fields)
  <2>1. Sized(fields) /\ Len(fields) \in Nat
    BY FilledSized DEF Filled, Sized
  <2> QED
    BY <2>1
<1>2. at = Sum(fields, h - 1) /\ at \in Nat
  BY <1>1, FilledPrefix
<1>3. rest \in Within(Sum(fields, h))
  BY <1>1, FilledPrefix
<1>4. Sum(fields, h) = at
  <2>1. Sum(fields, h) = Sum(fields, h - 1) + Size(fields[h])
    BY <1>1, SumSteps
  <2>2. Size(fields[h]) = 0
    BY DEF Size
  <2> HIDE DEF at, h
  <2> QED
    BY <1>2, <2>1, <2>2
<1>5. c[i] \in Bytes /\ Len(c[i]) \in Nat
  <2>1. c[i] \in Bytes
    BY <1>1 DEF Filled, FieldHolds
  <2> QED
    BY <2>1 DEF Bytes
<1>6. v \in Bytes /\ Len(v) \in Nat
  <2>1. v \in Bytes
    BY <1>5, CastFits, VarintFits
  <2> HIDE DEF v
  <2> QED
    BY <2>1 DEF Bytes
<1> DEFINE to == at + Len(v)
<1>7. DynamicTailHookPlan(fields, c, lay) = Plan(to + Len(c[i]), front \o <<Store(to, c[i])>>)
  <2>1. DynamicTailHookPlan(fields, c, lay)
          = Plan(at + Len(v) + Len(c[i]),
                 <<HookStore(at, v)>> \o rest \o <<Store(at + Len(v), c[i])>>)
    BY Zenon DEF DynamicTailHookPlan
  <2> QED
    BY <2>1
<1> HIDE DEF at, v, rest
<1>8. to \in Nat /\ at <= to
  BY <1>2, <1>6
<1>9. <<HookStore(at, v)>> \in Within(to)
  BY <1>2, <1>6, <1>8, StoreFits, Single
<1>10. rest \in Within(to)
  BY <1>2, <1>3, <1>4, <1>8, WithinGrows
<1>11. front \in Within(to)
  BY <1>9, <1>10, Concat
<1> HIDE DEF to, front
<1> QED
  BY <1>5, <1>7, <1>8, <1>11, OpenTailFits

LEMMA ContentHookFits ==
    ASSUME NEW fields, NEW c, Filled(fields, c), NEW lay, lay.region = Len(fields), Len(fields) > 0,
           c[lay.region] \in 0 .. MaxHooked
    PROVE  /\ Contained(ContentHookPlan(fields, c, lay)) /\ Contained(ContentHookNoWidthPlan(fields, c, lay))
           /\ ContentHookPlan(fields, c, lay).need = ContentHookPlan(fields, c, lay).used
           /\ ContentHookNoWidthPlan(fields, c, lay).stores \in Seq(Counted(ContentHookNoWidthPlan(fields, c, lay)))
<1> DEFINE i == lay.region
           run == PrefixRun(fields, i)
           at == RunBytes(fields, run)
           v == c[i]
           front == RunStores(fields, c, run, {})
           stores == front \o <<HookStore(at, Varint(v))>>
           room == at + Width(v)
<1>1. i \in 1 .. Len(fields) /\ i - 1 \in 0 .. Len(fields) /\ (i - 1) + 1 = i
  BY FilledSized DEF Filled, Sized
<1>2. front \in Within(at) /\ at \in Nat
  BY <1>1, FilledPrefix
<1>3. Varint(v) \in Bytes /\ Len(Varint(v)) = Width(v) /\ Width(v) \in Nat
  BY VarintFits
<1>4. ContentHookPlan(fields, c, lay) = Plan(room, stores)
  BY Zenon DEF ContentHookPlan
<1>5. ContentHookNoWidthPlan(fields, c, lay) = [Plan(room, stores) EXCEPT !.need = at]
  <2>1. MaxHooked \in Nat
    BY BaseAssumption DEF MaxHooked, MaxByte
  <2>2. c[lay.region] <= MaxHooked
    BY <2>1
  <2> QED
    BY <1>4, <2>2 DEF ContentHookNoWidthPlan
<1> HIDE DEF at, v, front
<1>6. room \in Nat /\ at <= room /\ at + Len(Varint(v)) <= room
  BY <1>2, <1>3
<1>7. stores \in Within(room)
  <2>1. HookStore(at, Varint(v)) \in Placed(room)
    BY <1>2, <1>3, <1>6, StoreFits
  <2>2. front \in Within(room)
    BY <1>2, <1>6, WithinGrows
  <2> QED
    BY <2>1, <2>2, Single, Concat
<1> HIDE DEF room, stores
<1> DEFINE p == Plan(room, stores)
           q == [p EXCEPT !.need = at]
<1>8. p \in Plans(room) /\ p.need = room /\ p.used = room
  BY <1>6, <1>7, PlanFits
<1> HIDE DEF p
<1>9. q \in Plans(room) /\ q.need = at /\ q.used = room
  BY <1>2, <1>8 DEF Plans
<1> HIDE DEF q
<1>10. Contained(p) /\ Contained(q)
  BY <1>2, <1>6, <1>8, <1>9 DEF Contained
<1>11. q.stores \in Seq(Counted(q))
  <2>1. ASSUME NEW s \in Placed(at) PROVE s \in Counted(q)
    <3>1. s.at + Len(s.bytes) <= at /\ s \in Placed(room)
      BY <1>2, <1>6, <2>1, WithinGrows DEF Placed
    <3> QED
      BY <1>9, <3>1 DEF Counted
  <2>2. front \in Seq(Counted(q))
    <3>1. \A S, T : S \subseteq T => Seq(S) \subseteq Seq(T)
      OBVIOUS
    <3> QED
      BY <1>2, <2>1, <3>1 DEF Within
  <2>3. HookStore(at, Varint(v)) \in Counted(q)
    <3>1. HookStore(at, Varint(v)) \in Placed(room) /\ HookStore(at, Varint(v)).hook = TRUE
      BY <1>2, <1>3, <1>6, StoreFits DEF HookStore
    <3> QED
      BY <1>9, <3>1 DEF Counted
  <2>4. <<HookStore(at, Varint(v))>> \in Seq(Counted(q))
    BY <2>3
  <2>5. q.stores = stores
    BY DEF q, p, Plan
  <2> QED
    BY <2>2, <2>4, <2>5 DEF stores
<1>12. p.need = p.used
  BY <1>8
<1> QED
  BY <1>4, <1>5, <1>10, <1>11, <1>12 DEF p, q

\* A number that the hook is too narrow for leaves the fields in front of it.
LEMMA NoWidthFits ==
    ASSUME NEW fields, NEW c, Filled(fields, c), NEW lay, lay.region = Len(fields), Len(fields) > 0,
           c[lay.region] \in Nat
    PROVE  /\ Contained(ContentHookNoWidthPlan(fields, c, lay))
           /\ ContentHookNoWidthPlan(fields, c, lay).stores \in Seq(Counted(ContentHookNoWidthPlan(fields, c, lay)))
<1> DEFINE i == lay.region
           run == PrefixRun(fields, i)
           at == RunBytes(fields, run)
           front == RunStores(fields, c, run, {})
           q == [Plan(at, front) EXCEPT !.late = "ValueTooLarge"]
<1>1. CASE c[lay.region] <= MaxHooked
  <2>1. MaxHooked \in Nat
    BY BaseAssumption DEF MaxHooked, MaxByte
  <2>2. c[lay.region] \in 0 .. MaxHooked
    BY <1>1, <2>1
  <2> QED
    BY <2>2, ContentHookFits
<1>2. CASE ~(c[lay.region] <= MaxHooked)
  <2>1. i \in 1 .. Len(fields) /\ i - 1 \in 0 .. Len(fields) /\ (i - 1) + 1 = i
    BY FilledSized DEF Filled, Sized
  <2>2. front \in Within(at) /\ at \in Nat
    BY <2>1, FilledPrefix
  <2>3. ContentHookNoWidthPlan(fields, c, lay) = q
    BY <1>2, Zenon DEF ContentHookNoWidthPlan
  <2> HIDE DEF at, front
  <2>4. q \in Plans(at) /\ q.need = at /\ q.used = at /\ q.stores = front
    BY <2>2 DEF Plans, Plan, Errors
  <2> HIDE DEF q
  <2>5. Contained(q)
    BY <2>2, <2>4 DEF Contained
  <2>6. Counted(q) = Placed(at)
    BY <2>4 DEF Counted, Placed
  <2>7. q.stores \in Seq(Counted(q))
    BY <2>2, <2>4, <2>6 DEF Within
  <2> QED
    BY <2>3, <2>5, <2>7
<1> QED
  BY <1>1, <1>2

\* Records of one size one behind the other.
LEMMA RecordsFit ==
    ASSUME NEW it, it.size \in Nat, NEW at \in Nat, NEW records \in Seq(Bytes),
           \A n \in 1 .. Len(records) : Len(records[n]) = it.size
    PROVE  /\ at + Len(records) * it.size \in Nat /\ at <= at + Len(records) * it.size
           /\ RecordStores(it, at, records) \in Within(at + Len(records) * it.size)
<1> DEFINE size == it.size
           N == Len(records)
           store(n) == Store(at + (n - 1) * it.size, records[n])
<1>1. size \in Nat /\ N \in Nat /\ \A n \in 1 .. N : records[n] \in Bytes /\ Len(records[n]) = size
  OBVIOUS
<1>2. \A a \in Nat, b \in Nat : a * b \in Nat
  OBVIOUS
<1> DEFINE room == at + N * size
<1>3. room \in Nat /\ at <= room
  <2>1. N * size \in Nat
    <3> HIDE DEF N, size
    <3> QED
      BY <1>1, <1>2
  <2> HIDE DEF N, size
  <2> QED
    BY <2>1
<1>4. ASSUME NEW n \in 1 .. N PROVE store(n) \in Placed(room)
  <2> HIDE DEF N
  <2>1. n - 1 \in Nat /\ N - n \in Nat /\ N = (n - 1) + 1 + (N - n)
    BY <1>1
  <2> PICK a \in Nat, b \in Nat : a = n - 1 /\ b = N - n
    BY <2>1
  <2>2. N * size = a * size + size + b * size /\ a * size \in Nat /\ b * size \in Nat
    <3> HIDE DEF size
    <3>1. N = a + 1 + b
      BY <1>1
    <3>2. (a + 1 + b) * size = a * size + size + b * size
      BY <1>1
    <3> QED
      BY <1>1, <1>2, <3>1, <3>2
  <2> DEFINE to == at + a * size
  <2>3. to \in Nat /\ to + size <= room
    <3> HIDE DEF size
    <3> DEFINE x == a * size
               y == b * size
    <3>1. x \in Nat /\ y \in Nat /\ N * size = x + size + y
      BY <2>2
    <3> HIDE DEF x, y
    <3> QED
      BY <1>1, <3>1 DEF x
  <2>4. store(n) = Store(to, records[n])
    OBVIOUS
  <2>5. records[n] \in Bytes /\ Len(records[n]) = size
    BY <1>1
  <2> HIDE DEF to, size, store, room
  <2> QED
    BY <1>1, <1>3, <2>3, <2>4, <2>5, StoreFits
<1>5. RecordStores(it, at, records) = [n \in 1 .. N |-> store(n)]
  BY Zenon DEF RecordStores
<1> HIDE DEF store, room, N
<1>6. RecordStores(it, at, records) \in Within(room)
  BY <1>1, <1>4, <1>5 DEF Within
<1> QED
  BY <1>3, <1>6 DEF room, N

LEMMA FilledRecords ==
    ASSUME NEW fields, NEW c, Filled(fields, c), NEW i \in 1 .. Len(fields), fields[i].kind = "recs"
    PROVE  /\ c[i] \in Seq(Bytes) /\ fields[i].size \in Nat
           /\ \A n \in 1 .. Len(c[i]) : Len(c[i][n]) = fields[i].size
<1>1. fields[i] \in Items /\ FieldHolds(fields[i], c[i])
  BY FilledSized DEF Filled
<1>2. fields[i].size \in Nat
  BY <1>1, ItemType
<1> QED
  BY <1>1, <1>2 DEF FieldHolds

LEMMA GreedyStructTailFits ==
    ASSUME NEW fields, NEW c, Filled(fields, c), NEW lay, lay.region = Len(fields), Len(fields) > 0,
           fields[lay.region].kind = "recs", AllFixed(fields, 1, lay.region - 1)
    PROVE  Contained(GreedyStructTailPlan(fields, c, lay))
<1> DEFINE i == lay.region
           run == Upto(i - 1)
           at == RunBytes(fields, run)
           front == RunStores(fields, c, run, {})
           records == RecordStores(fields[i], at, c[i])
           room == at + Len(c[i]) * fields[i].size
<1>1. i \in 1 .. Len(fields) /\ i - 1 \in 0 .. Len(fields)
  <2>1. Len(fields) \in Nat
    BY FilledSized DEF Filled, Sized
  <2> QED
    BY <2>1
<1>2. \A k \in 1 .. i - 1 : fields[k].kind \in SizedKinds
  BY FixedIsSized DEF AllFixed
<1>3. front \in Within(at) /\ at \in Nat
  <2> HIDE DEF i
  <2> QED
    BY <1>1, <1>2, FilledUpto
<1>4. /\ c[i] \in Seq(Bytes) /\ fields[i].size \in Nat
      /\ \A n \in 1 .. Len(c[i]) : Len(c[i][n]) = fields[i].size
  BY <1>1, FilledRecords
<1>5. room \in Nat /\ at <= room /\ records \in Within(room)
  <2> HIDE DEF at, i
  <2> QED
    BY <1>3, <1>4, RecordsFit
<1>6. GreedyStructTailPlan(fields, c, lay) = Plan(room, front \o records)
  BY Zenon DEF GreedyStructTailPlan
<1> HIDE DEF room, at, front, records
<1>7. front \o records \in Within(room)
  BY <1>3, <1>5, WithinGrows, Concat
<1> DEFINE p == Plan(room, front \o records)
<1>8. p \in Plans(room) /\ p.need = room /\ p.used = room
  BY <1>5, <1>7, PlanFits
<1> HIDE DEF p
<1>9. Contained(p)
  BY <1>5, <1>8 DEF Contained
<1> QED
  BY <1>6, <1>9 DEF p

\* The fields of a branch that are given.
LEMMA BranchFits ==
    ASSUME NEW branch \in Seq(Fields), FieldsWell(branch), NEW values, BranchHolds(branch, values),
           \A i \in 1 .. Len(branch) : FixedField(branch[i]),
           NEW absent, absent = {i \in 1 .. Len(branch) : values[i] = Absent},
           NEW given, given = [i \in 1 .. Len(branch) |-> IF i \in absent THEN 0 ELSE values[i][1]]
    PROVE  /\ RunStores(branch, given, Upto(Len(branch)), absent)
                \in Within(RunBytes(branch, Upto(Len(branch))))
           /\ RunBytes(branch, Upto(Len(branch))) \in Nat
<1>1. branch \in Seq(Items)
  BY FieldsAreItems
<1>2. Sized(branch) /\ Len(branch) \in Nat /\ Len(branch) \in 0 .. Len(branch)
      /\ \A i \in 1 .. Len(branch) : branch[i] \in Items
  BY <1>1, FilledSized DEF Sized
<1>3. /\ Upto(Len(branch)) \in Seq(1 .. Len(branch)) /\ Len(Upto(Len(branch))) = Len(branch)
      /\ \A k \in 1 .. Len(branch) : Upto(Len(branch))[k] = k
  BY <1>2, UptoType
<1>4. ASSUME NEW i \in 1 .. Len(branch), i \notin absent PROVE Writes(branch, given, i)
  <2>1. values[i] # Absent /\ given[i] = values[i][1]
    BY <1>4
  <2>2. FieldHolds(branch[i], given[i]) /\ FieldWell(branch[i], i)
    BY <2>1 DEF BranchHolds, FieldsWell
  <2>3. branch[i] \in Items /\ branch[i].kind \in SizedKinds
    BY <1>2, FixedIsSized
  <2> QED
    BY <2>2, <2>3, FieldWrites DEF Writes
<1>5. RunStores(branch, given, Upto(Len(branch)), absent)
         \in Within(RunBytes(branch, Upto(Len(branch))))
  <2>1. \A p \in 1 .. Len(Upto(Len(branch))) :
           Upto(Len(branch))[p] \notin absent => Writes(branch, given, Upto(Len(branch))[p])
    BY <1>3, <1>4
  <2> DEFINE run == Upto(Len(branch))
  <2>2. run \in Seq(1 .. Len(branch)) /\ \A p \in 1 .. Len(run) : run[p] \notin absent => Writes(branch, given, run[p])
    BY <1>3, <2>1
  <2> HIDE DEF run
  <2>3. RunStores(branch, given, run, absent) \in Within(RunBytes(branch, run))
    BY <1>2, <2>2, RunStoresFit
  <2> QED
    BY <2>3 DEF run
<1> QED
  BY <1>2, <1>5, RunBytesUpto, SumSteps

LEMMA BranchPlanFits ==
    ASSUME NEW fields, NEW c, Filled(fields, c), NEW lay, lay.region = Len(fields), Len(fields) > 0,
           fields[lay.region].kind = "cond", AllFixed(fields, 1, lay.region - 1),
           \A i \in 1 .. Len(fields[lay.region].yes) : FixedField(fields[lay.region].yes[i]),
           \A i \in 1 .. Len(fields[lay.region].no) : FixedField(fields[lay.region].no[i]),
           ItemWell(fields[lay.region], lay.region), ItemHolds(fields[lay.region], c[lay.region])
    PROVE  Contained(BranchPlan(fields, c, lay))
<1> DEFINE r == lay.region
           it == fields[r]
           taken == Taken(it, c)
           branch == IF taken THEN it.yes ELSE it.no
           values == IF taken THEN c[r].yes ELSE c[r].no
           run == Upto(r - 1)
           absent == {i \in 1 .. Len(branch) : values[i] = Absent}
           given == [i \in 1 .. Len(branch) |-> IF i \in absent THEN 0 ELSE values[i][1]]
           at == RunBytes(fields, run)
           size == RunBytes(branch, Upto(Len(branch)))
           front == RunStores(fields, c, run, {})
           rest == RunStores(branch, given, Upto(Len(branch)), absent)
           room == at + size
           stores == front \o Shift(rest, at)
<1>1. r \in 1 .. Len(fields) /\ r - 1 \in 0 .. Len(fields) /\ it \in Items
  <2>1. Len(fields) \in Nat
    BY FilledSized DEF Filled, Sized
  <2>2. r \in 1 .. Len(fields) /\ r - 1 \in 0 .. Len(fields)
    BY <2>1
  <2> QED
    BY <2>2, FilledSized DEF Filled
<1>2. \A k \in 1 .. r - 1 : fields[k].kind \in SizedKinds
  BY FixedIsSized DEF AllFixed
<1>3. front \in Within(at) /\ at \in Nat
  <2> HIDE DEF r
  <2> QED
    BY <1>1, <1>2, FilledUpto
<1>4. it.yes \in Seq(Fields) /\ it.no \in Seq(Fields)
  <2> HIDE DEF it
  <2> QED
    BY <1>1, ItemType
<1>5. FieldsWell(it.yes) /\ FieldsWell(it.no)
      /\ BranchHolds(it.yes, c[r].yes) /\ BranchHolds(it.no, c[r].no)
  BY DEF ItemWell, ItemHolds
<1>6. /\ \A i \in 1 .. Len(it.yes) : FixedField(it.yes[i])
      /\ \A i \in 1 .. Len(it.no) : FixedField(it.no[i])
  OBVIOUS
<1> HIDE DEF taken
<1>7. branch \in Seq(Fields) /\ FieldsWell(branch) /\ BranchHolds(branch, values)
      /\ \A i \in 1 .. Len(branch) : FixedField(branch[i])
  <2> HIDE DEF it, r
  <2>1. CASE taken
    BY <1>4, <1>5, <1>6, <2>1
  <2>2. CASE ~taken
    BY <1>4, <1>5, <1>6, <2>2
  <2> QED
    BY <2>1, <2>2
<1>8. rest \in Within(size) /\ size \in Nat
  <2> HIDE DEF branch, values
  <2>1. absent = {i \in 1 .. Len(branch) : values[i] = Absent}
    OBVIOUS
  <2>2. given = [i \in 1 .. Len(branch) |-> IF i \in absent THEN 0 ELSE values[i][1]]
    OBVIOUS
  <2> HIDE DEF absent, given
  <2> QED
    BY <1>7, <2>1, <2>2, BranchFits
<1>9. BranchPlan(fields, c, lay) = Plan(room, stores)
  BY Zenon DEF BranchPlan, taken
<1> HIDE DEF at, size, front, rest
<1>10. room \in Nat /\ at <= room /\ room = size + at
  BY <1>3, <1>8
<1>11. stores \in Within(room)
  <2>1. Shift(rest, at) \in Within(size + at)
    BY <1>3, <1>8, ShiftFits
  <2>2. Shift(rest, at) \in Within(room)
    BY <1>10, <2>1
  <2> HIDE DEF room
  <2> QED
    BY <1>3, <1>10, <2>2, WithinGrows, Concat
<1> HIDE DEF room, stores
<1> DEFINE p == Plan(room, stores)
<1>12. p \in Plans(room) /\ p.need = room /\ p.used = room
  BY <1>10, <1>11, PlanFits
<1> HIDE DEF p
<1>13. Contained(p)
  BY <1>10, <1>12 DEF Contained
<1> QED
  BY <1>9, <1>13 DEF p
-----------------------------------------------------------------------------
(* A region between fixed fields.                                          *)

\* The fields behind item i.
Behind(fields, i) == [n \in 1 .. Len(fields) - i |-> i + n]

ForwardIn(fields, i) ==
    /\ i \in 1 .. Len(fields)
    /\ fields[i].kind \in {"arr", "ref", "recs"}
    /\ AllFixed(fields, 1, i - 1) /\ AllFixed(fields, i + 1, Len(fields))
    /\ LenField(fields, 1 .. i - 1, fields[i].len) # 0

\* The region's stores, and what ForwardBytes makes of its length.
LEMMA ForwardRegion ==
    ASSUME NEW fields, NEW c, Filled(fields, c), NEW i, ForwardIn(fields, i), NEW at \in Nat
    PROVE  /\ ForwardLens(fields[i], c[i]) \in Nat
           /\ ForwardBytes(fields[i], ForwardLens(fields[i], c[i])) \in Nat
           /\ (IF fields[i].kind = "recs" THEN RecordStores(fields[i], at, c[i]) ELSE <<Store(at, c[i])>>)
                \in Within(at + ForwardBytes(fields[i], ForwardLens(fields[i], c[i])))
           /\ fields[i].kind # "recs" =>
                 c[i] \in Bytes /\ Len(c[i]) = ForwardBytes(fields[i], ForwardLens(fields[i], c[i]))
<1> DEFINE it == fields[i]
           v == c[i]
           n == ForwardLens(it, v)
           size == ForwardBytes(it, n)
<1>1. i \in 1 .. Len(fields) /\ it.kind \in {"arr", "ref", "recs"}
  BY DEF ForwardIn
<1>2. FieldHolds(it, v) /\ it \in Items
  BY <1>1, FilledSized DEF Filled
<1>3. CASE it.kind = "recs"
  <2>1. /\ v \in Seq(Bytes) /\ it.size \in Nat /\ \A k \in 1 .. Len(v) : Len(v[k]) = it.size
    BY <1>1, <1>3, FilledRecords
  <2>2. n = Len(v) /\ size = Len(v) * it.size /\ n \in Nat
    BY <1>3, <2>1 DEF ForwardLens, ForwardBytes
  <2>3. RecordStores(it, at, v) \in Within(at + size)
    <3> HIDE DEF it, v, size
    <3>1. RecordStores(it, at, v) \in Within(at + Len(v) * it.size)
      BY <2>1, RecordsFit
    <3> QED
      BY <2>2, <3>1
  <2>4. size \in Nat
    <3> HIDE DEF it, v, size
    <3>1. \A a \in Nat, b \in Nat : a * b \in Nat
      OBVIOUS
    <3> QED
      BY <2>1, <2>2, <3>1
  <2> HIDE DEF size, n
  <2> QED
    BY <1>3, <2>2, <2>3, <2>4 DEF size, n
<1>4. CASE it.kind # "recs"
  <2>1. v \in Bytes /\ Len(v) \in Nat
    <3>1. v \in Bytes
      BY <1>1, <1>2, <1>4 DEF FieldHolds
    <3> HIDE DEF v
    <3> QED
      BY <3>1 DEF Bytes
  <2>2. n = Len(v)
    BY <1>1, <1>2, <1>4 DEF ForwardLens, FieldHolds
  <2>3. size = n
    BY <1>4 DEF ForwardBytes
  <2> HIDE DEF n, size, it, v
  <2>4. <<Store(at, v)>> \in Within(at + size)
    BY <2>1, <2>2, <2>3, StoreFits, Single
  <2> QED
    BY <1>4, <2>1, <2>2, <2>3, <2>4 DEF size, n, it, v
<1> QED
  BY <1>3, <1>4

LEMMA BehindFits ==
    ASSUME NEW fields, NEW c, Filled(fields, c), NEW i \in 1 .. Len(fields), AllFixed(fields, i + 1, Len(fields))
    PROVE  /\ RunStores(fields, c, Behind(fields, i), {}) \in Within(RunBytes(fields, Behind(fields, i)))
           /\ RunBytes(fields, Behind(fields, i)) \in Nat /\ Behind(fields, i) \in Seq(1 .. Len(fields))
           /\ Len(Behind(fields, i)) = Len(fields) - i
           /\ \A p \in 1 .. Len(fields) - i : Behind(fields, i)[p] = i + p
<1> DEFINE run == Behind(fields, i)
<1>1. Len(fields) \in Nat
  BY FilledSized DEF Filled, Sized
<1>2. Len(run) = Len(fields) - i /\ \A p \in 1 .. Len(fields) - i : run[p] = i + p
  BY <1>1 DEF Behind
<1>3. run \in Seq(1 .. Len(fields))
  BY <1>1 DEF Behind
<1> HIDE DEF run
<1>4. \A p \in 1 .. Len(run) : fields[run[p]].kind \in SizedKinds
  <2> SUFFICES ASSUME NEW p \in 1 .. Len(run) PROVE fields[run[p]].kind \in SizedKinds
    OBVIOUS
  <2>1. run[p] \in i + 1 .. Len(fields)
    BY <1>1, <1>2
  <2> QED
    BY <2>1, FixedIsSized DEF AllFixed
<1> QED
  BY <1>2, <1>3, <1>4, FilledRun DEF run

LEMMA ForwardFits ==
    ASSUME NEW fields, NEW c, Filled(fields, c), NEW lay, ForwardIn(fields, lay.region)
    PROVE  /\ Contained(ForwardPlan(fields, c, lay))
           /\ fields[lay.region].kind # "recs" => ForwardPlan(fields, c, lay).stores # <<>>
<1> DEFINE i == lay.region
           it == fields[i]
           e == it.len
           run == Upto(i - 1)
           at == RunBytes(fields, run)
           n == ForwardLens(it, c[i])
           size == ForwardBytes(it, n)
           after == at + size
           trailer == RunBytes(fields, Behind(fields, i))
           room == after + trailer
           len == LenPlan(fields, run, e, n)
           front == RunStores(fields, c, run, {e.of})
           region == IF it.kind = "recs" THEN RecordStores(it, at, c[i]) ELSE <<Store(at, c[i])>>
           rest == RunStores(fields, c, Behind(fields, i), {})
           stores == len.stores \o front \o region \o Shift(rest, after)
<1>1. /\ Sized(fields) /\ i \in 1 .. Len(fields) /\ i - 1 \in 0 .. Len(fields) /\ it \in Items
      /\ i - 1 \in Nat
  <2>1. Sized(fields) /\ Len(fields) \in Nat /\ i \in 1 .. Len(fields)
    BY FilledSized DEF Filled, Sized, ForwardIn
  <2>2. i - 1 \in 0 .. Len(fields) /\ i - 1 \in Nat
    BY <2>1
  <2> QED
    BY <2>1, <2>2, FilledSized DEF Filled
<1>2. \A k \in 1 .. i - 1 : fields[k].kind \in SizedKinds
  BY FixedIsSized DEF AllFixed, ForwardIn
<1>3. front \in Within(at) /\ at \in Nat
  <2> HIDE DEF i, e
  <2> QED
    BY <1>1, <1>2, FilledUpto
<1>4. n \in Nat /\ size \in Nat /\ region \in Within(after)
  <2> HIDE DEF i, at
  <2> QED
    BY <1>3, ForwardRegion DEF i
<1>5. e \in Exprs
  <2> HIDE DEF it
  <2> QED
    BY <1>1, ItemType
<1>6. len.stores \in Within(at) /\ LenError(e, n) \in Errors
  <2>1. e.of \in 1 .. i - 1 /\ IsNumber(fields[e.of])
    <3> HIDE DEF e, i
    <3>1. LenField(fields, 1 .. i - 1, e) # 0
      BY DEF ForwardIn, e, i
    <3> QED
      BY <1>5, <3>1, LenFieldIs
  <2>2. Len(run) = i - 1 /\ run[e.of] = e.of /\ run \in Seq(1 .. Len(fields))
    <3> HIDE DEF i, e
    <3>1. Len(fields) \in Nat
      BY <1>1 DEF Sized
    <3> QED
      BY <1>1, <2>1, <3>1, UptoType
  <2> HIDE DEF run, e, n
  <2>3. e.of \in 1 .. Len(run) /\ IsNumber(fields[run[e.of]])
    BY <2>1, <2>2
  <2> QED
    BY <1>1, <1>4, <1>5, <2>2, <2>3, LenPlanFits
<1>7. rest \in Within(trailer) /\ trailer \in Nat
  <2>1. AllFixed(fields, i + 1, Len(fields))
    BY DEF ForwardIn
  <2> HIDE DEF i
  <2> QED
    BY <1>1, <2>1, BehindFits
<1>8. ForwardPlan(fields, c, lay) = [Plan(room, stores) EXCEPT !.early = LenError(e, n)]
  BY Zenon DEF ForwardPlan, Behind
<1>9. it.kind # "recs" => region = <<Store(at, c[i])>>
  OBVIOUS
<1> HIDE DEF at, size, trailer, len, front, region, rest, e, n, it
<1>10. room \in Nat /\ after \in Nat /\ at <= after /\ after <= room /\ room = trailer + after
       /\ at <= room
  BY <1>3, <1>4, <1>7
<1>11. Shift(rest, after) \in Within(room)
  <2>1. Shift(rest, after) \in Within(trailer + after)
    <3> HIDE DEF after
    <3> QED
      BY <1>7, <1>10, ShiftFits
  <2> QED
    BY <1>10, <2>1
<1> HIDE DEF after
<1>12. len.stores \in Within(room) /\ front \in Within(room) /\ region \in Within(room)
  <2> HIDE DEF room
  <2>1. Within(at) \subseteq Within(room) /\ Within(after) \subseteq Within(room)
    BY <1>3, <1>10, WithinGrows
  <2> QED
    BY <1>3, <1>4, <1>6, <2>1
<1>13. stores \in Within(room)
  <2> HIDE DEF room
  <2>1. len.stores \o front \in Within(room)
    BY <1>12, Concat
  <2>2. len.stores \o front \o region \in Within(room)
    BY <1>12, <2>1, Concat
  <2> QED
    BY <1>11, <2>2, Concat
<1>14. it.kind # "recs" => stores # <<>>
  <2> HAVE it.kind # "recs"
  <2>1. Len(region) = 1
    BY <1>9
  <2>2. /\ Len(len.stores) \in Nat /\ Len(front) \in Nat /\ Len(Shift(rest, after)) \in Nat
        /\ Len(stores) = Len(len.stores) + Len(front) + Len(region) + Len(Shift(rest, after))
    BY <1>11, <1>12 DEF Within
  <2> QED
    BY <2>1, <2>2
<1> HIDE DEF room, stores
<1> DEFINE q == [Plan(room, stores) EXCEPT !.early = LenError(e, n)]
<1>15. q \in Plans(room) /\ q.used = room /\ q.need = room /\ q.stores = stores
  BY <1>6, <1>10, <1>13 DEF Plans, Plan, Errors
<1> HIDE DEF q
<1>16. Contained(q) /\ (it.kind # "recs" => q.stores # <<>>)
  BY <1>10, <1>14, <1>15 DEF Contained
<1> QED
  BY <1>8, <1>16 DEF q, it
-----------------------------------------------------------------------------
(* Several regions: the segments and what they store.                      *)

Bodies == {"fixed", "dynamic", "skipped", "fails"}
RSegs ==
    [k: {"run"}, fields: Seq(Nat)] \cup [k: {"bytes"}, item: Nat]
      \cup [k: {"union"}, item: Nat, fields: Seq(Nat), bodies: Seq(Bodies)]
RStates == [ok: BOOLEAN, segs: Seq(RSegs), run: Seq(Nat), hooked: BOOLEAN, ended: BOOLEAN]

RSegWell(fields, seg) ==
    /\ seg.k = "run" => FixedRun(fields, Len(fields), seg.fields)
    /\ seg.k = "bytes" => seg.item \in 1 .. Len(fields) /\ fields[seg.item].kind = "hook"
    /\ seg.k = "union" =>
          /\ seg.item \in 1 .. Len(fields) /\ fields[seg.item].kind = "union"
          /\ FixedRun(fields, Len(fields), seg.fields)
          /\ seg.bodies = UnionLayout(fields, fields[seg.item], seg.fields, TRUE)
          /\ seg.bodies # <<>>
          /\ \E p \in 1 .. Len(seg.fields) :
                seg.fields[p] = fields[seg.item].len.of /\ IsNumber(fields[seg.fields[p]])

RGood(fields, n, s) ==
    s.ok => /\ FixedRun(fields, n, s.run)
            /\ \A k \in 1 .. Len(s.segs) : RSegWell(fields, s.segs[k])

LEMMA UnionLayoutType ==
    ASSUME NEW fields, NEW u \in Items, NEW prefix, NEW lenient
    PROVE  UnionLayout(fields, u, prefix, lenient) \in Seq(Bodies)
<1> DEFINE wildcardWritable == Len(u.discs) = 1 /\ fields[u.discs[1]].kind \in {"num", "int"}
           body(m) == IF u.arms[m].error THEN "skipped"
                      ELSE ArmBody(u.arms[m], lenient, wildcardWritable)
           bodies == [m \in 1 .. Len(u.arms) |-> body(m)]
           good == /\ u.discs # <<>>
                   /\ \A d \in 1 .. Len(u.discs) : /\ \E p \in 1 .. Len(prefix) : prefix[p] = u.discs[d]
                                                   /\ IsNumber(fields[u.discs[d]])
<1>1. UnionLayout(fields, u, prefix, lenient) = IF good THEN SomeWritten(bodies) ELSE <<>>
  BY Zenon DEF UnionLayout
<1>2. u.arms \in Seq(Arms)
  BY ItemType
<1>3. \A m \in 1 .. Len(u.arms) : body(m) \in Bodies
  BY DEF ArmBody, Bodies
<1>4. bodies \in Seq(Bodies)
  <2> HIDE DEF body
  <2> QED
    BY <1>2, <1>3
<1>5. SomeWritten(bodies) \in Seq(Bodies) /\ <<>> \in Seq(Bodies)
  <2> HIDE DEF bodies
  <2> QED
    BY <1>4 DEF SomeWritten
<1> HIDE DEF good, bodies
<1> QED
  BY <1>1, <1>5

\* One more segment behind a run, if there is one.
LEMMA RunIfAnyWell ==
    ASSUME NEW fields, NEW segs \in Seq(RSegs), \A k \in 1 .. Len(segs) : RSegWell(fields, segs[k]),
           NEW run, FixedRun(fields, Len(fields), run), run \in Seq(Nat), NEW last \in RSegs, RSegWell(fields, last)
    PROVE  /\ segs \o RunIfAny(run) \o <<last>> \in Seq(RSegs)
           /\ \A k \in 1 .. Len(segs \o RunIfAny(run) \o <<last>>) :
                  RSegWell(fields, (segs \o RunIfAny(run) \o <<last>>)[k])
<1> DEFINE good == {seg \in RSegs : RSegWell(fields, seg)}
<1>1. segs \in Seq(good)
  BY DEF good
<1>2. Run(run) \in good
  BY DEF good, Run, RSegs, RSegWell
<1>3. RunIfAny(run) \in Seq(good)
  <2> HIDE DEF good
  <2> QED
    BY <1>2 DEF RunIfAny
<1>4. last \in good
  OBVIOUS
<1> DEFINE all == segs \o RunIfAny(run) \o <<last>>
<1>5. all \in Seq(good)
  <2> HIDE DEF good
  <2> QED
    BY <1>1, <1>3, <1>4
<1>6. \A q : q \in Seq(good) => q \in Seq(RSegs) /\ \A k \in 1 .. Len(q) : q[k] \in good
  <2>1. good \subseteq RSegs
    OBVIOUS
  <2> HIDE DEF good
  <2> QED
    BY <2>1
<1>7. all \in Seq(RSegs) /\ \A k \in 1 .. Len(all) : all[k] \in good
  <2> HIDE DEF all, good
  <2> QED
    BY <1>5, <1>6
<1> HIDE DEF all
<1>8. all \in Seq(RSegs) /\ \A k \in 1 .. Len(all) : RSegWell(fields, all[k])
  BY <1>7
<1> QED
  BY <1>8 DEF all

LEMMA RegionStepType ==
    ASSUME NEW fields \in Seq(Items), NEW i \in 1 .. Len(fields), NEW s \in RStates
    PROVE  RegionStep(fields, s, fields[i], i) \in RStates
<1> DEFINE it == fields[i]
<1>0. it \in Items /\ i \in Nat
  BY FilledSized
<1>1. s.ok \in BOOLEAN /\ s.segs \in Seq(RSegs) /\ s.run \in Seq(Nat) /\ <<>> \in Seq(Nat)
  BY DEF RStates
<1> DEFINE r == RegionStep(fields, s, it, i)
<1>2. CASE ~s.ok
  BY <1>2 DEF RegionStep
<1>3. CASE s.ok /\ it.kind = "hook"
  <2> DEFINE ok == /\ it.write # "encode, width"
                   /\ \A j \in i + 1 .. Len(fields) :
                          fields[j].kind \in {"union", "ref"} => fields[j].len.of # i
             segs == s.segs \o RunIfAny(s.run) \o <<[k |-> "bytes", item |-> i]>>
  <2>1. r = [s EXCEPT !.ok = ok, !.segs = segs, !.run = <<>>, !.hooked = TRUE]
    BY <1>3, Zenon DEF RegionStep
  <2>2. ok \in BOOLEAN
    OBVIOUS
  <2>3. segs \in Seq(RSegs)
    <3>1. [k |-> "bytes", item |-> i] \in RSegs
      BY <1>0 DEF RSegs
    <3>2. RunIfAny(s.run) \in Seq(RSegs)
      <4>1. Run(s.run) \in RSegs
        BY <1>1 DEF Run, RSegs
      <4> QED
        BY <4>1 DEF RunIfAny
    <3> QED
      BY <1>1, <3>1, <3>2
  <2> HIDE DEF ok, segs, r, it
  <2> DEFINE t == [s EXCEPT !.ok = ok, !.segs = segs, !.run = <<>>]
  <2>4. t \in RStates
    BY <1>1, <2>2, <2>3 DEF RStates
  <2>5. r = [t EXCEPT !.hooked = TRUE]
    BY <2>1
  <2> HIDE DEF t
  <2>6. r \in RStates
    BY <2>4, <2>5 DEF RStates
  <2> QED
    BY <2>6 DEF r, it
<1>4. CASE s.ok /\ it.kind = "union"
  <2> DEFINE bodies == UnionLayout(fields, it, s.run, TRUE)
             ok == /\ i = Len(fields) /\ Plain(it) /\ bodies # <<>>
                   /\ LenField(fields, {s.run[n] : n \in 1 .. Len(s.run)}, it.len) # 0
             seg == [k |-> "union", item |-> i, fields |-> s.run, bodies |-> bodies]
             segs == Append(s.segs, seg)
  <2>1. r = [s EXCEPT !.ok = ok, !.segs = segs, !.run = <<>>, !.ended = TRUE]
    BY <1>4, Zenon DEF RegionStep
  <2>2. ok \in BOOLEAN
    OBVIOUS
  <2>3. segs \in Seq(RSegs)
    <3>1. bodies \in Seq(Bodies)
      BY <1>0, UnionLayoutType
    <3> HIDE DEF bodies, it
    <3>2. seg \in RSegs
      BY <1>0, <1>1, <3>1 DEF RSegs
    <3> HIDE DEF seg
    <3> QED
      BY <1>1, <3>2
  <2> HIDE DEF ok, segs, r, it
  <2> DEFINE t == [s EXCEPT !.ok = ok, !.segs = segs, !.run = <<>>]
  <2>4. t \in RStates
    BY <1>1, <2>2, <2>3 DEF RStates
  <2>5. r = [t EXCEPT !.ended = TRUE]
    BY <2>1
  <2> HIDE DEF t
  <2>6. r \in RStates
    BY <2>4, <2>5 DEF RStates
  <2> QED
    BY <2>6 DEF r, it
<1>5. CASE s.ok /\ it.kind \notin {"hook", "union"}
  <2> DEFINE run == Append(s.run, i)
             ok == FixedField(it)
  <2>1. r = [s EXCEPT !.ok = ok, !.run = run]
    BY <1>5 DEF RegionStep
  <2>2. ok \in BOOLEAN /\ run \in Seq(Nat)
    BY <1>0, <1>1 DEF FixedField
  <2> HIDE DEF ok, run, r, it
  <2>3. r \in RStates
    BY <2>1, <2>2 DEF RStates
  <2> QED
    BY <2>3 DEF r, it
<1> QED
  BY <1>1, <1>2, <1>3, <1>4, <1>5

LEMMA RegionStepGood ==
    ASSUME NEW fields \in Seq(Items), NEW i \in 1 .. Len(fields), NEW s \in RStates,
           RGood(fields, i - 1, s)
    PROVE  RGood(fields, i, RegionStep(fields, s, fields[i], i))
<1> DEFINE it == fields[i]
           r == RegionStep(fields, s, it, i)
<1>0. it \in Items /\ i \in Nat /\ i > 0 /\ i - 1 \in Nat /\ Len(fields) \in Nat /\ i <= Len(fields)
  BY FilledSized
<1>1. s.ok \in BOOLEAN /\ s.segs \in Seq(RSegs) /\ s.run \in Seq(Nat)
      /\ s = [ok |-> s.ok, segs |-> s.segs, run |-> s.run, hooked |-> s.hooked, ended |-> s.ended]
  BY DEF RStates
<1>2. FixedRun(fields, i, <<>>)
  BY DEF FixedRun, Ascending
<1> SUFFICES ASSUME r.ok
             PROVE  FixedRun(fields, i, r.run) /\ \A k \in 1 .. Len(r.segs) : RSegWell(fields, r.segs[k])
  BY DEF RGood
<1>3. CASE ~s.ok
  BY <1>3 DEF RegionStep
<1>4. ASSUME s.ok
      PROVE  /\ FixedRun(fields, i - 1, s.run) /\ FixedRun(fields, i, s.run)
             /\ FixedRun(fields, Len(fields), s.run)
             /\ \A k \in 1 .. Len(s.segs) : RSegWell(fields, s.segs[k])
  <2>1. FixedRun(fields, i - 1, s.run) /\ \A k \in 1 .. Len(s.segs) : RSegWell(fields, s.segs[k])
    BY <1>4 DEF RGood
  <2>2. FixedRun(fields, i, s.run)
    BY <1>0, <2>1, LongerRun
  <2>3. 1 .. i \subseteq 1 .. Len(fields)
    BY <1>0
  <2>4. FixedRun(fields, Len(fields), s.run)
    <3>1. \A S, T : S \subseteq T => Seq(S) \subseteq Seq(T)
      OBVIOUS
    <3> QED
      BY <2>2, <2>3, <3>1 DEF FixedRun
  <2> QED
    BY <2>1, <2>2, <2>4
<1>5. CASE s.ok /\ it.kind = "hook"
  <2> DEFINE ok == /\ it.write # "encode, width"
                   /\ \A j \in i + 1 .. Len(fields) :
                          fields[j].kind \in {"union", "ref"} => fields[j].len.of # i
             last == [k |-> "bytes", item |-> i]
             segs == s.segs \o RunIfAny(s.run) \o <<last>>
  <2>1. r = [s EXCEPT !.ok = ok, !.segs = segs, !.run = <<>>, !.hooked = TRUE]
    BY <1>5, Zenon DEF RegionStep
  <2>2. last \in RSegs /\ RSegWell(fields, last)
    BY <1>0, <1>5 DEF RSegs, RSegWell
  <2> HIDE DEF last
  <2>3. \A k \in 1 .. Len(segs) : RSegWell(fields, segs[k])
    BY <1>1, <1>4, <1>5, <2>2, RunIfAnyWell
  <2> HIDE DEF ok, segs, r
  <2>4. r.run = <<>> /\ r.segs = segs
    BY <1>1, <2>1
  <2> QED
    BY <1>2, <2>3, <2>4
<1>6. CASE s.ok /\ it.kind = "union"
  <2> DEFINE bodies == UnionLayout(fields, it, s.run, TRUE)
             inRun == {s.run[n] : n \in 1 .. Len(s.run)}
             ok == /\ i = Len(fields) /\ Plain(it) /\ bodies # <<>>
                   /\ LenField(fields, inRun, it.len) # 0
             seg == [k |-> "union", item |-> i, fields |-> s.run, bodies |-> bodies]
             segs == Append(s.segs, seg)
  <2>1. r = [s EXCEPT !.ok = ok, !.segs = segs, !.run = <<>>, !.ended = TRUE]
    BY <1>6, Zenon DEF RegionStep
  <2>2. r.run = <<>> /\ r.segs = segs /\ r.ok = ok
    <3> HIDE DEF ok, segs, r
    <3> QED
      BY <1>1, <2>1
  <2>3. bodies # <<>> /\ LenField(fields, inRun, it.len) # 0
    BY <2>2
  <2>4. it.len \in Exprs
    BY <1>0, ItemType
  <2>5. it.len.of \in inRun /\ IsNumber(fields[it.len.of])
    <3> HIDE DEF inRun, it
    <3> QED
      BY <2>3, <2>4, LenFieldIs
  <2>6. \E p \in 1 .. Len(s.run) : s.run[p] = it.len.of /\ IsNumber(fields[s.run[p]])
    <3> HIDE DEF it
    <3> QED
      BY <2>5
  <2>7. RSegWell(fields, seg)
    <3>1. seg.item = i /\ seg.k = "union" /\ seg.fields = s.run /\ seg.bodies = bodies
      OBVIOUS
    <3> HIDE DEF seg
    <3> QED
      BY <1>4, <1>6, <2>3, <2>6, <3>1 DEF RSegWell
  <2> HIDE DEF seg
  <2>8. \A k \in 1 .. Len(segs) : RSegWell(fields, segs[k])
    <3> SUFFICES ASSUME NEW k \in 1 .. Len(segs) PROVE RSegWell(fields, segs[k])
      OBVIOUS
    <3>1. Len(segs) = Len(s.segs) + 1 /\ segs[Len(s.segs) + 1] = seg
          /\ (k <= Len(s.segs) => segs[k] = s.segs[k])
      BY <1>1
    <3> HIDE DEF segs
    <3>2. CASE k = Len(s.segs) + 1
      BY <2>7, <3>1, <3>2
    <3>3. CASE k # Len(s.segs) + 1
      <4>1. Len(s.segs) \in Nat
        BY <1>1
      <4>2. k \in 1 .. Len(s.segs)
        BY <3>1, <3>3, <4>1
      <4> QED
        BY <1>4, <1>6, <3>1, <4>2
    <3> QED
      BY <3>2, <3>3
  <2> HIDE DEF segs, r
  <2> QED
    BY <1>2, <2>2, <2>8
<1>7. CASE s.ok /\ it.kind \notin {"hook", "union"}
  <2> DEFINE run == Append(s.run, i)
             ok == FixedField(it)
  <2>1. r = [s EXCEPT !.ok = ok, !.run = run]
    BY <1>7 DEF RegionStep
  <2>2. ok => FixedRun(fields, i, run)
    BY <1>0, <1>4, <1>7, LongerRun
  <2> HIDE DEF ok, run, r
  <2>3. r.run = run /\ r.segs = s.segs /\ r.ok = ok
    BY <1>1, <2>1
  <2> QED
    BY <1>4, <1>7, <2>2, <2>3
<1> QED
  BY <1>1, <1>3, <1>5, <1>6, <1>7

RStart == [ok |-> TRUE, segs |-> <<>>, run |-> <<>>, hooked |-> FALSE, ended |-> FALSE]
RFold(fields, f) ==
    f = [n \in 0 .. Len(fields) |->
            IF n = 0 THEN RStart ELSE RegionStep(fields, f[n - 1], fields[n], n)]

LEMMA MultiRegionWell ==
    ASSUME NEW fields \in Seq(Items), MultiRegion(fields) # None
    PROVE  /\ MultiRegion(fields).shape = "MultiRegion" /\ MultiRegion(fields).segs \in Seq(RSegs)
           /\ \A k \in 1 .. Len(MultiRegion(fields).segs) : RSegWell(fields, MultiRegion(fields).segs[k])
<1> DEFINE step == [p \in (1 .. Len(fields)) \X RStates |->
                      RegionStep(fields, p[2], fields[p[1]], p[1])]
           end(s) == IF s.ok /\ s.hooked /\ s.ended
                     THEN [shape |-> "MultiRegion", segs |-> s.segs] ELSE None
<1>1. Len(fields) \in Nat
  OBVIOUS
<1>2. PICK t : Recursion(t, Len(fields), RStart, step)
  BY <1>1, RecursionExists
<1>3. \A n \in 1 .. Len(fields), x \in RStates :
          /\ step[<<n, x>>] = RegionStep(fields, x, fields[n], n)
          /\ step[<<n, x>>] \in RStates
  BY RegionStepType
<1>4. RStart \in RStates /\ RGood(fields, 0, RStart)
  <2>1. <<>> \in Seq(RSegs) /\ <<>> \in Seq(Nat) /\ Len(<<>>) = 0
    OBVIOUS
  <2>2. RStart \in RStates
    BY <2>1 DEF RStart, RStates
  <2>3. FixedRun(fields, 0, <<>>)
    BY <2>1 DEF FixedRun, Ascending
  <2> QED
    BY <2>1, <2>2, <2>3 DEF RGood, RStart
<1>5. \A n \in 0 .. Len(fields) : t[n] \in RStates
  <2> HIDE DEF step
  <2> QED
    BY <1>1, <1>2, <1>3, <1>4, RecursionIn
<1> HIDE DEF step
<1>6. \E f : RFold(fields, f)
  <2>1. ASSUME NEW n \in 0 .. Len(fields)
        PROVE  t[n] = IF n = 0 THEN RStart ELSE RegionStep(fields, t[n - 1], fields[n], n)
    <3>1. t[n] = IF n = 0 THEN RStart ELSE step[<<n, t[n - 1]>>]
      BY <1>2 DEF Recursion
    <3>2. n # 0 => n \in 1 .. Len(fields) /\ n - 1 \in 0 .. Len(fields)
      BY <1>1
    <3> QED
      BY <1>3, <1>5, <3>1, <3>2
  <2>2. t = [n \in 0 .. Len(fields) |-> t[n]]
    BY <1>2 DEF Recursion
  <2>3. RFold(fields, t)
    BY <2>1, <2>2 DEF RFold
  <2> QED
    BY <2>3
<1>7. PICK f : RFold(fields, f) /\ MultiRegion(fields) = end(f[Len(fields)])
  BY <1>6, Zenon DEF MultiRegion, FoldItems, RFold, RStart
<1> DEFINE P == {n \in 0 .. Len(fields) : f[n] \in RStates /\ RGood(fields, n, f[n])}
<1>8. 0 \in P
  BY <1>1, <1>4, <1>7 DEF RFold
<1>9. ASSUME NEW n \in 0 .. Len(fields), n \in P, n < Len(fields) PROVE n + 1 \in P
  <2>1. n + 1 \in 1 .. Len(fields) /\ n + 1 \in 0 .. Len(fields) /\ n + 1 # 0 /\ (n + 1) - 1 = n
    BY <1>1, <1>9
  <2>2. f[n + 1] = RegionStep(fields, f[n], fields[n + 1], n + 1)
    BY <1>7, <2>1 DEF RFold
  <2>3. f[n] \in RStates /\ RGood(fields, (n + 1) - 1, f[n])
    BY <1>9, <2>1
  <2>4. f[n + 1] \in RStates /\ RGood(fields, n + 1, f[n + 1])
    BY <2>1, <2>2, <2>3, RegionStepType, RegionStepGood
  <2> QED
    BY <2>1, <2>4
<1> HIDE DEF P
<1>10. \A n \in 0 .. Len(fields) : n \in P
  BY <1>1, <1>8, <1>9, InductUpto
<1>11. f[Len(fields)] \in RStates /\ RGood(fields, Len(fields), f[Len(fields)])
  BY <1>1, <1>10 DEF P
<1> DEFINE s == f[Len(fields)]
<1> HIDE DEF s
<1>12. s.ok /\ MultiRegion(fields) = [shape |-> "MultiRegion", segs |-> s.segs]
  BY <1>7 DEF s
<1>13. s.segs \in Seq(RSegs) /\ \A k \in 1 .. Len(s.segs) : RSegWell(fields, s.segs[k])
  BY <1>11, <1>12 DEF s, RGood, RStates
<1> QED
  BY <1>12, <1>13

\* A struct and a content of it.
Whole(fields, c) ==
    /\ StructWell(fields) /\ DOMAIN c = 1 .. Len(fields)
    /\ \A i \in 1 .. Len(fields) : ItemHolds(fields[i], c[i])

LEMMA WholeFilled ==
    ASSUME NEW fields, NEW c, Whole(fields, c)
    PROVE  /\ Filled(fields, c) /\ fields \in Seq(Items)
           /\ \A i \in 1 .. Len(fields) : ItemWell(fields[i], i) /\ ItemHolds(fields[i], c[i])
<1>1. /\ fields \in Seq(Items)
      /\ \A i \in 1 .. Len(fields) : ItemWell(fields[i], i) /\ ItemHolds(fields[i], c[i])
  BY DEF Whole, StructWell
<1>2. ASSUME NEW i \in 1 .. Len(fields)
      PROVE  /\ FieldWell(fields[i], i)
             /\ fields[i].kind \notin {"union", "cond"} => FieldHolds(fields[i], c[i])
  <2>1. FieldWell(fields[i], i)
    BY <1>1 DEF ItemWell
  <2>2. ASSUME fields[i].kind \notin {"union", "cond"} PROVE FieldHolds(fields[i], c[i])
    <3>1. ItemHolds(fields[i], c[i]) = FieldHolds(fields[i], c[i])
      BY <2>2 DEF ItemHolds
    <3> QED
      BY <1>1, <3>1
  <2> QED
    BY <2>1, <2>2
<1> QED
  BY <1>1, <1>2 DEF Filled

\* The plan of one segment.
LEMMA RegionFits ==
    ASSUME NEW fields, NEW c, Whole(fields, c), NEW seg \in RSegs, RSegWell(fields, seg), SegmentHolds(fields, c, seg)
    PROVE  /\ RegionNeed(fields, c, seg) \in Nat /\ RegionBytes(fields, c, seg) \in Nat
           /\ RegionNeed(fields, c, seg) <= RegionBytes(fields, c, seg)
           /\ RegionPlan(fields, c, seg) \in Plans(RegionBytes(fields, c, seg))
<1> DEFINE room == RegionBytes(fields, c, seg)
           need == RegionNeed(fields, c, seg)
<1>1. Filled(fields, c) /\ fields \in Seq(Items)
      /\ \A i \in 1 .. Len(fields) : ItemWell(fields[i], i) /\ ItemHolds(fields[i], c[i])
  BY WholeFilled
<1>2. seg.k \in {"run", "bytes", "union"}
  BY DEF RSegs
<1>3. ASSUME NEW run, FixedRun(fields, Len(fields), run)
      PROVE  run \in Seq(1 .. Len(fields))
             /\ \A p \in 1 .. Len(run) : fields[run[p]].kind \in SizedKinds
  BY <1>3, FixedIsSized DEF FixedRun
<1>4. CASE seg.k = "run"
  <2>1. need = RunBytes(fields, seg.fields) /\ room = RunBytes(fields, seg.fields)
        /\ RegionPlan(fields, c, seg) = Plan(0, RunStores(fields, c, seg.fields, {}))
    BY <1>4 DEF RegionNeed, RegionBytes, RegionPlan
  <2>2. FixedRun(fields, Len(fields), seg.fields)
    BY <1>4 DEF RSegWell
  <2>3. RunStores(fields, c, seg.fields, {}) \in Within(RunBytes(fields, seg.fields))
        /\ RunBytes(fields, seg.fields) \in Nat
    BY <1>1, <1>3, <2>2, FilledRun
  <2>4. Plan(0, RunStores(fields, c, seg.fields, {})) \in Plans(RunBytes(fields, seg.fields))
    BY <2>3, PlanFits
  <2> HIDE DEF room, need
  <2>5. need \in Nat /\ room \in Nat /\ need <= room /\ RegionPlan(fields, c, seg) \in Plans(room)
    BY <2>1, <2>3, <2>4
  <2> QED
    BY <2>5 DEF room, need
<1>5. CASE seg.k = "bytes"
  <2> DEFINE v == c[seg.item]
  <2>1. v \in Bytes /\ (fields[seg.item].write = "encode" => Len(v) <= MaxByte)
    BY <1>5 DEF SegmentHolds
  <2>2. Len(v) \in Nat
    <3> HIDE DEF v
    <3> QED
      BY <2>1 DEF Bytes
  <2>3. need = Len(v)
    BY <1>5 DEF RegionNeed
  <2>4. CASE fields[seg.item].write = "encode"
    <3> DEFINE w == Prefixed(v)
    <3>1. room = Len(w) /\ RegionPlan(fields, c, seg) = Plan(0, <<HookStore(0, w)>>)
      BY <1>5, <2>4 DEF RegionBytes, RegionPlan
    <3>2. w \in Bytes /\ Len(w) = Len(v) + 1
      <4> HIDE DEF v
      <4>1. Len(v) \in Byte
        BY <2>1, <2>2, <2>4, BaseAssumption DEF Byte, MaxByte
      <4>2. <<Len(v)>> \in Bytes
        BY <4>1 DEF Bytes
      <4> QED
        BY <2>1, <4>2 DEF Prefixed, Bytes
    <3> HIDE DEF w, room, need, v
    <3>3. Len(w) \in Nat
      BY <2>2, <3>2
    <3>4. HookStore(0, w) \in Placed(Len(w))
      BY <3>2, <3>3, StoreFits
    <3>5. Plan(0, <<HookStore(0, w)>>) \in Plans(Len(w))
      BY <3>4, Single, PlanFits
    <3>6. need \in Nat /\ room \in Nat /\ need <= room /\ RegionPlan(fields, c, seg) \in Plans(room)
      BY <2>2, <2>3, <3>1, <3>2, <3>3, <3>5
    <3> QED
      BY <3>6 DEF room, need
  <2>5. CASE fields[seg.item].write # "encode"
    <3>1. room = need /\ RegionPlan(fields, c, seg) = Plan(0, <<Store(0, v)>>)
      BY <1>5, <2>5 DEF RegionBytes, RegionPlan
    <3> HIDE DEF room, need, v
    <3>2. Store(0, v) \in Placed(Len(v))
      BY <2>1, <2>2, StoreFits
    <3>3. Plan(0, <<Store(0, v)>>) \in Plans(Len(v))
      BY <3>2, Single, PlanFits
    <3>4. need \in Nat /\ room \in Nat /\ need <= room /\ RegionPlan(fields, c, seg) \in Plans(room)
      BY <2>2, <2>3, <3>1, <3>3
    <3> QED
      BY <3>4 DEF room, need
  <2> QED
    BY <2>4, <2>5
<1>6. CASE seg.k = "union"
  <2> DEFINE lay == [region |-> seg.item, prefix |-> seg.fields, bodies |-> seg.bodies]
  <2>1. lay.region = seg.item /\ lay.prefix = seg.fields /\ lay.bodies = seg.bodies
    OBVIOUS
  <2>2. /\ seg.item \in 1 .. Len(fields) /\ fields[seg.item].kind = "union"
        /\ FixedRun(fields, Len(fields), seg.fields)
        /\ seg.bodies = UnionLayout(fields, fields[seg.item], seg.fields, TRUE)
        /\ seg.bodies # <<>>
        /\ \E p \in 1 .. Len(seg.fields) :
              seg.fields[p] = fields[seg.item].len.of /\ IsNumber(fields[seg.fields[p]])
    BY <1>6 DEF RSegWell
  <2>3. UnionHolds(seg.bodies, c[seg.item])
    BY <1>6 DEF SegmentHolds
  <2>4. UnionIn(fields, c, seg.item, seg.fields, seg.bodies)
    <3>1. seg.fields \in Seq(1 .. Len(fields))
          /\ \A p \in 1 .. Len(seg.fields) : fields[seg.fields[p]].kind \in SizedKinds
      BY <1>3, <2>2
    <3>2. TRUE \in BOOLEAN
      OBVIOUS
    <3> QED
      BY <1>1, <2>2, <2>3, <3>1, <3>2 DEF UnionIn
  <2>5. need = RunBytes(fields, seg.fields) + BodyPlan(fields[seg.item], seg.bodies, c[seg.item]).need
        /\ room = need /\ RegionPlan(fields, c, seg) = LenUnionPlan(fields, c, lay)
    BY <1>6, Zenon DEF RegionNeed, RegionBytes, RegionPlan
  <2> HIDE DEF lay
  <2>6. /\ InRoom(LenUnionPlan(fields, c, lay)) /\ LenUnionPlan(fields, c, lay).need \in Nat
        /\ LenUnionPlan(fields, c, lay).need
             = RunBytes(fields, seg.fields) + BodyPlan(fields[seg.item], seg.bodies, c[seg.item]).need
    BY <2>1, <2>2, <2>4, LenUnionPlanFits
  <2> HIDE DEF room, need
  <2>7. need \in Nat /\ room \in Nat /\ need <= room /\ RegionPlan(fields, c, seg) \in Plans(room)
    BY <2>5, <2>6 DEF InRoom
  <2> QED
    BY <2>7 DEF room, need
<1> QED
  BY <1>2, <1>4, <1>5, <1>6

RegionsChain(fields, c, segs, upto) ==
    LET base(n) == Total([k \in 1 .. Len(segs) |-> RegionBytes(fields, c, segs[k])], n - 1)
        need == Total([k \in 1 .. Len(segs) |-> RegionNeed(fields, c, segs[k])], Len(segs))
    IN  upto = [n \in 0 .. Len(segs) |->
                  IF n = 0 THEN Plan(need, <<>>)
                  ELSE Then(upto[n - 1], RegionPlan(fields, c, segs[n]), base(n))]

LEMMA TotalAtMost ==
    ASSUME NEW N \in Nat, NEW f, NEW g, \A k \in 1 .. N : f[k] \in Nat /\ g[k] \in Nat /\ f[k] <= g[k]
    PROVE  Total(f, N) <= Total(g, N)
<1>1. CASE N = 0
  <2>1. Total(f, 0) = 0 /\ Total(g, 0) = 0
    BY TotalSteps
  <2> QED
    BY <1>1, <2>1
<1>2. CASE N # 0
  <2>1. N \in 1 .. N /\ 0 \in Nat /\ f[N] + 0 <= g[N]
    BY <1>2
  <2>2. Total(f, N) + 0 <= Total(g, N)
    BY <2>1, TotalLess
  <2>3. Total(f, N) \in Nat
    <3>1. N \in 0 .. N
      OBVIOUS
    <3> QED
      BY <3>1, TotalSteps
  <2> QED
    BY <2>2, <2>3
<1> QED
  BY <1>1, <1>2

RegionSizes(fields, c, segs) == [k \in 1 .. Len(segs) |-> RegionBytes(fields, c, segs[k])]
RegionNeeds(fields, c, segs) == [k \in 1 .. Len(segs) |-> RegionNeed(fields, c, segs[k])]
RegionParts(fields, c, segs) == [k \in 1 .. Len(segs) |-> RegionPlan(fields, c, segs[k])]

LEMMA RegionsChained ==
    ASSUME NEW fields, NEW c, Whole(fields, c), NEW lay, lay.segs \in Seq(RSegs),
           \A k \in 1 .. Len(lay.segs) : RSegWell(fields, lay.segs[k]) /\ SegmentHolds(fields, c, lay.segs[k]),
           NEW sizes, sizes = RegionSizes(fields, c, lay.segs), NEW needs, needs = RegionNeeds(fields, c, lay.segs),
           NEW parts, parts = RegionParts(fields, c, lay.segs)
    PROVE  /\ \A n \in 1 .. Len(lay.segs) : /\ sizes[n] \in Nat /\ parts[n] \in Plans(sizes[n])
                                            /\ needs[n] \in Nat /\ needs[n] <= sizes[n]
           /\ \A n \in 1 .. Len(lay.segs) : /\ sizes[n] = RegionBytes(fields, c, lay.segs[n])
                                            /\ needs[n] = RegionNeed(fields, c, lay.segs[n])
                                            /\ parts[n] = RegionPlan(fields, c, lay.segs[n])
           /\ \E upto : /\ Chain(parts, sizes, Len(lay.segs), Total(needs, Len(lay.segs)), upto)
                        /\ MultiRegionPlan(fields, c, lay)
                             = [upto[Len(lay.segs)] EXCEPT !.used = Total(sizes, Len(lay.segs))]
<1> DEFINE segs == lay.segs
           N == Len(segs)
           need == Total(needs, N)
           room == Total(sizes, N)
<1>1. N \in Nat /\ (N + 1) - 1 = N /\ N \in 0 .. N /\ \A n \in 1 .. N : segs[n] \in RSegs
  OBVIOUS
<1>9. /\ sizes = [k \in 1 .. N |-> RegionBytes(fields, c, segs[k])]
      /\ needs = [k \in 1 .. N |-> RegionNeed(fields, c, segs[k])]
      /\ parts = [k \in 1 .. N |-> RegionPlan(fields, c, segs[k])]
  BY DEF RegionSizes, RegionNeeds, RegionParts
<1>10. \A n \in 1 .. N : /\ sizes[n] = RegionBytes(fields, c, segs[n])
                         /\ needs[n] = RegionNeed(fields, c, segs[n])
                         /\ parts[n] = RegionPlan(fields, c, segs[n])
  BY <1>9
<1>2. \A n \in 1 .. N : /\ sizes[n] \in Nat /\ parts[n] \in Plans(sizes[n])
                        /\ needs[n] \in Nat /\ needs[n] <= sizes[n]
  <2> SUFFICES ASSUME NEW n \in 1 .. N
               PROVE  /\ sizes[n] \in Nat /\ parts[n] \in Plans(sizes[n])
                      /\ needs[n] \in Nat /\ needs[n] <= sizes[n]
    OBVIOUS
  <2>1. segs[n] \in RSegs /\ RSegWell(fields, segs[n]) /\ SegmentHolds(fields, c, segs[n])
    BY <1>1
  <2> HIDE DEF segs
  <2> QED
    BY <1>10, <2>1, RegionFits
<1>3. need \in Nat /\ room \in Nat /\ need <= room
  <2> HIDE DEF N
  <2> QED
    BY <1>1, <1>2, TotalSteps, TotalAtMost
<1>4. ASSUME NEW upto
      PROVE  RegionsChain(fields, c, segs, upto) <=> Chain(parts, sizes, N, need, upto)
  <2>1. \A n \in 1 .. N : parts[n] = RegionPlan(fields, c, segs[n])
    BY <1>10
  <2>2. RegionsChain(fields, c, segs, upto)
          <=> upto = [n \in 0 .. N |->
                  IF n = 0 THEN Plan(need, <<>>)
                  ELSE Then(upto[n - 1], RegionPlan(fields, c, segs[n]), Total(sizes, n - 1))]
    BY <1>9, Zenon DEF RegionsChain
  <2>3. [n \in 0 .. N |->
                  IF n = 0 THEN Plan(need, <<>>)
                  ELSE Then(upto[n - 1], RegionPlan(fields, c, segs[n]), Total(sizes, n - 1))]
         = [n \in 0 .. N |-> IF n = 0 THEN Plan(need, <<>>)
                             ELSE Then(upto[n - 1], parts[n], Total(sizes, n - 1))]
    <3>1. ASSUME NEW n \in 0 .. N
          PROVE  (IF n = 0 THEN Plan(need, <<>>)
                  ELSE Then(upto[n - 1], RegionPlan(fields, c, segs[n]), Total(sizes, n - 1)))
                 = (IF n = 0 THEN Plan(need, <<>>)
                             ELSE Then(upto[n - 1], parts[n], Total(sizes, n - 1)))
      <4>1. n # 0 => n \in 1 .. N
        OBVIOUS
      <4> HIDE DEF N, need
      <4> QED
        BY <2>1, <4>1
    <3> HIDE DEF N, need
    <3> QED
      BY <3>1
  <2> QED
    BY <2>2, <2>3 DEF Chain
<1>6. ASSUME \E upto : RegionsChain(fields, c, segs, upto)
      PROVE  \E upto : /\ RegionsChain(fields, c, segs, upto)
                       /\ MultiRegionPlan(fields, c, lay)
                            = [upto[Len(segs)] EXCEPT !.used = Total(sizes, (Len(segs) + 1) - 1)]
  BY <1>6, <1>9, Zenon DEF MultiRegionPlan, RegionsChain
<1> HIDE DEF need, N, room
<1>7. \E upto : Chain(parts, sizes, N, need, upto)
  BY <1>1, <1>2, <1>3, ChainFits DEF room
<1>8. PICK upto : /\ RegionsChain(fields, c, segs, upto)
                  /\ MultiRegionPlan(fields, c, lay)
                       = [upto[Len(segs)] EXCEPT !.used = Total(sizes, (Len(segs) + 1) - 1)]
  BY <1>4, <1>6, <1>7
<1>11. Chain(parts, sizes, N, need, upto)
       /\ MultiRegionPlan(fields, c, lay) = [upto[N] EXCEPT !.used = Total(sizes, N)]
  BY <1>1, <1>4, <1>8 DEF N
<1> QED
  BY <1>2, <1>10, <1>11 DEF N, need

LEMMA MultiRegionFits ==
    ASSUME NEW fields, NEW c, Whole(fields, c), NEW lay, lay.segs \in Seq(RSegs),
           \A k \in 1 .. Len(lay.segs) : RSegWell(fields, lay.segs[k]) /\ SegmentHolds(fields, c, lay.segs[k])
    PROVE  /\ Contained(MultiRegionPlan(fields, c, lay))
           /\ MultiRegionPlan(fields, c, lay).used = Total(RegionSizes(fields, c, lay.segs), Len(lay.segs))
           /\ (\A k \in 1 .. Len(lay.segs) :
                 lay.segs[k].k = "bytes" => fields[lay.segs[k].item].write # "encode")
                => MultiRegionPlan(fields, c, lay).need = MultiRegionPlan(fields, c, lay).used
<1> DEFINE segs == lay.segs
           N == Len(segs)
           sizes == RegionSizes(fields, c, segs)
           needs == RegionNeeds(fields, c, segs)
           parts == RegionParts(fields, c, segs)
           need == Total(needs, N)
           room == Total(sizes, N)
<1>1. N \in Nat /\ N \in 0 .. N
  OBVIOUS
<1>2. /\ \A n \in 1 .. N : /\ sizes[n] \in Nat /\ parts[n] \in Plans(sizes[n])
                           /\ needs[n] \in Nat /\ needs[n] <= sizes[n]
      /\ \A n \in 1 .. N : sizes[n] = RegionBytes(fields, c, segs[n]) /\ needs[n] = RegionNeed(fields, c, segs[n])
      /\ \E upto : /\ Chain(parts, sizes, N, need, upto)
                   /\ MultiRegionPlan(fields, c, lay) = [upto[N] EXCEPT !.used = room]
  BY RegionsChained
<1> HIDE DEF sizes, needs, parts
<1>12. ASSUME \A k \in 1 .. N : segs[k].k = "bytes" => fields[segs[k].item].write # "encode"
       PROVE  need = room
  <2>1. \A k \in 1 .. N : sizes[k] = needs[k]
    BY <1>2, <1>12 DEF RegionBytes
  <2> HIDE DEF N
  <2> QED
    BY <1>1, <1>2, <2>1, TotalSame
<1>3. need \in Nat /\ room \in Nat /\ need <= room
  <2> HIDE DEF N
  <2> QED
    BY <1>1, <1>2, TotalSteps, TotalAtMost
<1> HIDE DEF need, N, room
<1>7. \A upto : Chain(parts, sizes, N, need, upto) => upto[N] \in ChainOf(room, need)
  BY <1>1, <1>2, <1>3, ChainFits DEF room
<1>8. PICK upto : /\ Chain(parts, sizes, N, need, upto)
                  /\ MultiRegionPlan(fields, c, lay) = [upto[N] EXCEPT !.used = room]
  BY <1>2
<1> DEFINE p == upto[N]
<1>9. p \in ChainOf(room, need) /\ MultiRegionPlan(fields, c, lay) = [p EXCEPT !.used = room]
  BY <1>7, <1>8
<1> HIDE DEF p
<1> DEFINE q == [p EXCEPT !.used = room]
<1>10. q \in Plans(room) /\ q.need = need /\ q.used = room
  BY <1>3, <1>9 DEF ChainOf, Plans
<1> HIDE DEF q
<1>11. Contained(q)
  BY <1>3, <1>10 DEF Contained
<1>13. (\A k \in 1 .. Len(segs) : segs[k].k = "bytes" => fields[segs[k].item].write # "encode")
          => q.need = q.used
  BY <1>10, <1>12 DEF N
<1> QED
  BY <1>9, <1>10, <1>11, <1>13 DEF q, room, N, sizes, segs

-----------------------------------------------------------------------------
(* What the classification says of the struct, shape by shape.             *)

\* Item i is the last one, behind fields of known size.
LastBehindFixed(fields, i) == i = Len(fields) /\ AllFixed(fields, 1, i - 1)

RunSet(fields, i) == {PrefixRun(fields, i)[k] : k \in 1 .. Len(PrefixRun(fields, i))}

BehindSized(fields, i) == \A j \in 1 .. i - 1 : fields[j].kind \in SizedKinds \cup {"hook"}

Shapes ==
    {"Fixed", "FixedPadded", "DynamicTail", "DynamicTailHook", "DynamicTailOpen", "GreedyStructTail",
     "Conditional", "ContentHook", "ContentHookNoWidth", "Union", "LenUnion", "LenUnionHook",
     "Forward", "MultiRegion"}

LayWell(fields, lay) ==
    /\ fields # <<>> /\ lay.shape \in Shapes
    /\ lay.shape = "Fixed" => \A i \in 1 .. Len(fields) : fields[i].kind \in SizedKinds
    /\ lay.shape = "FixedPadded" => \A i \in 1 .. Len(fields) : PaddedField(fields[i])
    /\ lay.shape = "DynamicTail" =>
          /\ lay.region = Len(fields) /\ fields[lay.region].kind = "arr"
          /\ LenField(fields, RunSet(fields, lay.region), fields[lay.region].len) # 0
          /\ BehindSized(fields, lay.region)
    /\ lay.shape = "DynamicTailHook" =>
          /\ lay.region = Len(fields) /\ fields[lay.region].kind = "arr"
          /\ lay.hook \in 1 .. Len(fields) /\ fields[lay.hook].kind = "hook"
    /\ lay.shape = "DynamicTailOpen" =>
          /\ lay.region = Len(fields) /\ fields[lay.region].kind = "greedy"
          /\ BehindSized(fields, lay.region)
    /\ lay.shape = "GreedyStructTail" =>
          /\ LastBehindFixed(fields, lay.region)
          /\ fields[lay.region].kind = "recs" /\ fields[lay.region].len.of = 0
    /\ lay.shape = "Conditional" =>
          /\ LastBehindFixed(fields, lay.region) /\ fields[lay.region].kind = "cond"
          /\ \A i \in 1 .. Len(fields[lay.region].yes) : FixedField(fields[lay.region].yes[i])
          /\ \A i \in 1 .. Len(fields[lay.region].no) : FixedField(fields[lay.region].no[i])
    /\ lay.shape \in {"ContentHook", "ContentHookNoWidth"} => lay.region = Len(fields)
    /\ lay.shape \in {"Union", "LenUnionHook"} =>
          /\ lay.region = Len(fields) /\ fields[lay.region].kind = "union"
          /\ lay.prefix = PrefixRun(fields, lay.region) /\ lay.bodies # <<>>
          /\ \E lenient \in BOOLEAN :
                lay.bodies = UnionLayout(fields, fields[lay.region], lay.prefix, lenient)
    /\ lay.shape = "LenUnion" =>
          /\ LastBehindFixed(fields, lay.region) /\ fields[lay.region].kind = "union"
          /\ lay.prefix = Upto(lay.region - 1) /\ lay.bodies # <<>>
          /\ LenField(fields, 1 .. lay.region - 1, fields[lay.region].len) # 0
          /\ lay.bodies = UnionLayout(fields, fields[lay.region], lay.prefix, FALSE)
    /\ lay.shape = "Forward" => ForwardIn(fields, lay.region)
    /\ lay.shape = "MultiRegion" =>
          lay.segs \in Seq(RSegs) /\ \A k \in 1 .. Len(lay.segs) : RSegWell(fields, lay.segs[k])

\* The tail of the fall-back.
LEMMA LastItemWell ==
    ASSUME NEW fields \in Seq(Items), fields # <<>>, NEW lay, lay = FallBack(fields), Written(lay)
    PROVE  LayWell(fields, lay)
<1> DEFINE n == Len(fields)
           hook == CHOOSE i \in Hooks(fields) : TRUE
<1>1. /\ lay = LastItem(fields)
      /\ \A i \in 1 .. Len(fields) - 1 : i \in Prefix(fields) \cup Hooks(fields)
  <2>1. None.shape = "none"
    BY DEF None
  <2> QED
    BY <2>1, Zenon DEF FallBack, Written
<1>2. n \in Nat /\ n > 0 /\ n \in 1 .. Len(fields)
  OBVIOUS
<1>3. ASSUME Hooks(fields) # {}
      PROVE  hook \in 1 .. Len(fields) /\ fields[hook].kind = "hook"
  <2>1. hook \in Hooks(fields)
    BY <1>3
  <2> QED
    BY <2>1 DEF Hooks
<1> HIDE DEF hook
<1>4. lay.shape # "none" /\ lay.shape # "MissingWriteHook" /\ None.shape = "none"
      /\ [shape |-> "MissingWriteHook"].shape = "MissingWriteHook"
  BY DEF Written, None
<1>10. BehindSized(fields, n)
  BY <1>1 DEF BehindSized, Prefix, Hooks, SizedKinds
<1>5. CASE fields[n].kind = "greedy"
  <2>1. lay = [shape |-> "DynamicTailOpen", region |-> n]
    BY <1>1, <1>4, <1>5 DEF LastItem, None
  <2>2. lay.shape = "DynamicTailOpen" /\ lay.region = n
    BY <2>1
  <2> QED
    BY <1>5, <1>10, <2>2 DEF LayWell, Shapes
<1>6. CASE fields[n].kind = "arr"
  <2>1. lay = DynamicTail(fields, n)
    BY <1>1, <1>4, <1>6 DEF LastItem, None
  <2>2. CASE Hooks(fields) # {} /\ lay = [shape |-> "DynamicTailHook", region |-> n, hook |-> hook]
    <3>1. lay.shape = "DynamicTailHook" /\ lay.region = n /\ lay.hook = hook
      BY <2>2
    <3> QED
      BY <1>3, <1>6, <2>2, <3>1 DEF LayWell, Shapes
  <2>3. CASE /\ lay = [shape |-> "DynamicTail", region |-> n]
             /\ LenField(fields, RunSet(fields, n), fields[n].len) # 0
    <3>1. lay.shape = "DynamicTail" /\ lay.region = n
      BY <2>3
    <3> QED
      BY <1>6, <1>10, <2>3, <3>1 DEF LayWell, Shapes
  <2>4. \/ Hooks(fields) # {} /\ lay = [shape |-> "DynamicTailHook", region |-> n, hook |-> hook]
        \/ lay = [shape |-> "MissingWriteHook"]
        \/ /\ lay = [shape |-> "DynamicTail", region |-> n]
           /\ LenField(fields, RunSet(fields, n), fields[n].len) # 0
        \/ lay = None
    BY <2>1, Zenon DEF DynamicTail, hook, RunSet
  <2> QED
    BY <1>4, <2>2, <2>3, <2>4
<1>7. CASE fields[n].kind = "union"
  <2> DEFINE run == PrefixRun(fields, n)
             strict == UnionLayout(fields, fields[n], run, FALSE)
             lenient == UnionLayout(fields, fields[n], run, TRUE)
  <2>1. lay = UnionTail(fields, n)
    BY <1>1, <1>4, <1>7 DEF LastItem, None
  <2>2. \/ /\ strict # <<>>
           /\ lay = [shape |-> "Union", region |-> n, prefix |-> run, bodies |-> strict]
        \/ lay = None
        \/ lay = [shape |-> "MissingWriteHook"]
        \/ /\ lenient # <<>>
           /\ lay = [shape |-> "LenUnionHook", region |-> n, hook |-> hook,
                     prefix |-> run, bodies |-> lenient]
    BY <2>1, Zenon DEF UnionTail, hook
  <2>3. TRUE \in BOOLEAN /\ FALSE \in BOOLEAN
    OBVIOUS
  <2>4. /\ strict = UnionLayout(fields, fields[n], run, FALSE)
        /\ lenient = UnionLayout(fields, fields[n], run, TRUE)
        /\ run = PrefixRun(fields, n)
    OBVIOUS
  <2> HIDE DEF run, strict, lenient
  <2>5. CASE /\ strict # <<>>
             /\ lay = [shape |-> "Union", region |-> n, prefix |-> run, bodies |-> strict]
    <3>1. lay.shape = "Union" /\ lay.region = n /\ lay.prefix = run /\ lay.bodies = strict
      BY <2>5
    <3> QED
      BY <1>7, <2>3, <2>4, <2>5, <3>1 DEF LayWell, Shapes
  <2>6. CASE /\ lenient # <<>>
             /\ lay = [shape |-> "LenUnionHook", region |-> n, hook |-> hook,
                       prefix |-> run, bodies |-> lenient]
    <3>1. lay.shape = "LenUnionHook" /\ lay.region = n /\ lay.prefix = run /\ lay.bodies = lenient
      BY <2>6
    <3> QED
      BY <1>7, <2>3, <2>4, <2>6, <3>1 DEF LayWell, Shapes
  <2> QED
    BY <1>4, <2>2, <2>5, <2>6
<1>8. CASE fields[n].kind \in {"num", "int", "bits", "const", "fixed", "multi", "hook"}
  <2>1. lay = IF Hooks(fields) # {} THEN ContentHook(fields) ELSE [shape |-> "Fixed"]
    BY <1>1, <1>8 DEF LastItem
  <2>2. CASE Hooks(fields) = {}
    <3>1. lay.shape = "Fixed"
      BY <2>1, <2>2
    <3>2. ASSUME NEW i \in 1 .. Len(fields) PROVE fields[i].kind \in SizedKinds
      <4>1. CASE i = n
        <5>1. fields[i].kind # "hook"
          BY <2>2 DEF Hooks
        <5> QED
          BY <1>8, <4>1, <5>1 DEF SizedKinds
      <4>2. CASE i # n
        <5>1. i \in Prefix(fields)
          BY <1>1, <2>2, <4>2
        <5> QED
          BY <5>1 DEF Prefix, SizedKinds
      <4> QED
        BY <4>1, <4>2
    <3> QED
      BY <3>1, <3>2 DEF LayWell, Shapes
  <2>3. CASE Hooks(fields) # {}
    <3>1. lay = ContentHook(fields)
      BY <2>1, <2>3
    <3>2. \/ lay = [shape |-> "MissingWriteHook"] \/ lay = None
          \/ hook = n /\ lay = [shape |-> "ContentHook", region |-> hook]
          \/ hook = n /\ lay = [shape |-> "ContentHookNoWidth", region |-> hook]
      BY <3>1 DEF ContentHook, hook
    <3>3. hook = n /\ lay.region = n /\ lay.shape \in {"ContentHook", "ContentHookNoWidth"}
      BY <1>4, <3>2
    <3> QED
      BY <3>3 DEF LayWell, Shapes
  <2> QED
    BY <2>2, <2>3
<1>9. CASE fields[n].kind \notin {"greedy", "arr", "union", "num", "int", "bits", "const", "fixed", "multi", "hook"}
  BY <1>1, <1>4, <1>9 DEF LastItem
<1> QED
  BY <1>5, <1>6, <1>7, <1>8, <1>9

LEMMA ClassifiedWell ==
    ASSUME NEW fields \in Seq(Items), NEW lay, lay = Classify(fields), Written(lay)
    PROVE  LayWell(fields, lay)
<1> DEFINE n == Len(fields)
           tries == Attempts(fields)
           fitting == {k \in 1 .. Len(tries) : tries[k] # None}
           least == CHOOSE k \in fitting : \A j \in fitting : k <= j
<1>1. lay # None /\ lay.shape # "none"
  BY DEF Written, None
<1>2. fields # <<>> /\ lay = FirstFitting(tries)
  BY <1>1, Zenon DEF Classify
<1>3. fitting # {} /\ lay = tries[least]
  BY <1>1, <1>2, Zenon DEF FirstFitting
<1>4. least \in fitting
  <2>1. fitting \subseteq Nat
    OBVIOUS
  <2> QED
    BY <1>3, <2>1, LeastOf, Zenon
<1>5. /\ Len(tries) = 7
      /\ tries[1] = GreedyStructTail(fields) /\ tries[2] = Conditional(fields)
      /\ tries[3] = Forward(fields) /\ tries[4] = LenUnion(fields)
      /\ tries[5] = MultiRegion(fields) /\ tries[6] = FixedPadded(fields)
      /\ tries[7] = FallBack(fields)
  BY DEF Attempts
<1> HIDE DEF tries, least
<1>6. least \in 1 .. 7 /\ tries[least] # None
  BY <1>4, <1>5
<1>7. n \in Nat /\ n > 0 /\ n = Len(fields)
  BY <1>2
<1>8. CASE least = 1
  <2>1. /\ fields[n].kind = "recs" /\ fields[n].len.of = 0 /\ AllFixed(fields, 1, n - 1)
        /\ lay = [shape |-> "GreedyStructTail", region |-> n]
    BY <1>1, <1>3, <1>5, <1>8, Zenon DEF GreedyStructTail
  <2>2. lay.shape = "GreedyStructTail" /\ lay.region = n
    BY <2>1
  <2> QED
    BY <1>2, <2>1, <2>2 DEF LayWell, Shapes, LastBehindFixed
<1>9. CASE least = 2
  <2>1. /\ fields[n].kind = "cond" /\ AllFixed(fields, 1, n - 1)
        /\ \A i \in 1 .. Len(fields[n].yes) : FixedField(fields[n].yes[i])
        /\ \A i \in 1 .. Len(fields[n].no) : FixedField(fields[n].no[i])
        /\ lay = [shape |-> "Conditional", region |-> n]
    BY <1>1, <1>3, <1>5, <1>9, Zenon DEF Conditional
  <2>2. lay.shape = "Conditional" /\ lay.region = n
    BY <2>1
  <2> QED
    BY <1>2, <2>1, <2>2 DEF LayWell, Shapes, LastBehindFixed
<1>10. CASE least = 3
  <2> DEFINE regions == {i \in 1 .. Len(fields) :
                           /\ fields[i].kind \in {"arr", "ref", "recs"} /\ fields[i].len.of # 0
                           /\ Plain(fields[i]) /\ Affine(fields[i].len)}
             r == CHOOSE i \in regions : \A j \in regions : i <= j
  <2>1. /\ regions # {} /\ AllFixed(fields, 1, r - 1) /\ AllFixed(fields, r + 1, Len(fields))
        /\ LenField(fields, 1 .. r - 1, fields[r].len) # 0
        /\ lay = [shape |-> "Forward", region |-> r]
    BY <1>1, <1>3, <1>5, <1>10, Zenon DEF Forward
  <2>2. r \in regions
    <3>1. regions \subseteq Nat
      OBVIOUS
    <3> HIDE DEF regions
    <3> QED
      BY <2>1, <3>1, LeastOf, Zenon
  <2> HIDE DEF r
  <2>3. r \in 1 .. Len(fields) /\ fields[r].kind \in {"arr", "ref", "recs"}
    BY <2>2
  <2>4. lay.shape = "Forward" /\ lay.region = r
    BY <2>1
  <2>5. ForwardIn(fields, r)
    BY <2>1, <2>3 DEF ForwardIn
  <2> QED
    BY <1>2, <2>4, <2>5 DEF LayWell, Shapes
<1>11. CASE least = 4
  <2>1. /\ fields[n].kind = "union" /\ AllFixed(fields, 1, n - 1)
        /\ LenField(fields, 1 .. n - 1, fields[n].len) # 0
        /\ UnionLayout(fields, fields[n], Upto(n - 1), FALSE) # <<>>
        /\ lay = [shape |-> "LenUnion", region |-> n, prefix |-> Upto(n - 1),
                  bodies |-> UnionLayout(fields, fields[n], Upto(n - 1), FALSE)]
    BY <1>1, <1>3, <1>5, <1>11, Zenon DEF LenUnion
  <2>2. /\ lay.shape = "LenUnion" /\ lay.region = n /\ lay.prefix = Upto(n - 1)
        /\ lay.bodies = UnionLayout(fields, fields[n], Upto(n - 1), FALSE)
    BY <2>1
  <2> QED
    BY <1>2, <2>1, <2>2 DEF LayWell, Shapes, LastBehindFixed
<1>12. CASE least = 5
  <2>1. lay = MultiRegion(fields) /\ lay # None
    BY <1>1, <1>3, <1>5, <1>12
  <2>2. /\ lay.shape = "MultiRegion" /\ lay.segs \in Seq(RSegs)
        /\ \A k \in 1 .. Len(lay.segs) : RSegWell(fields, lay.segs[k])
    BY <2>1, MultiRegionWell
  <2> QED
    BY <1>2, <2>2 DEF LayWell, Shapes
<1>13. CASE least = 6
  <2>1. /\ \A i \in 1 .. Len(fields) : PaddedField(fields[i])
        /\ lay = [shape |-> "FixedPadded"]
    BY <1>1, <1>3, <1>5, <1>13, Zenon DEF FixedPadded
  <2>2. lay.shape = "FixedPadded"
    BY <2>1
  <2> QED
    BY <1>2, <2>1, <2>2 DEF LayWell, Shapes
<1>14. CASE least = 7
  <2>1. lay = FallBack(fields)
    BY <1>3, <1>5, <1>14
  <2> QED
    BY <1>2, <2>1, LastItemWell
<1> QED
  BY <1>6, <1>8, <1>9, <1>10, <1>11, <1>12, <1>13, <1>14

-----------------------------------------------------------------------------
(* The plan of any struct that has a writer.                               *)

\* The region of DynamicTailHook follows its length hook.
HookInFront(lay) == lay.shape = "DynamicTailHook" => lay.region = lay.hook + 1

\* What may stop a call in front of its first store.
Starts == Errors \cup {"panic"}

LEMMA PanicPlanned ==
    /\ PanicPlan.need = 0 /\ PanicPlan.used = 0 /\ PanicPlan.stores = <<>>
    /\ PanicPlan.early = "panic" /\ PanicPlan.late = "none"
  BY DEF PanicPlan, Plan

\* A conditional whose condition panics.
Panicking(fields, c, lay) ==
    /\ lay.shape = "Conditional" /\ ConditionPanics(fields[lay.region], c)
    /\ WritePlan(fields, c, lay) = PanicPlan

LEMMA PlansContained ==
    ASSUME NEW fields, NEW c, Whole(fields, c), NEW lay, LayWell(fields, lay),
           ShapeHolds(fields, c, lay), HookInFront(lay)
    PROVE  /\ Contained(WritePlan(fields, c, lay)) \/ Panicking(fields, c, lay)
           /\ (lay.shape \in {"DynamicTail", "DynamicTailHook"}
                 \/ (lay.shape = "Forward" /\ fields[lay.region].kind # "recs"))
                => WritePlan(fields, c, lay).stores # <<>>
<1>1. Filled(fields, c) /\ fields \in Seq(Items)
      /\ \A i \in 1 .. Len(fields) : ItemWell(fields[i], i) /\ ItemHolds(fields[i], c[i])
  BY WholeFilled
<1>2. Len(fields) \in Nat /\ Len(fields) > 0 /\ Sized(fields)
  BY <1>1, FilledSized DEF LayWell
<1>3. CASE lay.shape = "Fixed"
  <2>1. \A i \in 1 .. Len(fields) : fields[i].kind \in SizedKinds
    BY <1>3 DEF LayWell
  <2>2. WritePlan(fields, c, lay) = FixedPlan(fields, c)
    BY <1>3 DEF WritePlan
  <2> QED
    BY <1>1, <1>3, <2>1, <2>2, FixedPlanFits, InRoomContained
<1>4. CASE lay.shape = "FixedPadded"
  <2>1. \A i \in 1 .. Len(fields) : fields[i].kind \in SizedKinds
    BY <1>4 DEF LayWell, PaddedField, SizedKinds
  <2>2. WritePlan(fields, c, lay) = PaddedPlan(fields, c)
    BY <1>4 DEF WritePlan
  <2> QED
    BY <1>1, <1>2, <1>4, <2>1, <2>2, PaddedPlanFits, InRoomContained
<1>5. CASE lay.shape = "DynamicTail"
  <2>1. /\ lay.region = Len(fields) /\ fields[lay.region].kind = "arr"
        /\ LenField(fields, RunSet(fields, lay.region), fields[lay.region].len) # 0
    BY <1>5 DEF LayWell
  <2>2. WritePlan(fields, c, lay) = DynamicTailPlan(fields, c, lay)
    BY <1>5 DEF WritePlan
  <2>3. Contained(DynamicTailPlan(fields, c, lay)) /\ DynamicTailPlan(fields, c, lay).stores # <<>>
    BY <1>1, <1>2, <2>1, DynamicTailFits DEF RunSet
  <2> QED
    BY <2>2, <2>3
<1>6. CASE lay.shape = "DynamicTailHook"
  <2>1. /\ lay.region = Len(fields) /\ fields[lay.region].kind = "arr"
        /\ lay.hook \in 1 .. Len(fields) /\ fields[lay.hook].kind = "hook"
        /\ lay.region = lay.hook + 1
    BY <1>6 DEF LayWell, HookInFront
  <2>2. WritePlan(fields, c, lay) = DynamicTailHookPlan(fields, c, lay)
    BY <1>6 DEF WritePlan
  <2> QED
    BY <1>1, <2>1, <2>2, DynamicTailHookFits
<1>7. CASE lay.shape = "DynamicTailOpen"
  <2>1. lay.region = Len(fields) /\ fields[lay.region].kind = "greedy"
    BY <1>7 DEF LayWell
  <2>2. WritePlan(fields, c, lay) = DynamicTailOpenPlan(fields, c, lay)
    BY <1>7 DEF WritePlan
  <2> QED
    BY <1>1, <1>2, <1>7, <2>1, <2>2, DynamicTailOpenFits
<1>8. CASE lay.shape = "GreedyStructTail"
  <2>1. /\ lay.region = Len(fields) /\ AllFixed(fields, 1, lay.region - 1)
        /\ fields[lay.region].kind = "recs"
    BY <1>8 DEF LayWell, LastBehindFixed
  <2>2. WritePlan(fields, c, lay) = GreedyStructTailPlan(fields, c, lay)
    BY <1>8 DEF WritePlan
  <2> QED
    BY <1>1, <1>2, <1>8, <2>1, <2>2, GreedyStructTailFits
<1>9. CASE lay.shape = "Conditional"
  <2>1. /\ lay.region = Len(fields) /\ AllFixed(fields, 1, lay.region - 1)
        /\ fields[lay.region].kind = "cond"
        /\ \A i \in 1 .. Len(fields[lay.region].yes) : FixedField(fields[lay.region].yes[i])
        /\ \A i \in 1 .. Len(fields[lay.region].no) : FixedField(fields[lay.region].no[i])
    BY <1>9 DEF LayWell, LastBehindFixed
  <2>2. WritePlan(fields, c, lay) = ConditionalPlan(fields, c, lay)
    BY <1>9 DEF WritePlan
  <2>3. ItemWell(fields[lay.region], lay.region) /\ ItemHolds(fields[lay.region], c[lay.region])
    BY <1>1, <1>2, <2>1
  <2>4. Contained(BranchPlan(fields, c, lay))
    BY <1>1, <1>2, <2>1, <2>3, BranchPlanFits
  <2>5. Contained(WritePlan(fields, c, lay)) \/ Panicking(fields, c, lay)
    BY <1>9, <2>2, <2>4 DEF ConditionalPlan, Panicking
  <2> QED
    BY <1>9, <2>5
<1>10. CASE lay.shape \in {"ContentHook", "ContentHookNoWidth"}
  <2>1. lay.region = Len(fields)
    BY <1>10 DEF LayWell
  <2>2. CASE lay.shape = "ContentHook"
    <3>1. c[lay.region] \in 0 .. MaxHooked
      BY <2>2 DEF ShapeHolds
    <3>2. WritePlan(fields, c, lay) = ContentHookPlan(fields, c, lay)
      BY <2>2 DEF WritePlan
    <3> QED
      BY <1>1, <1>2, <2>1, <2>2, <3>1, <3>2, ContentHookFits
  <2>3. CASE lay.shape = "ContentHookNoWidth"
    <3>1. c[lay.region] \in Nat
      BY <2>3 DEF ShapeHolds
    <3>2. WritePlan(fields, c, lay) = ContentHookNoWidthPlan(fields, c, lay)
      BY <2>3 DEF WritePlan
    <3> QED
      BY <1>1, <1>2, <2>1, <2>3, <3>1, <3>2, NoWidthFits
  <2> QED
    BY <1>10, <2>2, <2>3
<1>11. CASE lay.shape \in {"Union", "LenUnionHook"}
  <2>1. /\ lay.region = Len(fields) /\ fields[lay.region].kind = "union"
        /\ lay.prefix = PrefixRun(fields, lay.region) /\ lay.bodies # <<>>
        /\ \E lenient \in BOOLEAN :
              lay.bodies = UnionLayout(fields, fields[lay.region], lay.prefix, lenient)
    BY <1>11 DEF LayWell
  <2>2. /\ lay.prefix \in Seq(1 .. Len(fields))
        /\ \A p \in 1 .. Len(lay.prefix) : fields[lay.prefix[p]].kind \in SizedKinds
    <3>1. PICK m \in 0 .. Len(fields) : m + 1 = lay.region
      <4>1. lay.region - 1 \in 0 .. Len(fields) /\ (lay.region - 1) + 1 = lay.region
        BY <1>2, <2>1
      <4> QED
        BY <4>1
    <3>2. /\ PrefixRun(fields, m + 1) \in Seq(1 .. Len(fields))
          /\ \A p \in 1 .. Len(PrefixRun(fields, m + 1)) : PrefixRun(fields, m + 1)[p] \in Prefix(fields)
      <4>1. 1 \in 1 .. Len(fields) + 1
        BY <1>2
      <4> QED
        BY <1>2, <4>1, OffsetPrefix
    <3>3. lay.prefix = PrefixRun(fields, m + 1)
      BY <2>1, <3>1
    <3> QED
      BY <3>2, <3>3 DEF Prefix, SizedKinds
  <2>3. UnionHolds(lay.bodies, c[lay.region])
    BY <1>11 DEF ShapeHolds
  <2>4. UnionIn(fields, c, lay.region, lay.prefix, lay.bodies)
    BY <1>1, <1>2, <2>1, <2>2, <2>3 DEF UnionIn
  <2>5. \/ WritePlan(fields, c, lay) = UnionPlan(fields, c, lay)
        \/ WritePlan(fields, c, lay) = LenUnionHookPlan(fields, c, lay)
    BY <1>11 DEF WritePlan
  <2> QED
    BY <1>11, <2>4, <2>5, UnionPlanFits, LenUnionHookPlanFits, InRoomContained
<1>12. CASE lay.shape = "LenUnion"
  <2>1. /\ lay.region = Len(fields) /\ AllFixed(fields, 1, lay.region - 1)
        /\ fields[lay.region].kind = "union"
        /\ lay.prefix = Upto(lay.region - 1) /\ lay.bodies # <<>>
        /\ LenField(fields, 1 .. lay.region - 1, fields[lay.region].len) # 0
        /\ lay.bodies = UnionLayout(fields, fields[lay.region], lay.prefix, FALSE)
    BY <1>12 DEF LayWell, LastBehindFixed
  <2>2. PICK m \in 0 .. Len(fields) : m = lay.region - 1
    BY <1>2, <2>1
  <2>3. Upto(m) \in Seq(1 .. Len(fields)) /\ Len(Upto(m)) = m /\ \A k \in 1 .. m : Upto(m)[k] = k
    BY <1>2, UptoType
  <2>4. /\ lay.prefix \in Seq(1 .. Len(fields))
        /\ \A p \in 1 .. Len(lay.prefix) : fields[lay.prefix[p]].kind \in SizedKinds
    BY <2>1, <2>2, <2>3, FixedIsSized DEF AllFixed
  <2>5. UnionHolds(lay.bodies, c[lay.region])
    BY <1>12 DEF ShapeHolds
  <2>6. \E lenient \in BOOLEAN : lay.bodies = UnionLayout(fields, fields[lay.region], lay.prefix, lenient)
    BY <2>1, Zenon
  <2>7. UnionIn(fields, c, lay.region, lay.prefix, lay.bodies)
    <3>1. lay.region \in 1 .. Len(fields)
      BY <1>2, <2>1
    <3> QED
      BY <1>1, <2>1, <2>4, <2>5, <2>6, <3>1, Zenon DEF UnionIn
  <2>8. \E p \in 1 .. Len(lay.prefix) : lay.prefix[p] = fields[lay.region].len.of
                                        /\ IsNumber(fields[lay.prefix[p]])
    <3>1. fields[lay.region] \in Items
      BY <1>1, <1>2, <2>1
    <3>2. fields[lay.region].len \in Exprs
      BY <3>1, ItemType
    <3>3. fields[lay.region].len.of \in 1 .. lay.region - 1 /\ IsNumber(fields[fields[lay.region].len.of])
      BY <2>1, <3>2, LenFieldIs
    <3> QED
      BY <2>1, <2>2, <2>3, <3>3
  <2>9. WritePlan(fields, c, lay) = LenUnionPlan(fields, c, lay)
    BY <1>12 DEF WritePlan
  <2> QED
    BY <1>12, <2>7, <2>8, <2>9, LenUnionPlanFits, InRoomContained
<1>13. CASE lay.shape = "Forward"
  <2>1. ForwardIn(fields, lay.region)
    BY <1>13 DEF LayWell
  <2>2. WritePlan(fields, c, lay) = ForwardPlan(fields, c, lay)
    BY <1>13 DEF WritePlan
  <2> QED
    BY <1>1, <1>13, <2>1, <2>2, ForwardFits
<1>14. CASE lay.shape = "MultiRegion"
  <2>1. lay.segs \in Seq(RSegs) /\ \A k \in 1 .. Len(lay.segs) : RSegWell(fields, lay.segs[k])
    BY <1>14 DEF LayWell
  <2>2. \A k \in 1 .. Len(lay.segs) : SegmentHolds(fields, c, lay.segs[k])
    BY <1>14 DEF ShapeHolds
  <2>3. WritePlan(fields, c, lay) = MultiRegionPlan(fields, c, lay)
    BY <1>14 DEF WritePlan
  <2> QED
    BY <1>14, <2>1, <2>2, <2>3, MultiRegionFits
<1>15. lay.shape \in Shapes
  BY DEF LayWell
<1> QED
  BY <1>3, <1>4, <1>5, <1>6, <1>7, <1>8, <1>9, <1>10, <1>11, <1>12, <1>13, <1>14, <1>15 DEF Shapes

-----------------------------------------------------------------------------
(* Stores, and the bytes they leave alone.                                 *)

\* Buffers like this one, with the same bytes behind room.
Same(bytes, room) ==
    {b \in Bytes : Len(b) = Len(bytes) /\ \A k \in 1 .. Len(bytes) : k > room => b[k] = bytes[k]}

LEMMA StoredSame ==
    ASSUME NEW room \in Nat, NEW bytes \in Bytes, NEW b \in Same(bytes, room), NEW s \in Placed(room)
    PROVE  Stored(b, s) \in Same(bytes, room)
<1>1. /\ b \in Bytes /\ Len(b) = Len(bytes) /\ Len(bytes) \in Nat
      /\ \A k \in 1 .. Len(bytes) : b[k] \in Byte /\ (k > room => b[k] = bytes[k])
  BY DEF Same, Bytes
<1>2. /\ s.at \in Nat /\ s.bytes \in Bytes /\ s.at + Len(s.bytes) <= room
      /\ Len(s.bytes) \in Nat /\ \A k \in 1 .. Len(s.bytes) : s.bytes[k] \in Byte
  BY DEF Placed, Bytes
<1> DEFINE t == Stored(b, s)
<1>3. t = [k \in 1 .. Len(bytes) |->
             IF k > s.at /\ k <= s.at + Len(s.bytes) THEN s.bytes[k - s.at] ELSE b[k]]
  BY <1>1 DEF Stored
<1>4. ASSUME NEW k \in 1 .. Len(bytes)
      PROVE  t[k] \in Byte /\ (k > room => t[k] = bytes[k])
  <2>1. CASE k > s.at /\ k <= s.at + Len(s.bytes)
    <3>1. t[k] = s.bytes[k - s.at]
      BY <1>3, <2>1
    <3>2. k - s.at \in 1 .. Len(s.bytes) /\ ~(k > room)
      BY <1>2, <2>1
    <3> QED
      BY <1>2, <3>1, <3>2
  <2>2. CASE ~(k > s.at /\ k <= s.at + Len(s.bytes))
    <3>1. t[k] = b[k]
      BY <1>3, <2>2
    <3> QED
      BY <1>1, <3>1
  <2> QED
    BY <2>1, <2>2
<1>5. t = [k \in 1 .. Len(bytes) |-> t[k]]
  BY <1>3
<1> HIDE DEF t
<1>6. t \in Bytes /\ Len(t) = Len(bytes)
  BY <1>1, <1>4, <1>5 DEF Bytes
<1>7. t \in Same(bytes, room)
  BY <1>4, <1>6 DEF Same
<1> QED
  BY <1>7 DEF t

StoresOf(bytes, stores, f) ==
    f = [n \in 0 .. Len(stores) |-> IF n = 0 THEN bytes ELSE Stored(f[n - 1], stores[n])]

LEMMA StoredAllSteps ==
    ASSUME NEW room \in Nat, NEW bytes \in Bytes, NEW stores \in Within(room)
    PROVE  \E f : /\ StoresOf(bytes, stores, f) /\ StoredAll(bytes, stores) = f[Len(stores)]
                 /\ \A n \in 0 .. Len(stores) : f[n] \in Same(bytes, room)
<1> DEFINE N == Len(stores)
           S == Same(bytes, room)
           step == [p \in (1 .. N) \X S |-> Stored(p[2], stores[p[1]])]
<1>1. N \in Nat /\ \A n \in 1 .. N : stores[n] \in Placed(room)
  BY DEF Within
<1>2. bytes \in S
  BY DEF Same
<1>3. \A n \in 1 .. N, x \in S : step[<<n, x>>] = Stored(x, stores[n]) /\ step[<<n, x>>] \in S
  <2>1. \A n \in 1 .. N, x \in S : Stored(x, stores[n]) \in S
    BY <1>1, StoredSame
  <2> HIDE DEF S
  <2> QED
    BY <2>1
<1> HIDE DEF S
<1>4. PICK t : Recursion(t, N, bytes, step)
  BY <1>1, RecursionExists
<1>5. \A n \in 0 .. N : t[n] \in S
  <2> HIDE DEF step, N
  <2> QED
    BY <1>1, <1>2, <1>3, <1>4, RecursionIn
<1>6. StoresOf(bytes, stores, t)
  <2>1. ASSUME NEW n \in 0 .. N
        PROVE  t[n] = IF n = 0 THEN bytes ELSE Stored(t[n - 1], stores[n])
    <3>1. t[n] = IF n = 0 THEN bytes ELSE step[<<n, t[n - 1]>>]
      BY <1>4 DEF Recursion
    <3>2. n # 0 => n \in 1 .. N /\ n - 1 \in 0 .. N
      BY <1>1
    <3> HIDE DEF step
    <3> QED
      BY <1>3, <1>5, <3>1, <3>2
  <2>2. t = [n \in 0 .. N |-> t[n]]
    BY <1>4 DEF Recursion
  <2> QED
    BY <2>1, <2>2 DEF StoresOf
<1>7. PICK f : StoresOf(bytes, stores, f) /\ StoredAll(bytes, stores) = f[N]
  BY <1>6, Zenon DEF StoredAll, StoresOf
<1> HIDE DEF step
<1> DEFINE P == {n \in 0 .. N : f[n] \in S}
<1>8. 0 \in P
  BY <1>1, <1>2, <1>7 DEF StoresOf
<1>9. ASSUME NEW n \in 0 .. N, n \in P, n < N PROVE n + 1 \in P
  <2>1. n + 1 \in 1 .. N /\ n + 1 \in 0 .. N /\ n + 1 # 0 /\ (n + 1) - 1 = n
    BY <1>1, <1>9
  <2>2. f[n + 1] = Stored(f[n], stores[n + 1])
    BY <1>7, <2>1 DEF StoresOf
  <2>3. f[n + 1] \in S
    BY <1>1, <1>9, <2>1, <2>2, StoredSame DEF S
  <2> QED
    BY <2>1, <2>3
<1> HIDE DEF P, N
<1>10. \A n \in 0 .. N : n \in P
  BY <1>1, <1>8, <1>9, InductUpto
<1>11. \A n \in 0 .. N : f[n] \in S
  BY <1>10 DEF P
<1> QED
  BY <1>7, <1>11 DEF S, N

LEMMA StoredAllSame ==
    ASSUME NEW room \in Nat, NEW bytes \in Bytes, NEW stores \in Within(room)
    PROVE  StoredAll(bytes, stores) \in Same(bytes, room)
<1>1. Len(stores) \in 0 .. Len(stores)
  BY DEF Within
<1> QED
  BY <1>1, StoredAllSteps

\* Some of the stores, one of them, and all but one.
LEMMA SomeStores ==
    ASSUME NEW T, NEW stores \in Seq(T)
    PROVE  /\ \A set : Those(stores, set) \in Seq(T)
           /\ \A n \in 1 .. Len(stores) : stores[n] \in T /\ Without(stores, n) \in Seq(T)
           /\ stores # <<>> => /\ Head(stores) \in T /\ Tail(stores) \in Seq(T)
                               /\ <<Head(stores)>> \in Seq(T)
                               /\ SubSeq(stores, 2, Len(stores)) \in Seq(T)
           /\ SubSeq(stores, 1, Len(stores)) \in Seq(T)
<1>1. \A set : Those(stores, set) \in Seq(T)
  BY ThoseType
<1>2. ASSUME NEW n \in 1 .. Len(stores)
      PROVE  stores[n] \in T /\ Without(stores, n) \in Seq(T)
  <2>1. SubSeq(stores, 1, n - 1) \in Seq(T) /\ SubSeq(stores, n + 1, Len(stores)) \in Seq(T)
    OBVIOUS
  <2>2. SubSeq(stores, 1, n - 1) \o SubSeq(stores, n + 1, Len(stores)) \in Seq(T)
    BY <2>1
  <2> QED
    BY <2>2 DEF Without
<1>3. stores # <<>> => /\ Head(stores) \in T /\ Tail(stores) \in Seq(T) /\ <<Head(stores)>> \in Seq(T)
                       /\ SubSeq(stores, 2, Len(stores)) \in Seq(T)
  OBVIOUS
<1>4. SubSeq(stores, 1, Len(stores)) \in Seq(T)
  OBVIOUS
<1> QED
  BY <1>1, <1>2, <1>3, <1>4

-----------------------------------------------------------------------------
(* Editing a field: where it is, and how long the packet is.               *)

\* Offsets in the run behind a region.
LEMMA OffsetBehind ==
    ASSUME NEW fields, Sized(fields), NEW r \in 1 .. Len(fields), NEW i \in r + 1 .. Len(fields) + 1
    PROVE  Sum(fields, r) + OffsetIn(fields, Behind(fields, r), i) = Sum(fields, i - 1)
           /\ OffsetIn(fields, Behind(fields, r), i) \in Nat
<1> DEFINE N == Len(fields) - r
           m == i - 1 - r
           g == [n \in 1 .. N |-> IF r + n < i THEN Size(fields[r + n]) ELSE 0]
<1>1. /\ Len(fields) \in Nat /\ r \in Nat /\ i \in Nat /\ N \in Nat /\ m \in 0 .. N /\ m \in Nat
      /\ r + m = i - 1
      /\ \A n \in 1 .. N : r + n \in 1 .. Len(fields) /\ Size(fields[r + n]) \in Nat
  <2>1. Len(fields) \in Nat
    BY DEF Sized
  <2> QED
    BY <2>1 DEF Sized
<1>2. OffsetIn(fields, Behind(fields, r), i) = Total(g, N)
  <2>1. Len(Behind(fields, r)) = N /\ \A n \in 1 .. N : Behind(fields, r)[n] = r + n
    BY <1>1 DEF Behind
  <2>2. [n \in 1 .. Len(Behind(fields, r)) |->
           IF Behind(fields, r)[n] < i THEN Size(fields[Behind(fields, r)[n]]) ELSE 0] = g
    BY <2>1
  <2> QED
    BY <2>1, <2>2 DEF OffsetIn
<1>3. \A n \in 1 .. N : g[n] \in Nat /\ (n > m => g[n] = 0) /\ (n <= m => g[n] = Size(fields[r + n]))
  <2>1. ASSUME NEW n \in 1 .. N
        PROVE  g[n] \in Nat /\ (n > m => g[n] = 0) /\ (n <= m => g[n] = Size(fields[r + n]))
    <3>1. g[n] = IF r + n < i THEN Size(fields[r + n]) ELSE 0
      BY <2>1
    <3>2. Size(fields[r + n]) \in Nat /\ n \in Nat
      BY <1>1
    <3> HIDE DEF g
    <3>3. CASE r + n < i
      <4>1. n <= m /\ ~(n > m)
        BY <1>1, <3>2, <3>3
      <4> QED
        BY <3>1, <3>2, <3>3, <4>1
    <3>4. CASE ~(r + n < i)
      <4>1. ~(n <= m)
        BY <1>1, <3>2, <3>4
      <4> QED
        BY <3>1, <3>4, <4>1
    <3> QED
      BY <3>3, <3>4
  <2> QED
    BY <2>1
<1> HIDE DEF g, N, m
<1>4. Total(g, N) = Total(g, m)
  BY <1>1, <1>3, TotalZeros
<1>5. \A n \in 1 .. m : g[n] \in Nat
  BY <1>1, <1>3
<1>6. /\ Total(g, 0) = 0 /\ \A n \in 0 .. m : Total(g, n) \in Nat
      /\ \A n \in 1 .. m : Total(g, n) = Total(g, n - 1) + g[n]
  BY <1>1, <1>5, TotalSteps
<1> DEFINE P == {n \in 0 .. m : Sum(fields, r) + Total(g, n) = Sum(fields, r + n)}
<1>7. Sum(fields, r) \in Nat /\ r + 0 = r
  BY <1>1, SumSteps
<1>8. 0 \in P
  BY <1>1, <1>6, <1>7
<1>9. ASSUME NEW n \in 0 .. m, n \in P, n < m PROVE n + 1 \in P
  <2>1. n + 1 \in 1 .. m /\ n + 1 \in 1 .. N /\ n + 1 <= m /\ (n + 1) - 1 = n /\ r + (n + 1) \in 1 .. Len(fields)
        /\ (r + (n + 1)) - 1 = r + n /\ n + 1 \in 0 .. m /\ r + n \in 0 .. Len(fields)
    BY <1>1, <1>9 DEF N, m
  <2>2. Total(g, n + 1) = Total(g, n) + Size(fields[r + (n + 1)])
    BY <1>3, <1>6, <2>1
  <2>3. Sum(fields, r + (n + 1)) = Sum(fields, r + n) + Size(fields[r + (n + 1)])
    BY <2>1, SumSteps
  <2>4. Sum(fields, r) + Total(g, n) = Sum(fields, r + n)
    BY <1>9
  <2>5. PICK x \in Nat, y \in Nat, z \in Nat, w \in Nat :
          x = Sum(fields, r) /\ y = Total(g, n) /\ z = Size(fields[r + (n + 1)]) /\ w = Sum(fields, r + n)
    BY <1>1, <1>6, <1>7, <2>1, <1>9, SumSteps DEF Sized
  <2>6. Sum(fields, r) + Total(g, n + 1) = Sum(fields, r + (n + 1))
    BY <2>2, <2>3, <2>4, <2>5
  <2> QED
    BY <2>1, <2>6
<1> HIDE DEF P
<1>10. \A n \in 0 .. m : n \in P
  BY <1>1, <1>8, <1>9, InductUpto
<1>11. Sum(fields, r) + Total(g, m) = Sum(fields, r + m) /\ Total(g, m) \in Nat
  BY <1>1, <1>6, <1>10 DEF P
<1> QED
  BY <1>1, <1>2, <1>4, <1>11

\* The length of a packet that can be edited.
OverUsed(fields, c, lay) ==
    LET i == lay.region
    IN  CASE lay.shape = "Fixed" -> Sum(fields, Len(fields))
          [] lay.shape = "FixedPadded" -> Total(WithPads(fields), Len(fields))
          [] lay.shape \in {"DynamicTail", "DynamicTailOpen"} -> Sum(fields, i - 1) + Len(c[i])
          [] lay.shape = "GreedyStructTail" -> Sum(fields, i - 1) + Len(c[i]) * fields[i].size
          [] lay.shape = "Forward" ->
                Sum(fields, i - 1) + ForwardBytes(fields[i], ForwardLens(fields[i], c[i]))
                  + RunBytes(fields, Behind(fields, i))

LEMMA OverUsedIs ==
    ASSUME NEW fields, NEW c, Filled(fields, c), NEW lay, LayWell(fields, lay), lay.shape \in Over
    PROVE  /\ WritePlan(fields, c, lay).used = OverUsed(fields, c, lay)
           /\ WritePlan(fields, c, lay).need = OverUsed(fields, c, lay)
<1>1. Len(fields) \in Nat /\ Len(fields) > 0 /\ Sized(fields) /\ fields \in Seq(Items)
  BY FilledSized DEF Filled, LayWell
<1>2. ASSUME NEW need, NEW stores, NEW early
      PROVE  /\ Plan(need, stores).need = need /\ Plan(need, stores).used = need
             /\ [Plan(need, stores) EXCEPT !.early = early].need = need
             /\ [Plan(need, stores) EXCEPT !.early = early].used = need
  BY DEF Plan
<1>3. ASSUME lay.region \in 1 .. Len(fields)
      PROVE  /\ RunBytes(fields, Upto(lay.region - 1)) = Sum(fields, lay.region - 1)
             /\ RunBytes(fields, PrefixRun(fields, lay.region)) = Sum(fields, lay.region - 1)
  <2>1. PICK m \in 0 .. Len(fields) : m = lay.region - 1 /\ m + 1 = lay.region
    <3>1. lay.region - 1 \in 0 .. Len(fields) /\ (lay.region - 1) + 1 = lay.region
      BY <1>1, <1>3
    <3> QED
      BY <3>1
  <2> QED
    BY <1>1, <2>1, RunBytesUpto
<1>4. CASE lay.shape = "Fixed"
  <2>1. WritePlan(fields, c, lay) = FixedPlan(fields, c) /\ OverUsed(fields, c, lay) = Sum(fields, Len(fields))
    BY <1>4 DEF WritePlan, OverUsed
  <2>2. RunBytes(fields, Upto(Len(fields))) = Sum(fields, Len(fields))
    BY <1>1, RunBytesUpto
  <2> QED
    BY <1>2, <2>1, <2>2 DEF FixedPlan
<1>5. CASE lay.shape = "FixedPadded"
  <2>1. /\ WritePlan(fields, c, lay) = PaddedPlan(fields, c)
        /\ OverUsed(fields, c, lay) = Total(WithPads(fields), Len(fields))
    BY <1>5 DEF WritePlan, OverUsed
  <2>2. \A i \in 1 .. Len(fields) : fields[i].kind \in SizedKinds
    BY <1>5 DEF LayWell, PaddedField, SizedKinds
  <2>3. PaddedPlan(fields, c).need = Total(WithPads(fields), Len(fields)) /\ InRoom(PaddedPlan(fields, c))
    BY <1>1, <2>2, PaddedPlanFits
  <2> QED
    BY <2>1, <2>3 DEF InRoom
<1>6. CASE lay.shape = "DynamicTail"
  <2>1. /\ WritePlan(fields, c, lay) = DynamicTailPlan(fields, c, lay)
        /\ OverUsed(fields, c, lay) = Sum(fields, lay.region - 1) + Len(c[lay.region])
    BY <1>6 DEF WritePlan, OverUsed
  <2>2. lay.region \in 1 .. Len(fields)
    BY <1>1, <1>6 DEF LayWell
  <2>3. \E stores, early :
          DynamicTailPlan(fields, c, lay)
            = [Plan(RunBytes(fields, PrefixRun(fields, lay.region)) + Len(c[lay.region]), stores) EXCEPT !.early = early]
    BY Zenon DEF DynamicTailPlan
  <2> QED
    BY <1>2, <1>3, <2>1, <2>2, <2>3
<1>7. CASE lay.shape = "DynamicTailOpen"
  <2>1. /\ WritePlan(fields, c, lay) = DynamicTailOpenPlan(fields, c, lay)
        /\ OverUsed(fields, c, lay) = Sum(fields, lay.region - 1) + Len(c[lay.region])
    BY <1>7 DEF WritePlan, OverUsed
  <2>2. lay.region \in 1 .. Len(fields)
    BY <1>1, <1>7 DEF LayWell
  <2>3. \E stores :
          DynamicTailOpenPlan(fields, c, lay)
            = Plan(RunBytes(fields, PrefixRun(fields, lay.region)) + Len(c[lay.region]), stores)
    BY Zenon DEF DynamicTailOpenPlan
  <2> QED
    BY <1>2, <1>3, <2>1, <2>2, <2>3
<1>8. CASE lay.shape = "GreedyStructTail"
  <2>1. /\ WritePlan(fields, c, lay) = GreedyStructTailPlan(fields, c, lay)
        /\ OverUsed(fields, c, lay)
             = Sum(fields, lay.region - 1) + Len(c[lay.region]) * fields[lay.region].size
    BY <1>8 DEF WritePlan, OverUsed
  <2>2. lay.region \in 1 .. Len(fields)
    BY <1>1, <1>8 DEF LayWell, LastBehindFixed
  <2>3. \E stores :
          GreedyStructTailPlan(fields, c, lay)
            = Plan(RunBytes(fields, Upto(lay.region - 1)) + Len(c[lay.region]) * fields[lay.region].size, stores)
    BY Zenon DEF GreedyStructTailPlan
  <2> QED
    BY <1>2, <1>3, <2>1, <2>2, <2>3
<1>9. CASE lay.shape = "Forward"
  <2>1. /\ WritePlan(fields, c, lay) = ForwardPlan(fields, c, lay)
        /\ OverUsed(fields, c, lay)
             = Sum(fields, lay.region - 1)
                 + ForwardBytes(fields[lay.region], ForwardLens(fields[lay.region], c[lay.region]))
                 + RunBytes(fields, Behind(fields, lay.region))
    BY <1>9 DEF WritePlan, OverUsed
  <2>2. lay.region \in 1 .. Len(fields)
    BY <1>1, <1>9 DEF LayWell, ForwardIn
  <2>3. \E stores, early :
          ForwardPlan(fields, c, lay)
            = [Plan(RunBytes(fields, Upto(lay.region - 1))
                      + ForwardBytes(fields[lay.region], ForwardLens(fields[lay.region], c[lay.region]))
                      + RunBytes(fields, Behind(fields, lay.region)), stores)
                 EXCEPT !.early = early]
    BY Zenon DEF ForwardPlan, Behind
  <2> QED
    BY <1>2, <1>3, <2>1, <2>2, <2>3
<1> QED
  BY <1>4, <1>5, <1>6, <1>7, <1>8, <1>9 DEF Over

\* The regions a hook reads are written as they were given, without a length.
RoomCounted(fields, lay) ==
    lay.shape = "MultiRegion" =>
        \A k \in 1 .. Len(lay.segs) :
            lay.segs[k].k = "bytes" => fields[lay.segs[k].item].write # "encode"

\* A union's plan: the fields in front of it, its length, its arm.
Around(stores, before, body, at, n) ==
    [Then(Then(Plan(0, stores), before, 0), body, at) EXCEPT !.need = n, !.used = n]

LEMMA UnionNeeds ==
    ASSUME NEW fields, NEW c, NEW lay
    PROVE  /\ UnionPlan(fields, c, lay).need = UnionPlan(fields, c, lay).used
           /\ LenUnionPlan(fields, c, lay).need = LenUnionPlan(fields, c, lay).used
           /\ LenUnionHookPlan(fields, c, lay).need = LenUnionHookPlan(fields, c, lay).used
<1>1. ASSUME NEW p, NEW q, NEW at PROVE DOMAIN Then(p, q, at) = DOMAIN p
  BY DEF Then
<1>2. ASSUME NEW p, "need" \in DOMAIN p, "used" \in DOMAIN p, NEW n
      PROVE  [p EXCEPT !.need = n, !.used = n].need = [p EXCEPT !.need = n, !.used = n].used
  BY <1>2
<1>3. ASSUME NEW stores PROVE {"need", "used"} \subseteq DOMAIN Plan(0, stores)
  BY DEF Plan
<1>4. ASSUME NEW stores, NEW before, NEW body, NEW at, NEW n
      PROVE  Around(stores, before, body, at, n).need = Around(stores, before, body, at, n).used
  <2> DEFINE q == Then(Then(Plan(0, stores), before, 0), body, at)
  <2>1. {"need", "used"} \subseteq DOMAIN q
    BY <1>1, <1>3
  <2> HIDE DEF q
  <2>2. [q EXCEPT !.need = n, !.used = n].need = [q EXCEPT !.need = n, !.used = n].used
    BY <1>2, <2>1
  <2> QED
    BY <2>2 DEF q, Around
<1>5. UnionPlan(fields, c, lay).need = UnionPlan(fields, c, lay).used
  <2>1. PICK stores, before, body, at, n :
          UnionPlan(fields, c, lay) = Around(stores, before, body, at, n)
    BY Zenon DEF UnionPlan, AroundBody, Around
  <2> QED
    BY <1>4, <2>1
<1>6. LenUnionPlan(fields, c, lay).need = LenUnionPlan(fields, c, lay).used
  <2>1. PICK stores, before, body, at, n :
          LenUnionPlan(fields, c, lay) = Around(stores, before, body, at, n)
    BY Zenon DEF LenUnionPlan, AroundBody, Around
  <2> QED
    BY <1>4, <2>1
<1>7. LenUnionHookPlan(fields, c, lay).need = LenUnionHookPlan(fields, c, lay).used
  <2>1. PICK stores, before, body, at, n :
          LenUnionHookPlan(fields, c, lay) = Around(stores, before, body, at, n)
    BY Zenon DEF LenUnionHookPlan, AroundBody, Around
  <2> QED
    BY <1>4, <2>1
<1> QED
  BY <1>5, <1>6, <1>7

\* A writer asks for all the room that its stores take, but for those of a hook.
LEMMA PlansCounted ==
    ASSUME NEW fields, NEW c, Whole(fields, c), NEW lay, LayWell(fields, lay),
           ShapeHolds(fields, c, lay), HookInFront(lay), RoomCounted(fields, lay)
    PROVE  /\ WritePlan(fields, c, lay).stores \in Seq(Counted(WritePlan(fields, c, lay)))
           /\ lay.shape # "ContentHookNoWidth" =>
                 WritePlan(fields, c, lay).need = WritePlan(fields, c, lay).used
<1> DEFINE p == WritePlan(fields, c, lay)
<1>1. Filled(fields, c) /\ (Contained(p) \/ p = PanicPlan) /\ lay.shape \in Shapes
  BY WholeFilled, PlansContained DEF LayWell, Panicking
<1>2. Len(fields) \in Nat /\ Len(fields) > 0
  BY <1>1, FilledSized DEF LayWell, Filled
<1>3. ASSUME NEW need, NEW stores, p = Plan(need, stores) PROVE p.need = p.used
  BY <1>3 DEF Plan
<1>4. ASSUME lay.shape \in Over PROVE p.need = p.used
  BY <1>1, <1>4, OverUsedIs
<1>5. ASSUME lay.shape = "DynamicTailHook" PROVE p.need = p.used
  <2>1. p = DynamicTailHookPlan(fields, c, lay)
    BY <1>5 DEF WritePlan
  <2>2. PICK need, stores : DynamicTailHookPlan(fields, c, lay) = Plan(need, stores)
    BY Zenon DEF DynamicTailHookPlan
  <2> QED
    BY <1>3, <2>1, <2>2
<1>6. ASSUME lay.shape = "Conditional" PROVE p.need = p.used
  <2>1. p = ConditionalPlan(fields, c, lay)
    BY <1>6 DEF WritePlan
  <2>2. PICK need, stores : BranchPlan(fields, c, lay) = Plan(need, stores)
    BY Zenon DEF BranchPlan
  <2>3. PanicPlan.need = PanicPlan.used /\ Plan(need, stores).need = Plan(need, stores).used
    BY DEF PanicPlan, Plan
  <2> QED
    BY <2>1, <2>2, <2>3 DEF ConditionalPlan
<1>7. ASSUME lay.shape \in {"ContentHook", "ContentHookNoWidth"}
      PROVE  p.need = p.used \/ (lay.shape = "ContentHookNoWidth" /\ p.stores \in Seq(Counted(p)))
  <2>1. lay.region = Len(fields)
    BY <1>7 DEF LayWell
  <2>2. /\ lay.shape = "ContentHook" => c[lay.region] \in 0 .. MaxHooked
        /\ lay.shape = "ContentHookNoWidth" => c[lay.region] \in Nat
    BY DEF ShapeHolds
  <2>3. /\ lay.shape = "ContentHook" =>
              ContentHookPlan(fields, c, lay).need = ContentHookPlan(fields, c, lay).used
        /\ lay.shape = "ContentHookNoWidth" =>
              ContentHookNoWidthPlan(fields, c, lay).stores
                \in Seq(Counted(ContentHookNoWidthPlan(fields, c, lay)))
    BY <1>1, <1>2, <2>1, <2>2, ContentHookFits, NoWidthFits
  <2>4. /\ lay.shape = "ContentHook" => p = ContentHookPlan(fields, c, lay)
        /\ lay.shape = "ContentHookNoWidth" => p = ContentHookNoWidthPlan(fields, c, lay)
    BY DEF WritePlan
  <2> HIDE DEF p
  <2>5. lay.shape = "ContentHook" => p.need = p.used
    BY <2>3, <2>4
  <2>6. lay.shape = "ContentHookNoWidth" => p.stores \in Seq(Counted(p))
    BY <2>3, <2>4
  <2> QED
    BY <1>7, <2>5, <2>6
<1>8. ASSUME lay.shape \in {"Union", "LenUnion", "LenUnionHook"} PROVE p.need = p.used
  BY <1>8, UnionNeeds DEF WritePlan
<1>9. ASSUME lay.shape = "MultiRegion" PROVE p.need = p.used
  <2>1. lay.segs \in Seq(RSegs) /\ \A k \in 1 .. Len(lay.segs) : RSegWell(fields, lay.segs[k])
    BY <1>9 DEF LayWell
  <2>2. \A k \in 1 .. Len(lay.segs) : SegmentHolds(fields, c, lay.segs[k])
    BY <1>9 DEF ShapeHolds
  <2>3. p = MultiRegionPlan(fields, c, lay)
    BY <1>9 DEF WritePlan
  <2>4. \A k \in 1 .. Len(lay.segs) :
           lay.segs[k].k = "bytes" => fields[lay.segs[k].item].write # "encode"
    BY <1>9 DEF RoomCounted
  <2>5. MultiRegionPlan(fields, c, lay).need = MultiRegionPlan(fields, c, lay).used
    BY <2>1, <2>2, <2>4, MultiRegionFits
  <2> QED
    BY <2>3, <2>5
<1>10. p.need = p.used \/ (lay.shape = "ContentHookNoWidth" /\ p.stores \in Seq(Counted(p)))
  BY <1>1, <1>4, <1>5, <1>6, <1>7, <1>8, <1>9 DEF Shapes, Over
<1>11. p.stores \in Seq(Placed(p.used))
  <2>1. CASE Contained(p)
    BY <2>1 DEF Contained, Plans, Within
  <2>2. CASE p = PanicPlan
    <3>1. p.stores = <<>>
      BY <2>2, PanicPlanned
    <3> HIDE DEF p
    <3> QED
      BY <3>1
  <2> QED
    BY <1>1, <2>1, <2>2
<1> HIDE DEF p
<1>12. p.need = p.used => p.stores \in Seq(Counted(p))
  <2> SUFFICES ASSUME p.need = p.used PROVE p.stores \in Seq(Counted(p))
    OBVIOUS
  <2>1. Counted(p) = Placed(p.used)
    BY DEF Counted, Placed
  <2> QED
    BY <1>11, <2>1
<1> QED
  BY <1>10, <1>12 DEF p

\* It depends on the length of the region only.
LEMMA OverUsedSame ==
    ASSUME NEW fields, NEW c, NEW d, NEW lay, lay.shape \in Over,
           lay.shape \notin {"Fixed", "FixedPadded"} => Len(d[lay.region]) = Len(c[lay.region])
    PROVE  OverUsed(fields, d, lay) = OverUsed(fields, c, lay)
  BY DEF OverUsed, ForwardLens, Over

\* The place of a field in an edit lies in the packet: of the fields behind a
\* region this needs that writer_over has found the packet long enough.
LEMMA EditFits ==
    ASSUME Filled(items, content), LayWell(items, layout), layout.shape \in Over,
           NEW i \in 1 .. Len(items), Editable(i), NEW lens,
           layout.shape = "Forward" =>
              /\ lens \in Nat
              /\ Sum(items, Len(items)) + ForwardBytes(items[layout.region], lens)
                   <= OverUsed(items, content, layout)
    PROVE  /\ FieldAt(lens, i) \in Nat /\ Len(FieldBytes(items[i], content[i])) \in Nat
           /\ FieldAt(lens, i) + Len(FieldBytes(items[i], content[i])) <= OverUsed(items, content, layout)
<1> DEFINE n == Len(items)
           L == Len(FieldBytes(items[i], content[i]))
           at == FieldAt(lens, i)
           used == OverUsed(items, content, layout)
           r == layout.region
<1>1. /\ n \in Nat /\ n > 0 /\ Sized(items) /\ items \in Seq(Items) /\ i \in Nat
      /\ \A j \in 1 .. n : items[j] \in Items /\ items[j].size \in Nat
  <2>1. items \in Seq(Items) /\ items # <<>>
    BY DEF Filled, LayWell
  <2>2. n \in Nat /\ n > 0 /\ i \in Nat
    BY <2>1
  <2>3. Sized(items) /\ \A j \in 1 .. n : items[j] \in Items
    BY <2>1, FilledSized
  <2> QED
    BY <2>1, <2>2, <2>3, ItemType
<1>2. /\ items[i].kind \in {"num", "int", "bits", "fixed", "arr", "greedy", "ref"}
      /\ FieldWell(items[i], i) /\ FieldHolds(items[i], content[i])
  BY DEF Editable, Filled
<1>3. items[i].kind \in SizedKinds => L = Size(items[i])
  BY <1>1, <1>2, FieldWrites
<1>4. items[i].kind \notin SizedKinds => L = Len(content[i]) /\ content[i] \in Bytes /\ Len(content[i]) \in Nat
  BY <1>2 DEF FieldHolds, FieldBytes, IsNumber, SizedKinds, Bytes
<1>5. /\ \A m \in 0 .. n : Sum(items, m) \in Nat /\ Sum(items, m) <= Sum(items, n)
      /\ Sum(items, i) = Sum(items, i - 1) + Size(items[i])
      /\ Size(items[i]) \in Nat
  BY <1>1, SumSteps, ItemType
<1>6. \A m \in 1 .. n : \A k \in m .. n : Sum(items, m) <= Sum(items, k)
  <2>1. ASSUME NEW k \in 1 .. n, NEW m \in 1 .. k PROVE Sum(items, m) <= Sum(items, k)
    <3>1. ASSUME NEW j \in 1 .. k PROVE SizesOf(items)[j] \in Nat
      <4>1. j \in 1 .. n
        BY <1>1
      <4>2. Size(items[j]) \in Nat
        BY <1>1, <4>1, ItemType
      <4> QED
        BY <4>1, <4>2 DEF SizesOf
    <3>2. k \in Nat /\ m \in 0 .. k
      BY <2>1
    <3> QED
      BY <3>1, <3>2, TotalGrows DEF Sum
  <2> QED
    BY <1>1, <2>1
<1>7. OffsetIn(items, PrefixRun(items, n + 1), i) = Sum(items, i - 1) /\ Sum(items, i - 1) \in Nat
  <2>1. n \in 0 .. n /\ i \in 1 .. n + 1 /\ i - 1 <= n /\ i - 1 \in 0 .. n
    BY <1>1
  <2>2. OffsetIn(items, PrefixRun(items, n + 1), i) = Sum(items, IF i - 1 <= n THEN i - 1 ELSE n)
    BY <1>1, <2>1, OffsetPrefix
  <2> QED
    BY <1>5, <2>1, <2>2
<1> HIDE DEF L, at, used
<1>8. CASE layout.shape = "Fixed"
  <2>1. items[i].kind \in SizedKinds
    BY <1>8 DEF LayWell
  <2>2. at = Sum(items, i - 1)
    BY <1>7, <1>8 DEF FieldAt, at
  <2>3. used = Sum(items, n)
    BY <1>8 DEF OverUsed, used
  <2>4. Sum(items, i) <= Sum(items, n) /\ Sum(items, n) \in Nat
    BY <1>1, <1>5
  <2>5. at \in Nat /\ L \in Nat /\ at + L <= used
    BY <1>3, <1>5, <1>7, <2>1, <2>2, <2>3, <2>4
  <2> QED
    BY <2>5 DEF at, L, used
<1>9. CASE layout.shape = "FixedPadded"
  <2>1. items[i].kind \in SizedKinds
    BY <1>9 DEF LayWell, PaddedField, SizedKinds
  <2>2. at = PaddedOffset(items, i)
    BY <1>9 DEF FieldAt, at
  <2>3. used = Total(WithPads(items), n)
    BY <1>9 DEF OverUsed, used
  <2>4. /\ PaddedOffset(items, i) \in Nat
        /\ PaddedOffset(items, i) + Size(items[i]) = Total(WithPads(items), i)
        /\ Total(WithPads(items), i) \in Nat
        /\ Total(WithPads(items), i) <= Total(WithPads(items), n)
    BY <1>1, PaddedOffsetIs
  <2>5. at \in Nat /\ L \in Nat /\ at + L <= used
    BY <1>3, <1>5, <2>1, <2>2, <2>3, <2>4
  <2> QED
    BY <2>5 DEF at, L, used
<1>10. CASE layout.shape \in {"DynamicTail", "DynamicTailOpen", "GreedyStructTail"}
  <2>1. /\ r = n
        /\ i # n => items[i].kind \in SizedKinds
        /\ items[n].kind \in {"arr", "greedy", "recs"}
        /\ layout.shape # "GreedyStructTail" => items[n].kind # "recs"
        /\ layout.shape = "GreedyStructTail" => items[n].kind = "recs"
    <3>1. CASE layout.shape = "GreedyStructTail"
      <4>1. r = n /\ AllFixed(items, 1, n - 1) /\ items[n].kind = "recs"
        BY <3>1 DEF LayWell, LastBehindFixed
      <4>2. i # n => FixedField(items[i])
        BY <1>1, <4>1 DEF AllFixed
      <4> QED
        BY <3>1, <4>1, <4>2, FixedIsSized
    <3>2. CASE layout.shape \in {"DynamicTail", "DynamicTailOpen"}
      <4>1. r = n /\ BehindSized(items, n) /\ items[n].kind \in {"arr", "greedy"}
        BY <3>2 DEF LayWell
      <4>2. i # n => items[i].kind \in SizedKinds
        BY <1>1, <1>2, <4>1 DEF BehindSized, SizedKinds
      <4> QED
        BY <3>2, <4>1, <4>2
    <3> QED
      BY <1>10, <3>1, <3>2
  <2>2. at = Sum(items, i - 1)
    BY <1>7, <1>10 DEF FieldAt, at
  <2>3. PICK x \in Nat : used = Sum(items, n - 1) + x /\ (layout.shape # "GreedyStructTail" => x = Len(content[n]))
    <3>1. CASE layout.shape = "GreedyStructTail"
      <4>1. used = Sum(items, n - 1) + Len(content[n]) * items[n].size
        BY <2>1, <3>1 DEF OverUsed, used
      <4>2. content[n] \in Seq(Bytes)
        BY <1>1, <2>1, <3>1, FilledRecords
      <4>3. Len(content[n]) \in Nat /\ items[n].size \in Nat
        BY <1>1, <4>2
      <4>4. Len(content[n]) * items[n].size \in Nat
        BY <4>3
      <4> QED
        BY <3>1, <4>1, <4>4
    <3>2. CASE layout.shape \in {"DynamicTail", "DynamicTailOpen"}
      <4>1. used = Sum(items, n - 1) + Len(content[n])
        BY <2>1, <3>2 DEF OverUsed, used
      <4>2. items[n].kind \in {"arr", "greedy"} /\ FieldHolds(items[n], content[n])
        BY <1>1, <2>1, <3>2 DEF Filled
      <4>3. Len(content[n]) \in Nat
        BY <4>2 DEF FieldHolds, Bytes
      <4> QED
        BY <3>2, <4>1, <4>3
    <3> QED
      BY <1>10, <3>1, <3>2
  <2>4. CASE i # n
    <3>1. L = Size(items[i]) /\ i \in 1 .. n - 1
      BY <1>1, <1>3, <2>1, <2>4
    <3>2. Sum(items, i) <= Sum(items, n - 1) /\ Sum(items, n - 1) \in Nat
      BY <1>1, <1>5, <1>6, <3>1
    <3>3. at \in Nat /\ L \in Nat /\ at + L <= used
      BY <1>5, <1>7, <2>2, <2>3, <3>1, <3>2
    <3> QED
      BY <3>3 DEF at, L, used
  <2>5. CASE i = n
    <3>1. items[n].kind \notin SizedKinds /\ layout.shape # "GreedyStructTail"
      BY <1>2, <2>1, <2>5 DEF SizedKinds
    <3>2. L = x /\ at = Sum(items, n - 1) /\ Sum(items, n - 1) \in Nat
      BY <1>4, <1>7, <2>2, <2>3, <2>5, <3>1
    <3>3. at \in Nat /\ L \in Nat /\ at + L <= used
      BY <2>3, <3>2
    <3> QED
      BY <3>3 DEF at, L, used
  <2> QED
    BY <2>4, <2>5
<1>11. CASE layout.shape = "Forward"
  <2> DEFINE fb == ForwardBytes(items[r], ForwardLens(items[r], content[r]))
             behind == RunBytes(items, Behind(items, r))
             b == ForwardBytes(items[r], lens)
  <2>1. /\ ForwardIn(items, r) /\ r \in 1 .. n /\ r \in Nat
        /\ AllFixed(items, 1, r - 1) /\ AllFixed(items, r + 1, n)
        /\ items[r].kind \in {"arr", "ref", "recs"}
    BY <1>11 DEF LayWell, ForwardIn
  <2>2. used = Sum(items, r - 1) + fb + behind
    BY <1>11 DEF OverUsed, used
  <2>3. fb \in Nat /\ (items[r].kind # "recs" => Len(content[r]) = fb)
    <3>1. 0 \in Nat
      OBVIOUS
    <3> QED
      BY <2>1, <3>1, ForwardRegion
  <2>4. behind \in Nat
    BY <2>1, BehindFits
  <2>5. b \in Nat
    <3>1. items[r].size \in Nat
      BY <1>1, <2>1
    <3>2. lens * items[r].size \in Nat /\ lens \in Nat
      BY <1>11, <3>1
    <3> QED
      BY <3>2 DEF ForwardBytes
  <2>6. Sum(items, n) + b <= used
    BY <1>11 DEF used
  <2> HIDE DEF fb, behind, b
  <2>7. CASE i < r
    <3>1. at = Sum(items, i - 1)
      BY <1>1, <1>7, <1>11, <2>1, <2>7 DEF FieldAt, at
    <3>2. items[i].kind \in SizedKinds
      BY <1>1, <2>1, <2>7, FixedIsSized DEF AllFixed
    <3>3. Sum(items, i) <= Sum(items, r - 1) /\ Sum(items, r - 1) \in Nat
      <4>1. i \in 1 .. n /\ r - 1 \in i .. n /\ r - 1 \in 0 .. n
        BY <1>1, <2>1, <2>7
      <4> QED
        BY <1>5, <1>6, <4>1
    <3>4. at \in Nat /\ L \in Nat /\ at + L <= used
      BY <1>3, <1>5, <1>7, <2>2, <2>3, <2>4, <3>1, <3>2, <3>3
    <3> QED
      BY <3>4 DEF at, L, used
  <2>8. CASE i = r
    <3>1. at = Sum(items, i - 1)
      BY <1>1, <1>7, <1>11, <2>1, <2>8 DEF FieldAt, at
    <3>2. items[i].kind \notin SizedKinds /\ items[i].kind # "recs"
      BY <1>2, <2>1, <2>8 DEF SizedKinds
    <3>3. L = fb
      BY <1>4, <2>3, <2>8, <3>2
    <3>4. at \in Nat /\ L \in Nat /\ at + L <= used
      BY <1>7, <2>2, <2>3, <2>4, <2>8, <3>1, <3>3
    <3> QED
      BY <3>4 DEF at, L, used
  <2>9. CASE i > r
    <3>1. at = RunBytes(items, Upto(r - 1)) + b + OffsetIn(items, Behind(items, r), i)
      BY <1>11, <2>9 DEF FieldAt, at, b, Behind
    <3>2. RunBytes(items, Upto(r - 1)) = Sum(items, r - 1) /\ Sum(items, r - 1) \in Nat
      <4>1. r - 1 \in 0 .. n
        BY <1>1, <2>1
      <4> QED
        BY <1>1, <1>5, <4>1, RunBytesUpto
    <3>3. /\ Sum(items, r) + OffsetIn(items, Behind(items, r), i) = Sum(items, i - 1)
          /\ OffsetIn(items, Behind(items, r), i) \in Nat
      <4>1. r \in 1 .. n /\ i \in r + 1 .. n + 1
        BY <1>1, <2>1, <2>9
      <4> QED
        BY <1>1, <4>1, OffsetBehind
    <3>4. Sum(items, r) = Sum(items, r - 1) + Size(items[r]) /\ Size(items[r]) \in Nat
      BY <1>1, <2>1, SumSteps, ItemType
    <3>5. items[i].kind \in SizedKinds
      BY <1>1, <2>1, <2>9, FixedIsSized DEF AllFixed
    <3>6. Sum(items, i) <= Sum(items, n) /\ Sum(items, n) \in Nat /\ Size(items[i]) \in Nat
      BY <1>1, <1>5
    <3>7. L = Size(items[i])
      BY <1>3, <3>5
    <3>8. PICK p \in Nat, q \in Nat, o \in Nat, s \in Nat, z \in Nat :
            /\ p = Sum(items, r - 1) /\ q = Size(items[r]) /\ o = OffsetIn(items, Behind(items, r), i)
            /\ s = Sum(items, n) /\ z = Size(items[i])
      BY <3>2, <3>3, <3>4, <3>6
    <3>9. Size(items[r]) = 0
      BY <2>1 DEF Size
    <3>10. at = p + b + o /\ p + o + z <= s
      BY <1>5, <3>1, <3>2, <3>3, <3>4, <3>6, <3>8, <3>9
    <3>11. s + b <= used /\ used \in Nat
      BY <2>2, <2>3, <2>4, <2>6, <3>2, <3>8
    <3>12. at \in Nat /\ L \in Nat /\ at + L <= used
      <4>1. L = z
        BY <3>7, <3>8
      <4>2. PICK d \in Nat, u \in Nat : d = b /\ u = used
        BY <2>5, <3>11
      <4>3. at = p + d + o /\ p + o + z <= s /\ s + d <= u
        BY <3>10, <3>11, <4>2
      <4>4. p + d + o \in Nat /\ p + d + o + z <= u
        BY <4>3
      <4> QED
        BY <4>1, <4>2, <4>3, <4>4
    <3> QED
      BY <3>12 DEF at, L, used
  <2> QED
    BY <1>1, <2>1, <2>7, <2>8, <2>9
<1> QED
  BY <1>8, <1>9, <1>10, <1>11 DEF Over

-----------------------------------------------------------------------------
(* The parser of a struct with one region behind which only fields of known *)
(* size follow: it is behind all of what the writer counts.                 *)

RdValues(bytes) ==
    Byte \cup {Window(bytes, at, n) : at \in Nat, n \in Nat}
         \cup {Records(bytes, at, n, size) : at \in Nat, n \in Nat, size \in Nat}
         \cup {ReadHook(form, SubSeq(bytes, at + 1, Len(bytes))).value :
                  form \in {"varint", "prefixed", "name"}, at \in Nat}
RdStates(bytes) == [ok: BOOLEAN, at: Nat, vals: Seq(RdValues(bytes))]

RdValue(it, v) ==
    (IsNumber(it) => v \in Byte) /\ (it.kind \in {"arr", "greedy", "recs"} => Len(v) \in Nat)

\* The length of item i is in a number in front of it.
Measured(fields, i) == fields[i].len.of \in 1 .. i - 1 /\ IsNumber(fields[fields[i].len.of])

\* Item r is the region.
TailIn(fields, r) ==
    /\ fields \in Seq(Items) /\ r \in 1 .. Len(fields)
    /\ \A j \in 1 .. Len(fields) : FieldWell(fields[j], j)
    /\ \/ fields[r].kind \in {"arr", "ref", "recs"} /\ Measured(fields, r)
       \/ fields[r].kind = "greedy"
       \/ fields[r].kind = "recs" /\ fields[r].len.of = 0
    /\ \A j \in 1 .. Len(fields) :
          j # r => fields[j].kind \in SizedKinds \/ (j < r /\ fields[j].kind = "hook")

\* The bytes of the region, with the value v, in state s of the parser.
Extent(it, s, v) ==
    IF it.kind = "ref" THEN Amount(it.len, s)
    ELSE IF it.kind = "recs" THEN Len(v) * it.size ELSE Len(v)

\* A state of the parser behind the first n fields.
Rd(fields, r, bytes, n, s) ==
    /\ s \in RdStates(bytes)
    /\ s.ok => /\ Len(s.vals) = n /\ \A j \in 1 .. n : RdValue(fields[j], s.vals[j])
               /\ Sum(fields, n) + (IF r <= n THEN Extent(fields[r], s, s.vals[r]) ELSE 0) <= s.at

\* The same, before the padding in front of the next field.
RdIn(fields, r, bytes, n, s) ==
    Rd(fields, r, bytes, n, s) /\ (s.ok /\ r <= n => s.at <= Len(bytes))

\* What a hook takes.
LEMMA HookTakes ==
    ASSUME NEW bytes \in Bytes, NEW form \in {"varint", "prefixed", "name"}, ReadHook(form, bytes).ok
    PROVE  ReadHook(form, bytes).took \in Nat
<1>1. bytes \in Seq(Byte) /\ Len(bytes) \in Nat
  BY DEF Bytes
<1>2. \A v, n : ReadAs(v, n).took = n /\ Unread.ok = FALSE
  BY DEF ReadAs, Unread
<1>3. CASE form = "varint"
  <2>1. ReadHook(form, bytes) = ReadVarint(bytes)
    BY <1>3 DEF ReadHook
  <2>2. ReadVarint(bytes) = Unread \/ \E v : ReadVarint(bytes) = ReadAs(v, 1) \/ ReadVarint(bytes) = ReadAs(v, 2)
    BY DEF ReadVarint
  <2> QED
    BY <1>2, <2>1, <2>2
<1>4. CASE form = "prefixed"
  <2>1. ReadHook(form, bytes) = ReadPrefixed(bytes)
    BY <1>4 DEF ReadHook
  <2>2. ReadPrefixed(bytes) = Unread
        \/ (bytes # <<>> /\ \E v : ReadPrefixed(bytes) = ReadAs(v, 1 + bytes[1]))
    BY Zenon DEF ReadPrefixed
  <2>3. bytes # <<>> => bytes[1] \in Nat
    BY <1>1, BaseAssumption DEF Byte, MaxByte
  <2> QED
    BY <1>2, <2>1, <2>2, <2>3
<1>5. CASE form = "name"
  <2> DEFINE zeroes == {n \in 1 .. Len(bytes) : bytes[n] = 0}
             first == CHOOSE n \in zeroes : \A m \in zeroes : n <= m
  <2>1. ReadHook(form, bytes) = ReadName(bytes)
    BY <1>5 DEF ReadHook
  <2>2. ReadName(bytes) = Unread \/ (zeroes # {} /\ \E v : ReadName(bytes) = ReadAs(v, first))
    BY Zenon DEF ReadName
  <2>3. ASSUME zeroes # {} PROVE first \in Nat
    <3>1. zeroes \subseteq Nat
      BY <1>1
    <3> HIDE DEF zeroes
    <3>2. \E n \in zeroes : \A m \in zeroes : n <= m
      BY <2>3, <3>1, LeastOf
    <3>3. first \in zeroes
      BY <3>2
    <3> QED
      BY <3>1, <3>3
  <2> HIDE DEF zeroes, first
  <2> QED
    BY <1>2, <2>1, <2>2, <2>3
<1> QED
  BY <1>3, <1>4, <1>5

LEMMA AmountReads ==
    ASSUME NEW fields, NEW r, TailIn(fields, r), Measured(fields, r), NEW bytes, NEW i \in Nat, r <= i + 1,
           NEW s, Rd(fields, r, bytes, i, s), s.ok
    PROVE  Amount(fields[r].len, s) \in Nat
<1> DEFINE it == fields[r]
           of == it.len.of
<1>1. it \in Items /\ r \in Nat
  BY DEF TailIn
<1>2. it.len \in Exprs /\ it.len.times \in Nat /\ it.len.plus \in Nat /\ it.len.minus \in Nat
  <2> HIDE DEF it
  <2> QED
    BY <1>1, ItemType
<1>3. of \in 1 .. r - 1 /\ IsNumber(fields[of])
  BY DEF Measured
<1> HIDE DEF of
<1>4. of \in 1 .. i
  BY <1>1, <1>3
<1>5. s.vals[of] \in Byte
  BY <1>3, <1>4 DEF Rd, RdValue
<1>6. s.vals[of] \in Nat
  BY <1>5, BaseAssumption DEF Byte, MaxByte
<1>7. s.vals[of] * it.len.times \in Nat
  BY <1>2, <1>6
<1>8. PICK a \in Nat, b \in Nat : a = s.vals[of] * it.len.times + it.len.plus /\ b = it.len.minus
  BY <1>2, <1>7
<1>9. Amount(it.len, s) = Minus(a, b)
  BY <1>8 DEF Amount, of
<1> QED
  BY <1>8, <1>9 DEF Minus

LEMMA ExtentIn ==
    ASSUME NEW fields, NEW r, TailIn(fields, r), NEW bytes, NEW i \in Nat, r <= i + 1,
           NEW s, Rd(fields, r, bytes, i, s), s.ok, NEW v, RdValue(fields[r], v)
    PROVE  Extent(fields[r], s, v) \in Nat
<1>1. fields[r].size \in Nat
  <2>1. fields[r] \in Items
    BY DEF TailIn
  <2> QED
    BY <2>1, ItemType
<1>2. fields[r].kind \in {"arr", "greedy", "ref", "recs"}
  BY DEF TailIn
<1>3. CASE fields[r].kind = "ref"
  <2>1. Measured(fields, r)
    BY <1>3 DEF TailIn
  <2> QED
    BY <1>3, <2>1, AmountReads DEF Extent
<1>4. CASE fields[r].kind # "ref"
  <2>1. Len(v) \in Nat
    BY <1>2, <1>4 DEF RdValue
  <2>2. Len(v) * fields[r].size \in Nat
    BY <1>1, <2>1
  <2> QED
    BY <1>4, <2>1, <2>2 DEF Extent
<1> QED
  BY <1>3, <1>4

LEMMA FailedReads ==
    ASSUME NEW fields, NEW r, NEW bytes, NEW i
    PROVE  RdIn(fields, r, bytes, i, Failed)
BY DEF Failed, RdStates, Rd, RdIn

\* The parser takes n bytes, not less than the writer counts for the field.
LEMMA TakeReads ==
    ASSUME NEW fields, NEW r, TailIn(fields, r), NEW bytes \in Bytes, NEW i \in 1 .. Len(fields),
           NEW s, Rd(fields, r, bytes, i - 1, s), s.ok,
           NEW n \in Nat, NEW v \in RdValues(bytes), RdValue(fields[i], v),
           r <= i => s.at + n <= Len(bytes),
           i = r => Extent(fields[r], s, v) <= n,
           i # r => Size(fields[i]) <= n
    PROVE  RdIn(fields, r, bytes, i, Take(s, n, v))
<1> DEFINE V == RdValues(bytes)
           t == [s EXCEPT !.at = @ + n, !.vals = Append(@, v)]
<1>1. /\ s \in [ok: BOOLEAN, at: Nat, vals: Seq(V)]
      /\ Len(s.vals) = i - 1 /\ \A j \in 1 .. i - 1 : RdValue(fields[j], s.vals[j])
      /\ Sum(fields, i - 1) + (IF r <= i - 1 THEN Extent(fields[r], s, s.vals[r]) ELSE 0) <= s.at
  BY DEF Rd, RdStates
<1>2. Take(s, n, v) = t
  BY DEF Take
<1>3. fields \in Seq(Items) /\ Len(fields) \in Nat /\ r \in 1 .. Len(fields) /\ i \in Nat /\ r \in Nat /\ i > 0
  BY DEF TailIn
<1>4. Sum(fields, i) = Sum(fields, i - 1) + Size(fields[i])
      /\ Sum(fields, i - 1) \in Nat /\ Size(fields[i]) \in Nat
  <2>1. Sized(fields) /\ i - 1 \in 0 .. Len(fields)
    BY <1>3, FilledSized
  <2> QED
    BY <2>1, SumSteps DEF Sized
<1>5. v \in V
  OBVIOUS
<1> HIDE DEF V
<1>6. /\ t \in [ok: BOOLEAN, at: Nat, vals: Seq(V)] /\ t.vals = Append(s.vals, v)
      /\ t.at = s.at + n /\ t.ok = s.ok
  <2> DEFINE a == s.at + n
             w == Append(s.vals, v)
  <2>1. a \in Nat /\ w \in Seq(V)
    BY <1>1, <1>5
  <2>2. t = [s EXCEPT !.at = a, !.vals = w]
    OBVIOUS
  <2> HIDE DEF a, w, t
  <2>3. t \in [ok: BOOLEAN, at: Nat, vals: Seq(V)] /\ t.vals = w /\ t.at = a /\ t.ok = s.ok
    BY <1>1, <2>1, <2>2
  <2> QED
    BY <2>3 DEF w, a
<1> HIDE DEF t
<1>7. Len(t.vals) = i /\ t.vals[i] = v /\ \A j \in 1 .. i - 1 : t.vals[j] = s.vals[j]
  BY <1>1, <1>3, <1>5, <1>6
<1>8. \A j \in 1 .. i : RdValue(fields[j], t.vals[j])
  BY <1>1, <1>3, <1>7
<1>9. ASSUME r <= i PROVE Extent(fields[r], t, t.vals[r]) = Extent(fields[r], s, t.vals[r])
  <2>1. CASE fields[r].kind # "ref"
    BY <2>1 DEF Extent
  <2>2. CASE fields[r].kind = "ref"
    <3>1. fields[r].len.of \in 1 .. r - 1
      BY <2>2 DEF TailIn, Measured
    <3>2. t.vals[fields[r].len.of] = s.vals[fields[r].len.of]
      BY <1>3, <1>7, <1>9, <3>1
    <3> QED
      BY <2>2, <3>2 DEF Extent, Amount
  <2> QED
    BY <2>1, <2>2
<1>10. Sum(fields, i) + (IF r <= i THEN Extent(fields[r], t, t.vals[r]) ELSE 0) <= t.at
  <2>1. PICK a \in Nat, b \in Nat, d \in Nat :
          a = Sum(fields, i - 1) /\ b = Size(fields[i]) /\ d = s.at /\ Sum(fields, i) = a + b /\ t.at = d + n
    BY <1>1, <1>4, <1>6
  <2>2. CASE i < r
    BY <1>1, <1>3, <2>1, <2>2
  <2>3. CASE i = r
    <3>1. b = 0
      BY <2>1, <2>3 DEF TailIn, Size
    <3>5. i - 1 \in Nat /\ r <= (i - 1) + 1 /\ RdValue(fields[r], v)
      BY <1>3, <2>3
    <3>2. PICK x \in Nat : x = Extent(fields[r], s, v)
      BY <3>5, ExtentIn
    <3>3. Extent(fields[r], t, t.vals[r]) = x
      BY <1>7, <1>9, <2>3, <3>2
    <3>4. x <= n /\ a + 0 <= d
      BY <1>1, <1>3, <2>1, <2>3, <3>2
    <3> QED
      BY <1>3, <2>1, <2>3, <3>1, <3>3, <3>4
  <2>4. CASE i > r
    <3>1. r \in 1 .. i - 1 /\ r <= (i - 1) + 1 /\ i - 1 \in Nat /\ r <= i - 1
      BY <1>3, <2>4
    <3>2. RdValue(fields[r], s.vals[r])
      BY <1>1, <3>1
    <3>3. PICK x \in Nat : x = Extent(fields[r], s, s.vals[r])
      BY <3>1, <3>2, ExtentIn
    <3>4. Extent(fields[r], t, t.vals[r]) = x
      BY <1>3, <1>7, <1>9, <2>4, <3>1, <3>3
    <3>5. a + x <= d /\ b <= n
      BY <1>1, <2>1, <2>4, <3>1, <3>3, <1>3
    <3> QED
      BY <1>3, <2>1, <2>4, <3>4, <3>5
  <2> QED
    BY <1>3, <2>2, <2>3, <2>4
<1>11. r <= i => t.at <= Len(bytes)
  BY <1>6
<1>12. t \in RdStates(bytes)
  BY <1>6 DEF RdStates, V
<1> QED
  BY <1>2, <1>7, <1>8, <1>10, <1>11, <1>12 DEF Rd, RdIn

LEMMA TakeIfThereReads ==
    ASSUME NEW fields, NEW r, TailIn(fields, r), NEW bytes \in Bytes, NEW i \in 1 .. Len(fields),
           NEW s, Rd(fields, r, bytes, i - 1, s), s.ok, NEW n \in Nat, NEW v,
           s.at + n <= Len(bytes) =>
              /\ v \in RdValues(bytes) /\ RdValue(fields[i], v)
              /\ i = r => Extent(fields[r], s, v) <= n,
           i # r => Size(fields[i]) <= n
    PROVE  RdIn(fields, r, bytes, i, TakeIfThere(bytes, s, n, v))
<1>1. CASE s.at + n <= Len(bytes)
  <2>1. RdIn(fields, r, bytes, i, Take(s, n, v))
    BY <1>1, TakeReads
  <2> QED
    BY <1>1, <2>1 DEF TakeIfThere
<1>2. CASE ~(s.at + n <= Len(bytes))
  BY <1>2, FailedReads DEF TakeIfThere
<1> QED
  BY <1>1, <1>2

LEMMA WindowReads ==
    ASSUME NEW bytes \in Bytes, NEW at \in Nat, NEW n \in Nat, at + n <= Len(bytes)
    PROVE  Window(bytes, at, n) \in RdValues(bytes) /\ Len(Window(bytes, at, n)) = n
<1>1. Window(bytes, at, n) \in RdValues(bytes)
  BY DEF RdValues
<1>2. bytes \in Seq(Byte) /\ Len(bytes) \in Nat
  BY DEF Bytes
<1>3. /\ at + 1 \in Nat /\ at + n \in Nat /\ \A j \in at + 1 .. at + n : bytes[j] \in Byte
  BY <1>2
<1>4. Len(SubSeq(bytes, at + 1, at + n)) = IF at + 1 <= at + n THEN (at + n) - (at + 1) + 1 ELSE 0
  BY <1>3, SubSeqProperties
<1> QED
  BY <1>1, <1>4 DEF Window

\* A field with nothing but its bytes.
LEMMA SizedReads ==
    ASSUME NEW fields, NEW r, TailIn(fields, r), NEW bytes \in Bytes, NEW i \in 1 .. Len(fields),
           i # r, fields[i].kind \in SizedKinds,
           NEW s, Rd(fields, r, bytes, i - 1, s), s.ok
    PROVE  RdIn(fields, r, bytes, i, PlainStep(fields[i], bytes, s))
<1> DEFINE it == fields[i]
<1>1. it \in Items /\ Len(bytes) \in Nat /\ s.at \in Nat
  BY DEF TailIn, Bytes, Rd, RdStates
<1>2. it.size \in Nat
  BY <1>1, ItemType
<1>3. CASE it.kind \in {"num", "int", "bits"}
  <2> DEFINE v == bytes[s.at + 1]
  <2>1. PlainStep(it, bytes, s) = TakeIfThere(bytes, s, 1, v)
    <3>1. PlainStep(it, bytes, s) = NumberStep(bytes, s)
      BY <1>3 DEF PlainStep, IsNumber
    <3>2. s.at < Len(bytes) <=> s.at + 1 <= Len(bytes)
      BY <1>1
    <3> QED
      BY <3>1, <3>2 DEF NumberStep, TakeIfThere
  <2>2. ASSUME s.at + 1 <= Len(bytes) PROVE v \in RdValues(bytes) /\ RdValue(it, v)
    <3>1. v \in Byte
      BY <1>1, <2>2 DEF Bytes
    <3> QED
      BY <1>3, <3>1 DEF RdValues, RdValue
  <2>3. Size(it) = 1
    BY <1>3 DEF Size
  <2> HIDE DEF v
  <2>4. RdIn(fields, r, bytes, i, TakeIfThere(bytes, s, 1, v))
    BY <2>2, <2>3, TakeIfThereReads
  <2> QED
    BY <2>1, <2>4
<1>4. CASE it.kind \in {"const", "fixed", "multi"}
  <2> DEFINE v == Window(bytes, s.at, it.size)
  <2>1. PlainStep(it, bytes, s) \in {Failed, TakeIfThere(bytes, s, it.size, v)}
    BY <1>4 DEF PlainStep, IsNumber, ConstStep, BytesStep
  <2>2. ASSUME s.at + it.size <= Len(bytes) PROVE v \in RdValues(bytes) /\ RdValue(it, v)
    BY <1>1, <1>2, <1>4, <2>2, WindowReads DEF RdValue, IsNumber
  <2>3. Size(it) = it.size
    BY <1>4 DEF Size
  <2> HIDE DEF v
  <2>4. RdIn(fields, r, bytes, i, TakeIfThere(bytes, s, it.size, v))
    BY <1>2, <2>2, <2>3, TakeIfThereReads
  <2> QED
    BY <2>1, <2>4, FailedReads
<1> QED
  BY <1>3, <1>4 DEF SizedKinds

LEMMA HookReads ==
    ASSUME NEW fields, NEW r, TailIn(fields, r), NEW bytes \in Bytes, NEW i \in 1 .. Len(fields),
           i < r, fields[i].kind = "hook",
           NEW s, Rd(fields, r, bytes, i - 1, s), s.ok
    PROVE  RdIn(fields, r, bytes, i, PlainStep(fields[i], bytes, s))
<1> DEFINE it == fields[i]
           rest == SubSeq(bytes, s.at + 1, Len(bytes))
           h == ReadHook(it.read, rest)
<1>1. it \in Items /\ Len(bytes) \in Nat /\ s.at \in Nat /\ r \in Nat /\ i \in Nat
  BY DEF TailIn, Bytes, Rd, RdStates
<1>2. it.read \in {"varint", "prefixed", "name"}
  <2>1. it.read \in {"none", "varint", "prefixed", "name"}
    BY <1>1 DEF Items, ItemsWith
  <2>2. it.read # "none"
    BY DEF TailIn, FieldWell
  <2> QED
    BY <2>1, <2>2
<1>3. PlainStep(it, bytes, s) = IF h.ok THEN Take(s, h.took, h.value) ELSE Failed
  <2>1. PlainStep(it, bytes, s) = HookStep(it, bytes, s)
    BY DEF PlainStep, IsNumber
  <2> QED
    BY <2>1, Zenon DEF HookStep
<1>4. rest \in Bytes
  <2>1. \A j \in s.at + 1 .. Len(bytes) : bytes[j] \in Byte
    BY <1>1 DEF Bytes
  <2>2. s.at + 1 \in Int /\ Len(bytes) \in Int
    BY <1>1
  <2> QED
    BY <2>1, <2>2, SubSeqProperties DEF Bytes
<1>5. h.value \in RdValues(bytes)
  BY <1>1, <1>2 DEF RdValues
<1> HIDE DEF rest
<1>6. h.ok => h.took \in Nat
  BY <1>2, <1>4, HookTakes
<1>7. Size(it) = 0
  BY DEF Size
<1> HIDE DEF h
<1>8. RdValue(it, h.value)
  BY DEF RdValue, IsNumber
<1>9. ~(r <= i) /\ i # r
  BY <1>1
<1>10. h.ok => Size(it) <= h.took
  BY <1>6, <1>7
<1>11. h.ok => RdIn(fields, r, bytes, i, Take(s, h.took, h.value))
  BY <1>5, <1>6, <1>8, <1>9, <1>10, TakeReads
<1> QED
  BY <1>3, <1>11, FailedReads

LEMMA RegionReads ==
    ASSUME NEW fields, NEW r, TailIn(fields, r), NEW bytes \in Bytes,
           NEW s, Rd(fields, r, bytes, r - 1, s), s.ok
    PROVE  RdIn(fields, r, bytes, r, PlainStep(fields[r], bytes, s))
<1> DEFINE it == fields[r]
<1>1. /\ it \in Items /\ Len(bytes) \in Nat /\ s.at \in Nat /\ r \in 1 .. Len(fields)
      /\ r \in Nat /\ r - 1 \in Nat /\ r <= (r - 1) + 1
  BY DEF TailIn, Bytes, Rd, RdStates
<1>2. it.size \in Nat
  BY <1>1, ItemType
<1>3. ASSUME Measured(fields, r) PROVE Amount(it.len, s) \in Nat /\ it.len.of # 0
  <2>1. Amount(it.len, s) \in Nat
    BY <1>1, <1>3, AmountReads
  <2> QED
    BY <1>3, <2>1 DEF Measured
<1>4. CASE it.kind \in {"arr", "greedy"}
  <2> DEFINE n == IF it.kind = "arr" THEN Amount(it.len, s) ELSE Minus(Len(bytes), s.at)
             v == Window(bytes, s.at, n)
  <2>1. n \in Nat
    <3>1. Minus(Len(bytes), s.at) \in Nat
      BY <1>1 DEF Minus
    <3>2. it.kind = "arr" => Measured(fields, r)
      BY DEF TailIn
    <3> QED
      BY <1>3, <3>1, <3>2
  <2>2. PlainStep(it, bytes, s) = TakeIfThere(bytes, s, n, v)
    BY <1>4 DEF PlainStep, IsNumber, BytesStep
  <2> HIDE DEF n
  <2>3. ASSUME s.at + n <= Len(bytes)
        PROVE  v \in RdValues(bytes) /\ RdValue(it, v) /\ Extent(it, s, v) <= n
    <3>1. v \in RdValues(bytes) /\ Len(v) = n
      BY <1>1, <2>1, <2>3, WindowReads
    <3> HIDE DEF v
    <3>2. Extent(it, s, v) = n
      BY <1>4, <3>1 DEF Extent
    <3>3. RdValue(it, v)
      BY <1>4, <2>1, <3>1 DEF RdValue, IsNumber
    <3> QED
      BY <2>1, <3>1, <3>2, <3>3
  <2> HIDE DEF v
  <2>4. RdIn(fields, r, bytes, r, TakeIfThere(bytes, s, n, v))
    BY <1>1, <2>1, <2>3, TakeIfThereReads
  <2> QED
    BY <2>2, <2>4
<1>5. CASE it.kind = "ref"
  <2> DEFINE n == Amount(it.len, s)
             v == Window(bytes, s.at, it.size)
  <2>1. n \in Nat
    <3>1. Measured(fields, r)
      BY <1>5 DEF TailIn
    <3> QED
      BY <1>3, <3>1
  <2>2. PlainStep(it, bytes, s) = IF n >= it.size THEN TakeIfThere(bytes, s, n, v) ELSE Failed
    BY <1>5 DEF PlainStep, IsNumber, RefStep
  <2>3. Extent(it, s, v) = n
    BY <1>5 DEF Extent
  <2> HIDE DEF n
  <2>4. ASSUME n >= it.size, s.at + n <= Len(bytes)
        PROVE  v \in RdValues(bytes) /\ RdValue(it, v) /\ Extent(it, s, v) <= n
    <3>1. s.at + it.size <= Len(bytes)
      BY <1>1, <1>2, <2>1, <2>4
    <3>2. v \in RdValues(bytes)
      BY <1>1, <1>2, <3>1, WindowReads
    <3> QED
      BY <1>5, <2>1, <2>3, <3>2 DEF RdValue, IsNumber
  <2> HIDE DEF v
  <2>5. n >= it.size => RdIn(fields, r, bytes, r, TakeIfThere(bytes, s, n, v))
    BY <1>1, <2>1, <2>4, TakeIfThereReads
  <2> QED
    BY <2>2, <2>5, FailedReads
<1>6. CASE it.kind = "recs"
  <2> DEFINE left == Minus(Len(bytes), s.at)
             n == IF it.len.of # 0 THEN Amount(it.len, s) ELSE left \div it.size
             v == Records(bytes, s.at, n, it.size)
             m == n * it.size
  <2>1. n \in Nat
    <3>1. it.len.of # 0 => Measured(fields, r)
      BY <1>6 DEF TailIn
    <3>2. it.size > 0
      BY <1>1, <1>6 DEF TailIn, FieldWell
    <3>3. left \in Nat
      BY <1>1 DEF Minus
    <3> HIDE DEF left
    <3>4. left \div it.size \in Nat
      BY <1>2, <3>2, <3>3
    <3> QED
      BY <1>3, <3>1, <3>4
  <2>2. PlainStep(it, bytes, s) \in {Failed, TakeIfThere(bytes, s, m, v)}
    <3>1. PlainStep(it, bytes, s) = RecordsStep(it, bytes, s)
      BY <1>6 DEF PlainStep, IsNumber
    <3>2. RecordsStep(it, bytes, s) = Failed \/ RecordsStep(it, bytes, s) = TakeIfThere(bytes, s, m, v)
      BY Zenon DEF RecordsStep
    <3> QED
      BY <3>1, <3>2
  <2> HIDE DEF n
  <2>3. Len(v) = n
    BY <2>1 DEF Records
  <2>4. v \in RdValues(bytes)
    BY <1>1, <1>2, <2>1 DEF RdValues
  <2>5. m \in Nat
    BY <1>2, <2>1
  <2> HIDE DEF v
  <2>6. RdValue(it, v)
    BY <1>6, <2>1, <2>3 DEF RdValue, IsNumber
  <2>7. Extent(it, s, v) = m
    BY <1>6, <2>3 DEF Extent
  <2> HIDE DEF m
  <2>8. Extent(it, s, v) <= m
    BY <2>5, <2>7
  <2>9. RdIn(fields, r, bytes, r, TakeIfThere(bytes, s, m, v))
    BY <1>1, <2>4, <2>5, <2>6, <2>8, TakeIfThereReads
  <2> QED
    BY <2>2, <2>9, FailedReads
<1>7. it.kind \in {"arr", "greedy", "ref", "recs"}
  BY DEF TailIn
<1> QED
  BY <1>4, <1>5, <1>6, <1>7

LEMMA StepReads ==
    ASSUME NEW fields, NEW r, TailIn(fields, r), NEW bytes \in Bytes,
           NEW i \in 1 .. Len(fields), NEW s, Rd(fields, r, bytes, i - 1, s)
    PROVE  RdIn(fields, r, bytes, i, ItemStep(fields[i], bytes, s))
<1> DEFINE it == fields[i]
           t == [s EXCEPT !.at = @ + it.pad]
<1>1. s.ok \in BOOLEAN
  BY DEF Rd, RdStates
<1>2. CASE ~s.ok
  BY <1>2, FailedReads DEF ItemStep
<1>3. CASE s.ok
  <2>1. it \in Items
    BY DEF TailIn
  <2>2. it.pad \in Nat
    BY <2>1, ItemType
  <2>3. it.kind \notin {"union", "cond"}
    BY DEF TailIn, SizedKinds
  <2>4. ItemStep(it, bytes, s) = PlainStep(it, bytes, t)
    BY <1>3, <2>3 DEF ItemStep, FieldStep
  <2>5. t \in RdStates(bytes) /\ t.ok = s.ok /\ t.vals = s.vals /\ t.at = s.at + it.pad /\ s.at \in Nat
    <3> DEFINE V == RdValues(bytes)
               a == s.at + it.pad
    <3>1. s \in [ok: BOOLEAN, at: Nat, vals: Seq(V)]
      BY DEF Rd, RdStates
    <3>2. a \in Nat
      BY <2>2, <3>1
    <3>3. t = [s EXCEPT !.at = a]
      OBVIOUS
    <3> HIDE DEF V, a, t
    <3>4. t \in [ok: BOOLEAN, at: Nat, vals: Seq(V)] /\ t.ok = s.ok /\ t.vals = s.vals /\ t.at = a
      BY <3>1, <3>2, <3>3
    <3> QED
      BY <3>1, <3>4 DEF RdStates, V, a
  <2> HIDE DEF t
  <2>6. Rd(fields, r, bytes, i - 1, t)
    <3>1. /\ fields \in Seq(Items) /\ Len(fields) \in Nat /\ r \in 1 .. Len(fields)
          /\ r \in Nat /\ i \in Nat /\ i - 1 \in Nat /\ i - 1 \in 0 .. Len(fields)
      BY DEF TailIn
    <3>2. PICK a \in Nat : a = Sum(fields, i - 1)
      BY <3>1, FilledSized, SumSteps
    <3>3. /\ Len(s.vals) = i - 1 /\ \A j \in 1 .. i - 1 : RdValue(fields[j], s.vals[j])
          /\ Sum(fields, i - 1) + (IF r <= i - 1 THEN Extent(fields[r], s, s.vals[r]) ELSE 0) <= s.at
      BY <1>3 DEF Rd
    <3>4. Extent(fields[r], t, t.vals[r]) = Extent(fields[r], s, s.vals[r])
      BY <2>5 DEF Extent, Amount
    <3>5. PICK x \in Nat : x = IF r <= i - 1 THEN Extent(fields[r], s, s.vals[r]) ELSE 0
      <4>1. CASE r <= i - 1
        <5>1. r \in 1 .. i - 1 /\ r <= (i - 1) + 1
          BY <3>1, <4>1
        <5>2. RdValue(fields[r], s.vals[r])
          BY <3>3, <5>1
        <5>3. Extent(fields[r], s, s.vals[r]) \in Nat
          BY <1>3, <3>1, <5>1, <5>2, ExtentIn
        <5> QED
          BY <4>1, <5>3
      <4>2. CASE ~(r <= i - 1)
        BY <4>2
      <4> QED
        BY <4>1, <4>2
    <3>6. a + x <= s.at + it.pad
      BY <2>2, <2>5, <3>2, <3>3, <3>5
    <3>7. Sum(fields, i - 1) + (IF r <= i - 1 THEN Extent(fields[r], t, t.vals[r]) ELSE 0) <= t.at
      BY <2>5, <3>2, <3>4, <3>5, <3>6
    <3> QED
      BY <1>3, <2>5, <3>3, <3>7 DEF Rd
  <2>7. CASE i = r
    BY <1>3, <2>4, <2>5, <2>6, <2>7, RegionReads
  <2>8. CASE i # r /\ it.kind \in SizedKinds
    BY <1>3, <2>4, <2>5, <2>6, <2>8, SizedReads
  <2>9. CASE i < r /\ it.kind = "hook"
    BY <1>3, <2>4, <2>5, <2>6, <2>9, HookReads
  <2> QED
    BY <2>7, <2>8, <2>9 DEF TailIn
<1> QED
  BY <1>1, <1>2, <1>3

RdFold(fields, bytes, f) ==
    f = [n \in 0 .. Len(fields) |-> IF n = 0 THEN Start ELSE ItemStep(fields[n], bytes, f[n - 1])]

\* The parser's states one after the other.
LEMMA ReadSteps ==
    ASSUME NEW fields, NEW r, TailIn(fields, r), NEW bytes \in Bytes
    PROVE  \E f : /\ RdFold(fields, bytes, f) /\ Read(fields, bytes) = f[Len(fields)]
                  /\ \A n \in 0 .. Len(fields) : RdIn(fields, r, bytes, n, f[n])
<1> DEFINE N == Len(fields)
           S == RdStates(bytes)
           step == [p \in (1 .. N) \X S |->
                      IF Rd(fields, r, bytes, p[1] - 1, p[2]) THEN ItemStep(fields[p[1]], bytes, p[2]) ELSE p[2]]
<1>1. N \in Nat
  BY DEF TailIn
<1>2. PICK t : Recursion(t, N, Start, step)
  BY <1>1, RecursionExists
<1>3. \A n \in 1 .. N, x \in S :
          Rd(fields, r, bytes, n - 1, x) => step[<<n, x>>] = ItemStep(fields[n], bytes, x)
  OBVIOUS
<1>4. RdIn(fields, r, bytes, 0, Start)
  <2>1. Start \in RdStates(bytes) /\ Len(Start.vals) = 0 /\ Start.at = 0
    BY DEF Start, RdStates
  <2>2. Sum(fields, 0) = 0 /\ ~(r <= 0)
    <3>1. Sized(fields) /\ r \in 1 .. N
      BY FilledSized DEF TailIn
    <3> QED
      BY <1>1, <3>1, SumSteps
  <2> QED
    BY <2>1, <2>2 DEF Rd, RdIn
<1> HIDE DEF step
<1> DEFINE P == {n \in 0 .. N : /\ RdIn(fields, r, bytes, n, t[n])
                                /\ n # 0 => t[n] = ItemStep(fields[n], bytes, t[n - 1])}
<1>5. t[0] = Start /\ \A n \in 1 .. N : t[n] = step[<<n, t[n - 1]>>]
  BY <1>1, <1>2 DEF Recursion
<1>6. 0 \in P
  BY <1>1, <1>4, <1>5
<1>7. ASSUME NEW n \in 0 .. N, n \in P, n < N PROVE n + 1 \in P
  <2>1. n + 1 \in 1 .. N /\ n + 1 \in 0 .. N /\ n + 1 # 0 /\ (n + 1) - 1 = n
    BY <1>1, <1>7
  <2>2. Rd(fields, r, bytes, (n + 1) - 1, t[n]) /\ t[n] \in S
    BY <1>7, <2>1 DEF Rd, RdIn
  <2>3. t[n + 1] = step[<<n + 1, t[n]>>]
    BY <1>5, <2>1
  <2>4. t[n + 1] = ItemStep(fields[n + 1], bytes, t[n])
    BY <1>3, <2>1, <2>2, <2>3
  <2>5. RdIn(fields, r, bytes, n + 1, t[n + 1])
    BY <2>1, <2>2, <2>4, StepReads
  <2> QED
    BY <2>1, <2>4, <2>5
<1> HIDE DEF P, S
<1>8. \A n \in 0 .. N : n \in P
  <2> HIDE DEF N
  <2> QED
    BY <1>1, <1>6, <1>7, InductUpto
<1>9. RdFold(fields, bytes, t)
  <2>1. \A n \in 0 .. N : t[n] = IF n = 0 THEN Start ELSE ItemStep(fields[n], bytes, t[n - 1])
    BY <1>5, <1>8 DEF P
  <2>2. t = [n \in 0 .. N |-> t[n]]
    BY <1>2 DEF Recursion
  <2> QED
    BY <2>1, <2>2 DEF RdFold
<1>10. PICK f : RdFold(fields, bytes, f) /\ Read(fields, bytes) = f[N]
  BY <1>9, Zenon DEF Read, FoldItems, RdFold
<1> DEFINE Q == {n \in 0 .. N : RdIn(fields, r, bytes, n, f[n])}
<1>11. 0 \in Q
  BY <1>1, <1>4, <1>10 DEF RdFold
<1>12. ASSUME NEW n \in 0 .. N, n \in Q, n < N PROVE n + 1 \in Q
  <2>1. n + 1 \in 1 .. N /\ n + 1 \in 0 .. N /\ n + 1 # 0 /\ (n + 1) - 1 = n
    BY <1>1, <1>12
  <2>2. f[n + 1] = ItemStep(fields[n + 1], bytes, f[n])
    BY <1>10, <2>1 DEF RdFold
  <2>3. Rd(fields, r, bytes, (n + 1) - 1, f[n])
    BY <1>12, <2>1 DEF RdIn
  <2>4. RdIn(fields, r, bytes, n + 1, f[n + 1])
    BY <2>1, <2>2, <2>3, StepReads
  <2> QED
    BY <2>1, <2>4
<1> HIDE DEF Q
<1>13. \A n \in 0 .. N : n \in Q
  <2> HIDE DEF N
  <2> QED
    BY <1>1, <1>11, <1>12, InductUpto
<1> QED
  BY <1>10, <1>13 DEF Q

LEMMA TailReads ==
    ASSUME NEW fields, NEW r, TailIn(fields, r), NEW bytes \in Bytes
    PROVE  RdIn(fields, r, bytes, Len(fields), Read(fields, bytes))
<1>1. PICK f : /\ Read(fields, bytes) = f[Len(fields)]
               /\ \A n \in 0 .. Len(fields) : RdIn(fields, r, bytes, n, f[n])
  BY ReadSteps
<1>2. Len(fields) \in 0 .. Len(fields)
  BY DEF TailIn
<1> QED
  BY <1>1, <1>2

-----------------------------------------------------------------------------
(* The inductive invariant.                                                *)

\* The struct, a content of it, and the plan of its writer.
StructInv ==
    /\ Whole(items, content) /\ LayWell(items, layout) /\ HookInFront(layout)
    /\ ShapeHolds(items, content, layout) /\ plan = WritePlan(items, content, layout)

\* What is still to be stored lies in the packet, and what a call has said of
\* the packet's length is true.
CallInv ==
    /\ todo \in Within(plan.used)
    /\ buffer \in Bytes \/ (call = "returned" /\ layout.shape \in Cutting)
    /\ call \in {"free", "busy"} => result = Pending
    /\ by = "to_vec" /\ layout.shape \in Over => Len(buffer) = plan.used
    /\ by = "new" /\ call = "busy" => plan.need <= Len(buffer)
    /\ layout.shape \in Over /\ result.is \in {"ok", "vec"} =>
          result.used \in Nat /\ result.used <= Len(buffer) /\ result.used <= plan.used

BehindSame == \A k \in 1 .. Len(buffer) : k > plan.used => buffer[k] = handed[k]

WriterInv == BehindSame /\ (call # "edited" => StructInv /\ CallInv)

\* What the invariant says of the plan.
LEMMA PlanInv ==
    ASSUME StructInv
    PROVE  /\ plan.used \in Nat /\ plan.need \in Nat /\ plan.need <= plan.used
           /\ plan.stores \in Within(plan.used)
           /\ plan.early \in Starts /\ plan.late \in Errors
           /\ (layout.shape \in {"DynamicTail", "DynamicTailHook", "FixedPadded"}
                 \/ (layout.shape = "Forward" /\ items[layout.region].kind # "recs"))
                => plan.stores # <<>>
           /\ layout.shape \in Over => plan.need = plan.used
<1>1. /\ Contained(plan) \/ (plan = PanicPlan /\ layout.shape = "Conditional")
      /\ (layout.shape \in {"DynamicTail", "DynamicTailHook"}
            \/ (layout.shape = "Forward" /\ items[layout.region].kind # "recs"))
           => plan.stores # <<>>
  BY PlansContained DEF StructInv, Panicking
<1>2. layout.shape = "FixedPadded" => plan.stores # <<>>
  <2> SUFFICES ASSUME layout.shape = "FixedPadded" PROVE plan.stores # <<>>
    OBVIOUS
  <2>1. plan = PaddedPlan(items, content)
    BY DEF StructInv, WritePlan
  <2>2. Filled(items, content) /\ items \in Seq(Items)
    BY WholeFilled DEF StructInv
  <2>3. items # <<>> /\ \A i \in 1 .. Len(items) : items[i].kind \in SizedKinds
    BY DEF StructInv, LayWell, PaddedField, SizedKinds
  <2>4. Len(items) > 0
    BY <2>2, <2>3
  <2> QED
    BY <2>1, <2>2, <2>3, <2>4, PaddedPlanFits
<1>3. layout.shape \in Over => plan.need = plan.used
  <2>1. Filled(items, content)
    BY WholeFilled DEF StructInv
  <2> QED
    BY <2>1, OverUsedIs DEF StructInv
<1>4. /\ plan.used \in Nat /\ plan.need <= plan.used
      /\ plan \in [need: Nat, early: Starts, stores: Within(plan.used), late: Errors, used: Nat]
  <2>1. CASE Contained(plan)
    BY <2>1 DEF Contained, Plans, Starts
  <2>2. CASE plan = PanicPlan
    <3>1. <<>> \in Within(0)
      BY Empty
    <3> QED
      BY <2>2, <3>1 DEF PanicPlan, Plan, Errors, Starts
  <2> QED
    BY <1>1, <2>1, <2>2
<1> QED
  BY <1>1, <1>2, <1>3, <1>4

\* A case is a struct with a content of it.
LEMMA CaseWhole ==
    ASSUME NEW k \in Cases
    PROVE  Whole(k.items, k.content) /\ ShapeHolds(k.items, k.content, Classify(k.items))
  BY CasesAssumption DEF Whole, ContentOf

LEMMA ZeroesType ==
    ASSUME NEW n \in Nat
    PROVE  Zeroes(n) \in Bytes /\ Len(Zeroes(n)) = n
<1>1. 0 \in Byte
  BY BaseAssumption DEF Byte, MaxByte
<1> QED
  BY <1>1 DEF Zeroes, Bytes

\* Nothing is stored yet.
LEMMA InitWriterInv ==
    ASSUME \A k \in Cases : HookInFront(Classify(k.items)), Init
    PROVE  WriterInv
<1>1. PICK k \in Cases : items = k.items /\ content = k.content
  BY DEF Init
<1>2. Whole(items, content) /\ ShapeHolds(items, content, layout) /\ HookInFront(layout)
  BY <1>1, CaseWhole DEF Init
<1>3. LayWell(items, layout)
  <2>1. items \in Seq(Items)
    BY <1>2 DEF Whole, StructWell
  <2> QED
    BY <2>1, ClassifiedWell DEF Init
<1>4. StructInv
  BY <1>2, <1>3 DEF StructInv, Init
<1>5. plan.used \in Nat
  BY <1>4, PlanInv
<1>6. buffer \in Bytes /\ handed = buffer
  <2>1. PICK n \in Sizes, fill \in Fills : buffer = [i \in 1 .. n |-> fill]
    BY DEF Init
  <2>2. n \in Nat /\ fill \in Byte
    BY BuffersAssumption DEF Byte
  <2> QED
    BY <2>1, <2>2 DEF Bytes, Init
<1>7. CallInv
  <2>1. todo = <<>> /\ call = "free" /\ by = "none" /\ result = Pending
    BY DEF Init
  <2>2. result.is = "none"
    BY <2>1 DEF Pending, Result
  <2> QED
    BY <1>6, <2>1, <2>2, Empty DEF CallInv
<1> QED
  BY <1>4, <1>6, <1>7 DEF WriterInv, BehindSame

-----------------------------------------------------------------------------
(* One lemma for each kind of step.                                        *)

\* A step that leaves the struct alone.
LEMMA StructStays ==
    ASSUME StructInv, UNCHANGED struct
    PROVE  StructInv' /\ plan' = plan /\ layout' = layout /\ items' = items
  BY DEF StructInv, struct

LEMMA StartKeeps ==
    ASSUME WriterInv, WriteInto \/ ToVec
    PROVE  WriterInv'
<1>1. call = "free" /\ StructInv /\ CallInv /\ UNCHANGED struct /\ BehindSame
  BY DEF WriteInto, ToVec, WriterInv
<1>2. StructInv' /\ plan' = plan /\ layout' = layout
  BY <1>1, StructStays
<1>3. /\ plan.used \in Nat /\ plan.need \in Nat /\ plan.stores \in Within(plan.used)
      /\ layout.shape \in Over => plan.need = plan.used
  BY <1>1, PlanInv
<1>4. result' = Pending /\ Pending.is = "none" /\ todo' = plan.stores /\ call' = "busy"
  BY <1>1 DEF WriteInto, ToVec, CallInv, Pending, Result
<1>5. CASE WriteInto
  <2>1. buffer \in Bytes /\ UNCHANGED <<buffer, handed>> /\ by' = "write_into"
    BY <1>1, <1>5 DEF CallInv, WriteInto
  <2>2. CallInv'
    BY <1>2, <1>3, <1>4, <2>1 DEF CallInv
  <2> QED
    BY <1>1, <1>2, <2>1, <2>2 DEF WriterInv, BehindSame
<1>6. CASE ToVec
  <2> DEFINE n == IF layout.shape = "ContentHookNoWidth" THEN FirstCap ELSE plan.need
  <2>1. n \in Nat /\ (layout.shape \in Over => n = plan.used)
    BY <1>3, BuffersAssumption DEF Over
  <2>2. buffer' = Zeroes(n) /\ handed' = buffer' /\ by' = "to_vec"
    BY <1>6 DEF ToVec
  <2> HIDE DEF n
  <2>3. buffer' \in Bytes /\ Len(buffer') = n
    BY <2>1, <2>2, ZeroesType
  <2>4. CallInv'
    BY <1>2, <1>3, <1>4, <2>1, <2>2, <2>3 DEF CallInv
  <2> QED
    BY <1>2, <2>2, <2>4 DEF WriterInv, BehindSame
<1> QED
  BY <1>5, <1>6

\* The return of a call, to_vec's that tries again included.
LEMMA ReturnKeeps ==
    ASSUME WriterInv, call = "busy", NEW is, NEW used, Return(is, used), UNCHANGED <<struct, by>>,
           is # "vec",
           is = "ok" => used = plan.used /\ (layout.shape \in Over => used <= Len(buffer))
    PROVE  WriterInv'
<1>1. StructInv /\ CallInv /\ UNCHANGED struct /\ BehindSame /\ by' = by
  BY DEF WriterInv
<1>2. StructInv' /\ plan' = plan /\ layout' = layout
  BY <1>1, StructStays
<1>3. /\ plan.used \in Nat /\ plan.stores \in Within(plan.used)
  BY <1>1, PlanInv
<1>4. buffer \in Bytes /\ result = Pending /\ Len(buffer) \in Nat
  BY <1>1 DEF CallInv, Bytes
<1>5. <<>> \in Within(plan.used)
  BY Empty
<1>6. CASE is = "panic" \/ by # "to_vec"
  <2>1. result' = Result(is, used) /\ call' = "returned" /\ todo' = <<>> /\ UNCHANGED <<buffer, handed>>
    BY <1>6 DEF Return
  <2>2. result'.is = is /\ result'.used = used
    BY <2>1 DEF Result
  <2>3. CallInv'
    BY <1>1, <1>2, <1>3, <1>4, <1>5, <2>1, <2>2 DEF CallInv
  <2> QED
    BY <1>1, <1>2, <2>1, <2>3 DEF WriterInv, BehindSame
<1>7. CASE /\ is # "panic" /\ by = "to_vec"
           /\ layout.shape = "ContentHookNoWidth" /\ Grow
  <2>1. /\ buffer' = Zeroes(2 * Len(buffer)) /\ handed' = buffer' /\ todo' = plan.stores
        /\ call' = call /\ result' = result
    BY <1>7 DEF Grow
  <2>2. 2 * Len(buffer) \in Nat
    BY <1>4
  <2>3. buffer' \in Bytes
    BY <2>1, <2>2, ZeroesType
  <2>4. Pending.is = "none" /\ layout.shape \notin Over
    BY <1>7 DEF Pending, Result, Over
  <2>5. CallInv'
    BY <1>1, <1>2, <1>3, <1>4, <1>7, <2>1, <2>3, <2>4 DEF CallInv
  <2> QED
    BY <1>2, <2>1, <2>5 DEF WriterInv, BehindSame
<1>8. CASE /\ is # "panic" /\ by = "to_vec" /\ Vector(is, used)
  <2> DEFINE end == IF is = "ok" THEN used ELSE 0
             cut == IF layout.shape \notin Cutting THEN buffer ELSE SubSeq(buffer, 1, end)
  <2>1. /\ buffer' = cut /\ result' = Result("vec", Len(cut)) /\ call' = "returned"
        /\ todo' = <<>> /\ handed' = handed
    BY <1>8 DEF Vector
  <2>2. result'.is = "vec" /\ result'.used = Len(cut)
    BY <2>1 DEF Result
  <2>3. CASE layout.shape \notin Cutting
    <3>1. cut = buffer
      BY <2>3
    <3> HIDE DEF cut
    <3>2. CallInv'
      BY <1>1, <1>2, <1>3, <1>4, <1>5, <1>8, <2>1, <2>2, <3>1 DEF CallInv
    <3> QED
      BY <1>1, <1>2, <2>1, <3>1, <3>2 DEF WriterInv, BehindSame
  <2>4. CASE layout.shape \in Cutting
    <3>1. end \in Nat /\ end <= plan.used
      BY <1>3
    <3>2. Len(cut) = end
      <4>1. \A j \in 1 .. end : buffer[j] \in {buffer[m] : m \in 1 .. end}
        OBVIOUS
      <4>2. cut = SubSeq(buffer, 1, end)
        BY <2>4
      <4> HIDE DEF end, cut
      <4>3. Len(SubSeq(buffer, 1, end)) = IF 1 <= end THEN end - 1 + 1 ELSE 0
        BY <3>1, <4>1, SubSeqProperties
      <4> QED
        BY <3>1, <4>2, <4>3
    <3>3. layout.shape \notin Over
      BY <2>4 DEF Cutting, Over
    <3> HIDE DEF end, cut
    <3>4. CallInv'
      BY <1>1, <1>2, <1>5, <2>1, <2>2, <2>4, <3>3, <1>8 DEF CallInv
    <3>5. BehindSame'
      BY <1>2, <1>3, <2>1, <3>1, <3>2 DEF BehindSame
    <3> QED
      BY <1>2, <3>4, <3>5 DEF WriterInv
  <2> QED
    BY <2>3, <2>4
<1> QED
  BY <1>6, <1>7, <1>8 DEF Return

LEMMA RefuseKeeps ==
    ASSUME WriterInv, Refuse
    PROVE  WriterInv'
<1> DEFINE is == Refusal(Len(buffer))
<1>1. call = "busy" /\ is # "none" /\ Return(is, 0) /\ UNCHANGED <<struct, by>>
  BY DEF Refuse, Writing
<1>2. StructInv
  BY <1>1 DEF WriterInv
<1>3. plan.early \in Starts
  BY <1>2, PlanInv
<1>4. is \notin {"vec", "ok"}
  BY <1>3 DEF Refusal, Errors, Starts
<1> HIDE DEF is
<1> QED
  BY <1>1, <1>4, ReturnKeeps

LEMMA PutKeeps ==
    ASSUME WriterInv, Put
    PROVE  WriterInv'
<1>1. /\ call = "busy" /\ by # "new" /\ StructInv /\ CallInv /\ BehindSame /\ todo # <<>>
      /\ buffer' = Stored(buffer, Head(todo)) /\ todo' = Tail(todo)
      /\ UNCHANGED <<struct, by, call, handed, result>>
  BY DEF WriterInv, Put, Accepted, Writing
<1>2. StructInv' /\ plan' = plan /\ layout' = layout
  BY <1>1, StructStays
<1>3. plan.used \in Nat /\ todo \in Within(plan.used) /\ buffer \in Bytes /\ result = Pending
  BY <1>1, PlanInv DEF CallInv
<1>4. Head(todo) \in Placed(plan.used) /\ Tail(todo) \in Within(plan.used)
  BY <1>1, <1>3, SomeStores DEF Within
<1>5. buffer \in Same(buffer, plan.used)
  BY <1>3 DEF Same
<1>6. buffer' \in Same(buffer, plan.used)
  BY <1>1, <1>3, <1>4, <1>5, StoredSame
<1>7. /\ buffer' \in Bytes /\ Len(buffer') = Len(buffer)
      /\ \A k \in 1 .. Len(buffer) : k > plan.used => buffer'[k] = buffer[k]
  BY <1>6 DEF Same
<1>8. CallInv'
  BY <1>1, <1>2, <1>3, <1>4, <1>7 DEF CallInv, Pending, Result
<1>9. BehindSame'
  BY <1>1, <1>2, <1>7 DEF BehindSame
<1> QED
  BY <1>2, <1>8, <1>9 DEF WriterInv

LEMMA EndKeeps ==
    ASSUME WriterInv, OutOfRange \/ Finish \/ Built
    PROVE  WriterInv'
<1>1. call = "busy" /\ StructInv /\ CallInv /\ UNCHANGED <<struct, by>>
  BY DEF WriterInv, OutOfRange, Finish, Built, Accepted, Writing
<1>2. /\ plan.late \in Errors /\ plan.used \in Nat /\ plan.need \in Nat
      /\ layout.shape \in Over => plan.need = plan.used
  BY <1>1, PlanInv
<1>3. Len(buffer) \in Nat
  BY <1>1 DEF CallInv, Bytes
<1>4. CASE OutOfRange
  <2>1. Return(IF Head(todo).hook THEN "NotEnoughSpace" ELSE "panic", 0)
    BY <1>4 DEF OutOfRange
  <2> DEFINE is == IF Head(todo).hook THEN "NotEnoughSpace" ELSE "panic"
  <2>2. is \notin {"ok", "vec"} /\ Return(is, 0)
    BY <2>1
  <2> HIDE DEF is
  <2> QED
    BY <1>1, <2>2, ReturnKeeps
<1>5. CASE Finish
  <2>1. Refusal(Len(buffer)) = "none"
    BY <1>5 DEF Finish, Accepted
  <2>2. plan.need <= Len(buffer)
    BY <1>2, <1>3, <2>1 DEF Refusal
  <2>3. CASE plan.late = "none"
    <3>1. Return("ok", plan.used)
      BY <1>5, <2>3 DEF Finish
    <3> QED
      BY <1>1, <1>2, <2>2, <3>1, ReturnKeeps
  <2>4. CASE plan.late # "none"
    <3>1. Return(plan.late, 0)
      BY <1>5, <2>4 DEF Finish
    <3>2. plan.late \notin {"ok", "vec"}
      BY <1>2 DEF Errors
    <3> QED
      BY <1>1, <3>1, <3>2, ReturnKeeps
  <2> QED
    BY <2>3, <2>4
<1>6. CASE Built
  <2>1. Return("ok", plan.used) /\ by = "new"
    BY <1>6 DEF Built
  <2>2. plan.need <= Len(buffer)
    BY <1>1, <2>1 DEF CallInv
  <2> QED
    BY <1>1, <1>2, <2>1, <2>2, ReturnKeeps
<1> QED
  BY <1>4, <1>5, <1>6

\* What new stores, and what it leaves for the setters.
LEMMA NewStoresFit ==
    ASSUME StructInv, Settable, NEW T, plan.stores \in Seq(T)
    PROVE  NewStores \in Seq(T) /\ SetterStores \in Seq(T)
<1>2. layout.shape \notin {"Fixed", "DynamicTailOpen"} => plan.stores # <<>>
  BY PlanInv DEF Settable
<1>3. NewStores \in Seq(T) /\ Len(NewStores) \in {0, 1}
      /\ (Len(NewStores) = 1 => plan.stores # <<>>)
  <2>1. CASE layout.shape \in {"Fixed", "FixedPadded", "DynamicTailOpen"}
    <3>1. NewStores = <<>>
      BY <2>1 DEF NewStores
    <3> QED
      BY <3>1
  <2>2. CASE layout.shape \notin {"Fixed", "FixedPadded", "DynamicTailOpen"}
    <3>1. NewStores = <<Head(plan.stores)>>
      BY <2>2 DEF NewStores
    <3>2. plan.stores # <<>>
      BY <1>2, <2>2
    <3>3. <<Head(plan.stores)>> \in Seq(T)
      BY <3>2, SomeStores
    <3> QED
      BY <3>1, <3>2, <3>3
  <2> QED
    BY <2>1, <2>2
<1>4. OwnStores \in {0, 1} /\ (OwnStores = 1 => plan.stores # <<>>)
  BY <1>2, <1>3 DEF OwnStores
<1> DEFINE rest == SubSeq(plan.stores, OwnStores + 1, Len(plan.stores))
<1>5. rest \in Seq(T)
  <2>1. CASE OwnStores = 0
    <3>1. OwnStores + 1 = 1
      BY <2>1
    <3> QED
      BY <3>1, SomeStores
  <2>2. CASE OwnStores = 1
    <3>1. OwnStores + 1 = 2 /\ plan.stores # <<>>
      BY <1>4, <2>2
    <3> QED
      BY <3>1, SomeStores
  <2> QED
    BY <1>4, <2>1, <2>2
<1>6. SetterStores \in Seq(T)
  <2> DEFINE kept == {rest[n] : n \in {m \in 1 .. Len(rest) : rest[m].at \notin ConstantOffsets}}
  <2>1. SetterStores = Those(rest, kept)
    BY Zenon DEF SetterStores
  <2> HIDE DEF rest, kept
  <2>2. Those(rest, kept) \in Seq(T)
    BY <1>5, SomeStores
  <2> QED
    BY <2>1, <2>2
<1> QED
  BY <1>3, <1>6

LEMMA NewKeeps ==
    ASSUME WriterInv, New
    PROVE  WriterInv'
<1>1. /\ call = "free" /\ Settable /\ by' = "new" /\ StructInv /\ CallInv /\ BehindSame
      /\ UNCHANGED struct /\ handed' = handed
  BY DEF WriterInv, New
<1>2. StructInv' /\ plan' = plan /\ layout' = layout
  BY <1>1, StructStays
<1>3. /\ plan.used \in Nat /\ plan.need \in Nat /\ plan.early \in Starts
      /\ buffer \in Bytes /\ Len(buffer) \in Nat /\ result = Pending /\ Pending.is = "none"
  BY <1>1, PlanInv DEF CallInv, Bytes, Pending, Result
<1>4. CASE Refusal(Len(buffer)) # "none"
  <2>1. result' = Result(Refusal(Len(buffer)), 0) /\ call' = "returned" /\ buffer' = buffer /\ todo' = todo
    BY <1>4 DEF New
  <2>2. result'.is \notin {"ok", "vec"}
    BY <1>3, <2>1 DEF Result, Refusal, Errors, Starts
  <2>3. CallInv'
    BY <1>1, <1>2, <1>3, <2>1, <2>2 DEF CallInv
  <2> QED
    BY <1>1, <1>2, <2>1, <2>3 DEF WriterInv, BehindSame
<1>5. CASE Refusal(Len(buffer)) = "none"
  <2>1. /\ buffer' = StoredAll(buffer, NewStores) /\ call' = "busy" /\ todo' = SetterStores
        /\ result' = result
    BY <1>5 DEF New
  <2>2. plan.need <= Len(buffer)
    BY <1>3, <1>5 DEF Refusal
  <2>3. NewStores \in Within(plan.used) /\ SetterStores \in Within(plan.used)
    BY <1>1, PlanInv, NewStoresFit DEF Within
  <2>4. buffer' \in Same(buffer, plan.used)
    BY <1>3, <2>1, <2>3, StoredAllSame
  <2>5. /\ buffer' \in Bytes /\ Len(buffer') = Len(buffer)
        /\ \A k \in 1 .. Len(buffer) : k > plan.used => buffer'[k] = buffer[k]
    BY <2>4 DEF Same
  <2>6. CallInv'
    BY <1>1, <1>2, <1>3, <2>1, <2>2, <2>3, <2>5 DEF CallInv
  <2>7. BehindSame'
    BY <1>1, <1>2, <2>5 DEF BehindSame
  <2> QED
    BY <1>2, <2>6, <2>7 DEF WriterInv
<1> QED
  BY <1>4, <1>5

LEMMA UniformFits ==
    ASSUME NEW room, NEW s \in Placed(room), NEW b \in Byte
    PROVE  /\ Uniform(s, b) \in Placed(room) /\ Uniform(s, b).at = s.at
           /\ Uniform(s, b).hook = s.hook /\ Len(Uniform(s, b).bytes) = Len(s.bytes)
<1>1. /\ s \in [at: Nat, bytes: Bytes, hook: BOOLEAN] /\ Len(s.bytes) \in Nat
      /\ s.at + Len(s.bytes) <= room
  BY DEF Placed, Bytes
<1> DEFINE other == [k \in 1 .. Len(s.bytes) |-> b]
<1>2. other \in Bytes /\ Len(other) = Len(s.bytes)
  BY <1>1 DEF Bytes
<1>3. Uniform(s, b) = [s EXCEPT !.bytes = other]
  BY DEF Uniform
<1> HIDE DEF other
<1>4. /\ Uniform(s, b) \in [at: Nat, bytes: Bytes, hook: BOOLEAN]
      /\ Uniform(s, b).at = s.at /\ Uniform(s, b).hook = s.hook /\ Uniform(s, b).bytes = other
  BY <1>1, <1>2, <1>3
<1> QED
  BY <1>1, <1>2, <1>4 DEF Placed

LEMMA SetterKeeps ==
    ASSUME WriterInv, call = "busy", by = "new", UNCHANGED <<struct, by>>,
           NEW s \in Placed(plan.used), NEW left \in Within(plan.used), SetterStep(s, left)
    PROVE  WriterInv'
<1>1. StructInv /\ CallInv /\ BehindSame /\ UNCHANGED struct /\ by' = by
  BY DEF WriterInv
<1>2. StructInv' /\ plan' = plan /\ layout' = layout
  BY <1>1, StructStays
<1>3. plan.used \in Nat /\ buffer \in Bytes /\ result = Pending /\ Pending.is = "none"
  BY <1>1, PlanInv DEF CallInv, Pending, Result
<1>4. CASE InRange(buffer, s)
  <2>1. buffer' = Stored(buffer, s) /\ todo' = left /\ UNCHANGED <<call, handed, result>>
    BY <1>4 DEF SetterStep
  <2>2. buffer \in Same(buffer, plan.used)
    BY <1>3 DEF Same
  <2>3. buffer' \in Same(buffer, plan.used)
    BY <1>3, <2>1, <2>2, StoredSame
  <2>4. /\ buffer' \in Bytes /\ Len(buffer') = Len(buffer)
        /\ \A k \in 1 .. Len(buffer) : k > plan.used => buffer'[k] = buffer[k]
    BY <2>3 DEF Same
  <2>5. CallInv'
    BY <1>1, <1>2, <1>3, <2>1, <2>4 DEF CallInv
  <2>6. BehindSame'
    BY <1>1, <1>2, <2>1, <2>4 DEF BehindSame
  <2> QED
    BY <1>2, <2>5, <2>6 DEF WriterInv
<1>5. CASE ~InRange(buffer, s)
  <2>1. Return("panic", 0)
    BY <1>5 DEF SetterStep
  <2> QED
    BY <1>1, <2>1, ReturnKeeps
<1> QED
  BY <1>4, <1>5

\* The last call of a setter, and one before it.
LEMMA SetKeeps ==
    ASSUME WriterInv, Set \/ SetBefore
    PROVE  WriterInv'
<1>1. /\ call = "busy" /\ by = "new" /\ UNCHANGED <<struct, by>> /\ StructInv /\ CallInv
  BY DEF WriterInv, Set, SetBefore
<1>2. todo \in Within(plan.used)
  BY <1>1 DEF CallInv
<1>3. ASSUME NEW n \in 1 .. Len(todo)
      PROVE  todo[n] \in Placed(plan.used) /\ Without(todo, n) \in Within(plan.used)
  BY <1>2, SomeStores DEF Within
<1>4. CASE Set
  <2>1. PICK n \in 1 .. Len(todo) : SetterStep(todo[n], Without(todo, n))
    BY <1>4 DEF Set
  <2> QED
    BY <1>1, <1>3, <2>1, SetterKeeps
<1>5. CASE SetBefore
  <2>1. PICK n \in 1 .. Len(todo), b \in Byte : SetterStep(Uniform(todo[n], b), todo)
    BY <1>5 DEF SetBefore
  <2>2. Uniform(todo[n], b) \in Placed(plan.used)
    BY <1>3, UniformFits
  <2> QED
    BY <1>1, <1>2, <2>1, <2>2, SetterKeeps
<1> QED
  BY <1>4, <1>5

\* The structs with a region whose packets can be edited.
LEMMA OverTail ==
    ASSUME StructInv, layout.shape \in Over, layout.shape \notin {"Fixed", "FixedPadded"}
    PROVE  TailIn(items, layout.region)
<1> DEFINE r == layout.region
<1>1. /\ items \in Seq(Items) /\ Len(items) \in Nat /\ Len(items) > 0 /\ LayWell(items, layout)
      /\ \A j \in 1 .. Len(items) : FieldWell(items[j], j)
  <2>1. Filled(items, content) /\ LayWell(items, layout)
    BY WholeFilled DEF StructInv
  <2>2. items # <<>>
    BY <2>1 DEF LayWell
  <2> QED
    BY <2>1, <2>2 DEF Filled
<1>2. ASSUME NEW set, r \in 1 .. Len(items), LenField(items, set, items[r].len) # 0, set \subseteq Nat \ {0}
      PROVE  Measured(items, r)
  <2>1. items[r] \in Items
    BY <1>1, <1>2
  <2>2. items[r].len \in Exprs
    BY <2>1, ItemType
  <2>3. items[r].len.of \in set /\ IsNumber(items[items[r].len.of])
    BY <1>2, <2>2, LenFieldIs
  <2>4. items[r].len.of < r
    BY <1>1, <1>2 DEF FieldWell
  <2>5. set \subseteq Nat \ {0} /\ items[r].len.of \in set /\ r \in 1 .. Len(items)
    BY <1>2, <2>3
  <2> HIDE DEF r
  <2>6. items[r].len.of \in Nat \ {0}
    BY <2>5
  <2>7. PICK a \in Nat, b \in Nat : a = items[r].len.of /\ b = r
    BY <2>5, <2>6
  <2>8. a # 0 /\ a < b
    BY <2>4, <2>6, <2>7
  <2>9. items[r].len.of \in 1 .. r - 1
    BY <2>7, <2>8
  <2> QED
    BY <2>3, <2>9 DEF Measured, r
<1>3. ASSUME NEW from \in Nat, NEW to, AllFixed(items, from, to)
      PROVE  \A j \in from .. to : items[j].kind \in SizedKinds
  BY <1>3, FixedIsSized DEF AllFixed
<1>4. CASE layout.shape = "DynamicTail"
  <2>1. /\ r = Len(items) /\ items[r].kind = "arr"
        /\ LenField(items, RunSet(items, r), items[r].len) # 0 /\ BehindSized(items, r)
    BY <1>1, <1>4 DEF LayWell
  <2>2. r \in 1 .. Len(items)
    BY <1>1, <2>1
  <2>3. RunSet(items, r) \subseteq Nat \ {0}
    <3>1. PICK m \in 0 .. Len(items) : m + 1 = r
      <4>1. r - 1 \in 0 .. Len(items) /\ (r - 1) + 1 = r
        BY <1>1, <2>1
      <4> QED
        BY <4>1
    <3>2. PrefixRun(items, m + 1) \in Seq(1 .. Len(items))
      <4>1. 1 \in 1 .. Len(items) + 1 /\ Sized(items)
        BY <1>1, FilledSized
      <4> QED
        BY <1>1, <4>1, OffsetPrefix
    <3>3. PrefixRun(items, r) \in Seq(1 .. Len(items))
      BY <3>1, <3>2
    <3>4. \A k \in 1 .. Len(PrefixRun(items, r)) : PrefixRun(items, r)[k] \in 1 .. Len(items)
      BY <3>3
    <3> QED
      BY <3>4 DEF RunSet
  <2>4. Measured(items, r)
    BY <1>2, <2>1, <2>2, <2>3
  <2> HIDE DEF r
  <2> QED
    BY <1>1, <2>1, <2>2, <2>4 DEF TailIn, BehindSized, r
<1>5. CASE layout.shape = "DynamicTailOpen"
  <2>1. r = Len(items) /\ items[r].kind = "greedy" /\ BehindSized(items, r)
    BY <1>1, <1>5 DEF LayWell
  <2> HIDE DEF r
  <2> QED
    BY <1>1, <2>1 DEF TailIn, BehindSized, r
<1>6. CASE layout.shape = "GreedyStructTail"
  <2>1. /\ r = Len(items) /\ items[r].kind = "recs" /\ items[r].len.of = 0
        /\ AllFixed(items, 1, r - 1)
    BY <1>1, <1>6 DEF LayWell, LastBehindFixed
  <2>2. \A j \in 1 .. r - 1 : items[j].kind \in SizedKinds
    BY <1>3, <2>1
  <2> HIDE DEF r
  <2> QED
    BY <1>1, <2>1, <2>2 DEF TailIn, r
<1>7. CASE layout.shape = "Forward"
  <2>1. /\ r \in 1 .. Len(items) /\ items[r].kind \in {"arr", "ref", "recs"}
        /\ AllFixed(items, 1, r - 1) /\ AllFixed(items, r + 1, Len(items))
        /\ LenField(items, 1 .. r - 1, items[r].len) # 0
    BY <1>1, <1>7 DEF LayWell, ForwardIn
  <2>2. r + 1 \in Nat /\ 1 .. r - 1 \subseteq Nat \ {0}
    BY <2>1
  <2>3. /\ \A j \in 1 .. r - 1 : items[j].kind \in SizedKinds
        /\ \A j \in r + 1 .. Len(items) : items[j].kind \in SizedKinds
    BY <1>3, <2>1, <2>2
  <2>4. Measured(items, r)
    BY <1>2, <2>1, <2>2
  <2> HIDE DEF r
  <2>5. \A j \in 1 .. Len(items) : j # r => j \in 1 .. r - 1 \/ j \in r + 1 .. Len(items)
    BY <1>1, <2>1
  <2> QED
    BY <1>1, <2>1, <2>3, <2>4, <2>5 DEF TailIn, r
<1> QED
  BY <1>4, <1>5, <1>6, <1>7 DEF Over

\* The length of the region that writer_over reads, and that the packet is as
\* long as writer_over then asks for.
LEMMA RegionLensIs ==
    ASSUME StructInv, layout.shape \in Over, layout.shape \notin {"Fixed", "FixedPadded"},
           NEW bytes \in Bytes, NEW r, r = Read(items, bytes), r.ok
    PROVE  /\ RegionLens(r) \in Nat /\ OverNeed(RegionLens(r)) \in Nat
           /\ OverNeed(RegionLens(r)) <= Len(bytes)
<1> DEFINE i == layout.region
           it == items[i]
<1>1. TailIn(items, i)
  BY OverTail
<1>2. /\ items \in Seq(Items) /\ i \in 1 .. Len(items) /\ Len(items) \in Nat /\ i \in Nat
      /\ i <= Len(items) /\ i <= Len(items) + 1
  BY <1>1 DEF TailIn
<1>3. /\ Rd(items, i, bytes, Len(items), r) /\ r.at <= Len(bytes)
      /\ Sum(items, Len(items)) + Extent(it, r, r.vals[i]) <= r.at
      /\ RdValue(it, r.vals[i]) /\ r.at \in Nat
  <2>1. RdIn(items, i, bytes, Len(items), r)
    BY <1>1, TailReads
  <2> QED
    BY <1>2, <2>1 DEF RdIn, Rd, RdStates
<1>4. PICK x \in Nat : x = Extent(it, r, r.vals[i])
  BY <1>1, <1>2, <1>3, ExtentIn
<1>5. PICK a \in Nat : a = Sum(items, Len(items))
                       /\ a = RunBytes(items, PrefixRun(items, Len(items) + 1))
  <2>1. Sized(items) /\ Len(items) \in 0 .. Len(items)
    BY <1>2, FilledSized
  <2> QED
    BY <1>2, <2>1, SumSteps, RunBytesUpto
<1>6. a + x <= Len(bytes)
  <2>1. Len(bytes) \in Nat
    BY DEF Bytes
  <2> QED
    BY <1>3, <1>4, <1>5, <2>1
<1>7. RegionLens(r) = IF it.kind = "ref" THEN Amount(it.len, r) ELSE Len(r.vals[i])
  BY Zenon DEF RegionLens
<1>8. OverNeed(RegionLens(r))
        = a + (IF it.kind = "recs" THEN RegionLens(r) * it.size ELSE RegionLens(r))
  <2>1. OverNeed(RegionLens(r))
          = RunBytes(items, PrefixRun(items, Len(items) + 1))
              + (IF it.kind = "recs" THEN RegionLens(r) * it.size ELSE RegionLens(r))
    BY Zenon DEF OverNeed
  <2> QED
    BY <1>5, <2>1
<1>9. x = IF it.kind = "recs" THEN RegionLens(r) * it.size ELSE RegionLens(r)
  <2>1. x = IF it.kind = "ref" THEN Amount(it.len, r)
            ELSE IF it.kind = "recs" THEN Len(r.vals[i]) * it.size ELSE Len(r.vals[i])
    BY <1>4 DEF Extent
  <2> HIDE DEF it, i
  <2> QED
    BY <1>7, <2>1
<1>10. RegionLens(r) \in Nat
  <2>1. CASE it.kind = "recs"
    <3>1. Len(r.vals[i]) \in Nat
      BY <1>3, <2>1 DEF RdValue
    <3> QED
      BY <1>7, <2>1, <3>1
  <2>2. CASE it.kind # "recs"
    BY <1>4, <1>9, <2>2
  <2> QED
    BY <2>1, <2>2
<1> HIDE DEF it, i
<1> QED
  BY <1>4, <1>5, <1>6, <1>8, <1>9, <1>10

\* A field with another value of the same length.
LEMMA EditedContent ==
    ASSUME StructInv, layout.shape \in Over, NEW k \in Cases, k.items = items,
           NEW i \in 1 .. Len(items), Editable(i),
           Len(FieldBytes(items[i], k.content[i])) = Len(FieldBytes(items[i], content[i])),
           NEW d, d = [content EXCEPT ![i] = k.content[i]]
    PROVE  /\ FieldBytes(items[i], k.content[i]) \in Bytes
           /\ WritePlan(items, d, layout).used = plan.used
<1>1. Filled(items, content) /\ Whole(items, content) /\ LayWell(items, layout)
  BY WholeFilled DEF StructInv
<1>2. Whole(items, k.content) /\ Filled(items, k.content)
  BY CaseWhole, WholeFilled
<1>3. Filled(items, d)
  <2>1. DOMAIN d = 1 .. Len(items) /\ \A j \in 1 .. Len(items) : d[j] \in {content[j], k.content[j]}
    BY <1>1 DEF Whole
  <2>2. \A j \in 1 .. Len(items) : ItemHolds(items[j], d[j])
    BY <1>1, <1>2, <2>1 DEF Whole
  <2>3. Whole(items, d)
    BY <1>1, <2>1, <2>2 DEF Whole
  <2> QED
    BY <2>3, WholeFilled
<1>4. items[i].kind \in {"num", "int", "bits", "fixed", "arr", "greedy", "ref"}
  BY DEF Editable
<1>5. FieldHolds(items[i], k.content[i])
  BY <1>2, <1>4 DEF Filled
<1>6. FieldBytes(items[i], k.content[i]) \in Bytes
  BY <1>4, <1>5 DEF FieldHolds, FieldBytes, IsNumber, Bytes
<1>7. layout.shape \notin {"Fixed", "FixedPadded"} => Len(d[layout.region]) = Len(content[layout.region])
  <2> SUFFICES ASSUME layout.shape \notin {"Fixed", "FixedPadded"}
               PROVE  Len(d[layout.region]) = Len(content[layout.region])
    OBVIOUS
  <2>1. layout.region \in 1 .. Len(items)
        /\ items[layout.region].kind \in {"arr", "greedy", "recs", "ref"}
    <3>1. Len(items) \in Nat /\ Len(items) > 0
      BY <1>1, FilledSized DEF Filled, LayWell
    <3>2. CASE layout.shape = "Forward"
      BY <1>1, <3>2 DEF LayWell, ForwardIn
    <3>3. CASE layout.shape \in {"DynamicTail", "DynamicTailOpen", "GreedyStructTail"}
      BY <1>1, <3>1, <3>3 DEF LayWell, LastBehindFixed
    <3> QED
      BY <3>2, <3>3 DEF Over
  <2>2. CASE i = layout.region
    <3>1. items[i].kind \in {"arr", "greedy", "ref"}
      BY <1>4, <2>1, <2>2
    <3>2. /\ FieldBytes(items[i], k.content[i]) = k.content[i]
          /\ FieldBytes(items[i], content[i]) = content[i]
      BY <3>1 DEF FieldBytes, IsNumber
    <3>3. d[i] = k.content[i]
      BY <1>1 DEF Whole
    <3> QED
      BY <2>2, <3>2, <3>3
  <2>3. CASE i # layout.region
    <3>1. d[layout.region] = content[layout.region]
      BY <1>1, <2>1, <2>3 DEF Whole
    <3> QED
      BY <3>1
  <2> QED
    BY <2>2, <2>3
<1>8. OverUsed(items, d, layout) = OverUsed(items, content, layout)
  BY <1>7, OverUsedSame
<1>9. /\ WritePlan(items, d, layout).used = OverUsed(items, d, layout)
      /\ WritePlan(items, content, layout).used = OverUsed(items, content, layout)
  BY <1>1, <1>3, OverUsedIs
<1> QED
  BY <1>6, <1>8, <1>9 DEF StructInv

LEMMA EditKeeps ==
    ASSUME WriterInv, Edit
    PROVE  WriterInv'
<1>1. /\ call = "returned" /\ call' = "edited" /\ StructInv /\ CallInv /\ BehindSame
      /\ result.is \in {"ok", "vec"} /\ layout.shape \in Over /\ handed' = handed
  BY DEF WriterInv, Edit
<1> DEFINE written == SubSeq(buffer, 1, result.used)
           r == Read(items, written)
           fixed == layout.shape \in {"Fixed", "FixedPadded"}
           invalid == ~fixed /\ ~r.ok
           lens == IF fixed \/ invalid THEN 0 ELSE RegionLens(r)
           value(k, i) == FieldBytes(items[i], k.content[i])
<1>2. PICK k \in Cases, i \in 1 .. Len(items) :
        /\ k.items = items /\ Editable(i)
        /\ Len(value(k, i)) = Len(FieldBytes(items[i], content[i]))
        /\ IF invalid \/ OverNeed(lens) > Len(written)
           THEN UNCHANGED <<buffer, content, plan>>
           ELSE /\ buffer' = Stored(buffer, Store(FieldAt(lens, i), value(k, i)))
                /\ content' = [content EXCEPT ![i] = k.content[i]]
                /\ plan' = WritePlan(items, content', layout)
  BY Zenon DEF Edit
<1>3. plan.used \in Nat /\ plan.need \in Nat /\ plan.need = plan.used
  BY <1>1, PlanInv
<1>4. /\ result.used \in Nat /\ result.used <= Len(buffer) /\ result.used <= plan.used
      /\ buffer \in Bytes /\ Len(buffer) \in Nat
  BY <1>1 DEF CallInv, Over, Cutting, Bytes
<1>5. written \in Bytes /\ Len(written) = result.used
  <2>1. \A j \in 1 .. result.used : buffer[j] \in Byte
    BY <1>4 DEF Bytes
  <2>2. /\ SubSeq(buffer, 1, result.used) \in Seq(Byte)
        /\ Len(SubSeq(buffer, 1, result.used)) = IF 1 <= result.used THEN result.used - 1 + 1 ELSE 0
    BY <1>4, <2>1, SubSeqProperties
  <2> QED
    BY <1>4, <2>2 DEF Bytes
<1> HIDE DEF written
<1>6. CASE invalid \/ OverNeed(lens) > Len(written)
  <2>1. UNCHANGED <<buffer, content, plan>>
    BY <1>2, <1>6
  <2> QED
    BY <1>1, <2>1 DEF WriterInv, BehindSame
<1>7. CASE ~(invalid \/ OverNeed(lens) > Len(written))
  <2>1. /\ buffer' = Stored(buffer, Store(FieldAt(lens, i), value(k, i)))
        /\ content' = [content EXCEPT ![i] = k.content[i]]
        /\ plan' = WritePlan(items, content', layout)
    BY <1>2, <1>7
  <2>2. value(k, i) \in Bytes /\ plan'.used = plan.used
    BY <1>1, <1>2, <2>1, EditedContent
  <2>3. Filled(items, content) /\ LayWell(items, layout)
    BY <1>1, WholeFilled DEF StructInv
  <2>4. plan.used = OverUsed(items, content, layout)
    BY <1>1, <2>3, OverUsedIs DEF StructInv
  <2>5. ASSUME layout.shape = "Forward"
        PROVE  /\ lens \in Nat
               /\ Sum(items, Len(items)) + ForwardBytes(items[layout.region], lens)
                    <= OverUsed(items, content, layout)
    <3>1. r.ok /\ lens = RegionLens(r)
      BY <1>7, <2>5
    <3>2. lens \in Nat
      BY <1>1, <1>5, <2>5, <3>1, RegionLensIs DEF Over
    <3> HIDE DEF lens, r
    <3>3. /\ Len(items) \in Nat /\ Sized(items) /\ Len(items) \in 0 .. Len(items)
          /\ layout.region \in 1 .. Len(items) /\ items[layout.region] \in Items
      <4>1. items \in Seq(Items)
        BY <2>3 DEF Filled
      <4>2. layout.region \in 1 .. Len(items)
        BY <2>3, <2>5 DEF LayWell, ForwardIn
      <4>3. Len(items) \in Nat
        BY <4>1
      <4> QED
        BY <4>1, <4>2, <4>3, FilledSized
    <3>4. RunBytes(items, PrefixRun(items, Len(items) + 1)) = Sum(items, Len(items))
          /\ Sum(items, Len(items)) \in Nat
      BY <3>3, RunBytesUpto, SumSteps
    <3>5. OverNeed(lens) = Sum(items, Len(items)) + ForwardBytes(items[layout.region], lens)
      <4>1. OverNeed(lens)
              = RunBytes(items, PrefixRun(items, Len(items) + 1))
                  + (IF items[layout.region].kind = "recs" THEN lens * items[layout.region].size ELSE lens)
        BY <2>5, Zenon DEF OverNeed
      <4> QED
        BY <3>4, <4>1 DEF ForwardBytes
    <3>6. ForwardBytes(items[layout.region], lens) \in Nat
      <4>1. items[layout.region].size \in Nat
        BY <3>3, ItemType
      <4>2. lens * items[layout.region].size \in Nat
        BY <3>2, <4>1
      <4> QED
        BY <3>2, <4>2 DEF ForwardBytes
    <3>7. ~(OverNeed(lens) > Len(written))
      BY <1>7
    <3> QED
      BY <1>3, <1>4, <1>5, <2>4, <3>2, <3>4, <3>5, <3>6, <3>7
  <2> HIDE DEF lens
  <2>6. /\ FieldAt(lens, i) \in Nat
        /\ FieldAt(lens, i) + Len(value(k, i)) <= plan.used
    BY <1>1, <1>2, <2>3, <2>4, <2>5, EditFits
  <2> HIDE DEF value
  <2>7. Store(FieldAt(lens, i), value(k, i)) \in Placed(plan.used)
    BY <1>3, <2>2, <2>6, StoreFits
  <2>8. buffer \in Same(buffer, plan.used)
    BY <1>4 DEF Same
  <2>9. buffer' \in Same(buffer, plan.used)
    BY <1>3, <1>4, <2>1, <2>7, <2>8, StoredSame
  <2>10. Len(buffer') = Len(buffer) /\ \A j \in 1 .. Len(buffer) : j > plan.used => buffer'[j] = buffer[j]
    BY <2>9 DEF Same
  <2>11. BehindSame'
    BY <1>1, <2>2, <2>10 DEF BehindSame
  <2> QED
    BY <1>1, <2>11 DEF WriterInv
<1> QED
  BY <1>6, <1>7

-----------------------------------------------------------------------------
(* Room: what a call says of the buffer it was given.                      *)

\* The stores still to come end where the writer has asked for room, or ask
\* for it themselves, and the buffer keeps the length it was given with.
StoresInv ==
    /\ RoomCounted(items, layout) /\ plan.early # "panic"
    /\ todo \in Seq(Counted(plan))
    /\ call \in {"free", "busy"} => Len(handed) = Len(buffer)
    /\ by = "new" => Settable
    /\ layout.shape \in Over /\ result.is \in {"ok", "vec"} => result.used = plan.used

RoomInv == RoomIsEnough /\ (call # "edited" => StoresInv)

LEMMA PlanRoom ==
    ASSUME StructInv, RoomCounted(items, layout)
    PROVE  /\ plan.stores \in Seq(Counted(plan))
           /\ layout.shape # "ContentHookNoWidth" => plan.need = plan.used
  BY PlansCounted DEF StructInv

\* A store that is counted but out of range is a hook's, in too short a buffer.
LEMMA CountedInRange ==
    ASSUME NEW s \in Counted(plan), plan.need \in Nat, plan.used \in Nat, NEW bytes \in Bytes,
           plan.need <= Len(bytes), ~InRange(bytes, s)
    PROVE  s.hook /\ Len(bytes) < plan.used
<1>1. PICK n \in Nat, e \in Nat :
        n = Len(bytes) /\ e = s.at + Len(s.bytes) /\ e <= plan.used /\ (s.hook \/ e <= plan.need)
  BY DEF Counted, Placed, Bytes
<1>2. ~(e <= n)
  BY <1>1 DEF InRange
<1> QED
  BY <1>1, <1>2

\* The condition of a conditional does not go below zero, where the writer's
\* arithmetic panics.
ConditionInRange(fields, c) ==
    LET lay == Classify(fields)
    IN  lay.shape = "Conditional" => ~ConditionPanics(fields[lay.region], c)

LEMMA NoPanicPlanned ==
    ASSUME NEW k \in Cases, HookInFront(Classify(k.items)), ConditionInRange(k.items, k.content),
           Written(Classify(k.items))
    PROVE  WritePlan(k.items, k.content, Classify(k.items)).early # "panic"
<1> DEFINE lay == Classify(k.items)
<1>1. Whole(k.items, k.content) /\ ShapeHolds(k.items, k.content, lay)
  BY CaseWhole
<1>2. LayWell(k.items, lay)
  <2>1. k.items \in Seq(Items)
    BY <1>1 DEF Whole, StructWell
  <2> QED
    BY <2>1, ClassifiedWell
<1>3. ~Panicking(k.items, k.content, lay)
  BY DEF Panicking, ConditionInRange
<1>4. Contained(WritePlan(k.items, k.content, lay))
  BY <1>1, <1>2, <1>3, PlansContained
<1> QED
  BY <1>4 DEF Contained, Plans, Errors

LEMMA InitRoomInv ==
    ASSUME \A k \in Cases : /\ HookInFront(Classify(k.items)) /\ RoomCounted(k.items, Classify(k.items))
                            /\ ConditionInRange(k.items, k.content),
           Init
    PROVE  RoomInv
<1>1. RoomCounted(items, layout) /\ plan.early # "panic"
  BY NoPanicPlanned DEF Init, Written
<1>2. /\ todo = <<>> /\ call = "free" /\ by = "none" /\ handed = buffer
      /\ result.is = "none"
  BY DEF Init, Pending, Result
<1>3. StoresInv
  BY <1>1, <1>2 DEF StoresInv
<1> QED
  BY <1>2, <1>3 DEF RoomInv, RoomIsEnough

\* A step that leaves the struct alone.
LEMMA RoomStays ==
    ASSUME UNCHANGED struct
    PROVE  /\ plan' = plan /\ layout' = layout /\ items' = items
           /\ RoomCounted(items, layout) => RoomCounted(items', layout')
           /\ Settable => Settable'
<1>1. plan' = plan /\ layout' = layout /\ items' = items
  BY DEF struct
<1> QED
  BY <1>1 DEF Settable

LEMMA StartRoom ==
    ASSUME WriterInv, RoomInv, WriteInto \/ ToVec
    PROVE  RoomInv'
<1>1. /\ call = "free" /\ call' = "busy" /\ StructInv /\ CallInv /\ StoresInv /\ UNCHANGED struct
      /\ todo' = plan.stores /\ by' \in {"write_into", "to_vec"} /\ result' = result
  BY DEF WriteInto, ToVec, WriterInv, RoomInv
<1>2. plan.stores \in Seq(Counted(plan))
  BY <1>1, PlanRoom DEF StoresInv
<1>3. result'.is = "none"
  BY <1>1 DEF CallInv, Pending, Result
<1>4. Len(handed') = Len(buffer')
  BY <1>1 DEF WriteInto, ToVec, StoresInv
<1>5. StoresInv'
  BY <1>1, <1>2, <1>3, <1>4, RoomStays DEF StoresInv
<1> QED
  BY <1>3, <1>5 DEF RoomInv, RoomIsEnough

\* A call that says there is not enough room, or has written the packet.
LEMMA ReturnRoom ==
    ASSUME WriterInv, RoomInv, call = "busy", NEW is, NEW used, Return(is, used),
           UNCHANGED <<struct, by>>, is \notin {"vec", "panic"},
           is = "ok" => used = plan.used,
           is = "NotEnoughSpace" => Len(buffer) < plan.used
    PROVE  RoomInv'
<1>1. /\ StructInv /\ CallInv /\ StoresInv /\ UNCHANGED struct /\ by' = by
      /\ Len(handed) = Len(buffer)
  BY DEF WriterInv, RoomInv, StoresInv
<1>2. <<>> \in Seq(Counted(plan)) /\ plan.stores \in Seq(Counted(plan))
  BY <1>1, PlanRoom DEF StoresInv
<1>3. result.is = "none"
  BY <1>1 DEF CallInv, Pending, Result
<1>4. CASE by # "to_vec"
  <2>1. /\ result' = Result(is, used) /\ call' = "returned" /\ todo' = <<>>
        /\ UNCHANGED <<buffer, handed>>
    BY <1>4 DEF Return
  <2>2. result'.is = is /\ result'.used = used
    BY <2>1 DEF Result
  <2>3. StoresInv'
    BY <1>1, <1>2, <2>1, <2>2, RoomStays DEF StoresInv
  <2>4. RoomIsEnough'
    BY <1>1, <2>1, <2>2, RoomStays DEF RoomIsEnough
  <2> QED
    BY <2>3, <2>4 DEF RoomInv
<1>5. CASE by = "to_vec" /\ Grow
  <2>1. /\ handed' = buffer' /\ todo' = plan.stores /\ call' = call /\ result' = result
    BY <1>5 DEF Grow
  <2>2. StoresInv'
    BY <1>1, <1>2, <1>3, <1>5, <2>1, RoomStays DEF StoresInv
  <2>3. RoomIsEnough'
    BY <1>3, <2>1 DEF RoomIsEnough
  <2> QED
    BY <2>2, <2>3 DEF RoomInv
<1>6. CASE by = "to_vec" /\ Vector(is, used)
  <2> DEFINE cut == IF layout.shape \notin Cutting THEN buffer
                    ELSE SubSeq(buffer, 1, IF is = "ok" THEN used ELSE 0)
  <2>1. result' = Result("vec", Len(cut)) /\ call' = "returned" /\ todo' = <<>>
    BY <1>6 DEF Vector
  <2>2. result'.is = "vec" /\ result'.used = Len(cut)
    BY <2>1 DEF Result
  <2>3. layout.shape \in Over => Len(cut) = plan.used
    <3>1. layout.shape \in Over => Len(buffer) = plan.used
      BY <1>1, <1>6 DEF CallInv
    <3> QED
      BY <3>1 DEF Over, Cutting
  <2> HIDE DEF cut
  <2>4. StoresInv'
    BY <1>1, <1>2, <1>6, <2>1, <2>2, <2>3, RoomStays DEF StoresInv
  <2>5. RoomIsEnough'
    BY <2>2 DEF RoomIsEnough
  <2> QED
    BY <2>4, <2>5 DEF RoomInv
<1> QED
  BY <1>4, <1>5, <1>6 DEF Return

\* A call is refused for want of room only where there is too little of it.
LEMMA RefusalRoom ==
    ASSUME StructInv, NEW room \in Nat
    PROVE  /\ Refusal(room) \in Starts \cup {"NotEnoughSpace"}
           /\ plan.early # "panic" => Refusal(room) # "panic"
           /\ Refusal(room) = "NotEnoughSpace" => room < plan.used
           /\ Refusal(room) = "none" => plan.need <= room
<1>1. /\ plan.early \in Starts /\ plan.need \in Nat /\ plan.used \in Nat /\ plan.need <= plan.used
  BY PlanInv
<1> QED
  BY <1>1 DEF Refusal, Errors, Starts

LEMMA RefuseRoom ==
    ASSUME WriterInv, RoomInv, Refuse
    PROVE  RoomInv'
<1> DEFINE is == Refusal(Len(buffer))
<1>1. call = "busy" /\ is # "none" /\ Return(is, 0) /\ UNCHANGED <<struct, by>>
  BY DEF Refuse, Writing
<1>2. StructInv /\ CallInv
  BY <1>1 DEF WriterInv
<1>3. Len(buffer) \in Nat
  BY <1>1, <1>2 DEF CallInv, Bytes
<1>4. is \in Starts \cup {"NotEnoughSpace"} /\ (is = "NotEnoughSpace" => Len(buffer) < plan.used)
      /\ is # "panic"
  BY <1>1, <1>2, <1>3, RefusalRoom DEF RoomInv, StoresInv
<1>5. is \notin {"vec", "panic", "ok"}
  BY <1>4 DEF Errors, Starts
<1> HIDE DEF is
<1> QED
  BY <1>1, <1>4, <1>5, ReturnRoom

LEMMA PutRoom ==
    ASSUME WriterInv, RoomInv, Put
    PROVE  RoomInv'
<1>1. /\ call = "busy" /\ by # "new" /\ CallInv /\ StoresInv /\ todo # <<>> /\ RoomIsEnough
      /\ buffer' = Stored(buffer, Head(todo)) /\ todo' = Tail(todo) /\ UNCHANGED struct
      /\ by' = by /\ call' = call /\ handed' = handed /\ result' = result
  BY DEF WriterInv, RoomInv, Put, Accepted, Writing
<1>2. Tail(todo) \in Seq(Counted(plan))
  BY <1>1, SomeStores DEF StoresInv
<1>3. Len(buffer') = Len(buffer)
  BY <1>1 DEF CallInv, Bytes, Stored
<1>4. StoresInv'
  BY <1>1, <1>2, <1>3, RoomStays DEF StoresInv
<1>5. RoomIsEnough'
  BY <1>1, RoomStays DEF RoomIsEnough
<1> QED
  BY <1>4, <1>5 DEF RoomInv

LEMMA OutOfRangeRoom ==
    ASSUME WriterInv, RoomInv, OutOfRange
    PROVE  RoomInv'
<1>1. /\ call = "busy" /\ StructInv /\ CallInv /\ StoresInv /\ todo # <<>>
      /\ ~InRange(buffer, Head(todo)) /\ Refusal(Len(buffer)) = "none"
      /\ Return(IF Head(todo).hook THEN "NotEnoughSpace" ELSE "panic", 0)
      /\ UNCHANGED <<struct, by>>
  BY DEF WriterInv, RoomInv, OutOfRange, Accepted, Writing
<1>2. buffer \in Bytes /\ Len(buffer) \in Nat
  BY <1>1 DEF CallInv, Bytes
<1>3. plan.need \in Nat /\ plan.used \in Nat /\ plan.need <= Len(buffer)
  BY <1>1, <1>2, PlanInv, RefusalRoom
<1>4. Head(todo) \in Counted(plan)
  BY <1>1, SomeStores DEF StoresInv
<1>5. Head(todo).hook /\ Len(buffer) < plan.used
  BY <1>1, <1>2, <1>3, <1>4, CountedInRange
<1>6. Return("NotEnoughSpace", 0)
  BY <1>1, <1>5
<1> QED
  BY <1>1, <1>5, <1>6, ReturnRoom

LEMMA EndRoom ==
    ASSUME WriterInv, RoomInv, Finish \/ Built
    PROVE  RoomInv'
<1>1. call = "busy" /\ StructInv /\ UNCHANGED <<struct, by>>
  BY DEF WriterInv, Finish, Built, Accepted, Writing
<1>2. plan.late \in Errors
  BY <1>1, PlanInv
<1>3. CASE Return("ok", plan.used)
  BY <1>1, <1>3, ReturnRoom
<1>4. CASE Return(plan.late, 0) /\ plan.late # "none"
  <2>1. plan.late \notin {"vec", "panic", "ok", "NotEnoughSpace"}
    BY <1>2 DEF Errors
  <2> QED
    BY <1>1, <1>4, <2>1, ReturnRoom
<1> QED
  BY <1>3, <1>4 DEF Finish, Built

LEMMA NewRoom ==
    ASSUME WriterInv, RoomInv, New
    PROVE  RoomInv'
<1>1. /\ call = "free" /\ Settable /\ by' = "new" /\ StructInv /\ CallInv /\ StoresInv
      /\ UNCHANGED struct /\ handed' = handed /\ Len(handed) = Len(buffer)
  BY DEF WriterInv, RoomInv, New, StoresInv
<1>2. buffer \in Bytes /\ Len(buffer) \in Nat /\ result.is = "none"
  BY <1>1 DEF CallInv, Bytes, Pending, Result
<1>3. CASE Refusal(Len(buffer)) # "none"
  <2>1. /\ result' = Result(Refusal(Len(buffer)), 0) /\ call' = "returned"
        /\ buffer' = buffer /\ todo' = todo
    BY <1>3 DEF New
  <2>2. /\ result'.is \in Starts \cup {"NotEnoughSpace"} /\ result'.is # "panic"
        /\ result'.is = "NotEnoughSpace" => Len(buffer) < plan.used
    BY <1>1, <1>2, <2>1, RefusalRoom DEF Result, StoresInv
  <2>3. StoresInv'
    BY <1>1, <2>1, <2>2, RoomStays DEF StoresInv, Errors, Starts
  <2>4. RoomIsEnough'
    BY <1>1, <2>1, <2>2, RoomStays DEF RoomIsEnough, Errors, Starts
  <2> QED
    BY <2>3, <2>4 DEF RoomInv
<1>4. CASE Refusal(Len(buffer)) = "none"
  <2>1. /\ buffer' = StoredAll(buffer, NewStores) /\ call' = "busy" /\ todo' = SetterStores
        /\ result' = result
    BY <1>4 DEF New
  <2>2. SetterStores \in Seq(Counted(plan))
    BY <1>1, PlanRoom, NewStoresFit DEF StoresInv
  <2>3. Len(buffer') = Len(buffer)
    <3>1. plan.used \in Nat /\ NewStores \in Within(plan.used)
      BY <1>1, PlanInv, NewStoresFit DEF Within
    <3>2. buffer' \in Same(buffer, plan.used)
      BY <1>2, <2>1, <3>1, StoredAllSame
    <3> QED
      BY <3>2 DEF Same
  <2>4. StoresInv'
    BY <1>1, <1>2, <2>1, <2>2, <2>3, RoomStays DEF StoresInv
  <2>5. RoomIsEnough'
    BY <1>2, <2>1 DEF RoomIsEnough
  <2> QED
    BY <2>4, <2>5 DEF RoomInv
<1> QED
  BY <1>3, <1>4

\* A setter finds room for its field: new has asked for the whole packet.
LEMMA SetterRoom ==
    ASSUME WriterInv, RoomInv, call = "busy", by = "new", UNCHANGED <<struct, by>>,
           NEW s \in Counted(plan), NEW left \in Seq(Counted(plan)), SetterStep(s, left)
    PROVE  RoomInv'
<1>1. /\ StructInv /\ CallInv /\ StoresInv /\ Settable /\ UNCHANGED struct /\ by' = by
  BY DEF WriterInv, RoomInv, StoresInv
<1>2. buffer \in Bytes /\ result.is = "none"
  BY <1>1 DEF CallInv, Pending, Result
<1>3. plan.need \in Nat /\ plan.need = plan.used /\ plan.need <= Len(buffer)
  <2>1. plan.need = plan.used
    BY <1>1, PlanRoom DEF Settable, StoresInv
  <2> QED
    BY <1>1, <2>1, PlanInv DEF CallInv
<1>4. InRange(buffer, s)
  <2> SUFFICES ASSUME ~InRange(buffer, s) PROVE FALSE
    OBVIOUS
  <2>1. Len(buffer) < plan.used
    BY <1>2, <1>3, CountedInRange
  <2>2. Len(buffer) \in Nat
    BY <1>2 DEF Bytes
  <2> QED
    BY <1>3, <2>1, <2>2
<1>5. /\ buffer' = Stored(buffer, s) /\ todo' = left
      /\ call' = call /\ handed' = handed /\ result' = result
  BY <1>4 DEF SetterStep
<1>6. Len(buffer') = Len(buffer)
  BY <1>2, <1>5 DEF Bytes, Stored
<1>7. StoresInv'
  BY <1>1, <1>2, <1>5, <1>6, RoomStays DEF StoresInv
<1> QED
  BY <1>2, <1>5, <1>7 DEF RoomInv, RoomIsEnough

LEMMA SetRoom ==
    ASSUME WriterInv, RoomInv, Set \/ SetBefore
    PROVE  RoomInv'
<1>1. call = "busy" /\ by = "new" /\ UNCHANGED <<struct, by>> /\ StoresInv
  BY DEF WriterInv, RoomInv, Set, SetBefore
<1>2. todo \in Seq(Counted(plan))
  BY <1>1 DEF StoresInv
<1>3. ASSUME NEW n \in 1 .. Len(todo)
      PROVE  todo[n] \in Counted(plan) /\ Without(todo, n) \in Seq(Counted(plan))
  BY <1>2, SomeStores
<1>4. CASE Set
  <2>1. PICK n \in 1 .. Len(todo) : SetterStep(todo[n], Without(todo, n))
    BY <1>4 DEF Set
  <2> QED
    BY <1>1, <1>3, <2>1, SetterRoom
<1>5. CASE SetBefore
  <2>1. PICK n \in 1 .. Len(todo), b \in Byte : SetterStep(Uniform(todo[n], b), todo)
    BY <1>5 DEF SetBefore
  <2>2. todo[n] \in Placed(plan.used) /\ (todo[n].hook \/ todo[n].at + Len(todo[n].bytes) <= plan.need)
    BY <1>3 DEF Counted
  <2>3. Uniform(todo[n], b) \in Counted(plan)
    BY <2>2, UniformFits DEF Counted
  <2> QED
    BY <1>1, <1>2, <2>1, <2>3, SetterRoom
<1> QED
  BY <1>4, <1>5

\* writer_over takes a packet that was written: it asks for no more than the
\* parser has found there.
LEMMA EditRoom ==
    ASSUME WriterInv, RoomInv, Edit
    PROVE  RoomInv'
<1>1. /\ call = "returned" /\ call' = "edited" /\ StructInv /\ CallInv /\ StoresInv
      /\ result.is \in {"ok", "vec"} /\ layout.shape \in Over
  BY DEF WriterInv, RoomInv, Edit
<1> DEFINE written == SubSeq(buffer, 1, result.used)
           r == Read(items, written)
           fixed == layout.shape \in {"Fixed", "FixedPadded"}
           invalid == ~fixed /\ ~r.ok
           lens == IF fixed \/ invalid THEN 0 ELSE RegionLens(r)
<1>2. IF invalid \/ OverNeed(lens) > Len(written)
      THEN result' = Result(IF invalid THEN "InvalidContent" ELSE "NotEnoughSpace", 0)
      ELSE result' = result
  BY Zenon DEF Edit
<1>3. /\ plan.used \in Nat /\ plan.need = plan.used /\ result.used = plan.used
      /\ buffer \in Bytes /\ result.used \in Nat /\ result.used <= Len(buffer) /\ Len(buffer) \in Nat
  BY <1>1, PlanInv DEF CallInv, StoresInv, Over, Cutting, Bytes
<1>4. written \in Bytes /\ Len(written) = result.used
  <2>1. \A j \in 1 .. result.used : buffer[j] \in Byte
    BY <1>3 DEF Bytes
  <2>2. /\ SubSeq(buffer, 1, result.used) \in Seq(Byte)
        /\ Len(SubSeq(buffer, 1, result.used)) = IF 1 <= result.used THEN result.used - 1 + 1 ELSE 0
    BY <1>3, <2>1, SubSeqProperties
  <2> QED
    BY <1>3, <2>2 DEF Bytes
<1> HIDE DEF written
<1>5. ~invalid => ~(OverNeed(lens) > Len(written))
  <2> SUFFICES ASSUME ~invalid PROVE ~(OverNeed(lens) > Len(written))
    OBVIOUS
  <2>1. CASE fixed
    <3>1. OverNeed(lens) = plan.need
      BY <2>1 DEF OverNeed
    <3> HIDE DEF lens
    <3> QED
      BY <1>3, <1>4, <3>1
  <2>2. CASE ~fixed
    <3>1. r.ok /\ lens = RegionLens(r)
      BY <2>2
    <3>2. OverNeed(RegionLens(r)) \in Nat /\ OverNeed(RegionLens(r)) <= Len(written)
      BY <1>1, <1>4, <2>2, <3>1, RegionLensIs
    <3>3. PICK m \in Nat : m = OverNeed(RegionLens(r)) /\ m <= Len(written)
      BY <3>2
    <3>4. ~(m > Len(written))
      BY <1>3, <1>4, <3>3
    <3> QED
      BY <3>1, <3>3, <3>4
  <2> QED
    BY <2>1, <2>2
<1> HIDE DEF lens, invalid
<1>6. result'.is \in {"ok", "vec", "InvalidContent"}
  <2>1. CASE invalid
    <3>1. result' = Result("InvalidContent", 0)
      BY <1>2, <2>1
    <3> QED
      BY <3>1 DEF Result
  <2>2. CASE ~invalid
    <3>1. result' = result
      BY <1>2, <1>5, <2>2
    <3> QED
      BY <1>1, <3>1
  <2> QED
    BY <2>1, <2>2
<1> QED
  BY <1>1, <1>6 DEF RoomInv, RoomIsEnough

-----------------------------------------------------------------------------
(* The theorems.                                                           *)

LEMMA NextWriterInv ==
    ASSUME WriterInv, [Next]_vars
    PROVE  WriterInv'
<1>1. CASE Next
  BY <1>1, StartKeeps, RefuseKeeps, PutKeeps, EndKeeps, NewKeeps, SetKeeps, EditKeeps DEF Next
<1>2. CASE UNCHANGED vars
  <2>1. UNCHANGED <<items, content, layout, plan, by, call, buffer, handed, todo, result>>
    BY <1>2 DEF vars
  <2> QED
    BY <2>1 DEF WriterInv, BehindSame, StructInv, CallInv
<1> QED
  BY <1>1, <1>2

\* BehindUntouched holds for structs of any size and shape, their contents and
\* all buffers: write_into, to_vec, the setters in any order and an edit in
\* place change no byte behind the packet, however the call ends.  Only a
\* length hook must have its region right behind it.
THEOREM WriterBehindUntouched ==
    ASSUME \A k \in Cases : HookInFront(Classify(k.items))
    PROVE  Spec => []BehindUntouched
<1>1. Init => WriterInv
  BY InitWriterInv
<1>2. WriterInv /\ [Next]_vars => WriterInv'
  BY NextWriterInv
<1>3. WriterInv => BehindUntouched
  BY DEF WriterInv, BehindSame, BehindUntouched
<1> QED
  BY <1>1, <1>2, <1>3, PTL DEF Spec

LEMMA NextRoomInv ==
    ASSUME WriterInv, RoomInv, [Next]_vars
    PROVE  RoomInv'
<1>1. CASE Next
  BY <1>1, StartRoom, RefuseRoom, PutRoom, OutOfRangeRoom, EndRoom, NewRoom, SetRoom, EditRoom
     DEF Next
<1>2. CASE UNCHANGED vars
  <2>1. UNCHANGED <<items, content, layout, plan, by, call, buffer, handed, todo, result>>
    BY <1>2 DEF vars
  <2> QED
    BY <2>1 DEF RoomInv, RoomIsEnough, StoresInv, Settable
<1> QED
  BY <1>1, <1>2

\* RoomIsEnough holds for structs of any size and shape, their contents and all
\* buffers: no call panics, a call that finds too little room was given less
\* than the packet takes, and writer_over takes every packet that was written.
\* A length hook must have its region right behind it, and a region that is
\* encoded on its way must not stand with another one: where such a region
\* grows, encoded_len promises less than write_into stores; and a condition must
\* not go below zero in a build that checks arithmetic.
THEOREM WriterRoomIsEnough ==
    ASSUME \A k \in Cases : /\ HookInFront(Classify(k.items))
                            /\ RoomCounted(k.items, Classify(k.items))
                            /\ ConditionInRange(k.items, k.content)
    PROVE  Spec => []RoomIsEnough
<1>1. Init => WriterInv /\ RoomInv
  BY InitWriterInv, InitRoomInv
<1>2. WriterInv /\ RoomInv /\ [Next]_vars => (WriterInv /\ RoomInv)'
  BY NextWriterInv, NextRoomInv
<1>3. RoomInv => RoomIsEnough
  BY DEF RoomInv
<1> QED
  BY <1>1, <1>2, <1>3, PTL DEF Spec

=============================================================================
