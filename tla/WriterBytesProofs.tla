---------------------------- MODULE WriterBytesProofs ----------------------------
(***************************************************************************)
(* Writer.NoStaleBytes: whatever was in the buffer, the packet is the one  *)
(* that write_into stores in cleared memory.                               *)
(*                                                                         *)
(* A plan is complete when its stores reach every byte of the packet; then *)
(* the bytes do not depend on the buffer (write_into, to_vec).  Where no   *)
(* two stores differ on a byte the order is free too (new and setters).    *)
(* writer_over swaps one store of the plan for that of the new value: the  *)
(* length it reads in the packet is the region's, so it finds the field.   *)
(***************************************************************************)
EXTENDS WriterProofs

-----------------------------------------------------------------------------
(* Which store a byte of the packet is from.                               *)

Holds(s, k) == s.at < k /\ k <= s.at + Len(s.bytes)
ByteOf(s, k) == s.bytes[k - s.at]
SetOf(stores) == {stores[n] : n \in 1 .. Len(stores)}

\* The last of the first n stores that holds a byte, if there is one.
LastOf(stores, n, k, before, after) ==
    \/ (\A m \in 1 .. n : ~Holds(stores[m], k)) /\ after = before
    \/ \E j \in 1 .. n : /\ Holds(stores[j], k) /\ \A m \in j + 1 .. n : ~Holds(stores[m], k)
                         /\ after = ByteOf(stores[j], k)

LEMMA LastStore ==
    ASSUME NEW room \in Nat, NEW bytes \in Bytes, NEW stores \in Within(room), NEW k \in 1 .. Len(bytes)
    PROVE  LastOf(stores, Len(stores), k, bytes[k], StoredAll(bytes, stores)[k])
<1> DEFINE N == Len(stores)
<1>1. N \in Nat /\ (\A n \in 1 .. N : stores[n] \in Placed(room)) /\ Len(bytes) \in Nat
  BY DEF Within, Bytes
<1>2. PICK f : /\ StoresOf(bytes, stores, f) /\ StoredAll(bytes, stores) = f[N]
               /\ \A n \in 0 .. N : f[n] \in Same(bytes, room)
  BY StoredAllSteps
<1> DEFINE P == {n \in 0 .. N : LastOf(stores, n, k, bytes[k], f[n][k])}
<1>3. 0 \in P
  <2>1. 0 \in 0 .. N /\ f[0] = bytes
    BY <1>1, <1>2 DEF StoresOf
  <2> QED
    BY <2>1 DEF LastOf
<1>4. ASSUME NEW n \in 0 .. N, n \in P, n < N PROVE n + 1 \in P
  <2> DEFINE s == stores[n + 1]
  <2>1. n + 1 \in 1 .. N /\ n + 1 \in 0 .. N /\ n + 1 # 0 /\ (n + 1) - 1 = n /\ n \in Nat
    BY <1>1, <1>4
  <2>2. f[n + 1] = Stored(f[n], s) /\ Len(f[n]) = Len(bytes)
    BY <1>2, <2>1 DEF StoresOf, Same
  <2>3. f[n + 1][k] = IF Holds(s, k) THEN ByteOf(s, k) ELSE f[n][k]
    BY <2>2 DEF Stored, Holds, ByteOf
  <2>4. LastOf(stores, n, k, bytes[k], f[n][k])
    BY <1>4
  <2>5. CASE Holds(s, k)
    <3>1. f[n + 1][k] = ByteOf(stores[n + 1], k)
      BY <2>3, <2>5
    <3>2. \A m \in (n + 1) + 1 .. n + 1 : ~Holds(stores[m], k)
      BY <2>1
    <3>3. n + 1 \in 1 .. n + 1
      BY <2>1
    <3>4. LastOf(stores, n + 1, k, bytes[k], f[n + 1][k])
      BY <2>5, <3>1, <3>2, <3>3 DEF LastOf
    <3> QED
      BY <2>1, <3>4
  <2>6. CASE ~Holds(s, k)
    <3>1. f[n + 1][k] = f[n][k]
      BY <2>3, <2>6
    <3>2. \A m \in 1 .. n + 1 : m \in 1 .. n \/ m = n + 1
      BY <2>1
    <3>3. CASE (\A m \in 1 .. n : ~Holds(stores[m], k)) /\ f[n][k] = bytes[k]
      <4>1. \A m \in 1 .. n + 1 : ~Holds(stores[m], k)
        BY <2>6, <3>2, <3>3
      <4> QED
        BY <2>1, <3>1, <3>3, <4>1 DEF LastOf
    <3>4. CASE \E j \in 1 .. n : /\ Holds(stores[j], k) /\ \A m \in j + 1 .. n : ~Holds(stores[m], k)
                                 /\ f[n][k] = ByteOf(stores[j], k)
      <4>1. PICK j \in 1 .. n : /\ Holds(stores[j], k) /\ \A m \in j + 1 .. n : ~Holds(stores[m], k)
                                /\ f[n][k] = ByteOf(stores[j], k)
        BY <3>4
      <4>2. j \in 1 .. n + 1 /\ \A m \in j + 1 .. n + 1 : m \in j + 1 .. n \/ m = n + 1
        BY <2>1
      <4>3. \A m \in j + 1 .. n + 1 : ~Holds(stores[m], k)
        BY <2>6, <4>1, <4>2
      <4> QED
        BY <2>1, <3>1, <4>1, <4>2, <4>3 DEF LastOf
    <3> QED
      BY <2>4, <3>3, <3>4 DEF LastOf
  <2> QED
    BY <2>5, <2>6
<1> HIDE DEF P
<1>5. \A n \in 0 .. N : n \in P
  BY <1>1, <1>3, <1>4, InductUpto
<1> QED
  BY <1>1, <1>2, <1>5 DEF P

\* Two stores that hold one byte hold the same there.
Agree(set) == \A s, t \in set, k \in Nat : Holds(s, k) /\ Holds(t, k) => ByteOf(s, k) = ByteOf(t, k)

LEMMA AgreedByte ==
    ASSUME NEW room \in Nat, NEW bytes \in Bytes, NEW stores \in Within(room), NEW k \in 1 .. Len(bytes),
           Agree(SetOf(stores)), NEW s \in SetOf(stores), Holds(s, k)
    PROVE  StoredAll(bytes, stores)[k] = ByteOf(s, k)
<1>1. LastOf(stores, Len(stores), k, bytes[k], StoredAll(bytes, stores)[k]) /\ Len(stores) \in Nat
  BY LastStore DEF Within
<1>2. \E j \in 1 .. Len(stores) : Holds(stores[j], k) /\ StoredAll(bytes, stores)[k] = ByteOf(stores[j], k)
  BY <1>1 DEF LastOf, SetOf
<1>3. k \in Nat
  BY DEF Bytes
<1> QED
  BY <1>2, <1>3 DEF Agree, SetOf

LEMMA UnheldByte ==
    ASSUME NEW room \in Nat, NEW bytes \in Bytes, NEW stores \in Within(room), NEW k \in 1 .. Len(bytes),
           \A s \in SetOf(stores) : ~Holds(s, k)
    PROVE  StoredAll(bytes, stores)[k] = bytes[k]
<1>1. LastOf(stores, Len(stores), k, bytes[k], StoredAll(bytes, stores)[k])
  BY LastStore
<1> QED
  BY <1>1 DEF LastOf, SetOf

\* The stores leave nothing to tell what was there before.
LEMMA SameStores ==
    ASSUME NEW room \in Nat, NEW a \in Bytes, NEW b \in Bytes, NEW stores \in Within(room),
           NEW k \in 1 .. Len(a), k \in 1 .. Len(b), a[k] = b[k] \/ \E s \in SetOf(stores) : Holds(s, k)
    PROVE  StoredAll(a, stores)[k] = StoredAll(b, stores)[k]
<1> DEFINE N == Len(stores)
<1>0. PICK x, y : x = StoredAll(a, stores)[k] /\ y = StoredAll(b, stores)[k]
  OBVIOUS
<1>1. LastOf(stores, N, k, a[k], x) /\ LastOf(stores, N, k, b[k], y) /\ N \in Nat
  BY <1>0, LastStore DEF Within
<1>2. ASSUME \A m \in 1 .. N : ~Holds(stores[m], k) PROVE x = y
  BY <1>1, <1>2 DEF LastOf, SetOf
<1>3. ASSUME \E m \in 1 .. N : Holds(stores[m], k) PROVE x = y
  <2>1. PICK i \in 1 .. N : Holds(stores[i], k) /\ (\A m \in i + 1 .. N : ~Holds(stores[m], k))
                            /\ x = ByteOf(stores[i], k)
    BY <1>1, <1>3 DEF LastOf
  <2>2. PICK j \in 1 .. N : Holds(stores[j], k) /\ (\A m \in j + 1 .. N : ~Holds(stores[m], k))
                            /\ y = ByteOf(stores[j], k)
    BY <1>1, <1>3 DEF LastOf
  <2>3. i = j
    <3>1. i \in j + 1 .. N \/ j \in i + 1 .. N \/ i = j
      BY <1>1
    <3> QED
      BY <2>1, <2>2, <3>1
  <2> QED
    BY <2>1, <2>2, <2>3
<1>4. x = y
  BY <1>2, <1>3
<1> QED
  BY <1>0, <1>4

\* The first store, and then the others.
LEMMA FirstStored ==
    ASSUME NEW room \in Nat, NEW bytes \in Bytes, NEW stores \in Within(room), stores # <<>>,
           NEW k \in 1 .. Len(bytes)
    PROVE  /\ Stored(bytes, Head(stores)) \in Bytes /\ Len(Stored(bytes, Head(stores))) = Len(bytes)
           /\ StoredAll(Stored(bytes, Head(stores)), Tail(stores))[k] = StoredAll(bytes, stores)[k]
<1> DEFINE N == Len(stores)
           s == Head(stores)
           rest == Tail(stores)
           b == Stored(bytes, s)
<1>0. PICK x, y : x = StoredAll(b, rest)[k] /\ y = StoredAll(bytes, stores)[k]
  OBVIOUS
<1>1. /\ N \in Nat /\ N > 0 /\ s \in Placed(room) /\ rest \in Within(room) /\ s = stores[1]
      /\ Len(rest) = N - 1 /\ \A m \in 1 .. N - 1 : rest[m] = stores[m + 1]
  BY DEF Within
<1>2. b \in Same(bytes, room)
  <2>1. bytes \in Same(bytes, room)
    BY DEF Same
  <2> QED
    BY <1>1, <2>1, StoredSame
<1>3. b \in Bytes /\ Len(b) = Len(bytes)
  BY <1>2 DEF Same
<1>4. b[k] = IF Holds(s, k) THEN ByteOf(s, k) ELSE bytes[k]
  BY DEF Stored, Holds, ByteOf
<1> HIDE DEF b
<1>5. LastOf(rest, N - 1, k, b[k], x)
  BY <1>0, <1>1, <1>3, LastStore
<1>6. LastOf(stores, N, k, bytes[k], y)
  BY <1>0, LastStore
<1> HIDE DEF s, rest
<1>7. ASSUME \E j \in 1 .. N - 1 : /\ Holds(rest[j], k) /\ \A m \in j + 1 .. N - 1 : ~Holds(rest[m], k)
                                   /\ x = ByteOf(rest[j], k)
      PROVE  x = y
  <2>1. PICK j \in 1 .. N - 1 : /\ Holds(rest[j], k) /\ \A m \in j + 1 .. N - 1 : ~Holds(rest[m], k)
                                /\ x = ByteOf(rest[j], k)
    BY <1>7
  <2>2. j + 1 \in 1 .. N /\ Holds(stores[j + 1], k) /\ x = ByteOf(stores[j + 1], k)
    BY <1>1, <2>1
  <2>3. PICK i \in 1 .. N : Holds(stores[i], k) /\ (\A m \in i + 1 .. N : ~Holds(stores[m], k))
                            /\ y = ByteOf(stores[i], k)
    BY <1>6, <2>2 DEF LastOf
  <2>4. ASSUME i > j + 1 PROVE FALSE
    <3>1. i - 1 \in j + 1 .. N - 1 /\ i - 1 \in 1 .. N - 1 /\ (i - 1) + 1 = i
      BY <1>1, <2>4
    <3>2. rest[i - 1] = stores[i]
      BY <1>1, <3>1
    <3> QED
      BY <2>1, <2>3, <3>1, <3>2
  <2>5. ASSUME i < j + 1 PROVE FALSE
    <3>1. j + 1 \in i + 1 .. N
      BY <2>2, <2>5
    <3> QED
      BY <2>2, <2>3, <3>1
  <2>6. i = j + 1
    BY <2>4, <2>5
  <2> QED
    BY <2>2, <2>3, <2>6
<1>8. ASSUME (\A m \in 1 .. N - 1 : ~Holds(rest[m], k)) /\ x = b[k] PROVE x = y
  <2>1. ASSUME NEW i \in 1 .. N, Holds(stores[i], k) PROVE i = 1
    <3>1. i = 1 \/ (i - 1 \in 1 .. N - 1 /\ (i - 1) + 1 = i)
      BY <1>1
    <3> QED
      BY <1>1, <1>8, <2>1, <3>1
  <2>2. 1 \in 1 .. N /\ stores[1] = s
    BY <1>1
  <2>3. CASE Holds(s, k)
    <3>1. \E i \in 1 .. N : Holds(stores[i], k) /\ y = ByteOf(stores[i], k)
      BY <1>6, <2>2, <2>3 DEF LastOf
    <3>2. y = ByteOf(s, k)
      BY <2>1, <2>2, <3>1
    <3> QED
      BY <1>4, <1>8, <2>3, <3>2
  <2>4. CASE ~Holds(s, k)
    <3>1. \A i \in 1 .. N : ~Holds(stores[i], k)
      BY <2>1, <2>2, <2>4
    <3>2. y = bytes[k]
      BY <1>6, <3>1 DEF LastOf
    <3> QED
      BY <1>4, <1>8, <2>4, <3>2
  <2> QED
    BY <2>3, <2>4
<1>9. x = y
  BY <1>5, <1>7, <1>8 DEF LastOf
<1> QED
  BY <1>0, <1>3, <1>9 DEF b, s, rest

-----------------------------------------------------------------------------
(* Stores that hold every byte of a range.                                 *)

Covers(set, from, to) == \A k \in from + 1 .. to : \E s \in set : Holds(s, k)

LEMMA SetOfStores ==
    ASSUME NEW S, NEW T, NEW p \in Seq(S), NEW q \in Seq(T)
    PROVE  SetOf(p \o q) = SetOf(p) \cup SetOf(q) /\ SetOf(p) \subseteq S /\ p \o q \in Seq(S \cup T)
<1>1. ASSUME NEW x \in SetOf(p \o q) PROVE x \in SetOf(p) \cup SetOf(q)
  <2>1. PICK n \in 1 .. Len(p \o q) : x = (p \o q)[n]
    BY DEF SetOf
  <2>2. n \in 1 .. Len(p) \/ (n - Len(p) \in 1 .. Len(q) /\ ~(n <= Len(p)))
    BY <2>1
  <2>3. x = IF n <= Len(p) THEN p[n] ELSE q[n - Len(p)]
    BY <2>1
  <2> QED
    BY <2>2, <2>3 DEF SetOf
<1>2. ASSUME NEW n \in 1 .. Len(p) PROVE p[n] \in SetOf(p \o q)
  <2>1. n \in 1 .. Len(p \o q) /\ (p \o q)[n] = p[n]
    OBVIOUS
  <2> QED
    BY <2>1 DEF SetOf
<1>3. ASSUME NEW n \in 1 .. Len(q) PROVE q[n] \in SetOf(p \o q)
  <2>1. Len(p) + n \in 1 .. Len(p \o q) /\ (p \o q)[Len(p) + n] = q[n]
    OBVIOUS
  <2> QED
    BY <2>1 DEF SetOf
<1>4. SetOf(p \o q) = SetOf(p) \cup SetOf(q)
  BY <1>1, <1>2, <1>3 DEF SetOf
<1>5. SetOf(p) \subseteq S
  BY DEF SetOf
<1>6. p \in Seq(S \cup T) /\ q \in Seq(S \cup T)
  OBVIOUS
<1>7. p \o q \in Seq(S \cup T)
  BY <1>6
<1> QED
  BY <1>4, <1>5, <1>7

LEMMA SetOfBoth ==
    ASSUME NEW room, NEW p \in Within(room), NEW q \in Within(room)
    PROVE  SetOf(p \o q) = SetOf(p) \cup SetOf(q) /\ SetOf(p) \subseteq Placed(room)
<1>1. p \in Seq(Placed(room)) /\ q \in Seq(Placed(room))
  BY DEF Within
<1>2. SetOf(p) \subseteq Placed(room)
  BY <1>1 DEF SetOf
<1> QED
  BY <1>1, <1>2, SetOfStores

LEMMA SetOfOne ==
    ASSUME NEW s
    PROVE  SetOf(<<s>>) = {s} /\ <<s>> \in Seq({s}) /\ SetOf(<<>>) = {}
<1>1. Len(<<s>>) = 1 /\ <<s>>[1] = s /\ Len(<<>>) = 0
  OBVIOUS
<1>2. SetOf(<<>>) = {}
  BY <1>1 DEF SetOf
<1>3. SetOf(<<s>>) = {s}
  BY <1>1 DEF SetOf
<1> QED
  BY <1>2, <1>3

LEMMA ShiftSet ==
    ASSUME NEW room \in Nat, NEW stores \in Within(room), NEW d \in Nat
    PROVE  SetOf(Shift(stores, d)) = {[s EXCEPT !.at = @ + d] : s \in SetOf(stores)}
<1> DEFINE f == Shift(stores, d)
           moved(s) == [s EXCEPT !.at = @ + d]
<1>1. Len(f) = Len(stores)
  BY ShiftFits
<1>2. \A n \in 1 .. Len(stores) : f[n] = moved(stores[n])
  BY DEF Shift
<1> HIDE DEF f, moved
<1>3. {f[n] : n \in 1 .. Len(f)} = {moved(s) : s \in {stores[n] : n \in 1 .. Len(stores)}}
  BY <1>1, <1>2
<1> QED
  BY <1>3 DEF SetOf, f, moved

LEMMA CoversMore ==
    ASSUME NEW S, NEW T, NEW a \in Nat, NEW b \in Nat, NEW c \in Nat, Covers(S, a, b), Covers(T, b, c)
    PROVE  Covers(S \cup T, a, c) /\ Covers(T \cup S, a, c)
<1>1. ASSUME NEW k \in a + 1 .. c PROVE \E s \in S \cup T : Holds(s, k)
  <2>1. k \in a + 1 .. b \/ k \in b + 1 .. c
    OBVIOUS
  <2> QED
    BY <2>1 DEF Covers
<1> QED
  BY <1>1 DEF Covers

LEMMA ShiftHolds ==
    ASSUME NEW room \in Nat, NEW stores \in Within(room), NEW at \in Nat, NEW n \in Nat,
           Covers(SetOf(stores), 0, n)
    PROVE  Covers(SetOf(Shift(stores, at)), at, at + n)
<1>1. ASSUME NEW k \in at + 1 .. at + n PROVE \E s \in SetOf(Shift(stores, at)) : Holds(s, k)
  <2>1. k - at \in 0 + 1 .. n
    OBVIOUS
  <2>2. PICK m \in 1 .. Len(stores) : Holds(stores[m], k - at)
    BY <2>1 DEF Covers, SetOf
  <2> DEFINE t == [stores[m] EXCEPT !.at = @ + at]
  <2>3. Len(Shift(stores, at)) = Len(stores) /\ Shift(stores, at)[m] = t
    BY ShiftFits DEF Shift
  <2>4. stores[m] \in Placed(room)
    BY DEF Within
  <2>5. t.at = stores[m].at + at /\ t.bytes = stores[m].bytes /\ stores[m].at \in Nat /\ Len(t.bytes) \in Nat
    BY <2>4 DEF Placed, Bytes
  <2> HIDE DEF t
  <2>6. Holds(t, k)
    BY <2>2, <2>5 DEF Holds
  <2> QED
    BY <2>3, <2>6 DEF SetOf
<1> QED
  BY <1>1 DEF Covers

-----------------------------------------------------------------------------
(* Fields of a run lie one behind the other.                               *)

LEMMA TotalCovers ==
    ASSUME NEW N \in Nat, NEW f, \A k \in 1 .. N : f[k] \in Nat, NEW k \in 1 .. Total(f, N)
    PROVE  \E p \in 1 .. N : Total(f, p - 1) < k /\ k <= Total(f, p - 1) + f[p]
<1>1. /\ Total(f, 0) = 0
      /\ \A n \in 0 .. N : Total(f, n) \in Nat
      /\ \A n \in 1 .. N : Total(f, n) = Total(f, n - 1) + f[n]
  BY TotalSteps
<1>2. PICK t \in [0 .. N -> Nat] : \A n \in 0 .. N : t[n] = Total(f, n)
  <2>1. [n \in 0 .. N |-> Total(f, n)] \in [0 .. N -> Nat]
    BY <1>1
  <2> QED
    BY <2>1
<1>3. N \in 0 .. N /\ 0 \in 0 .. N /\ k \in 1 .. t[N] /\ t[0] = 0 /\ t[N] \in Nat
  BY <1>1, <1>2
<1> DEFINE P == {p \in 1 .. N : k <= t[p]}
<1>4. P \subseteq Nat /\ N \in P
  BY <1>3
<1>5. PICK p \in P : \A q \in P : p <= q
  <2> HIDE DEF P
  <2> QED
    BY <1>4, LeastOf
<1>6. p \in 1 .. N /\ p - 1 \in 0 .. N /\ k <= t[p] /\ p - 1 \notin P
  BY <1>5
<1>7. t[p - 1] < k
  <2>1. CASE p = 1
    BY <1>3, <2>1
  <2>2. CASE p # 1
    <3>1. p - 1 \in 1 .. N /\ t[p - 1] \in Nat
      BY <1>2, <1>6, <2>2
    <3> QED
      BY <1>3, <1>6, <3>1
  <2> QED
    BY <2>1, <2>2
<1>8. t[p] = t[p - 1] + f[p] /\ t[p - 1] = Total(f, p - 1)
  BY <1>1, <1>2, <1>6
<1> QED
  BY <1>6, <1>7, <1>8

\* Those elements are all there.
LEMMA ThoseHas ==
    ASSUME NEW T, NEW s \in Seq(T), NEW set, NEW m \in 1 .. Len(s), s[m] \in set
    PROVE  \E q \in 1 .. Len(Those(s, set)) : Those(s, set)[q] = s[m]
<1>1. PICK kept : KeptIn(T, s, set, kept)
  BY ThoseSteps
<1> DEFINE N == Len(s)
           Has(n) == m <= n => \E q \in 1 .. Len(kept[n]) : kept[n][q] = s[m]
           P == {n \in 0 .. N : Has(n)}
<1>2. N \in Nat /\ m \in Nat
  OBVIOUS
<1>3. \A n \in 0 .. N : kept[n] \in Seq(T) /\ Len(kept[n]) \in Nat
  <2>1. \A q : q \in Seq(T \cap set) => q \in Seq(T)
    OBVIOUS
  <2> QED
    BY <1>1, <2>1 DEF KeptIn
<1>4. 0 \in P
  BY <1>2
<1>5. ASSUME NEW n \in 0 .. N, n \in P, n < N PROVE n + 1 \in P
  <2>1. n + 1 \in 1 .. N /\ n + 1 \in 0 .. N /\ (n + 1) - 1 = n /\ s[n + 1] \in T
    BY <1>2, <1>5
  <2>2. kept[n + 1] = IF s[n + 1] \in set THEN Append(kept[n], s[n + 1]) ELSE kept[n]
    BY <1>1, <2>1 DEF KeptIn
  <2>3. kept[n] \in Seq(T) /\ Has(n) /\ Len(kept[n]) \in Nat
    BY <1>3, <1>5
  <2>4. CASE m <= n
    <3>1. PICK q \in 1 .. Len(kept[n]) : kept[n][q] = s[m]
      BY <2>3, <2>4
    <3>2. q \in 1 .. Len(kept[n + 1]) /\ kept[n + 1][q] = s[m]
      BY <2>1, <2>2, <2>3, <3>1
    <3> QED
      BY <2>1, <3>2
  <2>5. CASE m = n + 1
    <3>1. kept[n + 1] = Append(kept[n], s[n + 1])
      BY <2>2, <2>5
    <3>2. Len(kept[n]) + 1 \in 1 .. Len(kept[n + 1]) /\ kept[n + 1][Len(kept[n]) + 1] = s[m]
      BY <2>1, <2>3, <2>5, <3>1
    <3> QED
      BY <2>1, <3>2
  <2>6. CASE m > n + 1
    <3>1. ~(m <= n + 1)
      BY <1>2, <2>1, <2>6
    <3> QED
      BY <2>1, <3>1
  <2>7. m <= n \/ m = n + 1 \/ m > n + 1
    BY <1>2, <2>1
  <2> QED
    BY <2>4, <2>5, <2>6, <2>7
<1> HIDE DEF P, N
<1>6. \A n \in 0 .. N : n \in P
  BY <1>2, <1>4, <1>5, InductUpto
<1>7. Those(s, set) = kept[N] /\ m <= N
  BY <1>1 DEF KeptIn, N
<1> QED
  BY <1>2, <1>6, <1>7 DEF P

\* The stores of a run are those of its fields.
LEMMA RunStoresAre ==
    ASSUME NEW fields, Sized(fields), NEW c, NEW but, NEW run \in Seq(1 .. Len(fields))
    PROVE  SetOf(RunStores(fields, c, run, but))
             = {Store(OffsetIn(fields, run, run[p]), FieldBytes(fields[run[p]], c[run[p]])) :
                   p \in {q \in 1 .. Len(run) : run[q] \notin but}}
<1> DEFINE T == {run[p] : p \in 1 .. Len(run)}
           set == (1 .. Len(fields)) \ but
           kept == Those(run, set)
           store(i) == Store(OffsetIn(fields, run, i), FieldBytes(fields[i], c[i]))
<1>1. Len(run) \in Nat /\ run \in Seq(T) /\ T \subseteq 1 .. Len(fields)
  OBVIOUS
<1>2. kept \in Seq(T \cap set)
  <2> HIDE DEF T, set
  <2> QED
    BY <1>1, ThoseType
<1>3. \A n \in 1 .. Len(kept) : \E p \in 1 .. Len(run) : run[p] \notin but /\ kept[n] = run[p]
  <2>1. Len(kept) \in Nat /\ \A n \in 1 .. Len(kept) : kept[n] \in T /\ kept[n] \notin but
    <3> HIDE DEF T, kept
    <3> QED
      BY <1>2
  <2> QED
    BY <2>1
<1>4. ASSUME NEW p \in 1 .. Len(run), run[p] \notin but
      PROVE  \E n \in 1 .. Len(kept) : kept[n] = run[p]
  <2>1. run[p] \in set
    BY <1>4
  <2> HIDE DEF T, set
  <2> QED
    BY <1>1, <2>1, ThoseHas
<1>5. RunStores(fields, c, run, but) = [n \in 1 .. Len(kept) |-> store(kept[n])] /\ Len(kept) \in Nat
  <2>1. RunStores(fields, c, run, but) = [n \in 1 .. Len(kept) |-> store(kept[n])]
    BY Zenon DEF RunStores
  <2> HIDE DEF kept, T, set
  <2> QED
    BY <1>2, <2>1
<1> HIDE DEF kept, store, T, set
<1>6. SetOf(RunStores(fields, c, run, but)) = {store(kept[n]) : n \in 1 .. Len(kept)}
  <2>1. Len([n \in 1 .. Len(kept) |-> store(kept[n])]) = Len(kept)
    BY <1>5
  <2> QED
    BY <1>5, <2>1 DEF SetOf
<1>7. {store(kept[n]) : n \in 1 .. Len(kept)} = {store(run[p]) : p \in {q \in 1 .. Len(run) : run[q] \notin but}}
  BY <1>3, <1>4
<1> QED
  BY <1>6, <1>7 DEF store

\* Every byte of the run is a field's.
Laid(fields, run) ==
    \A k \in 1 .. RunBytes(fields, run) :
        \E p \in 1 .. Len(run) : /\ OffsetIn(fields, run, run[p]) < k
                                 /\ k <= OffsetIn(fields, run, run[p]) + Size(fields[run[p]])

\* There is a store for every field.
Carries(fields, run, set) ==
    \A p \in 1 .. Len(run) :
        \E s \in set : s.at = OffsetIn(fields, run, run[p]) /\ Len(s.bytes) = Size(fields[run[p]])

LEMMA LaidCovers ==
    ASSUME NEW fields, NEW run, NEW set, Laid(fields, run), Carries(fields, run, set)
    PROVE  Covers(set, 0, RunBytes(fields, run))
<1>1. ASSUME NEW k \in 0 + 1 .. RunBytes(fields, run) PROVE \E s \in set : Holds(s, k)
  <2>1. PICK p \in 1 .. Len(run) : /\ OffsetIn(fields, run, run[p]) < k
                                   /\ k <= OffsetIn(fields, run, run[p]) + Size(fields[run[p]])
    BY DEF Laid
  <2>2. PICK s \in set : s.at = OffsetIn(fields, run, run[p]) /\ Len(s.bytes) = Size(fields[run[p]])
    BY DEF Carries
  <2> QED
    BY <2>1, <2>2 DEF Holds
<1> QED
  BY <1>1 DEF Covers

\* The first m fields, as a run lists them that leaves out at most empty ones.
InLine(fields, run, m) ==
    /\ run \in Seq(1 .. Len(fields)) /\ m \in 0 .. Len(fields)
    /\ RunBytes(fields, run) = Sum(fields, m)
    /\ \A p \in 1 .. Len(run) : run[p] \in 1 .. m /\ OffsetIn(fields, run, run[p]) = Sum(fields, run[p] - 1)
    /\ \A i \in 1 .. m : Size(fields[i]) # 0 => \E p \in 1 .. Len(run) : run[p] = i

LEMMA UptoInLine ==
    ASSUME NEW fields, Sized(fields), NEW m \in 0 .. Len(fields)
    PROVE  InLine(fields, Upto(m), m)
<1>1. Len(fields) \in Nat /\ m \in Nat
  BY DEF Sized
<1>2. Upto(m) \in Seq(1 .. Len(fields)) /\ Len(Upto(m)) = m /\ \A k \in 1 .. m : Upto(m)[k] = k
  BY <1>1, UptoType
<1>3. ASSUME NEW i \in 1 .. m PROVE OffsetIn(fields, Upto(m), i) = Sum(fields, i - 1)
  <2>1. i \in 1 .. Len(fields) + 1 /\ i - 1 <= m
    BY <1>1
  <2> QED
    BY <2>1, OffsetUpto
<1> QED
  BY <1>1, <1>2, <1>3, RunBytesUpto DEF InLine

LEMMA PrefixInLine ==
    ASSUME NEW fields, Sized(fields), NEW m \in 0 .. Len(fields)
    PROVE  InLine(fields, PrefixRun(fields, m + 1), m)
<1> DEFINE run == PrefixRun(fields, m + 1)
           T == 1 .. m
<1>1. Len(fields) \in Nat /\ m \in Nat /\ (m + 1) - 1 = m
  BY DEF Sized
<1>2. Upto(m) \in Seq(T) /\ Len(Upto(m)) = m /\ \A k \in 1 .. m : Upto(m)[k] = k
  BY <1>1, UptoType
<1>3. run = Those(Upto(m), Prefix(fields))
  BY <1>1 DEF PrefixRun
<1>4. run \in Seq(T) /\ Len(run) \in Nat /\ \A p \in 1 .. Len(run) : run[p] \in T
  <2> HIDE DEF T, run
  <2>1. run \in Seq(T)
    BY <1>2, <1>3, ThoseType
  <2> QED
    BY <2>1
<1>5. ASSUME NEW p \in 1 .. Len(run) PROVE OffsetIn(fields, run, run[p]) = Sum(fields, run[p] - 1)
  <2>1. run[p] \in T
    BY <1>4
  <2>2. PICK i : i = run[p] /\ i \in 1 .. m
    BY <2>1
  <2>3. i \in 1 .. Len(fields) + 1 /\ i - 1 <= m
    BY <1>1, <2>2
  <2> QED
    BY <2>2, <2>3, OffsetPrefix
<1>6. ASSUME NEW i \in 1 .. m, Size(fields[i]) # 0 PROVE \E p \in 1 .. Len(run) : run[p] = i
  <2>1. i \in Prefix(fields)
    BY <1>1, <1>6 DEF Size, Prefix
  <2>2. i \in 1 .. Len(Upto(m)) /\ Upto(m)[i] = i
    BY <1>2
  <2> HIDE DEF T, run
  <2> QED
    BY <1>2, <1>3, <2>1, <2>2, ThoseHas
<1>7. run \in Seq(1 .. Len(fields)) /\ RunBytes(fields, run) = Sum(fields, m)
  <2>1. 1 \in 1 .. Len(fields) + 1
    BY <1>1
  <2> QED
    BY <2>1, OffsetPrefix, RunBytesUpto
<1> HIDE DEF run
<1>8. InLine(fields, run, m)
  BY <1>4, <1>5, <1>6, <1>7 DEF InLine
<1> QED
  BY <1>8 DEF run

LEMMA InLineLaid ==
    ASSUME NEW fields, Sized(fields), NEW run, NEW m, InLine(fields, run, m)
    PROVE  Laid(fields, run)
<1> DEFINE f == SizesOf(fields)
<1>1. m \in 0 .. Len(fields) /\ m \in Nat /\ Len(fields) \in Nat /\ RunBytes(fields, run) = Total(f, m)
  BY DEF InLine, Sized, Sum
<1>2. \A k \in 1 .. m : f[k] = Size(fields[k]) /\ f[k] \in Nat
  BY <1>1 DEF SizesOf, Sized
<1> HIDE DEF f
<1>3. ASSUME NEW k \in 1 .. Total(f, m)
      PROVE  \E p \in 1 .. Len(run) : /\ OffsetIn(fields, run, run[p]) < k
                                      /\ k <= OffsetIn(fields, run, run[p]) + Size(fields[run[p]])
  <2>1. PICK i \in 1 .. m : Total(f, i - 1) < k /\ k <= Total(f, i - 1) + f[i]
    BY <1>1, <1>2, TotalCovers
  <2>2. Size(fields[i]) # 0
    <3>1. Total(f, i - 1) \in Nat
      BY <1>1, <1>2, TotalSteps
    <3> QED
      BY <1>2, <2>1, <3>1
  <2>3. PICK p \in 1 .. Len(run) : run[p] = i
    BY <2>2 DEF InLine
  <2>4. OffsetIn(fields, run, run[p]) = Total(f, i - 1)
    BY <2>3 DEF InLine, Sum, f
  <2> QED
    BY <1>2, <2>1, <2>3, <2>4
<1> QED
  BY <1>1, <1>3 DEF Laid

\* Item i where the fields in front of it end.
Piece(fields, c, i) == Store(Sum(fields, i - 1), FieldBytes(fields[i], c[i]))
Listed(run) == {run[p] : p \in 1 .. Len(run)}

LEMMA LinePieces ==
    ASSUME NEW fields, Sized(fields), NEW run, NEW m, InLine(fields, run, m), NEW c, NEW but
    PROVE  SetOf(RunStores(fields, c, run, but)) = {Piece(fields, c, i) : i \in Listed(run) \ but}
<1> DEFINE store(i) == Store(OffsetIn(fields, run, i), FieldBytes(fields[i], c[i]))
<1>1. SetOf(RunStores(fields, c, run, but))
        = {store(run[p]) : p \in {q \in 1 .. Len(run) : run[q] \notin but}}
  BY RunStoresAre DEF InLine
<1>2. \A p \in 1 .. Len(run) : store(run[p]) = Piece(fields, c, run[p])
  BY DEF InLine, Piece
<1> HIDE DEF store
<1> QED
  BY <1>1, <1>2 DEF Listed

LEMMA LineCovers ==
    ASSUME NEW fields, Sized(fields), NEW run, NEW m, InLine(fields, run, m), NEW set,
           \A i \in Listed(run) :
               \E s \in set : s.at = Sum(fields, i - 1) /\ Len(s.bytes) = Size(fields[i])
    PROVE  Covers(set, 0, Sum(fields, m))
<1>1. Laid(fields, run)
  BY InLineLaid
<1>2. Carries(fields, run, set)
  BY DEF Carries, Listed, InLine
<1>3. RunBytes(fields, run) = Sum(fields, m)
  BY DEF InLine
<1> QED
  BY <1>1, <1>2, <1>3, LaidCovers

\* The length field, when it can hold the length.
LEMMA LenStores ==
    ASSUME NEW fields, NEW run, NEW e, NEW n, LenError(e, n) = "none"
    PROVE  /\ LenPlan(fields, run, e, n).stores = <<Store(OffsetIn(fields, run, e.of), <<LenValue(n, e)>>)>>
           /\ SetOf(LenPlan(fields, run, e, n).stores) = {Store(OffsetIn(fields, run, e.of), <<LenValue(n, e)>>)}
<1>1. LenPlan(fields, run, e, n).stores = <<Store(OffsetIn(fields, run, e.of), <<LenValue(n, e)>>)>>
  BY DEF LenPlan, Plan
<1> QED
  BY <1>1, SetOfOne

\* Items at offsets of their own hold no byte twice.
Pieced(set, fields, I, d, w) ==
    /\ Sized(fields) /\ I \subseteq 1 .. Len(fields) /\ d \in Nat
    /\ \A i \in I : Len(w[i]) = Size(fields[i])
    /\ \A s \in set : \E i \in I : s.at = d + Sum(fields, i - 1) /\ s.bytes = w[i]

LEMMA PiecesAgree ==
    ASSUME NEW fields, NEW I, NEW d, NEW w, NEW set, Pieced(set, fields, I, d, w)
    PROVE  Agree(set)
<1> SUFFICES ASSUME /\ Sized(fields) /\ I \subseteq 1 .. Len(fields) /\ d \in Nat
                    /\ \A i \in I : Len(w[i]) = Size(fields[i])
                    /\ \A s \in set : \E i \in I : s.at = d + Sum(fields, i - 1) /\ s.bytes = w[i]
           PROVE  Agree(set)
  BY DEF Pieced
<1>1. Len(fields) \in Nat /\ \A i \in I : i \in Nat /\ Size(fields[i]) \in Nat
  BY DEF Sized
<1>2. \A i \in I : /\ Sum(fields, i - 1) \in Nat /\ Sum(fields, i) \in Nat
                   /\ Sum(fields, i) = Sum(fields, i - 1) + Size(fields[i])
  <2>1. \A i \in 1 .. Len(fields) : i - 1 \in 0 .. Len(fields) /\ i \in 0 .. Len(fields)
    BY <1>1
  <2> QED
    BY <2>1, SumSteps
<1>3. ASSUME NEW i \in I, NEW j \in I, i < j PROVE Sum(fields, i) <= Sum(fields, j - 1)
  <2>1. j - 1 \in 0 .. Len(fields) /\ i \in 0 .. j - 1 /\ j - 1 \in Nat
    BY <1>1, <1>3
  <2>2. \A k \in 1 .. j - 1 : SizesOf(fields)[k] \in Nat
    BY <1>1 DEF SizesOf, Sized
  <2> QED
    BY <2>1, <2>2, TotalGrows DEF Sum
<1>4. ASSUME NEW s \in set, NEW t \in set, NEW k \in Nat, Holds(s, k), Holds(t, k)
      PROVE  ByteOf(s, k) = ByteOf(t, k)
  <2>1. PICK i \in I : s.at = d + Sum(fields, i - 1) /\ s.bytes = w[i]
    OBVIOUS
  <2>2. PICK j \in I : t.at = d + Sum(fields, j - 1) /\ t.bytes = w[j]
    OBVIOUS
  <2>3. PICK a \in Nat, b \in Nat, x \in Nat, y \in Nat :
           /\ a = Sum(fields, i - 1) /\ b = Sum(fields, i) /\ x = Sum(fields, j - 1) /\ y = Sum(fields, j)
    BY <1>2
  <2>4. /\ s.at = d + a /\ b = a + Len(s.bytes) /\ Len(s.bytes) \in Nat
        /\ t.at = d + x /\ y = x + Len(t.bytes) /\ Len(t.bytes) \in Nat
    BY <1>1, <1>2, <2>1, <2>2, <2>3
  <2>5. d + a < k /\ k <= d + b /\ d + x < k /\ k <= d + y
    <3>1. PICK n \in Nat, m \in Nat : n = Len(s.bytes) /\ m = Len(t.bytes)
      BY <2>4
    <3>2. d + a < k /\ k <= (d + a) + n
      BY <1>4, <2>4, <3>1 DEF Holds
    <3>3. d + x < k /\ k <= (d + x) + m
      BY <1>4, <2>4, <3>1 DEF Holds
    <3>4. b = a + n /\ y = x + m
      BY <2>4, <3>1
    <3> QED
      BY <3>2, <3>3, <3>4
  <2>6. i = j
    <3>1. i < j \/ j < i \/ i = j
      BY <1>1
    <3>2. ASSUME i < j PROVE FALSE
      <4>1. b <= x
        BY <1>3, <2>3, <3>2
      <4> QED
        BY <2>5, <4>1
    <3>3. ASSUME j < i PROVE FALSE
      <4>1. y <= a
        BY <1>3, <2>3, <3>3
      <4> QED
        BY <2>5, <4>1
    <3> QED
      BY <3>1, <3>2, <3>3
  <2> QED
    BY <2>1, <2>2, <2>6 DEF ByteOf
<1> QED
  BY <1>4 DEF Agree

\* Stores in front of a place and stores behind it.
LEMMA AgreeBoth ==
    ASSUME NEW a \in Nat, NEW S, S \subseteq Placed(a), NEW T, \A t \in T : t.at \in Nat /\ a <= t.at,
           Agree(S), Agree(T)
    PROVE  Agree(S \cup T)
<1>1. ASSUME NEW s \in S, NEW t \in T, NEW k \in Nat PROVE ~(Holds(s, k) /\ Holds(t, k))
  <2>1. s.at \in Nat /\ Len(s.bytes) \in Nat /\ s.at + Len(s.bytes) <= a
    BY DEF Placed, Bytes
  <2> QED
    BY <2>1 DEF Holds
<1>2. ASSUME NEW s \in S \cup T, NEW t \in S \cup T, NEW k \in Nat, Holds(s, k), Holds(t, k)
      PROVE  ByteOf(s, k) = ByteOf(t, k)
  <2>1. (s \in S /\ t \in S) \/ (s \in T /\ t \in T)
    BY <1>1, <1>2
  <2> QED
    BY <1>2, <2>1 DEF Agree
<1> QED
  BY <1>2 DEF Agree

LEMMA AgreeOne ==
    ASSUME NEW s
    PROVE  Agree({s})
BY DEF Agree

\* The values of the fields in front of a region, one of which may hold its length.
Values(fields, c, of, length) ==
    [i \in 1 .. Len(fields) |-> IF i = of THEN length ELSE FieldBytes(fields[i], c[i])]
Front(fields, run, w) == {Store(Sum(fields, i - 1), w[i]) : i \in Listed(run)}

LEMMA RunFrontIs ==
    ASSUME NEW fields, Sized(fields), NEW run, NEW m, InLine(fields, run, m), NEW c,
           NEW set, set = SetOf(RunStores(fields, c, run, {}))
    PROVE  set = Front(fields, run, Values(fields, c, 0, <<>>))
<1>1. Listed(run) \subseteq 1 .. Len(fields)
  BY DEF InLine, Listed
<1>2. set = {Piece(fields, c, i) : i \in Listed(run) \ {}}
  BY LinePieces
<1>3. \A i \in Listed(run) : i # 0 /\ Values(fields, c, 0, <<>>)[i] = FieldBytes(fields[i], c[i])
  BY <1>1 DEF Values
<1> QED
  BY <1>2, <1>3 DEF Front, Piece

LEMMA LenFrontIs ==
    ASSUME NEW fields, Sized(fields), NEW run, NEW m, InLine(fields, run, m), NEW c,
           NEW of \in Listed(run), NEW length,
           NEW one, one = Store(OffsetIn(fields, run, of), length),
           NEW rest, rest = SetOf(RunStores(fields, c, run, {of}))
    PROVE  {one} \cup rest = Front(fields, run, Values(fields, c, of, length))
<1> DEFINE w == Values(fields, c, of, length)
           store(i) == Store(Sum(fields, i - 1), w[i])
<1>1. Listed(run) \subseteq 1 .. Len(fields)
  BY DEF InLine, Listed
<1>2. SetOf(RunStores(fields, c, run, {of})) = {Piece(fields, c, i) : i \in Listed(run) \ {of}}
  BY LinePieces
<1>3. w[of] = length /\ \A i \in Listed(run) \ {of} : w[i] = FieldBytes(fields[i], c[i])
  BY <1>1 DEF Values
<1>4. OffsetIn(fields, run, of) = Sum(fields, of - 1)
  BY DEF InLine, Listed
<1> HIDE DEF w
<1>5. Store(OffsetIn(fields, run, of), length) = store(of)
      /\ \A i \in Listed(run) \ {of} : Piece(fields, c, i) = store(i)
  BY <1>3, <1>4 DEF Piece
<1>6. Front(fields, run, w) = {store(i) : i \in Listed(run)}
  BY DEF Front
<1> HIDE DEF store
<1>7. Front(fields, run, w) = {store(of)} \cup {store(i) : i \in Listed(run) \ {of}}
  BY <1>6
<1> QED
  BY <1>2, <1>5, <1>7 DEF w

\* Each byte in front of the region is one field's.
LEMMA FrontStores ==
    ASSUME NEW fields, NEW c, Filled(fields, c), NEW run, NEW m, InLine(fields, run, m),
           \A p \in 1 .. Len(run) : fields[run[p]].kind \in SizedKinds,
           NEW of, NEW length,
           of \in Listed(run) => IsNumber(fields[of]) /\ length \in Bytes /\ Len(length) = 1
    PROVE  /\ Covers(Front(fields, run, Values(fields, c, of, length)), 0, Sum(fields, m))
           /\ Agree(Front(fields, run, Values(fields, c, of, length)))
           /\ Front(fields, run, Values(fields, c, of, length)) \subseteq Placed(Sum(fields, m))
<1> DEFINE w == Values(fields, c, of, length)
           set == Front(fields, run, w)
           I == Listed(run)
<1>1. /\ Sized(fields) /\ Len(fields) \in Nat /\ I \subseteq 1 .. m /\ I \subseteq 1 .. Len(fields)
      /\ m \in 0 .. Len(fields) /\ m \in Nat
  <2>1. Sized(fields) /\ Len(fields) \in Nat
    BY FilledSized DEF Filled, Sized
  <2> QED
    BY <2>1 DEF InLine, Listed
<1>2. ASSUME NEW i \in I PROVE w[i] \in Bytes /\ Len(w[i]) = Size(fields[i])
  <2>1. CASE i = of
    <3>1. Size(fields[i]) = 1
      BY <2>1 DEF Size, IsNumber
    <3> QED
      BY <1>1, <2>1, <3>1 DEF Values
  <2>2. CASE i # of
    <3>1. fields[i].kind \in SizedKinds
      BY DEF Listed
    <3>2. Writes(fields, c, i)
      BY <1>1, <3>1, FilledWrites
    <3>3. w[i] = FieldBytes(fields[i], c[i])
      BY <1>1, <2>2 DEF Values
    <3> QED
      BY <3>2, <3>3 DEF Writes
  <2> QED
    BY <2>1, <2>2
<1>3. \A s \in set : \E i \in I : s.at = Sum(fields, i - 1) /\ s.bytes = w[i] /\ s = Store(Sum(fields, i - 1), w[i])
  BY DEF Front, Store
<1>4. ASSUME NEW i \in I PROVE \E s \in set : s.at = Sum(fields, i - 1) /\ s.bytes = w[i]
  <2> HIDE DEF w
  <2>1. Store(Sum(fields, i - 1), w[i]) \in set
    BY DEF Front
  <2> QED
    BY <2>1 DEF Store
<1> HIDE DEF w, set, I
<1>5. \A i \in Listed(run) : \E s \in set : s.at = Sum(fields, i - 1) /\ Len(s.bytes) = Size(fields[i])
  BY <1>2, <1>4 DEF I
<1>6. Covers(set, 0, Sum(fields, m))
  BY <1>1, <1>5, LineCovers
<1>7. ASSUME NEW i \in I
      PROVE  Sum(fields, i - 1) \in Nat /\ Sum(fields, i - 1) + Size(fields[i]) <= Sum(fields, m)
  <2>1. i \in 1 .. m /\ i \in 1 .. Len(fields) /\ i - 1 \in 0 .. Len(fields) /\ i \in 0 .. m
    BY <1>1
  <2>2. Sum(fields, i - 1) \in Nat /\ Sum(fields, i) = Sum(fields, i - 1) + Size(fields[i])
    BY <1>1, <2>1, SumSteps
  <2>3. Sum(fields, i) <= Sum(fields, m)
    <3>1. \A k \in 1 .. m : SizesOf(fields)[k] \in Nat
      BY <1>1 DEF SizesOf, Sized
    <3> QED
      BY <1>1, <2>1, <3>1, TotalGrows DEF Sum
  <2> QED
    BY <2>2, <2>3
<1>8. Agree(set)
  <2>1. \A i \in I : Len(w[i]) = Size(fields[i])
    BY <1>2
  <2>4. PICK d \in Nat : d = 0
    OBVIOUS
  <2>2. \A s \in set : \E i \in I : s.at = d + Sum(fields, i - 1) /\ s.bytes = w[i]
    BY <1>3, <1>7, <2>4
  <2>3. I \subseteq 1 .. Len(fields) /\ Sized(fields)
    BY <1>1
  <2>5. Pieced(set, fields, I, d, w)
    BY <2>1, <2>2, <2>3 DEF Pieced
  <2> QED
    BY <2>5, PiecesAgree
<1>9. set \subseteq Placed(Sum(fields, m))
  <2>1. Sum(fields, m) \in Nat
    BY <1>1, SumSteps
  <2>2. ASSUME NEW i \in I PROVE Store(Sum(fields, i - 1), w[i]) \in Placed(Sum(fields, m))
    BY <1>2, <1>7, <2>1, StoreFits
  <2> QED
    BY <1>3, <2>2
<1> QED
  BY <1>6, <1>8, <1>9 DEF set, w

\* One store behind them.
LEMMA OneMore ==
    ASSUME NEW a \in Nat, NEW S, S \subseteq Placed(a), NEW s, s.at = a, s.bytes \in Bytes
    PROVE  /\ Covers(S, 0, a) => Covers(S \cup {s}, 0, a + Len(s.bytes))
           /\ Agree(S) => Agree(S \cup {s})
           /\ s \in [at: Nat, bytes: Bytes, hook: BOOLEAN] => S \cup {s} \subseteq Placed(a + Len(s.bytes))
           /\ a + Len(s.bytes) \in Nat
<1>1. Len(s.bytes) \in Nat
  BY DEF Bytes
<1>2. Covers({s}, a, a + Len(s.bytes))
  BY <1>1 DEF Covers, Holds
<1>3. Covers(S, 0, a) => Covers(S \cup {s}, 0, a + Len(s.bytes))
  <2>1. 0 \in Nat /\ a + Len(s.bytes) \in Nat
    BY <1>1
  <2> QED
    BY <1>2, <2>1, CoversMore
<1>4. Agree(S) => Agree(S \cup {s})
  <2>1. \A t \in {s} : t.at \in Nat /\ a <= t.at
    OBVIOUS
  <2> QED
    BY <2>1, AgreeOne, AgreeBoth
<1>5. s \in [at: Nat, bytes: Bytes, hook: BOOLEAN] => S \cup {s} \subseteq Placed(a + Len(s.bytes))
  <2>1. a + Len(s.bytes) \in Nat /\ a <= a + Len(s.bytes)
    BY <1>1
  <2>2. Placed(a) \subseteq Placed(a + Len(s.bytes))
    BY <2>1, WithinGrows
  <2>3. s \in [at: Nat, bytes: Bytes, hook: BOOLEAN] => s \in Placed(a + Len(s.bytes))
    BY <1>1 DEF Placed
  <2> QED
    BY <2>2, <2>3
<1> QED
  BY <1>1, <1>3, <1>4, <1>5

LEMMA LenByte ==
    ASSUME NEW e \in Exprs, NEW n \in Nat, LenError(e, n) = "none"
    PROVE  <<LenValue(n, e)>> \in Bytes /\ Len(<<LenValue(n, e)>>) = 1
<1>1. e.plus \in Nat /\ e.minus \in Nat
  BY DEF Exprs
<1>2. LenValue(n, e) \in Nat
  BY <1>1 DEF LenValue, Minus
<1>3. LenValue(n, e) \in Byte
  BY <1>2, BaseAssumption DEF LenError, Byte, MaxByte
<1> QED
  BY <1>3 DEF Bytes

\* Stores of a run, none of them a length.
LEMMA RunFront ==
    ASSUME NEW fields, NEW c, Filled(fields, c), NEW run, NEW m, InLine(fields, run, m),
           \A p \in 1 .. Len(run) : fields[run[p]].kind \in SizedKinds,
           NEW set, set = SetOf(RunStores(fields, c, run, {}))
    PROVE  /\ set = Front(fields, run, Values(fields, c, 0, <<>>))
           /\ Covers(set, 0, Sum(fields, m)) /\ Agree(set) /\ set \subseteq Placed(Sum(fields, m))
<1>1. Sized(fields)
  BY FilledSized DEF Filled
<1>2. set = Front(fields, run, Values(fields, c, 0, <<>>))
  BY <1>1, RunFrontIs
<1>3. 0 \notin Listed(run)
  BY DEF InLine, Listed
<1> QED
  BY <1>2, <1>3, FrontStores

\* The length first, then the others.
LenFirst(fields, c, run, e, n) == LenPlan(fields, run, e, n).stores \o RunStores(fields, c, run, {e.of})
LenOf(n, e) == <<LenValue(n, e)>>

LEMMA LenFront ==
    ASSUME NEW fields, NEW c, Filled(fields, c), NEW run, NEW m, InLine(fields, run, m),
           \A p \in 1 .. Len(run) : fields[run[p]].kind \in SizedKinds,
           NEW e \in Exprs, NEW of \in Listed(run), of = e.of, IsNumber(fields[of]),
           NEW n \in Nat, LenError(e, n) = "none",
           NEW set, set = SetOf(LenFirst(fields, c, run, e, n))
    PROVE  /\ set = Front(fields, run, Values(fields, c, of, LenOf(n, e)))
           /\ Covers(set, 0, Sum(fields, m)) /\ Agree(set) /\ set \subseteq Placed(Sum(fields, m))
<1> DEFINE length == <<LenValue(n, e)>>
           rest == RunStores(fields, c, run, {of})
           first == LenPlan(fields, run, e, n).stores
           room == RunBytes(fields, run)
<1>1. Sized(fields)
  BY FilledSized DEF Filled
<1>2. length \in Bytes /\ Len(length) = 1
  BY LenByte
<1>3. SetOf(first) = {Store(OffsetIn(fields, run, of), length)}
  BY LenStores, SetOfOne
<1>4. rest \in Within(room) /\ first \in Within(room)
  <2>1. run \in Seq(1 .. Len(fields))
    BY DEF InLine
  <2>2. PICK p \in 1 .. Len(run) : run[p] = of
    BY DEF Listed
  <2>3. rest \in Within(room)
    BY <2>1, FilledRun
  <2>4. first \in Within(room)
    BY <1>1, <2>1, <2>2, LenPlanFits
  <2> QED
    BY <2>3, <2>4
<1>5. set = SetOf(first) \cup SetOf(rest)
  <2>1. set = SetOf(first \o rest)
    BY DEF LenFirst
  <2> HIDE DEF first, rest, room
  <2> QED
    BY <1>4, <2>1, SetOfBoth
<1>6. set = Front(fields, run, Values(fields, c, of, length))
  <2> DEFINE one == Store(OffsetIn(fields, run, of), length)
             some == SetOf(RunStores(fields, c, run, {of}))
  <2>1. set = {one} \cup some
    BY <1>3, <1>5
  <2>3. one = Store(OffsetIn(fields, run, of), length) /\ some = SetOf(RunStores(fields, c, run, {of}))
    OBVIOUS
  <2> HIDE DEF length, one, some
  <2>4. {one} \cup some = Front(fields, run, Values(fields, c, of, length))
    BY <1>1, <2>3, LenFrontIs
  <2> QED
    BY <2>1, <2>4
<1> HIDE DEF length
<1>7. Covers(set, 0, Sum(fields, m)) /\ Agree(set) /\ set \subseteq Placed(Sum(fields, m))
  BY <1>2, <1>6, FrontStores
<1> QED
  BY <1>6, <1>7 DEF length, LenOf

\* All that a plan uses is stored.
Complete(p) == Covers(SetOf(p.stores), 0, p.used)

LEMMA PrefixSized ==
    ASSUME NEW fields \in Seq(Items), NEW m \in 0 .. Len(fields)
    PROVE  /\ InLine(fields, PrefixRun(fields, m + 1), m)
           /\ \A p \in 1 .. Len(PrefixRun(fields, m + 1)) : fields[PrefixRun(fields, m + 1)[p]].kind \in SizedKinds
<1>1. Sized(fields) /\ Len(fields) \in Nat
  BY FilledSized DEF Sized
<1>2. 1 \in 1 .. Len(fields) + 1
  BY <1>1
<1>3. \A p \in 1 .. Len(PrefixRun(fields, m + 1)) : PrefixRun(fields, m + 1)[p] \in Prefix(fields)
  BY <1>1, <1>2, OffsetPrefix
<1>4. InLine(fields, PrefixRun(fields, m + 1), m)
  BY <1>1, PrefixInLine
<1> QED
  BY <1>3, <1>4 DEF Prefix, SizedKinds

LEMMA UptoSized ==
    ASSUME NEW fields \in Seq(Items), NEW m \in 0 .. Len(fields), \A i \in 1 .. m : fields[i].kind \in SizedKinds
    PROVE  /\ InLine(fields, Upto(m), m)
           /\ \A p \in 1 .. Len(Upto(m)) : fields[Upto(m)[p]].kind \in SizedKinds
           /\ Listed(Upto(m)) = 1 .. m
<1>1. Sized(fields) /\ Len(fields) \in Nat
  BY FilledSized DEF Sized
<1>2. Len(Upto(m)) = m /\ \A k \in 1 .. m : Upto(m)[k] = k
  BY <1>1, UptoType
<1>3. InLine(fields, Upto(m), m)
  BY <1>1, UptoInLine
<1>4. Listed(Upto(m)) = 1 .. m
  BY <1>2 DEF Listed
<1> QED
  BY <1>2, <1>3, <1>4

-----------------------------------------------------------------------------
(* Plans without unions are complete.                                      *)

LEMMA FixedComplete ==
    ASSUME NEW fields, NEW c, Filled(fields, c), \A i \in 1 .. Len(fields) : fields[i].kind \in SizedKinds,
           NEW set, set = SetOf(FixedPlan(fields, c).stores)
    PROVE  /\ set = Front(fields, Upto(Len(fields)), Values(fields, c, 0, <<>>))
           /\ Agree(set) /\ Covers(set, 0, FixedPlan(fields, c).used)
           /\ FixedPlan(fields, c).used = Sum(fields, Len(fields)) /\ FixedPlan(fields, c).late = "none"
<1> DEFINE n == Len(fields)
           run == Upto(n)
<1>1. n \in 0 .. Len(fields) /\ fields \in Seq(Items) /\ Sized(fields)
  BY FilledSized DEF Filled, Sized
<1>2. FixedPlan(fields, c).stores = RunStores(fields, c, run, {})
      /\ FixedPlan(fields, c).used = RunBytes(fields, run) /\ FixedPlan(fields, c).late = "none"
  BY DEF FixedPlan, Plan
<1>3. RunBytes(fields, run) = Sum(fields, n)
  BY <1>1, RunBytesUpto
<1>4. InLine(fields, run, n) /\ \A p \in 1 .. Len(run) : fields[run[p]].kind \in SizedKinds
  <2> HIDE DEF n
  <2>1. \A i \in 1 .. n : fields[i].kind \in SizedKinds
    BY DEF n
  <2> QED
    BY <1>1, <2>1, UptoSized
<1> HIDE DEF n, run
<1>5. set = SetOf(RunStores(fields, c, run, {}))
  BY <1>2
<1>6. set = Front(fields, run, Values(fields, c, 0, <<>>)) /\ Covers(set, 0, Sum(fields, n)) /\ Agree(set)
  BY <1>4, <1>5, RunFront
<1> QED
  BY <1>2, <1>3, <1>6 DEF n, run

LEMMA OpenTailComplete ==
    ASSUME NEW fields, NEW c, Filled(fields, c), NEW lay, lay.region = Len(fields), Len(fields) > 0,
           fields[lay.region].kind = "greedy",
           NEW p, p = DynamicTailOpenPlan(fields, c, lay), NEW run, run = PrefixRun(fields, lay.region),
           NEW one, one = Store(Sum(fields, lay.region - 1), c[lay.region])
    PROVE  /\ SetOf(p.stores) = Front(fields, run, Values(fields, c, 0, <<>>)) \cup {one}
           /\ Complete(p) /\ Agree(SetOf(p.stores))
<1> DEFINE i == lay.region
           at == RunBytes(fields, run)
           room == at + Len(c[i])
           front == RunStores(fields, c, run, {})
           last == <<one>>
           S == SetOf(front)
<1>1. /\ i \in 1 .. Len(fields) /\ i - 1 \in 0 .. Len(fields) /\ (i - 1) + 1 = i
      /\ fields \in Seq(Items)
  BY FilledSized DEF Filled, Sized
<1>2. front \in Within(at) /\ at \in Nat /\ at = Sum(fields, i - 1)
  BY <1>1, FilledPrefix
<1>3. InLine(fields, run, i - 1) /\ \A q \in 1 .. Len(run) : fields[run[q]].kind \in SizedKinds
  BY <1>1, PrefixSized
<1>4. c[i] \in Bytes /\ Len(c[i]) \in Nat
  <2>1. c[i] \in Bytes
    BY <1>1 DEF Filled, FieldHolds
  <2> QED
    BY <2>1 DEF Bytes
<1>5. p = Plan(at + Len(c[i]), front \o <<Store(at, c[i])>>)
  BY Zenon DEF DynamicTailOpenPlan
<1>6. one = Store(at, c[i])
  BY <1>2
<1>7. p.stores = front \o last /\ p.used = room
  BY <1>5, <1>6 DEF Plan
<1>8. S = SetOf(RunStores(fields, c, run, {})) /\ S = SetOf(front)
  OBVIOUS
<1> HIDE DEF at, i, front
<1>9. room \in Nat /\ at <= room
  BY <1>2, <1>4
<1>10. one \in Placed(room) /\ one.at = at /\ one.bytes = c[i]
  BY <1>2, <1>4, <1>6, <1>9, StoreFits DEF Store
<1>11. front \in Within(room) /\ last \in Within(room) /\ SetOf(last) = {one}
  BY <1>2, <1>9, <1>10, WithinGrows, Single, SetOfOne
<1> HIDE DEF last, room, S
<1>12. SetOf(p.stores) = S \cup {one}
  BY <1>7, <1>8, <1>11, SetOfBoth
<1>13. /\ S = Front(fields, run, Values(fields, c, 0, <<>>))
       /\ Covers(S, 0, Sum(fields, i - 1)) /\ Agree(S) /\ S \subseteq Placed(Sum(fields, i - 1))
  BY <1>3, <1>8, RunFront
<1>14. Covers(S \cup {one}, 0, at + Len(one.bytes)) /\ Agree(S \cup {one})
  BY <1>2, <1>4, <1>10, <1>13, OneMore
<1> QED
  BY <1>7, <1>10, <1>12, <1>13, <1>14 DEF Complete, room

LEMMA DynamicTailComplete ==
    ASSUME NEW fields, NEW c, Filled(fields, c), NEW lay, lay.region = Len(fields), Len(fields) > 0,
           fields[lay.region].kind = "arr", LenField(fields, RunSet(fields, lay.region), fields[lay.region].len) # 0,
           NEW p, p = DynamicTailPlan(fields, c, lay), p.early = "none",
           NEW run, run = PrefixRun(fields, lay.region),
           NEW e, e = fields[lay.region].len,
           NEW length, length = LenOf(Len(c[lay.region]), e),
           NEW one, one = Store(Sum(fields, lay.region - 1), c[lay.region])
    PROVE  /\ SetOf(p.stores) = Front(fields, run, Values(fields, c, e.of, length)) \cup {one}
           /\ Complete(p) /\ Agree(SetOf(p.stores)) /\ e.of \in Listed(run)
<1> DEFINE i == lay.region
           at == RunBytes(fields, run)
           n == Len(c[i])
           room == at + n
           first == LenPlan(fields, run, e, n).stores
           rest == RunStores(fields, c, run, {e.of})
           front == first \o rest
           last == <<one>>
           S == SetOf(front)
<1>1. /\ i \in 1 .. Len(fields) /\ i - 1 \in 0 .. Len(fields) /\ (i - 1) + 1 = i
      /\ fields \in Seq(Items) /\ Sized(fields) /\ fields[i] \in Items
  BY FilledSized DEF Filled, Sized
<1>2. at \in Nat /\ at = Sum(fields, i - 1)
  BY <1>1, FilledPrefix
<1>3. /\ InLine(fields, run, i - 1) /\ run \in Seq(1 .. Len(fields))
      /\ \A q \in 1 .. Len(run) : fields[run[q]].kind \in SizedKinds
  <2>1. InLine(fields, run, i - 1) /\ \A q \in 1 .. Len(run) : fields[run[q]].kind \in SizedKinds
    BY <1>1, PrefixSized
  <2> QED
    BY <2>1 DEF InLine
<1>4. c[i] \in Bytes /\ n \in Nat
  <2>1. c[i] \in Bytes
    BY <1>1 DEF Filled, FieldHolds
  <2> QED
    BY <2>1 DEF Bytes
<1>5. e \in Exprs
  BY <1>1, ItemType
<1>6. e.of \in Listed(run) /\ IsNumber(fields[e.of])
  <2>1. LenField(fields, RunSet(fields, i), e) # 0 /\ RunSet(fields, i) = Listed(run)
    BY DEF RunSet, Listed
  <2> QED
    BY <1>5, <2>1, LenFieldIs
<1>7. p = [Plan(room, front \o <<Store(at, c[i])>>) EXCEPT !.early = LenError(e, n)]
  BY Zenon DEF DynamicTailPlan
<1>8. one = Store(at, c[i])
  BY <1>2
<1>9. p.stores = front \o last /\ p.used = room /\ LenError(e, n) = "none"
  BY <1>7, <1>8 DEF Plan
<1>10. first \in Within(at) /\ rest \in Within(at)
  <2>1. PICK q \in 1 .. Len(run) : run[q] = e.of
    BY <1>6 DEF Listed
  <2> HIDE DEF n
  <2>2. first \in Within(at)
    BY <1>1, <1>3, <1>4, <1>5, <1>6, <2>1, LenPlanFits
  <2>3. rest \in Within(at)
    BY <1>3, FilledRun
  <2> QED
    BY <2>2, <2>3
<1>11. S = SetOf(LenFirst(fields, c, run, e, n)) /\ S = SetOf(front)
  BY DEF LenFirst
<1>12. length = LenOf(n, e)
  OBVIOUS
<1> HIDE DEF at, i, first, rest, n
<1>13. front \in Within(at)
  BY <1>10, Concat
<1> HIDE DEF front
<1>14. room \in Nat /\ at <= room
  BY <1>2, <1>4
<1>15. one \in Placed(room) /\ one.at = at /\ one.bytes = c[i]
  BY <1>2, <1>4, <1>8, <1>14, StoreFits DEF Store, n
<1>16. front \in Within(room) /\ last \in Within(room) /\ SetOf(last) = {one}
  BY <1>2, <1>13, <1>14, <1>15, WithinGrows, Single, SetOfOne
<1> HIDE DEF last, room, S
<1>17. SetOf(p.stores) = S \cup {one}
  BY <1>9, <1>11, <1>16, SetOfBoth
<1>18. /\ S = Front(fields, run, Values(fields, c, e.of, LenOf(n, e)))
       /\ Covers(S, 0, Sum(fields, i - 1)) /\ Agree(S) /\ S \subseteq Placed(Sum(fields, i - 1))
  <2>1. PICK of \in Listed(run) : of = e.of /\ IsNumber(fields[of])
    BY <1>6
  <2>2. /\ S = Front(fields, run, Values(fields, c, of, LenOf(n, e)))
        /\ Covers(S, 0, Sum(fields, i - 1)) /\ Agree(S) /\ S \subseteq Placed(Sum(fields, i - 1))
    <3>1. /\ InLine(fields, run, i - 1) /\ n \in Nat /\ LenError(e, n) = "none"
          /\ S = SetOf(LenFirst(fields, c, run, e, n))
      BY <1>3, <1>4, <1>9, <1>11
    <3>2. \A q \in 1 .. Len(run) : fields[run[q]].kind \in SizedKinds
      BY <1>3
    <3> QED
      BY <1>5, <2>1, <3>1, <3>2, LenFront
  <2> QED
    BY <2>1, <2>2
<1>19. Covers(S \cup {one}, 0, at + Len(one.bytes)) /\ Agree(S \cup {one})
  BY <1>2, <1>4, <1>15, <1>18, OneMore
<1> QED
  BY <1>6, <1>9, <1>12, <1>15, <1>17, <1>18, <1>19 DEF Complete, room, n

\* The hook right in front of the region.
LEMMA DynamicTailHookComplete ==
    ASSUME NEW fields, NEW c, Filled(fields, c), NEW lay, lay.region = Len(fields),
           lay.hook \in 1 .. Len(fields), lay.region = lay.hook + 1,
           fields[lay.region].kind = "arr", fields[lay.hook].kind = "hook",
           NEW p, p = DynamicTailHookPlan(fields, c, lay)
    PROVE  Complete(p) /\ Agree(SetOf(p.stores))
<1> DEFINE i == lay.region
           h == lay.hook
           at == RunBytes(fields, PrefixRun(fields, h))
           v == Varint(Cast(Len(c[i])))
           run == PrefixRun(fields, i)
           rest == RunStores(fields, c, run, {})
           one == HookStore(at, v)
           two == Store(at + Len(v), c[i])
           first == <<one>>
           last == <<two>>
           S == SetOf(rest)
<1>1. /\ i \in 1 .. Len(fields) /\ h \in 0 .. Len(fields) /\ h + 1 = i /\ i - 1 = h
      /\ h - 1 \in 0 .. Len(fields) /\ (h - 1) + 1 = h /\ Sized(fields) /\ fields \in Seq(Items)
  <2>1. Sized(fields) /\ Len(fields) \in Nat /\ fields \in Seq(Items)
    BY FilledSized DEF Filled, Sized
  <2> QED
    BY <2>1
<1>2. at = Sum(fields, h - 1) /\ at \in Nat
  BY <1>1, FilledPrefix
<1>3. rest \in Within(Sum(fields, h)) /\ Sum(fields, h) \in Nat
  BY <1>1, FilledPrefix
<1>4. Sum(fields, h) = at
  <2>1. Sum(fields, h) = Sum(fields, h - 1) + Size(fields[h])
    BY <1>1, SumSteps
  <2>2. Size(fields[h]) = 0
    BY DEF Size
  <2> HIDE DEF at, h
  <2> QED
    BY <1>2, <2>1, <2>2
<1>5. c[i] \in Bytes /\ Len(c[i]) \in Nat
  <2>1. c[i] \in Bytes
    BY <1>1 DEF Filled, FieldHolds
  <2> QED
    BY <2>1 DEF Bytes
<1>6. v \in Bytes /\ Len(v) \in Nat
  <2>1. v \in Bytes
    BY <1>5, CastFits, VarintFits
  <2> HIDE DEF v
  <2> QED
    BY <2>1 DEF Bytes
<1> DEFINE to == at + Len(v)
           room == to + Len(c[i])
<1>7. p.stores = first \o rest \o last /\ p.used = room
  <2>1. DynamicTailHookPlan(fields, c, lay)
          = Plan(at + Len(v) + Len(c[i]),
                 <<HookStore(at, v)>> \o rest \o <<Store(at + Len(v), c[i])>>)
    BY Zenon DEF DynamicTailHookPlan
  <2> QED
    BY <2>1 DEF Plan
<1>8. S = SetOf(RunStores(fields, c, run, {})) /\ S = SetOf(rest)
  OBVIOUS
<1>9. /\ InLine(fields, run, h) /\ \A q \in 1 .. Len(run) : fields[run[q]].kind \in SizedKinds
  <2> HIDE DEF h
  <2> QED
    BY <1>1, PrefixSized
<1> HIDE DEF at, v, rest, run, h
<1>10. /\ to \in Nat /\ room \in Nat /\ at <= to /\ to <= room /\ at <= room
       /\ to = at + Len(one.bytes) /\ room = to + Len(two.bytes)
  BY <1>2, <1>5, <1>6 DEF HookStore, Store
<1>11. /\ one \in Placed(to) /\ one.at = at /\ one.bytes = v
       /\ two \in Placed(room) /\ two.at = to /\ two.bytes = c[i]
  <2>1. one.at = at /\ one.bytes = v /\ two.at = to /\ two.bytes = c[i]
    BY DEF HookStore, Store
  <2>2. one \in Placed(to)
    BY <1>2, <1>6, <1>10, StoreFits
  <2>3. two \in Placed(room)
    <3> HIDE DEF to
    <3>1. two = Store(to, c[i])
      BY DEF to
    <3> HIDE DEF two, room
    <3>2. to + Len(c[i]) <= room
      BY <1>10 DEF room
    <3> QED
      BY <1>5, <1>10, <3>1, <3>2, StoreFits
  <2> QED
    BY <2>1, <2>2, <2>3
<1> HIDE DEF to, room, one, two
<1>12. first \in Within(room) /\ last \in Within(room) /\ rest \in Within(room)
       /\ SetOf(first) = {one} /\ SetOf(last) = {two}
  <2>1. one \in Placed(room) /\ rest \in Within(room)
    BY <1>2, <1>3, <1>4, <1>10, <1>11, WithinGrows
  <2> QED
    BY <1>11, <2>1, Single, SetOfOne
<1> HIDE DEF first, last, S
<1>13. SetOf(p.stores) = (S \cup {one}) \cup {two}
  <2> DEFINE both == first \o rest
  <2>1. both \in Within(room)
    BY <1>12, Concat
  <2>4. SetOf(both) = SetOf(first) \cup SetOf(rest)
    BY <1>12, SetOfBoth
  <2>2. p.stores = both \o last
    BY <1>7
  <2> HIDE DEF both
  <2>3. SetOf(p.stores) = SetOf(both) \cup SetOf(last)
    BY <1>12, <2>1, <2>2, SetOfBoth
  <2> QED
    BY <1>8, <1>12, <2>3, <2>4
<1>14. Covers(S, 0, Sum(fields, h)) /\ Agree(S) /\ S \subseteq Placed(Sum(fields, h))
  BY <1>8, <1>9, RunFront
<1> DEFINE T == S \cup {one}
<1>15. Covers(T, 0, to) /\ Agree(T) /\ T \subseteq Placed(to)
  <2>1. one \in [at: Nat, bytes: Bytes, hook: BOOLEAN] /\ one.bytes \in Bytes
    BY <1>11 DEF Placed
  <2>2. S \subseteq Placed(at) /\ Covers(S, 0, at)
    BY <1>4, <1>14
  <2>3. /\ Covers(S \cup {one}, 0, at + Len(one.bytes)) /\ Agree(S \cup {one})
        /\ S \cup {one} \subseteq Placed(at + Len(one.bytes))
    BY <1>2, <1>11, <1>14, <2>1, <2>2, OneMore
  <2> QED
    BY <1>10, <2>3
<1> HIDE DEF T
<1>16. Covers(T \cup {two}, 0, room) /\ Agree(T \cup {two})
  BY <1>5, <1>10, <1>11, <1>15, OneMore
<1> QED
  BY <1>7, <1>13, <1>16 DEF Complete, T

\* A hook at the end.
LEMMA ContentHookComplete ==
    ASSUME NEW fields, NEW c, Filled(fields, c), NEW lay, lay.region = Len(fields), Len(fields) > 0,
           c[lay.region] \in 0 .. MaxHooked,
           NEW p, p = ContentHookPlan(fields, c, lay) \/ p = ContentHookNoWidthPlan(fields, c, lay)
    PROVE  Complete(p)
<1> DEFINE i == lay.region
           run == PrefixRun(fields, i)
           at == RunBytes(fields, run)
           v == Varint(c[i])
           room == at + Width(c[i])
           front == RunStores(fields, c, run, {})
           one == HookStore(at, v)
           last == <<one>>
           S == SetOf(front)
<1>1. /\ i \in 1 .. Len(fields) /\ i - 1 \in 0 .. Len(fields) /\ (i - 1) + 1 = i
      /\ fields \in Seq(Items)
  BY FilledSized DEF Filled, Sized
<1>2. front \in Within(at) /\ at \in Nat /\ at = Sum(fields, i - 1)
  BY <1>1, FilledPrefix
<1>3. InLine(fields, run, i - 1) /\ \A q \in 1 .. Len(run) : fields[run[q]].kind \in SizedKinds
  BY <1>1, PrefixSized
<1>4. v \in Bytes /\ Len(v) = Width(c[i]) /\ Width(c[i]) \in Nat
  BY VarintFits
<1>5. p.stores = front \o last /\ p.used = room
  <2>1. ContentHookPlan(fields, c, lay) = Plan(room, front \o last)
    BY Zenon DEF ContentHookPlan
  <2>2. ContentHookNoWidthPlan(fields, c, lay) = [Plan(room, front \o last) EXCEPT !.need = at]
    <3>1. c[lay.region] <= MaxHooked
      BY VarintFits
    <3> HIDE DEF room, front, last
    <3> QED
      BY <2>1, <3>1 DEF ContentHookNoWidthPlan
  <2> HIDE DEF room, front, last, at
  <2> QED
    BY <2>1, <2>2 DEF Plan
<1>6. S = SetOf(RunStores(fields, c, run, {})) /\ S = SetOf(front)
  OBVIOUS
<1> HIDE DEF at, front, run, v
<1>7. room \in Nat /\ at <= room /\ room = at + Len(v)
  BY <1>2, <1>4
<1>8. one \in Placed(room) /\ one.at = at /\ one.bytes = v
  BY <1>2, <1>4, <1>7, StoreFits DEF HookStore
<1> HIDE DEF one, i
<1>9. front \in Within(room) /\ last \in Within(room) /\ SetOf(last) = {one}
  BY <1>2, <1>7, <1>8, WithinGrows, Single, SetOfOne
<1> HIDE DEF last, room, S
<1>10. SetOf(p.stores) = S \cup {one}
  BY <1>5, <1>6, <1>9, SetOfBoth
<1>11. Covers(S, 0, Sum(fields, i - 1)) /\ S \subseteq Placed(Sum(fields, i - 1))
  BY <1>3, <1>6, RunFront
<1>12. Covers(S \cup {one}, 0, at + Len(one.bytes))
  BY <1>2, <1>4, <1>8, <1>11, OneMore
<1> QED
  BY <1>5, <1>7, <1>8, <1>10, <1>12 DEF Complete

\* Records hold all of their region, and no byte twice.
LEMMA RecordsComplete ==
    ASSUME NEW it, it.size \in Nat, NEW at \in Nat, NEW records \in Seq(Bytes),
           \A n \in 1 .. Len(records) : Len(records[n]) = it.size,
           NEW set, set = SetOf(RecordStores(it, at, records))
    PROVE  Covers(set, at, at + Len(records) * it.size) /\ Agree(set) /\ \A t \in set : t.at \in Nat /\ at <= t.at
<1> DEFINE N == Len(records)
           size == it.size
           to == at + Len(records) * it.size
<1>1. N \in Nat /\ size \in Nat
  OBVIOUS
<1>2. PICK t \in [0 .. N -> Nat] : \A n \in 0 .. N : t[n] = n * size
  <2> HIDE DEF N, size
  <2>1. \A n \in 0 .. N : n * size \in Nat
    BY <1>1
  <2>2. [n \in 0 .. N |-> n * size] \in [0 .. N -> Nat]
    BY <2>1
  <2> QED
    BY <2>2
<1>3. set = {Store(at + t[n - 1], records[n]) : n \in 1 .. N}
  <2>1. RecordStores(it, at, records) = [n \in 1 .. N |-> Store(at + (n - 1) * size, records[n])]
    BY Zenon DEF RecordStores
  <2>2. \A n \in 1 .. N : n - 1 \in 0 .. N /\ (n - 1) * size = t[n - 1]
    <3> HIDE DEF N, size
    <3>1. \A n \in 1 .. N : n - 1 \in 0 .. N
      BY <1>1
    <3> QED
      BY <1>2, <3>1
  <2> DEFINE stores == RecordStores(it, at, records)
             store(n) == Store(at + t[n - 1], records[n])
  <2>3. stores = [n \in 1 .. N |-> store(n)]
    BY <2>1, <2>2
  <2> HIDE DEF stores, store, N
  <2>4. Len(stores) = N /\ \A n \in 1 .. N : stores[n] = store(n)
    BY <1>1, <2>3
  <2>5. SetOf(stores) = {store(n) : n \in 1 .. N}
    BY <2>4 DEF SetOf
  <2> QED
    BY <2>5 DEF stores, store
<1>4. \A n \in 1 .. N : Len(records[n]) = size
  OBVIOUS
<1>5. to = at + t[N] /\ t[0] = 0
  <2> HIDE DEF N, size
  <2>1. to = at + N * size /\ N \in 0 .. N /\ 0 \in 0 .. N /\ 0 * size = 0
    BY <1>1 DEF N, size
  <2> HIDE DEF to
  <2> QED
    BY <1>2, <2>1
<1> HIDE DEF N, size, to
<1>6. ASSUME NEW n \in 1 .. N PROVE t[n] = t[n - 1] + size /\ t[n - 1] \in Nat /\ t[n] \in Nat
  <2>1. PICK a \in 0 .. N : a = n - 1 /\ n = a + 1
    BY <1>1
  <2>2. (a + 1) * size = a * size + size
    BY <1>1
  <2>3. t[n] = (a + 1) * size /\ t[a] = a * size /\ t[n] \in Nat /\ t[a] \in Nat
    BY <1>2, <2>1
  <2> QED
    BY <2>1, <2>2, <2>3
<1>7. ASSUME NEW i \in 0 .. N, NEW j \in 0 .. N, i <= j PROVE t[i] <= t[j]
  <2>1. PICK d \in Nat, a \in Nat : a = i /\ j = a + d
    <3>1. j - i \in Nat /\ j = i + (j - i) /\ i \in Nat
      BY <1>1, <1>7
    <3> QED
      BY <3>1
  <2>2. (a + d) * size = a * size + d * size /\ d * size \in Nat /\ a * size \in Nat
    BY <1>1
  <2>3. t[i] = a * size /\ t[j] = (a + d) * size
    BY <1>2, <2>1
  <2> DEFINE x == a * size
             y == d * size
             z == (a + d) * size
  <2>4. z = x + y /\ x \in Nat /\ y \in Nat /\ t[i] = x /\ t[j] = z
    BY <2>2, <2>3
  <2> HIDE DEF x, y, z
  <2> QED
    BY <2>4
<1>8. ASSUME NEW s \in set
      PROVE  \E n \in 1 .. N : s.at = at + t[n - 1] /\ s.bytes = records[n] /\ Len(s.bytes) = size
  BY <1>3, <1>4 DEF Store
<1>9. ASSUME NEW k \in at + 1 .. to PROVE \E s \in set : Holds(s, k)
  <2> DEFINE P == {p \in 0 .. N : k <= at + t[p]}
  <2>1. P \subseteq Nat /\ N \in P
    BY <1>1, <1>5
  <2>2. PICK p \in P : \A q \in P : p <= q
    <3> HIDE DEF P
    <3> QED
      BY <2>1, LeastOf
  <2>3. p \in 1 .. N
    <3>1. p # 0
      BY <1>5
    <3> QED
      BY <3>1
  <2>4. p - 1 \notin P /\ p - 1 \in 0 .. N
    BY <1>1, <2>2, <2>3
  <2>5. at + t[p - 1] < k /\ k <= (at + t[p - 1]) + size
    BY <1>1, <1>6, <2>3, <2>4
  <2> DEFINE s == Store(at + t[p - 1], records[p])
  <2>6. s \in set /\ s.at = at + t[p - 1] /\ Len(s.bytes) = size
    BY <1>3, <1>4, <2>3 DEF Store
  <2> HIDE DEF s, P
  <2> QED
    BY <2>5, <2>6 DEF Holds
<1>10. ASSUME NEW s \in set, NEW u \in set, NEW k \in Nat, Holds(s, k), Holds(u, k)
       PROVE  ByteOf(s, k) = ByteOf(u, k)
  <2>1. PICK i \in 1 .. N : s.at = at + t[i - 1] /\ s.bytes = records[i] /\ Len(s.bytes) = size
    BY <1>8
  <2>2. PICK j \in 1 .. N : u.at = at + t[j - 1] /\ u.bytes = records[j] /\ Len(u.bytes) = size
    BY <1>8
  <2>3. at + t[i - 1] < k /\ k <= at + t[i] /\ at + t[j - 1] < k /\ k <= at + t[j]
    <3>1. PICK x \in Nat, y \in Nat : x = t[i - 1] /\ y = t[j - 1]
      BY <1>6
    <3>2. t[i] = x + size /\ t[j] = y + size
      BY <1>6, <3>1
    <3>3. at + x < k /\ k <= (at + x) + size
      BY <1>10, <2>1, <3>1 DEF Holds
    <3>4. at + y < k /\ k <= (at + y) + size
      BY <1>10, <2>2, <3>1 DEF Holds
    <3>5. k <= at + (x + size) /\ k <= at + (y + size)
      BY <1>1, <3>3, <3>4
    <3> QED
      BY <3>1, <3>2, <3>3, <3>4, <3>5
  <2>4. i - 1 \in 0 .. N /\ j - 1 \in 0 .. N /\ i \in 0 .. N /\ j \in 0 .. N
    BY <1>1
  <2>5. /\ t[i] \in Nat /\ t[j] \in Nat /\ t[i - 1] \in Nat /\ t[j - 1] \in Nat
    BY <2>4
  <2>6. ~(i <= j - 1) /\ ~(j <= i - 1)
    <3>1. i <= j - 1 => t[i] <= t[j - 1]
      BY <1>7, <2>4
    <3>2. j <= i - 1 => t[j] <= t[i - 1]
      BY <1>7, <2>4
    <3> QED
      BY <2>3, <2>5, <3>1, <3>2
  <2>7. i = j
    BY <2>6
  <2> QED
    BY <2>1, <2>2, <2>7 DEF ByteOf
<1>11. \A s \in set : s.at \in Nat /\ at <= s.at
  <2> SUFFICES ASSUME NEW s \in set PROVE s.at \in Nat /\ at <= s.at
    OBVIOUS
  <2>1. PICK n \in 1 .. N : s.at = at + t[n - 1]
    BY <1>8
  <2>2. t[n - 1] \in Nat
    BY <1>6
  <2> QED
    BY <2>1, <2>2
<1> QED
  BY <1>9, <1>10, <1>11 DEF Covers, Agree, to

LEMMA GreedyComplete ==
    ASSUME NEW fields, NEW c, Filled(fields, c), NEW lay, lay.region = Len(fields), Len(fields) > 0,
           fields[lay.region].kind = "recs", AllFixed(fields, 1, lay.region - 1),
           NEW p, p = GreedyStructTailPlan(fields, c, lay), NEW run, run = Upto(lay.region - 1),
           NEW more, more = SetOf(RecordStores(fields[lay.region], Sum(fields, lay.region - 1), c[lay.region]))
    PROVE  /\ SetOf(p.stores) = Front(fields, run, Values(fields, c, 0, <<>>)) \cup more
           /\ Complete(p) /\ Agree(SetOf(p.stores))
<1> DEFINE i == lay.region
           at == RunBytes(fields, run)
           front == RunStores(fields, c, run, {})
           records == RecordStores(fields[i], at, c[i])
           room == at + Len(c[i]) * fields[i].size
           S == SetOf(front)
<1>1. i \in 1 .. Len(fields) /\ i - 1 \in 0 .. Len(fields) /\ fields \in Seq(Items)
  <2>1. Len(fields) \in Nat /\ fields \in Seq(Items)
    BY FilledSized DEF Filled, Sized
  <2> QED
    BY <2>1
<1>2. \A k \in 1 .. i - 1 : fields[k].kind \in SizedKinds
  BY FixedIsSized DEF AllFixed
<1>3. front \in Within(at) /\ at \in Nat /\ at = Sum(fields, i - 1)
  <2>1. run = Upto(i - 1)
    OBVIOUS
  <2> HIDE DEF i
  <2> QED
    BY <1>1, <1>2, <2>1, FilledUpto
<1>4. /\ c[i] \in Seq(Bytes) /\ fields[i].size \in Nat
      /\ \A n \in 1 .. Len(c[i]) : Len(c[i][n]) = fields[i].size
  BY <1>1, FilledRecords
<1>5. room \in Nat /\ at <= room /\ records \in Within(room)
  <2> HIDE DEF at, i
  <2> QED
    BY <1>3, <1>4, RecordsFit
<1>6. more = SetOf(records)
  BY <1>3
<1>7. p.stores = front \o records /\ p.used = room
  <2>1. p = Plan(room, front \o records)
    BY Zenon DEF GreedyStructTailPlan
  <2> HIDE DEF room, front, records
  <2> QED
    BY <2>1 DEF Plan
<1>8. InLine(fields, run, i - 1) /\ \A q \in 1 .. Len(run) : fields[run[q]].kind \in SizedKinds
  <2>1. run = Upto(i - 1)
    OBVIOUS
  <2> HIDE DEF i
  <2> QED
    BY <1>1, <1>2, <2>1, UptoSized
<1>9. Covers(more, at, room) /\ Agree(more) /\ \A t \in more : t.at \in Nat /\ at <= t.at
  <2> HIDE DEF at, i
  <2> QED
    BY <1>3, <1>4, <1>6, RecordsComplete
<1>10. S = SetOf(RunStores(fields, c, run, {})) /\ S = SetOf(front)
  OBVIOUS
<1> HIDE DEF at, front, records, room, S
<1>11. /\ S = Front(fields, run, Values(fields, c, 0, <<>>))
       /\ Covers(S, 0, Sum(fields, i - 1)) /\ Agree(S) /\ S \subseteq Placed(Sum(fields, i - 1))
  BY <1>8, <1>10, RunFront
<1>12. SetOf(p.stores) = S \cup more
  <2>1. front \in Within(room)
    BY <1>3, <1>5, WithinGrows
  <2> QED
    BY <1>5, <1>6, <1>7, <1>10, <2>1, SetOfBoth
<1>13. Covers(S \cup more, 0, room) /\ Agree(S \cup more)
  <2>1. 0 \in Nat
    OBVIOUS
  <2> QED
    BY <1>3, <1>5, <1>9, <1>11, <2>1, CoversMore, AgreeBoth
<1> QED
  BY <1>7, <1>11, <1>12, <1>13 DEF Complete

\* The branch that the condition takes has all of its fields.
BranchGiven(fields, c, lay) ==
    LET it == fields[lay.region]
        taken == Taken(it, c)
        values == IF taken THEN c[lay.region].yes ELSE c[lay.region].no
    IN  lay.shape = "Conditional" =>
            \A i \in 1 .. Len(IF taken THEN it.yes ELSE it.no) : values[i] # Absent

LEMMA BranchComplete ==
    ASSUME NEW branch \in Seq(Fields), FieldsWell(branch), NEW values, BranchHolds(branch, values),
           \A i \in 1 .. Len(branch) : FixedField(branch[i]) /\ values[i] # Absent,
           NEW given, given = [i \in 1 .. Len(branch) |-> values[i][1]],
           NEW run, run = Upto(Len(branch))
    PROVE  /\ RunStores(branch, given, run, {}) \in Within(RunBytes(branch, run)) /\ RunBytes(branch, run) \in Nat
           /\ Covers(SetOf(RunStores(branch, given, run, {})), 0, RunBytes(branch, run))
<1>1. branch \in Seq(Items) /\ Len(branch) \in Nat /\ Len(branch) \in 0 .. Len(branch)
  BY FieldsAreItems
<1>2. \A i \in 1 .. Len(branch) : branch[i].kind \in SizedKinds
  BY FixedIsSized
<1>3. Filled(branch, given)
  <2>1. \A i \in 1 .. Len(branch) : FieldWell(branch[i], i) /\ FieldHolds(branch[i], given[i])
    BY DEF FieldsWell, BranchHolds
  <2> QED
    BY <1>1, <2>1 DEF Filled
<1>4. RunStores(branch, given, run, {}) \in Within(RunBytes(branch, run)) /\ RunBytes(branch, run) = Sum(branch, Len(branch))
      /\ Sum(branch, Len(branch)) \in Nat
  BY <1>1, <1>2, <1>3, FilledUpto
<1>5. InLine(branch, run, Len(branch)) /\ \A q \in 1 .. Len(run) : branch[run[q]].kind \in SizedKinds
  BY <1>1, <1>2, UptoSized
<1> DEFINE set == SetOf(RunStores(branch, given, run, {}))
<1> HIDE DEF set
<1>6. Covers(set, 0, Sum(branch, Len(branch)))
  BY <1>3, <1>5, RunFront DEF set
<1> QED
  BY <1>4, <1>6 DEF set

LEMMA ConditionalComplete ==
    ASSUME NEW fields, NEW c, Filled(fields, c), NEW lay, lay.region = Len(fields), Len(fields) > 0,
           fields[lay.region].kind = "cond", AllFixed(fields, 1, lay.region - 1),
           \A i \in 1 .. Len(fields[lay.region].yes) : FixedField(fields[lay.region].yes[i]),
           \A i \in 1 .. Len(fields[lay.region].no) : FixedField(fields[lay.region].no[i]),
           ItemWell(fields[lay.region], lay.region), ItemHolds(fields[lay.region], c[lay.region]),
           lay.shape = "Conditional", BranchGiven(fields, c, lay),
           NEW p, p = BranchPlan(fields, c, lay)
    PROVE  Complete(p)
<1> DEFINE r == lay.region
           it == fields[r]
           taken == Taken(it, c)
           branch == IF taken THEN it.yes ELSE it.no
           values == IF taken THEN c[r].yes ELSE c[r].no
           run == Upto(r - 1)
           absent == {i \in 1 .. Len(branch) : values[i] = Absent}
           given == [i \in 1 .. Len(branch) |-> IF i \in absent THEN 0 ELSE values[i][1]]
           at == RunBytes(fields, run)
           size == RunBytes(branch, Upto(Len(branch)))
           front == RunStores(fields, c, run, {})
           rest == RunStores(branch, given, Upto(Len(branch)), absent)
           back == Shift(rest, at)
           room == at + size
           S == SetOf(front)
<1>1. r \in 1 .. Len(fields) /\ r - 1 \in 0 .. Len(fields) /\ it \in Items /\ fields \in Seq(Items)
  <2>1. Len(fields) \in Nat
    BY FilledSized DEF Filled, Sized
  <2>2. r \in 1 .. Len(fields) /\ r - 1 \in 0 .. Len(fields)
    BY <2>1
  <2> QED
    BY <2>2, FilledSized DEF Filled
<1>2. \A k \in 1 .. r - 1 : fields[k].kind \in SizedKinds
  BY FixedIsSized DEF AllFixed
<1>3. front \in Within(at) /\ at \in Nat /\ at = Sum(fields, r - 1)
  <2> HIDE DEF r
  <2> QED
    BY <1>1, <1>2, FilledUpto
<1>4. it.yes \in Seq(Fields) /\ it.no \in Seq(Fields)
  <2> HIDE DEF it
  <2> QED
    BY <1>1, ItemType
<1>5. FieldsWell(it.yes) /\ FieldsWell(it.no)
      /\ BranchHolds(it.yes, c[r].yes) /\ BranchHolds(it.no, c[r].no)
  BY DEF ItemWell, ItemHolds
<1>6. /\ \A i \in 1 .. Len(it.yes) : FixedField(it.yes[i])
      /\ \A i \in 1 .. Len(it.no) : FixedField(it.no[i])
  OBVIOUS
<1>7. \A i \in 1 .. Len(branch) : values[i] # Absent
  BY Zenon DEF BranchGiven
<1>8. p = Plan(room, front \o back)
  BY Zenon DEF BranchPlan
<1>9. InLine(fields, run, r - 1) /\ \A q \in 1 .. Len(run) : fields[run[q]].kind \in SizedKinds
  <2> HIDE DEF r
  <2> QED
    BY <1>1, <1>2, UptoSized
<1> HIDE DEF taken, run
<1>10. branch \in Seq(Fields) /\ FieldsWell(branch) /\ BranchHolds(branch, values)
       /\ \A i \in 1 .. Len(branch) : FixedField(branch[i])
  <2> HIDE DEF it, r
  <2>1. CASE taken
    BY <1>4, <1>5, <1>6, <2>1
  <2>2. CASE ~taken
    BY <1>4, <1>5, <1>6, <2>2
  <2> QED
    BY <2>1, <2>2
<1> HIDE DEF branch, values, it, r
<1>11. rest \in Within(size) /\ size \in Nat /\ Covers(SetOf(rest), 0, size)
  <2>1. absent = {}
    BY <1>7
  <2>2. given = [i \in 1 .. Len(branch) |-> values[i][1]]
    BY <2>1
  <2>3. rest = RunStores(branch, given, Upto(Len(branch)), {})
    BY <2>1
  <2> HIDE DEF given, rest, absent
  <2> QED
    BY <1>7, <1>10, <2>2, <2>3, BranchComplete
<1> HIDE DEF at, size, front, rest
<1>12. room \in Nat /\ at <= room /\ room = size + at
  BY <1>3, <1>11
<1>13. back \in Within(room) /\ Covers(SetOf(back), at, room)
  <2>1. back \in Within(size + at)
    BY <1>3, <1>11, ShiftFits
  <2>2. Covers(SetOf(back), at, at + size)
    BY <1>3, <1>11, ShiftHolds
  <2> HIDE DEF room, back
  <2> QED
    BY <1>12, <2>1, <2>2 DEF room
<1>14. S = SetOf(RunStores(fields, c, run, {})) /\ S = SetOf(front)
  BY DEF front
<1>15. p.stores = front \o back /\ p.used = room
  <2> HIDE DEF room, back
  <2> QED
    BY <1>8 DEF Plan
<1> HIDE DEF room, back, S
<1>16. Covers(S, 0, at)
  <2>1. Covers(S, 0, Sum(fields, r - 1))
    BY <1>9, <1>14, RunFront
  <2> QED
    BY <1>3, <2>1
<1>17. SetOf(p.stores) = S \cup SetOf(back)
  <2>1. front \in Within(room)
    BY <1>3, <1>12, WithinGrows
  <2> QED
    BY <1>13, <1>14, <1>15, <2>1, SetOfBoth
<1> QED
  BY <1>3, <1>12, <1>13, <1>15, <1>16, <1>17, CoversMore DEF Complete

LEMMA ThoseListed ==
    ASSUME NEW T, NEW s \in Seq(T), NEW set
    PROVE  Listed(Those(s, set)) = Listed(s) \cap set /\ Len(Those(s, set)) \in Nat
<1> DEFINE U == Listed(s)
           kept == Those(s, set)
<1>1. Len(s) \in Nat /\ s \in Seq(U)
  <2>1. \A n \in 1 .. Len(s) : s[n] \in U
    BY DEF Listed
  <2> HIDE DEF U
  <2> QED
    BY <2>1
<1>2. kept \in Seq(U \cap set)
  <2> HIDE DEF U
  <2> QED
    BY <1>1, ThoseType
<1>3. \A m \in 1 .. Len(s) : s[m] \in set => \E q \in 1 .. Len(kept) : kept[q] = s[m]
  BY ThoseHas
<1> HIDE DEF kept
<1>4. Len(kept) \in Nat /\ \A n \in 1 .. Len(kept) : kept[n] \in U \cap set
  <2> HIDE DEF U
  <2> QED
    BY <1>2
<1>5. Listed(kept) = U \cap set
  BY <1>3, <1>4 DEF Listed
<1> QED
  BY <1>4, <1>5 DEF kept

\* Stores at places of their own hold no byte twice.
Apart(set, I, at, w) ==
    /\ I \subseteq Nat
    /\ \A i \in I : at[i] \in Nat /\ Len(w[i]) \in Nat
    /\ \A i, j \in I : i < j => at[i] + Len(w[i]) <= at[j]
    /\ \A s \in set : \E i \in I : s.at = at[i] /\ s.bytes = w[i]

LEMMA ApartAgree ==
    ASSUME NEW set, NEW I, NEW at, NEW w, Apart(set, I, at, w)
    PROVE  Agree(set)
<1>1. ASSUME NEW s \in set, NEW t \in set, NEW k \in Nat, Holds(s, k), Holds(t, k)
      PROVE  ByteOf(s, k) = ByteOf(t, k)
  <2>1. PICK i \in I : s.at = at[i] /\ s.bytes = w[i]
    BY DEF Apart
  <2>2. PICK j \in I : t.at = at[j] /\ t.bytes = w[j]
    BY DEF Apart
  <2>3. i \in Nat /\ j \in Nat /\ at[i] \in Nat /\ at[j] \in Nat /\ Len(w[i]) \in Nat /\ Len(w[j]) \in Nat
    BY DEF Apart
  <2>4. at[i] < k /\ k <= at[i] + Len(w[i]) /\ at[j] < k /\ k <= at[j] + Len(w[j])
    BY <1>1, <2>1, <2>2 DEF Holds
  <2>5. ~(i < j) /\ ~(j < i)
    <3>1. i < j => at[i] + Len(w[i]) <= at[j]
      BY DEF Apart
    <3>2. j < i => at[j] + Len(w[j]) <= at[i]
      BY DEF Apart
    <3> QED
      BY <2>3, <2>4, <3>1, <3>2
  <2>6. i = j
    BY <2>3, <2>5
  <2> QED
    BY <2>1, <2>2, <2>6 DEF ByteOf
<1> QED
  BY <1>1 DEF Agree

\* The fields that are set behind the zeroes of a padded struct.
PaddedSet(fields, c) ==
    {Store(PaddedOffset(fields, i), FieldBytes(fields[i], c[i])) : i \in {j \in 1 .. Len(fields) : ~fields[j].skip}}

LEMMA PaddedComplete ==
    ASSUME NEW fields, NEW c, Filled(fields, c), Len(fields) > 0,
           \A i \in 1 .. Len(fields) : fields[i].kind \in SizedKinds,
           NEW p, p = PaddedPlan(fields, c)
    PROVE  \E rest \in Within(p.used) :
              /\ p.stores = <<Store(0, Zeroes(p.used))>> \o rest /\ Store(0, Zeroes(p.used)) \in Placed(p.used)
              /\ SetOf(rest) = PaddedSet(fields, c)
              /\ Agree(PaddedSet(fields, c)) /\ Complete(p)
<1> DEFINE n == Len(fields)
           size == PaddedOffset(fields, n) + Size(fields[n])
           set == Those(Upto(n), {i \in 1 .. n : ~fields[i].skip})
           store(i) == Store(PaddedOffset(fields, i), FieldBytes(fields[i], c[i]))
           rest == [k \in 1 .. Len(set) |-> store(set[k])]
           zero == Store(0, Zeroes(size))
           S == PaddedSet(fields, c)
<1>1. n \in Nat /\ n \in 1 .. n /\ n \in 0 .. n /\ fields \in Seq(Items)
  BY FilledSized DEF Filled, Sized
<1>2. size = Total(WithPads(fields), n) /\ size \in Nat
  BY <1>1, PaddedOffsetIs
<1>3. p.stores = <<zero>> \o rest /\ p.used = size
  <2>1. p = Plan(size, <<zero>> \o rest)
    BY Zenon DEF PaddedPlan
  <2> HIDE DEF size, zero, rest
  <2> QED
    BY <2>1 DEF Plan
<1>4. Listed(set) = {i \in 1 .. n : ~fields[i].skip} /\ Len(set) \in Nat
  <2>1. Upto(n) \in Seq(1 .. n) /\ Listed(Upto(n)) = 1 .. n
    <3> HIDE DEF n
    <3>1. Upto(n) \in Seq(1 .. n) /\ Len(Upto(n)) = n /\ \A k \in 1 .. n : Upto(n)[k] = k
      BY <1>1, UptoType
    <3> QED
      BY <3>1 DEF Listed
  <2> HIDE DEF n
  <2>2. Listed(set) = Listed(Upto(n)) \cap {i \in 1 .. n : ~fields[i].skip} /\ Len(set) \in Nat
    BY <2>1, ThoseListed
  <2> QED
    BY <2>1, <2>2
<1>5. SetOf(rest) = S
  <2>1. SetOf(rest) = {store(i) : i \in Listed(set)}
    <3> HIDE DEF set, store
    <3> QED
      BY <1>4 DEF SetOf, Listed
  <2>2. S = {store(i) : i \in {j \in 1 .. n : ~fields[j].skip}}
    BY Zenon DEF PaddedSet
  <2> QED
    BY <1>4, <2>1, <2>2
<1>6. ASSUME NEW i \in 1 .. n
      PROVE  /\ PaddedOffset(fields, i) \in Nat /\ FieldBytes(fields[i], c[i]) \in Bytes
             /\ Len(FieldBytes(fields[i], c[i])) = Size(fields[i])
             /\ PaddedOffset(fields, i) + Len(FieldBytes(fields[i], c[i])) = Total(WithPads(fields), i)
             /\ Total(WithPads(fields), i) <= size
             /\ Total(WithPads(fields), i) \in Nat
  <2>1. Writes(fields, c, i)
    BY <1>6, FilledWrites
  <2> HIDE DEF size
  <2> QED
    BY <1>1, <1>2, <1>6, <2>1, PaddedOffsetIs DEF Writes
<1>7. ASSUME NEW i \in 1 .. n, NEW j \in 1 .. n, i < j
      PROVE  Total(WithPads(fields), i) <= PaddedOffset(fields, j)
  <2> DEFINE g == WithPads(fields)
  <2>1. j - 1 \in Nat /\ i \in 0 .. j - 1
    BY <1>1, <1>7
  <2>2. \A k \in 1 .. n : g[k] = fields[k].pad + Size(fields[k]) /\ fields[k].pad \in Nat /\ Size(fields[k]) \in Nat
    <3>1. \A k \in 1 .. n : fields[k] \in Items
      BY <1>1
    <3>2. \A k \in 1 .. n : fields[k].pad \in Nat /\ Size(fields[k]) \in Nat
      BY <3>1, ItemType
    <3> QED
      BY <3>2 DEF WithPads
  <2>3. PaddedOffset(fields, j) \in Nat /\ PaddedOffset(fields, j) + Size(fields[j]) = Total(g, j)
    BY <1>1, <1>7, PaddedOffsetIs
  <2> HIDE DEF g, n
  <2>4. /\ Total(g, j) = Total(g, j - 1) + g[j] /\ Total(g, i) <= Total(g, j - 1)
        /\ Total(g, j - 1) \in Nat /\ Total(g, i) \in Nat /\ Total(g, j) \in Nat
    <3>1. \A k \in 1 .. n : g[k] \in Nat
      BY <2>2
    <3>2. \A k \in 1 .. j - 1 : g[k] \in Nat
      BY <1>1, <1>7, <3>1
    <3>3. Total(g, i) <= Total(g, j - 1)
      BY <2>1, <3>2, TotalGrows
    <3>4. j - 1 \in 0 .. n /\ i \in 0 .. n /\ j \in 0 .. n
      BY <1>1, <1>7
    <3> QED
      BY <1>1, <3>1, <3>3, <3>4, TotalSteps
  <2>5. PICK a \in Nat, b \in Nat, x \in Nat, y \in Nat :
           a = Total(g, j - 1) /\ b = fields[j].pad /\ x = Size(fields[j]) /\ y = Total(g, i)
    BY <2>2, <2>4
  <2>6. PaddedOffset(fields, j) + x = a + (b + x) /\ y <= a
    BY <2>2, <2>3, <2>4, <2>5
  <2>7. y <= PaddedOffset(fields, j)
    BY <2>3, <2>5, <2>6
  <2> QED
    BY <2>5, <2>7 DEF g
<1>8. zero \in Placed(size) /\ zero.at = 0 /\ Len(zero.bytes) = size
  <2> HIDE DEF size
  <2>1. Zeroes(size) \in Bytes /\ Len(Zeroes(size)) = size
    BY <1>2, BaseAssumption DEF Zeroes, Bytes, Byte, MaxByte
  <2>2. zero \in Placed(size)
    BY <1>2, <2>1, StoreFits
  <2> QED
    BY <2>1, <2>2 DEF Store
<1>9. rest \in Within(size)
  <2>1. \A i \in 1 .. n : store(i) \in Placed(size)
    <3> HIDE DEF size
    <3> QED
      BY <1>2, <1>6, StoreFits
  <2>2. \A k \in 1 .. Len(set) : set[k] \in 1 .. n
    <3> HIDE DEF set
    <3> QED
      BY <1>4 DEF Listed
  <2> HIDE DEF store, size, set
  <2> QED
    BY <1>4, <2>1, <2>2 DEF Within
<1>10. Agree(S)
  <2> DEFINE I == {j \in 1 .. n : ~fields[j].skip}
             at == [i \in I |-> PaddedOffset(fields, i)]
             w == [i \in I |-> FieldBytes(fields[i], c[i])]
  <2>1. I \subseteq 1 .. n /\ I \subseteq Nat
    BY <1>1
  <2>2. \A i \in I : at[i] = PaddedOffset(fields, i) /\ w[i] = FieldBytes(fields[i], c[i])
    OBVIOUS
  <2>3. \A s \in S : \E i \in I : s.at = at[i] /\ s.bytes = w[i]
    BY <2>2 DEF PaddedSet, Store
  <2> HIDE DEF I, at, w, S, n, size
  <2>4. \A i \in I : at[i] \in Nat /\ Len(w[i]) \in Nat
    BY <1>6, <2>1, <2>2 DEF Bytes
  <2>5. \A i, j \in I : i < j => at[i] + Len(w[i]) <= at[j]
    BY <1>6, <1>7, <2>1, <2>2
  <2>6. Apart(S, I, at, w)
    BY <2>1, <2>3, <2>4, <2>5 DEF Apart
  <2> QED
    BY <2>6, ApartAgree
<1> HIDE DEF size, zero, rest, S, set, n
<1>11. SetOf(p.stores) = {zero} \cup S
  <2> DEFINE first == <<zero>>
  <2>1. first \in Within(size) /\ SetOf(first) = {zero}
    BY <1>8, Single, SetOfOne
  <2>2. p.stores = first \o rest
    BY <1>3
  <2> HIDE DEF first
  <2> QED
    BY <1>5, <1>9, <2>1, <2>2, SetOfBoth
<1>12. Complete(p)
  <2>1. \A k \in 0 + 1 .. size : Holds(zero, k)
    BY <1>2, <1>8 DEF Holds
  <2> QED
    BY <1>3, <1>11, <2>1 DEF Complete, Covers
<1>13. zero = Store(0, Zeroes(p.used))
  BY <1>3 DEF zero
<1> QED
  BY <1>3, <1>5, <1>8, <1>9, <1>10, <1>12, <1>13 DEF S

\* The fields behind a region, at a distance from where they would be without it.
BackSet(fields, c, r, g) ==
    {Store(g + Sum(fields, i - 1), FieldBytes(fields[i], c[i])) : i \in r + 1 .. Len(fields)}

LEMMA BehindSet ==
    ASSUME NEW fields, NEW c, Filled(fields, c), NEW r \in 1 .. Len(fields), AllFixed(fields, r + 1, Len(fields)),
           NEW g \in Nat, NEW after \in Nat, after = Sum(fields, r) + g,
           NEW back, back = Shift(RunStores(fields, c, Behind(fields, r), {}), after),
           NEW to, to = after + RunBytes(fields, Behind(fields, r))
    PROVE  /\ SetOf(back) = BackSet(fields, c, r, g)
           /\ Covers(SetOf(back), after, to)
           /\ Agree(SetOf(back)) /\ \A t \in SetOf(back) : t.at \in Nat /\ after <= t.at
<1> DEFINE run == Behind(fields, r)
           rest == RunStores(fields, c, run, {})
           room == RunBytes(fields, run)
           B == BackSet(fields, c, r, g)
           N == Len(fields)
<1>1. /\ Sized(fields) /\ N \in Nat /\ r \in 0 .. N /\ N \in 0 .. N /\ r \in Nat
      /\ \A i \in r + 1 .. N : i \in 1 .. N /\ i - 1 \in 0 .. N /\ i \in r + 1 .. N + 1
      /\ N + 1 \in r + 1 .. N + 1 /\ (N + 1) - 1 = N
  <2>1. Sized(fields) /\ N \in Nat
    BY FilledSized DEF Filled, Sized
  <2> QED
    BY <2>1
<1>2. /\ rest \in Within(room) /\ room \in Nat /\ run \in Seq(1 .. N) /\ Len(run) = N - r
      /\ \A p \in 1 .. N - r : run[p] = r + p
  BY BehindFits
<1>3. Listed(run) = r + 1 .. N
  <2> HIDE DEF run
  <2>1. \A i \in r + 1 .. N : i - r \in 1 .. N - r /\ run[i - r] = i
    BY <1>1, <1>2
  <2>2. \A p \in 1 .. N - r : run[p] \in r + 1 .. N
    BY <1>1, <1>2
  <2> QED
    BY <1>2, <2>1, <2>2 DEF Listed
<1>4. \A i \in r + 1 .. N : OffsetIn(fields, run, i) + after = g + Sum(fields, i - 1)
  <2> SUFFICES ASSUME NEW i \in r + 1 .. N PROVE OffsetIn(fields, run, i) + after = g + Sum(fields, i - 1)
    OBVIOUS
  <2>1. Sum(fields, r) + OffsetIn(fields, run, i) = Sum(fields, i - 1) /\ OffsetIn(fields, run, i) \in Nat
    BY <1>1, OffsetBehind
  <2>2. Sum(fields, r) \in Nat
    BY <1>1, SumSteps
  <2> QED
    BY <2>1, <2>2
<1>5. SetOf(rest) = {Store(OffsetIn(fields, run, i), FieldBytes(fields[i], c[i])) : i \in Listed(run)}
  <2> DEFINE store(i) == Store(OffsetIn(fields, run, i), FieldBytes(fields[i], c[i]))
             none == {}
  <2>1. SetOf(rest) = {store(run[p]) : p \in {q \in 1 .. Len(run) : run[q] \notin {}}}
    <3>1. SetOf(RunStores(fields, c, run, none)) = {store(run[p]) : p \in {q \in 1 .. Len(run) : run[q] \notin none}}
      <4> HIDE DEF none, run, rest, N
      <4>1. run \in Seq(1 .. Len(fields))
        BY <1>2 DEF N
      <4> QED
        BY <1>1, <4>1, RunStoresAre
    <3> QED
      BY <3>1
  <2> HIDE DEF store, run, rest
  <2>2. SetOf(rest) = {store(i) : i \in Listed(run)}
    BY <2>1 DEF Listed
  <2> QED
    BY <2>2 DEF store
<1>6. SetOf(back) = {[s EXCEPT !.at = @ + after] : s \in SetOf(rest)}
  <2> HIDE DEF rest, room
  <2>1. back = Shift(rest, after)
    BY DEF rest
  <2> QED
    BY <1>2, <2>1, ShiftSet
<1> HIDE DEF run, rest, room
<1>7. SetOf(back) = B
  <2> DEFINE o == [i \in r + 1 .. N |-> OffsetIn(fields, run, i)]
             b == [i \in r + 1 .. N |-> FieldBytes(fields[i], c[i])]
  <2>1. SetOf(rest) = {Store(o[i], b[i]) : i \in r + 1 .. N}
    BY <1>3, <1>5
  <2>2. B = {Store(o[i] + after, b[i]) : i \in r + 1 .. N}
    BY <1>4 DEF BackSet
  <2> DEFINE shifted(s) == [s EXCEPT !.at = @ + after]
  <2>3. ASSUME NEW x \in Nat, NEW y PROVE shifted(Store(x, y)) = Store(x + after, y)
    <3>1. PICK h : h = FALSE
      OBVIOUS
    <3>2. \A z : Store(z, y) = [at |-> z, bytes |-> y, hook |-> h]
      BY <3>1 DEF Store
    <3>3. [[at |-> x, bytes |-> y, hook |-> h] EXCEPT !.at = @ + after] = [at |-> x + after, bytes |-> y, hook |-> h]
      OBVIOUS
    <3> QED
      BY <3>2, <3>3
  <2>4. \A i \in r + 1 .. N : o[i] \in Nat
    BY <1>1, OffsetBehind DEF run
  <2>5. SetOf(back) = {shifted(s) : s \in SetOf(rest)}
    BY <1>6
  <2> HIDE DEF o, b, B, shifted
  <2> QED
    BY <2>1, <2>2, <2>3, <2>4, <2>5
<1>8. \A i \in r + 1 .. N : FieldBytes(fields[i], c[i]) \in Bytes /\ Len(FieldBytes(fields[i], c[i])) = Size(fields[i])
  <2> SUFFICES ASSUME NEW i \in r + 1 .. N
               PROVE  FieldBytes(fields[i], c[i]) \in Bytes /\ Len(FieldBytes(fields[i], c[i])) = Size(fields[i])
    OBVIOUS
  <2>1. fields[i].kind \in SizedKinds
    BY FixedIsSized DEF AllFixed
  <2> QED
    BY <1>1, <2>1, FilledWrites DEF Writes
<1>9. \A i \in r + 1 .. N : Sum(fields, i - 1) \in Nat /\ Sum(fields, r) <= Sum(fields, i - 1)
  <2> SUFFICES ASSUME NEW i \in r + 1 .. N PROVE Sum(fields, i - 1) \in Nat /\ Sum(fields, r) <= Sum(fields, i - 1)
    OBVIOUS
  <2>1. Sum(fields, r) + OffsetIn(fields, run, i) = Sum(fields, i - 1) /\ OffsetIn(fields, run, i) \in Nat
    BY <1>1, OffsetBehind DEF run
  <2>2. Sum(fields, r) \in Nat
    BY <1>1, SumSteps
  <2> QED
    BY <2>1, <2>2
<1>10. Agree(B)
  <2> DEFINE I == r + 1 .. N
             w == [i \in I |-> FieldBytes(fields[i], c[i])]
  <2>1. I \subseteq 1 .. Len(fields) /\ \A i \in I : Len(w[i]) = Size(fields[i])
    BY <1>1, <1>8
  <2>2. \A s \in B : \E i \in I : s.at = g + Sum(fields, i - 1) /\ s.bytes = w[i]
    BY DEF BackSet, Store
  <2> HIDE DEF I, w, B
  <2>3. Pieced(B, fields, I, g, w)
    BY <1>1, <2>1, <2>2 DEF Pieced
  <2> QED
    BY <2>3, PiecesAgree
<1>11. ASSUME NEW t \in B PROVE t.at \in Nat /\ after <= t.at
  <2>1. PICK i \in r + 1 .. N : t = Store(g + Sum(fields, i - 1), FieldBytes(fields[i], c[i]))
    BY DEF BackSet
  <2>2. t.at = g + Sum(fields, i - 1) /\ Sum(fields, r) \in Nat
    BY <1>1, <2>1, SumSteps DEF Store
  <2> QED
    BY <1>9, <2>2
<1>12. ASSUME NEW k \in after + 1 .. to PROVE \E s \in B : Holds(s, k)
  <2>1. Sum(fields, r) + room = Sum(fields, N) /\ room \in Nat /\ Sum(fields, r) \in Nat
    BY <1>1, OffsetBehind, SumSteps DEF room, run, RunBytes
  <2>2. to = g + Sum(fields, N) /\ Sum(fields, N) \in Nat
    BY <2>1 DEF room, run
  <2>3. k - g \in 1 .. Sum(fields, N) /\ Sum(fields, r) < k - g /\ k \in Nat
    BY <2>1, <2>2
  <2> DEFINE f == SizesOf(fields)
             x == k - g
  <2>4. \A i \in 1 .. N : f[i] = Size(fields[i]) /\ f[i] \in Nat
    BY <1>1 DEF SizesOf, Sized
  <2>5. x \in 1 .. Total(f, N) /\ Total(f, r) < x
    BY <2>3 DEF Sum
  <2> HIDE DEF f, x
  <2>6. PICK i \in 1 .. N : Total(f, i - 1) < x /\ x <= Total(f, i - 1) + f[i]
    BY <1>1, <2>4, <2>5, TotalCovers
  <2>7. Total(f, i) = Total(f, i - 1) + f[i] /\ Total(f, i - 1) \in Nat
    <3>1. i - 1 \in 0 .. N /\ \A k_1 \in 1 .. N : f[k_1] \in Nat
      BY <1>1, <2>4
    <3> QED
      BY <1>1, <3>1, TotalSteps
  <2>8. i > r
    <3>1. ASSUME i <= r PROVE FALSE
      <4>1. i \in 0 .. r /\ \A j \in 1 .. r : f[j] \in Nat
        BY <1>1, <2>4, <3>1
      <4>2. Total(f, i) <= Total(f, r)
        BY <1>1, <4>1, TotalGrows
      <4>3. Total(f, i) \in Nat /\ Total(f, r) \in Nat
        <5>1. i \in 0 .. N /\ \A j \in 1 .. N : f[j] \in Nat
          BY <1>1, <2>4
        <5> QED
          BY <1>1, <5>1, TotalSteps
      <4> QED
        BY <2>5, <2>6, <2>7, <4>2, <4>3
    <3> QED
      BY <1>1, <3>1
  <2>9. i \in r + 1 .. N
    BY <1>1, <2>8
  <2> DEFINE s == Store(g + Sum(fields, i - 1), FieldBytes(fields[i], c[i]))
  <2>10. s \in B /\ s.at = g + Total(f, i - 1) /\ Len(s.bytes) = f[i]
    BY <1>8, <2>4, <2>9 DEF BackSet, Store, Sum, f
  <2>11. g + Total(f, i - 1) < k /\ k <= (g + Total(f, i - 1)) + f[i]
    BY <2>3, <2>4, <2>6, <2>7 DEF x
  <2> HIDE DEF s, B
  <2> QED
    BY <2>10, <2>11 DEF Holds
<1> QED
  BY <1>7, <1>10, <1>11, <1>12 DEF Covers

\* The stores of the region.
RegionSet(fields, c, r) ==
    IF fields[r].kind = "recs" THEN SetOf(RecordStores(fields[r], Sum(fields, r - 1), c[r]))
                               ELSE {Store(Sum(fields, r - 1), c[r])}

LEMMA RegionComplete ==
    ASSUME NEW fields, NEW c, Filled(fields, c), NEW r, ForwardIn(fields, r), NEW at \in Nat, at = Sum(fields, r - 1),
           NEW g, g = ForwardBytes(fields[r], ForwardLens(fields[r], c[r])),
           NEW set, set = RegionSet(fields, c, r),
           NEW region, region = (IF fields[r].kind = "recs" THEN RecordStores(fields[r], at, c[r])
                                                           ELSE <<Store(at, c[r])>>)
    PROVE  /\ g \in Nat /\ region \in Within(at + g) /\ SetOf(region) = set /\ Covers(set, at, at + g)
           /\ Agree(set) /\ \A t \in set : t.at \in Nat /\ at <= t.at
<1>1. g \in Nat /\ region \in Within(at + g)
      /\ (fields[r].kind # "recs" => c[r] \in Bytes /\ Len(c[r]) = g)
  BY ForwardRegion
<1>2. r \in 1 .. Len(fields)
  BY DEF ForwardIn
<1>3. CASE fields[r].kind = "recs"
  <2>1. /\ c[r] \in Seq(Bytes) /\ fields[r].size \in Nat /\ \A k \in 1 .. Len(c[r]) : Len(c[r][k]) = fields[r].size
    BY <1>2, <1>3, FilledRecords
  <2>2. set = SetOf(RecordStores(fields[r], at, c[r])) /\ SetOf(region) = set
    BY <1>3 DEF RegionSet
  <2>3. g = Len(c[r]) * fields[r].size
    BY <1>3 DEF ForwardBytes, ForwardLens
  <2>4. /\ Covers(set, at, at + Len(c[r]) * fields[r].size) /\ Agree(set)
        /\ \A t \in set : t.at \in Nat /\ at <= t.at
    BY <2>1, <2>2, RecordsComplete
  <2> QED
    BY <1>1, <2>2, <2>3, <2>4
<1>4. CASE fields[r].kind # "recs"
  <2> DEFINE one == Store(at, c[r])
  <2>1. set = {one} /\ SetOf(region) = {one}
    BY <1>4, SetOfOne DEF RegionSet
  <2>2. one.at = at /\ one.bytes = c[r] /\ Len(c[r]) = g
    BY <1>1, <1>4 DEF Store
  <2> HIDE DEF one
  <2>3. \A k \in at + 1 .. at + g : Holds(one, k)
    BY <1>1, <2>2 DEF Holds
  <2>4. Agree({one})
    BY AgreeOne
  <2> QED
    BY <1>1, <2>1, <2>2, <2>3, <2>4 DEF Covers
<1> QED
  BY <1>3, <1>4

\* The stores in front of a region, its own, and those behind it.
ForwardStored(fields, c, r) ==
    (Front(fields, Upto(r - 1),
           Values(fields, c, fields[r].len.of, LenOf(ForwardLens(fields[r], c[r]), fields[r].len)))
       \cup RegionSet(fields, c, r))
      \cup BackSet(fields, c, r, ForwardBytes(fields[r], ForwardLens(fields[r], c[r])))

LEMMA ForwardComplete ==
    ASSUME NEW fields, NEW c, Filled(fields, c), NEW lay, ForwardIn(fields, lay.region),
           NEW p, p = ForwardPlan(fields, c, lay), p.early = "none",
           NEW r, r = lay.region, NEW run, run = Upto(r - 1), NEW e, e = fields[r].len,
           NEW n, n = ForwardLens(fields[r], c[r]), NEW g, g = ForwardBytes(fields[r], n),
           NEW length, length = LenOf(n, e), NEW set, set = RegionSet(fields, c, r)
    PROVE  /\ SetOf(p.stores) = ForwardStored(fields, c, r)
           /\ Complete(p) /\ Agree(SetOf(p.stores)) /\ e.of \in 1 .. r - 1 /\ IsNumber(fields[e.of])
<1> DEFINE it == fields[r]
           at == RunBytes(fields, run)
           after == at + g
           trailer == RunBytes(fields, Behind(fields, r))
           room == after + trailer
           first == LenPlan(fields, run, e, n).stores
           rest == RunStores(fields, c, run, {e.of})
           front == first \o rest
           region == IF it.kind = "recs" THEN RecordStores(it, at, c[r]) ELSE <<Store(at, c[r])>>
           behind == RunStores(fields, c, Behind(fields, r), {})
           back == Shift(behind, after)
           S == SetOf(front)
           B == BackSet(fields, c, r, g)
<1>1. /\ Sized(fields) /\ r \in 1 .. Len(fields) /\ r - 1 \in 0 .. Len(fields) /\ it \in Items
      /\ r - 1 \in Nat /\ fields \in Seq(Items) /\ Len(fields) \in Nat
  <2>1. Sized(fields) /\ Len(fields) \in Nat /\ r \in 1 .. Len(fields) /\ fields \in Seq(Items)
    BY FilledSized DEF Filled, Sized, ForwardIn
  <2>2. r - 1 \in 0 .. Len(fields) /\ r - 1 \in Nat
    BY <2>1
  <2> QED
    BY <2>1, <2>2, FilledSized DEF Filled
<1>2. \A k \in 1 .. r - 1 : fields[k].kind \in SizedKinds
  BY FixedIsSized DEF AllFixed, ForwardIn
<1>3. rest \in Within(at) /\ at \in Nat /\ at = Sum(fields, r - 1)
  BY <1>1, <1>2, FilledUpto
<1>4. e \in Exprs
  <2> HIDE DEF it
  <2> QED
    BY <1>1, ItemType DEF it
<1>5. /\ InLine(fields, run, r - 1) /\ run \in Seq(1 .. Len(fields)) /\ Listed(run) = 1 .. r - 1
      /\ \A q \in 1 .. Len(run) : fields[run[q]].kind \in SizedKinds
  <2>1. InLine(fields, run, r - 1) /\ Listed(run) = 1 .. r - 1
        /\ \A q \in 1 .. Len(run) : fields[run[q]].kind \in SizedKinds
    BY <1>1, <1>2, UptoSized
  <2> QED
    BY <2>1 DEF InLine
<1>6. e.of \in 1 .. r - 1 /\ IsNumber(fields[e.of])
  <2>1. LenField(fields, 1 .. r - 1, e) # 0
    BY DEF ForwardIn
  <2> QED
    BY <1>4, <2>1, LenFieldIs
<1>7. p = [Plan(room, first \o rest \o region \o back) EXCEPT !.early = LenError(e, n)]
  BY ZenonT(60) DEF ForwardPlan, Behind
<1>8. g \in Nat /\ region \in Within(after) /\ SetOf(region) = set /\ Covers(set, at, after)
      /\ Agree(set) /\ \A t \in set : t.at \in Nat /\ at <= t.at
  <2>1. region = IF fields[r].kind = "recs" THEN RecordStores(fields[r], at, c[r]) ELSE <<Store(at, c[r])>>
    OBVIOUS
  <2> HIDE DEF region, at
  <2> QED
    BY <1>3, <2>1, RegionComplete
<1>9. Sum(fields, r) = at
  <2>1. Sum(fields, r) = Sum(fields, r - 1) + Size(fields[r]) /\ Size(fields[r]) = 0
    BY <1>1, SumSteps DEF ForwardIn, Size
  <2> HIDE DEF at
  <2> QED
    BY <1>3, <2>1
<1>10. behind \in Within(trailer) /\ trailer \in Nat
  <2>1. AllFixed(fields, r + 1, Len(fields))
    BY DEF ForwardIn
  <2> QED
    BY <1>1, <2>1, BehindFits
<1>11. SetOf(back) = B /\ Covers(B, after, room) /\ Agree(B) /\ \A t \in B : t.at \in Nat /\ after <= t.at
  <2> HIDE DEF at
  <2>1. /\ AllFixed(fields, r + 1, Len(fields)) /\ after \in Nat /\ after = Sum(fields, r) + g
        /\ back = Shift(RunStores(fields, c, Behind(fields, r), {}), after)
        /\ room = after + RunBytes(fields, Behind(fields, r))
    BY <1>3, <1>8, <1>9 DEF ForwardIn
  <2> HIDE DEF after, room, back
  <2>2. /\ SetOf(back) = BackSet(fields, c, r, g) /\ Covers(SetOf(back), after, room)
        /\ Agree(SetOf(back)) /\ \A t \in SetOf(back) : t.at \in Nat /\ after <= t.at
    BY <1>1, <1>8, <2>1, BehindSet
  <2> QED
    BY <2>2
<1> HIDE DEF it, region, behind, B, trailer
<1>12. n \in Nat
  BY <1>3, ForwardRegion
<1>13. S = SetOf(LenFirst(fields, c, run, e, n)) /\ S = SetOf(front)
  BY DEF LenFirst
<1>14. p.stores = front \o region \o back /\ p.used = room /\ LenError(e, n) = "none"
  <2> HIDE DEF room, back, first, rest
  <2> QED
    BY <1>7 DEF Plan
<1>15. first \in Within(at)
  <2>1. PICK q \in 1 .. Len(run) : run[q] = e.of
    BY <1>5, <1>6 DEF Listed
  <2> QED
    BY <1>1, <1>4, <1>5, <1>6, <1>12, <2>1, LenPlanFits
<1> HIDE DEF at, first, rest
<1>16. front \in Within(at)
  BY <1>3, <1>15, Concat
<1> HIDE DEF front, S
<1>17. after \in Nat /\ room \in Nat /\ at <= after /\ after <= room /\ at <= room /\ room = trailer + after
  BY <1>3, <1>8, <1>10
<1>18. back \in Within(room)
  <2>1. back \in Within(trailer + after)
    <3> HIDE DEF after, room
    <3> QED
      BY <1>10, <1>17, ShiftFits
  <2> HIDE DEF back, room
  <2> QED
    BY <1>17, <2>1
<1> HIDE DEF back, after, room
<1>19. /\ S = Front(fields, run, Values(fields, c, e.of, length))
       /\ Covers(S, 0, Sum(fields, r - 1)) /\ Agree(S) /\ S \subseteq Placed(Sum(fields, r - 1))
  <2>1. PICK of \in Listed(run) : of = e.of /\ IsNumber(fields[of])
    BY <1>5, <1>6
  <2>2. /\ S = Front(fields, run, Values(fields, c, of, LenOf(n, e)))
        /\ Covers(S, 0, Sum(fields, r - 1)) /\ Agree(S) /\ S \subseteq Placed(Sum(fields, r - 1))
    <3>1. LenError(e, n) = "none" /\ n \in Nat /\ e \in Exprs
      BY <1>4, <1>12, <1>14
    <3>2. InLine(fields, run, r - 1) /\ \A q \in 1 .. Len(run) : fields[run[q]].kind \in SizedKinds
      BY <1>5
    <3>3. S = SetOf(LenFirst(fields, c, run, e, n))
      BY <1>13
    <3> QED
      BY <2>1, <3>1, <3>2, <3>3, LenFront
  <2> QED
    BY <2>1, <2>2
<1>20. SetOf(p.stores) = (S \cup set) \cup B
  <2> DEFINE both == front \o region
  <2>1. front \in Within(room) /\ region \in Within(room)
    BY <1>3, <1>8, <1>16, <1>17, WithinGrows
  <2>2. both \in Within(room) /\ SetOf(both) = S \cup set
    <3>1. both \in Within(room)
      BY <2>1, Concat
    <3>2. SetOf(front \o region) = SetOf(front) \cup SetOf(region)
      BY <2>1, SetOfBoth
    <3> QED
      BY <1>8, <1>13, <3>1, <3>2
  <2>3. p.stores = both \o back
    BY <1>14
  <2> HIDE DEF both
  <2> QED
    BY <1>11, <1>18, <2>2, <2>3, SetOfBoth
<1>21. Covers(S \cup set, 0, after) /\ Agree(S \cup set)
  <2>1. 0 \in Nat
    OBVIOUS
  <2> QED
    BY <1>3, <1>8, <1>17, <1>19, <2>1, CoversMore, AgreeBoth
<1>22. S \cup set \subseteq Placed(after)
  <2>1. set \subseteq Placed(after)
    <3>1. \A k \in 1 .. Len(region) : region[k] \in Placed(after)
      BY <1>8 DEF Within
    <3> QED
      BY <1>8, <3>1 DEF SetOf
  <2> QED
    BY <1>3, <1>17, <1>19, <2>1, WithinGrows
<1>23. Covers((S \cup set) \cup B, 0, room) /\ Agree((S \cup set) \cup B)
  <2> DEFINE T == S \cup set
  <2> HIDE DEF T
  <2>1. Covers(T, 0, after) /\ Agree(T) /\ T \subseteq Placed(after) /\ 0 \in Nat
    BY <1>21, <1>22 DEF T
  <2>2. Covers(T \cup B, 0, room) /\ Agree(T \cup B)
    BY <1>11, <1>17, <2>1, CoversMore, AgreeBoth
  <2> QED
    BY <2>2 DEF T
<1>24. (S \cup set) \cup B = ForwardStored(fields, c, r)
  <2>1. S = Front(fields, Upto(r - 1), Values(fields, c, fields[r].len.of, LenOf(ForwardLens(fields[r], c[r]), fields[r].len)))
    BY <1>19
  <2> QED
    BY <2>1 DEF ForwardStored, B
<1> QED
  BY <1>6, <1>14, <1>20, <1>23, <1>24 DEF Complete

-----------------------------------------------------------------------------
(* Plans with unions: the runs of an arm, and plans one behind the other.  *)

\* In a run in ascending order, too, a field lies behind those in front of it.
LEMMA AscendingLaid ==
    ASSUME NEW fields, Sized(fields), NEW run \in Seq(1 .. Len(fields)), Ascending(run)
    PROVE  Laid(fields, run)
<1> DEFINE N == Len(run)
           g == [n \in 1 .. N |-> Size(fields[run[n]])]
           before(i) == [n \in 1 .. N |-> IF run[n] < i THEN Size(fields[run[n]]) ELSE 0]
<1>1. N \in Nat /\ Len(fields) \in Nat /\ \A n \in 1 .. N : run[n] \in 1 .. Len(fields) /\ run[n] \in Nat
  BY DEF Sized
<1>2. \A n \in 1 .. N : g[n] \in Nat /\ g[n] = Size(fields[run[n]])
  BY <1>1 DEF Sized
<1>3. \A i : OffsetIn(fields, run, i) = Total(before(i), N)
  BY DEF OffsetIn
<1>4. ASSUME NEW p \in 1 .. N PROVE OffsetIn(fields, run, run[p]) = Total(g, p - 1)
  <2> DEFINE f == before(run[p])
  <2>1. p - 1 \in 0 .. N /\ p - 1 \in Nat /\ p \in Nat
    BY <1>1
  <2>2. ASSUME NEW n \in 1 .. N PROVE f[n] \in Nat /\ (n > p - 1 => f[n] = 0) /\ (n <= p - 1 => f[n] = g[n])
    <3>1. f[n] = IF run[n] < run[p] THEN g[n] ELSE 0
      BY <1>2
    <3>2. n <= p - 1 => run[n] < run[p]
      BY <2>1 DEF Ascending
    <3>3. n > p - 1 => ~(run[n] < run[p])
      <4>1. n = p \/ p < n \/ n <= p - 1
        BY <2>1
      <4>2. p < n => run[p] < run[n]
        BY DEF Ascending
      <4> QED
        BY <1>1, <4>1, <4>2
    <3> QED
      BY <1>2, <3>1, <3>2, <3>3
  <2>3. \A n \in 1 .. p - 1 : n \in 1 .. N /\ n <= p - 1
    BY <1>1, <2>1
  <2>4. OffsetIn(fields, run, run[p]) = Total(f, N)
    BY <1>3
  <2> HIDE DEF f, g, N
  <2>5. Total(f, N) = Total(f, p - 1)
    BY <1>1, <2>1, <2>2, TotalZeros
  <2>6. Total(f, p - 1) = Total(g, p - 1)
    BY <2>1, <2>2, <2>3, TotalSame
  <2> QED
    BY <2>4, <2>5, <2>6
<1>5. RunBytes(fields, run) = Total(g, N)
  <2> DEFINE f == before(Len(fields) + 1)
  <2>1. \A n \in 1 .. N : f[n] = g[n]
    BY <1>1, <1>2
  <2>2. RunBytes(fields, run) = Total(f, N)
    BY <1>3 DEF RunBytes
  <2> HIDE DEF f, g, N
  <2> QED
    BY <1>1, <1>2, <2>1, <2>2, TotalSame
<1> HIDE DEF g, before
<1>6. ASSUME NEW k \in 1 .. RunBytes(fields, run)
      PROVE  \E p \in 1 .. N : /\ OffsetIn(fields, run, run[p]) < k
                               /\ k <= OffsetIn(fields, run, run[p]) + Size(fields[run[p]])
  <2>1. PICK p \in 1 .. N : Total(g, p - 1) < k /\ k <= Total(g, p - 1) + g[p]
    <3>1. k \in 1 .. Total(g, N)
      BY <1>5
    <3> HIDE DEF N
    <3> QED
      BY <1>1, <1>2, <3>1, TotalCovers
  <2> QED
    BY <1>2, <1>4, <2>1
<1> QED
  BY <1>6 DEF Laid

\* A run is covered if somebody else stores the fields it leaves out.
LEMMA LaidButSome ==
    ASSUME NEW fields, NEW c, Filled(fields, c), NEW run \in Seq(1 .. Len(fields)), Laid(fields, run),
           \A p \in 1 .. Len(run) : fields[run[p]].kind \in SizedKinds,
           NEW but, NEW set, SetOf(RunStores(fields, c, run, but)) \subseteq set,
           \A p \in 1 .. Len(run) : run[p] \in but =>
               \E s \in set : s.at = OffsetIn(fields, run, run[p]) /\ Len(s.bytes) = Size(fields[run[p]])
    PROVE  Covers(set, 0, RunBytes(fields, run))
<1>1. Sized(fields)
  BY FilledSized DEF Filled
<1>2. SetOf(RunStores(fields, c, run, but))
        = {Store(OffsetIn(fields, run, run[p]), FieldBytes(fields[run[p]], c[run[p]])) :
               p \in {q \in 1 .. Len(run) : run[q] \notin but}}
  <2>1. run \in Seq(1 .. Len(fields))
    OBVIOUS
  <2> QED
    BY ONLY <1>1, <2>1, RunStoresAre
<1>3. ASSUME NEW p \in 1 .. Len(run)
      PROVE  \E s \in set : s.at = OffsetIn(fields, run, run[p]) /\ Len(s.bytes) = Size(fields[run[p]])
  <2>1. CASE run[p] \in but
    BY <2>1
  <2>2. CASE run[p] \notin but
    <3> DEFINE s == Store(OffsetIn(fields, run, run[p]), FieldBytes(fields[run[p]], c[run[p]]))
    <3>1. s \in set
      BY <1>2, <2>2
    <3>2. run[p] \in 1 .. Len(fields)
      OBVIOUS
    <3>3. Writes(fields, c, run[p])
      BY <3>2, FilledWrites
    <3>4. s.at = OffsetIn(fields, run, run[p]) /\ Len(s.bytes) = Size(fields[run[p]])
      BY <3>3 DEF Store, Writes
    <3> QED
      BY <3>1, <3>4
  <2> QED
    BY <2>1, <2>2
<1>4. Carries(fields, run, set)
  BY <1>3 DEF Carries
<1> QED
  BY <1>4, LaidCovers

\* Unless an error stops it, the plan stores all of the first n bytes.
Full(p, n) == p.late = "none" => Covers(SetOf(p.stores), 0, n)

LEMMA ShiftNothing ==
    ASSUME NEW room \in Nat, NEW stores \in Within(room)
    PROVE  SetOf(Shift(stores, 0)) = SetOf(stores)
<1>1. SetOf(Shift(stores, 0)) = {[s EXCEPT !.at = @ + 0] : s \in SetOf(stores)}
  <2>1. 0 \in Nat
    OBVIOUS
  <2> QED
    BY <2>1, ShiftSet
<1>2. ASSUME NEW s \in SetOf(stores) PROVE [s EXCEPT !.at = @ + 0] = s
  <2>1. s \in Placed(room)
    BY DEF SetOf, Within
  <2>2. s \in [at: Nat, bytes: Bytes, hook: BOOLEAN]
    BY <2>1 DEF Placed
  <2> QED
    BY <2>2
<1> QED
  BY <1>1, <1>2

LEMMA ThenIs ==
    ASSUME NEW room \in Nat, NEW p \in Plans(room), NEW part \in Nat, NEW q \in Plans(part),
           NEW at \in Nat, at + part <= room, Then(p, q, at).late = "none"
    PROVE  /\ p.late = "none" /\ q.late = "none"
           /\ SetOf(Then(p, q, at).stores) = SetOf(p.stores) \cup SetOf(Shift(q.stores, at))
<1>1. /\ p.stores \in Within(room) /\ q.stores \in Within(part)
      /\ p \in [need: Nat, early: Errors, stores: Within(room), late: Errors, used: Nat]
  BY DEF Plans
<1>2. p.late = "none"
  BY DEF Then
<1>3. Then(p, q, at).stores = p.stores \o Shift(q.stores, at) /\ Then(p, q, at).late = q.late
  <2> DEFINE u == p.stores \o Shift(q.stores, at)
  <2>1. Then(p, q, at) = [p EXCEPT !.stores = u, !.late = q.late]
    BY <1>2 DEF Then
  <2> HIDE DEF u
  <2>2. Then(p, q, at).stores = u /\ Then(p, q, at).late = q.late
    BY <1>1, <2>1
  <2> QED
    BY <2>2 DEF u
<1>4. Shift(q.stores, at) \in Within(room)
  <2>1. Shift(q.stores, at) \in Within(part + at)
    BY <1>1, ShiftFits
  <2>2. part + at \in Nat /\ part + at <= room
    OBVIOUS
  <2> QED
    BY <2>1, <2>2, WithinGrows
<1>5. SetOf(p.stores \o Shift(q.stores, at)) = SetOf(p.stores) \cup SetOf(Shift(q.stores, at))
  BY <1>1, <1>4, SetOfBoth
<1> QED
  BY <1>2, <1>3, <1>5

LEMMA ThenFull ==
    ASSUME NEW room \in Nat, NEW p \in Plans(room), NEW part \in Nat, NEW q \in Plans(part),
           NEW at \in Nat, at + part <= room, Full(p, at), Full(q, part)
    PROVE  Full(Then(p, q, at), at + part)
<1> SUFFICES ASSUME Then(p, q, at).late = "none"
             PROVE  Covers(SetOf(Then(p, q, at).stores), 0, at + part)
  BY DEF Full
<1>1. /\ p.late = "none" /\ q.late = "none"
      /\ SetOf(Then(p, q, at).stores) = SetOf(p.stores) \cup SetOf(Shift(q.stores, at))
  BY ThenIs
<1>2. Covers(SetOf(p.stores), 0, at) /\ Covers(SetOf(q.stores), 0, part) /\ q.stores \in Within(part)
  BY <1>1 DEF Full, Plans
<1>3. Covers(SetOf(Shift(q.stores, at)), at, at + part)
  BY <1>2, ShiftHolds
<1>4. 0 \in Nat /\ at + part \in Nat
  OBVIOUS
<1> QED
  BY <1>1, <1>2, <1>3, <1>4, CoversMore

LEMMA ChainFull ==
    ASSUME NEW N \in Nat, NEW need \in Nat, NEW sizes, \A n \in 1 .. N : sizes[n] \in Nat,
           NEW parts, \A n \in 1 .. N : parts[n] \in Plans(sizes[n]) /\ Full(parts[n], sizes[n]),
           NEW upto, Chain(parts, sizes, N, need, upto)
    PROVE  Full(upto[N], Total(sizes, N))
<1> DEFINE room == Total(sizes, N)
           P == {n \in 0 .. N : upto[n] \in Plans(room) /\ Full(upto[n], Total(sizes, n))}
<1>1. /\ \A n \in 0 .. N : Total(sizes, n) \in Nat /\ Total(sizes, n) <= room
      /\ \A n \in 1 .. N : Total(sizes, n) = Total(sizes, n - 1) + sizes[n]
      /\ room \in Nat /\ Total(sizes, 0) = 0
  <2>1. N \in 0 .. N
    OBVIOUS
  <2> QED
    BY <2>1, TotalSteps, TotalGrows
<1> HIDE DEF room
<1>2. 0 \in P
  <2>1. 0 \in 0 .. N /\ upto[0] = Plan(need, <<>>)
    BY DEF Chain
  <2>2. Plan(need, <<>>) \in Plans(room)
    BY <1>1, Empty, PlanFits
  <2>3. Full(Plan(need, <<>>), Total(sizes, 0))
    BY <1>1 DEF Full, Covers
  <2> QED
    BY <2>1, <2>2, <2>3
<1>3. ASSUME NEW n \in 0 .. N, n \in P, n < N PROVE n + 1 \in P
  <2>1. n + 1 \in 1 .. N /\ n + 1 \in 0 .. N /\ n + 1 # 0 /\ (n + 1) - 1 = n
    BY <1>3
  <2>2. upto[n + 1] = Then(upto[n], parts[n + 1], Total(sizes, n))
    BY <2>1 DEF Chain
  <2>3. PICK a, b, d \in Nat : a = Total(sizes, n) /\ d = sizes[n + 1] /\ b = Total(sizes, n + 1)
    BY <1>1, <2>1
  <2>4. b = a + d /\ b <= room /\ a + d <= room
    BY <1>1, <2>1, <2>3
  <2> DEFINE p == upto[n]
             q == parts[n + 1]
  <2>5. p \in Plans(room) /\ q \in Plans(d) /\ Full(p, a) /\ Full(q, d)
    BY <1>3, <2>1, <2>3
  <2> HIDE DEF p, q
  <2>6. Then(p, q, a) \in Plans(room)
    BY <1>1, <2>4, <2>5, ThenFits
  <2>8. Full(Then(p, q, a), b)
    <3>1. Full(Then(p, q, a), a + d)
      BY <1>1, <2>4, <2>5, ThenFull
    <3> QED
      BY <2>4, <3>1
  <2> QED
    BY <2>1, <2>2, <2>3, <2>6, <2>8 DEF p, q
<1> HIDE DEF P
<1>4. \A n \in 0 .. N : n \in P
  BY <1>2, <1>3, InductUpto
<1>5. N \in 0 .. N
  OBVIOUS
<1> QED
  BY <1>4, <1>5 DEF P

\* Arms with regions: a run leaves out a length only for the region behind it.
LEMMA LengthOfRun ==
    ASSUME NEW fields \in Seq(Items), NEW segs \in Seq(VSegs), SegsWell(fields, segs),
           NEW n \in 1 .. Len(segs), segs[n].k = "run",
           NEW p \in 1 .. Len(segs[n].fields), segs[n].fields[p] \in LenFields(segs)
    PROVE  /\ n + 1 \in 1 .. Len(segs) /\ segs[n + 1].k = "dyn" /\ segs[n + 1].len # 0 /\ segs[n + 1].run = n
           /\ segs[n + 1].e.of = segs[n].fields[p]
<1>1. PICK m \in 1 .. Len(segs) : segs[m].k = "dyn" /\ segs[n].fields[p] = segs[m].len
  BY Zenon DEF LenFields
<1>2. /\ Len(segs) \in Nat /\ Len(fields) \in Nat /\ m \in Nat /\ n \in Nat
      /\ SegWell(fields, segs, n) /\ SegWell(fields, segs, m)
  BY DEF SegsWell
<1>3. segs[n].fields \in Seq(1 .. Len(fields))
  BY <1>2 DEF SegWell, FixedRun
<1>4. PICK i \in 1 .. Len(fields) : i = segs[n].fields[p]
  BY <1>3
<1>5. segs[m].len # 0
  BY <1>1, <1>2, <1>4
<1>6. /\ segs[m].run \in 1 .. Len(segs) /\ segs[segs[m].run].k = "run"
      /\ segs[m].run + 1 = m /\ segs[m].len = segs[m].e.of
      /\ \E q \in 1 .. Len(segs[segs[m].run].fields) : segs[segs[m].run].fields[q] = segs[m].e.of
  BY <1>1, <1>2, <1>5 DEF SegWell
<1>7. PICK r \in 1 .. Len(segs) : r = segs[m].run /\ segs[r].k = "run" /\ r + 1 = m
  BY <1>6
<1>8. PICK q \in 1 .. Len(segs[r].fields) : segs[r].fields[q] = i
  BY <1>1, <1>4, <1>6, <1>7
<1>9. SegWell(fields, segs, r)
  BY DEF SegsWell
<1>10. r = n
  <2>1. ASSUME r < n PROVE FALSE
    <3>1. r \in 1 .. n - 1
      BY <1>2, <2>1
    <3>2. segs[r].fields[q] < segs[n].fields[p]
      BY <1>2, <1>7, <3>1 DEF SegWell
    <3> QED
      BY <1>4, <1>8, <3>2
  <2>2. ASSUME n < r PROVE FALSE
    <3>1. n \in 1 .. r - 1
      BY <1>2, <2>2
    <3>2. segs[n].fields[p] < segs[r].fields[q]
      BY <1>7, <1>9, <3>1 DEF SegWell
    <3> QED
      BY <1>4, <1>8, <3>2
  <2> QED
    BY <1>2, <2>1, <2>2
<1> QED
  BY <1>1, <1>5, <1>6, <1>7, <1>10

LEMMA WholeStore ==
    ASSUME NEW bytes \in Bytes
    PROVE  Covers(SetOf(<<Store(0, bytes)>>), 0, Len(bytes)) /\ Covers(SetOf(<<HookStore(0, bytes)>>), 0, Len(bytes))
<1>1. SetOf(<<Store(0, bytes)>>) = {Store(0, bytes)} /\ SetOf(<<HookStore(0, bytes)>>) = {HookStore(0, bytes)}
  BY SetOfOne
<1>2. Len(bytes) \in Nat
  BY DEF Bytes
<1>3. \A k \in 0 + 1 .. Len(bytes) : Holds(Store(0, bytes), k) /\ Holds(HookStore(0, bytes), k)
  BY <1>2 DEF Holds, Store, HookStore
<1> QED
  BY <1>1, <1>3 DEF Covers

\* Number, then bytes, at some place.
LEMMA PairCovers ==
    ASSUME NEW at \in Nat, NEW v \in Bytes, NEW w \in Bytes, NEW s, NEW t, s.at = at, s.bytes = v,
           t.at = at + Len(v), t.bytes = w, NEW set, s \in set, t \in set
    PROVE  Covers(set, at, at + Len(v) + Len(w))
<1>1. Len(v) \in Nat /\ Len(w) \in Nat
  BY DEF Bytes
<1>2. ASSUME NEW k \in at + 1 .. at + Len(v) + Len(w) PROVE Holds(s, k) \/ Holds(t, k)
  BY <1>1 DEF Holds
<1> QED
  BY <1>2 DEF Covers

\* Stores, and those of a plan behind them, at the same place.
LEMMA ThenHere ==
    ASSUME NEW room \in Nat, NEW p \in Plans(room), NEW q \in Plans(room), NEW r, r = Then(p, q, 0), r.late = "none"
    PROVE  p.late = "none" /\ q.late = "none" /\ SetOf(r.stores) = SetOf(p.stores) \cup SetOf(q.stores)
<1>1. 0 \in Nat /\ 0 + room <= room
  OBVIOUS
<1>2. Then(p, q, 0).late = "none"
  OBVIOUS
<1>3. /\ p.late = "none" /\ q.late = "none"
      /\ SetOf(Then(p, q, 0).stores) = SetOf(p.stores) \cup SetOf(Shift(q.stores, 0))
  BY ONLY <1>1, <1>2, p \in Plans(room), q \in Plans(room), room \in Nat, ThenIs
<1>4. q.stores \in Within(room)
  BY DEF Plans
<1>5. SetOf(Shift(q.stores, 0)) = SetOf(q.stores)
  BY <1>4, ShiftNothing
<1> QED
  BY <1>3, <1>5

\* Unless an error stops it, the plan makes all stores of q.
Holding(p, q) == p.late = "none" => q.late = "none" /\ SetOf(q.stores) \subseteq SetOf(p.stores)

\* A run whose left out fields are stored along with it, or by the plan behind.
LEMMA FrontFull ==
    ASSUME NEW fields, NEW c, Filled(fields, c), NEW run \in Seq(1 .. Len(fields)), Laid(fields, run),
           \A p \in 1 .. Len(run) : fields[run[p]].kind \in SizedKinds,
           NEW but, NEW room \in Nat, NEW stores \in Within(room),
           SetOf(RunStores(fields, c, run, but)) \subseteq SetOf(stores),
           NEW before \in Plans(room), NEW r, r = Then(Plan(0, stores), before, 0),
           before.late = "none" =>
               \A p \in 1 .. Len(run) : run[p] \in but =>
                   \E s \in SetOf(stores) \cup SetOf(before.stores) :
                       s.at = OffsetIn(fields, run, run[p]) /\ Len(s.bytes) = Size(fields[run[p]])
    PROVE  Full(r, RunBytes(fields, run)) /\ Holding(r, before)
<1> SUFFICES ASSUME r.late = "none"
             PROVE  /\ Covers(SetOf(r.stores), 0, RunBytes(fields, run))
                    /\ before.late = "none" /\ SetOf(before.stores) \subseteq SetOf(r.stores)
  BY DEF Full, Holding
<1> DEFINE p0 == Plan(0, stores)
           set == SetOf(r.stores)
<1>1. p0 \in Plans(room) /\ p0.stores = stores
  BY PlanFits DEF Plan
<1>2. r = Then(p0, before, 0)
  OBVIOUS
<1> HIDE DEF p0
<1>3. before.late = "none" /\ set = SetOf(stores) \cup SetOf(before.stores)
  <2>1. before.late = "none" /\ SetOf(r.stores) = SetOf(p0.stores) \cup SetOf(before.stores)
    BY <1>1, <1>2, ThenHere
  <2> QED
    BY <1>1, <2>1
<1>4. \A p \in 1 .. Len(run) : run[p] \in but =>
          \E s \in set : s.at = OffsetIn(fields, run, run[p]) /\ Len(s.bytes) = Size(fields[run[p]])
  BY <1>3
<1>5. SetOf(RunStores(fields, c, run, but)) \subseteq set
  BY <1>3
<1> HIDE DEF set
<1>6. Covers(set, 0, RunBytes(fields, run))
  BY <1>4, <1>5, LaidButSome
<1> QED
  BY <1>3, <1>6 DEF set

\* The length field: its store is there if it can hold the length.
LEMMA LenStored ==
    ASSUME NEW fields, NEW run, NEW e, NEW n, LenPlan(fields, run, e, n).late = "none"
    PROVE  \E s \in SetOf(LenPlan(fields, run, e, n).stores) : s.at = OffsetIn(fields, run, e.of) /\ Len(s.bytes) = 1
<1>1. LenPlan(fields, run, e, n).late = LenError(e, n)
  BY DEF LenPlan, Plan
<1>2. LenError(e, n) = "none"
  BY <1>1
<1> DEFINE s == Store(OffsetIn(fields, run, e.of), <<LenValue(n, e)>>)
<1>3. SetOf(LenPlan(fields, run, e, n).stores) = {s}
  BY <1>2, LenStores
<1>4. s.at = OffsetIn(fields, run, e.of) /\ Len(s.bytes) = 1
  BY DEF Store
<1> HIDE DEF s
<1> QED
  BY <1>3, <1>4

LEMMA SegmentFull ==
    ASSUME NEW fields, NEW c, Filled(fields, c), NEW segs \in Seq(VSegs), SegsWell(fields, segs),
           NEW n \in 1 .. Len(segs)
    PROVE  Full(SegmentPlan(fields, c, segs, n), SegmentBytes(fields, c, segs[n]))
<1> DEFINE seg == segs[n]
           Derived0 == {k \in 1 .. Len(segs) :
                          segs[k].k = "dyn" /\ segs[k].len # 0 /\ segs[k].run = n}
           d == CHOOSE x \in Derived0 : TRUE
           but == LenFields(segs)
           bare == Plan(0, RunStores(fields, c, seg.fields, but))
           len == LenPlan(fields, seg.fields, segs[d].e, Len(c[MeasuredRegion(segs, d)]))
           room == SegmentBytes(fields, c, seg)
<1>1. Regions(fields, c, segs)
  BY FilledRegions
<1>2. seg \in VSegs /\ SegWell(fields, segs, n) /\ seg.k \in {"run", "dyn", "varint"}
  <2>1. seg \in VSegs
    OBVIOUS
  <2> QED
    BY <2>1 DEF SegsWell, VSegs
<1>3. Sized(fields) /\ fields \in Seq(Items)
  BY FilledSized DEF Filled
<1>4. CASE seg.k = "run"
  <2>1. /\ seg.fields \in Seq(1 .. Len(fields)) /\ Ascending(seg.fields)
        /\ \A p \in 1 .. Len(seg.fields) : fields[seg.fields[p]].kind \in SizedKinds
    BY <1>2, <1>4, FixedIsSized DEF SegWell, FixedRun
  <2>2. room = RunBytes(fields, seg.fields)
    BY <1>4 DEF SegmentBytes
  <2>3. RunStores(fields, c, seg.fields, but) \in Within(room) /\ room \in Nat
    <3> HIDE DEF but
    <3> QED
      BY <2>1, <2>2, FilledRun
  <2>4. bare \in Plans(room) /\ bare.stores = RunStores(fields, c, seg.fields, but)
    BY <2>3, PlanFits DEF Plan
  <2>5. Laid(fields, seg.fields)
    BY <1>3, <2>1, AscendingLaid
  <2>6. CASE Derived0 = {}
    <3>1. SegmentPlan(fields, c, segs, n) = bare
      BY <1>4, <2>6 DEF SegmentPlan
    <3>2. ASSUME NEW p \in 1 .. Len(seg.fields), seg.fields[p] \in but PROVE FALSE
      <4>1. /\ n + 1 \in 1 .. Len(segs) /\ segs[n + 1].k = "dyn" /\ segs[n + 1].len # 0
            /\ segs[n + 1].run = n
        BY <1>3, <1>4, <3>2, LengthOfRun
      <4>2. n + 1 \in Derived0
        BY <4>1
      <4> QED
        BY <2>6, <4>2
    <3> DEFINE run == seg.fields
               set == SetOf(RunStores(fields, c, run, but))
    <3>3. run \in Seq(1 .. Len(fields)) /\ Laid(fields, run)
          /\ \A p \in 1 .. Len(run) : fields[run[p]].kind \in SizedKinds
      BY <2>1, <2>5
    <3>4. \A p \in 1 .. Len(run) : run[p] \in but =>
              \E s \in set : s.at = OffsetIn(fields, run, run[p]) /\ Len(s.bytes) = Size(fields[run[p]])
      BY <3>2
    <3>5. SetOf(RunStores(fields, c, run, but)) \subseteq set
      OBVIOUS
    <3> HIDE DEF run, but, set
    <3>6. Covers(set, 0, RunBytes(fields, run))
      BY <3>3, <3>4, <3>5, LaidButSome
    <3> QED
      BY <2>2, <2>4, <3>1, <3>6 DEF Full, run, set
  <2>7. CASE Derived0 # {}
    <3>1. d \in Derived0
      BY <2>7
    <3>2. d \in 1 .. Len(segs) /\ segs[d].k = "dyn" /\ segs[d].len # 0 /\ segs[d].run = n
      BY <3>1
    <3>3. SegmentPlan(fields, c, segs, n) = Then(bare, len, 0)
      BY <1>4, <2>7 DEF SegmentPlan
    <3> HIDE DEF d
    <3>4. SegWell(fields, segs, d)
      BY <3>2 DEF SegsWell
    <3>5. segs[d].e \in Exprs /\ segs[d].run + 1 = d
          /\ \E p \in 1 .. Len(seg.fields) :
                seg.fields[p] = segs[d].e.of /\ IsNumber(fields[seg.fields[p]])
      BY <3>2, <3>4 DEF SegWell
    <3>6. n + 1 = d
      BY <3>2, <3>5
    <3>7. Len(c[MeasuredRegion(segs, d)]) \in Nat
      <4>1. PICK k \in 1 .. Len(segs) : segs[k].k # "run" /\ MeasuredRegion(segs, d) = segs[k].item
        BY <3>2, MeasuredIsRegion
      <4>2. c[MeasuredRegion(segs, d)] \in Bytes
        BY <1>1, <4>1 DEF Regions
      <4> QED
        BY <4>2 DEF Bytes
    <3>8. PICK p \in 1 .. Len(seg.fields) :
             seg.fields[p] = segs[d].e.of /\ IsNumber(fields[seg.fields[p]])
      BY <3>5
    <3> DEFINE run == seg.fields
               e == segs[d].e
               size == Len(c[MeasuredRegion(segs, d)])
    <3>9. /\ run \in Seq(1 .. Len(fields)) /\ Laid(fields, run) /\ e \in Exprs /\ size \in Nat
          /\ \A q \in 1 .. Len(run) : fields[run[q]].kind \in SizedKinds
          /\ p \in 1 .. Len(run) /\ run[p] = e.of /\ IsNumber(fields[run[p]])
      BY <2>1, <2>5, <3>5, <3>7, <3>8
    <3>10. len = LenPlan(fields, run, e, size) /\ room = RunBytes(fields, run)
      BY <2>2
    <3>15. ASSUME NEW q \in 1 .. Len(run), run[q] \in but PROVE run[q] = e.of
      BY <1>3, <1>4, <3>6, <3>15, LengthOfRun
    <3> HIDE DEF run, e, size
    <3>11. len \in Plans(room)
      <4>1. LenPlan(fields, run, e, size) \in Plans(RunBytes(fields, run))
        BY <1>3, <3>9, LenPlanFits
      <4> HIDE DEF len, room
      <4> QED
        BY <3>10, <4>1
    <3>12. bare = Plan(0, RunStores(fields, c, run, but)) /\ RunStores(fields, c, run, but) \in Within(room)
      BY <2>3 DEF run
    <3>13. SegmentPlan(fields, c, segs, n) = Then(Plan(0, RunStores(fields, c, run, but)), len, 0)
      BY <3>3, <3>12
    <3>14. Size(fields[e.of]) = 1
      BY <3>9 DEF IsNumber, Size
    <3> HIDE DEF but, len, bare
    <3>16. ASSUME len.late = "none", NEW q \in 1 .. Len(run), run[q] \in but
           PROVE  \E s \in SetOf(len.stores) :
                      s.at = OffsetIn(fields, run, run[q]) /\ Len(s.bytes) = Size(fields[run[q]])
      <4>1. run[q] = e.of
        BY <3>15, <3>16
      <4>2. LenPlan(fields, run, e, size).late = "none"
        BY <3>10, <3>16
      <4>3. \E s \in SetOf(LenPlan(fields, run, e, size).stores) : s.at = OffsetIn(fields, run, e.of) /\ Len(s.bytes) = 1
        BY <4>2, LenStored
      <4> QED
        BY <3>10, <3>14, <4>1, <4>3
    <3> DEFINE stores == RunStores(fields, c, run, but)
               r == SegmentPlan(fields, c, segs, n)
    <3>17. /\ stores \in Within(room) /\ r = Then(Plan(0, stores), len, 0)
           /\ SetOf(RunStores(fields, c, run, but)) \subseteq SetOf(stores)
      BY <3>12, <3>13
    <3>18. len.late = "none" =>
               \A q \in 1 .. Len(run) : run[q] \in but =>
                   \E s \in SetOf(stores) \cup SetOf(len.stores) :
                       s.at = OffsetIn(fields, run, run[q]) /\ Len(s.bytes) = Size(fields[run[q]])
      BY <3>16
    <3>19. room \in Nat
      BY <2>3
    <3>21. \A q \in 1 .. Len(run) : fields[run[q]].kind \in SizedKinds
      BY <3>9
    <3>22. run \in Seq(1 .. Len(fields)) /\ Laid(fields, run) /\ Filled(fields, c)
      BY <3>9
    <3> HIDE DEF stores, room, r
    <3>20. Full(r, RunBytes(fields, run))
      BY ONLY <3>11, <3>17, <3>18, <3>19, <3>21, <3>22, FrontFull
    <3>23. Full(SegmentPlan(fields, c, segs, n), room)
      BY <3>10, <3>20 DEF r
    <3> QED
      BY <3>23 DEF room
  <2> QED
    BY <2>6, <2>7
<1>5. ASSUME seg.k # "run" PROVE c[seg.item] \in Bytes /\ Len(c[seg.item]) \in Nat
  <2>1. c[seg.item] \in Bytes
    BY <1>1, <1>5 DEF Regions
  <2> QED
    BY <2>1 DEF Bytes
<1>6. CASE seg.k = "dyn"
  <2>1. c[seg.item] \in Bytes /\ room = Len(c[seg.item])
    BY <1>5, <1>6 DEF SegmentBytes
  <2>2. SegmentPlan(fields, c, segs, n).stores = <<Store(0, c[seg.item])>>
    BY <1>6 DEF SegmentPlan, Plan
  <2>3. Covers(SetOf(<<Store(0, c[seg.item])>>), 0, Len(c[seg.item]))
    BY <2>1, WholeStore
  <2> QED
    BY <2>1, <2>2, <2>3 DEF Full
<1>7. CASE seg.k = "varint"
  <2> DEFINE w == c[seg.item]
             v == Varint(Cast(Len(w)))
             s == HookStore(0, v)
             t == Store(Len(v), w)
  <2>1. w \in Bytes /\ Len(w) \in Nat /\ room = Width(Cast(Len(w))) + Len(w)
    BY <1>5, <1>7 DEF SegmentBytes
  <2>5. SegmentPlan(fields, c, segs, n).stores = <<s, t>>
    BY <1>7 DEF SegmentPlan, Plan
  <2> HIDE DEF w
  <2>2. v \in Bytes /\ Len(v) = Width(Cast(Len(w))) /\ Len(v) \in Nat
    BY <2>1, CastFits, VarintFits
  <2> HIDE DEF v
  <2>3. s.at = 0 /\ s.bytes = v /\ t.at = 0 + Len(v) /\ t.bytes = w
    BY <2>2 DEF HookStore, Store
  <2> HIDE DEF s, t
  <2>4. s \in SetOf(<<s, t>>) /\ t \in SetOf(<<s, t>>)
    <3>1. Len(<<s, t>>) = 2 /\ <<s, t>>[1] = s /\ <<s, t>>[2] = t
      OBVIOUS
    <3>2. 1 \in 1 .. Len(<<s, t>>) /\ 2 \in 1 .. Len(<<s, t>>)
      BY <3>1
    <3> QED
      BY <3>1, <3>2 DEF SetOf
  <2> DEFINE set == SetOf(<<s, t>>)
  <2> HIDE DEF set
  <2>6. Covers(set, 0, 0 + Len(v) + Len(w))
    <3>1. s \in set /\ t \in set /\ 0 \in Nat
      BY <2>4 DEF set
    <3> QED
      BY <2>1, <2>2, <2>3, <3>1, PairCovers
  <2>7. room = 0 + Len(v) + Len(w)
    <3> HIDE DEF room
    <3> QED
      BY <2>1, <2>2
  <2> HIDE DEF room
  <2> QED
    BY <2>5, <2>6, <2>7 DEF Full, set, room
<1> QED
  BY <1>2, <1>4, <1>6, <1>7

LEMMA SegmentsFull ==
    ASSUME NEW fields, NEW c, Filled(fields, c), NEW segs \in Seq(VSegs), SegsWell(fields, segs)
    PROVE  Full(SegmentsPlan(fields, c, segs), SegmentsPlan(fields, c, segs).need)
<1> DEFINE N == Len(segs)
           sizes == SegmentSizes(fields, c, segs)
           parts == SegmentParts(fields, c, segs)
           need == Total(sizes, N)
<1>1. N \in Nat
  OBVIOUS
<1>2. /\ \A n \in 1 .. N : sizes[n] \in Nat /\ parts[n] \in Plans(sizes[n])
      /\ \A n \in 1 .. N : sizes[n] = SegmentBytes(fields, c, segs[n]) /\ parts[n] = SegmentPlan(fields, c, segs, n)
      /\ \E upto : Chain(parts, sizes, N, need, upto) /\ SegmentsPlan(fields, c, segs) = upto[N]
  BY SegmentsChained
<1>3. SegmentsPlan(fields, c, segs).need = need /\ SegmentsPlan(fields, c, segs).need \in Nat
  BY SegmentsFit
<1> HIDE DEF sizes, parts
<1>4. \A n \in 1 .. N : Full(parts[n], sizes[n])
  BY <1>2, SegmentFull
<1>5. need \in Nat
  BY <1>3
<1>6. PICK upto : Chain(parts, sizes, N, need, upto) /\ SegmentsPlan(fields, c, segs) = upto[N]
  BY <1>2
<1>7. Full(upto[N], Total(sizes, N))
  <2> HIDE DEF N, need
  <2> QED
    BY <1>1, <1>2, <1>4, <1>5, <1>6, ChainFull
<1> QED
  BY <1>3, <1>6, <1>7

LEMMA VariantFull ==
    ASSUME NEW fields, NEW c, Filled(fields, c)
    PROVE  Full(VariantPlan(fields, c), VariantPlan(fields, c).need)
BY VariantLayoutWell, SegmentsFull DEF VariantPlan, Filled

\* The arm that is written.
LEMMA BodyFull ==
    ASSUME NEW fields, NEW c, NEW i, NEW prefix, NEW bodies, UnionIn(fields, c, i, prefix, bodies)
    PROVE  Full(BodyPlan(fields[i], bodies, c[i]), BodyPlan(fields[i], bodies, c[i]).need)
<1> DEFINE inner == fields[i].arms[c[i].arm].items
<1>1. Filled(inner, c[i].fields) /\ (bodies[c[i].arm] = "fixed" => AllFixed(inner, 1, Len(inner)))
  BY UnionType
<1>2. CASE bodies[c[i].arm] = "fixed"
  <2>1. BodyPlan(fields[i], bodies, c[i]) = FixedPlan(inner, c[i].fields)
    BY <1>2, Zenon DEF BodyPlan
  <2> HIDE DEF inner
  <2> DEFINE p == FixedPlan(inner, c[i].fields)
             set == SetOf(p.stores)
  <2>2. \A k \in 1 .. Len(inner) : inner[k].kind \in SizedKinds
    BY <1>1, <1>2, FixedIsSized DEF AllFixed
  <2>3. p.need = p.used
    BY DEF FixedPlan, Plan
  <2>4. set = SetOf(FixedPlan(inner, c[i].fields).stores)
    OBVIOUS
  <2> HIDE DEF set
  <2>5. Covers(set, 0, FixedPlan(inner, c[i].fields).used)
    BY <1>1, <2>2, <2>4, FixedComplete
  <2> HIDE DEF p
  <2>6. Full(p, p.need)
    BY <2>3, <2>5 DEF Full, set, p
  <2> QED
    BY <2>1, <2>6 DEF p
<1>3. CASE bodies[c[i].arm] # "fixed"
  <2>1. BodyPlan(fields[i], bodies, c[i]) = VariantPlan(inner, c[i].fields)
    BY <1>3, Zenon DEF BodyPlan
  <2> HIDE DEF inner
  <2> QED
    BY <1>1, <2>1, VariantFull
<1> QED
  BY <1>2, <1>3

LEMMA DiscStored ==
    ASSUME NEW fields, NEW u, NEW prefix, NEW v, NEW d \in 1 .. Len(u.discs)
    PROVE  \E s \in SetOf(DiscStores(fields, u, prefix, v)) :
               s.at = OffsetIn(fields, prefix, u.discs[d]) /\ Len(s.bytes) = 1
<1> DEFINE values == IF Wild(u.arms[v.arm]) THEN <<v.disc>> ELSE DiscValues(u.arms[v.arm])
           store(x) == Store(OffsetIn(fields, prefix, u.discs[x]), <<values[x]>>)
<1>1. DiscStores(fields, u, prefix, v) = [x \in 1 .. Len(u.discs) |-> store(x)]
  BY Zenon DEF DiscStores
<1>2. store(d).at = OffsetIn(fields, prefix, u.discs[d]) /\ Len(store(d).bytes) = 1
  <2> HIDE DEF values
  <2> QED
    BY DEF Store
<1> HIDE DEF store
<1>3. store(d) \in SetOf(DiscStores(fields, u, prefix, v))
  <2>1. DiscStores(fields, u, prefix, v)[d] = store(d)
    BY <1>1
  <2>2. d \in 1 .. Len(DiscStores(fields, u, prefix, v))
    <3>1. Len(u.discs) \in Nat \/ Len(u.discs) \notin Nat
      OBVIOUS
    <3> QED
      BY <1>1
  <2> QED
    BY <2>1, <2>2 DEF SetOf
<1> QED
  BY <1>2, <1>3

\* All that comes in front of the arm.
LEMMA AroundFull ==
    ASSUME NEW fields, NEW c, NEW i, NEW prefix, NEW bodies, UnionIn(fields, c, i, prefix, bodies),
           Laid(fields, prefix), NEW but, NEW room \in Nat, RunBytes(fields, prefix) <= room,
           NEW before \in Plans(room),
           before.late = "none" =>
               \A p \in 1 .. Len(prefix) : prefix[p] \in but =>
                   \E s \in SetOf(before.stores) :
                       s.at = OffsetIn(fields, prefix, prefix[p]) /\ Len(s.bytes) = Size(fields[prefix[p]]),
           NEW r, r = AroundBody(fields, c, prefix, i, but, before)
    PROVE  Full(r, RunBytes(fields, prefix)) /\ Holding(r, before)
<1> DEFINE left == DiscSet(fields[i]) \cup but
           run == RunStores(fields, c, prefix, left)
           discs == DiscStores(fields, fields[i], prefix, c[i])
           stores == run \o discs
<1>1. Filled(fields, c) /\ prefix \in Seq(1 .. Len(fields))
      /\ \A p \in 1 .. Len(prefix) : fields[prefix[p]].kind \in SizedKinds
  BY DEF UnionIn
<1>2. run \in Within(RunBytes(fields, prefix)) /\ RunBytes(fields, prefix) \in Nat
  <2> HIDE DEF left
  <2> QED
    BY <1>1, FilledRun
<1>3. discs \in Within(RunBytes(fields, prefix))
  BY DiscStoresFit
<1>4. r = Then(Plan(0, stores), before, 0)
  BY Zenon DEF AroundBody
<1>5. \A d \in 1 .. Len(fields[i].discs) :
          /\ IsNumber(fields[fields[i].discs[d]])
          /\ \E s \in SetOf(discs) : s.at = OffsetIn(fields, prefix, fields[i].discs[d]) /\ Len(s.bytes) = 1
  <2> DEFINE u == fields[i]
  <2>1. \A d \in 1 .. Len(u.discs) : IsNumber(fields[u.discs[d]])
    BY UnionType
  <2>2. discs = DiscStores(fields, u, prefix, c[i])
    OBVIOUS
  <2> HIDE DEF u, discs
  <2>3. ASSUME NEW d \in 1 .. Len(u.discs)
        PROVE  \E s \in SetOf(discs) : s.at = OffsetIn(fields, prefix, u.discs[d]) /\ Len(s.bytes) = 1
    <3>1. \E s \in SetOf(DiscStores(fields, u, prefix, c[i])) :
              s.at = OffsetIn(fields, prefix, u.discs[d]) /\ Len(s.bytes) = 1
      BY ONLY d \in 1 .. Len(u.discs), DiscStored
    <3> QED
      BY <2>2, <3>1
  <2> QED
    BY <2>1, <2>3 DEF u
<1> HIDE DEF run, discs
<1>6. /\ stores \in Within(room) /\ SetOf(run) \subseteq SetOf(stores)
      /\ SetOf(discs) \subseteq SetOf(stores)
  <2>1. SetOf(run \o discs) = SetOf(run) \cup SetOf(discs)
    BY <1>2, <1>3, SetOfBoth
  <2>2. run \o discs \in Within(RunBytes(fields, prefix))
    BY <1>2, <1>3, Concat
  <2>3. run \o discs \in Within(room)
    BY <1>2, <2>2, WithinGrows
  <2> QED
    BY <2>1, <2>3
<1> HIDE DEF stores
<1>7. ASSUME before.late = "none", NEW p \in 1 .. Len(prefix), prefix[p] \in left
      PROVE  \E s \in SetOf(stores) \cup SetOf(before.stores) :
                 s.at = OffsetIn(fields, prefix, prefix[p]) /\ Len(s.bytes) = Size(fields[prefix[p]])
  <2>1. CASE prefix[p] \in but
    BY <1>7, <2>1
  <2>2. CASE prefix[p] \in DiscSet(fields[i])
    <3>1. PICK d \in 1 .. Len(fields[i].discs) : prefix[p] = fields[i].discs[d]
      BY <2>2 DEF DiscSet
    <3>2. Size(fields[prefix[p]]) = 1
      BY <1>5, <3>1 DEF IsNumber, Size
    <3> QED
      BY <1>5, <1>6, <3>1, <3>2
  <2> QED
    BY <1>7, <2>1, <2>2
<1>8. SetOf(RunStores(fields, c, prefix, left)) \subseteq SetOf(stores)
  BY <1>6 DEF run
<1>9. before.late = "none" =>
          \A p \in 1 .. Len(prefix) : prefix[p] \in left =>
              \E s \in SetOf(stores) \cup SetOf(before.stores) :
                  s.at = OffsetIn(fields, prefix, prefix[p]) /\ Len(s.bytes) = Size(fields[prefix[p]])
  BY <1>7
<1>10. stores \in Within(room)
  BY <1>6
<1> HIDE DEF left
<1>11. /\ Filled(fields, c) /\ prefix \in Seq(1 .. Len(fields)) /\ Laid(fields, prefix)
       /\ room \in Nat /\ before \in Plans(room)
       /\ \A p \in 1 .. Len(prefix) : fields[prefix[p]].kind \in SizedKinds
  BY <1>1
<1> QED
  BY ONLY <1>4, <1>8, <1>9, <1>10, <1>11, FrontFull

\* All of it in front of the arm, and the arm.
LEMMA ArmFull ==
    ASSUME NEW at \in Nat, NEW around \in Plans(at), NEW body, InRoom(body), body.need \in Nat,
           Full(around, at), Full(body, body.need), NEW r,
           r = [Then(around, body, at) EXCEPT !.need = at + body.need, !.used = at + body.need]
    PROVE  Full(r, r.used)
<1> DEFINE need == at + body.need
           p0 == Then(around, body, at)
<1>1. need \in Nat /\ at <= need /\ at + body.need <= need
  OBVIOUS
<1>2. body \in Plans(body.need)
  BY DEF InRoom
<1>3. PICK part \in Nat : part = body.need
  OBVIOUS
<1> HIDE DEF need
<1>4. around \in Plans(need)
  BY <1>1, PlansGrow
<1>5. body \in Plans(part) /\ at + part <= need /\ Full(body, part) /\ at + part = need
  BY <1>1, <1>2, <1>3 DEF need
<1>6. p0 \in Plans(need)
  BY <1>1, <1>4, <1>5, ThenFits
<1>7. Full(p0, at + part)
  BY <1>1, <1>4, <1>5, ThenFull
<1>8. r = [p0 EXCEPT !.need = need, !.used = need]
  BY DEF need
<1> HIDE DEF p0
<1>9. r.late = p0.late /\ r.stores = p0.stores /\ r.used = need
  BY <1>6, <1>8 DEF Plans
<1> QED
  BY <1>5, <1>7, <1>9 DEF Full

LEMMA UnionFull ==
    ASSUME NEW fields, NEW c, NEW lay, UnionIn(fields, c, lay.region, lay.prefix, lay.bodies),
           Laid(fields, lay.prefix)
    PROVE  Full(UnionPlan(fields, c, lay), UnionPlan(fields, c, lay).used)
<1> DEFINE i == lay.region
           at == RunBytes(fields, lay.prefix)
           body == BodyPlan(fields[i], lay.bodies, c[i])
           empty == Plan(0, <<>>)
           around == AroundBody(fields, c, lay.prefix, i, {}, empty)
           need == at + body.need
           r == UnionPlan(fields, c, lay)
<1>1. InRoom(body) /\ body.need \in Nat /\ Full(body, body.need)
  BY BodyFits, BodyFull
<1>2. at \in Nat
  <2>1. Filled(fields, c) /\ lay.prefix \in Seq(1 .. Len(fields))
        /\ \A p \in 1 .. Len(lay.prefix) : fields[lay.prefix[p]].kind \in SizedKinds
    BY DEF UnionIn
  <2> QED
    BY <2>1, FilledRun
<1>3. empty \in Plans(at)
  BY Empty, PlanFits
<1>4. r = [Then(around, body, at) EXCEPT !.need = need, !.used = need]
  BY Zenon DEF UnionPlan
<1> HIDE DEF empty, body, r
<1>5. around \in Plans(at) /\ Full(around, at)
  <2> DEFINE but == {}
  <2>1. at <= at /\ RunBytes(fields, lay.prefix) <= at
    BY <1>2
  <2>2. around = AroundBody(fields, c, lay.prefix, i, but, empty)
    OBVIOUS
  <2>3. \A p \in 1 .. Len(lay.prefix) : lay.prefix[p] \notin but
    OBVIOUS
  <2> HIDE DEF but, at, around
  <2>4. around \in Plans(at)
    BY <1>2, <1>3, <2>1, <2>2, AroundFits
  <2>5. Full(around, RunBytes(fields, lay.prefix))
    BY <1>2, <1>3, <2>1, <2>2, <2>3, AroundFull
  <2> QED
    BY <2>4, <2>5 DEF at
<1> HIDE DEF around, at
<1>6. Full(r, r.used)
  BY <1>1, <1>2, <1>4, <1>5, ArmFull
<1> QED
  BY <1>6 DEF r

LEMMA LenUnionFull ==
    ASSUME NEW fields, NEW c, NEW lay, UnionIn(fields, c, lay.region, lay.prefix, lay.bodies),
           Laid(fields, lay.prefix),
           \E p \in 1 .. Len(lay.prefix) : lay.prefix[p] = fields[lay.region].len.of
                                           /\ IsNumber(fields[lay.prefix[p]])
    PROVE  Full(LenUnionPlan(fields, c, lay), LenUnionPlan(fields, c, lay).used)
<1> DEFINE i == lay.region
           e == fields[i].len
           at == RunBytes(fields, lay.prefix)
           body == BodyPlan(fields[i], lay.bodies, c[i])
           len == LenPlan(fields, lay.prefix, e, body.need)
           around == AroundBody(fields, c, lay.prefix, i, {e.of}, len)
           need == at + body.need
           r == LenUnionPlan(fields, c, lay)
<1>1. InRoom(body) /\ body.need \in Nat /\ Full(body, body.need)
  BY BodyFits, BodyFull
<1>2. at \in Nat /\ Sized(fields) /\ lay.prefix \in Seq(1 .. Len(fields)) /\ e \in Exprs
  <2>1. Filled(fields, c) /\ lay.prefix \in Seq(1 .. Len(fields))
        /\ \A p \in 1 .. Len(lay.prefix) : fields[lay.prefix[p]].kind \in SizedKinds
    BY DEF UnionIn
  <2>2. at \in Nat
    BY <2>1, FilledRun
  <2>3. fields[i] \in Items /\ Sized(fields)
    BY UnionType
  <2>4. fields[i].len \in Exprs
    BY <2>3, ItemType
  <2> QED
    BY <2>1, <2>2, <2>3, <2>4
<1>3. PICK p \in 1 .. Len(lay.prefix) : lay.prefix[p] = e.of /\ IsNumber(fields[lay.prefix[p]])
  OBVIOUS
<1>4. len \in Plans(at)
  <2> HIDE DEF e, body
  <2> QED
    BY <1>1, <1>2, <1>3, LenPlanFits
<1>5. r = [Then(around, body, at) EXCEPT !.need = need, !.used = need]
  BY Zenon DEF LenUnionPlan
<1> DEFINE but == {e.of}
<1>6. around = AroundBody(fields, c, lay.prefix, i, but, len) /\ \A x : x \in but <=> x = e.of
  OBVIOUS
<1>7. Size(fields[e.of]) = 1
  BY <1>3 DEF IsNumber, Size
<1>8. len.late = "none" => \E s \in SetOf(len.stores) : s.at = OffsetIn(fields, lay.prefix, e.of) /\ Len(s.bytes) = 1
  <2> HIDE DEF e, body
  <2> QED
    BY LenStored
<1> HIDE DEF body, r, len, but, e, around, at
<1>9. around \in Plans(at) /\ Full(around, at)
  <2>1. at <= at /\ RunBytes(fields, lay.prefix) <= at
    BY <1>2 DEF at
  <2>2. around \in Plans(at)
    BY <1>2, <1>4, <1>6, <2>1, AroundFits
  <2>3. len.late = "none" =>
            \A q \in 1 .. Len(lay.prefix) : lay.prefix[q] \in but =>
                \E s \in SetOf(len.stores) :
                    s.at = OffsetIn(fields, lay.prefix, lay.prefix[q]) /\ Len(s.bytes) = Size(fields[lay.prefix[q]])
    BY <1>6, <1>7, <1>8
  <2>4. Full(around, RunBytes(fields, lay.prefix))
    BY <1>2, <1>4, <1>6, <2>1, <2>3, AroundFull
  <2> QED
    BY <2>2, <2>4 DEF at
<1>10. Full(r, r.used)
  BY <1>1, <1>2, <1>5, <1>9, ArmFull
<1> QED
  BY <1>10 DEF r

LEMMA LenUnionHookFull ==
    ASSUME NEW fields, NEW c, NEW lay, UnionIn(fields, c, lay.region, lay.prefix, lay.bodies),
           Laid(fields, lay.prefix)
    PROVE  Full(LenUnionHookPlan(fields, c, lay), LenUnionHookPlan(fields, c, lay).used)
<1> DEFINE i == lay.region
           at == RunBytes(fields, lay.prefix)
           body == BodyPlan(fields[i], lay.bodies, c[i])
           v == Varint(Cast(LenValue(body.need, fields[i].len)))
           hook == HookStore(at, v)
           len == Plan(0, <<hook>>)
           around == AroundBody(fields, c, lay.prefix, i, {}, len)
           front == at + Len(v)
           need == front + body.need
           r == LenUnionHookPlan(fields, c, lay)
<1>1. InRoom(body) /\ body.need \in Nat /\ Full(body, body.need)
  BY BodyFits, BodyFull
<1>2. at \in Nat /\ fields[i].len \in Exprs
  <2>1. Filled(fields, c) /\ lay.prefix \in Seq(1 .. Len(fields))
        /\ \A p \in 1 .. Len(lay.prefix) : fields[lay.prefix[p]].kind \in SizedKinds
    BY DEF UnionIn
  <2>2. at \in Nat
    BY <2>1, FilledRun
  <2>3. fields[i] \in Items
    BY UnionType
  <2> QED
    BY <2>2, <2>3, ItemType
<1>3. v \in Bytes /\ Len(v) \in Nat
  <2>1. LenValue(body.need, fields[i].len) \in Nat
    <3> HIDE DEF body, i
    <3> QED
      BY <1>1, <1>2 DEF LenValue, Minus, Exprs
  <2>2. v \in Bytes
    <3> HIDE DEF body, i
    <3> QED
      BY <2>1, CastFits, VarintFits
  <2> HIDE DEF v
  <2> QED
    BY <2>2 DEF Bytes
<1>4. r = [Then(around, body, front) EXCEPT !.need = need, !.used = need]
  BY Zenon DEF LenUnionHookPlan
<1> HIDE DEF at, v, body, r
<1>5. front \in Nat /\ at <= front /\ front = at + Len(v)
  BY <1>2, <1>3
<1>6. hook \in Placed(front) /\ hook.at = at /\ hook.bytes = v
  BY <1>2, <1>3, <1>5, StoreFits DEF HookStore
<1> HIDE DEF hook, front
<1>7. len \in Plans(front) /\ hook \in SetOf(len.stores)
  <2>1. len.stores = <<hook>>
    BY DEF Plan
  <2>2. SetOf(<<hook>>) = {hook}
    BY SetOfOne
  <2>3. len \in Plans(front)
    BY <1>6, Single, PlanFits
  <2> QED
    BY <2>1, <2>2, <2>3
<1> HIDE DEF len
<1>8. around \in Plans(front) /\ Full(around, front)
  <2> DEFINE but == {}
             set == SetOf(around.stores)
  <2>1. RunBytes(fields, lay.prefix) <= front
    BY <1>5 DEF at
  <2>2. around = AroundBody(fields, c, lay.prefix, i, but, len)
    OBVIOUS
  <2>3. \A p \in 1 .. Len(lay.prefix) : lay.prefix[p] \notin but
    OBVIOUS
  <2> HIDE DEF but, around
  <2>4. around \in Plans(front)
    BY <1>5, <1>7, <2>1, <2>2, AroundFits
  <2>5. /\ Full(around, RunBytes(fields, lay.prefix))
        /\ around.late = "none" => SetOf(len.stores) \subseteq set
    <3>1. len.late = "none" =>
              \A p \in 1 .. Len(lay.prefix) : lay.prefix[p] \in but =>
                  \E s \in SetOf(len.stores) :
                      s.at = OffsetIn(fields, lay.prefix, lay.prefix[p])
                        /\ Len(s.bytes) = Size(fields[lay.prefix[p]])
      BY <2>3
    <3>2. Full(around, RunBytes(fields, lay.prefix)) /\ Holding(around, len)
      BY <1>5, <1>7, <2>1, <2>2, <3>1, AroundFull
    <3> QED
      BY <3>2 DEF Holding
  <2>6. ASSUME around.late = "none" PROVE Covers(set, 0, front)
    <3>1. Covers(set, 0, at)
      BY <2>5, <2>6 DEF Full, at
    <3>2. hook \in set
      BY <1>7, <2>5, <2>6
    <3> HIDE DEF set
    <3>3. Covers(set, at, front)
      <4>1. ASSUME NEW k \in at + 1 .. front PROVE Holds(hook, k)
        BY <1>2, <1>3, <1>5, <1>6 DEF Holds
      <4> QED
        BY <3>2, <4>1 DEF Covers
    <3>4. Covers(set \cup set, 0, front)
      <4>1. 0 \in Nat
        OBVIOUS
      <4> QED
        BY <1>2, <1>5, <3>1, <3>3, <4>1, CoversMore
    <3>5. set \cup set = set
      OBVIOUS
    <3> QED
      BY <3>4, <3>5
  <2> QED
    BY <2>4, <2>6 DEF Full, set
<1> HIDE DEF around
<1>9. Full(r, r.used)
  BY <1>1, <1>4, <1>5, <1>8, ArmFull
<1> QED
  BY <1>9 DEF r

\* A segment of a struct with several regions.
LEMMA RegionFull ==
    ASSUME NEW fields, NEW c, Whole(fields, c), NEW seg \in RSegs, RSegWell(fields, seg), SegmentHolds(fields, c, seg)
    PROVE  Full(RegionPlan(fields, c, seg), RegionBytes(fields, c, seg))
<1> DEFINE room == RegionBytes(fields, c, seg)
<1>1. Filled(fields, c) /\ fields \in Seq(Items) /\ Sized(fields)
      /\ \A i \in 1 .. Len(fields) : ItemWell(fields[i], i) /\ ItemHolds(fields[i], c[i])
  BY WholeFilled, FilledSized
<1>2. seg.k \in {"run", "bytes", "union"}
  BY DEF RSegs
<1>3. ASSUME NEW run, FixedRun(fields, Len(fields), run)
      PROVE  run \in Seq(1 .. Len(fields)) /\ Laid(fields, run)
             /\ \A p \in 1 .. Len(run) : fields[run[p]].kind \in SizedKinds
  <2>1. run \in Seq(1 .. Len(fields)) /\ Ascending(run)
    BY <1>3 DEF FixedRun
  <2>2. Laid(fields, run)
    BY <1>1, <2>1, AscendingLaid
  <2> QED
    BY <1>3, <2>1, <2>2, FixedIsSized DEF FixedRun
<1>4. CASE seg.k = "run"
  <2> DEFINE run == seg.fields
             but == {}
             set == SetOf(RunStores(fields, c, run, but))
  <2>1. room = RunBytes(fields, run) /\ RegionPlan(fields, c, seg) = Plan(0, RunStores(fields, c, run, but))
    BY <1>4 DEF RegionNeed, RegionBytes, RegionPlan
  <2>2. /\ run \in Seq(1 .. Len(fields)) /\ Laid(fields, run)
        /\ \A p \in 1 .. Len(run) : fields[run[p]].kind \in SizedKinds
    BY <1>3, <1>4 DEF RSegWell
  <2>3. \A p \in 1 .. Len(run) : run[p] \in but =>
            \E s \in set : s.at = OffsetIn(fields, run, run[p]) /\ Len(s.bytes) = Size(fields[run[p]])
    OBVIOUS
  <2>4. SetOf(RunStores(fields, c, run, but)) \subseteq set
    OBVIOUS
  <2> HIDE DEF set, but
  <2>5. Covers(set, 0, RunBytes(fields, run))
    BY <1>1, <2>2, <2>3, <2>4, LaidButSome
  <2>6. Plan(0, RunStores(fields, c, run, but)).stores = RunStores(fields, c, run, but)
    BY DEF Plan
  <2> QED
    BY <2>1, <2>5, <2>6 DEF Full, set
<1>5. CASE seg.k = "bytes"
  <2> DEFINE v == c[seg.item]
             w == Prefixed(v)
  <2>1. v \in Bytes /\ (fields[seg.item].write = "encode" => Len(v) <= MaxByte)
    BY <1>5 DEF SegmentHolds
  <2>2. CASE fields[seg.item].write = "encode"
    <3>1. room = Len(w) /\ RegionPlan(fields, c, seg) = Plan(0, <<HookStore(0, w)>>)
      BY <1>5, <2>2 DEF RegionBytes, RegionPlan
    <3>2. w \in Bytes
      <4> HIDE DEF v
      <4>1. Len(v) \in Nat
        BY <2>1 DEF Bytes
      <4>2. Len(v) \in Byte
        BY <2>1, <2>2, <4>1, BaseAssumption DEF Byte, MaxByte
      <4>3. <<Len(v)>> \in Bytes
        BY <4>2 DEF Bytes
      <4> QED
        BY <2>1, <4>3 DEF Prefixed, Bytes
    <3> HIDE DEF w, room
    <3>3. Covers(SetOf(<<HookStore(0, w)>>), 0, Len(w))
      BY <3>2, WholeStore
    <3>4. Plan(0, <<HookStore(0, w)>>).stores = <<HookStore(0, w)>>
      BY DEF Plan
    <3>5. Full(RegionPlan(fields, c, seg), room)
      BY <3>1, <3>3, <3>4 DEF Full
    <3> QED
      BY <3>5 DEF room
  <2>3. CASE fields[seg.item].write # "encode"
    <3>1. room = Len(v) /\ RegionPlan(fields, c, seg) = Plan(0, <<Store(0, v)>>)
      BY <1>5, <2>3 DEF RegionBytes, RegionNeed, RegionPlan
    <3> HIDE DEF v, room
    <3>2. Covers(SetOf(<<Store(0, v)>>), 0, Len(v))
      BY <2>1, WholeStore
    <3>3. Plan(0, <<Store(0, v)>>).stores = <<Store(0, v)>>
      BY DEF Plan
    <3>4. Full(RegionPlan(fields, c, seg), room)
      BY <3>1, <3>2, <3>3 DEF Full
    <3> QED
      BY <3>4 DEF room
  <2> QED
    BY <2>2, <2>3
<1>6. CASE seg.k = "union"
  <2> DEFINE lay == [region |-> seg.item, prefix |-> seg.fields, bodies |-> seg.bodies]
  <2>1. lay.region = seg.item /\ lay.prefix = seg.fields /\ lay.bodies = seg.bodies
    OBVIOUS
  <2>2. /\ seg.item \in 1 .. Len(fields) /\ fields[seg.item].kind = "union"
        /\ FixedRun(fields, Len(fields), seg.fields)
        /\ seg.bodies = UnionLayout(fields, fields[seg.item], seg.fields, TRUE)
        /\ seg.bodies # <<>>
        /\ \E p \in 1 .. Len(seg.fields) :
              seg.fields[p] = fields[seg.item].len.of /\ IsNumber(fields[seg.fields[p]])
    BY <1>6 DEF RSegWell
  <2>3. UnionHolds(seg.bodies, c[seg.item])
    BY <1>6 DEF SegmentHolds
  <2>4. UnionIn(fields, c, seg.item, seg.fields, seg.bodies) /\ Laid(fields, seg.fields)
    <3>1. seg.fields \in Seq(1 .. Len(fields)) /\ Laid(fields, seg.fields)
          /\ \A p \in 1 .. Len(seg.fields) : fields[seg.fields[p]].kind \in SizedKinds
      BY <1>3, <2>2
    <3>2. TRUE \in BOOLEAN
      OBVIOUS
    <3> QED
      BY <1>1, <2>2, <2>3, <3>1, <3>2 DEF UnionIn
  <2>5. room = RunBytes(fields, seg.fields) + BodyPlan(fields[seg.item], seg.bodies, c[seg.item]).need
        /\ RegionPlan(fields, c, seg) = LenUnionPlan(fields, c, lay)
    BY <1>6, Zenon DEF RegionNeed, RegionBytes, RegionPlan
  <2> HIDE DEF lay, room
  <2>6. /\ InRoom(LenUnionPlan(fields, c, lay))
        /\ LenUnionPlan(fields, c, lay).need
             = RunBytes(fields, seg.fields) + BodyPlan(fields[seg.item], seg.bodies, c[seg.item]).need
    BY <2>1, <2>2, <2>4, LenUnionPlanFits
  <2>7. Full(LenUnionPlan(fields, c, lay), LenUnionPlan(fields, c, lay).used)
    BY <2>1, <2>2, <2>4, LenUnionFull
  <2>8. Full(RegionPlan(fields, c, seg), room)
    BY <2>5, <2>6, <2>7 DEF InRoom
  <2> QED
    BY <2>8 DEF room
<1> QED
  BY <1>2, <1>4, <1>5, <1>6

LEMMA MultiRegionFull ==
    ASSUME NEW fields, NEW c, Whole(fields, c), NEW lay, lay.segs \in Seq(RSegs),
           \A k \in 1 .. Len(lay.segs) : RSegWell(fields, lay.segs[k]) /\ SegmentHolds(fields, c, lay.segs[k])
    PROVE  Full(MultiRegionPlan(fields, c, lay), MultiRegionPlan(fields, c, lay).used)
<1> DEFINE segs == lay.segs
           N == Len(segs)
           sizes == RegionSizes(fields, c, segs)
           needs == RegionNeeds(fields, c, segs)
           parts == RegionParts(fields, c, segs)
           need == Total(needs, N)
           room == Total(sizes, N)
           r == MultiRegionPlan(fields, c, lay)
<1>1. N \in Nat /\ N \in 0 .. N /\ \A n \in 1 .. N : segs[n] \in RSegs
  OBVIOUS
<1>2. /\ \A n \in 1 .. N : sizes[n] \in Nat /\ parts[n] \in Plans(sizes[n]) /\ needs[n] \in Nat
      /\ \A n \in 1 .. N : sizes[n] = RegionBytes(fields, c, segs[n]) /\ parts[n] = RegionPlan(fields, c, segs[n])
      /\ \E upto : Chain(parts, sizes, N, need, upto) /\ r = [upto[N] EXCEPT !.used = room]
  BY RegionsChained
<1>3. r.used = room
  BY MultiRegionFits
<1> HIDE DEF sizes, needs, parts, r
<1>4. ASSUME NEW n \in 1 .. N PROVE Full(parts[n], sizes[n])
  <2>1. segs[n] \in RSegs /\ RSegWell(fields, segs[n]) /\ SegmentHolds(fields, c, segs[n])
    BY <1>1
  <2>2. Full(RegionPlan(fields, c, segs[n]), RegionBytes(fields, c, segs[n]))
    BY <2>1, RegionFull
  <2> QED
    BY <1>2, <2>2
<1>5. need \in Nat
  <2> HIDE DEF N
  <2> QED
    BY <1>1, <1>2, TotalSteps
<1>6. PICK upto : Chain(parts, sizes, N, need, upto) /\ r = [upto[N] EXCEPT !.used = room]
  BY <1>2
<1>7. Full(upto[N], room) /\ upto[N] \in Plans(room)
  <2> HIDE DEF N, need
  <2>1. Full(upto[N], Total(sizes, N))
    BY <1>1, <1>2, <1>4, <1>5, <1>6, ChainFull
  <2>2. upto[N] \in ChainOf(Total(sizes, N), need)
    BY <1>1, <1>2, <1>5, <1>6, ChainFits
  <2> QED
    BY <2>1, <2>2 DEF ChainOf
<1>8. r.late = upto[N].late /\ r.stores = upto[N].stores
  <2> DEFINE p == upto[N]
  <2> HIDE DEF p, room
  <2> QED
    BY <1>6, <1>7 DEF Plans, p
<1>9. Full(r, r.used)
  BY <1>3, <1>7, <1>8 DEF Full
<1> QED
  BY <1>9 DEF r

-----------------------------------------------------------------------------
(* What a call keeps of the packet.                                        *)

\* The bytes that write_into stores, and which of them are there.
Packet == StoredAll(Zeroes(plan.used), plan.stores)
Fresh(k) == k <= Len(buffer) /\ buffer[k] = Packet[k]
Queued(k) == \E n \in 1 .. Len(todo) : Holds(todo[n], k)

Clean == Writable /\ ~(by = "new" /\ layout.shape = "FixedPadded")

\* write_into and to_vec: the stores to come make the packet.
Sequential ==
    \A k \in 1 .. plan.used :
        /\ k <= Len(buffer) \/ Queued(k)
        /\ k <= Len(buffer) => StoredAll(buffer, todo)[k] = Packet[k]

\* The setters: each of the stores to come makes its part of it.
Free ==
    \A k \in 1 .. plan.used :
        /\ Fresh(k) \/ Queued(k)
        /\ \A n \in 1 .. Len(todo) : Holds(todo[n], k) => ByteOf(todo[n], k) = Packet[k]

\* Plans whose stores may be made in any order.
Separate == {"Fixed", "DynamicTail", "DynamicTailHook", "DynamicTailOpen", "Forward"}

PlanInOrder ==
    plan.early = "none" /\ plan.late = "none" =>
        Complete(plan) /\ (layout.shape \in Separate => Agree(SetOf(plan.stores)))

CallClean ==
    /\ call = "busy" /\ by # "new" => Sequential
    /\ call = "busy" /\ by = "new" => Free
    /\ call = "busy" /\ by = "to_vec" /\ layout.shape \notin Cutting => Len(buffer) = plan.used
    /\ result.is \in {"ok", "vec"} =>
          /\ result.used \in Nat /\ result.used <= plan.used
          /\ \A k \in 1 .. result.used : Fresh(k)

CleanInv ==
    IF call = "edited" THEN NoStaleBytes ELSE PlanInOrder /\ (Clean => CallClean)

\* Bytes that are the packet's one by one.
LEMMA SamePrefix ==
    ASSUME NEW a, NEW b, NEW n \in Nat, \A k \in 1 .. n : a[k] = b[k]
    PROVE  SubSeq(a, 1, n) = SubSeq(b, 1, n)
<1> DEFINE S == {a[k] : k \in 1 .. n}
<1>1. (\A k \in 1 .. n : a[k] \in S) /\ (\A k \in 1 .. n : b[k] \in S)
  OBVIOUS
<1> HIDE DEF S
<1>2. /\ SubSeq(a, 1, n) \in Seq(S) /\ Len(SubSeq(a, 1, n)) = IF 1 <= n THEN n - 1 + 1 ELSE 0
      /\ \A k \in 1 .. n - 1 + 1 : SubSeq(a, 1, n)[k] = a[1 + k - 1]
  BY <1>1, SubSeqProperties
<1>3. /\ SubSeq(b, 1, n) \in Seq(S) /\ Len(SubSeq(b, 1, n)) = IF 1 <= n THEN n - 1 + 1 ELSE 0
      /\ \A k \in 1 .. n - 1 + 1 : SubSeq(b, 1, n)[k] = b[1 + k - 1]
  BY <1>1, SubSeqProperties
<1> DEFINE u == SubSeq(a, 1, n)
           v == SubSeq(b, 1, n)
<1>4. Len(u) = n /\ Len(v) = n
  BY <1>2, <1>3
<1>5. \A k \in 1 .. n : u[k] = v[k]
  BY <1>2, <1>3
<1>6. u \in Seq(S) /\ v \in Seq(S)
  BY <1>2, <1>3
<1> HIDE DEF u, v
<1>7. u = v
  BY <1>4, <1>5, <1>6
<1> QED
  BY <1>7 DEF u, v

LEMMA CleanIsNoStale ==
    ASSUME CleanInv
    PROVE  NoStaleBytes
<1>1. CASE call = "edited"
  BY <1>1 DEF CleanInv
<1>2. CASE call # "edited"
  <2> SUFFICES ASSUME Success, Clean
               PROVE  SubSeq(buffer, 1, result.used) = SubSeq(Packet, 1, result.used)
    BY DEF NoStaleBytes, Clean, Packet
  <2>1. result.used \in Nat /\ \A k \in 1 .. result.used : buffer[k] = Packet[k]
    BY <1>2 DEF CleanInv, CallClean, Success, Fresh
  <2> QED
    BY <2>1, SamePrefix
<1> QED
  BY <1>1, <1>2

\* A step of a call leaves the packet alone.
LEMMA CleanStays ==
    ASSUME PlanInOrder, UNCHANGED struct
    PROVE  /\ PlanInOrder' /\ Packet' = Packet /\ plan' = plan /\ layout' = layout
           /\ by' = by => (Clean' <=> Clean)
<1>1. plan' = plan /\ layout' = layout /\ items' = items
  BY DEF struct
<1> QED
  BY <1>1 DEF PlanInOrder, Complete, Packet, Clean, Writable

\* A call has its plan's stores before it.
LEMMA StartsInOrder ==
    ASSUME StructInv, PlanInOrder, plan.early = "none", plan.late = "none",
           NEW bytes \in Bytes, NEW k \in 1 .. plan.used
    PROVE  /\ \E n \in 1 .. Len(plan.stores) : Holds(plan.stores[n], k)
           /\ k <= Len(bytes) => StoredAll(bytes, plan.stores)[k] = Packet[k]
<1>1. plan.used \in Nat /\ plan.stores \in Within(plan.used)
  BY PlanInv
<1>2. \E s \in SetOf(plan.stores) : Holds(s, k)
  BY <1>1 DEF PlanInOrder, Complete, Covers
<1>3. Zeroes(plan.used) \in Bytes /\ Len(Zeroes(plan.used)) = plan.used
  BY <1>1, ZeroesType
<1>4. ASSUME k <= Len(bytes) PROVE StoredAll(bytes, plan.stores)[k] = Packet[k]
  <2>1. k \in 1 .. Len(bytes) /\ k \in 1 .. Len(Zeroes(plan.used))
    BY <1>1, <1>3, <1>4 DEF Bytes
  <2> QED
    BY <1>1, <1>2, <1>3, <2>1, SameStores DEF Packet
<1> QED
  BY <1>2, <1>4 DEF SetOf

LEMMA StartClean ==
    ASSUME WriterInv, CleanInv, WriteInto \/ ToVec
    PROVE  CleanInv'
<1>1. /\ call = "free" /\ call' = "busy" /\ StructInv /\ CallInv /\ UNCHANGED struct /\ PlanInOrder
      /\ todo' = plan.stores /\ by' \in {"write_into", "to_vec"} /\ result' = result
  BY DEF WriteInto, ToVec, WriterInv, CleanInv
<1>2. result'.is = "none"
  BY <1>1 DEF CallInv, Pending, Result
<1>3. plan' = plan /\ layout' = layout /\ PlanInOrder' /\ Packet' = Packet
  BY <1>1, CleanStays
<1>4. plan.used \in Nat /\ plan.need \in Nat
  BY <1>1, PlanInv
<1>5. buffer' \in Bytes /\ (by' = "to_vec" /\ layout.shape \notin Cutting => Len(buffer') = plan.used)
  <2>1. CASE WriteInto
    BY <1>1, <2>1 DEF CallInv, WriteInto
  <2>2. CASE ToVec
    <3> DEFINE n == IF layout.shape = "ContentHookNoWidth" THEN FirstCap ELSE plan.need
    <3>1. n \in Nat
      BY <1>4, BuffersAssumption
    <3>2. buffer' = Zeroes(n)
      BY <2>2 DEF ToVec
    <3>3. layout.shape \notin Cutting => n = plan.used
      <4> SUFFICES ASSUME layout.shape \notin Cutting PROVE n = plan.used
        OBVIOUS
      <4>1. RoomCounted(items, layout) /\ layout.shape # "ContentHookNoWidth"
        BY DEF Cutting, RoomCounted
      <4>2. plan.need = plan.used
        BY <1>1, <4>1, PlanRoom
      <4> QED
        BY <4>1, <4>2
    <3> HIDE DEF n
    <3>4. buffer' \in Bytes /\ Len(buffer') = n
      BY <3>1, <3>2, ZeroesType
    <3> QED
      BY <3>3, <3>4
  <2> QED
    BY <1>1, <2>1, <2>2
<1>6. ASSUME Clean' PROVE Sequential'
  <2>1. plan.early = "none" /\ plan.late = "none"
    BY <1>3, <1>6 DEF Clean, Writable
  <2>3. ASSUME NEW k \in 1 .. plan.used
        PROVE  /\ k <= Len(buffer') \/ Queued(k)'
               /\ k <= Len(buffer') => StoredAll(buffer', todo')[k] = Packet'[k]
    <3>1. /\ \E n \in 1 .. Len(plan.stores) : Holds(plan.stores[n], k)
          /\ k <= Len(buffer') => StoredAll(buffer', plan.stores)[k] = Packet[k]
      <4>1. PICK b \in Bytes : b = buffer'
        BY <1>5
      <4>2. /\ \E n \in 1 .. Len(plan.stores) : Holds(plan.stores[n], k)
            /\ k <= Len(b) => StoredAll(b, plan.stores)[k] = Packet[k]
        BY <1>1, <2>1, StartsInOrder
      <4> QED
        BY <4>1, <4>2
    <3> QED
      BY <1>1, <1>3, <3>1 DEF Queued
  <2> QED
    BY <1>3, <2>3 DEF Sequential
<1>7. ASSUME Clean' PROVE CallClean'
  BY <1>1, <1>2, <1>3, <1>5, <1>6, <1>7 DEF CallClean
<1> QED
  BY <1>1, <1>3, <1>7 DEF CleanInv

LEMMA NothingStored ==
    ASSUME NEW bytes
    PROVE  StoredAll(bytes, <<>>) = bytes
<1> DEFINE none == <<>>
           is(after) == after = [n \in 0 .. Len(none) |->
                                   IF n = 0 THEN bytes ELSE Stored(after[n - 1], none[n])]
           zero == [n \in 0 .. 0 |-> bytes]
<1>1. Len(none) = 0
  OBVIOUS
<1>2. StoredAll(bytes, none) = (CHOOSE after : is(after))[Len(none)]
  BY Zenon DEF StoredAll
<1>3. is(zero)
  <2>1. \A n \in 0 .. 0 : (IF n = 0 THEN bytes ELSE Stored(zero[n - 1], none[n])) = bytes
    OBVIOUS
  <2> QED
    BY <1>1, <2>1
<1> HIDE DEF is, zero
<1>4. is(CHOOSE after : is(after))
  BY <1>3
<1>5. (CHOOSE after : is(after))[0] = bytes
  BY <1>1, <1>4 DEF is
<1> QED
  BY <1>1, <1>2, <1>5

\* The return of a call that has made the packet, or shows nothing of it.
LEMMA ReturnClean ==
    ASSUME WriterInv, CleanInv, call = "busy", NEW is, NEW used, Return(is, used), UNCHANGED <<struct, by>>,
           is # "vec",
           is = "ok" => used = plan.used,
           is = "ok" /\ Clean => \A k \in 1 .. plan.used : Fresh(k),
           is # "ok" /\ is # "panic" /\ by = "to_vec" /\ layout.shape \notin Cutting => ~Clean
    PROVE  CleanInv'
<1>1. StructInv /\ CallInv /\ UNCHANGED struct /\ by' = by /\ PlanInOrder
  BY DEF WriterInv, CleanInv
<1>2. /\ PlanInOrder' /\ Packet' = Packet /\ plan' = plan /\ layout' = layout
      /\ Clean' <=> Clean
  BY <1>1, CleanStays
<1>3. /\ plan.used \in Nat /\ buffer \in Bytes /\ result = Pending /\ Pending.is = "none"
      /\ Len(buffer) \in Nat
  BY <1>1, PlanInv DEF CallInv, Bytes, Pending, Result
<1>4. Clean => CallClean
  BY DEF CleanInv
<1>5. CASE is = "panic" \/ by # "to_vec"
  <2>1. result' = Result(is, used) /\ call' = "returned" /\ buffer' = buffer
    BY <1>5 DEF Return
  <2>2. result'.is = is /\ result'.used = used
    BY <2>1 DEF Result
  <2>3. ASSUME Clean PROVE CallClean'
    <3>1. is = "ok" => \A k \in 1 .. plan.used : Fresh(k)'
      BY <1>2, <2>1, <2>3 DEF Fresh
    <3> QED
      BY <1>2, <1>3, <2>1, <2>2, <3>1 DEF CallClean
  <2> QED
    BY <1>2, <2>1, <2>3 DEF CleanInv
<1>6. CASE /\ is # "panic" /\ by = "to_vec"
           /\ layout.shape = "ContentHookNoWidth" /\ Grow
  <2>1. /\ buffer' = Zeroes(2 * Len(buffer)) /\ todo' = plan.stores
        /\ call' = call /\ result' = result
    BY <1>6 DEF Grow
  <2>2. 2 * Len(buffer) \in Nat
    BY <1>3
  <2>3. buffer' \in Bytes
    BY <2>1, <2>2, ZeroesType
  <2>4. ASSUME Clean PROVE Sequential'
    <3>1. plan.early = "none" /\ plan.late = "none"
      BY <2>4 DEF Clean, Writable
    <3>2. ASSUME NEW k \in 1 .. plan.used
          PROVE  /\ k <= Len(buffer') \/ Queued(k)'
                 /\ k <= Len(buffer') => StoredAll(buffer', todo')[k] = Packet'[k]
      <4>1. PICK b \in Bytes : b = buffer'
        BY <2>3
      <4>2. /\ \E n \in 1 .. Len(plan.stores) : Holds(plan.stores[n], k)
            /\ k <= Len(b) => StoredAll(b, plan.stores)[k] = Packet[k]
        BY <1>1, <3>1, StartsInOrder
      <4> QED
        BY <1>2, <2>1, <4>1, <4>2 DEF Queued
    <3> QED
      BY <1>2, <3>2 DEF Sequential
  <2>5. layout.shape \in Cutting
    BY <1>6 DEF Cutting
  <2>6. ASSUME Clean PROVE CallClean'
    BY <1>1, <1>2, <1>3, <1>6, <2>1, <2>4, <2>5, <2>6 DEF CallClean
  <2> QED
    BY <1>2, <2>1, <2>6 DEF CleanInv
<1>7. CASE is # "panic" /\ by = "to_vec" /\ Vector(is, used)
  <2> DEFINE end == IF is = "ok" THEN used ELSE 0
             cut == IF layout.shape \notin Cutting THEN buffer ELSE SubSeq(buffer, 1, end)
  <2>1. buffer' = cut /\ result' = Result("vec", Len(cut)) /\ call' = "returned"
    BY <1>7 DEF Vector
  <2>2. result'.is = "vec" /\ result'.used = Len(cut)
    BY <2>1 DEF Result
  <2>3. CASE layout.shape \notin Cutting
    <3>1. cut = buffer
      BY <2>3
    <3> HIDE DEF cut
    <3>2. ASSUME Clean PROVE CallClean'
      <4>1. Len(buffer) = plan.used /\ is = "ok"
        BY <1>4, <1>7, <2>3, <3>2 DEF CallClean
      <4>2. \A k \in 1 .. plan.used : Fresh(k)'
        BY <1>2, <2>1, <3>1, <3>2, <4>1 DEF Fresh
      <4> QED
        BY <1>2, <1>3, <2>1, <2>2, <3>1, <4>1, <4>2 DEF CallClean
    <3> QED
      BY <1>2, <2>1, <3>2 DEF CleanInv
  <2>4. CASE layout.shape \in Cutting
    <3>1. end \in Nat /\ end <= plan.used
      BY <1>3
    <3>2. Len(cut) = end /\ \A k \in 1 .. end : cut[k] = buffer[k]
      <4> DEFINE S == {buffer[m] : m \in 1 .. end}
      <4>1. \A j \in 1 .. end : buffer[j] \in S
        OBVIOUS
      <4>2. cut = SubSeq(buffer, 1, end)
        BY <2>4
      <4> HIDE DEF end, cut, S
      <4>3. /\ Len(SubSeq(buffer, 1, end)) = IF 1 <= end THEN end - 1 + 1 ELSE 0
            /\ \A k \in 1 .. end - 1 + 1 : SubSeq(buffer, 1, end)[k] = buffer[1 + k - 1]
        BY <3>1, <4>1, SubSeqProperties
      <4> QED
        BY <3>1, <4>2, <4>3
    <3>3. end # 0 => is = "ok"
      OBVIOUS
    <3> HIDE DEF end, cut
    <3>4. ASSUME Clean PROVE CallClean'
      <4>1. ASSUME NEW k \in 1 .. end PROVE Fresh(k)'
        <5>1. Fresh(k)
          BY <1>3, <3>1, <3>3, <3>4, <4>1
        <5> QED
          BY <1>2, <2>1, <3>1, <3>2, <5>1 DEF Fresh
      <4> QED
        BY <1>2, <2>1, <2>2, <3>1, <3>2, <4>1 DEF CallClean
    <3> QED
      BY <1>2, <2>1, <3>4 DEF CleanInv
  <2> QED
    BY <2>3, <2>4
<1> QED
  BY <1>5, <1>6, <1>7 DEF Return

LEMMA RefuseClean ==
    ASSUME WriterInv, CleanInv, Refuse
    PROVE  CleanInv'
<1> DEFINE is == Refusal(Len(buffer))
<1>1. call = "busy" /\ by # "new" /\ is # "none" /\ Return(is, 0) /\ UNCHANGED <<struct, by>>
  BY DEF Refuse, Writing
<1>2. StructInv /\ CallInv
  BY <1>1 DEF WriterInv
<1>3. plan.early \in Starts /\ plan.need \in Nat /\ plan.need <= plan.used /\ plan.used \in Nat
  BY <1>2, PlanInv
<1>4. is \notin {"vec", "ok"}
  BY <1>3 DEF Refusal, Starts, Errors
<1>5. ASSUME by = "to_vec", layout.shape \notin Cutting, Clean PROVE FALSE
  <2>1. plan.early = "none" /\ Len(buffer) = plan.used
    BY <1>1, <1>5 DEF Clean, Writable, CleanInv, CallClean
  <2> QED
    BY <1>1, <1>3, <2>1 DEF Refusal
<1> HIDE DEF is
<1> QED
  BY <1>1, <1>4, <1>5, ReturnClean

LEMMA PutClean ==
    ASSUME WriterInv, CleanInv, Put
    PROVE  CleanInv'
<1>1. /\ call = "busy" /\ by # "new" /\ StructInv /\ CallInv /\ PlanInOrder /\ todo # <<>>
      /\ buffer' = Stored(buffer, Head(todo)) /\ todo' = Tail(todo) /\ InRange(buffer, Head(todo))
      /\ UNCHANGED struct /\ by' = by /\ call' = call /\ result' = result
  BY DEF WriterInv, Put, Accepted, Writing, CleanInv
<1>2. /\ PlanInOrder' /\ Packet' = Packet /\ plan' = plan /\ layout' = layout
      /\ Clean' <=> Clean
  BY <1>1, CleanStays
<1>3. plan.used \in Nat /\ todo \in Within(plan.used) /\ buffer \in Bytes /\ Len(buffer) \in Nat
      /\ result = Pending /\ Pending.is = "none"
  BY <1>1, PlanInv DEF CallInv, Bytes, Pending, Result
<1>4. /\ Head(todo) \in Placed(plan.used) /\ Head(todo) = todo[1]
      /\ Tail(todo) \in Within(plan.used) /\ Len(Tail(todo)) = Len(todo) - 1 /\ Len(todo) \in Nat
      /\ \A n \in 1 .. Len(todo) - 1 : Tail(todo)[n] = todo[n + 1]
  BY <1>1, <1>3 DEF Within
<1>5. Len(buffer') = Len(buffer)
  BY <1>1, <1>3 DEF Bytes, Stored
<1>6. ASSUME Clean, NEW k \in 1 .. plan.used
      PROVE  /\ k <= Len(buffer') \/ Queued(k)'
             /\ k <= Len(buffer') => StoredAll(buffer', todo')[k] = Packet'[k]
  <2>1. /\ k <= Len(buffer) \/ Queued(k)
        /\ k <= Len(buffer) => StoredAll(buffer, todo)[k] = Packet[k]
    BY <1>1, <1>6 DEF CleanInv, CallClean, Sequential
  <2>2. ASSUME k <= Len(buffer) PROVE StoredAll(buffer', todo')[k] = Packet'[k]
    <3>1. k \in 1 .. Len(buffer)
      BY <1>3, <2>2
    <3>2. StoredAll(Stored(buffer, Head(todo)), Tail(todo))[k] = StoredAll(buffer, todo)[k]
      BY <1>1, <1>3, <3>1, FirstStored
    <3> QED
      BY <1>1, <1>2, <2>1, <2>2, <3>2
  <2>3. ASSUME ~(k <= Len(buffer)) PROVE Queued(k)'
    <3>1. PICK n \in 1 .. Len(todo) : Holds(todo[n], k)
      BY <2>1, <2>3 DEF Queued
    <3>2. n # 1
      <4> SUFFICES ASSUME n = 1 PROVE FALSE
        OBVIOUS
      <4>1. PICK at \in Nat, e \in Nat : at = Head(todo).at /\ e = at + Len(Head(todo).bytes)
        BY <1>4 DEF Placed, Bytes
      <4>2. e <= Len(buffer) /\ k <= e
        BY <1>1, <1>4, <3>1, <4>1 DEF InRange, Holds
      <4> QED
        BY <1>3, <2>3, <4>1, <4>2
    <3>3. n - 1 \in 1 .. Len(Tail(todo)) /\ Tail(todo)[n - 1] = todo[n]
      BY <1>4, <3>2
    <3> QED
      BY <1>1, <3>1, <3>3 DEF Queued
  <2> QED
    BY <1>5, <2>2, <2>3
<1>7. ASSUME Clean PROVE CallClean'
  <2>1. Sequential'
    BY <1>2, <1>6, <1>7 DEF Sequential
  <2>2. CallClean
    BY <1>1, <1>7 DEF CleanInv
  <2> QED
    BY <1>1, <1>2, <1>3, <1>5, <2>1, <2>2 DEF CallClean
<1> QED
  BY <1>1, <1>2, <1>7 DEF CleanInv

LEMMA EndClean ==
    ASSUME WriterInv, CleanInv, OutOfRange \/ Finish \/ Built
    PROVE  CleanInv'
<1>1. call = "busy" /\ StructInv /\ CallInv /\ UNCHANGED <<struct, by>>
  BY DEF WriterInv, OutOfRange, Finish, Built, Accepted, Writing
<1>2. plan.late \in Errors /\ plan.used \in Nat /\ todo \in Within(plan.used)
  BY <1>1, PlanInv DEF CallInv
<1>3. CASE OutOfRange
  <2>1. /\ Return(IF Head(todo).hook THEN "NotEnoughSpace" ELSE "panic", 0) /\ by # "new"
        /\ todo # <<>> /\ ~InRange(buffer, Head(todo))
    BY <1>3 DEF OutOfRange, Accepted, Writing
  <2> DEFINE is == IF Head(todo).hook THEN "NotEnoughSpace" ELSE "panic"
  <2>2. is \notin {"ok", "vec"} /\ Return(is, 0)
    BY <2>1
  <2> HIDE DEF is
  <2>3. ASSUME by = "to_vec", layout.shape \notin Cutting, Clean PROVE FALSE
    <3>1. Len(buffer) = plan.used
      BY <1>1, <2>3 DEF CleanInv, CallClean
    <3>2. Head(todo) \in Placed(plan.used)
      BY <1>2, <2>1, SomeStores DEF Within
    <3> QED
      BY <2>1, <3>1, <3>2 DEF InRange, Placed
  <2> QED
    BY <1>1, <2>2, <2>3, ReturnClean
<1>4. CASE Finish
  <2>1. todo = <<>> /\ by # "new"
    BY <1>4 DEF Finish, Accepted, Writing
  <2>2. CASE plan.late = "none"
    <3>1. Return("ok", plan.used)
      BY <1>4, <2>2 DEF Finish
    <3>2. ASSUME Clean, NEW k \in 1 .. plan.used PROVE Fresh(k)
      <4>1. /\ k <= Len(buffer) \/ Queued(k)
            /\ k <= Len(buffer) => StoredAll(buffer, todo)[k] = Packet[k]
        BY <1>1, <2>1, <3>2 DEF CleanInv, CallClean, Sequential
      <4>2. StoredAll(buffer, <<>>) = buffer
        BY NothingStored
      <4>3. ~Queued(k)
        BY <2>1 DEF Queued
      <4> QED
        BY <2>1, <4>1, <4>2, <4>3 DEF Fresh
    <3> QED
      BY <1>1, <3>1, <3>2, ReturnClean
  <2>3. CASE plan.late # "none"
    <3>1. Return(plan.late, 0)
      BY <1>4, <2>3 DEF Finish
    <3>2. plan.late \notin {"ok", "vec"}
      BY <1>2 DEF Errors
    <3>3. ~Clean
      BY <2>3 DEF Clean, Writable
    <3> QED
      BY <1>1, <3>1, <3>2, <3>3, ReturnClean
  <2> QED
    BY <2>2, <2>3
<1>5. CASE Built
  <2>1. Return("ok", plan.used) /\ by = "new" /\ todo = <<>>
    BY <1>5 DEF Built
  <2>2. ASSUME Clean, NEW k \in 1 .. plan.used PROVE Fresh(k)
    <3>1. Fresh(k) \/ Queued(k)
      BY <1>1, <2>1, <2>2 DEF CleanInv, CallClean, Free
    <3> QED
      BY <2>1, <3>1 DEF Queued
  <2> QED
    BY <1>1, <2>1, <2>2, ReturnClean
<1> QED
  BY <1>3, <1>4, <1>5

\* Without constants the setters make all of the stores that new does not.
LEMMA NewSplit ==
    ASSUME StructInv, Settable, layout.shape # "FixedPadded", Consts(items) = {}
    PROVE  /\ NewStores \in Within(plan.used) /\ SetterStores \in Within(plan.used)
           /\ SetOf(plan.stores) = SetOf(NewStores) \cup SetOf(SetterStores)
<1>1. plan.used \in Nat /\ plan.stores \in Seq(Placed(plan.used))
  BY PlanInv DEF Within
<1>2. NewStores \in Within(plan.used) /\ SetterStores \in Within(plan.used)
  BY <1>1, NewStoresFit DEF Within
<1>3. layout.shape \notin {"Fixed", "DynamicTailOpen"} => plan.stores # <<>>
  BY PlanInv DEF Settable
<1>4. ConstantOffsets = {}
  <2>1. {j \in 1 .. Len(items) : items[j].kind = "const"} = {}
    BY DEF Consts
  <2> QED
    BY <2>1 DEF ConstantOffsets
<1> DEFINE own == OwnStores
           rest == SubSeq(plan.stores, own + 1, Len(plan.stores))
           kept == {rest[n] : n \in {m \in 1 .. Len(rest) : rest[m].at \notin ConstantOffsets}}
<1>5. SetterStores = Those(rest, kept)
  BY Zenon DEF SetterStores
<1>6. /\ own \in {0, 1}
      /\ own = 0 => NewStores = <<>>
      /\ own = 1 => NewStores = <<Head(plan.stores)>> /\ plan.stores # <<>>
  <2>1. CASE layout.shape \in {"Fixed", "DynamicTailOpen"}
    <3>1. NewStores = <<>>
      BY <2>1 DEF NewStores
    <3>2. own = 0
      BY <3>1 DEF OwnStores
    <3> QED
      BY <3>1, <3>2
  <2>2. CASE layout.shape \notin {"Fixed", "DynamicTailOpen"}
    <3>1. NewStores = <<Head(plan.stores)>> /\ plan.stores # <<>>
      BY <1>3, <2>2 DEF NewStores
    <3>2. own = 1
      BY <3>1 DEF OwnStores
    <3> QED
      BY <3>1, <3>2
  <2> QED
    BY <2>1, <2>2
<1>7. /\ rest \in Seq(Placed(plan.used))
      /\ own = 0 => Len(rest) = Len(plan.stores) /\ \A n \in 1 .. Len(rest) : rest[n] = plan.stores[n]
      /\ own = 1 => Len(rest) = Len(plan.stores) - 1 /\ \A n \in 1 .. Len(rest) : rest[n] = plan.stores[n + 1]
  <2>1. CASE own = 0
    <3>1. own + 1 = 1
      BY <2>1
    <3>2. rest \in Seq(Placed(plan.used))
      BY <1>1, <3>1, SomeStores
    <3>3. rest = SubSeq(plan.stores, 1, Len(plan.stores))
      BY <3>1
    <3>4. SubSeq(plan.stores, 1, Len(plan.stores)) = plan.stores
      BY <1>1
    <3> QED
      BY <2>1, <3>2, <3>3, <3>4
  <2>2. CASE own = 1
    <3>1. own + 1 = 2 /\ plan.stores # <<>>
      BY <1>6, <2>2
    <3>2. rest \in Seq(Placed(plan.used))
      BY <1>1, <3>1, SomeStores
    <3>3. rest = Tail(plan.stores)
      BY <1>1, <3>1
    <3> QED
      BY <1>1, <2>2, <3>1, <3>2, <3>3
  <2> QED
    BY <1>6, <2>1, <2>2
<1>8. \A n \in 1 .. Len(rest) : rest[n] \in kept
  BY <1>4
<1> HIDE DEF rest, kept, own
<1>9. SetterStores = rest
  BY <1>5, <1>7, <1>8, ThoseAll
<1>10. SetOf(plan.stores) = SetOf(NewStores) \cup SetOf(rest)
  <2>1. Len(plan.stores) \in Nat
    BY <1>1
  <2>2. CASE own = 0
    <3>1. SetOf(NewStores) = {}
      BY <1>6, <2>2 DEF SetOf
    <3>2. SetOf(rest) = SetOf(plan.stores)
      BY <1>7, <2>2 DEF SetOf
    <3> QED
      BY <3>1, <3>2
  <2>3. CASE own = 1
    <3>1. Head(plan.stores) = plan.stores[1] /\ Len(plan.stores) >= 1
      BY <1>1, <1>6, <2>3
    <3>2. SetOf(NewStores) = {plan.stores[1]}
      <4>1. NewStores = <<plan.stores[1]>>
        BY <1>6, <2>3, <3>1
      <4> QED
        BY <4>1, SetOfOne
    <3>3. \A n \in 1 .. Len(plan.stores) : n # 1 => n - 1 \in 1 .. Len(rest) /\ rest[n - 1] = plan.stores[n]
      BY <1>7, <2>1, <2>3
    <3>4. SetOf(plan.stores) \subseteq {plan.stores[1]} \cup SetOf(rest)
      BY <3>3 DEF SetOf
    <3>5. \A n \in 1 .. Len(rest) : n + 1 \in 1 .. Len(plan.stores) /\ rest[n] = plan.stores[n + 1]
      BY <1>7, <2>1, <2>3
    <3>6. {plan.stores[1]} \cup SetOf(rest) \subseteq SetOf(plan.stores)
      BY <3>1, <3>5, <2>1 DEF SetOf
    <3> QED
      BY <3>2, <3>4, <3>6
  <2> QED
    BY <1>6, <2>2, <2>3
<1> QED
  BY <1>2, <1>9, <1>10

LEMMA NewClean ==
    ASSUME WriterInv, CleanInv, New
    PROVE  CleanInv'
<1>1. /\ call = "free" /\ Settable /\ by' = "new" /\ StructInv /\ CallInv /\ PlanInOrder
      /\ UNCHANGED struct
  BY DEF WriterInv, New, CleanInv
<1>2. PlanInOrder' /\ Packet' = Packet /\ plan' = plan /\ layout' = layout /\ items' = items
  BY <1>1, CleanStays DEF struct
<1>3. /\ plan.used \in Nat /\ plan.need \in Nat /\ plan.early \in Starts /\ plan.stores \in Within(plan.used)
      /\ buffer \in Bytes /\ Len(buffer) \in Nat /\ result = Pending /\ Pending.is = "none"
  BY <1>1, PlanInv DEF CallInv, Bytes, Pending, Result
<1>4. CASE Refusal(Len(buffer)) # "none"
  <2>1. result' = Result(Refusal(Len(buffer)), 0) /\ call' = "returned" /\ buffer' = buffer
    BY <1>4 DEF New
  <2>2. result'.is \notin {"ok", "vec"}
    BY <1>3, <2>1 DEF Result, Refusal, Starts, Errors
  <2>3. CallClean'
    BY <2>1, <2>2 DEF CallClean
  <2> QED
    BY <1>2, <2>1, <2>3 DEF CleanInv
<1>5. CASE Refusal(Len(buffer)) = "none"
  <2>1. /\ buffer' = StoredAll(buffer, NewStores) /\ call' = "busy" /\ todo' = SetterStores
        /\ result' = result
    BY <1>5 DEF New
  <2>2. plan.need <= Len(buffer)
    BY <1>3, <1>5 DEF Refusal
  <2>3. ASSUME Clean' PROVE Free'
    <3>1. plan.early = "none" /\ plan.late = "none" /\ Consts(items) = {} /\ layout.shape # "FixedPadded"
      BY <1>1, <1>2, <2>3 DEF Clean, Writable, Consts
    <3>2. layout.shape \in Separate
      BY <1>1, <3>1 DEF Settable, Separate
    <3>3. Complete(plan) /\ Agree(SetOf(plan.stores))
      BY <1>1, <3>1, <3>2 DEF PlanInOrder
    <3>4. plan.used <= Len(buffer)
      <4>1. RoomCounted(items, layout) /\ layout.shape # "ContentHookNoWidth"
        BY <3>2 DEF RoomCounted, Separate
      <4> QED
        BY <1>1, <2>2, <4>1, PlanRoom
    <3>5. /\ NewStores \in Within(plan.used) /\ SetterStores \in Within(plan.used)
          /\ SetOf(plan.stores) = SetOf(NewStores) \cup SetOf(SetterStores)
      BY <1>1, <3>1, NewSplit
    <3>6. Agree(SetOf(NewStores))
      BY <3>3, <3>5 DEF Agree
    <3>7. Zeroes(plan.used) \in Bytes /\ Len(Zeroes(plan.used)) = plan.used
      BY <1>3, ZeroesType
    <3>8. Len(buffer') = Len(buffer)
      <4>1. buffer' \in Same(buffer, plan.used)
        BY <1>3, <2>1, <3>5, StoredAllSame
      <4> QED
        BY <4>1 DEF Same
    <3>9. ASSUME NEW k \in 1 .. plan.used, NEW s \in SetOf(plan.stores), Holds(s, k)
          PROVE  Packet[k] = ByteOf(s, k)
      BY <1>3, <3>3, <3>7, <3>9, AgreedByte DEF Packet
    <3>10. ASSUME NEW k \in 1 .. plan.used PROVE Fresh(k)' \/ Queued(k)'
      <4>1. PICK s \in SetOf(plan.stores) : Holds(s, k)
        BY <1>3, <3>3 DEF Complete, Covers
      <4>2. CASE s \in SetOf(NewStores)
        <5>1. k \in 1 .. Len(buffer)
          BY <1>3, <3>4
        <5>2. StoredAll(buffer, NewStores)[k] = ByteOf(s, k)
          BY <1>3, <3>5, <3>6, <4>1, <4>2, <5>1, AgreedByte
        <5>3. Packet[k] = ByteOf(s, k)
          BY <3>9, <4>1
        <5> QED
          BY <1>2, <2>1, <3>8, <5>1, <5>2, <5>3 DEF Fresh
      <4>3. CASE s \in SetOf(SetterStores)
        BY <2>1, <4>1, <4>3 DEF Queued, SetOf
      <4> QED
        BY <3>5, <4>2, <4>3
    <3>11. ASSUME NEW k \in 1 .. plan.used, NEW n \in 1 .. Len(todo'), Holds(todo'[n], k)
           PROVE  ByteOf(todo'[n], k) = Packet'[k]
      <4>1. SetterStores[n] \in SetOf(plan.stores)
        BY <2>1, <3>5 DEF SetOf
      <4>2. PICK s \in SetOf(plan.stores) : s = todo'[n]
        BY <2>1, <4>1
      <4> QED
        BY <1>2, <3>9, <3>11, <4>2
    <3> QED
      BY <1>2, <3>10, <3>11 DEF Free
  <2>4. ASSUME Clean' PROVE CallClean'
    BY <1>1, <1>2, <1>3, <2>1, <2>3, <2>4 DEF CallClean
  <2> QED
    BY <1>2, <2>1, <2>4 DEF CleanInv
<1> QED
  BY <1>4, <1>5

\* Another value first: what it leaves in the buffer is still to be overwritten.
LEMMA SetBeforeClean ==
    ASSUME WriterInv, CleanInv, SetBefore
    PROVE  CleanInv'
<1>1. /\ call = "busy" /\ by = "new" /\ StructInv /\ CallInv /\ PlanInOrder
      /\ UNCHANGED <<struct, by>>
  BY DEF WriterInv, SetBefore, CleanInv
<1>2. /\ PlanInOrder' /\ Packet' = Packet /\ plan' = plan /\ layout' = layout
      /\ Clean' <=> Clean
  BY <1>1, CleanStays
<1>3. /\ plan.used \in Nat /\ todo \in Seq(Placed(plan.used)) /\ buffer \in Bytes /\ Len(buffer) \in Nat
      /\ result = Pending /\ Pending.is = "none"
  BY <1>1, PlanInv DEF CallInv, Within, Bytes, Pending, Result
<1>4. PICK n \in 1 .. Len(todo), b \in Byte : SetterStep(Uniform(todo[n], b), todo)
  BY DEF SetBefore
<1>5. PICK s : s = Uniform(todo[n], b)
  OBVIOUS
<1>6. CASE InRange(buffer, s)
  <2>1. /\ buffer' = Stored(buffer, s) /\ todo' = todo
        /\ call' = call /\ result' = result
    BY <1>4, <1>5, <1>6 DEF SetterStep
  <2>2. /\ todo[n] \in Placed(plan.used) /\ s \in Placed(plan.used)
        /\ s.at = todo[n].at /\ Len(s.bytes) = Len(todo[n].bytes)
    <3>1. todo[n] \in Placed(plan.used)
      BY <1>3
    <3> QED
      BY <1>5, <3>1, UniformFits
  <2>3. ASSUME Clean PROVE Free'
    <3>1. Free
      BY <1>1, <2>3 DEF CleanInv, CallClean
    <3>2. Len(buffer') = Len(buffer)
      BY <1>3, <2>1 DEF Bytes, Stored
    <3>3. \A k \in 1 .. Len(buffer) : ~Holds(s, k) => buffer'[k] = buffer[k]
      BY <1>3, <2>1, <2>2 DEF Bytes, Stored, Holds
    <3>4. ASSUME NEW k \in 1 .. plan.used PROVE Fresh(k)' \/ Queued(k)'
      <4>1. CASE Holds(s, k)
        <5>1. Holds(todo[n], k)
          BY <2>2, <4>1 DEF Holds
        <5> QED
          BY <2>1, <5>1 DEF Queued
      <4>2. CASE ~Holds(s, k) /\ Fresh(k)
        <5>1. k \in 1 .. Len(buffer)
          BY <1>3, <4>2 DEF Fresh
        <5>2. buffer'[k] = buffer[k]
          BY <3>3, <4>2, <5>1
        <5> QED
          BY <1>2, <3>2, <4>2, <5>2 DEF Fresh
      <4>3. CASE Queued(k)
        BY <2>1, <4>3 DEF Queued
      <4> QED
        BY <3>1, <4>1, <4>2, <4>3 DEF Free
    <3>5. ASSUME NEW k \in 1 .. plan.used, NEW m \in 1 .. Len(todo'), Holds(todo'[m], k)
          PROVE  ByteOf(todo'[m], k) = Packet'[k]
      BY <1>2, <2>1, <3>1, <3>5 DEF Free
    <3> QED
      BY <1>2, <3>4, <3>5 DEF Free
  <2>4. ASSUME Clean PROVE CallClean'
    BY <1>1, <1>2, <1>3, <2>1, <2>3, <2>4 DEF CallClean
  <2> QED
    BY <1>1, <1>2, <2>1, <2>4 DEF CleanInv
<1>7. CASE ~InRange(buffer, s)
  <2>1. Return("panic", 0)
    BY <1>4, <1>5, <1>7 DEF SetterStep
  <2> QED
    BY <1>1, <2>1, ReturnClean
<1> QED
  BY <1>6, <1>7

LEMMA SetClean ==
    ASSUME WriterInv, CleanInv, Set
    PROVE  CleanInv'
<1>1. /\ call = "busy" /\ by = "new" /\ StructInv /\ CallInv /\ PlanInOrder
      /\ UNCHANGED <<struct, by>>
  BY DEF WriterInv, Set, CleanInv
<1>2. /\ PlanInOrder' /\ Packet' = Packet /\ plan' = plan /\ layout' = layout
      /\ Clean' <=> Clean
  BY <1>1, CleanStays
<1>3. /\ plan.used \in Nat /\ todo \in Seq(Placed(plan.used)) /\ buffer \in Bytes /\ Len(buffer) \in Nat
      /\ result = Pending /\ Pending.is = "none"
  BY <1>1, PlanInv DEF CallInv, Within, Bytes, Pending, Result
<1>4. PICK n \in 1 .. Len(todo) :
        IF InRange(buffer, todo[n])
        THEN /\ buffer' = Stored(buffer, todo[n]) /\ todo' = Without(todo, n)
             /\ UNCHANGED <<call, handed, result>>
        ELSE Return("panic", 0)
  BY DEF Set, SetterStep
<1>5. CASE InRange(buffer, todo[n])
  <2>1. /\ buffer' = Stored(buffer, todo[n]) /\ todo' = Without(todo, n)
        /\ call' = call /\ result' = result
    BY <1>4, <1>5
  <2>2. /\ Len(todo') = Len(todo) - 1
        /\ \A m \in 1 .. n - 1 : todo'[m] = todo[m]
        /\ \A m \in n .. Len(todo) - 1 : todo'[m] = todo[m + 1]
    <3> DEFINE a == SubSeq(todo, 1, n - 1)
               b == SubSeq(todo, n + 1, Len(todo))
    <3>1. /\ a \in Seq(Placed(plan.used)) /\ Len(a) = n - 1
          /\ \A m \in 1 .. n - 1 : a[m] = todo[m]
      BY <1>3
    <3>2. /\ b \in Seq(Placed(plan.used)) /\ Len(b) = Len(todo) - n
          /\ \A m \in 1 .. Len(todo) - n : b[m] = todo[n + m]
      BY <1>3
    <3>3. todo' = a \o b
      BY <2>1 DEF Without
    <3> HIDE DEF a, b
    <3>4. /\ Len(todo') = Len(a) + Len(b)
          /\ \A m \in 1 .. Len(a) : todo'[m] = a[m]
          /\ \A m \in Len(a) + 1 .. Len(a) + Len(b) : todo'[m] = b[m - Len(a)]
      <4>1. /\ Len(a \o b) = Len(a) + Len(b)
            /\ \A m \in 1 .. Len(a) + Len(b) : (a \o b)[m] = IF m <= Len(a) THEN a[m] ELSE b[m - Len(a)]
        BY <3>1, <3>2, ConcatProperties
      <4> QED
        BY <3>1, <3>2, <3>3, <4>1
    <3>5. Len(todo) \in Nat
      BY <1>3
    <3>6. ASSUME NEW m \in n .. Len(todo) - 1 PROVE todo'[m] = todo[m + 1]
      <4>1. m \in Len(a) + 1 .. Len(a) + Len(b) /\ m - Len(a) \in 1 .. Len(todo) - n /\ n + (m - Len(a)) = m + 1
        BY <3>1, <3>2, <3>5
      <4> QED
        BY <3>2, <3>4, <4>1
    <3>7. ASSUME NEW m \in 1 .. n - 1 PROVE todo'[m] = todo[m]
      BY <3>1, <3>4
    <3>8. Len(todo') = Len(todo) - 1
      BY <3>1, <3>2, <3>4, <3>5
    <3> QED
      BY <3>6, <3>7, <3>8
  <2>3. ASSUME Clean PROVE Free'
    <3>1. Free
      BY <1>1, <2>3 DEF CleanInv, CallClean
    <3>2. todo[n] \in Placed(plan.used) /\ Len(buffer') = Len(buffer)
      BY <1>3, <2>1 DEF Bytes, Stored
    <3>3. PICK s \in Placed(plan.used) : s = todo[n]
      BY <3>2
    <3>4. \A k \in 1 .. Len(buffer) : buffer'[k] = IF Holds(s, k) THEN ByteOf(s, k) ELSE buffer[k]
      BY <1>3, <2>1, <3>3 DEF Bytes, Stored, Holds, ByteOf
    <3>5. \A m \in 1 .. Len(todo') : \E j \in 1 .. Len(todo) : todo'[m] = todo[j]
      <4> TAKE m \in 1 .. Len(todo')
      <4>1. CASE m < n
        BY <1>3, <2>2, <4>1
      <4>2. CASE ~(m < n)
        <5>1. m \in n .. Len(todo) - 1
          BY <1>3, <2>2, <4>2
        <5>2. m + 1 \in 1 .. Len(todo)
          BY <1>3, <5>1
        <5> QED
          BY <2>2, <5>1, <5>2
      <4> QED
        BY <4>1, <4>2
    <3>6. ASSUME NEW k \in 1 .. plan.used PROVE Fresh(k)' \/ Queued(k)'
      <4>1. CASE Holds(s, k)
        <5>1. k \in 1 .. Len(buffer)
          <6>1. PICK at \in Nat, e \in Nat : at = s.at /\ e = at + Len(s.bytes)
            BY DEF Placed, Bytes
          <6>2. e <= Len(buffer) /\ k <= e
            BY <1>5, <3>3, <4>1, <6>1 DEF InRange, Holds
          <6> QED
            BY <1>3, <6>1, <6>2
        <5>2. buffer'[k] = ByteOf(s, k)
          BY <3>4, <4>1, <5>1
        <5>3. ByteOf(s, k) = Packet[k]
          BY <3>1, <3>3, <4>1 DEF Free
        <5> QED
          BY <1>2, <3>2, <5>1, <5>2, <5>3 DEF Fresh
      <4>2. CASE ~Holds(s, k) /\ Fresh(k)
        <5>1. k \in 1 .. Len(buffer)
          BY <1>3, <4>2 DEF Fresh
        <5>2. buffer'[k] = buffer[k]
          BY <3>4, <4>2, <5>1
        <5> QED
          BY <1>2, <3>2, <4>2, <5>2 DEF Fresh
      <4>3. CASE ~Holds(s, k) /\ Queued(k)
        <5>1. PICK j \in 1 .. Len(todo) : Holds(todo[j], k)
          BY <4>3 DEF Queued
        <5>2. j # n
          BY <3>3, <4>3, <5>1
        <5>3. CASE j < n
          <6>1. j \in 1 .. n - 1 /\ j \in 1 .. Len(todo')
            BY <1>3, <2>2, <5>3
          <6>2. todo'[j] = todo[j]
            BY <2>2, <6>1
          <6>3. Holds(todo'[j], k)
            BY <5>1, <6>2
          <6> QED
            BY <6>1, <6>3 DEF Queued
        <5>4. CASE j > n
          <6>1. j - 1 \in n .. Len(todo) - 1 /\ j - 1 \in 1 .. Len(todo') /\ j - 1 + 1 = j
            BY <1>3, <2>2, <5>4
          <6>2. todo'[j - 1] = todo[j]
            BY <2>2, <6>1
          <6>3. Holds(todo'[j - 1], k)
            BY <5>1, <6>2
          <6> QED
            BY <6>1, <6>3 DEF Queued
        <5> QED
          BY <5>2, <5>3, <5>4
      <4> QED
        BY <3>1, <4>1, <4>2, <4>3 DEF Free
    <3>7. ASSUME NEW k \in 1 .. plan.used, NEW m \in 1 .. Len(todo'), Holds(todo'[m], k)
          PROVE  ByteOf(todo'[m], k) = Packet'[k]
      <4>1. PICK j \in 1 .. Len(todo) : todo'[m] = todo[j]
        BY <3>5
      <4>2. Holds(todo[j], k)
        BY <3>7, <4>1
      <4> QED
        BY <1>2, <3>1, <4>1, <4>2 DEF Free
    <3> QED
      BY <1>2, <3>6, <3>7 DEF Free
  <2>4. ASSUME Clean PROVE CallClean'
    BY <1>1, <1>2, <1>3, <2>1, <2>3, <2>4 DEF CallClean
  <2> QED
    BY <1>1, <1>2, <2>1, <2>4 DEF CleanInv
<1>6. CASE ~InRange(buffer, todo[n])
  <2>1. Return("panic", 0)
    BY <1>4, <1>6
  <2> QED
    BY <1>1, <2>1, ReturnClean
<1> QED
  BY <1>5, <1>6

-----------------------------------------------------------------------------
(* The plans of all structs.                                               *)

UnionFree(lay) == lay.shape \notin {"Union", "LenUnion", "LenUnionHook", "MultiRegion"}

LEMMA PlainInOrder ==
    ASSUME NEW fields, NEW c, Whole(fields, c), NEW lay, LayWell(fields, lay),
           ShapeHolds(fields, c, lay), HookInFront(lay), BranchGiven(fields, c, lay), UnionFree(lay),
           NEW p, p = WritePlan(fields, c, lay), p.early = "none",
           p.late = "none" \/ lay.shape # "ContentHookNoWidth"
    PROVE  Complete(p) /\ (lay.shape \in Separate => Agree(SetOf(p.stores)))
<1>1. Filled(fields, c) /\ fields \in Seq(Items)
      /\ \A i \in 1 .. Len(fields) : ItemWell(fields[i], i) /\ ItemHolds(fields[i], c[i])
  BY WholeFilled
<1>2. Len(fields) \in Nat /\ Len(fields) > 0
  BY <1>1, FilledSized DEF LayWell
<1>3. CASE lay.shape = "Fixed"
  <2>1. \A i \in 1 .. Len(fields) : fields[i].kind \in SizedKinds
    BY <1>3 DEF LayWell
  <2>2. p = FixedPlan(fields, c)
    BY <1>3 DEF WritePlan
  <2>3. Agree(SetOf(p.stores)) /\ Covers(SetOf(p.stores), 0, p.used)
    BY <1>1, <2>1, <2>2, FixedComplete
  <2> QED
    BY <2>3 DEF Complete
<1>4. CASE lay.shape = "FixedPadded"
  <2>1. \A i \in 1 .. Len(fields) : fields[i].kind \in SizedKinds
    BY <1>4 DEF LayWell, PaddedField, SizedKinds
  <2>2. p = PaddedPlan(fields, c)
    BY <1>4 DEF WritePlan
  <2>3. Complete(p)
    BY <1>1, <1>2, <2>1, <2>2, PaddedComplete
  <2> QED
    BY <1>4, <2>3 DEF Separate
<1>5. CASE lay.shape = "DynamicTail"
  <2>1. /\ lay.region = Len(fields) /\ fields[lay.region].kind = "arr"
        /\ LenField(fields, RunSet(fields, lay.region), fields[lay.region].len) # 0
    BY <1>5 DEF LayWell
  <2>2. p = DynamicTailPlan(fields, c, lay)
    BY <1>5 DEF WritePlan
  <2> QED
    BY <1>1, <1>2, <2>1, <2>2, DynamicTailComplete
<1>6. CASE lay.shape = "DynamicTailHook"
  <2>1. /\ lay.region = Len(fields) /\ fields[lay.region].kind = "arr"
        /\ lay.hook \in 1 .. Len(fields) /\ fields[lay.hook].kind = "hook"
        /\ lay.region = lay.hook + 1
    BY <1>6 DEF LayWell, HookInFront
  <2>2. p = DynamicTailHookPlan(fields, c, lay)
    BY <1>6 DEF WritePlan
  <2> QED
    BY <1>1, <2>1, <2>2, DynamicTailHookComplete
<1>7. CASE lay.shape = "DynamicTailOpen"
  <2>1. lay.region = Len(fields) /\ fields[lay.region].kind = "greedy"
    BY <1>7 DEF LayWell
  <2>2. p = DynamicTailOpenPlan(fields, c, lay)
    BY <1>7 DEF WritePlan
  <2> QED
    BY <1>1, <1>2, <2>1, <2>2, OpenTailComplete
<1>8. CASE lay.shape = "GreedyStructTail"
  <2>1. /\ lay.region = Len(fields) /\ AllFixed(fields, 1, lay.region - 1)
        /\ fields[lay.region].kind = "recs"
    BY <1>8 DEF LayWell, LastBehindFixed
  <2>2. p = GreedyStructTailPlan(fields, c, lay)
    BY <1>8 DEF WritePlan
  <2> QED
    BY <1>1, <1>2, <2>1, <2>2, GreedyComplete
<1>9. CASE lay.shape = "Conditional"
  <2>1. /\ lay.region = Len(fields) /\ AllFixed(fields, 1, lay.region - 1)
        /\ fields[lay.region].kind = "cond"
        /\ \A i \in 1 .. Len(fields[lay.region].yes) : FixedField(fields[lay.region].yes[i])
        /\ \A i \in 1 .. Len(fields[lay.region].no) : FixedField(fields[lay.region].no[i])
    BY <1>9 DEF LayWell, LastBehindFixed
  <2>2. p = BranchPlan(fields, c, lay)
    <3>1. p = ConditionalPlan(fields, c, lay)
      BY <1>9 DEF WritePlan
    <3>2. p # PanicPlan
      BY PanicPlanned
    <3> QED
      BY <3>1, <3>2 DEF ConditionalPlan
  <2>3. ItemWell(fields[lay.region], lay.region) /\ ItemHolds(fields[lay.region], c[lay.region])
    BY <1>1, <1>2, <2>1
  <2>4. Complete(p)
    BY <1>1, <1>2, <1>9, <2>1, <2>2, <2>3, ConditionalComplete
  <2> QED
    BY <1>9, <2>4 DEF Separate
<1>10. CASE lay.shape \in {"ContentHook", "ContentHookNoWidth"}
  <2>1. lay.region = Len(fields)
    BY <1>10 DEF LayWell
  <2>3. p = ContentHookPlan(fields, c, lay) \/ p = ContentHookNoWidthPlan(fields, c, lay)
    BY <1>10 DEF WritePlan
  <2>2. c[lay.region] \in 0 .. MaxHooked
    <3>1. CASE lay.shape = "ContentHook"
      BY <3>1 DEF ShapeHolds
    <3>2. CASE lay.shape = "ContentHookNoWidth"
      <4>1. p = ContentHookNoWidthPlan(fields, c, lay) /\ p.late = "none" /\ c[lay.region] \in Nat
        BY <3>2 DEF WritePlan, ShapeHolds
      <4>2. c[lay.region] <= MaxHooked
        <5> SUFFICES ASSUME ~(c[lay.region] <= MaxHooked) PROVE FALSE
          OBVIOUS
        <5>1. \E need, stores : p = [Plan(need, stores) EXCEPT !.late = "ValueTooLarge"]
          BY <4>1, Zenon DEF ContentHookNoWidthPlan
        <5> QED
          BY <4>1, <5>1 DEF Plan
      <4>3. MaxHooked \in Nat
        BY BaseAssumption DEF MaxHooked, MaxByte
      <4> QED
        BY <4>1, <4>2, <4>3
    <3> QED
      BY <1>10, <3>1, <3>2
  <2>4. Complete(p)
    BY <1>1, <1>2, <2>1, <2>2, <2>3, ContentHookComplete
  <2> QED
    BY <1>10, <2>4 DEF Separate
<1>13. CASE lay.shape = "Forward"
  <2>1. ForwardIn(fields, lay.region)
    BY <1>13 DEF LayWell
  <2>2. p = ForwardPlan(fields, c, lay)
    BY <1>13 DEF WritePlan
  <2> QED
    BY <1>1, <2>1, <2>2, ForwardComplete
<1>15. lay.shape \in Shapes
  BY DEF LayWell
<1> QED
  BY <1>3, <1>4, <1>5, <1>6, <1>7, <1>8, <1>9, <1>10, <1>13, <1>15 DEF Shapes, UnionFree

\* The fields in front of a union are laid out one behind the other.
LEMMA UnionLaid ==
    ASSUME NEW fields, NEW c, Whole(fields, c), NEW lay, LayWell(fields, lay), ShapeHolds(fields, c, lay),
           lay.shape \in {"Union", "LenUnion", "LenUnionHook"}
    PROVE  /\ UnionIn(fields, c, lay.region, lay.prefix, lay.bodies) /\ Laid(fields, lay.prefix)
           /\ lay.shape = "LenUnion" =>
                 \E p \in 1 .. Len(lay.prefix) : lay.prefix[p] = fields[lay.region].len.of
                                                 /\ IsNumber(fields[lay.prefix[p]])
<1>1. Filled(fields, c) /\ fields \in Seq(Items) /\ Sized(fields)
      /\ \A i \in 1 .. Len(fields) : ItemWell(fields[i], i) /\ ItemHolds(fields[i], c[i])
  BY WholeFilled, FilledSized
<1>2. Len(fields) \in Nat /\ Len(fields) > 0
  BY <1>1 DEF LayWell
<1>3. /\ lay.region = Len(fields) /\ fields[lay.region].kind = "union" /\ lay.bodies # <<>>
      /\ \E lenient \in BOOLEAN : lay.bodies = UnionLayout(fields, fields[lay.region], lay.prefix, lenient)
      /\ UnionHolds(lay.bodies, c[lay.region])
  <2>1. CASE lay.shape \in {"Union", "LenUnionHook"}
    BY <2>1 DEF LayWell, ShapeHolds
  <2>2. CASE lay.shape = "LenUnion"
    <3>1. /\ lay.region = Len(fields) /\ fields[lay.region].kind = "union" /\ lay.bodies # <<>>
          /\ lay.bodies = UnionLayout(fields, fields[lay.region], lay.prefix, FALSE)
          /\ UnionHolds(lay.bodies, c[lay.region])
      BY <2>2 DEF LayWell, ShapeHolds, LastBehindFixed
    <3>2. FALSE \in BOOLEAN
      OBVIOUS
    <3> QED
      BY <3>1, <3>2, Zenon
  <2> QED
    BY <2>1, <2>2
<1>4. PICK m \in 0 .. Len(fields) : m = lay.region - 1 /\ m + 1 = lay.region
  <2>1. lay.region - 1 \in 0 .. Len(fields) /\ (lay.region - 1) + 1 = lay.region
    BY <1>2, <1>3
  <2> QED
    BY <2>1
<1>5. InLine(fields, lay.prefix, m) /\ \A p \in 1 .. Len(lay.prefix) : fields[lay.prefix[p]].kind \in SizedKinds
  <2>1. CASE lay.shape \in {"Union", "LenUnionHook"}
    <3>1. lay.prefix = PrefixRun(fields, m + 1)
      BY <1>4, <2>1 DEF LayWell
    <3>2. /\ InLine(fields, PrefixRun(fields, m + 1), m)
          /\ \A p \in 1 .. Len(PrefixRun(fields, m + 1)) : fields[PrefixRun(fields, m + 1)[p]].kind \in SizedKinds
      BY <1>1, PrefixSized
    <3> QED
      BY <3>1, <3>2
  <2>2. CASE lay.shape = "LenUnion"
    <3>1. lay.prefix = Upto(m) /\ AllFixed(fields, 1, m)
      BY <1>4, <2>2 DEF LayWell, LastBehindFixed
    <3>2. \A i \in 1 .. m : fields[i].kind \in SizedKinds
      BY <1>2, <3>1, FixedIsSized DEF AllFixed
    <3>3. InLine(fields, Upto(m), m) /\ \A p \in 1 .. Len(Upto(m)) : fields[Upto(m)[p]].kind \in SizedKinds
      BY <1>1, <3>2, UptoSized
    <3> QED
      BY <3>1, <3>3
  <2> QED
    BY <2>1, <2>2
<1>6. UnionIn(fields, c, lay.region, lay.prefix, lay.bodies)
  <2>1. lay.prefix \in Seq(1 .. Len(fields)) /\ lay.region \in 1 .. Len(fields)
    BY <1>2, <1>3, <1>5 DEF InLine
  <2> QED
    BY <1>1, <1>3, <1>5, <2>1, Zenon DEF UnionIn
<1>7. ASSUME lay.shape = "LenUnion"
      PROVE  \E p \in 1 .. Len(lay.prefix) : lay.prefix[p] = fields[lay.region].len.of
                                             /\ IsNumber(fields[lay.prefix[p]])
  <2>1. LenField(fields, 1 .. lay.region - 1, fields[lay.region].len) # 0 /\ lay.prefix = Upto(m)
    BY <1>4, <1>7 DEF LayWell
  <2>2. fields[lay.region] \in Items
    BY <1>1, <1>2, <1>3
  <2>3. fields[lay.region].len \in Exprs
    BY <2>2, ItemType
  <2>4. fields[lay.region].len.of \in 1 .. lay.region - 1 /\ IsNumber(fields[fields[lay.region].len.of])
    BY <2>1, <2>3, LenFieldIs
  <2>5. Len(Upto(m)) = m /\ \A k \in 1 .. m : Upto(m)[k] = k
    BY <1>2, UptoType
  <2> QED
    BY <1>4, <2>1, <2>4, <2>5
<1> QED
  BY <1>1, <1>5, <1>6, <1>7, InLineLaid

\* Every plan that no error stops is complete.
LEMMA PlansInOrder ==
    ASSUME NEW fields, NEW c, Whole(fields, c), NEW lay, LayWell(fields, lay),
           ShapeHolds(fields, c, lay), HookInFront(lay), BranchGiven(fields, c, lay),
           NEW p, p = WritePlan(fields, c, lay), p.early = "none", p.late = "none"
    PROVE  Complete(p) /\ (lay.shape \in Separate => Agree(SetOf(p.stores)))
<1>1. CASE UnionFree(lay)
  BY <1>1, PlainInOrder
<1>2. CASE lay.shape \in {"Union", "LenUnion", "LenUnionHook"}
  <2>1. UnionIn(fields, c, lay.region, lay.prefix, lay.bodies) /\ Laid(fields, lay.prefix)
    BY <1>2, UnionLaid
  <2>2. Full(p, p.used)
    <3>1. CASE lay.shape = "Union"
      <4>1. p = UnionPlan(fields, c, lay)
        BY <3>1 DEF WritePlan
      <4> QED
        BY <2>1, <4>1, UnionFull
    <3>2. CASE lay.shape = "LenUnion"
      <4>1. p = LenUnionPlan(fields, c, lay)
        BY <3>2 DEF WritePlan
      <4>2. \E q \in 1 .. Len(lay.prefix) : lay.prefix[q] = fields[lay.region].len.of
                                            /\ IsNumber(fields[lay.prefix[q]])
        BY <1>2, <3>2, UnionLaid
      <4> QED
        BY <2>1, <4>1, <4>2, LenUnionFull
    <3>3. CASE lay.shape = "LenUnionHook"
      <4>1. p = LenUnionHookPlan(fields, c, lay)
        BY <3>3 DEF WritePlan
      <4> QED
        BY <2>1, <4>1, LenUnionHookFull
    <3> QED
      BY <1>2, <3>1, <3>2, <3>3
  <2> QED
    BY <1>2, <2>2 DEF Full, Complete, Separate
<1>3. CASE lay.shape = "MultiRegion"
  <2>1. lay.segs \in Seq(RSegs) /\ \A k \in 1 .. Len(lay.segs) : RSegWell(fields, lay.segs[k])
    BY <1>3 DEF LayWell
  <2>2. \A k \in 1 .. Len(lay.segs) : SegmentHolds(fields, c, lay.segs[k])
    BY <1>3 DEF ShapeHolds
  <2>3. p = MultiRegionPlan(fields, c, lay)
    BY <1>3 DEF WritePlan
  <2>4. Full(p, p.used)
    BY <2>1, <2>2, <2>3, MultiRegionFull
  <2> QED
    BY <1>3, <2>4 DEF Full, Complete, Separate
<1> QED
  BY <1>1, <1>2, <1>3 DEF UnionFree

\* A writer of each struct, with every part of it given.
CasesGiven ==
    \A k \in Cases : HookInFront(Classify(k.items)) /\ BranchGiven(k.items, k.content, Classify(k.items))

LEMMA InitClean ==
    ASSUME CasesGiven, Init
    PROVE  CleanInv
<1>1. PICK k \in Cases : items = k.items /\ content = k.content
  BY DEF Init
<1>2. /\ layout = Classify(items) /\ plan = WritePlan(items, content, layout) /\ call = "free"
      /\ result = Pending
  BY DEF Init
<1>3. WriterInv /\ StructInv
  <2>1. WriterInv
    BY InitWriterInv DEF CasesGiven
  <2> QED
    BY <1>2, <2>1 DEF WriterInv
<1>4. HookInFront(layout) /\ BranchGiven(items, content, layout)
  BY <1>1, <1>2 DEF CasesGiven
<1>5. PlanInOrder
  <2> SUFFICES ASSUME plan.early = "none", plan.late = "none"
               PROVE  Complete(plan) /\ (layout.shape \in Separate => Agree(SetOf(plan.stores)))
    BY DEF PlanInOrder
  <2>1. /\ Whole(items, content) /\ LayWell(items, layout) /\ ShapeHolds(items, content, layout)
        /\ plan = WritePlan(items, content, layout)
    BY <1>3 DEF StructInv
  <2> QED
    BY <1>4, <2>1, PlansInOrder
<1>6. CallClean
  BY <1>2 DEF CallClean, Pending, Result
<1> QED
  BY <1>2, <1>5, <1>6 DEF CleanInv

-----------------------------------------------------------------------------
(* What the parser reads in front of a region.                             *)

\* A step of the parser: the value it takes, and where it then is.
Taking(it, bytes, s, t, m, v) ==
    /\ t.at = s.at + it.pad + m /\ t.vals = Append(s.vals, v)
    /\ it.kind \in SizedKinds => m = Size(it)
    /\ IsNumber(it) => v = bytes[s.at + it.pad + 1] /\ s.at + it.pad + 1 <= Len(bytes)
    /\ it.kind = "arr" \/ (it.kind = "recs" /\ it.len.of # 0) => Len(v) = Amount(it.len, s)

LEMMA PlainTakes ==
    ASSUME NEW it \in Items, it.kind \in SizedKinds \cup {"hook", "arr", "greedy", "ref", "recs"},
           NEW bytes \in Bytes, NEW s, s.at \in Nat, DOMAIN s = {"ok", "at", "vals"},
           it.kind = "arr" \/ (it.kind = "recs" /\ it.len.of # 0) => Amount(it.len, s) \in Nat,
           NEW t, t = PlainStep(it, bytes, s), t.ok
    PROVE  \E m, v : /\ t = Take(s, m, v)
                     /\ it.kind \in SizedKinds => m = Size(it)
                     /\ IsNumber(it) => v = bytes[s.at + 1] /\ s.at + 1 <= Len(bytes)
                     /\ it.kind = "arr" \/ (it.kind = "recs" /\ it.len.of # 0) => Len(v) = Amount(it.len, s)
<1>1. /\ Failed.ok = FALSE /\ Len(bytes) \in Nat /\ it.size \in Nat
      /\ \A n, v : TakeIfThere(bytes, s, n, v) = Take(s, n, v) \/ TakeIfThere(bytes, s, n, v) = Failed
      /\ \A n, v : TakeIfThere(bytes, s, n, v) # Failed => s.at + n <= Len(bytes)
  <2>1. Failed.ok = FALSE /\ Len(bytes) \in Nat /\ it.size \in Nat
    <3>1. it.size \in Nat
      BY ItemType
    <3>2. Len(bytes) \in Nat
      BY DEF Bytes
    <3> QED
      BY <3>1, <3>2 DEF Failed
  <2>2. \A n, v : TakeIfThere(bytes, s, n, v) = Take(s, n, v) \/ TakeIfThere(bytes, s, n, v) = Failed
    BY DEF TakeIfThere
  <2>3. \A n, v : TakeIfThere(bytes, s, n, v) # Failed => s.at + n <= Len(bytes)
    BY DEF TakeIfThere
  <2> QED
    BY <2>1, <2>2, <2>3
<1>2. t # Failed
  BY <1>1
<1>3. CASE it.kind \in {"num", "int", "bits"}
  <2>1. t = NumberStep(bytes, s)
    BY <1>3 DEF PlainStep, IsNumber
  <2>2. s.at < Len(bytes) /\ t = Take(s, 1, bytes[s.at + 1])
    BY <1>2, <2>1 DEF NumberStep
  <2>3. Size(it) = 1 /\ s.at + 1 <= Len(bytes)
    BY <1>1, <1>3, <2>2 DEF Size
  <2> QED
    BY <1>3, <2>2, <2>3
<1>4. CASE it.kind \in {"const", "fixed", "multi"}
  <2>1. t = TakeIfThere(bytes, s, it.size, Window(bytes, s.at, it.size))
    BY <1>2, <1>4 DEF PlainStep, IsNumber, ConstStep, BytesStep
  <2>2. t = Take(s, it.size, Window(bytes, s.at, it.size))
    BY <1>1, <1>2, <2>1
  <2>3. Size(it) = it.size
    BY <1>4 DEF Size
  <2> QED
    BY <1>4, <2>2, <2>3 DEF IsNumber
<1>5. CASE it.kind = "arr"
  <2>1. PICK n \in Nat : n = Amount(it.len, s)
    BY <1>5
  <2>2. t = TakeIfThere(bytes, s, n, Window(bytes, s.at, n))
    BY <1>5, <2>1 DEF PlainStep, IsNumber, BytesStep
  <2>3. t = Take(s, n, Window(bytes, s.at, n)) /\ s.at + n <= Len(bytes)
    BY <1>1, <1>2, <2>2
  <2>4. Len(Window(bytes, s.at, n)) = n
    BY <2>3, WindowReads
  <2> QED
    BY <1>5, <2>1, <2>3, <2>4 DEF IsNumber, SizedKinds
<1>6. CASE it.kind = "recs" /\ it.len.of # 0
  <2>1. PICK n \in Nat : n = Amount(it.len, s)
    BY <1>6
  <2>2. t = RecordsStep(it, bytes, s)
    BY <1>6 DEF PlainStep, IsNumber
  <2>3. t = TakeIfThere(bytes, s, n * it.size, Records(bytes, s.at, n, it.size))
    <3>1. RecordsStep(it, bytes, s)
            = TakeIfThere(bytes, s, Amount(it.len, s) * it.size, Records(bytes, s.at, Amount(it.len, s), it.size))
      BY <1>6, Zenon DEF RecordsStep
    <3> QED
      BY <2>1, <2>2, <3>1
  <2>4. PICK m : t = Take(s, m, Records(bytes, s.at, n, it.size))
    BY <1>1, <1>2, <2>3
  <2>5. Len(Records(bytes, s.at, n, it.size)) = n
    BY DEF Records
  <2> QED
    BY <1>6, <2>1, <2>4, <2>5 DEF IsNumber, SizedKinds
<1>7. CASE it.kind \in {"hook", "greedy", "ref"} \/ (it.kind = "recs" /\ it.len.of = 0)
  <2>1. \E m, v : t = Take(s, m, v)
    <3>1. CASE it.kind = "hook"
      <4>1. t = HookStep(it, bytes, s)
        BY <3>1 DEF PlainStep, IsNumber
      <4>2. HookStep(it, bytes, s) = Failed \/ \E m, v : HookStep(it, bytes, s) = Take(s, m, v)
        BY Zenon DEF HookStep
      <4> QED
        BY <1>2, <4>1, <4>2
    <3>2. CASE it.kind = "greedy"
      <4>1. t = BytesStep(bytes, s, Minus(Len(bytes), s.at))
        BY <3>2 DEF PlainStep, IsNumber
      <4> QED
        BY <1>1, <1>2, <4>1 DEF BytesStep
    <3>3. CASE it.kind = "ref"
      <4>1. t = RefStep(it, bytes, s)
        BY <3>3 DEF PlainStep, IsNumber
      <4>2. RefStep(it, bytes, s) = Failed \/ \E m, v : RefStep(it, bytes, s) = TakeIfThere(bytes, s, m, v)
        BY Zenon DEF RefStep
      <4> QED
        BY <1>1, <1>2, <4>1, <4>2
    <3>4. CASE it.kind = "recs"
      <4>1. t = RecordsStep(it, bytes, s)
        BY <3>4 DEF PlainStep, IsNumber
      <4>2. RecordsStep(it, bytes, s) = Failed \/ \E m, v : RecordsStep(it, bytes, s) = TakeIfThere(bytes, s, m, v)
        BY Zenon DEF RecordsStep
      <4> QED
        BY <1>1, <1>2, <4>1, <4>2
    <3> QED
      BY <1>7, <3>1, <3>2, <3>3, <3>4
  <2> QED
    BY <1>7, <2>1 DEF IsNumber, SizedKinds
<1> QED
  BY <1>3, <1>4, <1>5, <1>6, <1>7 DEF SizedKinds

LEMMA StepTakes ==
    ASSUME NEW fields, NEW r, TailIn(fields, r), NEW bytes \in Bytes,
           NEW i \in 1 .. Len(fields), NEW s, Rd(fields, r, bytes, i - 1, s),
           NEW t, t = ItemStep(fields[i], bytes, s), t.ok
    PROVE  s.ok /\ \E m, v : Taking(fields[i], bytes, s, t, m, v)
<1> DEFINE it == fields[i]
           u == [s EXCEPT !.at = @ + it.pad]
           V == RdValues(bytes)
<1>1. /\ it \in Items /\ i \in Nat /\ r \in Nat /\ s \in [ok: BOOLEAN, at: Nat, vals: Seq(V)]
      /\ it.kind \in SizedKinds \cup {"hook", "arr", "greedy", "ref", "recs"}
      /\ i # r => it.kind \in SizedKinds \cup {"hook"}
  BY DEF TailIn, Rd, RdStates
<1> HIDE DEF V
<1>2. it.pad \in Nat
  <2> HIDE DEF it
  <2> QED
    BY <1>1, ItemType
<1>3. s.ok
  <2> SUFFICES ASSUME ~s.ok PROVE FALSE
    OBVIOUS
  <2>1. ItemStep(it, bytes, s) = Failed
    BY DEF ItemStep
  <2> QED
    BY <2>1 DEF Failed
<1>4. t = PlainStep(it, bytes, u)
  BY <1>1, <1>3 DEF ItemStep, FieldStep, SizedKinds
<1>5. /\ u.at = s.at + it.pad /\ u.vals = s.vals /\ u.ok = s.ok /\ u.at \in Nat /\ DOMAIN u = {"ok", "at", "vals"}
      /\ u \in [ok: BOOLEAN, at: Nat, vals: Seq(V)]
  <2>1. PICK a \in Nat : a = s.at + it.pad
    BY <1>1, <1>2
  <2>2. u = [s EXCEPT !.at = a]
    BY <2>1
  <2> HIDE DEF u
  <2> QED
    BY <1>1, <2>1, <2>2
<1>6. Amount(it.len, u) = Amount(it.len, s)
  BY <1>5 DEF Amount
<1>7. it.kind = "arr" \/ (it.kind = "recs" /\ it.len.of # 0) => Amount(it.len, u) \in Nat
  <2> SUFFICES ASSUME it.kind = "arr" \/ (it.kind = "recs" /\ it.len.of # 0) PROVE Amount(it.len, s) \in Nat
    BY <1>6
  <2>1. i = r
    BY <1>1 DEF SizedKinds
  <2>2. Measured(fields, r)
    BY <2>1 DEF TailIn
  <2>3. i - 1 \in Nat /\ r <= (i - 1) + 1
    BY <1>1, <2>1
  <2> QED
    BY <1>3, <2>1, <2>2, <2>3, AmountReads
<1> HIDE DEF u
<1>8. PICK m, v : /\ t = Take(u, m, v)
                  /\ it.kind \in SizedKinds => m = Size(it)
                  /\ IsNumber(it) => v = bytes[u.at + 1] /\ u.at + 1 <= Len(bytes)
                  /\ it.kind = "arr" \/ (it.kind = "recs" /\ it.len.of # 0) => Len(v) = Amount(it.len, u)
  <2> HIDE DEF it
  <2> QED
    BY <1>1, <1>4, <1>5, <1>7, PlainTakes
<1>9. t.at = u.at + m /\ t.vals = Append(u.vals, v)
  <2> DEFINE a == u.at + m
             w == Append(u.vals, v)
  <2>1. t = [u EXCEPT !.at = a, !.vals = w]
    BY <1>8 DEF Take
  <2> HIDE DEF a, w
  <2>2. t.at = a /\ t.vals = w
    BY <1>5, <2>1
  <2> QED
    BY <2>2 DEF a, w
<1>10. Taking(it, bytes, s, t, m, v)
  BY <1>5, <1>6, <1>8, <1>9 DEF Taking
<1> QED
  BY <1>3, <1>10

\* Whether the writer's length counts the region's bytes or its structs.
Counting(it) == it.kind = "arr" \/ (it.kind = "recs" /\ it.len.of # 0)

\* The numbers in front of the region, and its length.
FrontRead(fields, r, bytes, n, s) ==
    s.ok =>
        /\ n < r => s.at = Sum(fields, n)
        /\ \A j \in 1 .. n : j < r /\ IsNumber(fields[j]) =>
               s.vals[j] = bytes[Sum(fields, j - 1) + 1] /\ Sum(fields, j - 1) + 1 <= Len(bytes)
        /\ r <= n /\ Counting(fields[r]) => Len(s.vals[r]) = Amount(fields[r].len, s)

LEMMA FrontStep ==
    ASSUME NEW fields, NEW r, TailIn(fields, r), AllFixed(fields, 1, r - 1), NEW bytes \in Bytes,
           NEW i \in 1 .. Len(fields), NEW s, Rd(fields, r, bytes, i - 1, s), FrontRead(fields, r, bytes, i - 1, s),
           NEW t, t = ItemStep(fields[i], bytes, s)
    PROVE  FrontRead(fields, r, bytes, i, t)
<1> SUFFICES ASSUME t.ok PROVE FrontRead(fields, r, bytes, i, t)
  BY DEF FrontRead
<1>1. s.ok /\ \E m, v : Taking(fields[i], bytes, s, t, m, v)
  BY StepTakes
<1>2. PICK m, v : Taking(fields[i], bytes, s, t, m, v)
  BY <1>1
<1>3. /\ fields \in Seq(Items) /\ Len(fields) \in Nat /\ r \in 1 .. Len(fields) /\ r \in Nat /\ i \in Nat
      /\ Sized(fields) /\ \A j \in 1 .. Len(fields) : fields[j] \in Items
  BY FilledSized DEF TailIn
<1>4. /\ Len(s.vals) = i - 1 /\ s.vals \in Seq(RdValues(bytes)) /\ s.at \in Nat
  BY <1>1 DEF Rd, RdStates
<1>5. /\ Len(t.vals) = i /\ t.vals[i] = v /\ \A j \in 1 .. i - 1 : t.vals[j] = s.vals[j]
  <2> DEFINE V == RdValues(bytes) \cup {v}
  <2>1. s.vals \in Seq(V) /\ v \in V
    BY <1>4
  <2>2. t.vals = Append(s.vals, v)
    BY <1>2 DEF Taking
  <2> HIDE DEF V
  <2> QED
    BY <1>3, <1>4, <2>1, <2>2
<1>6. /\ i - 1 < r => s.at = Sum(fields, i - 1)
      /\ \A j \in 1 .. i - 1 : j < r /\ IsNumber(fields[j]) =>
             s.vals[j] = bytes[Sum(fields, j - 1) + 1] /\ Sum(fields, j - 1) + 1 <= Len(bytes)
      /\ r <= i - 1 /\ Counting(fields[r]) => Len(s.vals[r]) = Amount(fields[r].len, s)
  BY <1>1 DEF FrontRead
<1>7. i < r => fields[i].pad = 0 /\ fields[i].kind \in SizedKinds
  <2> SUFFICES ASSUME i < r PROVE fields[i].pad = 0 /\ fields[i].kind \in SizedKinds
    OBVIOUS
  <2>1. i \in 1 .. r - 1
    BY <1>3
  <2>2. FixedField(fields[i])
    BY <2>1 DEF AllFixed
  <2> QED
    BY <2>2, FixedIsSized DEF FixedField, Plain
<1>8. i < r => t.at = Sum(fields, i)
  <2> SUFFICES ASSUME i < r PROVE t.at = Sum(fields, i)
    OBVIOUS
  <2>1. PICK a \in Nat, z \in Nat : a = Sum(fields, i - 1) /\ z = Size(fields[i]) /\ Sum(fields, i) = a + z
    <3>1. i - 1 \in 0 .. Len(fields)
      BY <1>3
    <3> QED
      BY <1>3, <3>1, SumSteps DEF Sized
  <2>2. s.at = a
    BY <1>3, <1>6, <2>1
  <2>3. t.at = s.at + 0 + z
    BY <1>2, <1>7, <2>1 DEF Taking
  <2> QED
    BY <2>1, <2>2, <2>3
<1>9. ASSUME NEW j \in 1 .. i, j < r, IsNumber(fields[j])
      PROVE  t.vals[j] = bytes[Sum(fields, j - 1) + 1] /\ Sum(fields, j - 1) + 1 <= Len(bytes)
  <2>1. CASE j < i
    <3>1. j \in 1 .. i - 1
      BY <1>3, <2>1
    <3> QED
      BY <1>5, <1>6, <1>9, <3>1
  <2>2. CASE j = i
    <3>1. v = bytes[s.at + fields[i].pad + 1] /\ s.at + fields[i].pad + 1 <= Len(bytes)
      BY <1>2, <1>9, <2>2 DEF Taking
    <3>2. fields[i].pad = 0 /\ s.at = Sum(fields, j - 1)
      BY <1>3, <1>6, <1>7, <1>9, <2>2
    <3>3. s.at + fields[i].pad + 1 = Sum(fields, j - 1) + 1
      BY <1>4, <3>2
    <3> QED
      BY <1>5, <2>2, <3>1, <3>3
  <2> QED
    BY <1>3, <2>1, <2>2
<1>10. ASSUME r <= i, Counting(fields[r]) PROVE Len(t.vals[r]) = Amount(fields[r].len, t)
  <2>1. fields[r].len.of \in 1 .. r - 1
    BY <1>10 DEF TailIn, Measured, Counting
  <2>2. t.vals[fields[r].len.of] = s.vals[fields[r].len.of]
    <3>1. fields[r].len.of \in 1 .. i - 1
      BY <1>3, <1>10, <2>1
    <3> QED
      BY <1>5, <3>1
  <2>3. Amount(fields[r].len, t) = Amount(fields[r].len, s)
    BY <2>2 DEF Amount
  <2>4. CASE i = r
    <3>1. Len(v) = Amount(fields[r].len, s)
      BY <1>2, <1>10, <2>4 DEF Taking, Counting
    <3> QED
      BY <1>5, <2>3, <2>4, <3>1
  <2>5. CASE i # r
    <3>1. r \in 1 .. i - 1 /\ r <= i - 1
      BY <1>3, <1>10, <2>5
    <3> QED
      BY <1>5, <1>6, <1>10, <2>3, <3>1
  <2> QED
    BY <2>4, <2>5
<1> QED
  BY <1>8, <1>9, <1>10 DEF FrontRead

LEMMA FrontReads ==
    ASSUME NEW fields, NEW r, TailIn(fields, r), AllFixed(fields, 1, r - 1), NEW bytes \in Bytes,
           NEW s, s = Read(fields, bytes), s.ok
    PROVE  FrontRead(fields, r, bytes, Len(fields), s)
<1> DEFINE N == Len(fields)
<1>1. PICK f : /\ RdFold(fields, bytes, f) /\ s = f[N]
               /\ \A n \in 0 .. N : RdIn(fields, r, bytes, n, f[n])
  BY ReadSteps
<1>2. N \in Nat /\ r \in 1 .. N /\ Sized(fields)
  BY FilledSized DEF TailIn
<1> DEFINE P == {n \in 0 .. N : FrontRead(fields, r, bytes, n, f[n])}
<1>3. 0 \in P
  <2>1. f[0] = Start
    BY <1>1, <1>2 DEF RdFold
  <2>2. Start.at = 0 /\ Sum(fields, 0) = 0
    BY <1>2, SumSteps DEF Start
  <2>3. FrontRead(fields, r, bytes, 0, f[0])
    BY <1>2, <2>1, <2>2 DEF FrontRead
  <2> QED
    BY <1>2, <2>3
<1>4. ASSUME NEW n \in 0 .. N, n \in P, n < N PROVE n + 1 \in P
  <2>1. n + 1 \in 1 .. N /\ n + 1 \in 0 .. N /\ n + 1 # 0 /\ (n + 1) - 1 = n
    BY <1>2, <1>4
  <2>2. f[n + 1] = ItemStep(fields[n + 1], bytes, f[n])
    BY <1>1, <2>1 DEF RdFold
  <2>3. Rd(fields, r, bytes, (n + 1) - 1, f[n]) /\ FrontRead(fields, r, bytes, (n + 1) - 1, f[n])
    BY <1>1, <1>4, <2>1 DEF RdIn
  <2>4. FrontRead(fields, r, bytes, n + 1, f[n + 1])
    BY <2>1, <2>2, <2>3, FrontStep
  <2> QED
    BY <2>1, <2>4
<1> HIDE DEF P, N
<1>5. \A n \in 0 .. N : n \in P
  BY <1>2, <1>3, <1>4, InductUpto
<1> QED
  BY <1>1, <1>2, <1>5 DEF P, N

\* The solved expression names no less than the length it was solved for.
LEMMA SolvedIsNotLess ==
    ASSUME NEW e \in Exprs, Affine(e), NEW n \in Nat, NEW s, NEW b, b = s.vals[e.of], b = LenValue(n, e)
    PROVE  Amount(e, s) \in Nat /\ n <= Amount(e, s)
<1>1. PICK p \in Nat, m \in Nat : p = e.plus /\ m = e.minus /\ (p = 0 \/ m = 0)
  BY DEF Exprs, Affine
<1>2. b = IF p > 0 THEN Minus(n, p) ELSE n + m
  BY <1>1 DEF LenValue
<1>3. b \in Nat
  BY <1>1, <1>2 DEF Minus
<1>4. b * e.times = b
  <2>1. e.times = 1
    BY DEF Affine
  <2> QED
    BY <1>3, <2>1
<1>5. Amount(e, s) = Minus(b + p, m)
  BY <1>1, <1>4 DEF Amount
<1>6. CASE p > 0
  <2>1. m = 0 /\ b = Minus(n, p)
    BY <1>1, <1>2, <1>6
  <2>2. Amount(e, s) = b + p
    BY <1>1, <1>3, <1>5, <1>6, <2>1 DEF Minus
  <2> QED
    BY <1>1, <1>3, <2>1, <2>2 DEF Minus
<1>7. CASE p = 0
  <2>1. b = n + m /\ Amount(e, s) = Minus(n + m, m)
    BY <1>1, <1>2, <1>5, <1>7
  <2>2. Amount(e, s) = n
    <3>1. CASE n + m > m
      BY <1>1, <2>1, <3>1 DEF Minus
    <3>2. CASE ~(n + m > m)
      BY <1>1, <2>1, <3>2 DEF Minus
    <3> QED
      BY <3>1, <3>2
  <2> QED
    BY <2>2
<1> QED
  BY <1>1, <1>6, <1>7

-----------------------------------------------------------------------------
(* A field with another value: which stores make the packet then.          *)

\* The packet's bytes are those of the stores in the set, or zeroes.
Makes(packet, used, set) ==
    \A k \in 1 .. used : /\ \A s \in set : Holds(s, k) => packet[k] = ByteOf(s, k)
                         /\ (\A s \in set : ~Holds(s, k)) => packet[k] = 0

\* One store of the set is another one at the same place.
Swapped(S, T, s, t) ==
    /\ t \in T /\ S \subseteq T \cup {s} /\ T \subseteq S \cup {t}
    /\ s.at = t.at /\ Len(s.bytes) = Len(t.bytes)

LEMMA SwappedMore ==
    ASSUME NEW S, NEW T, NEW s, NEW t, Swapped(S, T, s, t), NEW X
    PROVE  Swapped(S \cup X, T \cup X, s, t) /\ Swapped(X \cup S, X \cup T, s, t)
BY DEF Swapped

LEMMA SwappedMakes ==
    ASSUME NEW a, NEW b, NEW used, NEW S, NEW T, NEW s, NEW t,
           Makes(a, used, S), Makes(b, used, T), Swapped(S, T, s, t), NEW k \in 1 .. used
    PROVE  b[k] = IF Holds(t, k) THEN ByteOf(t, k) ELSE a[k]
<1>1. CASE Holds(t, k)
  BY <1>1 DEF Makes, Swapped
<1>2. CASE ~Holds(t, k)
  <2>1. ~Holds(s, k)
    BY <1>2 DEF Swapped, Holds
  <2>2. CASE \E x \in T : Holds(x, k)
    <3>1. PICK x \in T : Holds(x, k)
      BY <2>2
    <3>2. x \in S
      BY <1>2, <3>1 DEF Swapped
    <3>3. a[k] = ByteOf(x, k) /\ b[k] = ByteOf(x, k)
      BY <3>1, <3>2 DEF Makes
    <3> QED
      BY <1>2, <3>3
  <2>3. CASE \A x \in T : ~Holds(x, k)
    <3>1. \A x \in S : ~Holds(x, k)
      BY <2>1, <2>3 DEF Swapped
    <3>2. a[k] = 0 /\ b[k] = 0
      BY <2>3, <3>1 DEF Makes
    <3> QED
      BY <1>2, <3>2
  <2> QED
    BY <2>2, <2>3
<1> QED
  BY <1>1, <1>2

LEMMA AgreedMakes ==
    ASSUME NEW used \in Nat, NEW stores \in Within(used), Agree(SetOf(stores))
    PROVE  Makes(StoredAll(Zeroes(used), stores), used, SetOf(stores))
<1>1. PICK zeroes \in Bytes : zeroes = Zeroes(used) /\ Len(zeroes) = used /\ \A k \in 1 .. used : zeroes[k] = 0
  BY ZeroesType DEF Zeroes
<1>2. ASSUME NEW k \in 1 .. used, NEW s \in SetOf(stores), Holds(s, k)
      PROVE  StoredAll(zeroes, stores)[k] = ByteOf(s, k)
  BY <1>1, <1>2, AgreedByte
<1>3. ASSUME NEW k \in 1 .. used, \A s \in SetOf(stores) : ~Holds(s, k)
      PROVE  StoredAll(zeroes, stores)[k] = 0
  BY <1>1, <1>3, UnheldByte
<1> QED
  BY <1>1, <1>2, <1>3 DEF Makes

\* The zeroes that come first make no difference.
LEMMA PaddedMakes ==
    ASSUME NEW fields, NEW c, Filled(fields, c), Len(fields) > 0,
           \A i \in 1 .. Len(fields) : fields[i].kind \in SizedKinds,
           NEW p, p = PaddedPlan(fields, c), p.used \in Nat, p.stores \in Within(p.used)
    PROVE  Makes(StoredAll(Zeroes(p.used), p.stores), p.used, PaddedSet(fields, c))
<1>1. PICK rest \in Within(p.used) :
        /\ p.stores = <<Store(0, Zeroes(p.used))>> \o rest /\ Store(0, Zeroes(p.used)) \in Placed(p.used)
        /\ SetOf(rest) = PaddedSet(fields, c) /\ Agree(PaddedSet(fields, c))
  BY PaddedComplete
<1>2. PICK zeroes \in Bytes : zeroes = Zeroes(p.used) /\ Len(zeroes) = p.used /\ \A k \in 1 .. p.used : zeroes[k] = 0
  BY ZeroesType DEF Zeroes
<1>3. PICK first \in Placed(p.used) : first = Store(0, zeroes)
  BY <1>1, <1>2
<1>4. p.stores # <<>> /\ Head(p.stores) = first /\ Tail(p.stores) = rest
  <2>1. first \in Placed(p.used) /\ rest \in Seq(Placed(p.used)) /\ p.stores = <<first>> \o rest
    BY <1>1, <1>2, <1>3 DEF Within
  <2>2. Head(<<first>> \o rest) = first /\ Tail(<<first>> \o rest) = rest /\ <<first>> \o rest # <<>>
    BY <2>1
  <2> QED
    BY <2>1, <2>2
<1>5. Stored(zeroes, first) = zeroes
  <2>1. first.at = 0 /\ first.bytes = zeroes
    BY <1>3 DEF Store
  <2>2. zeroes = [k \in 1 .. Len(zeroes) |-> zeroes[k]] /\ Len(zeroes) \in Nat
    BY <1>2 DEF Bytes
  <2>3. \A k \in 1 .. Len(zeroes) :
          (IF k > first.at /\ k <= first.at + Len(first.bytes) THEN first.bytes[k - first.at] ELSE zeroes[k]) = zeroes[k]
    BY <2>1, <2>2
  <2> QED
    BY <2>2, <2>3 DEF Stored
<1>6. ASSUME NEW k \in 1 .. p.used
      PROVE  StoredAll(zeroes, p.stores)[k] = StoredAll(zeroes, rest)[k]
  <2>1. StoredAll(Stored(zeroes, Head(p.stores)), Tail(p.stores))[k] = StoredAll(zeroes, p.stores)[k]
    BY <1>2, <1>4, FirstStored
  <2> QED
    BY <1>4, <1>5, <2>1
<1>7. Makes(StoredAll(zeroes, rest), p.used, PaddedSet(fields, c))
  BY <1>1, <1>2, AgreedMakes
<1> QED
  BY <1>2, <1>6, <1>7 DEF Makes

-----------------------------------------------------------------------------
(* The sets of stores of two contents that differ in field i.              *)

\* Field i has another value of the same length.
Differ(fields, c, d, i) ==
    /\ Filled(fields, c) /\ Filled(fields, d) /\ i \in 1 .. Len(fields)
    /\ \A j \in 1 .. Len(fields) : j # i => d[j] = c[j]
    /\ Len(FieldBytes(fields[i], d[i])) = Len(FieldBytes(fields[i], c[i]))

LEMMA FrontSwaps ==
    ASSUME NEW fields, NEW c, NEW d, NEW i, Differ(fields, c, d, i),
           NEW run, NEW m, InLine(fields, run, m), NEW of, i # of, NEW length,
           NEW S, S = Front(fields, run, Values(fields, c, of, length)),
           NEW T, T = Front(fields, run, Values(fields, d, of, length)),
           NEW at, at = Sum(fields, i - 1)
    PROVE  /\ i \in Listed(run) =>
                 Swapped(S, T, Store(at, FieldBytes(fields[i], c[i])), Store(at, FieldBytes(fields[i], d[i])))
           /\ i \notin Listed(run) => S = T
<1> DEFINE w == Values(fields, c, of, length)
           z == Values(fields, d, of, length)
           old(j) == Store(Sum(fields, j - 1), w[j])
           new(j) == Store(Sum(fields, j - 1), z[j])
<1>1. Listed(run) \subseteq 1 .. Len(fields) /\ i \in 1 .. Len(fields)
  BY DEF InLine, Listed, Differ
<1>2. /\ \A j \in Listed(run) : j # i => w[j] = z[j]
      /\ w[i] = FieldBytes(fields[i], c[i]) /\ z[i] = FieldBytes(fields[i], d[i])
  BY <1>1 DEF Values, Differ
<1>3. Len(z[i]) = Len(w[i])
  BY <1>2 DEF Differ
<1> HIDE DEF w, z
<1>4. /\ S = {old(j) : j \in Listed(run)} /\ T = {new(j) : j \in Listed(run)}
  BY DEF Front, w, z
<1>5. /\ \A j \in Listed(run) : j # i => old(j) = new(j)
      /\ old(i).at = new(i).at /\ Len(old(i).bytes) = Len(new(i).bytes)
  BY <1>2, <1>3 DEF Store
<1>6. old(i) = Store(at, FieldBytes(fields[i], c[i])) /\ new(i) = Store(at, FieldBytes(fields[i], d[i]))
  BY <1>2
<1> HIDE DEF old, new
<1>7. i \in Listed(run) => Swapped(S, T, old(i), new(i))
  BY <1>4, <1>5 DEF Swapped
<1>8. i \notin Listed(run) => S = T
  BY <1>4, <1>5
<1> QED
  BY <1>6, <1>7, <1>8

\* What writer_over may set: no constant, no length field of the region.
CanEdit(fields, lay, i) ==
    /\ fields[i].kind \in {"num", "int", "bits", "fixed", "arr", "greedy", "ref"} /\ ~fields[i].skip
    /\ lay.shape \in {"DynamicTail", "Forward"} => fields[lay.region].len.of # i

\* Where a field of the packet is: behind a region it is further on.
Place(fields, c, lay, i) ==
    IF lay.shape = "FixedPadded" THEN PaddedOffset(fields, i)
    ELSE IF lay.shape = "Forward" /\ i > lay.region
         THEN ForwardBytes(fields[lay.region], ForwardLens(fields[lay.region], c[lay.region])) + Sum(fields, i - 1)
         ELSE Sum(fields, i - 1)

\* The stores that make the packet.
PacketSet(fields, c, lay) ==
    IF lay.shape = "FixedPadded" THEN PaddedSet(fields, c) ELSE SetOf(WritePlan(fields, c, lay).stores)

\* They make the packet of the other content when one is swapped.
Swaps(fields, c, d, lay, i) ==
    Swapped(PacketSet(fields, c, lay), PacketSet(fields, d, lay),
            Store(Place(fields, c, lay, i), FieldBytes(fields[i], c[i])),
            Store(Place(fields, c, lay, i), FieldBytes(fields[i], d[i])))

LEMMA OverMakes ==
    ASSUME NEW fields, NEW c, Whole(fields, c), NEW lay, LayWell(fields, lay), lay.shape \in Over,
           NEW p, p = WritePlan(fields, c, lay), p.early = "none"
    PROVE  Makes(StoredAll(Zeroes(p.used), p.stores), p.used, PacketSet(fields, c, lay))
<1>1. /\ ShapeHolds(fields, c, lay) /\ HookInFront(lay) /\ BranchGiven(fields, c, lay) /\ UnionFree(lay)
      /\ lay.shape # "DynamicTailHook"
  BY DEF Over, ShapeHolds, HookInFront, BranchGiven, UnionFree
<1>2. p.used \in Nat /\ p.stores \in Within(p.used)
  <2>1. lay.shape # "Conditional"
    BY DEF Over
  <2>2. Contained(p)
    BY <1>1, <2>1, PlansContained DEF Panicking
  <2> QED
    BY <2>2 DEF Contained, Plans
<1>3. Filled(fields, c) /\ Len(fields) \in Nat /\ Len(fields) > 0
  <2>1. Filled(fields, c) /\ fields \in Seq(Items)
    BY WholeFilled
  <2> QED
    BY <2>1, FilledSized DEF LayWell
<1>4. CASE lay.shape = "FixedPadded"
  <2>1. \A i \in 1 .. Len(fields) : fields[i].kind \in SizedKinds
    BY <1>4 DEF LayWell, PaddedField, SizedKinds
  <2>2. p = PaddedPlan(fields, c)
    BY <1>4 DEF WritePlan
  <2>3. Makes(StoredAll(Zeroes(p.used), p.stores), p.used, PaddedSet(fields, c))
    BY <1>2, <1>3, <2>1, <2>2, PaddedMakes
  <2> QED
    BY <1>4, <2>3 DEF PacketSet
<1>5. CASE lay.shape # "FixedPadded"
  <2>1. Agree(SetOf(p.stores))
    <3>1. CASE lay.shape = "GreedyStructTail"
      <4>1. /\ p = GreedyStructTailPlan(fields, c, lay)
            /\ lay.region = Len(fields) /\ AllFixed(fields, 1, lay.region - 1) /\ fields[lay.region].kind = "recs"
        BY <3>1 DEF WritePlan, LayWell, LastBehindFixed
      <4> QED
        BY <1>3, <4>1, GreedyComplete
    <3>2. CASE lay.shape # "GreedyStructTail"
      <4>1. lay.shape \in Separate /\ lay.shape # "ContentHookNoWidth"
        BY <1>5, <3>2 DEF Over, Separate
      <4> QED
        BY <1>1, <4>1, PlainInOrder
    <3> QED
      BY <3>1, <3>2
  <2>2. Makes(StoredAll(Zeroes(p.used), p.stores), p.used, SetOf(p.stores))
    BY <1>2, <2>1, AgreedMakes
  <2> QED
    BY <1>5, <2>2 DEF PacketSet
<1> QED
  BY <1>4, <1>5

-----------------------------------------------------------------------------
(* The swap for each shape.                                                *)

LEMMA FixedSwaps ==
    ASSUME NEW fields, NEW c, NEW d, NEW i, Differ(fields, c, d, i), NEW lay, LayWell(fields, lay),
           lay.shape \in {"Fixed", "FixedPadded"}, CanEdit(fields, lay, i)
    PROVE  Swaps(fields, c, d, lay, i)
<1>1. /\ Filled(fields, c) /\ Filled(fields, d) /\ i \in 1 .. Len(fields) /\ Len(fields) \in 0 .. Len(fields)
      /\ fields \in Seq(Items)
  BY DEF Differ, Filled
<1>2. \A j \in 1 .. Len(fields) : fields[j].kind \in SizedKinds
  BY DEF LayWell, PaddedField, SizedKinds
<1> DEFINE at == Place(fields, c, lay, i)
           s == Store(at, FieldBytes(fields[i], c[i]))
           t == Store(at, FieldBytes(fields[i], d[i]))
<1>3. CASE lay.shape = "Fixed"
  <2>1. /\ InLine(fields, Upto(Len(fields)), Len(fields)) /\ Listed(Upto(Len(fields))) = 1 .. Len(fields)
    BY <1>1, <1>2, UptoSized
  <2>2. PICK S, T : /\ S = PacketSet(fields, c, lay) /\ T = PacketSet(fields, d, lay)
                    /\ S = SetOf(FixedPlan(fields, c).stores) /\ T = SetOf(FixedPlan(fields, d).stores)
    BY <1>3 DEF PacketSet, WritePlan
  <2>3. /\ S = Front(fields, Upto(Len(fields)), Values(fields, c, 0, <<>>))
        /\ T = Front(fields, Upto(Len(fields)), Values(fields, d, 0, <<>>))
    BY <1>1, <1>2, <2>2, FixedComplete
  <2>4. i \in Listed(Upto(Len(fields))) /\ i # 0
    BY <1>1, <2>1
  <2>5. at = Sum(fields, i - 1)
    BY <1>3 DEF Place
  <2> HIDE DEF at
  <2>6. Swapped(S, T, s, t)
    BY <2>1, <2>3, <2>4, <2>5, FrontSwaps
  <2> QED
    BY <2>2, <2>6 DEF Swaps, at
<1>4. CASE lay.shape = "FixedPadded"
  <2> DEFINE I == {j \in 1 .. Len(fields) : ~fields[j].skip}
             old(j) == Store(PaddedOffset(fields, j), FieldBytes(fields[j], c[j]))
             new(j) == Store(PaddedOffset(fields, j), FieldBytes(fields[j], d[j]))
             S == PacketSet(fields, c, lay)
             T == PacketSet(fields, d, lay)
  <2>1. i \in I /\ \A j \in I : j # i => old(j) = new(j)
    BY DEF Differ, CanEdit
  <2>2. s = old(i) /\ t = new(i)
    BY <1>4 DEF Place
  <2>3. s.at = t.at /\ Len(s.bytes) = Len(t.bytes)
    BY DEF Store, Differ
  <2>4. S = {old(j) : j \in I} /\ T = {new(j) : j \in I}
    BY <1>4 DEF PacketSet, PaddedSet
  <2> HIDE DEF old, new, I, S, T, s, t
  <2>5. Swapped(S, T, s, t)
    BY <2>1, <2>2, <2>3, <2>4 DEF Swapped
  <2> QED
    BY <2>5 DEF Swaps, S, T, s, t
<1> QED
  BY <1>3, <1>4

\* Fields in front of a region and the region itself.
LEMMA TailSwaps ==
    ASSUME NEW fields, NEW c, NEW d, NEW i, Differ(fields, c, d, i),
           NEW r, r \in 1 .. Len(fields), i <= r,
           NEW run, InLine(fields, run, r - 1), i < r => i \in Listed(run),
           NEW of, i # of, NEW length,
           NEW X, NEW Y, i < r => X = Y,
           NEW at, at = Sum(fields, i - 1), NEW s, s = Store(at, FieldBytes(fields[i], c[i])),
           NEW t, t = Store(at, FieldBytes(fields[i], d[i])),
           i = r => Swapped(X, Y, s, t)
    PROVE  Swapped(Front(fields, run, Values(fields, c, of, length)) \cup X,
                   Front(fields, run, Values(fields, d, of, length)) \cup Y, s, t)
<1> DEFINE S == Front(fields, run, Values(fields, c, of, length))
           T == Front(fields, run, Values(fields, d, of, length))
<1>1. /\ i \in Listed(run) => Swapped(S, T, s, t)
      /\ i \notin Listed(run) => S = T
  BY FrontSwaps
<1>2. fields \in Seq(Items) /\ i \in 1 .. Len(fields)
  BY DEF Differ, Filled
<1> HIDE DEF S, T
<1>3. ASSUME i < r PROVE Swapped(S \cup X, T \cup Y, s, t)
  <2>1. Swapped(S, T, s, t) /\ X = Y
    BY <1>1, <1>3
  <2>2. Swapped(S \cup X, T \cup X, s, t)
    BY <2>1, SwappedMore
  <2> QED
    BY <2>1, <2>2
<1>4. ASSUME i = r PROVE Swapped(S \cup X, T \cup Y, s, t)
  <2>1. i \notin Listed(run)
    <3>1. \A p \in 1 .. Len(run) : run[p] \in 1 .. r - 1
      BY DEF InLine
    <3>2. r \notin 1 .. r - 1
      BY <1>2, <1>4
    <3> QED
      BY <1>4, <3>1, <3>2 DEF Listed
  <2>2. Swapped(X, Y, s, t) /\ S = T
    BY <1>1, <1>4, <2>1
  <2>3. Swapped(S \cup X, S \cup Y, s, t)
    BY <2>2, SwappedMore
  <2> QED
    BY <2>2, <2>3
<1>5. i < r \/ i = r
  BY <1>2
<1>6. Swapped(S \cup X, T \cup Y, s, t)
  BY <1>3, <1>4, <1>5
<1> QED
  BY <1>6 DEF S, T

LEMMA InPrefix ==
    ASSUME NEW fields \in Seq(Items), NEW m \in 0 .. Len(fields), NEW i \in 1 .. m, fields[i].kind \in SizedKinds
    PROVE  i \in Listed(PrefixRun(fields, m + 1))
<1>1. (m + 1) - 1 = m /\ m \in Nat /\ i \in 1 .. Len(fields) /\ m <= Len(fields)
  BY LenProperties
<1>2. Upto(m) \in Seq(1 .. m) /\ Len(Upto(m)) = m /\ \A n \in 1 .. m : Upto(m)[n] = n
  BY <1>1 DEF Upto
<1>3. i \in Listed(Upto(m))
  BY <1>2 DEF Listed
<1>4. i \in Prefix(fields)
  BY <1>1 DEF Prefix, SizedKinds
<1>5. Listed(Those(Upto(m), Prefix(fields))) = Listed(Upto(m)) \cap Prefix(fields)
  BY <1>2, ThoseListed
<1> QED
  BY <1>1, <1>3, <1>4, <1>5 DEF PrefixRun

LEMMA OneSwaps ==
    ASSUME NEW s, NEW t, s.at = t.at, Len(s.bytes) = Len(t.bytes)
    PROVE  Swapped({s}, {t}, s, t)
BY DEF Swapped

\* What the fields of a region are written with.
LEMMA RegionDiffers ==
    ASSUME NEW fields, NEW c, NEW d, NEW i, Differ(fields, c, d, i), NEW r, r \in 1 .. Len(fields),
           fields[r].kind \in {"arr", "greedy", "ref", "recs"}, i = r => fields[r].kind # "recs"
    PROVE  /\ Len(d[r]) = Len(c[r]) /\ (i # r => d[r] = c[r])
           /\ i = r => /\ FieldBytes(fields[i], c[i]) = c[r] /\ FieldBytes(fields[i], d[i]) = d[r]
<1>1. fields[r].kind # "recs" => FieldBytes(fields[r], c[r]) = c[r] /\ FieldBytes(fields[r], d[r]) = d[r]
  BY DEF FieldBytes, IsNumber
<1> QED
  BY <1>1 DEF Differ

\* The stores in front of a region behind its length, and the region's.
TailStored(fields, c, r) ==
    Front(fields, PrefixRun(fields, r), Values(fields, c, fields[r].len.of, LenOf(Len(c[r]), fields[r].len)))
      \cup {Store(Sum(fields, r - 1), c[r])}

LEMMA TailStoredAre ==
    ASSUME NEW fields, NEW c, Filled(fields, c), NEW lay, lay.region = Len(fields), Len(fields) > 0,
           fields[lay.region].kind = "arr", LenField(fields, RunSet(fields, lay.region), fields[lay.region].len) # 0,
           NEW p, p = DynamicTailPlan(fields, c, lay), p.early = "none"
    PROVE  SetOf(p.stores) = TailStored(fields, c, lay.region)
<1>1. ASSUME NEW run, run = PrefixRun(fields, lay.region),
             NEW e, e = fields[lay.region].len,
             NEW length, length = LenOf(Len(c[lay.region]), e),
             NEW one, one = Store(Sum(fields, lay.region - 1), c[lay.region])
      PROVE  SetOf(p.stores) = Front(fields, run, Values(fields, c, e.of, length)) \cup {one}
  BY <1>1, DynamicTailComplete
<1> QED
  BY <1>1 DEF TailStored

LEMMA TailSet ==
    ASSUME NEW fields, NEW c, Filled(fields, c), NEW lay, LayWell(fields, lay), lay.shape = "DynamicTail",
           WritePlan(fields, c, lay).early = "none"
    PROVE  PacketSet(fields, c, lay) = TailStored(fields, c, lay.region)
<1>1. /\ lay.region = Len(fields) /\ Len(fields) > 0 /\ fields[lay.region].kind = "arr"
      /\ LenField(fields, RunSet(fields, lay.region), fields[lay.region].len) # 0
  <2>1. fields \in Seq(Items) /\ fields # <<>>
    BY DEF Filled, LayWell
  <2> QED
    BY <2>1 DEF LayWell
<1>2. PICK p : p = DynamicTailPlan(fields, c, lay) /\ p.early = "none"
  BY DEF WritePlan
<1>3. SetOf(p.stores) = TailStored(fields, c, lay.region)
  BY <1>1, <1>2, TailStoredAre
<1> QED
  BY <1>2, <1>3 DEF PacketSet, WritePlan

LEMMA OpenSet ==
    ASSUME NEW fields, NEW c, Filled(fields, c), NEW lay, LayWell(fields, lay), lay.shape = "DynamicTailOpen",
           NEW run, run = PrefixRun(fields, lay.region),
           NEW one, one = Store(Sum(fields, lay.region - 1), c[lay.region])
    PROVE  PacketSet(fields, c, lay) = Front(fields, run, Values(fields, c, 0, <<>>)) \cup {one}
<1>1. lay.region = Len(fields) /\ Len(fields) > 0 /\ fields[lay.region].kind = "greedy"
  <2>1. fields \in Seq(Items) /\ fields # <<>>
    BY DEF Filled, LayWell
  <2> QED
    BY <2>1 DEF LayWell
<1>2. PICK p : p = DynamicTailOpenPlan(fields, c, lay)
  BY DEF WritePlan
<1>3. SetOf(p.stores) = Front(fields, run, Values(fields, c, 0, <<>>)) \cup {one}
  BY <1>1, <1>2, OpenTailComplete
<1> QED
  BY <1>2, <1>3 DEF PacketSet, WritePlan

LEMMA GreedySet ==
    ASSUME NEW fields, NEW c, Filled(fields, c), NEW lay, LayWell(fields, lay), lay.shape = "GreedyStructTail",
           NEW run, run = Upto(lay.region - 1),
           NEW more, more = SetOf(RecordStores(fields[lay.region], Sum(fields, lay.region - 1), c[lay.region]))
    PROVE  PacketSet(fields, c, lay) = Front(fields, run, Values(fields, c, 0, <<>>)) \cup more
<1>1. /\ lay.region = Len(fields) /\ Len(fields) > 0 /\ fields[lay.region].kind = "recs"
      /\ AllFixed(fields, 1, lay.region - 1)
  <2>1. fields \in Seq(Items) /\ fields # <<>>
    BY DEF Filled, LayWell
  <2> QED
    BY <2>1 DEF LayWell, LastBehindFixed
<1>2. PICK p : p = GreedyStructTailPlan(fields, c, lay)
  BY DEF WritePlan
<1>3. SetOf(p.stores) = Front(fields, run, Values(fields, c, 0, <<>>)) \cup more
  BY <1>1, <1>2, GreedyComplete
<1> QED
  BY <1>2, <1>3 DEF PacketSet, WritePlan

LEMMA LastSwaps ==
    ASSUME NEW fields, NEW c, NEW d, NEW i, Differ(fields, c, d, i), NEW lay, LayWell(fields, lay),
           lay.shape \in {"DynamicTail", "DynamicTailOpen", "GreedyStructTail"}, CanEdit(fields, lay, i),
           WritePlan(fields, c, lay).early = "none", WritePlan(fields, d, lay).early = "none"
    PROVE  Swaps(fields, c, d, lay, i)
<1> DEFINE r == lay.region
           N == Len(fields)
           at == Sum(fields, i - 1)
           s == Store(at, FieldBytes(fields[i], c[i]))
           t == Store(at, FieldBytes(fields[i], d[i]))
           S == PacketSet(fields, c, lay)
           T == PacketSet(fields, d, lay)
<1>1. /\ Filled(fields, c) /\ Filled(fields, d) /\ i \in 1 .. N /\ fields \in Seq(Items) /\ N \in Nat
      /\ \A j \in 1 .. N : fields[j] \in Items
  BY DEF Differ, Filled
<1>2. /\ r = N /\ r \in 1 .. N /\ i <= r /\ r - 1 \in 0 .. N /\ (r - 1) + 1 = r
      /\ i < r => i \in 1 .. r - 1
      /\ fields[r].kind \in {"arr", "greedy", "recs"}
      /\ N > 0 /\ Sized(fields)
  <2>1. r = N /\ fields[r].kind \in {"arr", "greedy", "recs"} /\ fields # <<>>
    BY DEF LayWell, LastBehindFixed
  <2> HIDE DEF r
  <2> QED
    BY <1>1, <2>1, FilledSized
<1>3. i < r => fields[i].kind \in SizedKinds
  <2>1. CASE lay.shape = "GreedyStructTail"
    <3>1. AllFixed(fields, 1, r - 1)
      BY <2>1 DEF LayWell, LastBehindFixed
    <3> HIDE DEF r
    <3> QED
      BY <1>2, <3>1, FixedIsSized DEF AllFixed
  <2>2. CASE lay.shape # "GreedyStructTail"
    <3>1. BehindSized(fields, r)
      BY <2>2 DEF LayWell
    <3> HIDE DEF r
    <3> QED
      BY <1>2, <3>1 DEF BehindSized, CanEdit, SizedKinds
  <2> QED
    BY <2>1, <2>2
<1>4. Place(fields, c, lay, i) = at
  BY DEF Place
<1>5. s.at = t.at /\ Len(s.bytes) = Len(t.bytes)
  BY DEF Store, Differ
<1>6. i = r => fields[r].kind # "recs"
  BY DEF CanEdit
<1>7. /\ Len(d[r]) = Len(c[r]) /\ (i # r => d[r] = c[r])
      /\ i = r => FieldBytes(fields[i], c[i]) = c[r] /\ FieldBytes(fields[i], d[i]) = d[r]
  <2> HIDE DEF r
  <2> QED
    BY <1>2, <1>6, RegionDiffers
<1>8. /\ InLine(fields, Upto(r - 1), r - 1) /\ InLine(fields, PrefixRun(fields, r), r - 1)
      /\ i < r => i \in Listed(PrefixRun(fields, r))
  <2>1. PICK m \in 0 .. N : m = r - 1 /\ m + 1 = r /\ (i < r => i \in 1 .. m)
    BY <1>2
  <2>2. InLine(fields, Upto(m), m) /\ InLine(fields, PrefixRun(fields, m + 1), m)
    BY <1>1, <1>2, UptoInLine, PrefixInLine
  <2>3. i \in 1 .. m /\ fields[i].kind \in SizedKinds => i \in Listed(PrefixRun(fields, m + 1))
    BY <1>1, InPrefix
  <2> QED
    BY <1>3, <2>1, <2>2, <2>3
<1> HIDE DEF at, s, t, S, T
<1>9. ASSUME NEW run, run = PrefixRun(fields, r) \/ run = Upto(r - 1), i < r => i \in Listed(run),
             NEW of, i # of, NEW length, NEW X, NEW Y, i < r => X = Y, i = r => Swapped(X, Y, s, t),
             S = Front(fields, run, Values(fields, c, of, length)) \cup X,
             T = Front(fields, run, Values(fields, d, of, length)) \cup Y
      PROVE  Swaps(fields, c, d, lay, i)
  <2>1. InLine(fields, run, r - 1)
    BY <1>8, <1>9
  <2>2. PICK k : k = r /\ k \in 1 .. Len(fields) /\ i <= k /\ InLine(fields, run, k - 1) /\ (i < k => i \in Listed(run))
                 /\ (i < k => X = Y) /\ (i = k => Swapped(X, Y, s, t))
    BY <1>2, <1>9, <2>1
  <2>3. Swapped(Front(fields, run, Values(fields, c, of, length)) \cup X,
                Front(fields, run, Values(fields, d, of, length)) \cup Y, s, t)
    BY <1>9, <2>2, TailSwaps DEF at, s, t
  <2>4. Swapped(S, T, s, t)
    BY <1>9, <2>3
  <2> QED
    BY <1>4, <2>4 DEF Swaps, S, T, s, t
<1> DEFINE one == Store(Sum(fields, r - 1), c[r])
           other == Store(Sum(fields, r - 1), d[r])
<1>10. /\ i < r => {one} = {other}
       /\ i = r => Swapped({one}, {other}, s, t)
  <2>1. i < r => i # r
    <3>1. ASSUME NEW a \in Nat, NEW b \in Nat, a < b PROVE a # b
      BY <3>1
    <3>2. i \in Nat /\ r \in Nat
      <4> HIDE DEF r, N
      <4>1. i \in 1 .. N
        BY <1>1
      <4>2. r \in 1 .. N
        BY <1>2
      <4> QED
        BY <4>1, <4>2
    <3> QED
      BY <3>1, <3>2
  <2>2. i < r => {one} = {other}
    BY <1>7, <2>1
  <2>3. i = r => Swapped({one}, {other}, s, t)
    BY <1>5, <1>7, OneSwaps DEF s, t, at
  <2> QED
    BY <2>2, <2>3
<1>11. PICK X, Y : X = {one} /\ Y = {other} /\ (i < r => X = Y) /\ (i = r => Swapped(X, Y, s, t))
  BY <1>10
<1>12. PICK run : run = PrefixRun(fields, r) /\ (i < r => i \in Listed(run))
  BY <1>8
<1>13. CASE lay.shape = "DynamicTail"
  <2>1. PICK of, length : /\ of = fields[r].len.of
                          /\ length = LenOf(Len(c[r]), fields[r].len) /\ length = LenOf(Len(d[r]), fields[r].len)
    BY <1>7
  <2>2. i # of
    BY <1>13, <2>1 DEF CanEdit
  <2>3. S = TailStored(fields, c, r) /\ T = TailStored(fields, d, r)
    BY <1>1, <1>13, TailSet DEF S, T
  <2>4. S = Front(fields, run, Values(fields, c, of, length)) \cup X
    BY <1>11, <1>12, <2>1, <2>3 DEF TailStored
  <2>5. T = Front(fields, run, Values(fields, d, of, length)) \cup Y
    BY <1>11, <1>12, <2>1, <2>3 DEF TailStored
  <2> HIDE DEF r
  <2> QED
    BY <1>9, <1>11, <1>12, <2>2, <2>4, <2>5
<1>14. PICK none, nothing : none = 0 /\ nothing = <<>> /\ i # none
  BY <1>1
<1>15. CASE lay.shape = "DynamicTailOpen"
  <2>1. S = Front(fields, run, Values(fields, c, none, nothing)) \cup X
    BY <1>1, <1>11, <1>12, <1>14, <1>15, OpenSet DEF S
  <2>2. T = Front(fields, run, Values(fields, d, none, nothing)) \cup Y
    BY <1>1, <1>11, <1>12, <1>14, <1>15, OpenSet DEF T
  <2> HIDE DEF r
  <2> QED
    BY <1>9, <1>11, <1>12, <1>14, <2>1, <2>2
<1>16. CASE lay.shape = "GreedyStructTail"
  <2>1. fields[r].kind = "recs" /\ i # r /\ i < r
    <3>1. fields[r].kind = "recs"
      BY <1>16 DEF LayWell
    <3> HIDE DEF r
    <3> QED
      BY <1>1, <1>2, <1>6, <3>1
  <2>2. PICK more : /\ more = SetOf(RecordStores(fields[r], Sum(fields, r - 1), c[r]))
                    /\ more = SetOf(RecordStores(fields[r], Sum(fields, r - 1), d[r]))
    BY <1>7, <2>1
  <2>3. PICK front : front = Upto(r - 1) /\ i \in Listed(front)
    <3>1. PICK m \in Nat : m = r - 1 /\ i \in 1 .. m
      BY <1>2, <2>1
    <3>2. i \in Listed(Upto(m))
      <4>1. Len(Upto(m)) = m /\ Upto(m)[i] = i
        BY <3>1 DEF Upto
      <4> QED
        BY <3>1, <4>1 DEF Listed
    <3> QED
      BY <3>1, <3>2
  <2>4. S = Front(fields, front, Values(fields, c, none, nothing)) \cup more
    BY <1>1, <1>14, <1>16, <2>2, <2>3, GreedySet DEF S
  <2>5. T = Front(fields, front, Values(fields, d, none, nothing)) \cup more
    BY <1>1, <1>14, <1>16, <2>2, <2>3, GreedySet DEF T
  <2> HIDE DEF r
  <2> QED
    BY <1>9, <1>14, <2>1, <2>3, <2>4, <2>5
<1> QED
  BY <1>13, <1>15, <1>16

LEMMA ForwardStoredAre ==
    ASSUME NEW fields, NEW c, Filled(fields, c), NEW lay, ForwardIn(fields, lay.region),
           NEW p, p = ForwardPlan(fields, c, lay), p.early = "none"
    PROVE  SetOf(p.stores) = ForwardStored(fields, c, lay.region)
  BY ForwardComplete

LEMMA ForwardSet ==
    ASSUME NEW fields, NEW c, Filled(fields, c), NEW lay, LayWell(fields, lay), lay.shape = "Forward",
           WritePlan(fields, c, lay).early = "none"
    PROVE  PacketSet(fields, c, lay) = ForwardStored(fields, c, lay.region)
<1>1. ForwardIn(fields, lay.region)
  BY DEF LayWell
<1>2. PICK p : p = ForwardPlan(fields, c, lay) /\ p.early = "none"
  BY DEF WritePlan
<1>3. SetOf(p.stores) = ForwardStored(fields, c, lay.region)
  BY <1>1, <1>2, ForwardStoredAre
<1> QED
  BY <1>2, <1>3 DEF PacketSet, WritePlan

LEMMA BackSwaps ==
    ASSUME NEW fields, NEW c, NEW d, NEW i, Differ(fields, c, d, i), NEW r \in 1 .. Len(fields), NEW g,
           NEW S, S = BackSet(fields, c, r, g), NEW T, T = BackSet(fields, d, r, g),
           NEW at, at = g + Sum(fields, i - 1)
    PROVE  /\ i > r => Swapped(S, T, Store(at, FieldBytes(fields[i], c[i])), Store(at, FieldBytes(fields[i], d[i])))
           /\ i <= r => S = T
<1> DEFINE I == r + 1 .. Len(fields)
           old(j) == Store(g + Sum(fields, j - 1), FieldBytes(fields[j], c[j]))
           new(j) == Store(g + Sum(fields, j - 1), FieldBytes(fields[j], d[j]))
<1>1. /\ fields \in Seq(Items) /\ i \in 1 .. Len(fields) /\ Len(fields) \in Nat
      /\ I \subseteq 1 .. Len(fields)
  BY DEF Differ, Filled
<1>2. (i > r => i \in I) /\ (i <= r => i \notin I)
  BY <1>1
<1>3. \A j \in I : j # i => old(j) = new(j)
  BY <1>1 DEF Differ
<1>4. S = {old(j) : j \in I} /\ T = {new(j) : j \in I}
  BY DEF BackSet
<1>5. old(i) = Store(at, FieldBytes(fields[i], c[i])) /\ new(i) = Store(at, FieldBytes(fields[i], d[i]))
      /\ old(i).at = new(i).at /\ Len(old(i).bytes) = Len(new(i).bytes)
  BY DEF Store, Differ
<1> HIDE DEF I, old, new
<1>6. i \in I => Swapped(S, T, old(i), new(i))
  BY <1>3, <1>4, <1>5 DEF Swapped
<1>7. i \notin I => S = T
  BY <1>3, <1>4
<1> QED
  BY <1>2, <1>5, <1>6, <1>7

LEMMA ForwardSwaps ==
    ASSUME NEW fields, NEW c, NEW d, NEW i, Differ(fields, c, d, i), NEW lay, LayWell(fields, lay),
           lay.shape = "Forward", CanEdit(fields, lay, i),
           WritePlan(fields, c, lay).early = "none", WritePlan(fields, d, lay).early = "none"
    PROVE  Swaps(fields, c, d, lay, i)
<1> DEFINE N == Len(fields)
           S == PacketSet(fields, c, lay)
           T == PacketSet(fields, d, lay)
           at == Place(fields, c, lay, i)
           s == Store(at, FieldBytes(fields[i], c[i]))
           t == Store(at, FieldBytes(fields[i], d[i]))
<1>1. PICK r : r = lay.region
  OBVIOUS
<1>2. /\ Filled(fields, c) /\ Filled(fields, d) /\ i \in 1 .. N /\ fields \in Seq(Items) /\ N \in Nat
      /\ r \in 1 .. N /\ AllFixed(fields, 1, r - 1) /\ fields[r].kind \in {"arr", "ref", "recs"}
      /\ r \in Nat /\ i \in Nat
  <2>1. ForwardIn(fields, r) /\ Filled(fields, c) /\ Filled(fields, d)
    BY <1>1 DEF LayWell, Differ
  <2> QED
    BY <2>1 DEF Differ, Filled, ForwardIn
<1>3. /\ i = r => fields[r].kind # "recs"
      /\ fields[r].len.of # i /\ fields[r].kind \in {"arr", "greedy", "ref", "recs"}
  BY <1>1, <1>2 DEF CanEdit
<1>4. /\ Len(d[r]) = Len(c[r]) /\ (i # r => d[r] = c[r])
      /\ i = r => FieldBytes(fields[i], c[i]) = c[r] /\ FieldBytes(fields[i], d[i]) = d[r]
  BY <1>2, <1>3, RegionDiffers
<1>5. PICK n, g : /\ n = ForwardLens(fields[r], c[r]) /\ n = ForwardLens(fields[r], d[r])
                  /\ g = ForwardBytes(fields[r], n)
  BY <1>4 DEF ForwardLens
<1>6. PICK run, of, length : /\ run = Upto(r - 1) /\ of = fields[r].len.of /\ length = LenOf(n, fields[r].len)
  OBVIOUS
<1>7. PICK A, B, X, Y, P, Q :
        /\ A = Front(fields, run, Values(fields, c, of, length)) /\ B = Front(fields, run, Values(fields, d, of, length))
        /\ X = RegionSet(fields, c, r) /\ Y = RegionSet(fields, d, r)
        /\ P = BackSet(fields, c, r, g) /\ Q = BackSet(fields, d, r, g)
  OBVIOUS
<1>8. S = (A \cup X) \cup P
  <2>1. S = ForwardStored(fields, c, r)
    BY <1>1, <1>2, ForwardSet
  <2> QED
    BY <1>5, <1>6, <1>7, <2>1 DEF ForwardStored
<1>9. T = (B \cup Y) \cup Q
  <2>1. T = ForwardStored(fields, d, r)
    BY <1>1, <1>2, ForwardSet
  <2> QED
    BY <1>5, <1>6, <1>7, <2>1 DEF ForwardStored
<1>10. /\ i > r => at = g + Sum(fields, i - 1)
       /\ i <= r => at = Sum(fields, i - 1)
  <2>1. i <= r => ~(i > r)
    BY <1>2
  <2> QED
    BY <1>1, <1>5, <2>1 DEF Place
<1> HIDE DEF S, T, at
<1>11. InLine(fields, run, r - 1) /\ (i < r => i \in Listed(run)) /\ (i >= r => i \notin Listed(run))
  <2>1. PICK m \in 0 .. Len(fields) : m = r - 1
    BY <1>2
  <2>2. \A j \in 1 .. m : fields[j].kind \in SizedKinds
    BY <1>2, <2>1, FixedIsSized DEF AllFixed
  <2>3. InLine(fields, Upto(m), m) /\ Listed(Upto(m)) = 1 .. m
    BY <1>2, <2>2, UptoSized
  <2> QED
    BY <1>2, <1>6, <2>1, <2>3
<1>12. ASSUME i < r PROVE Swapped(S, T, s, t)
  <2>1. at = Sum(fields, i - 1) /\ i # r /\ i <= r
    BY <1>2, <1>10, <1>12
  <2>2. Swapped(A, B, s, t)
    BY <1>3, <1>6, <1>7, <1>11, <1>12, <2>1, FrontSwaps
  <2>3. X = Y
    BY <1>4, <1>7, <2>1 DEF RegionSet
  <2>4. P = Q
    BY <1>2, <1>7, <2>1, BackSwaps
  <2>5. Swapped(A \cup X, B \cup X, s, t)
    BY <2>2, SwappedMore
  <2>6. Swapped((A \cup X) \cup P, (B \cup X) \cup P, s, t)
    BY <2>5, SwappedMore
  <2> QED
    BY <1>8, <1>9, <2>3, <2>4, <2>6
<1>13. ASSUME i >= r PROVE A = B
  BY <1>3, <1>6, <1>7, <1>11, <1>13, FrontSwaps
<1>14. ASSUME i = r PROVE Swapped(S, T, s, t)
  <2>1. at = Sum(fields, r - 1) /\ i <= r /\ i >= r
    BY <1>2, <1>10, <1>14
  <2>2. X = {s} /\ Y = {t}
    BY <1>3, <1>4, <1>7, <1>14, <2>1 DEF RegionSet
  <2>3. s.at = t.at /\ Len(s.bytes) = Len(t.bytes)
    BY <1>4, <1>14 DEF Store
  <2>4. Swapped(X, Y, s, t)
    BY <2>2, <2>3, OneSwaps
  <2>5. A = B /\ P = Q
    BY <1>2, <1>7, <1>13, <2>1, BackSwaps
  <2>6. Swapped(A \cup X, A \cup Y, s, t)
    BY <2>4, SwappedMore
  <2>7. Swapped((A \cup X) \cup P, (A \cup Y) \cup P, s, t)
    BY <2>6, SwappedMore
  <2> QED
    BY <1>8, <1>9, <2>5, <2>7
<1>15. ASSUME i > r PROVE Swapped(S, T, s, t)
  <2>1. at = g + Sum(fields, i - 1) /\ i >= r /\ i # r
    BY <1>2, <1>10, <1>15
  <2>2. Swapped(P, Q, s, t)
    BY <1>2, <1>7, <1>15, <2>1, BackSwaps
  <2>3. A = B
    BY <1>13, <2>1
  <2>4. X = Y
    BY <1>4, <1>7, <2>1 DEF RegionSet
  <2>5. Swapped((A \cup X) \cup P, (A \cup X) \cup Q, s, t)
    BY <2>2, SwappedMore
  <2> QED
    BY <1>8, <1>9, <2>3, <2>4, <2>5
<1>16. i < r \/ i = r \/ i > r
  BY <1>2
<1>17. Swapped(S, T, s, t)
  BY <1>12, <1>14, <1>15, <1>16
<1> QED
  BY <1>17 DEF Swaps, S, T, at

LEMMA OverSwaps ==
    ASSUME NEW fields, NEW c, NEW d, NEW i, Differ(fields, c, d, i), NEW lay, LayWell(fields, lay),
           lay.shape \in Over, CanEdit(fields, lay, i),
           WritePlan(fields, c, lay).early = "none", WritePlan(fields, d, lay).early = "none"
    PROVE  Swaps(fields, c, d, lay, i)
BY FixedSwaps, LastSwaps, ForwardSwaps DEF Over

-----------------------------------------------------------------------------
(* The length that writer_over reads in a packet is the one it has.        *)

LEMMA LengthInPacket ==
    ASSUME StructInv, layout.shape = "Forward", plan.early = "none",
           NEW r, r = layout.region, NEW e, e = items[r].len, NEW of, of = e.of,
           NEW n, n = ForwardLens(items[r], content[r])
    PROVE  /\ of \in 1 .. r - 1 /\ IsNumber(items[of]) /\ e \in Exprs /\ Affine(e) /\ Sum(items, of - 1) \in Nat
           /\ Sum(items, of - 1) + 1 <= plan.used => Packet[Sum(items, of - 1) + 1] = LenValue(n, e)
<1>1. /\ Whole(items, content) /\ LayWell(items, layout) /\ plan = WritePlan(items, content, layout)
      /\ ForwardIn(items, r) /\ Filled(items, content) /\ items \in Seq(Items)
  <2>1. Whole(items, content) /\ LayWell(items, layout) /\ plan = WritePlan(items, content, layout)
    BY DEF StructInv
  <2>2. Filled(items, content) /\ items \in Seq(Items)
    BY <2>1, WholeFilled
  <2> QED
    BY <2>1, <2>2 DEF LayWell
<1>2. r \in 1 .. Len(items) /\ items[r] \in Items /\ r \in Nat /\ Len(items) \in Nat
      /\ LenField(items, 1 .. r - 1, items[r].len) # 0
  BY <1>1 DEF ForwardIn
<1>3. e \in Exprs
  BY <1>2, ItemType
<1>4. of \in 1 .. r - 1 /\ IsNumber(items[of]) /\ Affine(e)
  <2>1. e.of \in 1 .. r - 1 /\ IsNumber(items[e.of])
    BY <1>2, <1>3, LenFieldIs
  <2>2. Affine(e)
    BY <1>2 DEF LenField
  <2> QED
    BY <2>1, <2>2
<1>5. Sum(items, of - 1) \in Nat
  <2>1. of - 1 \in 0 .. Len(items) /\ Sized(items)
    BY <1>1, <1>2, <1>4, FilledSized
  <2> QED
    BY <2>1, SumSteps
<1>6. PICK run, w : /\ run = Upto(r - 1) /\ w = Values(items, content, e.of, LenOf(ForwardLens(items[r], content[r]), items[r].len))
  OBVIOUS
<1>7. w[of] = <<LenValue(n, e)>>
  <2>1. of \in 1 .. Len(items)
    BY <1>2, <1>4
  <2> QED
    BY <1>6, <2>1 DEF Values, LenOf
<1>8. of \in Listed(run)
  <2>1. PICK m \in Nat : m = r - 1
    BY <1>2, <1>4
  <2>2. Len(Upto(m)) = m /\ of \in 1 .. m /\ Upto(m)[of] = of
    BY <1>4, <2>1 DEF Upto
  <2> QED
    BY <1>6, <2>1, <2>2 DEF Listed
<1>9. PICK s : s = Store(Sum(items, of - 1), <<LenValue(n, e)>>) /\ s \in Front(items, run, w)
  BY <1>7, <1>8 DEF Front
<1>10. PacketSet(items, content, layout) = ForwardStored(items, content, r)
  BY <1>1, ForwardSet
<1>11. s \in PacketSet(items, content, layout)
  BY <1>6, <1>9, <1>10 DEF ForwardStored
<1>12. Makes(Packet, plan.used, PacketSet(items, content, layout))
  <2>1. layout.shape \in Over
    BY DEF Over
  <2>2. Makes(StoredAll(Zeroes(plan.used), plan.stores), plan.used, PacketSet(items, content, layout))
    BY <1>1, <2>1, OverMakes
  <2> QED
    BY <2>2 DEF Packet
<1>13. ASSUME Sum(items, of - 1) + 1 <= plan.used
       PROVE  Packet[Sum(items, of - 1) + 1] = LenValue(n, e)
  <2>1. PICK a \in Nat, k \in Nat : a = Sum(items, of - 1) /\ k = a + 1
    BY <1>5
  <2>2. plan.used \in Nat
    BY PlanInv
  <2>3. k \in 1 .. plan.used
    BY <1>13, <2>1, <2>2
  <2>4. s.at = a /\ s.bytes = <<LenValue(n, e)>> /\ Len(s.bytes) = 1 /\ s.bytes[1] = LenValue(n, e)
    BY <1>9, <2>1 DEF Store
  <2>5. Holds(s, k) /\ ByteOf(s, k) = LenValue(n, e)
    BY <2>1, <2>4 DEF Holds, ByteOf
  <2>6. Packet[k] = ByteOf(s, k)
    BY <1>11, <1>12, <2>3, <2>5 DEF Makes
  <2> QED
    BY <2>1, <2>5, <2>6
<1> QED
  BY <1>3, <1>4, <1>5, <1>13

LEMMA LensAtLeast ==
    ASSUME StructInv, layout.shape = "Forward", plan.early = "none",
           NEW bytes \in Bytes, Len(bytes) <= plan.used, \A k \in 1 .. Len(bytes) : bytes[k] = Packet[k],
           NEW s, s = Read(items, bytes), s.ok,
           NEW n, n = ForwardLens(items[layout.region], content[layout.region])
    PROVE  RegionLens(s) \in Nat /\ n \in Nat /\ n <= RegionLens(s)
<1>1. PICK r, e, of : r = layout.region /\ e = items[r].len /\ of = e.of
  OBVIOUS
<1>2. /\ TailIn(items, r) /\ ForwardIn(items, r) /\ Filled(items, content) /\ items[r] \in Items
      /\ r \in 1 .. Len(items) /\ Len(items) \in Nat
  <2>1. layout.shape \in Over /\ layout.shape \notin {"Fixed", "FixedPadded"}
    BY DEF Over
  <2>2. TailIn(items, r)
    BY <1>1, <2>1, OverTail
  <2>3. ForwardIn(items, r) /\ Filled(items, content)
    BY <1>1, WholeFilled DEF StructInv, LayWell
  <2> QED
    BY <2>2, <2>3 DEF TailIn
<1>3. FrontRead(items, r, bytes, Len(items), s)
  BY <1>2, FrontReads DEF ForwardIn
<1>4. /\ of \in 1 .. r - 1 /\ IsNumber(items[of]) /\ e \in Exprs /\ Affine(e) /\ Sum(items, of - 1) \in Nat
      /\ Sum(items, of - 1) + 1 <= plan.used => Packet[Sum(items, of - 1) + 1] = LenValue(n, e)
  BY <1>1, LengthInPacket
<1>5. n \in Nat
  <2>1. 0 \in Nat
    OBVIOUS
  <2> QED
    BY <1>1, <1>2, <2>1, ForwardRegion
<1>6. s.vals[of] = bytes[Sum(items, of - 1) + 1] /\ Sum(items, of - 1) + 1 <= Len(bytes)
  <2>1. of \in 1 .. Len(items) /\ of < r
    BY <1>2, <1>4
  <2> QED
    BY <1>3, <1>4, <2>1 DEF FrontRead
<1>7. s.vals[of] = LenValue(n, e)
  <2>1. PICK k \in Nat : k = Sum(items, of - 1) + 1 /\ k >= 1
    BY <1>4
  <2>2. Len(bytes) \in Nat /\ plan.used \in Nat
    BY PlanInv DEF Bytes
  <2>3. k \in 1 .. Len(bytes) /\ k <= plan.used
    BY <1>6, <2>1, <2>2
  <2>4. bytes[k] = Packet[k]
    BY <2>3
  <2> QED
    BY <1>4, <1>6, <2>1, <2>3, <2>4
<1>8. Amount(e, s) \in Nat /\ n <= Amount(e, s)
  <2>1. PICK b : b = s.vals[e.of] /\ b = LenValue(n, e)
    BY <1>1, <1>7
  <2> QED
    BY <1>4, <1>5, <2>1, SolvedIsNotLess
<1>9. RegionLens(s) = Amount(e, s)
  <2>1. RegionLens(s) = IF items[r].kind = "ref" THEN Amount(e, s) ELSE Len(s.vals[r])
    <3>1. RegionLens(s) = IF items[layout.region].kind = "ref" THEN Amount(items[layout.region].len, s)
                                                              ELSE Len(s.vals[layout.region])
      BY Zenon DEF RegionLens
    <3> QED
      BY <1>1, <3>1
  <2>2. items[r].kind # "ref" => Counting(items[r])
    BY <1>1, <1>2, <1>4 DEF ForwardIn, Counting, Affine
  <2>3. r <= Len(items)
    BY <1>2
  <2>4. Counting(items[r]) => Len(s.vals[r]) = Amount(e, s)
    BY <1>1, <1>3, <2>3 DEF FrontRead
  <2> QED
    BY <2>1, <2>2, <2>4
<1> QED
  BY <1>5, <1>8, <1>9

\* Not more bytes are asked for than the packet has: then it is no more.
LEMMA LensIs ==
    ASSUME StructInv, layout.shape = "Forward", plan.early = "none",
           NEW bytes \in Bytes, Len(bytes) <= plan.used, \A k \in 1 .. Len(bytes) : bytes[k] = Packet[k],
           NEW s, s = Read(items, bytes), s.ok, ~(OverNeed(RegionLens(s)) > Len(bytes))
    PROVE  RegionLens(s) = ForwardLens(items[layout.region], content[layout.region])
<1>1. PICK r, it, n, lens : /\ r = layout.region /\ it = items[r] /\ n = ForwardLens(it, content[r])
                            /\ lens = RegionLens(s)
  OBVIOUS
<1>2. lens \in Nat /\ n \in Nat /\ n <= lens
  BY <1>1, LensAtLeast
<1>3. /\ ForwardIn(items, r) /\ Filled(items, content) /\ it \in Items /\ LayWell(items, layout)
      /\ r \in 1 .. Len(items) /\ Len(items) \in Nat /\ Sized(items) /\ r \in Nat
      /\ FieldWell(it, r)
  <2>1. ForwardIn(items, r) /\ Filled(items, content) /\ items \in Seq(Items) /\ LayWell(items, layout)
    BY <1>1, WholeFilled DEF StructInv, LayWell
  <2>2. r \in 1 .. Len(items)
    BY <2>1 DEF ForwardIn
  <2> QED
    BY <1>1, <2>1, <2>2, FilledSized DEF Filled
<1>4. PICK a \in Nat : a = Sum(items, Len(items)) /\ a = RunBytes(items, PrefixRun(items, Len(items) + 1))
  <2>1. Len(items) \in 0 .. Len(items)
    BY <1>3
  <2> QED
    BY <1>3, <2>1, SumSteps, RunBytesUpto
<1>5. OverNeed(lens) = a + ForwardBytes(it, lens)
  <2>1. layout.shape \notin {"Fixed", "FixedPadded"}
    OBVIOUS
  <2>2. OverNeed(lens)
          = RunBytes(items, PrefixRun(items, Len(items) + 1))
              + (IF items[layout.region].kind = "recs" THEN lens * items[layout.region].size ELSE lens)
    BY <2>1, Zenon DEF OverNeed
  <2> QED
    BY <1>1, <1>4, <2>2 DEF ForwardBytes
<1>6. PICK p \in Nat, q \in Nat : /\ p = Sum(items, r - 1) /\ q = RunBytes(items, Behind(items, r)) /\ p + q = a
  <2>1. r - 1 \in 0 .. Len(items) /\ Len(items) + 1 \in r + 1 .. Len(items) + 1 /\ (Len(items) + 1) - 1 = Len(items)
    BY <1>3
  <2>2. Sum(items, r) = Sum(items, r - 1) + Size(items[r]) /\ Size(items[r]) = 0 /\ Sum(items, r - 1) \in Nat
    BY <1>3, <2>1, SumSteps DEF ForwardIn, Size
  <2>3. /\ Sum(items, r) + OffsetIn(items, Behind(items, r), Len(items) + 1) = Sum(items, (Len(items) + 1) - 1)
        /\ OffsetIn(items, Behind(items, r), Len(items) + 1) \in Nat
    BY <1>3, <2>1, OffsetBehind
  <2>4. RunBytes(items, Behind(items, r)) = OffsetIn(items, Behind(items, r), Len(items) + 1)
    BY DEF RunBytes
  <2>5. PICK p \in Nat, q \in Nat, b \in Nat :
          /\ p = Sum(items, r - 1) /\ q = RunBytes(items, Behind(items, r)) /\ b = Sum(items, r)
    BY <2>2, <2>3, <2>4
  <2>6. b = p
    BY <2>2, <2>5
  <2>7. Sum(items, r) + OffsetIn(items, Behind(items, r), Len(items) + 1) = Sum(items, Len(items))
    BY <2>1, <2>3
  <2>8. b + q = a
    BY <1>4, <2>4, <2>5, <2>7
  <2> QED
    BY <2>5, <2>6, <2>8
<1>7. ForwardBytes(it, n) \in Nat
  <2>1. 0 \in Nat
    OBVIOUS
  <2> QED
    BY <1>1, <1>3, <2>1, ForwardRegion
<1>8. plan.used = p + ForwardBytes(it, n) + q
  <2>1. layout.shape \in Over
    BY DEF Over
  <2>2. plan.used = OverUsed(items, content, layout)
    BY <1>3, <2>1, OverUsedIs DEF StructInv
  <2>3. OverUsed(items, content, layout) = Sum(items, r - 1) + ForwardBytes(it, n) + RunBytes(items, Behind(items, r))
    BY <1>1 DEF OverUsed
  <2> QED
    BY <1>6, <2>2, <2>3
<1>9. ForwardBytes(it, lens) \in Nat /\ ForwardBytes(it, lens) <= ForwardBytes(it, n)
  <2>1. it.size \in Nat
    BY <1>3, ItemType
  <2>2. ForwardBytes(it, lens) \in Nat
    <3>1. lens * it.size \in Nat
      BY <1>2, <2>1
    <3> QED
      BY <1>2, <3>1 DEF ForwardBytes
  <2>3. PICK x \in Nat, y \in Nat, l \in Nat : x = ForwardBytes(it, lens) /\ y = ForwardBytes(it, n) /\ l = Len(bytes)
    BY <1>7, <2>2 DEF Bytes
  <2>4. ~(a + x > l) /\ l <= p + y + q
    BY <1>1, <1>5, <1>8, <2>3
  <2>5. x <= y
    BY <1>6, <2>3, <2>4
  <2> QED
    BY <2>2, <2>3, <2>5
<1>10. lens <= n
  <2>1. CASE it.kind # "recs"
    BY <1>9, <2>1 DEF ForwardBytes
  <2>2. CASE it.kind = "recs"
    <3>1. PICK z \in Nat : z = it.size /\ z > 0
      BY <1>3, <2>2, ItemType DEF FieldWell
    <3>2. lens * z <= n * z
      BY <1>9, <2>2, <3>1 DEF ForwardBytes
    <3>3. ASSUME n + 1 <= lens PROVE FALSE
      <4>1. PICK x \in Nat : lens = (n + 1) + x
        BY <1>2, <3>3
      <4>2. lens * z = n * z + z + x * z /\ n * z \in Nat /\ x * z \in Nat
        BY <1>2, <3>1, <4>1
      <4> QED
        BY <3>1, <3>2, <4>2
    <3> QED
      BY <1>2, <3>3
  <2> QED
    BY <2>1, <2>2
<1> QED
  BY <1>1, <1>2, <1>10

\* Where the writer finds a field is where the packet has it.
LEMMA FieldAtPlace ==
    ASSUME Filled(items, content), LayWell(items, layout), NEW i \in 1 .. Len(items), NEW lens,
           layout.shape = "Forward" => lens = ForwardLens(items[layout.region], content[layout.region])
    PROVE  FieldAt(lens, i) = Place(items, content, layout, i)
<1>1. PICK r, at, place : r = layout.region /\ at = FieldAt(lens, i) /\ place = Place(items, content, layout, i)
  OBVIOUS
<1>2. Sized(items) /\ Len(items) \in Nat /\ i \in Nat /\ items \in Seq(Items)
  BY FilledSized DEF Filled, Sized
<1>3. OffsetIn(items, PrefixRun(items, Len(items) + 1), i) = Sum(items, i - 1) /\ Sum(items, i - 1) \in Nat
  <2>1. Len(items) \in 0 .. Len(items) /\ i \in 1 .. Len(items) + 1 /\ i - 1 <= Len(items) /\ i - 1 \in 0 .. Len(items)
    BY <1>2
  <2>2. OffsetIn(items, PrefixRun(items, Len(items) + 1), i) = Sum(items, IF i - 1 <= Len(items) THEN i - 1 ELSE Len(items))
    BY <1>2, <2>1, OffsetPrefix
  <2> QED
    BY <1>2, <2>1, <2>2, SumSteps
<1>4. CASE layout.shape = "FixedPadded"
  BY <1>4 DEF FieldAt, Place
<1>5. CASE layout.shape = "Forward" /\ i > layout.region
  <2>1. ForwardIn(items, r) /\ r \in 1 .. Len(items) /\ r \in Nat
    BY <1>1, <1>2, <1>5 DEF LayWell, ForwardIn
  <2>2. PICK g \in Nat : g = ForwardBytes(items[r], lens)
                         /\ g = ForwardBytes(items[r], ForwardLens(items[r], content[r]))
    <3>1. 0 \in Nat
      OBVIOUS
    <3> QED
      BY <1>1, <1>5, <2>1, <3>1, ForwardRegion
  <2>3. at = RunBytes(items, Upto(r - 1)) + g + OffsetIn(items, Behind(items, r), i)
    BY <1>1, <1>5, <2>2 DEF FieldAt, Behind
  <2>4. place = g + Sum(items, i - 1)
    BY <1>1, <1>5, <2>2 DEF Place
  <2>5. RunBytes(items, Upto(r - 1)) = Sum(items, r - 1) /\ Sum(items, r - 1) \in Nat
    <3>1. r - 1 \in 0 .. Len(items)
      BY <1>2, <2>1
    <3> QED
      BY <1>2, <3>1, RunBytesUpto, SumSteps
  <2>6. Sum(items, r) = Sum(items, r - 1) + Size(items[r]) /\ Size(items[r]) = 0
    BY <1>2, <2>1, SumSteps DEF ForwardIn, Size
  <2>7. /\ Sum(items, r) + OffsetIn(items, Behind(items, r), i) = Sum(items, i - 1)
        /\ OffsetIn(items, Behind(items, r), i) \in Nat
    <3>1. r \in 1 .. Len(items) /\ i \in r + 1 .. Len(items) + 1
      BY <1>1, <1>2, <1>5, <2>1
    <3> QED
      BY <1>2, <3>1, OffsetBehind
  <2>8. PICK a \in Nat, b \in Nat, o \in Nat :
          a = Sum(items, r - 1) /\ b = Sum(items, i - 1) /\ o = OffsetIn(items, Behind(items, r), i)
    BY <1>3, <2>5, <2>7
  <2>9. Sum(items, r) = a
    BY <2>6, <2>8
  <2>10. a + o = b
    BY <2>7, <2>8, <2>9
  <2>11. at = a + g + o
    BY <2>3, <2>5, <2>8
  <2> QED
    BY <1>1, <2>4, <2>8, <2>10, <2>11
<1>6. CASE layout.shape # "FixedPadded" /\ ~(layout.shape = "Forward" /\ i > layout.region)
  <2>1. FieldAt(lens, i) = OffsetIn(items, PrefixRun(items, Len(items) + 1), i)
    BY <1>6 DEF FieldAt
  <2>2. Place(items, content, layout, i) = Sum(items, i - 1)
    BY <1>6 DEF Place
  <2> QED
    BY <1>3, <2>1, <2>2
<1> QED
  BY <1>4, <1>5, <1>6

\* The error that stops a writer does not depend on the value of a field.
LEMMA SameErrors ==
    ASSUME NEW fields, NEW c, NEW d, NEW i, Differ(fields, c, d, i), NEW lay, LayWell(fields, lay),
           lay.shape \in Over, CanEdit(fields, lay, i)
    PROVE  /\ WritePlan(fields, c, lay).early = WritePlan(fields, d, lay).early
           /\ WritePlan(fields, c, lay).late = "none"
<1>1. ASSUME NEW need, NEW stores, NEW early
      PROVE  /\ Plan(need, stores).early = "none" /\ Plan(need, stores).late = "none"
             /\ [Plan(need, stores) EXCEPT !.early = early].early = early
             /\ [Plan(need, stores) EXCEPT !.early = early].late = "none"
  BY DEF Plan
<1>2. PICK r : r = lay.region
  OBVIOUS
<1>3. ASSUME lay.shape \in {"DynamicTail", "Forward"}
      PROVE  Len(d[r]) = Len(c[r]) /\ ForwardLens(fields[r], d[r]) = ForwardLens(fields[r], c[r])
  <2>1. r \in 1 .. Len(fields) /\ fields[r].kind \in {"arr", "ref", "recs"}
    <3>1. fields \in Seq(Items) /\ fields # <<>>
      BY DEF Differ, Filled, LayWell
    <3> QED
      BY <1>2, <1>3, <3>1 DEF LayWell, ForwardIn
  <2>2. fields[r].kind \in {"arr", "greedy", "ref", "recs"} /\ (i = r => fields[r].kind # "recs")
    BY <2>1 DEF CanEdit
  <2>3. Len(d[r]) = Len(c[r])
    BY <2>1, <2>2, RegionDiffers
  <2> QED
    BY <2>3 DEF ForwardLens
<1>4. CASE lay.shape = "DynamicTail"
  <2>1. WritePlan(fields, c, lay) = DynamicTailPlan(fields, c, lay) /\ WritePlan(fields, d, lay) = DynamicTailPlan(fields, d, lay)
    BY <1>4 DEF WritePlan
  <2>2. ASSUME NEW v
        PROVE  /\ DynamicTailPlan(fields, v, lay).early = LenError(fields[r].len, Len(v[r]))
               /\ DynamicTailPlan(fields, v, lay).late = "none"
    BY <1>1, <1>2 DEF DynamicTailPlan
  <2> QED
    BY <1>3, <1>4, <2>1, <2>2
<1>5. CASE lay.shape = "Forward"
  <2>1. WritePlan(fields, c, lay) = ForwardPlan(fields, c, lay) /\ WritePlan(fields, d, lay) = ForwardPlan(fields, d, lay)
    BY <1>5 DEF WritePlan
  <2>2. ASSUME NEW v
        PROVE  /\ ForwardPlan(fields, v, lay).early = LenError(fields[r].len, ForwardLens(fields[r], v[r]))
               /\ ForwardPlan(fields, v, lay).late = "none"
    BY <1>1, <1>2 DEF ForwardPlan
  <2> QED
    BY <1>3, <1>5, <2>1, <2>2
<1>6. CASE lay.shape = "Fixed"
  <2>1. ASSUME NEW v PROVE FixedPlan(fields, v).early = "none" /\ FixedPlan(fields, v).late = "none"
    BY <1>1 DEF FixedPlan
  <2>2. \A v : WritePlan(fields, v, lay) = FixedPlan(fields, v)
    BY <1>6 DEF WritePlan
  <2> QED
    BY <2>1, <2>2
<1>7. CASE lay.shape = "FixedPadded"
  <2>1. ASSUME NEW v PROVE PaddedPlan(fields, v).early = "none" /\ PaddedPlan(fields, v).late = "none"
    BY <1>1, Zenon DEF PaddedPlan
  <2>2. \A v : WritePlan(fields, v, lay) = PaddedPlan(fields, v)
    BY <1>7 DEF WritePlan
  <2> QED
    BY <2>1, <2>2
<1>8. CASE lay.shape = "DynamicTailOpen"
  <2>1. ASSUME NEW v PROVE DynamicTailOpenPlan(fields, v, lay).early = "none" /\ DynamicTailOpenPlan(fields, v, lay).late = "none"
    BY <1>1, Zenon DEF DynamicTailOpenPlan
  <2>2. \A v : WritePlan(fields, v, lay) = DynamicTailOpenPlan(fields, v, lay)
    BY <1>8 DEF WritePlan
  <2> QED
    BY <2>1, <2>2
<1>9. CASE lay.shape = "GreedyStructTail"
  <2>1. ASSUME NEW v PROVE GreedyStructTailPlan(fields, v, lay).early = "none" /\ GreedyStructTailPlan(fields, v, lay).late = "none"
    <3>1. \E need, stores : GreedyStructTailPlan(fields, v, lay) = Plan(need, stores)
      BY Zenon DEF GreedyStructTailPlan
    <3> QED
      BY <1>1, <3>1
  <2>2. \A v : WritePlan(fields, v, lay) = GreedyStructTailPlan(fields, v, lay)
    BY <1>9 DEF WritePlan
  <2> QED
    BY <2>1, <2>2
<1> QED
  BY <1>4, <1>5, <1>6, <1>7, <1>8, <1>9 DEF Over

LEMMA EditedDiffers ==
    ASSUME StructInv, NEW k \in Cases, k.items = items, NEW i \in 1 .. Len(items), Editable(i),
           Len(FieldBytes(items[i], k.content[i])) = Len(FieldBytes(items[i], content[i])),
           NEW d, d = [content EXCEPT ![i] = k.content[i]]
    PROVE  Whole(items, d) /\ Differ(items, content, d, i) /\ CanEdit(items, layout, i) /\ d[i] = k.content[i]
<1>1. Whole(items, content) /\ Whole(items, k.content)
  BY CaseWhole DEF StructInv
<1>2. /\ DOMAIN d = 1 .. Len(items) /\ d[i] = k.content[i]
      /\ \A j \in 1 .. Len(items) : j # i => d[j] = content[j]
  BY <1>1 DEF Whole
<1>3. \A j \in 1 .. Len(items) : ItemHolds(items[j], d[j])
  BY <1>1, <1>2 DEF Whole
<1>4. Whole(items, d)
  BY <1>1, <1>2, <1>3 DEF Whole
<1>5. Filled(items, content) /\ Filled(items, d)
  BY <1>1, <1>4, WholeFilled
<1> QED
  BY <1>2, <1>4, <1>5 DEF Differ, CanEdit, Editable

-----------------------------------------------------------------------------
(* An edit in place makes the packet of the other content.                 *)

\* The packet with another value of field i is the old one with that store.
LEMMA EditedPacket ==
    ASSUME StructInv, layout.shape \in Over, plan.early = "none",
           NEW i \in 1 .. Len(items), NEW d, Whole(items, d), Differ(items, content, d, i),
           CanEdit(items, layout, i), NEW lens,
           layout.shape = "Forward" => lens = ForwardLens(items[layout.region], content[layout.region]),
           NEW q, q = WritePlan(items, d, layout), q.used = plan.used,
           NEW t, t = Store(FieldAt(lens, i), FieldBytes(items[i], d[i])),
           NEW k \in 1 .. plan.used
    PROVE  StoredAll(Zeroes(q.used), q.stores)[k] = IF Holds(t, k) THEN ByteOf(t, k) ELSE Packet[k]
<1>1. /\ Whole(items, content) /\ Filled(items, content) /\ LayWell(items, layout)
      /\ plan = WritePlan(items, content, layout)
  BY WholeFilled DEF StructInv
<1>2. q.early = plan.early
  BY <1>1, SameErrors
<1>3. Makes(StoredAll(Zeroes(plan.used), plan.stores), plan.used, PacketSet(items, content, layout))
  BY <1>1, OverMakes
<1>4. Makes(StoredAll(Zeroes(q.used), q.stores), q.used, PacketSet(items, d, layout))
  BY <1>1, <1>2, OverMakes
<1>5. Swaps(items, content, d, layout, i)
  BY <1>1, <1>2, OverSwaps
<1>6. FieldAt(lens, i) = Place(items, content, layout, i)
  BY <1>1, FieldAtPlace
<1>7. PICK a, b, P, Q, s :
        /\ a = Packet /\ b = StoredAll(Zeroes(q.used), q.stores)
        /\ P = PacketSet(items, content, layout) /\ Q = PacketSet(items, d, layout)
        /\ s = Store(Place(items, content, layout, i), FieldBytes(items[i], content[i]))
  OBVIOUS
<1>8. Makes(a, plan.used, P) /\ Makes(b, plan.used, Q) /\ Swapped(P, Q, s, t)
  <2>1. Makes(a, plan.used, P)
    BY <1>3, <1>7 DEF Packet
  <2>2. Makes(b, plan.used, Q)
    BY <1>4, <1>7
  <2>3. Swapped(P, Q, s, t)
    BY <1>5, <1>6, <1>7 DEF Swaps
  <2> QED
    BY <2>1, <2>2, <2>3
<1>9. b[k] = IF Holds(t, k) THEN ByteOf(t, k) ELSE a[k]
  BY <1>8, SwappedMakes
<1> QED
  BY <1>7, <1>9

LEMMA EditClean ==
    ASSUME WriterInv, CleanInv, Edit
    PROVE  CleanInv'
<1>1. /\ call = "returned" /\ call' = "edited" /\ StructInv /\ CallInv
      /\ result.is \in {"ok", "vec"} /\ layout.shape \in Over
      /\ items' = items /\ layout' = layout /\ by' = by
  BY DEF WriterInv, Edit
<1>2. CleanInv' <=> NoStaleBytes'
  BY <1>1 DEF CleanInv
<1> DEFINE written == SubSeq(buffer, 1, result.used)
           r == Read(items, written)
           fixed == layout.shape \in {"Fixed", "FixedPadded"}
           invalid == ~fixed /\ ~r.ok
           lens == IF fixed \/ invalid THEN 0 ELSE RegionLens(r)
           value(k, i) == FieldBytes(items[i], k.content[i])
<1>3. PICK k \in Cases, i \in 1 .. Len(items) :
        /\ k.items = items /\ Editable(i)
        /\ Len(value(k, i)) = Len(FieldBytes(items[i], content[i]))
        /\ IF invalid \/ OverNeed(lens) > Len(written)
           THEN /\ result' = Result(IF invalid THEN "InvalidContent" ELSE "NotEnoughSpace", 0)
                /\ UNCHANGED <<buffer, content, plan>>
           ELSE /\ buffer' = Stored(buffer, Store(FieldAt(lens, i), value(k, i)))
                /\ content' = [content EXCEPT ![i] = k.content[i]]
                /\ plan' = WritePlan(items, content', layout)
                /\ UNCHANGED result
  BY Zenon DEF Edit
<1>4. CASE invalid \/ OverNeed(lens) > Len(written)
  <2>1. result'.is \in {"InvalidContent", "NotEnoughSpace"}
    <3>1. result' = Result(IF invalid THEN "InvalidContent" ELSE "NotEnoughSpace", 0)
      BY <1>3, <1>4
    <3>2. \A is : Result(is, 0).is = is
      BY DEF Result
    <3> HIDE DEF invalid
    <3> QED
      BY <3>1, <3>2
  <2> QED
    BY <1>2, <2>1 DEF NoStaleBytes, Success
<1>5. CASE ~(invalid \/ OverNeed(lens) > Len(written))
  <2>1. /\ buffer' = Stored(buffer, Store(FieldAt(lens, i), value(k, i)))
        /\ content' = [content EXCEPT ![i] = k.content[i]]
        /\ plan' = WritePlan(items, content', layout)
        /\ result' = result
    BY <1>3, <1>5
  <2>2. SUFFICES ASSUME Clean'
                 PROVE  SubSeq(buffer', 1, result.used) = SubSeq(Packet', 1, result.used)
    BY <1>1, <1>2, <2>1 DEF NoStaleBytes, Clean, Packet
  <2>3. PICK d : d = content'
    OBVIOUS
  <2>4. Whole(items, d) /\ Differ(items, content, d, i) /\ CanEdit(items, layout, i) /\ d[i] = k.content[i]
    BY <1>1, <1>3, <2>1, <2>3, EditedDiffers
  <2>5. PICK q : q = plan'
    OBVIOUS
  <2>6. q = WritePlan(items, d, layout) /\ value(k, i) \in Bytes /\ q.used = plan.used
    BY <1>1, <1>3, <2>1, <2>3, <2>5, EditedContent
  <2>7. plan.early = "none" /\ plan.late = "none"
    <3>1. q.early = "none"
      BY <2>2, <2>5 DEF Clean, Writable
    <3>2. LayWell(items, layout) /\ plan = WritePlan(items, content, layout)
      BY <1>1 DEF StructInv
    <3>3. q.early = plan.early /\ plan.late = "none"
      BY <1>1, <2>4, <2>6, <3>2, SameErrors
    <3> QED
      BY <3>1, <3>3
  <2>8. Clean
    BY <1>1, <2>2, <2>7 DEF Clean, Writable, Consts
  <2>9. /\ result.used \in Nat /\ result.used <= plan.used /\ result.used <= Len(buffer)
        /\ \A j \in 1 .. result.used : buffer[j] = Packet[j]
    BY <1>1, <2>8 DEF CleanInv, CallClean, CallInv, Fresh
  <2>10. buffer \in Bytes /\ Len(buffer) \in Nat /\ plan.used \in Nat
    BY <1>1, PlanInv DEF CallInv, Over, Cutting, Bytes
  <2>11. /\ written \in Bytes /\ Len(written) = result.used
         /\ \A j \in 1 .. result.used : written[j] = buffer[j]
    <3>1. \A j \in 1 .. result.used : buffer[j] \in Byte
      BY <2>9, <2>10 DEF Bytes
    <3>2. /\ SubSeq(buffer, 1, result.used) \in Seq(Byte)
          /\ Len(SubSeq(buffer, 1, result.used)) = IF 1 <= result.used THEN result.used - 1 + 1 ELSE 0
          /\ \A j \in 1 .. result.used - 1 + 1 : SubSeq(buffer, 1, result.used)[j] = buffer[1 + j - 1]
      BY <2>9, <3>1, SubSeqProperties
    <3> QED
      BY <2>9, <3>2 DEF Bytes
  <2> HIDE DEF written
  <2>12. layout.shape = "Forward" => lens = ForwardLens(items[layout.region], content[layout.region])
    <3> SUFFICES ASSUME layout.shape = "Forward"
                 PROVE  lens = ForwardLens(items[layout.region], content[layout.region])
      OBVIOUS
    <3>1. r.ok /\ lens = RegionLens(r) /\ ~(OverNeed(RegionLens(r)) > Len(written))
      BY <1>5
    <3>2. Len(written) <= plan.used /\ \A j \in 1 .. Len(written) : written[j] = Packet[j]
      BY <2>9, <2>11
    <3> HIDE DEF lens
    <3>3. PICK s : s = r
      OBVIOUS
    <3>4. RegionLens(s) = ForwardLens(items[layout.region], content[layout.region])
      BY <1>1, <2>7, <2>11, <3>1, <3>2, <3>3, LensIs
    <3> QED
      BY <3>1, <3>3, <3>4
  <2> HIDE DEF lens
  <2>13. PICK t : t = Store(FieldAt(lens, i), FieldBytes(items[i], d[i]))
    OBVIOUS
  <2>14. buffer' = Stored(buffer, t)
    BY <2>1, <2>4, <2>13
  <2>15. \A j \in 1 .. Len(buffer) : buffer'[j] = IF Holds(t, j) THEN ByteOf(t, j) ELSE buffer[j]
    BY <2>10, <2>14 DEF Bytes, Stored, Holds, ByteOf
  <2>16. ASSUME NEW j \in 1 .. plan.used
         PROVE  Packet'[j] = IF Holds(t, j) THEN ByteOf(t, j) ELSE Packet[j]
    <3>1. StoredAll(Zeroes(q.used), q.stores)[j] = IF Holds(t, j) THEN ByteOf(t, j) ELSE Packet[j]
      BY <1>1, <2>4, <2>6, <2>7, <2>12, <2>13, EditedPacket
    <3> QED
      BY <2>5, <3>1 DEF Packet
  <2>17. \A j \in 1 .. result.used : buffer'[j] = Packet'[j]
    <3> TAKE j \in 1 .. result.used
    <3>1. j \in 1 .. Len(buffer) /\ j \in 1 .. plan.used
      BY <2>9, <2>10
    <3> QED
      BY <2>9, <2>15, <2>16, <3>1
  <2>18. PICK b, p : b = buffer' /\ p = Packet'
    OBVIOUS
  <2>19. SubSeq(b, 1, result.used) = SubSeq(p, 1, result.used)
    BY <2>9, <2>17, <2>18, SamePrefix
  <2> QED
    BY <2>18, <2>19
<1> QED
  BY <1>4, <1>5

LEMMA NextClean ==
    ASSUME WriterInv, CleanInv, [Next]_vars
    PROVE  CleanInv'
<1>1. CASE Next
  BY <1>1, StartClean, RefuseClean, PutClean, EndClean, NewClean, SetBeforeClean, SetClean, EditClean DEF Next
<1>2. CASE UNCHANGED vars
  <2>1. UNCHANGED <<items, content, layout, plan, by, call, buffer, handed, todo, result>>
    BY <1>2 DEF vars
  <2> QED
    BY <2>1 DEF CleanInv, NoStaleBytes, Success, Ended, Writable, Consts, PlanInOrder, Complete,
                Clean, CallClean, Sequential, Free, Fresh, Queued, Packet
<1> QED
  BY <1>1, <1>2

\* NoStaleBytes holds for structs of any size and their contents, and for
\* buffers of any length with anything in them: after write_into, to_vec, the
\* setters in any order and an edit in place, every byte of the packet is the
\* one write_into stores in cleared memory, and none is left from before.  A
\* length hook must have its region right behind it, and the branch that is
\* taken must be given in full, for the writer leaves out what is absent.
THEOREM WriterNoStaleBytes ==
    ASSUME CasesGiven
    PROVE  Spec => []NoStaleBytes
<1>1. Init => WriterInv /\ CleanInv
  BY InitWriterInv, InitClean DEF CasesGiven
<1>2. WriterInv /\ CleanInv /\ [Next]_vars => (WriterInv /\ CleanInv)'
  BY NextWriterInv, NextClean
<1>3. CleanInv => NoStaleBytes
  BY CleanIsNoStale
<1> QED
  BY <1>1, <1>2, <1>3, PTL DEF Spec

=============================================================================
