--------------------------- MODULE SnapshotProofs ---------------------------
(***************************************************************************)
(* Proofs about RealitySnapshot, for any instances, gates, cells and       *)
(* supplies of two words and any width of a word: the vectors implement    *)
(* the maps of Reality, and what is sent to a worker comes back.           *)
(***************************************************************************)
EXTENDS RealitySnapshot, SequenceTheorems, FiniteSetTheorems, WellFoundedInduction, TLAPS

-----------------------------------------------------------------------------
(* Keys in order.                                                          *)

(* A nonempty set of numbers has a least one.                              *)
LEMMA LeastNumber ==
  ASSUME NEW S \in SUBSET Nat, S # {}
  PROVE  \E m \in S : \A n \in S : m <= n
<1> DEFINE rel == OpToRel(<, Nat)
<1>1. IsWellFoundedOn(rel, Nat)
  BY NatLessThanWellFounded
<1>2. \A x, y \in Nat : y < x => <<y, x>> \in rel
  BY DEF OpToRel
<1> HIDE DEF rel
<1>3. PICK m \in S : \A y \in S : ~(<<y, m>> \in rel)
  BY <1>1, WFMin
<1>4. \A n \in S : ~(n < m) /\ n \in Nat /\ m \in Nat
  BY <1>2, <1>3
<1> QED BY <1>4

\* Any two keys of the set are in order, one way only.
Linear(K) ==
  \A a, b \in K :
    /\ ~Precedes(a, a)
    /\ a = b \/ Precedes(a, b) \/ Precedes(b, a)
    /\ \A c \in K : Precedes(a, b) /\ Precedes(b, c) => Precedes(a, c)

Single(S) == {<<x>> : x \in S}

(* Numbers are in order ...                                                *)
LEMMA NumbersAreLinear == Linear(Single(Int))
<1>1. ASSUME NEW x \in Int, NEW y \in Int
      PROVE  Precedes(<<x>>, <<y>>) <=> x < y
  <2>1. DOMAIN <<x>> = {1} /\ 1..(1 - 1) = {}
    OBVIOUS
  <2>2. Precedes(<<x>>, <<y>>) <=> \E k \in {1} : <<x>>[k] < <<y>>[k] /\ \A j \in 1..(k - 1) : <<x>>[j] = <<y>>[j]
    BY <2>1 DEF Precedes
  <2> QED BY <2>1, <2>2
<1>2. \A a \in Single(Int) : \E x \in Int : a = <<x>>
  BY DEF Single
<1> SUFFICES ASSUME NEW a \in Single(Int), NEW b \in Single(Int)
             PROVE  /\ ~Precedes(a, a)
                    /\ a = b \/ Precedes(a, b) \/ Precedes(b, a)
                    /\ \A c \in Single(Int) : Precedes(a, b) /\ Precedes(b, c) => Precedes(a, c)
  BY DEF Linear
<1>3. PICK x \in Int, y \in Int : a = <<x>> /\ b = <<y>>
  BY <1>2
<1>4. ~Precedes(a, a) /\ (a = b \/ Precedes(a, b) \/ Precedes(b, a))
  BY <1>1, <1>3
<1>5. ASSUME NEW c \in Single(Int), Precedes(a, b), Precedes(b, c) PROVE Precedes(a, c)
  <2>1. PICK z \in Int : c = <<z>>
    BY <1>2
  <2> QED BY <1>1, <1>3, <1>5, <2>1
<1> QED BY <1>4, <1>5

(* ... and so are pairs of them, field by field.                           *)
LEMMA PairsAreLinear == Linear(Int \X Int)
<1>1. ASSUME NEW a \in Int \X Int, NEW b \in Int \X Int
      PROVE  Precedes(a, b) <=> (a[1] < b[1] \/ (a[1] = b[1] /\ a[2] < b[2]))
  <2>1. DOMAIN a = 1..2 /\ 1..(1 - 1) = {} /\ 1..(2 - 1) = {1} /\ 1..2 = {1, 2}
    BY <1>1
  <2>2. Precedes(a, b) <=> \E k \in {1, 2} : a[k] < b[k] /\ \A j \in 1..(k - 1) : a[j] = b[j]
    BY <2>1 DEF Precedes
  <2> QED BY <2>1, <2>2
<1> SUFFICES ASSUME NEW a \in Int \X Int, NEW b \in Int \X Int, NEW c \in Int \X Int
             PROVE  /\ ~Precedes(a, a)
                    /\ a = b \/ Precedes(a, b) \/ Precedes(b, a)
                    /\ Precedes(a, b) /\ Precedes(b, c) => Precedes(a, c)
  BY DEF Linear
<1>2. PICK a1 \in Int, a2 \in Int, b1 \in Int, b2 \in Int, c1 \in Int, c2 \in Int :
        a = <<a1, a2>> /\ b = <<b1, b2>> /\ c = <<c1, c2>>
  OBVIOUS
<1>3. /\ Precedes(a, a) <=> (a1 < a1 \/ (a1 = a1 /\ a2 < a2))
      /\ Precedes(a, b) <=> (a1 < b1 \/ (a1 = b1 /\ a2 < b2))
      /\ Precedes(b, a) <=> (b1 < a1 \/ (b1 = a1 /\ b2 < a2))
      /\ Precedes(b, c) <=> (b1 < c1 \/ (b1 = c1 /\ b2 < c2))
      /\ Precedes(a, c) <=> (a1 < c1 \/ (a1 = c1 /\ a2 < c2))
  BY <1>1, <1>2
<1> QED BY <1>2, <1>3

(* A set of places that has all places before each of its own.             *)
LEMMA FirstPlaces ==
  ASSUME NEW n \in Nat, NEW D \in SUBSET (1..n), \A k \in D : \A j \in 1..k : j \in D
  PROVE  Cardinality(D) \in 0..n /\ D = 1..Cardinality(D)
<1> DEFINE out == (1..(n + 1)) \ D
<1>1. out \in SUBSET Nat /\ out # {}
  <2>1. n + 1 \in out
    OBVIOUS
  <2> QED BY <2>1
<1>2. PICK m \in out : \A k \in out : m <= k
  <2> HIDE DEF out
  <2> QED BY <1>1, LeastNumber
<1>3. m \in 1..(n + 1) /\ m \notin D
  BY <1>2
<1>4. D = 1..(m - 1)
  <2>1. \A k \in 1..(m - 1) : k \in D
    BY <1>2, <1>3
  <2>2. \A k \in D : k \in 1..(m - 1)
    BY <1>3
  <2> QED BY <2>1, <2>2
<1>5. Cardinality(1..(m - 1)) = m - 1
  <2>1. 1 \in Int /\ m - 1 \in Int
    BY <1>3
  <2>2. Cardinality(1..(m - 1)) = IF 1 > m - 1 THEN 0 ELSE (m - 1) - 1 + 1
    BY <2>1, FS_Interval
  <2> QED BY <1>3, <2>2
<1> QED BY <1>3, <1>4, <1>5

-----------------------------------------------------------------------------
(* Sorted vectors.                                                         *)

Ascending(v, key) ==
  \A j, k \in DOMAIN v : j < k => Precedes(key[v[j]], key[v[k]])

SortedVector(v, S, K, key) ==
  Linear(K) /\ key \in [S -> K] /\ v \in Seq(S) /\ Ascending(v, key)

KeysOf(v, key) == [k \in DOMAIN v |-> key[v[k]]]

(* Where a search for a key ends: what is before has smaller keys, what is *)
(* not has none, and the key is there if it is anywhere.                   *)
LEMMA SearchFinds ==
  ASSUME NEW S, NEW K, NEW key, NEW v, SortedVector(v, S, K, key), NEW c \in K,
         NEW p, p = PlaceOf(KeysOf(v, key), c)
  PROVE  /\ p \in 1..(Len(v) + 1)
         /\ \A k \in DOMAIN v : k < p <=> Precedes(key[v[k]], c)
         /\ FoundAt(KeysOf(v, key), c) <=> \E k \in DOMAIN v : key[v[k]] = c
         /\ \A k \in DOMAIN v : key[v[k]] = c => k = p
<1> USE DEF SortedVector
<1> DEFINE keys == KeysOf(v, key)
           D == {k \in DOMAIN v : Precedes(key[v[k]], c)}
           n == Len(v)
<1>1. /\ n \in Nat /\ DOMAIN v = 1..n
      /\ \A k \in 1..n : v[k] \in S /\ key[v[k]] \in K
  OBVIOUS
<1>2. /\ DOMAIN keys = 1..n
      /\ \A k \in 1..n : keys[k] = key[v[k]]
  BY <1>1 DEF KeysOf
<1>3. D \in SUBSET (1..n)
  BY <1>1
<1>4. \A k \in D : \A j \in 1..k : j \in D
  <2> SUFFICES ASSUME NEW k \in D, NEW j \in 1..k PROVE j \in D
    OBVIOUS
  <2>1. k \in 1..n /\ Precedes(key[v[k]], c)
    BY <1>1
  <2>2. CASE j = k
    BY <2>2
  <2>3. CASE j # k
    <3>1. j \in 1..n /\ j < k
      BY <1>1, <2>1, <2>3
    <3>2. Precedes(key[v[j]], key[v[k]])
      BY <1>1, <2>1, <3>1 DEF Ascending
    <3> QED BY <1>1, <2>1, <3>1, <3>2 DEF Linear
  <2> QED BY <2>2, <2>3
<1>5. PlaceOf(keys, c) = 1 + Cardinality(D)
  <2>1. {k \in DOMAIN keys : Precedes(keys[k], c)} = D
    BY <1>1, <1>2
  <2> HIDE DEF D, keys
  <2> QED BY <2>1 DEF PlaceOf
<1>6. Cardinality(D) \in 0..n /\ D = 1..Cardinality(D)
  <2> HIDE DEF D, n
  <2> QED BY <1>1, <1>3, <1>4, FirstPlaces
<1>p. p = PlaceOf(keys, c)
  OBVIOUS
<1>7. p \in 1..(n + 1) /\ D = 1..(p - 1)
  <2> HIDE DEF D, keys, n
  <2> QED BY <1>1, <1>5, <1>6, <1>p
<1>8. \A k \in 1..n : k < p <=> Precedes(key[v[k]], c)
  <2> SUFFICES ASSUME NEW k \in 1..n PROVE k < p <=> k \in D
    BY <1>1
  <2> HIDE DEF D, n
  <2> QED BY <1>1, <1>7
<1>9. ASSUME NEW k \in 1..n, key[v[k]] = c PROVE k = p
  <2>1. ~(k < p)
    BY <1>1, <1>8, <1>9 DEF Linear
  <2>2. ~(p < k)
    <3> SUFFICES ASSUME p < k PROVE FALSE
      OBVIOUS
    <3>1. p \in 1..n
      BY <1>1, <1>7
    <3>2. Precedes(key[v[p]], c)
      BY <1>1, <1>9, <3>1 DEF Ascending
    <3>3. p < p
      BY <1>8, <3>1, <3>2
    <3> QED BY <3>1, <3>3
  <2> QED BY <1>1, <1>7, <2>1, <2>2
<1>10. FoundAt(keys, c) <=> p \in 1..n /\ key[v[p]] = c
  <2>1. FoundAt(keys, c) <=> p \in DOMAIN keys /\ keys[p] = c
    BY <1>p DEF FoundAt
  <2> HIDE DEF keys
  <2> QED BY <1>2, <2>1
<1> HIDE DEF n
<1>11. FoundAt(keys, c) <=> \E k \in DOMAIN v : key[v[k]] = c
  BY <1>1, <1>9, <1>10 DEF keys
<1> QED BY <1>1, <1>7, <1>8, <1>9, <1>11 DEF n

(* Inserting at that place keeps a vector sorted.                          *)
LEMMA InsertionSorts ==
  ASSUME NEW S, NEW K, NEW key, NEW v, SortedVector(v, S, K, key),
         NEW x \in S, \A k \in DOMAIN v : key[v[k]] # key[x],
         NEW w, w = Inserted(v, PlaceOf(KeysOf(v, key), key[x]), x)
  PROVE  /\ SortedVector(w, S, K, key) /\ Len(w) = Len(v) + 1
         /\ Range(w) = Range(v) \cup {x}
<1> USE DEF SortedVector
<1> DEFINE p == PlaceOf(KeysOf(v, key), key[x])
           n == Len(v)
<1>1. /\ n \in Nat /\ DOMAIN v = 1..n
      /\ \A k \in 1..n : v[k] \in S /\ key[v[k]] \in K
      /\ key[x] \in K
  OBVIOUS
<1>2. /\ p \in 1..(n + 1)
      /\ \A k \in 1..n : k < p <=> Precedes(key[v[k]], key[x])
  <2> HIDE DEF SortedVector, p, n
  <2> QED BY <1>1, SearchFinds DEF p, n
<1>w. w = Inserted(v, p, x)
  OBVIOUS
<1> HIDE DEF p
<1>3. \A k \in 1..n : ~(k < p) => Precedes(key[x], key[v[k]])
  BY <1>1, <1>2 DEF Linear
<1>4. /\ DOMAIN w = 1..(n + 1)
      /\ w = [j \in 1..(n + 1) |-> IF j < p THEN v[j] ELSE IF j = p THEN x ELSE v[j - 1]]
  BY <1>w DEF Inserted
<1>5. /\ \A j \in 1..(n + 1) : j < p => j \in 1..n /\ w[j] = v[j]
      /\ w[p] = x
      /\ \A j \in 1..(n + 1) : p < j => j - 1 \in 1..n /\ ~(j - 1 < p) /\ w[j] = v[j - 1]
  <2> HIDE DEF n
  <2> QED BY <1>1, <1>2, <1>4
<1> HIDE DEF n
<1>6. \A j \in 1..(n + 1) : w[j] \in S
  <2> TAKE j \in 1..(n + 1)
  <2>1. j < p \/ j = p \/ p < j
    BY <1>1, <1>2
  <2> QED BY <1>1, <1>5, <2>1
<1>7. w \in Seq(S) /\ Len(w) = n + 1
  <2>1. w \in [1..(n + 1) -> S]
    BY <1>4, <1>6
  <2> QED BY <1>1, <2>1
<1>8. Ascending(w, key)
  <2> SUFFICES ASSUME NEW j \in 1..(n + 1), NEW k \in 1..(n + 1), j < k
               PROVE  Precedes(key[w[j]], key[w[k]])
    BY <1>4 DEF Ascending
  <2>1. CASE j < p /\ k < p
    BY <1>1, <1>5, <2>1 DEF Ascending
  <2>2. CASE j < p /\ k = p
    BY <1>2, <1>5, <2>2
  <2>3. CASE j < p /\ p < k
    <3>1. Precedes(key[v[j]], key[x]) /\ Precedes(key[x], key[v[k - 1]])
      BY <1>2, <1>3, <1>5, <2>3
    <3>2. key[v[j]] \in K /\ key[v[k - 1]] \in K
      BY <1>1, <1>5, <2>3
    <3>3. Precedes(key[v[j]], key[v[k - 1]])
      BY <1>1, <3>1, <3>2 DEF Linear
    <3> QED BY <1>5, <2>3, <3>3
  <2>4. CASE j = p
    <3>1. p < k
      BY <2>4
    <3> QED BY <1>3, <1>5, <2>4, <3>1
  <2>5. CASE p < j
    <3>1. p < k /\ j - 1 < k - 1
      BY <1>1, <1>2, <2>5
    <3>2. Precedes(key[v[j - 1]], key[v[k - 1]])
      BY <1>1, <1>5, <2>5, <3>1 DEF Ascending
    <3> QED BY <1>5, <2>5, <3>1, <3>2
  <2>6. (j < p \/ j = p \/ p < j) /\ (k < p \/ k = p \/ p < k)
    BY <1>1, <1>2
  <2> QED BY <2>1, <2>2, <2>3, <2>4, <2>5, <2>6
<1>9. Range(w) \subseteq Range(v) \cup {x}
  <2> SUFFICES ASSUME NEW j \in 1..(n + 1) PROVE w[j] \in Range(v) \cup {x}
    BY <1>4 DEF Range
  <2>1. j < p \/ j = p \/ p < j
    BY <1>1, <1>2
  <2>2. \A k \in 1..n : v[k] \in Range(v)
    BY <1>1 DEF Range
  <2> QED BY <1>5, <2>1, <2>2
<1>10. Range(v) \cup {x} \subseteq Range(w)
  <2>1. \A j \in 1..(n + 1) : w[j] \in Range(w)
    BY <1>4 DEF Range
  <2>2. x \in Range(w)
    BY <1>2, <1>5, <2>1
  <2>3. ASSUME NEW k \in 1..n PROVE v[k] \in Range(w)
    <3>1. CASE k < p
      <4>1. k \in 1..(n + 1)
        BY <1>1
      <4>2. w[k] = v[k]
        BY <1>5, <3>1, <4>1
      <4> QED BY <2>1, <4>1, <4>2
    <3>2. CASE ~(k < p)
      <4>1. k + 1 \in 1..(n + 1) /\ p < k + 1 /\ (k + 1) - 1 = k
        BY <1>1, <1>2, <3>2
      <4>2. w[k + 1] = v[(k + 1) - 1]
        BY <1>5, <4>1
      <4> QED BY <2>1, <4>1, <4>2
    <3> QED BY <3>1, <3>2
  <2> QED BY <1>1, <2>2, <2>3 DEF Range
<1> QED BY <1>1, <1>7, <1>8, <1>9, <1>10 DEF n

Distinct(S, key) == \A x, y \in S : key[x] = key[y] => x = y

(* The members of a finite set can be put in the order of their keys.      *)
LEMMA SortedExists ==
  ASSUME NEW T, NEW K, Linear(K), NEW key \in [T -> K],
         NEW S, S \subseteq T, IsFiniteSet(S), Distinct(S, key)
  PROVE  \E v : SortedVector(v, T, K, key) /\ Range(v) = S /\ Len(v) = Cardinality(S)
<1> DEFINE Sorted(U) == \E v : SortedVector(v, T, K, key) /\ Range(v) = U /\ Len(v) = Cardinality(U)
           sizes == {n \in Nat : \E U \in SUBSET S : IsFiniteSet(U) /\ Cardinality(U) = n /\ ~Sorted(U)}
<1> SUFFICES ASSUME sizes # {} PROVE FALSE
  <2>1. Cardinality(S) \in Nat
    BY FS_CardinalityType
  <2> HIDE DEF Sorted
  <2>2. Sorted(S)
    BY <2>1
  <2> QED BY <2>2 DEF Sorted
<1>1. PICK n \in sizes : \A m \in sizes : n <= m
  <2>1. sizes \in SUBSET Nat
    OBVIOUS
  <2> HIDE DEF sizes
  <2> QED BY <2>1, LeastNumber
<1> HIDE DEF Sorted
<1>2. PICK U \in SUBSET S : IsFiniteSet(U) /\ Cardinality(U) = n /\ ~Sorted(U)
  BY <1>1
<1>3. CASE U = {}
  <2>1. Cardinality(U) = 0
    BY <1>3, FS_EmptySet
  <2>2. SortedVector(<<>>, T, K, key) /\ Range(<<>>) = U /\ Len(<<>>) = 0
    BY <1>3 DEF Range, Ascending, SortedVector
  <2> QED BY <1>2, <2>1, <2>2 DEF Sorted
<1>4. CASE U # {}
  <2>1. PICK x \in U : TRUE
    BY <1>4
  <2> DEFINE W == U \ {x}
  <2>2. IsFiniteSet(W) /\ Cardinality(W) = n - 1 /\ n \in Nat /\ n - 1 \in Nat
    <3>1. IsFiniteSet(W) /\ Cardinality(W) = Cardinality(U) - 1
      BY <1>2, <2>1, FS_RemoveElement
    <3>2. Cardinality(W) \in Nat /\ n \in Nat
      BY <1>1, <3>1, FS_CardinalityType
    <3> QED BY <1>2, <3>1, <3>2
  <2>3. W \in SUBSET S /\ x \notin W /\ x \in S /\ W \cup {x} = U
    BY <1>2, <2>1
  <2> HIDE DEF W
  <2>4. Sorted(W)
    <3>1. n - 1 \notin sizes
      BY <1>1, <2>2
    <3> QED BY <2>2, <2>3, <3>1
  <2>5. PICK v : SortedVector(v, T, K, key) /\ Range(v) = W /\ Len(v) = Cardinality(W)
    BY <2>4 DEF Sorted
  <2>6. x \in T /\ \A k \in DOMAIN v : v[k] \in W /\ v[k] # x
    BY <2>3, <2>5 DEF Range
  <2>7. \A k \in DOMAIN v : key[v[k]] # key[x]
    BY <2>3, <2>6 DEF Distinct
  <2> DEFINE w == Inserted(v, PlaceOf(KeysOf(v, key), key[x]), x)
  <2>8. SortedVector(w, T, K, key) /\ Len(w) = Len(v) + 1 /\ Range(w) = Range(v) \cup {x}
    BY <2>5, <2>6, <2>7, InsertionSorts
  <2> HIDE DEF w
  <2>9. Range(w) = U /\ Len(w) = Cardinality(U)
    BY <1>2, <2>2, <2>3, <2>5, <2>8
  <2>10. Sorted(U)
    BY <2>8, <2>9 DEF Sorted
  <2> QED BY <1>2, <2>10
<1> QED BY <1>3, <1>4

(* The members of a vector are what it has at its places.                  *)
LEMMA MembersOfVector ==
  ASSUME NEW S, NEW v \in Seq(S)
  PROVE  /\ Len(v) \in Nat /\ DOMAIN v = 1..Len(v)
         /\ \A k \in 1..Len(v) : v[k] \in S /\ v[k] \in Range(v)
         /\ \A x \in Range(v) : x \in S /\ \E k \in 1..Len(v) : v[k] = x
BY DEF Range

(* ... and in one way only.                                                *)
LEMMA SortedIsUnique ==
  ASSUME NEW S, NEW K, NEW key, NEW v, NEW w, SortedVector(v, S, K, key),
         SortedVector(w, S, K, key), Range(v) = Range(w)
  PROVE  v = w
<1> USE DEF SortedVector
<1>1. /\ Len(v) \in Nat /\ Len(w) \in Nat
      /\ DOMAIN v = 1..Len(v) /\ DOMAIN w = 1..Len(w)
      /\ \A k \in 1..Len(v) : v[k] \in S /\ key[v[k]] \in K /\ \E j \in 1..Len(w) : w[j] = v[k]
      /\ \A k \in 1..Len(w) : w[k] \in S /\ key[w[k]] \in K /\ \E j \in 1..Len(v) : v[j] = w[k]
  <2>1. \A k \in 1..Len(v) : v[k] \in Range(w) /\ v[k] \in S
    BY MembersOfVector
  <2>2. \A k \in 1..Len(w) : w[k] \in Range(v) /\ w[k] \in S
    BY MembersOfVector
  <2>3. /\ \A x \in Range(w) : \E k \in 1..Len(w) : w[k] = x
        /\ \A x \in Range(v) : \E k \in 1..Len(v) : v[k] = x
    BY MembersOfVector
  <2>4. /\ \A k \in 1..Len(v) : \E j \in 1..Len(w) : w[j] = v[k]
        /\ \A k \in 1..Len(w) : \E j \in 1..Len(v) : v[j] = w[k]
    BY <2>1, <2>2, <2>3
  <2>5. Len(v) \in Nat /\ Len(w) \in Nat /\ DOMAIN v = 1..Len(v) /\ DOMAIN w = 1..Len(w)
    OBVIOUS
  <2> QED BY <2>1, <2>2, <2>4, <2>5
<1> DEFINE differ == {k \in Nat \ {0} : \/ k \in 1..Len(v) /\ k \in 1..Len(w) /\ v[k] # w[k]
                                        \/ k \in 1..Len(v) /\ k \notin 1..Len(w)
                                        \/ k \notin 1..Len(v) /\ k \in 1..Len(w)}
<1>2. differ = {}
  <2> SUFFICES ASSUME differ # {} PROVE FALSE
    OBVIOUS
  <2>1. PICK m \in differ : \A k \in differ : m <= k
    <3>1. differ \in SUBSET Nat
      OBVIOUS
    <3> HIDE DEF differ
    <3> QED BY <3>1, LeastNumber
  <2>2. /\ m \in Nat \ {0}
        /\ \A k \in 1..(m - 1) : k \in 1..Len(v) /\ k \in 1..Len(w) /\ v[k] = w[k]
    <3>1. m \in Nat \ {0} /\ (m \in 1..Len(v) \/ m \in 1..Len(w))
      BY <2>1
    <3>2. \A k \in 1..(m - 1) : k \notin differ
      BY <2>1, <3>1
    <3>3. \A k \in 1..(m - 1) : k \in 1..Len(v) \/ k \in 1..Len(w)
      BY <1>1, <3>1
    <3> QED BY <3>1, <3>2, <3>3
  <2>3. ASSUME m \in 1..Len(v) PROVE \E j \in 1..Len(w) : m <= j /\ w[j] = v[m]
    <3>1. PICK j \in 1..Len(w) : w[j] = v[m]
      BY <1>1, <2>3
    <3>2. ~(j < m)
      <4> SUFFICES ASSUME j < m PROVE FALSE
        OBVIOUS
      <4>1. j \in 1..(m - 1)
        BY <2>2
      <4>2. v[j] = v[m] /\ j \in 1..Len(v)
        BY <2>2, <3>1, <4>1
      <4>3. Precedes(key[v[j]], key[v[m]])
        BY <1>1, <2>3, <4>2 DEF Ascending
      <4> QED BY <1>1, <2>3, <4>2, <4>3 DEF Linear
    <3> QED BY <1>1, <2>2, <3>1, <3>2
  <2>4. ASSUME m \in 1..Len(w) PROVE \E i \in 1..Len(v) : m <= i /\ v[i] = w[m]
    <3>1. PICK j \in 1..Len(v) : v[j] = w[m]
      BY <1>1, <2>4
    <3>2. ~(j < m)
      <4> SUFFICES ASSUME j < m PROVE FALSE
        OBVIOUS
      <4>1. j \in 1..(m - 1)
        BY <2>2
      <4>2. w[j] = w[m] /\ j \in 1..Len(w)
        BY <2>2, <3>1, <4>1
      <4>3. Precedes(key[w[j]], key[w[m]])
        BY <1>1, <2>4, <4>2 DEF Ascending
      <4> QED BY <1>1, <2>4, <4>2, <4>3 DEF Linear
    <3> QED BY <1>1, <2>2, <3>1, <3>2
  <2>5. m \in 1..Len(v) /\ m \in 1..Len(w)
    BY <1>1, <2>1, <2>2, <2>3, <2>4
  <2>6. v[m] # w[m]
    BY <2>1, <2>5
  <2>7. PICK j \in 1..Len(w), i \in 1..Len(v) : m <= j /\ w[j] = v[m] /\ m <= i /\ v[i] = w[m]
    BY <2>3, <2>4, <2>5
  <2>8. m < j /\ m < i
    <3>1. m # j /\ m # i
      BY <2>6, <2>7
    <3>2. m \in Nat /\ j \in Nat /\ i \in Nat
      BY <2>2, <2>7
    <3> QED BY <2>7, <3>1, <3>2
  <2>9. Precedes(key[w[m]], key[v[m]]) /\ Precedes(key[v[m]], key[w[m]])
    BY <1>1, <2>5, <2>7, <2>8 DEF Ascending
  <2> QED BY <1>1, <2>5, <2>9 DEF Linear
<1>3. Len(v) = Len(w)
  <2>1. CASE Len(v) < Len(w)
    <3>1. Len(w) \in differ
      BY <1>1, <2>1
    <3> QED BY <1>2, <3>1
  <2>2. CASE Len(w) < Len(v)
    <3>1. Len(v) \in differ
      BY <1>1, <2>2
    <3> QED BY <1>2, <3>1
  <2>3. Len(v) \in Nat /\ Len(w) \in Nat
    BY <1>1
  <2> QED BY <2>1, <2>2, <2>3
<1>4. \A k \in 1..Len(v) : v[k] = w[k]
  <2> SUFFICES ASSUME NEW k \in 1..Len(v), v[k] # w[k] PROVE FALSE
    OBVIOUS
  <2>1. k \in differ
    BY <1>1, <1>3
  <2> QED BY <1>2, <2>1
<1> HIDE DEF differ
<1> QED BY <1>1, <1>3, <1>4

(* So InOrder() is the sorted vector of the set.                           *)
LEMMA InOrderSorts ==
  ASSUME NEW T, NEW K, Linear(K), NEW key \in [T -> K],
         NEW S, S \subseteq T, IsFiniteSet(S), Distinct(S, key)
  PROVE  /\ SortedVector(InOrder(S, key), T, K, key) /\ Range(InOrder(S, key)) = S
         /\ InOrder(S, key) \in Seq(S)
         /\ \A v : SortedVector(v, T, K, key) /\ Range(v) = S => InOrder(S, key) = v
<1> DEFINE n == Cardinality(S)
           w == InOrder(S, key)
<1>1. n \in Nat
  BY FS_CardinalityType
<1>2. PICK v : SortedVector(v, T, K, key) /\ Range(v) = S /\ Len(v) = n
  <2> HIDE DEF n
  <2>1. \E v : SortedVector(v, T, K, key) /\ Range(v) = S /\ Len(v) = Cardinality(S)
    BY SortedExists
  <2> QED BY <2>1 DEF n
<1>3. w = CHOOSE u \in [1..n -> S] : Range(u) = S /\ Ascending(u, key)
  BY DEF InOrder, Ascending
<1> HIDE DEF n, w
<1>4. v \in [1..n -> S]
  <2>1. v \in Seq(T)
    BY <1>2 DEF SortedVector
  <2>2. DOMAIN v = 1..n /\ \A k \in 1..n : v[k] \in S
    BY <1>2, <2>1, MembersOfVector
  <2> QED BY <2>1, <2>2
<1>5. w \in [1..n -> S] /\ Range(w) = S /\ Ascending(w, key)
  BY <1>2, <1>3, <1>4 DEF SortedVector
<1>6. w \in Seq(S)
  BY <1>1, <1>5
<1>7. SortedVector(w, T, K, key)
  BY <1>5, <1>6 DEF SortedVector
<1>8. \A u : SortedVector(u, T, K, key) /\ Range(u) = S => w = u
  BY <1>5, <1>7, SortedIsUnique
<1> QED BY <1>5, <1>6, <1>7, <1>8 DEF w

-----------------------------------------------------------------------------
(* The vectors of a snapshot.                                              *)

StampRecord == [id: Instance, epoch: Nat, plane: SignedRange(HalfWidth), axis: 0..1,
                direction: 0..1, phase: 0..2, loops: Nat, gate: Gate]
DriftRecord == [cell: Cell, epoch: Nat \ {0}]

IdOf == [s \in StampRecord |-> <<s.id>>]
CellOf == [t \in DriftRecord |-> t.cell]
Itself == [id \in Supply |-> <<id>>]

SortedStamps(v) == SortedVector(v, StampRecord, Single(Int), IdOf)
SortedDrifts(v) == SortedVector(v, DriftRecord, Int \X Int, CellOf)
SortedSupplies(v) == SortedVector(v, Supply, Single(Int), Itself)

(* The vectors are sorted by their keys, without duplicates.               *)
Canonical ==
  /\ SortedStamps(stamps) /\ SortedDrifts(drifts) /\ SortedSupplies(consumed)
  /\ delirium \in 0..MaxDelirium

(* The ids and cells are numbers.                                          *)
LEMMA KeysAreNumbers ==
  /\ Instance \subseteq Int /\ Gate \subseteq Int /\ Supply \subseteq Int
  /\ Cell \subseteq Int \X Int
  /\ IdOf \in [StampRecord -> Single(Int)]
  /\ CellOf \in [DriftRecord -> Int \X Int]
  /\ Itself \in [Supply -> Single(Int)]
<1>1. HalfWidth * HalfWidth - 1 \in Int
  BY SnapshotAssumption
<1>2. 0..(HalfWidth * HalfWidth - 1) \subseteq Int
  BY <1>1
<1>3. Instance \subseteq Int /\ Gate \subseteq Int /\ Supply \subseteq Int
  BY <1>2, SnapshotAssumption
<1>4. SignedRange(HalfWidth * HalfWidth) \subseteq Int
  BY DEF SignedRange
<1>5. Cell \subseteq Int \X Int
  <2> DEFINE X == SignedRange(HalfWidth * HalfWidth)
  <2>1. Cell \subseteq X \X X
    BY SnapshotAssumption
  <2> HIDE DEF X
  <2> QED BY <1>4, <2>1 DEF X
<1>6. IdOf \in [StampRecord -> Single(Int)]
  BY <1>3 DEF IdOf, StampRecord, Single
<1>7. CellOf \in [DriftRecord -> Int \X Int]
  BY <1>5 DEF CellOf, DriftRecord
<1>8. Itself \in [Supply -> Single(Int)]
  BY <1>3 DEF Itself, Single
<1> QED BY <1>3, <1>5, <1>6, <1>7, <1>8

(* The members of a sorted vector are finitely many, one of each key.      *)
LEMMA SortedMembers ==
  ASSUME NEW S, NEW K, NEW key, NEW v, SortedVector(v, S, K, key)
  PROVE  Range(v) \subseteq S /\ IsFiniteSet(Range(v)) /\ Distinct(Range(v), key)
<1>1. v \in Seq(S) /\ Linear(K) /\ key \in [S -> K]
  BY DEF SortedVector
<1>2. /\ Len(v) \in Nat /\ DOMAIN v = 1..Len(v)
      /\ \A k \in 1..Len(v) : v[k] \in S /\ v[k] \in Range(v)
      /\ \A x \in Range(v) : x \in S /\ \E k \in 1..Len(v) : v[k] = x
  BY <1>1, MembersOfVector
<1>3. IsFiniteSet(Range(v))
  <2>1. IsFiniteSet(1..Len(v))
    BY <1>2, FS_Interval
  <2>2. v \in Surjection(1..Len(v), Range(v))
    <3>1. v = [k \in 1..Len(v) |-> v[k]]
      BY <1>1
    <3>2. v \in [1..Len(v) -> Range(v)]
      BY <1>2, <3>1
    <3> QED BY <1>2, <3>2 DEF Surjection
  <2> QED BY <2>1, <2>2, FS_Surjection
<1>4. ASSUME NEW x \in Range(v), NEW y \in Range(v), key[x] = key[y] PROVE x = y
  <2>1. PICK j \in 1..Len(v), k \in 1..Len(v) : v[j] = x /\ v[k] = y
    BY <1>2
  <2>2. ~(j < k) /\ ~(k < j)
    <3>1. key[x] \in K /\ ~Precedes(key[x], key[y]) /\ ~Precedes(key[y], key[x])
      BY <1>1, <1>2, <1>4 DEF Linear
    <3>2. Ascending(v, key)
      BY DEF SortedVector
    <3> QED BY <1>2, <2>1, <3>1, <3>2 DEF Ascending
  <2> QED BY <1>2, <2>1, <2>2
<1> QED BY <1>2, <1>3, <1>4 DEF Distinct

(* The key function may be restricted to the members.                      *)
LEMMA SortedByRestriction ==
  ASSUME NEW S, NEW K, NEW key, NEW T, S \subseteq T, NEW whole \in [T -> K],
         key \in [S -> K], \A x \in S : key[x] = whole[x], Linear(K), NEW v, v \in Seq(S)
  PROVE  SortedVector(v, S, K, key) <=> SortedVector(v, T, K, whole)
<1>1. v \in Seq(T)
  OBVIOUS
<1>2. DOMAIN v = 1..Len(v) /\ \A k \in DOMAIN v : v[k] \in S
  BY MembersOfVector
<1>3. \A k \in DOMAIN v : key[v[k]] = whole[v[k]]
  BY <1>2
<1>4. Ascending(v, key) <=> Ascending(v, whole)
  BY <1>3 DEF Ascending
<1> QED BY <1>1, <1>4 DEF SortedVector

(* with_drifts_and_supplies() changes no vector that is sorted.            *)
LEMMA OrderedAgain ==
  ASSUME NEW S, NEW K, NEW key, NEW T, S \subseteq T, NEW whole \in [T -> K],
         key \in [S -> K], \A x \in S : key[x] = whole[x], Linear(K),
         NEW U, U \subseteq S, IsFiniteSet(U), Distinct(U, whole)
  PROVE  /\ SortedVector(InOrder(U, key), T, K, whole) /\ Range(InOrder(U, key)) = U
         /\ \A v : SortedVector(v, T, K, whole) /\ Range(v) = U => InOrder(U, key) = v
<1>1. Distinct(U, key)
  BY DEF Distinct
<1> DEFINE w == InOrder(U, key)
<1>2. SortedVector(w, S, K, key) /\ Range(w) = U
  <2> HIDE DEF w
  <2>1. /\ Linear(K) /\ key \in [S -> K] /\ U \subseteq S /\ IsFiniteSet(U) /\ Distinct(U, key)
    BY <1>1
  <2>2. SortedVector(InOrder(U, key), S, K, key) /\ Range(InOrder(U, key)) = U
    BY ONLY <2>1, InOrderSorts
  <2> QED BY <2>2 DEF w
<1> HIDE DEF w
<1>3. w \in Seq(S)
  BY <1>2 DEF SortedVector
<1>4. SortedVector(w, T, K, whole)
  BY <1>2, <1>3, SortedByRestriction
<1>5. \A v : SortedVector(v, T, K, whole) /\ Range(v) = U => w = v
  BY <1>2, <1>4, SortedIsUnique
<1> QED BY <1>2, <1>4, <1>5 DEF w

-----------------------------------------------------------------------------
(* What the vectors mean.                                                  *)

Meaning(s) == [epoch |-> s.epoch, phase |-> Phases[s.phase + 1], loops |-> s.loops,
               direction |-> Directions[s.direction + 1], gate |-> s.gate]

EncountersOf(A) == [i \in {s.id : s \in A} |-> Meaning(CHOOSE t \in A : t.id = i)]

EpochOf(A, c) == IF \E s \in A : s.cell = c THEN (CHOOSE s \in A : s.cell = c).epoch ELSE 0

(* The maps of Reality are functions of the members of the vectors.        *)
LEMMA MapsOfMembers ==
  /\ Encounters = EncountersOf(Range(stamps))
  /\ DriftEpoch = [c \in Cell |-> EpochOf(Range(drifts), c)]
BY DEF Encounters, EncountersOf, Meaning, DriftEpoch, EpochOf

(* A set of numbers that is finite has a greatest one.                     *)
LEMMA GreatestNumber ==
  ASSUME NEW S \in SUBSET Nat, IsFiniteSet(S), S # {}
  PROVE  \E m \in S : \A n \in S : n <= m
<1> DEFINE Greatest(U) == U = {} \/ \E m \in U : \A n \in U : n <= m
           sizes == {n \in Nat : \E U \in SUBSET S : IsFiniteSet(U) /\ Cardinality(U) = n /\ ~Greatest(U)}
<1> SUFFICES ASSUME sizes # {} PROVE FALSE
  <2>1. Cardinality(S) \in Nat
    BY FS_CardinalityType
  <2> HIDE DEF Greatest
  <2>2. Greatest(S)
    BY <2>1
  <2> QED BY <2>2 DEF Greatest
<1>1. PICK n \in sizes : \A m \in sizes : n <= m
  <2>1. sizes \in SUBSET Nat
    OBVIOUS
  <2> HIDE DEF sizes
  <2> QED BY <2>1, LeastNumber
<1> HIDE DEF Greatest
<1>2. PICK U \in SUBSET S : IsFiniteSet(U) /\ Cardinality(U) = n /\ ~Greatest(U)
  BY <1>1
<1>3. PICK x \in U : TRUE
  BY <1>2 DEF Greatest
<1> DEFINE W == U \ {x}
<1>4. IsFiniteSet(W) /\ Cardinality(W) = n - 1 /\ n - 1 \in Nat
  <2>1. IsFiniteSet(W) /\ Cardinality(W) = Cardinality(U) - 1
    BY <1>2, <1>3, FS_RemoveElement
  <2>2. Cardinality(W) \in Nat /\ n \in Nat
    BY <1>1, <2>1, FS_CardinalityType
  <2> QED BY <1>2, <2>1, <2>2
<1>5. W \in SUBSET S /\ U = W \cup {x} /\ x \in Nat /\ W \subseteq Nat
  BY <1>2, <1>3
<1> HIDE DEF W
<1>6. Greatest(W)
  <2>1. n - 1 \notin sizes
    BY <1>1, <1>4
  <2> QED BY <1>4, <1>5, <2>1
<1>7. Greatest(U)
  <2>1. CASE W = {}
    BY <1>5, <2>1 DEF Greatest
  <2>2. CASE W # {}
    <3>1. PICK m \in W : \A k \in W : k <= m
      BY <1>6, <2>2 DEF Greatest
    <3>2. m \in Nat /\ m \in U /\ x \in U
      BY <1>5
    <3>3. CASE x <= m
      BY <1>5, <3>1, <3>2, <3>3 DEF Greatest
    <3>4. CASE ~(x <= m)
      <4>1. \A k \in U : k <= x
        <5> TAKE k \in U
        <5>1. k = x \/ k <= m
          BY <1>5, <3>1
        <5>2. k \in Nat
          BY <1>5
        <5> QED BY <1>5, <3>2, <3>4, <5>1, <5>2
      <4> QED BY <3>2, <4>1 DEF Greatest
    <3> QED BY <3>3, <3>4
  <2> QED BY <2>1, <2>2
<1> QED BY <1>2, <1>7

(* What one stamp, or one drift, of each key means.                        *)
LEMMA EncounterOfStamp ==
  ASSUME NEW A, A \subseteq StampRecord, Distinct(A, IdOf)
  PROVE  /\ DOMAIN EncountersOf(A) = {s.id : s \in A}
         /\ \A t \in A : EncountersOf(A)[t.id] = Meaning(t)
<1>1. \A s, t \in A : s.id = t.id => s = t
  BY DEF Distinct, IdOf
<1>2. ASSUME NEW t \in A PROVE (CHOOSE s \in A : s.id = t.id) = t
  BY <1>1
<1> QED BY <1>2 DEF EncountersOf

(* What one drift of each cell means: its epoch, and none is 0.            *)
LEMMA EpochOfDrift ==
  ASSUME NEW A, A \subseteq DriftRecord, Distinct(A, CellOf)
  PROVE  /\ \A t \in A : EpochOf(A, t.cell) = t.epoch
         /\ \A c : (\A t \in A : t.cell # c) => EpochOf(A, c) = 0
<1>1. \A s, t \in A : s.cell = t.cell => s = t
  BY DEF Distinct, CellOf
<1>2. ASSUME NEW t \in A PROVE (CHOOSE s \in A : s.cell = t.cell) = t
  BY <1>1
<1> QED BY <1>2 DEF EpochOf

(* The numbers of directions and phases stand for their names.             *)
LEMMA NamesAndNumbers ==
  /\ Range(Directions) = {"positive", "negative"}
  /\ \A d \in Range(Directions) : /\ NumberIn(Directions, d) \in 0..1
                                  /\ Directions[NumberIn(Directions, d) + 1] = d
  /\ \A p \in R!Phase : /\ NumberIn(Phases, p) \in 0..2
                        /\ Phases[NumberIn(Phases, p) + 1] = p
  /\ \A n \in 0..1 : Directions[n + 1] \in R!Direction
  /\ \A n \in 0..2 : Phases[n + 1] \in R!Phase
<1>1. /\ DOMAIN Directions = {1, 2} /\ DOMAIN Phases = {1, 2, 3}
      /\ Directions[1] = "positive" /\ Directions[2] = "negative"
      /\ Phases[1] = "outside" /\ Phases[2] = "sealed" /\ Phases[3] = "escape"
  BY DEF Directions, Phases
<1>2. Range(Directions) = {"positive", "negative"}
  BY <1>1 DEF Range
<1>3. ASSUME NEW d \in {"positive", "negative"}
      PROVE  /\ NumberIn(Directions, d) \in 0..1
             /\ Directions[NumberIn(Directions, d) + 1] = d
  <2> DEFINE k == CHOOSE k \in DOMAIN Directions : Directions[k] = d
  <2>1. k \in {1, 2} /\ Directions[k] = d
    <3>1. \E j \in DOMAIN Directions : Directions[j] = d
      BY <1>1
    <3> QED BY <1>1, <3>1
  <2>2. NumberIn(Directions, d) = k - 1
    BY DEF NumberIn
  <2> HIDE DEF k
  <2>3. NumberIn(Directions, d) \in 0..1 /\ NumberIn(Directions, d) + 1 = k
    BY <2>1, <2>2
  <2> QED BY <2>1, <2>3
<1>4. ASSUME NEW p \in R!Phase
      PROVE  /\ NumberIn(Phases, p) \in 0..2
             /\ Phases[NumberIn(Phases, p) + 1] = p
  <2> DEFINE k == CHOOSE k \in DOMAIN Phases : Phases[k] = p
  <2>1. k \in {1, 2, 3} /\ Phases[k] = p
    <3>1. \E j \in DOMAIN Phases : Phases[j] = p
      BY <1>1 DEF R!Phase
    <3> QED BY <1>1, <3>1
  <2>2. NumberIn(Phases, p) = k - 1
    BY DEF NumberIn
  <2> HIDE DEF k
  <2>3. NumberIn(Phases, p) \in 0..2 /\ NumberIn(Phases, p) + 1 = k
    BY <2>1, <2>2
  <2> QED BY <2>1, <2>3
<1>5. \A n \in 0..1 : n + 1 \in {1, 2} /\ Directions[n + 1] \in R!Direction
  BY <1>1 DEF R!Direction
<1>6. \A n \in 0..2 : n + 1 \in {1, 2, 3} /\ Phases[n + 1] \in R!Phase
  BY <1>1 DEF R!Phase
<1> QED BY <1>2, <1>3, <1>4, <1>5, <1>6

(* What the vectors mean has the types of Reality.                         *)
LEMMA EncounterTypes ==
  ASSUME Canonical
  PROVE  /\ \A i \in DOMAIN Encounters : Encounters[i] \in R!Stamp
         /\ R!Newest \in Nat
<1> DEFINE A == Range(stamps)
<1>1. A \subseteq StampRecord /\ IsFiniteSet(A) /\ Distinct(A, IdOf)
  BY SortedMembers DEF Canonical, SortedStamps
<1>2. Encounters = EncountersOf(A)
  BY MapsOfMembers
<1> HIDE DEF A
<1>3. /\ DOMAIN Encounters = {s.id : s \in A}
      /\ \A t \in A : Encounters[t.id] = Meaning(t)
  BY <1>1, <1>2, EncounterOfStamp
<1>4. ASSUME NEW t \in A PROVE Meaning(t) \in R!Stamp /\ Meaning(t).epoch = t.epoch
  <2>1. t \in StampRecord
    BY <1>1
  <2>2. Phases[t.phase + 1] \in R!Phase /\ Directions[t.direction + 1] \in R!Direction
    BY <2>1, NamesAndNumbers DEF StampRecord
  <2> QED BY <2>1, <2>2 DEF Meaning, R!Stamp, StampRecord
<1>5. \A i \in DOMAIN Encounters : Encounters[i] \in R!Stamp
  BY <1>3, <1>4
<1>6. R!Epochs = {0} \cup {t.epoch : t \in A}
  <2>1. R!Epochs = {0} \cup {Encounters[i].epoch : i \in DOMAIN Encounters}
    BY DEF R!Epochs
  <2> QED BY <1>3, <1>4, <2>1
<1>7. R!Epochs \in SUBSET Nat /\ R!Epochs # {} /\ IsFiniteSet(R!Epochs)
  <2> DEFINE f == [t \in A |-> t.epoch]
             I == {t.epoch : t \in A}
  <2>1. f \in Surjection(A, I)
    BY DEF Surjection
  <2>2. IsFiniteSet(I)
    <3> HIDE DEF f, I
    <3> QED BY <1>1, <2>1, FS_Surjection
  <2>3. I \subseteq Nat
    BY <1>1 DEF StampRecord
  <2> HIDE DEF I
  <2>4. R!Epochs = {0} \cup I
    BY <1>6 DEF I
  <2>5. IsFiniteSet({0})
    BY FS_Singleton
  <2>6. IsFiniteSet({0} \cup I)
    BY <2>2, <2>5, FS_Union
  <2> QED BY <2>3, <2>4, <2>6
<1>8. \E m \in R!Epochs : \A n \in R!Epochs : n <= m
  <2> DEFINE E == R!Epochs
  <2>1. E \in SUBSET Nat /\ E # {} /\ IsFiniteSet(E)
    BY <1>7
  <2> HIDE DEF E
  <2>2. \E m \in E : \A n \in E : n <= m
    BY <2>1, GreatestNumber
  <2> QED BY <2>2 DEF E
<1>9. R!Newest \in R!Epochs
  BY <1>8 DEF R!Newest
<1> QED BY <1>5, <1>7, <1>9

(* A reduction yields a stamp.                                             *)
LEMMA ReductionType ==
  ASSUME Canonical, NEW g \in Gate, NEW d \in R!Direction
  PROVE  R!NewStamp(g, d) \in R!Stamp
<1> DEFINE i == Of[g]
           s == R!Before(i)
           t == R!TransitionFor(g, d)
           Before == [epoch : Nat, phase : R!Phase, loops : Nat]
<1>1. R!NextEpoch(i) \in Nat
  BY EncounterTypes DEF R!NextEpoch
<1>2. s \in Before
  <2>1. CASE R!Known(i)
    <3>1. Encounters[i] \in R!Stamp
      BY <2>1, EncounterTypes DEF R!Known
    <3> QED BY <2>1, <3>1 DEF R!Before, R!Stamp
  <2>2. CASE ~R!Known(i)
    BY <1>1, <2>2 DEF R!Before, R!Phase
  <2> QED BY <2>1, <2>2
<1> HIDE DEF s
<1>3. R!AdvanceRemap(s, i) \in Before
  BY <1>1, <1>2 DEF R!AdvanceRemap
<1>4. \A inward : R!AdvanceRedThreshold(s, i, inward) \in Before
  BY <1>1, <1>2 DEF R!AdvanceRedThreshold, R!Phase
<1>5. R!AdvanceRedLoop(s, i) \in Before
  <2>1. R!WalkLoop(s, i) \in Before
    <3> DEFINE phase == IF s.loops + 1 >= R!LoopsToOpenEscape THEN "escape" ELSE "sealed"
    <3>1. R!WalkLoop(s, i) = [s EXCEPT !.phase = phase, !.loops = @ + 1,
                                       !.epoch = R!NextEpoch(i)]
      BY DEF R!WalkLoop
    <3>2. phase \in R!Phase
      BY DEF R!Phase
    <3> HIDE DEF phase
    <3>3. s = [epoch |-> s.epoch, phase |-> s.phase, loops |-> s.loops] /\ s.loops \in Nat
      BY <1>2
    <3>4. R!WalkLoop(s, i) = [epoch |-> R!NextEpoch(i), phase |-> phase, loops |-> s.loops + 1]
      BY <3>1, <3>3
    <3> QED BY <1>1, <3>2, <3>3, <3>4
  <2>2. R!Withdraw(s, i) \in Before
    BY <1>1, <1>2 DEF R!Withdraw, R!Phase
  <2> QED BY <1>2, <2>1, <2>2 DEF R!AdvanceRedLoop
<1>6. t \in Before
  <2>1. t = CASE Kind[g] = "remap" -> R!AdvanceRemap(s, i)
              [] Kind[g] = "threshold" -> R!AdvanceRedThreshold(s, i, d = Forward[g])
              [] Kind[g] = "loop" -> R!AdvanceRedLoop(s, i)
              [] OTHER -> s
    BY DEF R!TransitionFor, s
  <2> QED BY <1>2, <1>3, <1>4, <1>5, <2>1
<1>7. R!NewStamp(g, d) = [epoch |-> t.epoch, phase |-> t.phase, loops |-> t.loops,
                          direction |-> d, gate |-> g]
  BY DEF R!NewStamp
<1> HIDE DEF t
<1> QED BY <1>6, <1>7 DEF R!Stamp

(* No stamp is before itself.                                              *)
LEMMA FieldsDoNotPrecedeThemselves ==
  ASSUME NEW t \in StampRecord
  PROVE  ~Precedes(Fields(t), Fields(t))
<1>1. /\ t.id \in Int /\ t.epoch \in Int /\ t.plane \in Int /\ t.axis \in Int
      /\ t.direction \in Int /\ t.phase \in Int /\ t.loops \in Int /\ t.gate \in Int
  <2>1. SignedRange(HalfWidth) \subseteq Int
    BY DEF SignedRange
  <2>2. Instance \subseteq Int /\ Gate \subseteq Int
    BY KeysAreNumbers
  <2>3. /\ t.id \in Instance /\ t.gate \in Gate /\ t.plane \in SignedRange(HalfWidth)
        /\ t.axis \in 0..1 /\ t.direction \in 0..1 /\ t.phase \in 0..2
        /\ t.epoch \in Nat /\ t.loops \in Nat
    BY DEF StampRecord
  <2>4. t.id \in Int /\ t.gate \in Int
    BY <2>2, <2>3
  <2>5. t.plane \in Int
    BY <2>1, <2>3
  <2>6. /\ t.axis \in Int /\ t.direction \in Int /\ t.phase \in Int
        /\ t.epoch \in Int /\ t.loops \in Int
    BY ONLY <2>3
  <2> QED BY <2>4, <2>5, <2>6
<1> DEFINE f == Fields(t)
<1>2. f = <<t.id, t.epoch, t.plane, t.axis, t.direction, t.phase, t.loops, t.gate>>
  BY DEF Fields
<1>3. f \in Seq(Int)
  BY <1>1, <1>2
<1> HIDE DEF f
<1>4. \A k \in DOMAIN f : f[k] \in Int
  BY <1>3, MembersOfVector
<1> QED BY <1>4 DEF Precedes, f

(* The vectors are what the constructor makes of their members.            *)
LEMMA StampsInOrder ==
  ASSUME NEW A, A \subseteq StampRecord, IsFiniteSet(A), Distinct(A, IdOf)
  PROVE  /\ SortedStamps(CanonicalStamps(A)) /\ Range(CanonicalStamps(A)) = A
         /\ \A v : SortedStamps(v) /\ Range(v) = A => CanonicalStamps(A) = v
<1>1. LatestStamps(A) = A
  <2>1. \A t, u \in A : u.id = t.id => u = t
    BY DEF Distinct, IdOf
  <2>2. \A t \in A : ~Precedes(Fields(t), Fields(t))
    BY FieldsDoNotPrecedeThemselves
  <2> QED BY <2>1, <2>2 DEF LatestStamps
<1> DEFINE key == [t \in A |-> <<t.id>>]
<1>2. CanonicalStamps(A) = InOrder(A, key)
  BY <1>1 DEF CanonicalStamps
<1>3. \A x \in A : key[x] = IdOf[x]
  BY DEF IdOf
<1>4. key \in [A -> Single(Int)]
  BY KeysAreNumbers DEF StampRecord, Single
<1> HIDE DEF key
<1>5. /\ IdOf \in [StampRecord -> Single(Int)] /\ Linear(Single(Int))
      /\ A \subseteq A
  BY KeysAreNumbers, NumbersAreLinear
<1>6. A \subseteq StampRecord /\ IsFiniteSet(A) /\ Distinct(A, IdOf)
  OBVIOUS
<1>7. /\ SortedVector(InOrder(A, key), StampRecord, Single(Int), IdOf)
      /\ Range(InOrder(A, key)) = A
      /\ \A v : SortedVector(v, StampRecord, Single(Int), IdOf) /\ Range(v) = A
           => InOrder(A, key) = v
  BY ONLY <1>3, <1>4, <1>5, <1>6, OrderedAgain, SMTT(60)
<1> QED BY <1>2, <1>7 DEF SortedStamps

(* The drifts of distinct cells, in order.                                 *)
LEMMA DriftsInOrder ==
  ASSUME NEW A, A \subseteq DriftRecord, IsFiniteSet(A), Distinct(A, CellOf)
  PROVE  /\ SortedDrifts(CanonicalDrifts(A)) /\ Range(CanonicalDrifts(A)) = A
         /\ \A v : SortedDrifts(v) /\ Range(v) = A => CanonicalDrifts(A) = v
<1>1. LatestDrifts(A) = A
  <2>1. \A t, u \in A : u.cell = t.cell => u = t
    BY DEF Distinct, CellOf
  <2>2. \A t \in A : t.epoch \in Nat /\ t.epoch > 0 /\ t.epoch <= t.epoch
    BY DEF DriftRecord
  <2> QED BY <2>1, <2>2 DEF LatestDrifts
<1> DEFINE key == [t \in A |-> t.cell]
<1>2. CanonicalDrifts(A) = InOrder(A, key)
  BY <1>1 DEF CanonicalDrifts
<1>3. \A x \in A : key[x] = CellOf[x]
  BY DEF CellOf
<1>4. key \in [A -> Int \X Int]
  BY KeysAreNumbers DEF DriftRecord
<1> HIDE DEF key
<1> DEFINE K == Int \X Int
<1>4a. key \in [A -> K]
  BY <1>4
<1>5. CellOf \in [DriftRecord -> K] /\ Linear(K) /\ A \subseteq A
  BY KeysAreNumbers, PairsAreLinear
<1> HIDE DEF K
<1>6. A \subseteq DriftRecord /\ IsFiniteSet(A) /\ Distinct(A, CellOf)
  OBVIOUS
<1>7. /\ SortedVector(InOrder(A, key), DriftRecord, K, CellOf)
      /\ Range(InOrder(A, key)) = A
      /\ \A v : SortedVector(v, DriftRecord, K, CellOf) /\ Range(v) = A
           => InOrder(A, key) = v
  BY ONLY <1>3, <1>4a, <1>5, <1>6, OrderedAgain
<1> QED BY <1>2, <1>7 DEF SortedDrifts, K

(* The supplies, in order.                                                 *)
LEMMA SuppliesInOrder ==
  ASSUME NEW A, A \subseteq Supply, IsFiniteSet(A)
  PROVE  /\ SortedSupplies(CanonicalSupplies(A)) /\ Range(CanonicalSupplies(A)) = A
         /\ \A v : SortedSupplies(v) /\ Range(v) = A => CanonicalSupplies(A) = v
<1> DEFINE key == [id \in A |-> <<id>>]
<1>1. Distinct(A, Itself)
  <2> SUFFICES ASSUME NEW x \in A, NEW y \in A, <<x>> = <<y>> PROVE x = y
    BY DEF Distinct, Itself
  <2> QED OBVIOUS
<1>2. CanonicalSupplies(A) = InOrder(A, key)
  BY DEF CanonicalSupplies
<1>3. \A x \in A : key[x] = Itself[x]
  BY DEF Itself
<1>4. key \in [A -> Single(Int)]
  BY KeysAreNumbers DEF Single
<1> HIDE DEF key
<1>5. /\ Itself \in [Supply -> Single(Int)] /\ Linear(Single(Int))
      /\ A \subseteq A
  BY KeysAreNumbers, NumbersAreLinear
<1>6. A \subseteq Supply /\ IsFiniteSet(A)
  OBVIOUS
<1>7. /\ SortedVector(InOrder(A, key), Supply, Single(Int), Itself)
      /\ Range(InOrder(A, key)) = A
      /\ \A v : SortedVector(v, Supply, Single(Int), Itself) /\ Range(v) = A
           => InOrder(A, key) = v
  BY ONLY <1>1, <1>3, <1>4, <1>5, <1>6, OrderedAgain
<1> QED BY <1>2, <1>7 DEF SortedSupplies

(* Vectors that are canonical are left as they are.                        *)
LEMMA MembersAgain ==
  ASSUME Canonical
  PROVE  /\ Range(stamps) \subseteq StampRecord /\ IsFiniteSet(Range(stamps))
         /\ Distinct(Range(stamps), IdOf)
         /\ Range(drifts) \subseteq DriftRecord /\ IsFiniteSet(Range(drifts))
         /\ Distinct(Range(drifts), CellOf)
         /\ Range(consumed) \subseteq Supply /\ IsFiniteSet(Range(consumed))
         /\ CanonicalStamps(Range(stamps)) = stamps
         /\ CanonicalDrifts(Range(drifts)) = drifts
         /\ CanonicalSupplies(Range(consumed)) = consumed
<1>1. /\ SortedStamps(stamps) /\ SortedDrifts(drifts) /\ SortedSupplies(consumed)
  BY DEF Canonical
<1>2. /\ Range(stamps) \subseteq StampRecord /\ IsFiniteSet(Range(stamps))
      /\ Distinct(Range(stamps), IdOf)
  BY <1>1, SortedMembers DEF SortedStamps
<1>3. /\ Range(drifts) \subseteq DriftRecord /\ IsFiniteSet(Range(drifts))
      /\ Distinct(Range(drifts), CellOf)
  BY <1>1, SortedMembers DEF SortedDrifts
<1>4. /\ Range(consumed) \subseteq Supply /\ IsFiniteSet(Range(consumed))
  BY <1>1, SortedMembers DEF SortedSupplies
<1>5. CanonicalStamps(Range(stamps)) = stamps
  BY <1>1, <1>2, StampsInOrder
<1>6. CanonicalDrifts(Range(drifts)) = drifts
  BY <1>1, <1>3, DriftsInOrder
<1>7. CanonicalSupplies(Range(consumed)) = consumed
  BY <1>1, <1>4, SuppliesInOrder
<1> QED BY <1>2, <1>3, <1>4, <1>5, <1>6, <1>7

(* The stamp of a crossing, in the vector.                                 *)
LEMMA GateInTheVector ==
  ASSUME Canonical, NEW g \in Gate, NEW d \in Range(Directions),
         NEW B, B = Retained(Of[g]) \cup {StampFor(g, d)}
  PROVE  /\ SortedStamps(CanonicalStamps(B)) /\ Range(CanonicalStamps(B)) = B
         /\ EncountersOf(B) = R!WithStamp(Of[g], R!NewStamp(g, d))
<1> DEFINE A == Range(stamps)
           i == Of[g]
           n == StampFor(g, d)
           s == R!NewStamp(g, d)
<1>1. A \subseteq StampRecord /\ IsFiniteSet(A) /\ Distinct(A, IdOf)
  BY MembersAgain
<1>2. i \in Instance /\ d \in R!Direction
  BY SnapshotAssumption, NamesAndNumbers DEF R!Direction
<1>3. s \in R!Stamp /\ s.direction = d /\ s.gate = g
  <2>1. s.direction = d /\ s.gate = g
    BY DEF R!NewStamp
  <2> HIDE DEF s
  <2> QED BY <1>2, <2>1, ReductionType DEF s
<1>4. n = [id |-> i, epoch |-> s.epoch, plane |-> Plane[g], axis |-> Axis[g],
           direction |-> NumberIn(Directions, d), phase |-> NumberIn(Phases, s.phase),
           loops |-> s.loops, gate |-> g]
  BY DEF StampFor
<1> HIDE DEF s, n, i
<1>5. n \in StampRecord /\ n.id = i
  <2>1. Plane[g] \in SignedRange(HalfWidth) /\ Axis[g] \in 0..1
    BY SnapshotAssumption
  <2>2. NumberIn(Directions, d) \in 0..1 /\ NumberIn(Phases, s.phase) \in 0..2
    BY <1>3, NamesAndNumbers DEF R!Stamp
  <2> QED BY <1>2, <1>3, <1>4, <2>1, <2>2 DEF StampRecord, R!Stamp
<1>6. Meaning(n) = s
  <2>1. /\ n.epoch = s.epoch /\ n.loops = s.loops /\ n.gate = g
        /\ Phases[n.phase + 1] = s.phase /\ Directions[n.direction + 1] = s.direction
    BY <1>3, <1>4, NamesAndNumbers DEF R!Stamp
  <2>2. s = [epoch |-> s.epoch, phase |-> s.phase, loops |-> s.loops,
             direction |-> s.direction, gate |-> s.gate]
    BY <1>3 DEF R!Stamp
  <2> QED BY <1>3, <2>1, <2>2 DEF Meaning
<1>7. B = {t \in A : t.id # i} \cup {n}
  BY DEF Retained, i, n
<1> HIDE DEF A
<1>8. B \subseteq StampRecord /\ Distinct(B, IdOf)
  <2>1. B \subseteq StampRecord
    BY <1>1, <1>5, <1>7
  <2>2. \A t \in StampRecord : IdOf[t] = <<t.id>>
    BY DEF IdOf
  <2>3. \A t, u \in A : t.id = u.id => t = u
    BY <1>1, <2>2 DEF Distinct
  <2>4. \A t, u \in B : t.id = u.id => t = u
    BY <1>5, <1>7, <2>3
  <2>5. \A t, u \in B : IdOf[t] = IdOf[u] => t.id = u.id
    <3> SUFFICES ASSUME NEW t \in B, NEW u \in B, <<t.id>> = <<u.id>> PROVE t.id = u.id
      BY <2>1, <2>2
    <3> QED OBVIOUS
  <2> QED BY <2>1, <2>4, <2>5 DEF Distinct
<1>9. IsFiniteSet(B)
  <2> DEFINE kept == {t \in A : t.id # i}
  <2>1. IsFiniteSet(kept)
    BY <1>1, FS_Subset
  <2>2. IsFiniteSet({n})
    BY FS_Singleton
  <2> HIDE DEF kept
  <2> QED BY <1>7, <2>1, <2>2, FS_Union, ZenonT(60) DEF kept
<1>10. EncountersOf(B) = R!WithStamp(i, s)
  <2>1. Encounters = EncountersOf(A)
    BY MapsOfMembers DEF A
  <2>2. /\ DOMAIN Encounters = {t.id : t \in A}
        /\ \A t \in A : Encounters[t.id] = Meaning(t)
    BY <1>1, <2>1, EncounterOfStamp
  <2>3. /\ DOMAIN EncountersOf(B) = {t.id : t \in B}
        /\ \A t \in B : EncountersOf(B)[t.id] = Meaning(t)
    BY <1>8, EncounterOfStamp
  <2>4. {t.id : t \in B} = {t.id : t \in A} \cup {i}
    BY <1>5, <1>7
  <2>5. ASSUME NEW j \in DOMAIN Encounters \cup {i}
        PROVE  EncountersOf(B)[j] = IF j = i THEN s ELSE Encounters[j]
    <3>1. CASE j = i
      BY <1>5, <1>6, <1>7, <2>3, <3>1
    <3>2. CASE j # i
      <4>1. PICK t \in A : t.id = j
        BY <2>2, <2>5, <3>2
      <4>2. t \in B
        BY <1>7, <3>2, <4>1
      <4> QED BY <2>2, <2>3, <3>2, <4>1, <4>2
    <3> QED BY <3>1, <3>2
  <2>6. EncountersOf(B) = [j \in DOMAIN EncountersOf(B) |-> EncountersOf(B)[j]]
    BY DEF EncountersOf
  <2>7. EncountersOf(B) = [j \in DOMAIN Encounters \cup {i} |-> IF j = i THEN s ELSE Encounters[j]]
    BY <2>2, <2>3, <2>4, <2>5, <2>6
  <2> QED BY <2>7 DEF R!WithStamp
<1> QED BY <1>8, <1>9, <1>10, StampsInOrder DEF i, s

(* A drift cell advanced in the vector.                                    *)
LEMMA DriftInTheVector ==
  ASSUME Canonical, NEW c \in Cell,
         NEW cells, cells = [k \in DOMAIN drifts |-> drifts[k].cell],
         NEW p, p = PlaceOf(cells, c),
         NEW w, w = IF FoundAt(cells, c) THEN [drifts EXCEPT ![p].epoch = @ + 1]
                    ELSE Inserted(drifts, p, [cell |-> c, epoch |-> 1])
  PROVE  /\ SortedDrifts(w)
         /\ \A e \in Cell : EpochOf(Range(w), e)
              = IF e = c THEN EpochOf(Range(drifts), e) + 1 ELSE EpochOf(Range(drifts), e)
<1> DEFINE K == Int \X Int
           A == Range(drifts)
<1>1. SortedVector(drifts, DriftRecord, K, CellOf) /\ Linear(K) /\ CellOf \in [DriftRecord -> K]
  BY DEF Canonical, SortedDrifts, SortedVector
<1>2. drifts \in Seq(DriftRecord)
  BY <1>1 DEF SortedVector
<1>3. /\ Len(drifts) \in Nat /\ DOMAIN drifts = 1..Len(drifts)
      /\ \A k \in 1..Len(drifts) : drifts[k] \in DriftRecord /\ drifts[k] \in A
      /\ \A x \in A : x \in DriftRecord /\ \E k \in 1..Len(drifts) : drifts[k] = x
  BY <1>2, MembersOfVector
<1>4. \A t \in DriftRecord : t.cell \in Cell /\ t.epoch \in Nat \ {0} /\ CellOf[t] = t.cell
  BY DEF DriftRecord, CellOf
<1>5. cells = KeysOf(drifts, CellOf)
  BY <1>3, <1>4 DEF KeysOf
<1>6. c \in K
  BY KeysAreNumbers
<1> HIDE DEF K
<1>7. /\ p \in 1..(Len(drifts) + 1)
      /\ FoundAt(cells, c) <=> \E k \in DOMAIN drifts : CellOf[drifts[k]] = c
      /\ \A k \in DOMAIN drifts : CellOf[drifts[k]] = c => k = p
  <2>1. p = PlaceOf(KeysOf(drifts, CellOf), c)
    BY <1>5
  <2>2. /\ p \in 1..(Len(drifts) + 1)
        /\ FoundAt(KeysOf(drifts, CellOf), c) <=> \E k \in DOMAIN drifts : CellOf[drifts[k]] = c
        /\ \A k \in DOMAIN drifts : CellOf[drifts[k]] = c => k = p
    BY ONLY <1>1, <1>6, <2>1, SearchFinds
  <2> QED BY <1>5, <2>2
<1>8. A \subseteq DriftRecord /\ Distinct(A, CellOf)
  BY MembersAgain
<1>9. /\ \A t \in A : EpochOf(A, t.cell) = t.epoch
      /\ \A e : (\A t \in A : t.cell # e) => EpochOf(A, e) = 0
  <2> HIDE DEF A
  <2> QED BY <1>8, EpochOfDrift
<1> DEFINE B == Range(w)
<1>10. CASE FoundAt(cells, c)
  <2>1. p \in 1..Len(drifts) /\ drifts[p].cell = c
    BY <1>3, <1>4, <1>7, <1>10
  <2>2. w = [drifts EXCEPT ![p].epoch = @ + 1]
    BY <1>10
  <2> DEFINE t == [cell |-> c, epoch |-> drifts[p].epoch + 1]
  <2>3. [drifts[p] EXCEPT !.epoch = @ + 1] = t
    <3>1. drifts[p] \in [cell : Cell, epoch : Nat \ {0}]
      BY <1>3, <2>1 DEF DriftRecord
    <3>2. drifts[p] = [cell |-> drifts[p].cell, epoch |-> drifts[p].epoch]
      BY <3>1
    <3> QED BY <2>1, <3>2
  <2>4. t \in DriftRecord /\ t.cell = c /\ t.epoch = drifts[p].epoch + 1 /\ CellOf[t] = c
    <3>1. drifts[p].epoch + 1 \in Nat \ {0}
      BY <1>3, <1>4, <2>1
    <3>2. t \in DriftRecord
      BY <3>1 DEF DriftRecord
    <3> QED BY <1>4, <3>2
  <2>5. w = [k \in 1..Len(drifts) |-> IF k = p THEN t ELSE drifts[k]]
    <3>1. w = [drifts EXCEPT ![p] = [drifts[p] EXCEPT !.epoch = @ + 1]]
      BY <2>2
    <3> HIDE DEF t
    <3>2. w = [drifts EXCEPT ![p] = t]
      BY <2>3, <3>1
    <3>3. drifts = [k \in 1..Len(drifts) |-> drifts[k]]
      BY <1>2
    <3> QED BY <2>1, <3>2, <3>3
  <2> HIDE DEF t
  <2>6. DOMAIN w = 1..Len(drifts) /\ w[p] = t /\ \A k \in 1..Len(drifts) : k # p => w[k] = drifts[k]
    BY <2>1, <2>5
  <2>7. w \in Seq(DriftRecord)
    <3>1. \A k \in 1..Len(drifts) : w[k] \in DriftRecord
      <4> TAKE k \in 1..Len(drifts)
      <4>1. drifts[k] \in DriftRecord /\ t \in DriftRecord
        BY <1>3, <2>4
      <4> QED BY <2>6, <4>1
    <3>2. w = [k \in 1..Len(drifts) |-> w[k]]
      BY <2>5
    <3>3. w \in [1..Len(drifts) -> DriftRecord]
      BY <3>1, <3>2
    <3>4. Len(drifts) \in Nat
      BY <1>3
    <3> QED BY ONLY <3>3, <3>4
  <2>8. \A k \in 1..Len(drifts) : CellOf[w[k]] = CellOf[drifts[k]]
    <3> TAKE k \in 1..Len(drifts)
    <3>1. CASE k = p
      <4>1. CellOf[drifts[p]] = c
        BY <1>3, <1>4, <2>1
      <4> QED BY <2>4, <2>6, <3>1, <4>1
    <3>2. CASE k # p
      BY <2>6, <3>2
    <3> QED BY <3>1, <3>2
  <2>9. SortedVector(w, DriftRecord, K, CellOf)
    <3>1. Ascending(drifts, CellOf)
      BY <1>1 DEF SortedVector
    <3>2. Ascending(w, CellOf)
      <4>1. ASSUME NEW j \in 1..Len(drifts), NEW k \in 1..Len(drifts), j < k
            PROVE  Precedes(CellOf[w[j]], CellOf[w[k]])
        <5>1. Precedes(CellOf[drifts[j]], CellOf[drifts[k]])
          BY <1>3, <3>1, <4>1 DEF Ascending
        <5>2. CellOf[w[j]] = CellOf[drifts[j]] /\ CellOf[w[k]] = CellOf[drifts[k]]
          BY <2>8
        <5> QED BY <5>1, <5>2
      <4>2. DOMAIN w = 1..Len(drifts)
        BY <2>6
      <4> QED BY ONLY <4>1, <4>2 DEF Ascending
    <3> QED BY <1>1, <2>7, <3>2 DEF SortedVector
  <2>10. B \subseteq DriftRecord /\ Distinct(B, CellOf)
    BY <2>9, SortedMembers
  <2>11. /\ \A s \in B : EpochOf(B, s.cell) = s.epoch
         /\ \A e : (\A s \in B : s.cell # e) => EpochOf(B, e) = 0
    <3> HIDE DEF B
    <3> QED BY <2>10, EpochOfDrift
  <2>12. /\ \A k \in 1..Len(drifts) : w[k] \in B
         /\ \A s \in B : \E k \in 1..Len(drifts) : w[k] = s
    BY <2>6 DEF Range
  <2> HIDE DEF A, B
  <2>13. EpochOf(B, c) = EpochOf(A, c) + 1
    BY <1>3, <1>9, <2>1, <2>4, <2>6, <2>11, <2>12, ZenonT(60)
  <2>14. ASSUME NEW e \in Cell, e # c PROVE EpochOf(B, e) = EpochOf(A, e)
    <3>1. CASE \E k \in 1..Len(drifts) : drifts[k].cell = e
      <4>1. PICK k \in 1..Len(drifts) : drifts[k].cell = e
        BY <3>1
      <4>2. k # p
        BY <2>1, <2>14, <4>1
      <4> QED BY <1>3, <1>9, <2>6, <2>11, <2>12, <4>1, <4>2
    <3>2. CASE ~\E k \in 1..Len(drifts) : drifts[k].cell = e
      <4>1. \A s \in A : s.cell # e
        BY <1>3, <3>2
      <4>2. \A s \in B : s.cell # e
        <5> TAKE s \in B
        <5>1. PICK k \in 1..Len(drifts) : w[k] = s
          BY <2>12
        <5>2. CASE k = p
          BY <2>4, <2>6, <2>14, <5>1, <5>2
        <5>3. CASE k # p
          BY <2>6, <3>2, <5>1, <5>3
        <5> QED BY <5>2, <5>3
      <4> QED BY <1>9, <2>11, <4>1, <4>2
    <3> QED BY <3>1, <3>2
  <2> QED BY <2>9, <2>13, <2>14 DEF A, B, K, SortedDrifts
<1>11. CASE ~FoundAt(cells, c)
  <2> DEFINE t == [cell |-> c, epoch |-> 1]
  <2>1. w = Inserted(drifts, PlaceOf(KeysOf(drifts, CellOf), c), t)
    BY <1>5, <1>11
  <2>2. t \in DriftRecord /\ t.cell = c /\ t.epoch = 1 /\ CellOf[t] = c
    <3>1. t \in DriftRecord
      BY DEF DriftRecord
    <3> QED BY <1>4, <3>1
  <2>3. \A k \in DOMAIN drifts : CellOf[drifts[k]] # CellOf[t]
    BY <1>7, <1>11, <2>2
  <2> HIDE DEF t
  <2>4. w = Inserted(drifts, PlaceOf(KeysOf(drifts, CellOf), CellOf[t]), t)
    BY <2>1, <2>2
  <2>5. /\ SortedVector(w, DriftRecord, K, CellOf)
        /\ Range(w) = Range(drifts) \cup {t}
    BY ONLY <1>1, <2>2, <2>3, <2>4, InsertionSorts
  <2>6. B = A \cup {t}
    BY <2>5
  <2>7. B \subseteq DriftRecord /\ Distinct(B, CellOf)
    BY <2>5, SortedMembers
  <2> HIDE DEF A, B
  <2>8. /\ \A s \in B : EpochOf(B, s.cell) = s.epoch
        /\ \A e : (\A s \in B : s.cell # e) => EpochOf(B, e) = 0
    BY <2>7, EpochOfDrift
  <2>9. \A s \in A : s.cell # c
    BY <1>3, <1>4, <2>2, <2>3
  <2>10. EpochOf(B, c) = EpochOf(A, c) + 1
    <3>1. EpochOf(A, c) = 0
      BY <1>9, <2>9
    <3>2. t \in B
      BY <2>6
    <3>3. EpochOf(B, t.cell) = t.epoch
      BY <2>8, <3>2
    <3> QED BY <2>2, <3>1, <3>3
  <2>11. ASSUME NEW e \in Cell, e # c PROVE EpochOf(B, e) = EpochOf(A, e)
    <3>1. CASE \E s \in A : s.cell = e
      BY <1>9, <2>6, <2>8, <3>1
    <3>2. CASE ~\E s \in A : s.cell = e
      <4>1. \A s \in B : s.cell # e
        BY <2>2, <2>6, <2>11, <3>2
      <4> QED BY <1>9, <2>8, <3>2, <4>1
    <3> QED BY <3>1, <3>2
  <2> QED BY <2>5, <2>10, <2>11 DEF A, B, K, SortedDrifts
<1> QED BY <1>10, <1>11

(* A supply consumed in the vector.                                        *)
LEMMA SupplyInTheVector ==
  ASSUME Canonical, NEW id \in Supply,
         NEW keys, keys = [k \in DOMAIN consumed |-> <<consumed[k]>>],
         NEW w, w = IF FoundAt(keys, <<id>>) THEN consumed
                    ELSE Inserted(consumed, PlaceOf(keys, <<id>>), id)
  PROVE  SortedSupplies(w) /\ Range(w) = Range(consumed) \cup {id}
<1> DEFINE K == Single(Int)
<1>1. /\ SortedVector(consumed, Supply, K, Itself) /\ Linear(K) /\ Itself \in [Supply -> K]
      /\ consumed \in Seq(Supply)
  BY DEF Canonical, SortedSupplies, SortedVector
<1>2. /\ Len(consumed) \in Nat /\ DOMAIN consumed = 1..Len(consumed)
      /\ \A k \in 1..Len(consumed) : consumed[k] \in Supply /\ consumed[k] \in Range(consumed)
  BY <1>1, MembersOfVector
<1>3. /\ \A x \in Supply : Itself[x] = <<x>>
      /\ \A x, y \in Supply : Itself[x] = Itself[y] => x = y
  <2>1. \A x \in Supply : Itself[x] = <<x>>
    BY DEF Itself
  <2>2. \A x, y \in Supply : <<x>> = <<y>> => x = y
    OBVIOUS
  <2> QED BY <2>1, <2>2
<1>4. keys = KeysOf(consumed, Itself)
  BY <1>2, <1>3 DEF KeysOf
<1>5. <<id>> \in K
  BY KeysAreNumbers DEF Single
<1> HIDE DEF K
<1>6. FoundAt(keys, <<id>>) <=> \E k \in DOMAIN consumed : Itself[consumed[k]] = <<id>>
  <2> DEFINE c == <<id>>
             p == PlaceOf(KeysOf(consumed, Itself), c)
  <2>1. c \in K
    BY <1>5
  <2>2. p = PlaceOf(KeysOf(consumed, Itself), c)
    OBVIOUS
  <2> HIDE DEF c, p
  <2>3. FoundAt(KeysOf(consumed, Itself), c) <=> \E k \in DOMAIN consumed : Itself[consumed[k]] = c
    BY ONLY <1>1, <2>1, <2>2, SearchFinds
  <2> QED BY <1>4, <2>3 DEF c
<1>7. CASE FoundAt(keys, <<id>>)
  <2>1. w = consumed /\ id \in Range(consumed)
    BY <1>2, <1>3, <1>6, <1>7
  <2> QED BY <1>1, <2>1 DEF K, SortedSupplies
<1>8. CASE ~FoundAt(keys, <<id>>)
  <2>0. SortedVector(consumed, Supply, K, Itself)
    BY <1>1
  <2>1. w = Inserted(consumed, PlaceOf(KeysOf(consumed, Itself), Itself[id]), id)
    BY <1>3, <1>4, <1>8
  <2>2. \A k \in DOMAIN consumed : Itself[consumed[k]] # Itself[id]
    BY <1>3, <1>6, <1>8
  <2>3. id \in Supply
    OBVIOUS
  <2>4. SortedVector(w, Supply, K, Itself) /\ Range(w) = Range(consumed) \cup {id}
    BY ONLY <2>0, <2>1, <2>2, <2>3, InsertionSorts, SMTT(60)
  <2> QED BY <2>4 DEF K, SortedSupplies
<1> QED BY <1>7, <1>8

(* The same after a step.                                                  *)
LEMMA MapsOfMembersNext ==
  /\ Encounters' = EncountersOf(Range(stamps'))
  /\ DriftEpoch' = [c \in Cell |-> EpochOf(Range(drifts'), c)]
BY DEF Encounters, EncountersOf, Meaning, DriftEpoch, EpochOf

-----------------------------------------------------------------------------
(* The operations on the snapshot.                                         *)

(* The empty vectors are canonical and stand for the empty maps.           *)
LEMMA CanonicalInit ==
  ASSUME Init
  PROVE  Canonical /\ R!Init
<1>1. stamps = <<>> /\ drifts = <<>> /\ consumed = <<>> /\ delirium = 0
  BY DEF Init
<1>2. Range(<<>>) = {}
  BY DEF Range
<1>3. \A S, K, key : Linear(K) /\ key \in [S -> K] => SortedVector(<<>>, S, K, key)
  BY DEF SortedVector, Ascending
<1>4. Canonical
  <2>1. SortedStamps(stamps)
    BY <1>1, <1>3, KeysAreNumbers, NumbersAreLinear DEF SortedStamps
  <2>2. SortedDrifts(drifts)
    <3> DEFINE K == Int \X Int
    <3>1. Linear(K) /\ CellOf \in [DriftRecord -> K]
      BY KeysAreNumbers, PairsAreLinear
    <3> HIDE DEF K
    <3>2. SortedVector(drifts, DriftRecord, K, CellOf)
      BY <1>1, <1>3, <3>1
    <3> QED BY <3>2 DEF K, SortedDrifts
  <2>3. SortedSupplies(consumed)
    BY <1>1, <1>3, KeysAreNumbers, NumbersAreLinear DEF SortedSupplies
  <2>4. delirium \in 0..MaxDelirium
    BY <1>1, SnapshotAssumption
  <2> QED BY <2>1, <2>2, <2>3, <2>4 DEF Canonical
<1>5. Encounters = [i \in {} |-> 0]
  <2>1. {s.id : s \in Range(stamps)} = {}
    BY <1>1, <1>2
  <2> QED BY <2>1 DEF Encounters
<1>6. DriftEpoch = [c \in Cell |-> 0]
  BY <1>1, <1>2 DEF DriftEpoch
<1>7. Range(consumed) = {} /\ delirium = 0 /\ crossings = 0
      /\ walked = [i \in Instance |-> 0]
  BY <1>1, <1>2 DEF Init
<1>8. latest \in Instance
  <2>1. latest = CHOOSE i \in Instance : TRUE
    BY DEF Init
  <2>2. \E i \in Instance : TRUE
    BY SnapshotAssumption
  <2> QED BY <2>1, <2>2
<1> QED BY <1>4, <1>5, <1>6, <1>7, <1>8 DEF R!Init

(* with_advanced_gate() is the crossing of Reality.                        *)
LEMMA GateImplements ==
  ASSUME Canonical, NEW g \in Gate, NEW d \in Range(Directions), WithAdvancedGate(g, d)
  PROVE  Canonical' /\ R!CrossGate(g, d)
<1> DEFINE B == Retained(Of[g]) \cup {StampFor(g, d)}
<1>1. /\ ~R!Repeated(g, d)
      /\ crossings < MaxCrossings /\ crossings' = crossings + 1
      /\ stamps' = CanonicalStamps(B)
      /\ drifts' = CanonicalDrifts(Range(drifts))
      /\ consumed' = CanonicalSupplies(Range(consumed))
      /\ latest' = IF R!Moves(g, d) THEN Of[g] ELSE latest
      /\ walked' = [walked EXCEPT ![Of[g]] = R!LoopsWalked(g)]
      /\ delirium' = delirium
  BY DEF WithAdvancedGate
<1>2. B = Retained(Of[g]) \cup {StampFor(g, d)}
  OBVIOUS
<1> HIDE DEF B
<1>3. /\ SortedStamps(CanonicalStamps(B)) /\ Range(CanonicalStamps(B)) = B
      /\ EncountersOf(B) = R!WithStamp(Of[g], R!NewStamp(g, d))
  BY <1>2, GateInTheVector
<1>4. drifts' = drifts /\ consumed' = consumed
  BY <1>1, MembersAgain
<1>5. Canonical'
  BY <1>1, <1>3, <1>4 DEF Canonical
<1>6. Encounters' = R!WithStamp(Of[g], R!NewStamp(g, d))
  BY <1>1, <1>3, MapsOfMembersNext
<1>7. DriftEpoch' = DriftEpoch
  BY <1>4, MapsOfMembers, MapsOfMembersNext
<1>8. Range(consumed)' = Range(consumed)
  BY <1>4
<1> QED BY <1>1, <1>5, <1>6, <1>7, <1>8 DEF R!CrossGate

(* with_fabric_drift_advanced() advances one cell.                         *)
LEMMA DriftImplements ==
  ASSUME Canonical, NEW c \in Cell, WithFabricDriftAdvanced(c)
  PROVE  Canonical' /\ R!AdvanceDrift({c})
<1> DEFINE cells == [k \in DOMAIN drifts |-> drifts[k].cell]
           p == PlaceOf(cells, c)
<1>1. /\ DriftEpoch[c] < MaxDrifts
      /\ drifts' = IF FoundAt(cells, c) THEN [drifts EXCEPT ![p].epoch = @ + 1]
                   ELSE Inserted(drifts, p, [cell |-> c, epoch |-> 1])
      /\ stamps' = stamps /\ consumed' = consumed /\ delirium' = delirium
      /\ latest' = latest /\ walked' = walked /\ crossings' = crossings
  BY DEF WithFabricDriftAdvanced
<1>2. cells = [k \in DOMAIN drifts |-> drifts[k].cell] /\ p = PlaceOf(cells, c)
  OBVIOUS
<1> HIDE DEF cells, p
<1>3. /\ SortedDrifts(drifts')
      /\ \A e \in Cell : EpochOf(Range(drifts'), e)
           = IF e = c THEN EpochOf(Range(drifts), e) + 1 ELSE EpochOf(Range(drifts), e)
  BY <1>1, <1>2, DriftInTheVector, SMTT(60)
<1>4. Canonical'
  BY <1>1, <1>3 DEF Canonical
<1>5. Encounters' = Encounters /\ Range(consumed)' = Range(consumed)
  BY <1>1, MapsOfMembers, MapsOfMembersNext
<1>6. DriftEpoch' = [e \in Cell |-> IF e \in {c} THEN DriftEpoch[e] + 1 ELSE DriftEpoch[e]]
  <2>1. \A e \in Cell : DriftEpoch[e] = EpochOf(Range(drifts), e)
    BY MapsOfMembers
  <2>2. DriftEpoch' = [e \in Cell |-> EpochOf(Range(drifts'), e)]
    BY MapsOfMembersNext
  <2> QED BY <1>3, <2>1, <2>2
<1> QED BY <1>1, <1>4, <1>5, <1>6 DEF R!AdvanceDrift, R!encounterVars

(* with_supply_consumed() adds one supply.                                 *)
LEMMA SupplyImplements ==
  ASSUME Canonical, NEW id \in Supply, WithSupplyConsumed(id)
  PROVE  Canonical' /\ R!Consume(id)
<1> DEFINE keys == [k \in DOMAIN consumed |-> <<consumed[k]>>]
<1>1. /\ consumed' = IF FoundAt(keys, <<id>>) THEN consumed
                     ELSE Inserted(consumed, PlaceOf(keys, <<id>>), id)
      /\ stamps' = stamps /\ drifts' = drifts /\ delirium' = delirium
      /\ latest' = latest /\ walked' = walked /\ crossings' = crossings
  BY DEF WithSupplyConsumed
<1>2. keys = [k \in DOMAIN consumed |-> <<consumed[k]>>]
  OBVIOUS
<1> HIDE DEF keys
<1>3. SortedSupplies(consumed') /\ Range(consumed') = Range(consumed) \cup {id}
  BY <1>1, <1>2, SupplyInTheVector
<1>4. Canonical'
  BY <1>1, <1>3 DEF Canonical
<1>5. Encounters' = Encounters /\ DriftEpoch' = DriftEpoch
  BY <1>1, MapsOfMembers, MapsOfMembersNext
<1>6. Range(consumed)' = Range(consumed) \cup {id}
  BY <1>3
<1> QED BY <1>1, <1>4, <1>5, <1>6 DEF R!Consume, R!encounterVars

(* with_delirium() stores a tier that is clamped.                          *)
LEMMA DeliriumImplements ==
  ASSUME Canonical, NEW tier \in 0..(MaxDelirium + 1), WithDelirium(tier)
  PROVE  Canonical' /\ \E t \in 0..MaxDelirium : R!ChangeDelirium(t)
<1>1. /\ delirium' = IF tier < MaxDelirium THEN tier ELSE MaxDelirium
      /\ stamps' = stamps /\ drifts' = drifts /\ consumed' = consumed
      /\ latest' = latest /\ walked' = walked /\ crossings' = crossings
  BY DEF WithDelirium
<1>2. delirium' \in 0..MaxDelirium
  BY <1>1, SnapshotAssumption
<1>3. Canonical'
  BY <1>1, <1>2 DEF Canonical
<1>4. Encounters' = Encounters /\ DriftEpoch' = DriftEpoch /\ Range(consumed)' = Range(consumed)
  BY <1>1, MapsOfMembers, MapsOfMembersNext
<1>5. R!ChangeDelirium(delirium')
  BY <1>1, <1>4 DEF R!ChangeDelirium, R!encounterVars
<1> QED BY <1>2, <1>3, <1>5

(* Every step of the vectors is one of the maps they stand for.            *)
LEMMA StepImplements ==
  ASSUME Canonical, [Next]_vars
  PROVE  Canonical' /\ [R!Next]_(R!vars)
<1>1. ASSUME NEW g \in Gate, NEW d \in Range(Directions), WithAdvancedGate(g, d)
      PROVE  Canonical' /\ R!Next
  <2>1. d \in R!Direction
    BY NamesAndNumbers DEF R!Direction
  <2> QED BY <1>1, <2>1, GateImplements DEF R!Next
<1>2. ASSUME NEW c \in Cell, WithFabricDriftAdvanced(c)
      PROVE  Canonical' /\ R!Next
  <2>1. {c} \in SUBSET Cell
    OBVIOUS
  <2> QED BY <1>2, <2>1, DriftImplements DEF R!Next
<1>3. ASSUME NEW id \in Supply, WithSupplyConsumed(id)
      PROVE  Canonical' /\ R!Next
  BY <1>3, SupplyImplements DEF R!Next
<1>4. ASSUME NEW tier \in 0..(MaxDelirium + 1), WithDelirium(tier)
      PROVE  Canonical' /\ R!Next
  BY <1>4, DeliriumImplements DEF R!Next
<1>5. ASSUME vars' = vars
      PROVE  Canonical' /\ R!vars' = R!vars
  <2>1. /\ stamps' = stamps /\ drifts' = drifts /\ consumed' = consumed
        /\ delirium' = delirium
        /\ latest' = latest /\ walked' = walked /\ crossings' = crossings
    BY <1>5 DEF vars, vectors
  <2>2. Encounters' = Encounters /\ DriftEpoch' = DriftEpoch /\ Range(consumed)' = Range(consumed)
    BY <2>1, MapsOfMembers, MapsOfMembersNext
  <2> QED BY <2>1, <2>2 DEF Canonical, R!vars, R!encounterVars
<1> QED BY <1>1, <1>2, <1>3, <1>4, <1>5 DEF Next

(* The vectors of a snapshot, kept canonical by every operation,           *)
(* implement the encounter, drift and supply maps of Reality: no           *)
(* insertion, sort or removal of duplicates changes what they mean.        *)
THEOREM SnapshotImplementsReality == Spec => ImplementsReality
<1>1. Init => Canonical /\ R!Init
  BY CanonicalInit
<1>2. Canonical /\ [Next]_vars => Canonical' /\ [R!Next]_(R!vars)
  BY StepImplements
<1> QED BY <1>1, <1>2, PTL DEF Spec, ImplementsReality, R!Spec

-----------------------------------------------------------------------------
(* The numbers of the word transport.                                      *)

(* Quotient and remainder of a number.                                     *)
LEMMA QuotientRemainder ==
  ASSUME NEW H \in Nat, H > 0, NEW n \in Int
  PROVE  /\ n \div H \in Int /\ n % H \in 0..(H - 1)
         /\ n = H * (n \div H) + (n % H)
OBVIOUS

(* ... and these are the only ones.                                        *)
LEMMA QuotientIsUnique ==
  ASSUME NEW H \in Nat, H > 0, NEW n \in Int, NEW q \in Int, NEW r \in 0..(H - 1),
         n = H * q + r
  PROVE  n \div H = q /\ n % H = r
<1> DEFINE p == n \div H
           s == n % H
<1>1. p \in Int /\ s \in 0..(H - 1) /\ n = H * p + s
  BY QuotientRemainder
<1> HIDE DEF p, s
<1>2. H * (p - q) = r - s
  <2>1. H * (p - q) = H * p - H * q
    BY <1>1
  <2>2. H * p \in Int /\ H * q \in Int
    BY <1>1
  <2> QED BY <1>1, <2>1, <2>2
<1>3. -H < r - s /\ r - s < H
  BY <1>1
<1>4. ~(p - q >= 1)
  <2> SUFFICES ASSUME p - q >= 1 PROVE FALSE
    OBVIOUS
  <2> DEFINE z == H * (p - q)
  <2>1. z \in Int /\ z >= H /\ z = r - s
    BY <1>1, <1>2
  <2> HIDE DEF z
  <2> QED BY <1>1, <1>3, <2>1
<1>5. ~(p - q <= -1)
  <2> SUFFICES ASSUME p - q <= -1 PROVE FALSE
    OBVIOUS
  <2>1. H * (q - p) >= H
    BY <1>1
  <2>2. H * (p - q) = -(H * (q - p))
    BY <1>1
  <2> DEFINE y == H * (q - p)
             z == H * (p - q)
  <2>3. y \in Int /\ y >= H /\ z = -y /\ z = r - s
    BY <1>1, <1>2, <2>1, <2>2
  <2> HIDE DEF y, z
  <2> QED BY <1>1, <1>3, <2>3
<1>6. p = q
  BY <1>1, <1>4, <1>5
<1>7. s = r
  BY <1>1, <1>6
<1> QED BY <1>6, <1>7 DEF p, s

(* Low and high half of a number of two words.                             *)
LEMMA Halves ==
  ASSUME NEW n \in 0..(HalfWidth * HalfWidth - 1)
  PROVE  /\ Unsigned(Low(n), High(n)) = n
         /\ Low(n) \in 0..(HalfWidth - 1) /\ High(n) \in 0..(HalfWidth - 1)
<1> DEFINE H == HalfWidth
           q == n \div H
           r == n % H
<1>1. H \in Nat /\ H > 0 /\ H * H \in Nat
  BY SnapshotAssumption
<1>2. n \in Int /\ 0 <= n /\ n < H * H
  BY <1>1
<1> HIDE DEF H
<1>3. q \in Int /\ r \in 0..(H - 1) /\ n = H * q + r
  BY <1>1, <1>2, QuotientRemainder
<1> HIDE DEF q, r
<1>4. ~(q >= H)
  <2> SUFFICES ASSUME q >= H PROVE FALSE
    OBVIOUS
  <2>1. H * q >= H * H
    BY <1>1, <1>3
  <2>2. H * q \in Int
    BY <1>1, <1>3
  <2> QED BY <1>1, <1>2, <1>3, <2>1, <2>2
<1>5. ~(q <= -1)
  <2> SUFFICES ASSUME q <= -1 PROVE FALSE
    OBVIOUS
  <2>1. H * (-q) >= H /\ H * q = -(H * (-q)) /\ H * (-q) \in Int
    BY <1>1, <1>3
  <2> QED BY <1>1, <1>2, <1>3, <2>1
<1>6. q \in 0..(H - 1)
  BY <1>1, <1>3, <1>4, <1>5
<1>7. q % H = q
  <2>1. q \in Int /\ 0 \in Int /\ q = H * 0 + q
    BY <1>1, <1>6
  <2> QED BY <1>1, <1>6, <2>1, QuotientIsUnique
<1>8. Low(n) = r /\ High(n) = q
  BY <1>7 DEF Low, High, H, q, r
<1>9. Unsigned(r, q) = n
  BY <1>1, <1>3 DEF Unsigned, H
<1> QED BY <1>3, <1>6, <1>8, <1>9 DEF H

(* A number has the halves of its two's complement.                        *)
LEMMA HalvesOfComplement ==
  ASSUME NEW n \in Int
  PROVE  /\ Low(n + HalfWidth * HalfWidth) = Low(n)
         /\ High(n + HalfWidth * HalfWidth) = High(n)
<1> DEFINE H == HalfWidth
           q == n \div H
           r == n % H
           m == n + H * H
<1>1. H \in Nat /\ H > 0 /\ H * H \in Nat
  BY SnapshotAssumption
<1> HIDE DEF H
<1>2. q \in Int /\ r \in 0..(H - 1) /\ n = H * q + r
  BY <1>1, QuotientRemainder
<1> HIDE DEF q, r
<1>3. m \div H = q + H /\ m % H = r
  <2>1. q + H \in Int /\ m \in Int
    BY <1>1, <1>2
  <2>2. m = H * (q + H) + r
    <3>1. H * (q + H) = H * q + H * H
      BY <1>1, <1>2
    <3>2. H * q \in Int
      BY <1>1, <1>2
    <3> QED BY <1>1, <1>2, <3>1, <3>2
  <2> HIDE DEF m
  <2> QED BY <1>1, <1>2, <2>1, <2>2, QuotientIsUnique
<1>4. (q + H) % H = q % H
  <2> DEFINE d == q \div H
             s == q % H
  <2>1. d \in Int /\ s \in 0..(H - 1) /\ q = H * d + s
    BY <1>1, <1>2, QuotientRemainder
  <2> HIDE DEF d, s
  <2>2. d + 1 \in Int /\ q + H \in Int /\ q + H = H * (d + 1) + s
    <3>1. H * (d + 1) = H * d + H /\ H * d \in Int
      BY <1>1, <2>1
    <3> QED BY <1>1, <1>2, <2>1, <3>1
  <2>3. (q + H) % H = s
    BY <1>1, <2>1, <2>2, QuotientIsUnique
  <2> QED BY <2>3 DEF s
<1>5. Low(m) = r /\ High(m) = (q + H) % H
  BY <1>3 DEF Low, High, H
<1>6. Low(n) = r /\ High(n) = q % H
  BY DEF Low, High, H, q, r
<1> QED BY <1>4, <1>5, <1>6 DEF m, H

(* A signed number comes back signed.                                      *)
LEMMA ComplementBack ==
  ASSUME NEW W \in Nat, W > 0, NEW n \in SignedRange(W),
         NEW u, u = IF n < 0 THEN n + W ELSE n
  PROVE  u \in 0..(W - 1) /\ AsSigned(u, W) = n
<1>1. /\ W \div 2 \in Nat /\ 2 * (W \div 2) <= W /\ W <= 2 * (W \div 2) + 1
  OBVIOUS
<1>2. n \in Int /\ -(W \div 2) <= n /\ n < W \div 2
  BY <1>1 DEF SignedRange
<1> DEFINE h == W \div 2
<1>3. h \in Nat /\ 2 * h <= W /\ W <= 2 * h + 1 /\ -h <= n /\ n < h
  BY <1>1, <1>2
<1>4. AsSigned(u, W) = IF u < h THEN u ELSE u - W
  BY DEF AsSigned
<1> HIDE DEF h
<1> QED BY <1>2, <1>3, <1>4

(* Both halves of a coordinate give it back, whatever its sign.            *)
LEMMA SignedHalves ==
  ASSUME NEW n \in SignedRange(HalfWidth * HalfWidth)
  PROVE  Signed(Low(n), High(n)) = n /\ Low(n) \in Int /\ High(n) \in Int
<1> DEFINE W == HalfWidth * HalfWidth
           u == IF n < 0 THEN n + W ELSE n
<1>1. W \in Nat /\ W > 0
  BY SnapshotAssumption
<1>2. n \in Int
  BY DEF SignedRange
<1>3. u \in 0..(W - 1) /\ AsSigned(u, W) = n
  <2>1. n \in SignedRange(W)
    OBVIOUS
  <2>2. u = IF n < 0 THEN n + W ELSE n
    OBVIOUS
  <2> HIDE DEF W, u
  <2> QED BY <1>1, <2>1, <2>2, ComplementBack
<1>4. Low(u) = Low(n) /\ High(u) = High(n)
  BY <1>2, HalvesOfComplement
<1>5. Unsigned(Low(u), High(u)) = u /\ Low(u) \in Int /\ High(u) \in Int
  <2> HIDE DEF u
  <2> QED BY <1>3, Halves
<1> HIDE DEF u
<1> QED BY <1>3, <1>4, <1>5 DEF Signed

(* A signed word comes back signed.                                        *)
LEMMA SignedWord ==
  ASSUME NEW n \in SignedRange(HalfWidth)
  PROVE  AsSigned(Low(n), HalfWidth) = n /\ Low(n) \in Int
<1> DEFINE H == HalfWidth
           u == IF n < 0 THEN n + H ELSE n
<1>1. H \in Nat /\ H > 0
  BY SnapshotAssumption
<1>2. n \in SignedRange(H) /\ n \in Int
  BY DEF SignedRange
<1> HIDE DEF H
<1>3. u \in 0..(H - 1) /\ AsSigned(u, H) = n
  <2>1. u = IF n < 0 THEN n + H ELSE n
    OBVIOUS
  <2> HIDE DEF u
  <2> QED BY <1>1, <1>2, <2>1, ComplementBack
<1>4. n % H = u
  <2>1. CASE n < 0
    <3>1. u \in 0..(H - 1) /\ -1 \in Int /\ n = H * (-1) + u
      BY <1>1, <1>2, <1>3, <2>1
    <3> HIDE DEF u
    <3> QED BY <1>1, <1>2, <3>1, QuotientIsUnique
  <2>2. CASE ~(n < 0)
    <3>1. u \in 0..(H - 1) /\ 0 \in Int /\ n = H * 0 + u
      BY <1>1, <1>2, <1>3, <2>2
    <3> HIDE DEF u
    <3> QED BY <1>1, <1>2, <3>1, QuotientIsUnique
  <2> QED BY <2>1, <2>2
<1> HIDE DEF u
<1> QED BY <1>3, <1>4 DEF Low, H

(* The four fields of a packed word.                                       *)
LEMMA Unpacked ==
  ASSUME NEW a \in 0..1, NEW d \in 0..1, NEW p \in 0..2, NEW n \in Nat,
         NEW w, w = a + 2 * d + 4 * p + 16 * n
  PROVE  /\ w \in Nat /\ w % 2 = a /\ (w \div 2) % 2 = d
         /\ (w \div 4) % 4 = p /\ w \div 16 = n
<1>1. w \in Nat
  OBVIOUS
<1>2. w % 2 = a /\ w \div 2 = d + 2 * p + 8 * n
  OBVIOUS
<1>3. w \div 4 = p + 4 * n
  OBVIOUS
<1>4. w \div 16 = n
  OBVIOUS
<1>5. (d + 2 * p + 8 * n) % 2 = d
  OBVIOUS
<1>6. (p + 4 * n) % 4 = p
  OBVIOUS
<1> QED BY <1>1, <1>2, <1>3, <1>4, <1>5, <1>6

(* Both halves of an id give it back.                                      *)
LEMMA IdHalves ==
  ASSUME NEW id \in Instance \cup Gate \cup Supply
  PROVE  /\ Unsigned(Low(id), High(id)) = id
         /\ Low(id) \in Int /\ High(id) \in Int
<1>1. id \in 0..(HalfWidth * HalfWidth - 1)
  BY SnapshotAssumption
<1> QED BY <1>1, Halves

(* What is sent of a stamp comes back.                                     *)
LEMMA StampBack ==
  ASSUME NEW t \in StampRecord
  PROVE  /\ StampToWords(t) \in [1..StampWords -> Int]
         /\ StampFromWords(StampToWords(t)) = t
<1>1. /\ t.id \in Instance /\ t.gate \in Gate /\ t.plane \in SignedRange(HalfWidth)
      /\ t.axis \in 0..1 /\ t.direction \in 0..1 /\ t.phase \in 0..2
      /\ t.epoch \in Nat /\ t.loops \in Nat
      /\ t = [id |-> t.id, epoch |-> t.epoch, plane |-> t.plane, axis |-> t.axis,
              direction |-> t.direction, phase |-> t.phase, loops |-> t.loops,
              gate |-> t.gate]
  BY DEF StampRecord
<1> DEFINE p == t.axis + 2 * t.direction + 4 * t.phase + 16 * t.loops
           w == <<Low(t.id), High(t.id), t.epoch, Low(t.plane), p, Low(t.gate), High(t.gate)>>
<1>2. StampToWords(t) = w
  BY DEF StampToWords, Packed
<1>3. /\ p \in Int /\ p % 2 = t.axis /\ (p \div 2) % 2 = t.direction
      /\ (p \div 4) % 4 = t.phase /\ p \div 16 = t.loops
  <2> DEFINE a == t.axis
             d == t.direction
             f == t.phase
             n == t.loops
  <2>1. /\ p = a + 2 * d + 4 * f + 16 * n
        /\ a \in 0..1 /\ d \in 0..1 /\ f \in 0..2 /\ n \in Nat
    BY <1>1
  <2> HIDE DEF p, a, d, f, n
  <2>2. /\ p \in Nat /\ p % 2 = a /\ (p \div 2) % 2 = d
        /\ (p \div 4) % 4 = f /\ p \div 16 = n
    BY ONLY <2>1, Unpacked
  <2> QED BY <2>2 DEF a, d, f, n
<1> HIDE DEF p
<1>4. /\ Unsigned(Low(t.id), High(t.id)) = t.id /\ Low(t.id) \in Int /\ High(t.id) \in Int
      /\ Unsigned(Low(t.gate), High(t.gate)) = t.gate /\ Low(t.gate) \in Int /\ High(t.gate) \in Int
  BY <1>1, IdHalves
<1>5. AsSigned(Low(t.plane), HalfWidth) = t.plane /\ Low(t.plane) \in Int
  BY <1>1, SignedWord
<1>6. /\ w[1] = Low(t.id) /\ w[2] = High(t.id) /\ w[3] = t.epoch /\ w[4] = Low(t.plane)
      /\ w[5] = p /\ w[6] = Low(t.gate) /\ w[7] = High(t.gate)
  OBVIOUS
<1>7. w \in [1..7 -> Int]
  <2>1. w \in Seq(Int) /\ Len(w) = 7
    BY <1>1, <1>3, <1>4, <1>5
  <2> HIDE DEF w
  <2> QED BY <2>1, LenProperties
<1> HIDE DEF w
<1>8. StampFromWords(w)
        = [id |-> t.id, epoch |-> t.epoch, plane |-> t.plane, axis |-> t.axis,
           direction |-> t.direction, phase |-> t.phase, loops |-> t.loops, gate |-> t.gate]
  BY <1>3, <1>4, <1>5, <1>6 DEF StampFromWords
<1> QED BY <1>1, <1>2, <1>7, <1>8 DEF StampWords

(* What is sent of a drift comes back.                                     *)
LEMMA DriftBack ==
  ASSUME NEW t \in DriftRecord
  PROVE  /\ DriftToWords(t) \in [1..DriftWords -> Int]
         /\ DriftFromWords(DriftToWords(t)) = t
<1> DEFINE X == SignedRange(HalfWidth * HalfWidth)
<1>1. t.cell \in X \X X /\ t.epoch \in Nat
  BY SnapshotAssumption DEF DriftRecord
<1>2. t = [cell |-> t.cell, epoch |-> t.epoch]
  BY DEF DriftRecord
<1> DEFINE x == t.cell[1]
           z == t.cell[2]
           w == <<Low(x), High(x), Low(z), High(z), t.epoch>>
<1>3. x \in X /\ z \in X /\ t.cell = <<x, z>>
  <2> HIDE DEF X
  <2> QED BY <1>1
<1>4. DriftToWords(t) = w
  BY DEF DriftToWords
<1> HIDE DEF x, z
<1>5. /\ Signed(Low(x), High(x)) = x /\ Low(x) \in Int /\ High(x) \in Int
      /\ Signed(Low(z), High(z)) = z /\ Low(z) \in Int /\ High(z) \in Int
  BY <1>3, SignedHalves
<1>6. /\ w[1] = Low(x) /\ w[2] = High(x) /\ w[3] = Low(z) /\ w[4] = High(z)
      /\ w[5] = t.epoch
  OBVIOUS
<1>7. w \in [1..5 -> Int]
  <2>1. w \in Seq(Int) /\ Len(w) = 5
    BY <1>1, <1>5
  <2> HIDE DEF w
  <2> QED BY <2>1, LenProperties
<1> HIDE DEF w
<1>8. DriftFromWords(w) = [cell |-> <<x, z>>, epoch |-> t.epoch]
  BY <1>5, <1>6 DEF DriftFromWords
<1> QED BY <1>2, <1>3, <1>4, <1>7, <1>8 DEF DriftWords

(* What is sent of a supply comes back.                                    *)
LEMMA SupplyBack ==
  ASSUME NEW id \in Supply
  PROVE  /\ SupplyToWords(id) \in [1..SupplyWords -> Int]
         /\ SupplyFromWords(SupplyToWords(id)) = id
<1> DEFINE w == <<Low(id), High(id)>>
<1>1. SupplyToWords(id) = w
  BY DEF SupplyToWords
<1>2. Unsigned(Low(id), High(id)) = id /\ Low(id) \in Int /\ High(id) \in Int
  BY IdHalves
<1>3. w[1] = Low(id) /\ w[2] = High(id)
  OBVIOUS
<1>4. w \in [1..2 -> Int]
  <2>1. w \in Seq(Int) /\ Len(w) = 2
    BY <1>2
  <2> HIDE DEF w
  <2> QED BY <2>1, LenProperties
<1> HIDE DEF w
<1> QED BY <1>1, <1>2, <1>3, <1>4 DEF SupplyFromWords, SupplyWords

-----------------------------------------------------------------------------
(* Words put together and taken apart.                                     *)

(* Where a word of a part is among the words of all parts.                 *)
LEMMA PlaceInParts ==
  ASSUME NEW size \in Nat, size > 0, NEW n \in Nat, NEW k \in 1..n, NEW j \in 1..size,
         NEW i, i = (k - 1) * size + j
  PROVE  /\ i \in 1..(n * size)
         /\ (i - 1) \div size = k - 1 /\ (i - 1) % size = j - 1
<1> DEFINE y == (k - 1) * size
           z == n * size
<1>1. y \in Nat /\ z \in Nat /\ i = y + j /\ y = size * (k - 1)
  OBVIOUS
<1>2. y + size <= z
  <2>1. k * size <= n * size
    OBVIOUS
  <2>2. k * size = y + size
    OBVIOUS
  <2> QED BY <2>1, <2>2
<1>3. i - 1 \in Int /\ k - 1 \in Int /\ j - 1 \in 0..(size - 1) /\ i - 1 = size * (k - 1) + (j - 1)
  BY <1>1
<1>4. (i - 1) \div size = k - 1 /\ (i - 1) % size = j - 1
  BY ONLY <1>3, size \in Nat, size > 0, QuotientIsUnique
<1> HIDE DEF y, z
<1>5. i \in 1..z
  BY <1>1, <1>2
<1> QED BY <1>4, <1>5 DEF z

\* As many parts, of one size.
Parts(parts, n, size) ==
  n \in Nat /\ Len(parts) = n /\ DOMAIN parts = 1..n
  /\ \A k \in 1..n : parts[k] \in [1..size -> Int]

(* The words of parts put together are the words of each.                  *)
LEMMA JoinedParts ==
  ASSUME NEW size \in Nat, size > 0, NEW n, NEW parts, Parts(parts, n, size)
  PROVE  /\ Joined(parts, size) \in Seq(Int) /\ Len(Joined(parts, size)) = n * size
         /\ \A k \in 1..n, j \in 1..size :
              Joined(parts, size)[(k - 1) * size + j] = parts[k][j]
<1> USE DEF Parts
<1> DEFINE w == Joined(parts, size)
           z == n * size
<1>1. z \in Nat
  OBVIOUS
<1>2. w = [i \in 1..z |-> parts[(i - 1) \div size + 1][((i - 1) % size) + 1]]
  BY DEF Joined
<1>3. ASSUME NEW i \in 1..z PROVE w[i] \in Int
  <2> DEFINE q == (i - 1) \div size
             r == (i - 1) % size
  <2>1. q \in Int /\ r \in 0..(size - 1) /\ i - 1 = size * q + r
    BY QuotientRemainder
  <2>2. w[i] = parts[q + 1][r + 1]
    BY <1>2
  <2> HIDE DEF q, r
  <2>3. ~(q >= n)
    <3> SUFFICES ASSUME q >= n PROVE FALSE
      OBVIOUS
    <3>1. size * q >= n * size
      BY <2>1
    <3> DEFINE y == size * q
    <3>2. y \in Int /\ y >= z
      BY <2>1, <3>1
    <3> HIDE DEF y, z
    <3> QED BY <1>1, <2>1, <3>2 DEF y
  <2>4. ~(q <= -1)
    <3> SUFFICES ASSUME q <= -1 PROVE FALSE
      OBVIOUS
    <3> DEFINE y == size * q
    <3>1. y \in Int /\ y <= -size
      <4>1. size * (-q) >= size /\ y = -(size * (-q)) /\ size * (-q) \in Int
        BY <2>1
      <4> HIDE DEF y
      <4> QED BY <4>1
    <3>2. i - 1 = y + r
      BY <2>1
    <3> HIDE DEF y, z
    <3> QED BY <1>1, <2>1, <3>1, <3>2
  <2>5. q + 1 \in 1..n /\ r + 1 \in 1..size
    BY <2>1, <2>3, <2>4
  <2> QED BY <2>2, <2>5
<1>4. \A k \in 1..n, j \in 1..size : w[(k - 1) * size + j] = parts[k][j]
  <2> TAKE k \in 1..n, j \in 1..size
  <2> DEFINE i == (k - 1) * size + j
  <2>1. i = (k - 1) * size + j
    OBVIOUS
  <2> HIDE DEF i
  <2> HIDE DEF w
  <2>2. i \in 1..z /\ (i - 1) \div size = k - 1 /\ (i - 1) % size = j - 1
    <3>1. size \in Nat /\ size > 0 /\ n \in Nat /\ k \in 1..n /\ j \in 1..size
      OBVIOUS
    <3>2. /\ i \in 1..(n * size)
          /\ (i - 1) \div size = k - 1 /\ (i - 1) % size = j - 1
      BY ONLY <2>1, <3>1, PlaceInParts
    <3> QED BY <3>2
  <2> HIDE DEF z
  <2>3. w[i] = parts[(k - 1) + 1][(j - 1) + 1]
    BY <1>2, <2>2
  <2>4. (k - 1) + 1 = k /\ (j - 1) + 1 = j
    OBVIOUS
  <2> QED BY <2>1, <2>3, <2>4
<1> HIDE DEF z
<1>5. w \in [1..z -> Int]
  BY <1>2, <1>3
<1>6. w \in Seq(Int) /\ Len(w) = z
  BY <1>1, <1>5
<1> QED BY <1>4, <1>6 DEF z

(* Taking them apart gives the parts again, wherever they are.             *)
LEMMA ChunksOfJoined ==
  ASSUME NEW size \in Nat, size > 0, NEW n, NEW parts, Parts(parts, n, size),
         NEW w \in Seq(Int), NEW from \in Nat, NEW to, to = from + n * size, to <= Len(w),
         NEW joined, joined = Joined(parts, size),
         \A i \in 1..Len(joined) : w[from + i] = joined[i]
  PROVE  Range(Chunks(w, from, to, size)) = Range(parts)
<1> DEFINE z == n * size
           chunks == Chunks(w, from, to, size)
<1>1. n \in Nat /\ z \in Nat /\ Len(w) \in Nat
  BY LenProperties DEF Parts
<1>2. /\ Len(joined) = z
      /\ \A k \in 1..n, j \in 1..size : joined[(k - 1) * size + j] = parts[k][j]
  BY JoinedParts
<1>3. (to - from) \div size = n
  <2>1. to - from = size * n + 0
    BY <1>1
  <2>2. to - from \in Int /\ 0 \in 0..(size - 1) /\ n \in Int
    BY <1>1
  <2> DEFINE diff == to - from
  <2> HIDE DEF diff
  <2>3. diff \div size = n
    BY <2>1, <2>2, QuotientIsUnique DEF diff
  <2> QED BY <2>3 DEF diff
<1>4. chunks = [k \in 1..n |-> SubSeq(w, from + (k - 1) * size + 1, from + k * size)]
  BY <1>3 DEF Chunks
<1> HIDE DEF chunks
<1>5. ASSUME NEW k \in 1..n PROVE chunks[k] = parts[k]
  <2> DEFINE y == (k - 1) * size
  <2>1. y \in Nat /\ k * size = y + size /\ y + size <= z
    <3>1. k * size <= n * size
      BY <1>1
    <3> QED BY <1>1, <3>1
  <2>2. chunks[k] = SubSeq(w, from + y + 1, from + y + size)
    <3>1. chunks[k] = SubSeq(w, from + y + 1, from + k * size)
      BY <1>4
    <3>2. from + k * size = from + y + size
      BY <2>1
    <3> QED BY <3>1, <3>2
  <2>3. \A j \in 1..size : joined[y + j] = parts[k][j]
    BY <1>2
  <2> HIDE DEF y, z
  <2>4. from + y + size <= Len(w)
    BY <1>1, <2>1 DEF z
  <2> DEFINE m == from + y + 1
             l == from + y + size
             c == SubSeq(w, m, l)
  <2>5. m \in Int /\ l \in Int /\ (l - m) + 1 = size /\ m <= l /\ 1 <= m
    BY <2>1
  <2>6. \A i \in m..l : w[i] \in Int
    <3> TAKE i \in m..l
    <3>1. i \in 1..Len(w)
      BY <1>1, <2>4, <2>5
    <3> QED BY <3>1, ElementOfSeq
  <2>7. \A j \in 1..size : w[(m + j) - 1] = joined[y + j]
    <3> TAKE j \in 1..size
    <3>1. y + j \in 1..Len(joined) /\ (m + j) - 1 = from + (y + j)
      BY <1>1, <1>2, <2>1
    <3> QED BY <3>1
  <2> HIDE DEF m, l
  <2>8. /\ c \in Seq(Int) /\ Len(c) = size
        /\ \A j \in 1..size : c[j] = w[(m + j) - 1]
    BY <2>5, <2>6, SubSeqProperties
  <2>9. parts[k] \in Seq(Int) /\ Len(parts[k]) = size
    BY DEF Parts
  <2> HIDE DEF c
  <2>10. c = parts[k]
    <3>1. \A j \in 1..size : c[j] = parts[k][j]
      BY <2>3, <2>7, <2>8
    <3> DEFINE part == parts[k]
    <3>2. /\ part \in Seq(Int) /\ Len(part) = size
          /\ \A j \in 1..size : c[j] = part[j]
      BY <2>9, <3>1
    <3> HIDE DEF part
    <3>3. c = part
      BY ONLY <2>8, <3>2, SeqEqual
    <3> QED BY <3>3 DEF part
  <2> QED BY <2>2, <2>10 DEF c, m, l
<1>6. DOMAIN chunks = 1..n /\ DOMAIN parts = 1..n
  BY <1>4 DEF Parts
<1> QED BY <1>5, <1>6 DEF Range, chunks

\* One sequence after another.
Follow(s, t, w) ==
  /\ w \in Seq(Int) /\ Len(s) \in Nat /\ Len(t) \in Nat /\ Len(w) = Len(s) + Len(t)
  /\ \A i \in 1..Len(s) : w[i] = s[i]
  /\ \A i \in 1..Len(t) : w[Len(s) + i] = t[i]

(* Appending puts one after the other.                                     *)
LEMMA Appended ==
  ASSUME NEW s \in Seq(Int), NEW t \in Seq(Int)
  PROVE  Follow(s, t, s \o t)
<1> DEFINE w == s \o t
<1>1. /\ w \in Seq(Int) /\ Len(w) = Len(s) + Len(t)
      /\ \A i \in 1..(Len(s) + Len(t)) : w[i] = IF i <= Len(s) THEN s[i] ELSE t[i - Len(s)]
  BY ConcatProperties
<1> HIDE DEF w
<1>2. Len(s) \in Nat /\ Len(t) \in Nat
  BY LenProperties
<1>3. \A i \in 1..Len(s) : w[i] = s[i]
  BY <1>1, <1>2
<1>4. ASSUME NEW i \in 1..Len(t) PROVE w[Len(s) + i] = t[i]
  <2>1. /\ Len(s) + i \in 1..(Len(s) + Len(t)) /\ ~(Len(s) + i <= Len(s))
        /\ (Len(s) + i) - Len(s) = i
    BY <1>2
  <2> QED BY <1>1, <2>1
<1>5. Follow(s, t, w)
  BY <1>1, <1>2, <1>3, <1>4 DEF Follow
<1> QED BY <1>5 DEF w

\* The words of a snapshot: magic and number of stamps, stamps, number of
\* drifts, drifts, number of supplies, supplies, delirium.
Layout(a, b, c, d, e, f, g, w) ==
  /\ w \in Seq(Int) /\ Len(b) \in Nat /\ Len(d) \in Nat /\ Len(f) \in Nat
  /\ Len(w) = 5 + Len(b) + Len(d) + Len(f)
  /\ w[1] = a[1] /\ w[2] = a[2]
  /\ \A i \in 1..Len(b) : w[2 + i] = b[i]
  /\ w[3 + Len(b)] = c[1]
  /\ \A i \in 1..Len(d) : w[3 + Len(b) + i] = d[i]
  /\ w[4 + Len(b) + Len(d)] = e[1]
  /\ \A i \in 1..Len(f) : w[4 + Len(b) + Len(d) + i] = f[i]
  /\ w[5 + Len(b) + Len(d) + Len(f)] = g[1]

(* The words of a snapshot have that layout.                               *)
LEMMA SevenParts ==
  ASSUME NEW a \in Seq(Int), NEW b \in Seq(Int), NEW c \in Seq(Int), NEW d \in Seq(Int),
         NEW e \in Seq(Int), NEW f \in Seq(Int), NEW g \in Seq(Int),
         Len(a) = 2, Len(c) = 1, Len(e) = 1, Len(g) = 1
  PROVE  Layout(a, b, c, d, e, f, g, a \o b \o c \o d \o e \o f \o g)
<1> DEFINE w1 == a \o b
           w2 == w1 \o c
           w3 == w2 \o d
           w4 == w3 \o e
           w5 == w4 \o f
           lb == Len(b)
           ld == Len(d)
           lf == Len(f)
           w == w5 \o g
<1>0. w = a \o b \o c \o d \o e \o f \o g
  OBVIOUS
<1>l. lb \in Nat /\ ld \in Nat /\ lf \in Nat
  BY LenProperties
<1>1. /\ w1 \in Seq(Int) /\ Len(w1) = 2 + lb
      /\ \A i \in 1..2 : w1[i] = a[i]
      /\ \A i \in 1..lb : w1[2 + i] = b[i]
  <2>1. Follow(a, b, w1)
    BY Appended
  <2> HIDE DEF w1
  <2> QED BY <2>1 DEF Follow
<1> HIDE DEF w1
<1>2. /\ w2 \in Seq(Int) /\ Len(w2) = 3 + lb
      /\ \A i \in 1..(2 + lb) : w2[i] = w1[i]
      /\ w2[3 + lb] = c[1]
  <2> HIDE DEF lb
  <2>1. /\ w2 \in Seq(Int) /\ Len(w2) = Len(w1) + Len(c)
        /\ \A i \in 1..Len(w1) : w2[i] = w1[i]
        /\ \A i \in 1..Len(c) : w2[Len(w1) + i] = c[i]
    <3>1. Follow(w1, c, w2)
      BY <1>1, Appended
    <3> HIDE DEF w2
    <3> QED BY <3>1 DEF Follow
  <2> HIDE DEF w2
  <2>2. w2[Len(w1) + 1] = c[1]
    BY <2>1
  <2>3. Len(w1) + 1 = 3 + lb
    BY <1>l, <1>1
  <2> QED BY <1>l, <1>1, <2>1, <2>2, <2>3
<1> HIDE DEF w2
<1>3. /\ w3 \in Seq(Int) /\ Len(w3) = 3 + lb + ld
      /\ \A i \in 1..(3 + lb) : w3[i] = w2[i]
      /\ \A i \in 1..ld : w3[3 + lb + i] = d[i]
  <2>1. Follow(w2, d, w3)
    BY <1>2, Appended
  <2> HIDE DEF w3
  <2> QED BY <1>2, <2>1 DEF Follow
<1> HIDE DEF w3
<1>4. /\ w4 \in Seq(Int) /\ Len(w4) = 4 + lb + ld
      /\ \A i \in 1..(3 + lb + ld) : w4[i] = w3[i]
      /\ w4[4 + lb + ld] = e[1]
  <2> HIDE DEF lb, ld
  <2>1. /\ w4 \in Seq(Int) /\ Len(w4) = Len(w3) + Len(e)
        /\ \A i \in 1..Len(w3) : w4[i] = w3[i]
        /\ \A i \in 1..Len(e) : w4[Len(w3) + i] = e[i]
    <3>1. Follow(w3, e, w4)
      BY <1>3, Appended
    <3> HIDE DEF w4
    <3> QED BY <3>1 DEF Follow
  <2> HIDE DEF w4
  <2>2. w4[Len(w3) + 1] = e[1]
    BY <2>1
  <2>3. Len(w3) + 1 = 4 + lb + ld
    BY <1>l, <1>3
  <2> QED BY <1>l, <1>3, <2>1, <2>2, <2>3
<1> HIDE DEF w4
<1>5. /\ w5 \in Seq(Int) /\ Len(w5) = 4 + lb + ld + lf
      /\ \A i \in 1..(4 + lb + ld) : w5[i] = w4[i]
      /\ \A i \in 1..lf : w5[4 + lb + ld + i] = f[i]
  <2>1. Follow(w4, f, w5)
    BY <1>4, Appended
  <2> HIDE DEF w5
  <2> QED BY <1>4, <2>1 DEF Follow
<1> HIDE DEF w5
<1>6. /\ w \in Seq(Int) /\ Len(w) = 5 + lb + ld + lf
      /\ \A i \in 1..(4 + lb + ld + lf) : w[i] = w5[i]
      /\ w[5 + lb + ld + lf] = g[1]
  <2> HIDE DEF lb, ld, lf
  <2>1. /\ w \in Seq(Int) /\ Len(w) = Len(w5) + Len(g)
        /\ \A i \in 1..Len(w5) : w[i] = w5[i]
        /\ \A i \in 1..Len(g) : w[Len(w5) + i] = g[i]
    <3>1. Follow(w5, g, w5 \o g)
      BY <1>5, Appended
    <3> HIDE DEF w
    <3>2. Follow(w5, g, w)
      BY <3>1 DEF w
    <3> QED BY <3>2 DEF Follow
  <2>2. w[Len(w5) + 1] = g[1]
    <3>1. 1 \in 1..Len(g)
      OBVIOUS
    <3>2. \A i \in 1..Len(g) : w[Len(w5) + i] = g[i]
      BY <2>1
    <3> QED BY ONLY <3>1, <3>2
  <2>3. Len(w5) + 1 = 5 + lb + ld + lf
    BY <1>l, <1>5
  <2> QED BY <1>l, <1>5, <2>1, <2>2, <2>3
<1> HIDE DEF w, lb, ld, lf
<1>7. w[1] = a[1] /\ w[2] = a[2]
  <2>1. \A i \in 1..2 : /\ i \in 1..(2 + lb) /\ i \in 1..(3 + lb) /\ i \in 1..(3 + lb + ld)
                        /\ i \in 1..(4 + lb + ld) /\ i \in 1..(4 + lb + ld + lf)
    BY <1>l
  <2>2. ASSUME NEW i \in 1..2 PROVE w[i] = a[i]
    <3>1. w1[i] = a[i] /\ w2[i] = w1[i] /\ w3[i] = w2[i]
      BY <1>1, <1>2, <1>3, <2>1
    <3>2. w4[i] = w3[i] /\ w5[i] = w4[i] /\ w[i] = w5[i]
      BY <1>4, <1>5, <1>6, <2>1
    <3> QED BY <3>1, <3>2
  <2>3. 1 \in 1..2 /\ 2 \in 1..2
    OBVIOUS
  <2> QED BY ONLY <2>2, <2>3
<1>8. \A i \in 1..lb : w[2 + i] = b[i]
  <2> TAKE i \in 1..lb
  <2> DEFINE k == 2 + i
  <2>1. /\ k \in 1..(2 + lb) /\ k \in 1..(3 + lb) /\ k \in 1..(3 + lb + ld)
        /\ k \in 1..(4 + lb + ld) /\ k \in 1..(4 + lb + ld + lf)
    BY <1>l
  <2>2. w1[k] = b[i]
    BY <1>1
  <2> HIDE DEF k
  <2>3. w[k] = w1[k]
    BY <1>2, <1>3, <1>4, <1>5, <1>6, <2>1, SMTT(60)
  <2> QED BY <2>2, <2>3 DEF k
<1>9. w[3 + lb] = c[1]
  <2> DEFINE k == 3 + lb
  <2>1. /\ k \in 1..(3 + lb) /\ k \in 1..(3 + lb + ld)
        /\ k \in 1..(4 + lb + ld) /\ k \in 1..(4 + lb + ld + lf)
    BY <1>l
  <2>2. w2[k] = c[1]
    BY <1>2
  <2>3. \A i \in 1..(3 + lb) : w3[i] = w2[i]
    BY <1>3
  <2> HIDE DEF k
  <2>4. w[k] = w2[k]
    BY <1>4, <1>5, <1>6, <2>1, <2>3
  <2> QED BY <2>2, <2>4 DEF k
<1>10. \A i \in 1..ld : w[3 + lb + i] = d[i]
  <2> TAKE i \in 1..ld
  <2> DEFINE k == 3 + lb + i
  <2>1. k \in 1..(3 + lb + ld) /\ k \in 1..(4 + lb + ld) /\ k \in 1..(4 + lb + ld + lf)
    BY <1>l
  <2>2. w3[k] = d[i]
    BY <1>3
  <2> HIDE DEF k
  <2>3. w[k] = w3[k]
    BY <1>4, <1>5, <1>6, <2>1
  <2> QED BY <2>2, <2>3 DEF k
<1>11. w[4 + lb + ld] = e[1]
  <2> DEFINE k == 4 + lb + ld
  <2>1. k \in 1..(4 + lb + ld) /\ k \in 1..(4 + lb + ld + lf)
    BY <1>l
  <2>2. w4[k] = e[1]
    BY <1>4
  <2>3. \A i \in 1..(4 + lb + ld) : w5[i] = w4[i]
    BY <1>5
  <2> HIDE DEF k
  <2>4. w[k] = w4[k]
    BY <1>6, <2>1, <2>3
  <2> QED BY <2>2, <2>4 DEF k
<1>12. \A i \in 1..lf : w[4 + lb + ld + i] = f[i]
  <2> TAKE i \in 1..lf
  <2> DEFINE k == 4 + lb + ld + i
  <2>1. k \in 1..(4 + lb + ld + lf)
    BY <1>l
  <2>2. w5[k] = f[i]
    BY <1>5
  <2> HIDE DEF k
  <2>3. w[k] = w5[k]
    BY <1>6, <2>1
  <2> QED BY <2>2, <2>3 DEF k
<1>13. Layout(a, b, c, d, e, f, g, w)
  BY <1>l, <1>6, <1>7, <1>8, <1>9, <1>10, <1>11, <1>12 DEF Layout, lb, ld, lf
<1> QED BY <1>0, <1>13

(* The words of the stamps, drifts and supplies, one part of each.         *)
LEMMA PartsOfSnapshot ==
  ASSUME Canonical
  PROVE  /\ Parts([k \in DOMAIN stamps |-> StampToWords(stamps[k])], Len(stamps), StampWords)
         /\ Parts([k \in DOMAIN drifts |-> DriftToWords(drifts[k])], Len(drifts), DriftWords)
         /\ Parts([k \in DOMAIN consumed |-> SupplyToWords(consumed[k])], Len(consumed), SupplyWords)
<1>1. stamps \in Seq(StampRecord) /\ drifts \in Seq(DriftRecord) /\ consumed \in Seq(Supply)
  BY DEF Canonical, SortedStamps, SortedDrifts, SortedSupplies, SortedVector
<1>2. Parts([k \in DOMAIN stamps |-> StampToWords(stamps[k])], Len(stamps), StampWords)
  <2>1. /\ Len(stamps) \in Nat /\ DOMAIN stamps = 1..Len(stamps)
        /\ \A k \in 1..Len(stamps) : stamps[k] \in StampRecord
    BY <1>1, MembersOfVector
  <2>2. \A k \in 1..Len(stamps) : StampToWords(stamps[k]) \in [1..StampWords -> Int]
    BY <2>1, StampBack
  <2> QED BY <2>1, <2>2 DEF Parts
<1>3. Parts([k \in DOMAIN drifts |-> DriftToWords(drifts[k])], Len(drifts), DriftWords)
  <2>1. /\ Len(drifts) \in Nat /\ DOMAIN drifts = 1..Len(drifts)
        /\ \A k \in 1..Len(drifts) : drifts[k] \in DriftRecord
    BY <1>1, MembersOfVector
  <2>2. \A k \in 1..Len(drifts) : DriftToWords(drifts[k]) \in [1..DriftWords -> Int]
    BY <2>1, DriftBack
  <2> QED BY <2>1, <2>2 DEF Parts
<1>4. Parts([k \in DOMAIN consumed |-> SupplyToWords(consumed[k])], Len(consumed), SupplyWords)
  <2>1. /\ Len(consumed) \in Nat /\ DOMAIN consumed = 1..Len(consumed)
        /\ \A k \in 1..Len(consumed) : consumed[k] \in Supply
    BY <1>1, MembersOfVector
  <2>2. \A k \in 1..Len(consumed) : SupplyToWords(consumed[k]) \in [1..SupplyWords -> Int]
    BY <2>1, SupplyBack
  <2> QED BY <2>1, <2>2 DEF Parts
<1> QED BY <1>2, <1>3, <1>4

(* Decoding the words of a canonical snapshot gives it back.               *)
LEMMA DecodedBack ==
  ASSUME Canonical
  PROVE  WellFormed(ToWords(Snapshot)) /\ Decoded(Body(Snapshot)) = Snapshot
<1> DEFINE st == [k \in DOMAIN stamps |-> StampToWords(stamps[k])]
           dr == [k \in DOMAIN drifts |-> DriftToWords(drifts[k])]
           su == [k \in DOMAIN consumed |-> SupplyToWords(consumed[k])]
           n == Len(stamps)
           m == Len(drifts)
           q == Len(consumed)
           a == <<Magic, n>>
           b == Joined(st, StampWords)
           c == <<m>>
           d == Joined(dr, DriftWords)
           e == <<q>>
           f == Joined(su, SupplyWords)
           g == <<delirium>>
           w == Body(Snapshot)
<1>1. /\ stamps \in Seq(StampRecord) /\ drifts \in Seq(DriftRecord) /\ consumed \in Seq(Supply)
      /\ delirium \in 0..MaxDelirium
  BY DEF Canonical, SortedStamps, SortedDrifts, SortedSupplies, SortedVector
<1>2. n \in Nat /\ m \in Nat /\ q \in Nat
  BY <1>1, LenProperties
<1>3. w = a \o b \o c \o d \o e \o f \o g
  BY DEF Body, Snapshot
<1>4. Parts(st, n, StampWords) /\ Parts(dr, m, DriftWords) /\ Parts(su, q, SupplyWords)
  BY PartsOfSnapshot
<1>5. StampWords = 7 /\ DriftWords = 5 /\ SupplyWords = 2 /\ Magic = 5905
  BY DEF StampWords, DriftWords, SupplyWords, Magic
<1>6. /\ a \in Seq(Int) /\ Len(a) = 2 /\ a[1] = Magic /\ a[2] = n
      /\ c \in Seq(Int) /\ Len(c) = 1 /\ c[1] = m
      /\ e \in Seq(Int) /\ Len(e) = 1 /\ e[1] = q
      /\ g \in Seq(Int) /\ Len(g) = 1 /\ g[1] = delirium
  <2> HIDE DEF n, m, q
  <2> QED BY <1>1, <1>2, <1>5
<1> HIDE DEF st, dr, su
<1>7. /\ b \in Seq(Int) /\ Len(b) = n * StampWords
      /\ d \in Seq(Int) /\ Len(d) = m * DriftWords
      /\ f \in Seq(Int) /\ Len(f) = q * SupplyWords
  <2> HIDE DEF n, m, q
  <2>1. StampWords \in Nat /\ DriftWords \in Nat /\ SupplyWords \in Nat
        /\ StampWords > 0 /\ DriftWords > 0 /\ SupplyWords > 0
    BY <1>5
  <2> QED BY <1>4, <2>1, JoinedParts
<1> HIDE DEF a, b, c, d, e, f, g, w, n, m, q
<1>8. Len(b) = 7 * n /\ Len(d) = 5 * m /\ Len(f) = 2 * q
  BY <1>2, <1>5, <1>7
<1>9. /\ w \in Seq(Int) /\ Len(w) = 5 + Len(b) + Len(d) + Len(f)
      /\ w[1] = a[1] /\ w[2] = a[2]
      /\ \A i \in 1..Len(b) : w[2 + i] = b[i]
      /\ w[3 + Len(b)] = c[1]
      /\ \A i \in 1..Len(d) : w[3 + Len(b) + i] = d[i]
      /\ w[4 + Len(b) + Len(d)] = e[1]
      /\ \A i \in 1..Len(f) : w[4 + Len(b) + Len(d) + i] = f[i]
      /\ w[5 + Len(b) + Len(d) + Len(f)] = g[1]
  <2>1. /\ a \in Seq(Int) /\ b \in Seq(Int) /\ c \in Seq(Int) /\ d \in Seq(Int)
        /\ e \in Seq(Int) /\ f \in Seq(Int) /\ g \in Seq(Int)
        /\ Len(a) = 2 /\ Len(c) = 1 /\ Len(e) = 1 /\ Len(g) = 1
    BY <1>6, <1>7
  <2>2. Layout(a, b, c, d, e, f, g, a \o b \o c \o d \o e \o f \o g)
    BY ONLY <2>1, SevenParts
  <2>3. Layout(a, b, c, d, e, f, g, w)
    BY <1>3, <2>2
  <2> QED BY <2>3 DEF Layout
<1> DEFINE drift == 2 + n * StampWords
           supply == drift + 1 + m * DriftWords
           last == supply + 1 + q * SupplyWords
<1>10. /\ drift = 2 + 7 * n /\ supply = 3 + 7 * n + 5 * m /\ last = 4 + 7 * n + 5 * m + 2 * q
       /\ drift \in Nat /\ supply \in Nat /\ last \in Nat
  BY <1>2, <1>5
<1>11. Headers(w) = [drift |-> drift, supply |-> supply, delirium |-> last]
  <2>1. w[2] = n
    BY <1>6, <1>9
  <2>2. drift + 1 = 3 + Len(b) /\ w[3 + Len(b)] = m
    BY <1>2, <1>6, <1>8, <1>9, <1>10
  <2>3. supply + 1 = 4 + Len(b) + Len(d) /\ w[4 + Len(b) + Len(d)] = q
    BY <1>2, <1>6, <1>8, <1>9, <1>10
  <2>4. w[drift + 1] = m /\ w[supply + 1] = q
    BY <2>2, <2>3
  <2> DEFINE drift2 == 2 + w[2] * StampWords
             supply2 == drift2 + 1 + w[drift2 + 1] * DriftWords
  <2>5. Headers(w) = [drift |-> drift2, supply |-> supply2,
                      delirium |-> supply2 + 1 + w[supply2 + 1] * SupplyWords]
    BY DEF Headers
  <2>6. drift2 = drift
    BY <2>1
  <2>7. supply2 = supply
    BY <2>4, <2>6
  <2> HIDE DEF drift2, supply2
  <2> QED BY <2>4, <2>5, <2>6, <2>7
<1> HIDE DEF drift, supply, last
<1>12. Headers(w).drift = drift /\ Headers(w).supply = supply /\ Headers(w).delirium = last
  BY <1>11
<1>13. w[last + 1] = delirium
  <2>1. last + 1 = 5 + Len(b) + Len(d) + Len(f)
    BY <1>2, <1>8, <1>10
  <2> QED BY <1>6, <1>9, <2>1
<1>14. WellFormed(ToWords(Snapshot))
  <2>1. ToWords(Snapshot).body = w /\ ToWords(Snapshot).fingerprint = w
    BY DEF ToWords, w
  <2>2. Len(w) = 5 + 7 * n + 5 * m + 2 * q
    BY <1>2, <1>8, <1>9
  <2>3. w[1] = Magic /\ w[2] = n
    BY <1>6, <1>9
  <2>4. /\ Len(w) + 2 >= 5
        /\ Len(w) + 2 >= 2 + n * StampWords + 4
        /\ Len(w) + 2 >= supply + 4
        /\ Len(w) + 2 = last + 1 + 2
        /\ delirium <= MaxDelirium
    BY <1>1, <1>2, <1>5, <1>10, <2>2, SnapshotAssumption
  <2> QED BY <1>12, <1>13, <2>1, <2>3, <2>4 DEF WellFormed
<1>15. {StampFromWords(p) : p \in Range(Chunks(w, 2, drift, StampWords))} = Range(stamps)
  <2>1. Range(Chunks(w, 2, drift, StampWords)) = Range(st)
    <3>1. /\ StampWords \in Nat /\ StampWords > 0 /\ 2 \in Nat /\ w \in Seq(Int)
          /\ Parts(st, n, StampWords)
      BY <1>4, <1>5, <1>9
    <3>2. drift = 2 + n * StampWords /\ drift <= Len(w)
      BY <1>2, <1>5, <1>8, <1>9, <1>10
    <3>3. b = Joined(st, StampWords) /\ \A i \in 1..Len(b) : w[2 + i] = b[i]
      BY <1>9 DEF b
    <3> QED BY ONLY <3>1, <3>2, <3>3, ChunksOfJoined, SMTT(60)
  <2>2. /\ DOMAIN stamps = 1..n /\ n \in Nat
        /\ \A k \in 1..n : stamps[k] \in StampRecord
    BY <1>1, MembersOfVector DEF n
  <2>3. /\ DOMAIN st = 1..n
        /\ \A k \in 1..n : StampFromWords(st[k]) = stamps[k]
    BY <2>2, StampBack DEF st
  <2>4. Range(st) = {st[k] : k \in 1..n} /\ Range(stamps) = {stamps[k] : k \in 1..n}
    BY <2>2, <2>3 DEF Range
  <2> QED BY <2>1, <2>3, <2>4
<1>16. {DriftFromWords(p) : p \in Range(Chunks(w, drift + 1, supply, DriftWords))} = Range(drifts)
  <2>1. Range(Chunks(w, drift + 1, supply, DriftWords)) = Range(dr)
    <3> DEFINE from == drift + 1
    <3>0. from \in Nat
      BY <1>10
    <3>1. /\ DriftWords \in Nat /\ DriftWords > 0 /\ from \in Nat /\ w \in Seq(Int)
          /\ Parts(dr, m, DriftWords)
      <4> HIDE DEF from
      <4> QED BY <1>4, <1>5, <1>9, <3>0
    <3>2. supply = from + m * DriftWords /\ supply <= Len(w)
      BY <1>2, <1>5, <1>8, <1>9, <1>10
    <3>3. d = Joined(dr, DriftWords) /\ \A i \in 1..Len(d) : w[from + i] = d[i]
      <4>1. from = 3 + Len(b)
        BY <1>2, <1>8, <1>10
      <4> HIDE DEF from
      <4> QED BY <1>9, <4>1 DEF d
    <3> HIDE DEF from
    <3>4. Range(Chunks(w, from, supply, DriftWords)) = Range(dr)
      BY ONLY <3>1, <3>2, <3>3, ChunksOfJoined
    <3> QED BY <3>4 DEF from
  <2>2. /\ DOMAIN drifts = 1..m /\ m \in Nat
        /\ \A k \in 1..m : drifts[k] \in DriftRecord
    BY <1>1, MembersOfVector DEF m
  <2>3. /\ DOMAIN dr = 1..m
        /\ \A k \in 1..m : DriftFromWords(dr[k]) = drifts[k]
    BY <2>2, DriftBack DEF dr
  <2>4. Range(dr) = {dr[k] : k \in 1..m} /\ Range(drifts) = {drifts[k] : k \in 1..m}
    BY <2>2, <2>3 DEF Range
  <2> QED BY <2>1, <2>3, <2>4
<1>17. {SupplyFromWords(p) : p \in Range(Chunks(w, supply + 1, last, SupplyWords))} = Range(consumed)
  <2>1. Range(Chunks(w, supply + 1, last, SupplyWords)) = Range(su)
    <3> DEFINE from == supply + 1
    <3>0. from \in Nat
      BY <1>10
    <3>1. /\ SupplyWords \in Nat /\ SupplyWords > 0 /\ from \in Nat /\ w \in Seq(Int)
          /\ Parts(su, q, SupplyWords)
      <4> HIDE DEF from
      <4> QED BY <1>4, <1>5, <1>9, <3>0
    <3>2. last = from + q * SupplyWords /\ last <= Len(w)
      BY <1>2, <1>5, <1>8, <1>9, <1>10
    <3>3. f = Joined(su, SupplyWords) /\ \A i \in 1..Len(f) : w[from + i] = f[i]
      <4>1. from = 4 + Len(b) + Len(d)
        BY <1>2, <1>8, <1>10
      <4> HIDE DEF from
      <4> QED BY <1>9, <4>1 DEF f
    <3> HIDE DEF from
    <3>4. Range(Chunks(w, from, last, SupplyWords)) = Range(su)
      BY ONLY <3>1, <3>2, <3>3, ChunksOfJoined
    <3> QED BY <3>4 DEF from
  <2>2. /\ DOMAIN consumed = 1..q /\ q \in Nat
        /\ \A k \in 1..q : consumed[k] \in Supply
    BY <1>1, MembersOfVector DEF q
  <2>3. /\ DOMAIN su = 1..q
        /\ \A k \in 1..q : SupplyFromWords(su[k]) = consumed[k]
    BY <2>2, SupplyBack DEF su
  <2>4. Range(su) = {su[k] : k \in 1..q} /\ Range(consumed) = {consumed[k] : k \in 1..q}
    BY <2>2, <2>3 DEF Range
  <2> QED BY <2>1, <2>3, <2>4
<1>18. Decoded(w)
         = [stamps |-> CanonicalStamps({StampFromWords(p) : p \in Range(Chunks(w, 2, drift, StampWords))}),
            drifts |-> CanonicalDrifts({DriftFromWords(p) : p \in Range(Chunks(w, drift + 1, supply, DriftWords))}),
            consumed |-> CanonicalSupplies({SupplyFromWords(p) : p \in Range(Chunks(w, supply + 1, last, SupplyWords))}),
            delirium |-> w[last + 1]]
  BY <1>12 DEF Decoded
<1>19. Decoded(w) = [stamps |-> CanonicalStamps(Range(stamps)),
                     drifts |-> CanonicalDrifts(Range(drifts)),
                     consumed |-> CanonicalSupplies(Range(consumed)),
                     delirium |-> delirium]
  BY <1>13, <1>15, <1>16, <1>17, <1>18
<1>20. Decoded(w) = Snapshot
  BY <1>19, MembersAgain DEF Snapshot
<1> QED BY <1>14, <1>20 DEF w

(* A worker decodes the very snapshot the engine encoded, for every id,    *)
(* cell and number of encounters, drifts and supplies.                     *)
THEOREM TransportIsLossless == Spec => []TransportLossless
<1>1. Init => Canonical
  BY CanonicalInit
<1>2. Canonical /\ [Next]_vars => Canonical'
  BY StepImplements
<1>3. Canonical => TransportLossless
  <2> SUFFICES ASSUME Canonical PROVE FromWords(ToWords(Snapshot)) = Snapshot
    BY DEF TransportLossless
  <2>1. WellFormed(ToWords(Snapshot)) /\ Decoded(Body(Snapshot)) = Snapshot
    BY DecodedBack
  <2>2. ToWords(Snapshot).body = Body(Snapshot)
    BY DEF ToWords
  <2> QED BY <2>1, <2>2 DEF FromWords
<1> QED BY <1>1, <1>2, <1>3, PTL DEF Spec
=============================================================================
