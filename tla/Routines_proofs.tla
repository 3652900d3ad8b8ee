-------------------------- MODULE Routines_proofs --------------------------
(***************************************************************************)
(* What Without and Only of Lists.tla do to any finite sequence; and each  *)
(* kernel routine maps a record of the right type to another, and keeps    *)
(* the parts of KernelRecord.tla.                                          *)
(***************************************************************************)
EXTENDS KernelRecord, SequenceTheorems, FiniteSetTheorems, TLAPS

\* Counting the kept positions up to i numbers them 1 .. Cardinality(K) in
\* increasing order, and every number is used.
LEMMA RankNumbers ==
  ASSUME NEW n \in Nat, NEW K \in SUBSET (1 .. n)
  PROVE  /\ IsFiniteSet(K) /\ Cardinality(K) \in Nat
         /\ \A i \in K : Rank(K, i) \in 1 .. Cardinality(K)
         /\ \A i, j \in K : i < j => Rank(K, i) < Rank(K, j)
         /\ \A j \in 1 .. Cardinality(K) : \E i \in K : Rank(K, i) = j
<1> DEFINE Upto(i) == {h \in K : h <= i}
<1>0. \A h \in K : h \in Int
  OBVIOUS
<1>1. IsFiniteSet(K) /\ Cardinality(K) \in Nat
  <2>1. IsFiniteSet(1 .. n)
    BY FS_Interval
  <2> QED  BY <2>1, FS_Subset, FS_CardinalityType
<1>2. ASSUME NEW i \in K
      PROVE  /\ IsFiniteSet(Upto(i))
             /\ Rank(K, i) \in 1 .. Cardinality(K)
  <2>1. Upto(i) \in SUBSET K
    OBVIOUS
  <2>2. /\ IsFiniteSet(Upto(i))
        /\ Cardinality(Upto(i)) <= Cardinality(K)
        /\ Cardinality(Upto(i)) \in Nat
    BY <1>1, <2>1, FS_Subset, FS_CardinalityType
  <2>3. i \in Upto(i)
    OBVIOUS
  <2>4. Cardinality(Upto(i)) # 0
    BY <2>2, <2>3, FS_EmptySet
  <2> QED  BY <2>2, <2>4, <1>1 DEF Rank
<1>3. ASSUME NEW i \in K, NEW j \in K, i < j
      PROVE  Rank(K, i) < Rank(K, j)
  <2>1. Upto(i) \in SUBSET Upto(j)
    <3>1. \A h \in K : h <= i => h <= j
      BY <1>0, <1>3
    <3> QED  BY <3>1
  <2>2. j \in Upto(j) /\ j \notin Upto(i)
    BY <1>3
  <2>3. IsFiniteSet(Upto(j)) /\ IsFiniteSet(Upto(i))
    BY <1>2
  <2>4. /\ Cardinality(Upto(i)) <= Cardinality(Upto(j))
        /\ Cardinality(Upto(j)) = Cardinality(Upto(i)) => Upto(j) = Upto(i)
    BY <2>1, <2>3, FS_Subset
  <2>5. Cardinality(Upto(i)) \in Nat /\ Cardinality(Upto(j)) \in Nat
    BY <2>3, FS_CardinalityType
  <2>6. Cardinality(Upto(i)) # Cardinality(Upto(j))
    BY <2>2, <2>4
  <2> QED  BY <2>4, <2>5, <2>6 DEF Rank
<1>4. \A j \in 1 .. Cardinality(K) : \E i \in K : Rank(K, i) = j
  <2> DEFINE f == [i \in K |-> Rank(K, i)]
             T == 1 .. Cardinality(K)
  <2>1. f \in Injection(K, T)
    <3>1. f \in [K -> T]
      BY <1>2
    <3>2. ASSUME NEW a \in K, NEW b \in K, f[a] = f[b]
          PROVE  a = b
      <4>1. a \in Int /\ b \in Int
        OBVIOUS
      <4>2. Rank(K, a) \in Int /\ Rank(K, b) \in Int
        <5>1. \A x \in T : x \in Int
          OBVIOUS
        <5> QED  BY <1>2, <5>1
      <4>3. Rank(K, a) = Rank(K, b)
        BY <3>2
      <4> QED  BY <4>1, <4>2, <4>3, <1>3
    <3> QED  BY <3>1, <3>2 DEF Injection, IsInjective
  <2>2. IsFiniteSet(T) /\ Cardinality(T) = Cardinality(K)
    BY <1>1, FS_Interval
  <2>3. f \in Surjection(K, T)
    BY <2>1, <2>2, FS_Injection
  <2> QED  BY <2>3 DEF Surjection
<1> QED  BY <1>1, <1>2, <1>3, <1>4

\* The j-th kept position.
Nth(K, j) == CHOOSE i \in K : Rank(K, i) = j

\* Nth enumerates the members of a set of positions in increasing order.
LEMMA NthIncreases ==
  ASSUME NEW n \in Nat, NEW K \in SUBSET (1 .. n)
  PROVE  /\ \A j \in 1 .. Cardinality(K) : Nth(K, j) \in K /\ Rank(K, Nth(K, j)) = j
         /\ \A j, k \in 1 .. Cardinality(K) : j < k => Nth(K, j) < Nth(K, k)
         /\ \A i \in K : \E j \in 1 .. Cardinality(K) : Nth(K, j) = i
<1>0. Cardinality(K) \in Nat
  BY RankNumbers
<1>1. \A j \in 1 .. Cardinality(K) : Nth(K, j) \in K /\ Rank(K, Nth(K, j)) = j
  BY RankNumbers DEF Nth
<1>2. ASSUME NEW a \in K, NEW b \in K, Rank(K, a) <= Rank(K, b)
      PROVE  a <= b
  <2>1. Rank(K, a) \in Int /\ Rank(K, b) \in Int
    BY RankNumbers, <1>0
  <2>2. b < a => Rank(K, b) < Rank(K, a)
    BY RankNumbers
  <2> QED  BY <1>2, <2>1, <2>2
<1>3. ASSUME NEW j \in 1 .. Cardinality(K), NEW k \in 1 .. Cardinality(K), j < k
      PROVE  Nth(K, j) < Nth(K, k)
  <2>1. Nth(K, j) <= Nth(K, k)
    <3>1. Rank(K, Nth(K, j)) <= Rank(K, Nth(K, k))
      BY <1>0, <1>1, <1>3
    <3> QED  BY <1>1, <1>2, <3>1
  <2>2. Nth(K, j) # Nth(K, k)
    BY <1>1, <1>3
  <2>3. Nth(K, j) \in Int /\ Nth(K, k) \in Int
    <3>1. \A h \in K : h \in Int
      OBVIOUS
    <3> QED  BY <1>1, <3>1
  <2> QED  BY <2>1, <2>2, <2>3
<1>4. ASSUME NEW i \in K
      PROVE  \E j \in 1 .. Cardinality(K) : Nth(K, j) = i
  <2> DEFINE r == Rank(K, i)
  <2>1. r \in 1 .. Cardinality(K)
    BY RankNumbers
  <2>2. Nth(K, r) \in K /\ Rank(K, Nth(K, r)) = r
    BY <1>1, <2>1
  <2>3. Nth(K, r) <= i /\ i <= Nth(K, r)
    <3>1. r <= r
      BY <1>0, <2>1
    <3> QED  BY <1>2, <2>2, <3>1
  <2>4. Nth(K, r) = i
    <3>1. \A h \in K : h \in Int
      OBVIOUS
    <3>2. Nth(K, r) \in Int
      BY <2>2, <3>1
    <3>3. i \in Int
      BY <3>1
    <3>4. \A x, y \in Int : x <= y /\ y <= x => x = y
      OBVIOUS
    <3> QED  BY <2>3, <3>2, <3>3, <3>4
  <2> QED  BY <2>1, <2>4
<1> QED  BY <1>1, <1>3, <1>4
-----------------------------------------------------------------------------
\* Without yields a list of the members that are not in W.
THEOREM WithoutList ==
  ASSUME NEW S, NEW q \in Seq(S), NEW W
  PROVE  /\ Without(q, W) \in Seq(S)
         /\ Range(Without(q, W)) = Range(q) \ W
<1> DEFINE K == Kept(q, W)
           m == Cardinality(K)
           r == Without(q, W)
<1>1. /\ Len(q) \in Nat /\ DOMAIN q = 1 .. Len(q)
      /\ \A i \in 1 .. Len(q) : q[i] \in S
  OBVIOUS
<1>2. K \in SUBSET (1 .. Len(q))
  BY <1>1 DEF Kept
<1>3. m \in Nat
  BY <1>1, <1>2, RankNumbers
<1>4. r = [j \in 1 .. m |-> q[Nth(K, j)]]
  BY DEF Without, Nth
<1>5. \A j \in 1 .. m : Nth(K, j) \in K
  BY <1>1, <1>2, NthIncreases
<1>6. \A i \in K : \E j \in 1 .. m : Nth(K, j) = i
  BY <1>1, <1>2, NthIncreases
<1> HIDE DEF K, m, r
<1>7. r \in Seq(S)
  <2>1. \A j \in 1 .. m : q[Nth(K, j)] \in S
    BY <1>1, <1>2, <1>5
  <2> QED  BY <1>3, <1>4, <2>1
<1>8. Range(r) = Range(q) \ W
  <2>1. ASSUME NEW x \in Range(r)  PROVE x \in Range(q) \ W
    <3>1. PICK j \in 1 .. m : x = q[Nth(K, j)]
      BY <1>4 DEF Range
    <3>2. Nth(K, j) \in DOMAIN q /\ q[Nth(K, j)] \notin W
      BY <1>5 DEF K, Kept
    <3> QED  BY <3>1, <3>2 DEF Range
  <2>2. ASSUME NEW x \in Range(q) \ W  PROVE x \in Range(r)
    <3>1. PICK i \in DOMAIN q : x = q[i]
      BY DEF Range
    <3>2. i \in K
      BY <3>1 DEF K, Kept
    <3>3. PICK j \in 1 .. m : Nth(K, j) = i
      BY <1>6, <3>2
    <3> QED  BY <1>4, <3>1, <3>3 DEF Range
  <2> QED  BY <2>1, <2>2
<1> QED  BY <1>7, <1>8 DEF r

\* Without keeps the order: later members of the result were later members
\* of the list.
THEOREM WithoutOrder ==
  ASSUME NEW S, NEW q \in Seq(S), NEW W
  PROVE  \A a, b \in DOMAIN Without(q, W) : a < b =>
           \E i, j \in DOMAIN q :
             i < j /\ q[i] = Without(q, W)[a] /\ q[j] = Without(q, W)[b]
<1> DEFINE K == Kept(q, W)
           m == Cardinality(K)
           r == Without(q, W)
<1>1. Len(q) \in Nat /\ DOMAIN q = 1 .. Len(q)
  OBVIOUS
<1>2. K \in SUBSET (1 .. Len(q))
  BY <1>1 DEF Kept
<1>4. r = [j \in 1 .. m |-> q[Nth(K, j)]]
  BY DEF Without, Nth
<1>5. /\ \A j \in 1 .. m : Nth(K, j) \in K
      /\ \A j, k \in 1 .. m : j < k => Nth(K, j) < Nth(K, k)
  BY <1>1, <1>2, NthIncreases
<1> HIDE DEF K, m, r
<1>6. ASSUME NEW a \in DOMAIN r, NEW b \in DOMAIN r, a < b
      PROVE  \E i, j \in DOMAIN q : i < j /\ q[i] = r[a] /\ q[j] = r[b]
  <2>1. a \in 1 .. m /\ b \in 1 .. m
    BY <1>4
  <2>2. Nth(K, a) \in DOMAIN q /\ Nth(K, b) \in DOMAIN q
    BY <1>1, <1>2, <1>5, <2>1
  <2>3. Nth(K, a) < Nth(K, b)
    BY <1>5, <1>6, <2>1
  <2>4. r[a] = q[Nth(K, a)] /\ r[b] = q[Nth(K, b)]
    BY <1>4, <2>1
  <2> QED  BY <2>2, <2>3, <2>4
<1> QED  BY <1>6 DEF r

\* A list that holds nobody twice still does not.
THEOREM WithoutInjective ==
  ASSUME NEW S, NEW q \in Seq(S), NEW W, IsInjective(q)
  PROVE  IsInjective(Without(q, W))
<1> DEFINE r == Without(q, W)
<1>1. r \in Seq(S)
  BY WithoutList
<1>2. \A a, b \in DOMAIN r : a \in Int /\ b \in Int
  BY <1>1
<1>3. ASSUME NEW a \in DOMAIN r, NEW b \in DOMAIN r, a < b  PROVE r[a] # r[b]
  <2>1. PICK i \in DOMAIN q, j \in DOMAIN q : i < j /\ q[i] = r[a] /\ q[j] = r[b]
    BY <1>3, WithoutOrder
  <2>2. i # j
    BY <2>1
  <2> QED  BY <2>1, <2>2 DEF IsInjective
<1>4. \A a, b \in DOMAIN r : a # b => a < b \/ b < a
  BY <1>2
<1> HIDE DEF r
<1>5. \A a, b \in DOMAIN r : r[a] = r[b] => a = b
  BY <1>3, <1>4
<1>6. IsInjective(r)
  BY <1>5 DEF IsInjective
<1> QED  BY <1>6 DEF r

\* Only is the other half of the list.
THEOREM OnlyList ==
  ASSUME NEW S, NEW q \in Seq(S), NEW W
  PROVE  /\ Only(q, W) \in Seq(S)
         /\ Range(Only(q, W)) = Range(q) \cap W
         /\ IsInjective(q) => IsInjective(Only(q, W))
BY WithoutList, WithoutInjective DEF Only

\* The members of a list are what its positions hold.
LEMMA RangeByIndex ==
  ASSUME NEW S, NEW q \in Seq(S)
  PROVE  /\ \A x : x \in Range(q) <=> \E i \in 1 .. Len(q) : q[i] = x
         /\ Range(q) \subseteq S
         /\ Range(q) = {} <=> q = <<>>
<1>1. Len(q) \in Nat /\ DOMAIN q = 1 .. Len(q) /\ \A i \in 1 .. Len(q) : q[i] \in S
  BY LenProperties, ElementOfSeq
<1>2. \A x : x \in Range(q) <=> \E i \in 1 .. Len(q) : q[i] = x
  BY <1>1 DEF Range
<1>3. q # <<>> => 1 \in 1 .. Len(q)
  <2>1. q # <<>> => Len(q) \in Nat \ {0}
    BY EmptySeq
  <2> QED  BY <2>1
<1>4. q = <<>> => DOMAIN q = {}
  OBVIOUS
<1>5. Range(q) = {} <=> q = <<>>
  <2>1. q = <<>> => Range(q) = {}
    BY <1>4 DEF Range
  <2>2. q # <<>> => q[1] \in Range(q)
    BY <1>2, <1>3
  <2> QED  BY <2>1, <2>2
<1>6. Range(q) \subseteq S
  BY <1>1, <1>2
<1> QED  BY <1>2, <1>5, <1>6

\* A list put behind another has the members of both, once each if they differ.
LEMMA ConcatList ==
  ASSUME NEW S, NEW q \in Seq(S), NEW r \in Seq(S)
  PROVE  /\ q \o r \in Seq(S)
         /\ Range(q \o r) = Range(q) \cup Range(r)
         /\ IsInjective(q) /\ IsInjective(r) /\ Range(q) \cap Range(r) = {}
              => IsInjective(q \o r)
<1> DEFINE c == q \o r  m == Len(q)  n == Len(r)
<1>1. /\ m \in Nat /\ n \in Nat
      /\ DOMAIN q = 1 .. m /\ DOMAIN r = 1 .. n
  BY LenProperties
<1>2. /\ c \in Seq(S) /\ Len(c) = m + n /\ DOMAIN c = 1 .. m + n
      /\ \A i \in 1 .. m + n : c[i] = IF i <= m THEN q[i] ELSE r[i - m]
  BY ConcatProperties, LenProperties
<1> HIDE DEF c, m, n
<1>3. \A i \in 1 .. m : i \in DOMAIN c /\ c[i] = q[i]
  BY <1>1, <1>2
<1>4. \A i \in 1 .. n : i + m \in DOMAIN c /\ c[i + m] = r[i]
  <2> TAKE i \in 1 .. n
  <2> DEFINE k == i + m
  <2>1. k \in 1 .. m + n /\ ~(k <= m) /\ k - m = i
    BY <1>1
  <2> HIDE DEF k
  <2>2. k \in DOMAIN c /\ c[k] = r[k - m]
    BY <1>2, <2>1
  <2> QED  BY <2>1, <2>2 DEF k
<1>5. ASSUME NEW i \in DOMAIN c
      PROVE  \/ i \in 1 .. m /\ c[i] = q[i]
             \/ i - m \in 1 .. n /\ c[i] = r[i - m] /\ i \in Int
  BY <1>1, <1>2
<1>6. Range(c) \subseteq Range(q) \cup Range(r)
  BY <1>1, <1>5 DEF Range
<1>7. Range(q) \subseteq Range(c)
  BY <1>1, <1>3 DEF Range
<1>8. Range(r) \subseteq Range(c)
  BY <1>1, <1>4 DEF Range
<1>9. ASSUME IsInjective(q), IsInjective(r), Range(q) \cap Range(r) = {},
             NEW i \in DOMAIN c, NEW j \in DOMAIN c, c[i] = c[j]
      PROVE  i = j
  <2>1. \A x, y \in 1 .. m : q[x] = q[y] => x = y
    BY <1>1, <1>9 DEF IsInjective
  <2>2. \A x, y \in 1 .. n : r[x] = r[y] => x = y
    BY <1>1, <1>9 DEF IsInjective
  <2>3. \A x \in 1 .. m, y \in 1 .. n : q[x] # r[y]
    BY <1>1, <1>9 DEF Range
  <2>4. CASE i \in 1 .. m /\ c[i] = q[i] /\ j \in 1 .. m /\ c[j] = q[j]
    BY <1>9, <2>1, <2>4
  <2>5. CASE /\ i - m \in 1 .. n /\ c[i] = r[i - m] /\ i \in Int
             /\ j - m \in 1 .. n /\ c[j] = r[j - m] /\ j \in Int
    <3>1. i - m = j - m
      BY <1>9, <2>2, <2>5
    <3> QED  BY <1>1, <2>5, <3>1
  <2>6. CASE /\ i \in 1 .. m /\ c[i] = q[i]
             /\ j - m \in 1 .. n /\ c[j] = r[j - m] /\ j \in Int
    BY <1>9, <2>3, <2>6
  <2>7. CASE /\ j \in 1 .. m /\ c[j] = q[j]
             /\ i - m \in 1 .. n /\ c[i] = r[i - m] /\ i \in Int
    BY <1>9, <2>3, <2>7
  <2> QED  BY <1>5, <2>4, <2>5, <2>6, <2>7
<1>10. IsInjective(q) /\ IsInjective(r) /\ Range(q) \cap Range(r) = {}
         => IsInjective(c)
  BY <1>9 DEF IsInjective
<1> QED  BY <1>2, <1>6, <1>7, <1>8, <1>10 DEF c

\* A list of one.
LEMMA SingleList ==
  ASSUME NEW S, NEW x \in S
  PROVE  /\ <<x>> \in Seq(S) /\ Range(<<x>>) = {x} /\ IsInjective(<<x>>)
<1>1. <<x>> \in Seq(S) /\ DOMAIN <<x>> = {1} /\ <<x>>[1] = x
  OBVIOUS
<1> QED  BY <1>1 DEF Range, IsInjective

\* Append adds one member at the end.
LEMMA AppendList ==
  ASSUME NEW S, NEW q \in Seq(S), NEW x \in S
  PROVE  /\ Append(q, x) \in Seq(S)
         /\ Range(Append(q, x)) = Range(q) \cup {x}
         /\ IsInjective(q) /\ x \notin Range(q) => IsInjective(Append(q, x))
<1>1. Append(q, x) = q \o <<x>>
  BY AppendIsConcat
<1>2. <<x>> \in Seq(S) /\ Range(<<x>>) = {x} /\ IsInjective(<<x>>)
  BY SingleList
<1>3. /\ q \o <<x>> \in Seq(S)
      /\ Range(q \o <<x>>) = Range(q) \cup Range(<<x>>)
      /\ IsInjective(q) /\ IsInjective(<<x>>) /\ Range(q) \cap Range(<<x>>) = {}
           => IsInjective(q \o <<x>>)
  BY <1>2, ConcatList
<1> QED  BY <1>1, <1>2, <1>3

\* Taking the head of a list takes one member off it.
LEMMA HeadTailList ==
  ASSUME NEW S, NEW q \in Seq(S), q # <<>>
  PROVE  /\ Head(q) \in S /\ Tail(q) \in Seq(S)
         /\ Range(q) = {Head(q)} \cup Range(Tail(q))
         /\ IsInjective(q) => Head(q) \notin Range(Tail(q)) /\ IsInjective(Tail(q))
<1> DEFINE t == Tail(q)  n == Len(q)
<1>1. n \in Nat \ {0} /\ DOMAIN q = 1 .. n
  BY EmptySeq, LenProperties
<1>2. /\ Head(q) \in S /\ t \in Seq(S) /\ Len(t) = n - 1
      /\ \A i \in 1 .. Len(t) : t[i] = q[i + 1]
  BY HeadTailProperties
<1>3. DOMAIN t = 1 .. n - 1
  BY <1>2, LenProperties
<1>4. Head(q) = q[1]
  OBVIOUS
<1> HIDE DEF t, n
<1>5. \A i \in DOMAIN t : i + 1 \in DOMAIN q /\ i + 1 # 1 /\ t[i] = q[i + 1] /\ i \in Int
  BY <1>1, <1>2, <1>3
<1>6. \A i \in DOMAIN q : i = 1 \/ (i - 1 \in DOMAIN t /\ t[i - 1] = q[i])
  BY <1>1, <1>2, <1>3
<1>7. 1 \in DOMAIN q
  BY <1>1
<1>8. Range(q) = {Head(q)} \cup Range(t)
  <2>1. Range(q) \subseteq {Head(q)} \cup Range(t)
    BY <1>4, <1>6 DEF Range
  <2>2. {Head(q)} \cup Range(t) \subseteq Range(q)
    BY <1>4, <1>5, <1>7 DEF Range
  <2> QED  BY <2>1, <2>2
<1>9. ASSUME IsInjective(q)  PROVE Head(q) \notin Range(t) /\ IsInjective(t)
  <2>1. \A i \in DOMAIN t : t[i] # Head(q)
    BY <1>4, <1>5, <1>7, <1>9 DEF IsInjective
  <2>2. \A i, j \in DOMAIN t : t[i] = t[j] => i + 1 = j + 1
    BY <1>5, <1>9 DEF IsInjective
  <2> QED  BY <1>5, <2>1, <2>2 DEF Range, IsInjective
<1> QED  BY <1>2, <1>8, <1>9 DEF t
-----------------------------------------------------------------------------
\* Taking out what the first d positions hold, and nothing else, leaves the
\* rest of the list as it is.
LEMMA WithoutFirst ==
  ASSUME NEW S, NEW q \in Seq(S), NEW W, NEW d \in 0 .. Len(q),
         \A i \in DOMAIN q : q[i] \in W <=> i <= d
  PROVE  q = SubSeq(q, 1, d) \o Without(q, W)
<1> DEFINE K == Kept(q, W)  n == Len(q)  r == Without(q, W)
<1>1. n \in Nat /\ d \in Nat /\ d <= n /\ DOMAIN q = 1 .. n
  BY LenProperties
<1>2. K = d + 1 .. n
  BY <1>1 DEF Kept
<1>3. \A i \in Nat : d <= i => Cardinality(d + 1 .. i) = i - d
  <2> TAKE i \in Nat
  <2>1. Cardinality(d + 1 .. i) = IF d + 1 > i THEN 0 ELSE i - (d + 1) + 1
    BY <1>1, FS_Interval
  <2> QED  BY <1>1, <2>1
<1>4. Cardinality(K) = n - d
  BY <1>1, <1>2, <1>3
<1>5. ASSUME NEW i \in K PROVE Rank(K, i) = i - d
  <2>1. {h \in K : h <= i} = d + 1 .. i
    BY <1>1, <1>2
  <2>2. i \in Nat /\ d <= i
    BY <1>1, <1>2
  <2> QED  BY <1>3, <2>1, <2>2 DEF Rank
<1> HIDE DEF K
<1>6. ASSUME NEW j \in 1 .. n - d PROVE Nth(K, j) = d + j
  <2>1. d + j \in K /\ \A i \in K : i - d = j => i = d + j
    BY <1>1, <1>2
  <2>2. Rank(K, d + j) = j
    <3>1. (d + j) - d = j
      BY <1>1
    <3> QED  BY <1>5, <2>1, <3>1
  <2>3. \A i \in K : Rank(K, i) = j => i = d + j
    BY <1>5, <2>1
  <2> QED  BY <2>1, <2>2, <2>3 DEF Nth
<1>7. r = [j \in 1 .. n - d |-> q[Nth(K, j)]]
  BY <1>4 DEF Without, Nth, K
<1>8. r \in Seq(S) /\ Len(r) = n - d /\ \A j \in 1 .. n - d : r[j] = q[d + j]
  <2>1. r \in Seq(S)
    BY WithoutList
  <2>2. \A j \in 1 .. n - d : r[j] = q[d + j]
    BY <1>6, <1>7
  <2>3. DOMAIN r = 1 .. n - d /\ n - d \in Nat
    BY <1>1, <1>7
  <2> QED  BY <2>1, <2>2, <2>3, LenProperties
<1> HIDE DEF r
<1> DEFINE a == SubSeq(q, 1, d)
<1>9. a \in Seq(S) /\ Len(a) = d /\ \A i \in 1 .. d : a[i] = q[i]
  <2>1. \A i \in 1 .. d : q[i] \in S
    BY <1>1, ElementOfSeq
  <2>2. 1 \in Int /\ d \in Int
    BY <1>1
  <2>3. /\ a \in Seq(S) /\ Len(a) = (IF 1 <= d THEN d - 1 + 1 ELSE 0)
        /\ \A i \in 1 .. d - 1 + 1 : a[i] = q[1 + i - 1]
    BY <2>1, <2>2, SubSeqProperties
  <2> QED  BY <1>1, <2>3
<1> HIDE DEF a
<1> DEFINE c == a \o r
<1>10. /\ c \in Seq(S) /\ Len(c) = n
       /\ \A i \in 1 .. n : c[i] = IF i <= d THEN a[i] ELSE r[i - d]
  <2>1. /\ c \in Seq(S) /\ Len(c) = d + (n - d)
        /\ \A i \in 1 .. d + (n - d) : c[i] = IF i <= d THEN a[i] ELSE r[i - d]
    BY <1>8, <1>9, ConcatProperties
  <2>2. d + (n - d) = n
    BY <1>1
  <2> QED  BY <2>1, <2>2
<1> HIDE DEF c
<1>11. ASSUME NEW i \in 1 .. n PROVE c[i] = q[i]
  <2>1. CASE i <= d
    <3>1. i \in 1 .. d
      BY <1>1, <2>1
    <3> QED  BY <1>9, <1>10, <2>1, <3>1
  <2>2. CASE ~(i <= d)
    <3>1. i - d \in 1 .. n - d /\ d + (i - d) = i
      BY <1>1, <2>2
    <3>2. r[i - d] = q[d + (i - d)]
      BY <1>8, <3>1
    <3> QED  BY <1>10, <2>2, <3>1, <3>2
  <2> QED  BY <2>1, <2>2
<1>12. c = q
  BY <1>10, <1>11, SeqEqual
<1> QED  BY <1>12 DEF c, a, r

\* Whom the list does not hold is not missed,
LEMMA WithoutNobody ==
  ASSUME NEW S, NEW q \in Seq(S), NEW W, Range(q) \cap W = {}
  PROVE  Without(q, W) = q
<1>1. 0 \in 0 .. Len(q) /\ \A i \in DOMAIN q : ~(i <= 0) /\ q[i] \notin W
  BY LenProperties DEF Range
<1>2. q = SubSeq(q, 1, 0) \o Without(q, W)
  BY <1>1, WithoutFirst
<1>3. SubSeq(q, 1, 0) = <<>>
  BY SubSeqEmpty
<1>4. Without(q, W) \in Seq(S)
  BY WithoutList
<1> QED  BY <1>2, <1>3, <1>4, ConcatEmptySeq

\* and without its head the list is what is behind it.
LEMMA WithoutHead ==
  ASSUME NEW S, NEW q \in Seq(S), q # <<>>, IsInjective(q)
  PROVE  \E a \in Seq(S) : q = a \o Without(q, {Head(q)})
<1>1. Len(q) \in Nat \ {0} /\ DOMAIN q = 1 .. Len(q) /\ Head(q) = q[1]
  BY EmptySeq, LenProperties
<1>2. 1 \in 0 .. Len(q) /\ 1 \in DOMAIN q
  BY <1>1
<1>3. \A i \in DOMAIN q : q[i] \in {Head(q)} <=> i <= 1
  <2>1. \A i \in DOMAIN q : i <= 1 <=> i = 1
    BY <1>1
  <2>2. \A i \in DOMAIN q : q[i] = q[1] => i = 1
    BY <1>2 DEF IsInjective
  <2> QED  BY <1>1, <2>1, <2>2
<1>4. q = SubSeq(q, 1, 1) \o Without(q, {Head(q)})
  BY <1>2, <1>3, WithoutFirst
<1>5. SubSeq(q, 1, 1) \in Seq(S)
  <2>1. q[1] \in S
    BY <1>2, ElementOfSeq, <1>1
  <2> QED  BY <2>1, SubSeqProperties
<1> QED  BY <1>4, <1>5

-----------------------------------------------------------------------------
(***************************************************************************)
(* Each kernel routine maps a record of the right type to another.         *)
(***************************************************************************)
LEMMA SchedulerPutType ==
  ASSUME NEW k \in Kernels, NEW t \in Threads
  PROVE  SchedulerPut(k, t) \in Kernels
<1>1. Append(k.ready, t) \in Seq(Threads)
  BY AppendProperties DEF Kernels
<1> QED  BY <1>1 DEF SchedulerPut, Kernels

\* Scheduler::get: the head of the ready list, or the idle thread.
LEMMA SchedulerGetType ==
  ASSUME NEW k \in Kernels
  PROVE  SchedulerGet(k) \in Kernels
<1>1. k.ready # <<>> => Head(k.ready) \in Threads /\ Tail(k.ready) \in Seq(Threads)
  BY HeadTailProperties DEF Kernels
<1>2. Idle \in Threads
  BY ThreadsAssumption
<1>3. CASE k.ready = <<>>
  BY <1>2, <1>3 DEF SchedulerGet, Kernels
<1>4. CASE k.ready # <<>>
  BY <1>1, <1>4 DEF SchedulerGet, Kernels
<1> QED  BY <1>3, <1>4

\* TCB::yield: the thread that runs next is a thread.
LEMMA YieldType ==
  ASSUME NEW k \in Kernels, NEW schPut
  PROVE  Yield(k, schPut) \in Kernels
<1> DEFINE queued == IF CanContinue(k, k.running) /\ schPut
                     THEN SchedulerPut(k, k.running) ELSE k
<1>1. k.running \in Threads
  BY DEF Kernels
<1>2. queued \in Kernels
  BY <1>1, SchedulerPutType
<1>3. SchedulerGet(queued) \in Kernels
  BY <1>2, SchedulerGetType
<1> HIDE DEF queued
<1>4. [SchedulerGet(queued) EXCEPT !.timeSliceCounter = 0] \in Kernels
  BY <1>3 DEF Kernels
<1> QED  BY <1>4 DEF Yield, queued

\* Taking threads off the lists they wait in leaves lists of threads.
LEMMA UnlinkType ==
  ASSUME NEW k \in Kernels, NEW W
  PROVE  Unlink(k, W) \in Kernels
<1>1. Without(k.sleepList, W) \in Seq(Threads)
  BY WithoutList DEF Kernels
<1>2. [s \in Sems |-> Without(k.blocked[s], W)] \in [Sems -> Seq(Threads)]
  BY WithoutList DEF Kernels
<1> QED  BY <1>1, <1>2 DEF Unlink, Kernels

\* Making threads ready keeps the record well typed.
LEMMA WakeType ==
  ASSUME NEW k \in Kernels, NEW q \in Seq(Threads), NEW manner \in UnblockManners
  PROVE  Wake(k, q, manner) \in Kernels
<1> DEFINE u == Unlink(k, Range(q))
<1>1. u \in Kernels
  BY UnlinkType
<1>2. u.ready \o q \in Seq(Threads)
  BY <1>1, ConcatProperties DEF Kernels
<1> HIDE DEF u
<1>3. [u EXCEPT !.ready = @ \o q,
                !.unblockManner = [t \in Threads |->
                   IF t \in Range(q) /\ k.blockedAtSem[t] # Null
                   THEN manner ELSE @[t]]] \in Kernels
  BY <1>1, <1>2 DEF Kernels
<1> QED  BY <1>3 DEF Wake, u

\* Sleep::put: the sleeper is inserted into a list of threads.
LEMMA SleepPutType ==
  ASSUME NEW k \in Kernels, NEW t \in Threads, NEW timeout \in Nat
  PROVE  SleepPut(k, t, timeout) \in Kernels
<1> DEFINE earlier == {u \in Threads : sleeps(k, u) /\ k.remaining[u] <= timeout}
           list == Only(k.sleepList, earlier) \o <<t>> \o Without(k.sleepList, earlier)
<1>1. list \in Seq(Threads)
  <2>1. Only(k.sleepList, earlier) \in Seq(Threads)
    BY OnlyList DEF Kernels
  <2>2. Without(k.sleepList, earlier) \in Seq(Threads)
    BY WithoutList DEF Kernels
  <2>3. <<t>> \in Seq(Threads)
    OBVIOUS
  <2> QED  BY <2>1, <2>2, <2>3, ConcatProperties
<1> HIDE DEF list
<1>2. [k EXCEPT !.sleepList = list, !.remaining[t] = timeout] \in Kernels
  BY <1>1 DEF Kernels
<1> QED  BY <1>2 DEF SleepPut, list

\* Sleep::onTick: no count of ticks falls below zero.
LEMMA OnTickType ==
  ASSUME NEW k \in Kernels
  PROVE  OnTick(k) \in Kernels
<1> DEFINE due == {t \in Threads : k.remaining[t] = 1}
           ticked == [k EXCEPT !.remaining =
                        [t \in Threads |-> IF @[t] > 0 THEN @[t] - 1 ELSE 0]]
<1>1. ticked \in Kernels
  <2>1. \A t \in Threads : k.remaining[t] \in Nat
    BY DEF Kernels
  <2>2. [t \in Threads |-> IF k.remaining[t] > 0 THEN k.remaining[t] - 1 ELSE 0]
          \in [Threads -> Nat]
    BY <2>1
  <2> QED  BY <2>2 DEF Kernels
<1>2. Only(k.sleepList, due) \in Seq(Threads)
  BY OnlyList DEF Kernels
<1> HIDE DEF due, ticked
<1>3. Wake(ticked, Only(k.sleepList, due), "WAIT_TIMEOUT") \in Kernels
  BY <1>1, <1>2, WakeType DEF UnblockManners
<1> QED  BY <1>3 DEF OnTick, due, ticked

\* kSemaphore::signal: a waiter's missing tokens never fall below zero.
LEMMA SignalType ==
  ASSUME NEW k \in Kernels, NEW s
  PROVE  Signal(k, s) \in Kernels
<1>1. CASE s \notin k.active
  BY <1>1 DEF Signal
<1>2. CASE s \in k.active /\ k.blocked[s] = <<>>
  <2>1. k.value[s] + 1 \in Nat
    BY <1>2 DEF Kernels
  <2>2. [k EXCEPT !.value[s] = @ + 1] \in Kernels
    BY <2>1 DEF Kernels
  <2> QED  BY <1>2, <2>2 DEF Signal
<1>3. CASE s \in k.active /\ k.blocked[s] # <<>>
  <2> DEFINE first == Head(k.blocked[s])
  <2>1. k.blocked[s] \in Seq(Threads)
    BY <1>3 DEF Kernels
  <2>2. first \in Threads /\ <<first>> \in Seq(Threads)
    BY <1>3, <2>1, HeadTailProperties
  <2>3. Wake(k, <<first>>, "REGULAR") \in Kernels
    BY <2>2, WakeType DEF UnblockManners
  <2>5. k.tokensNeeded[first] \in Nat
    BY <2>2 DEF Kernels
  <2>4. ASSUME k.tokensNeeded[first] > 1
        PROVE  [k EXCEPT !.tokensNeeded[first] = @ - 1] \in Kernels
    <3>1. k.tokensNeeded[first] - 1 \in Nat
      BY <2>4, <2>5
    <3> HIDE DEF first
    <3> QED  BY <3>1 DEF Kernels
  <2> HIDE DEF first
  <2> QED  BY <1>3, <2>3, <2>4, <2>5 DEF Signal, first
<1> QED  BY <1>1, <1>2, <1>3

\* kSemaphore::signalAll wakes threads only.
LEMMA SignalAllType ==
  ASSUME NEW k \in Kernels, NEW s, NEW manner \in UnblockManners
  PROVE  SignalAll(k, s, manner) \in Kernels
<1>1. CASE s \notin k.active
  BY <1>1 DEF SignalAll
<1>2. CASE s \in k.active
  <2>1. k.blocked[s] \in Seq(Threads)
    BY <1>2 DEF Kernels
  <2> DEFINE w == Wake(k, k.blocked[s], manner)
  <2>2. w \in Kernels
    BY <2>1, WakeType
  <2> HIDE DEF w
  <2>3. [w EXCEPT !.value[s] = 0] \in Kernels
    BY <2>2 DEF Kernels
  <2> QED  BY <1>2, <2>3 DEF SignalAll, w
<1> QED  BY <1>1, <1>2

\* kSemaphore::close keeps the record well typed.
LEMMA CloseType ==
  ASSUME NEW k \in Kernels, NEW s
  PROVE  Close(k, s) \in Kernels
<1> DEFINE a == SignalAll(k, s, "ON_CLOSE")
<1>1. a \in Kernels
  BY SignalAllType DEF UnblockManners
<1> HIDE DEF a
<1>2. [a EXCEPT !.active = @ \ {s}] \in Kernels
  BY <1>1 DEF Kernels
<1> QED  BY <1>2 DEF Close, a

\* The count of children stays a number of its width, up and down.
LEMMA CountType ==
  ASSUME NEW n \in 0 .. CountMod - 1
  PROVE  CountUp(n) \in 0 .. CountMod - 1 /\ CountDown(n) \in 0 .. CountMod - 1
<1>1. CountMod \in Nat \ {0}
  <2>1. Cardinality(Threads) \in Nat /\ Cardinality(Threads) # 0
    BY ThreadsAssumption, FS_CardinalityType, FS_EmptySet
  <2> QED  BY <2>1, NumbersAssumption
<1> QED  BY <1>1 DEF CountUp, CountDown

\* TCB::threadCreate fills in the record of the new thread.
LEMMA ThreadCreateType ==
  ASSUME NEW k \in Kernels, NEW t \in Threads
  PROVE  ThreadCreate(k, t) \in Kernels
<1> DEFINE made == [k EXCEPT
                 !.created   = @ \cup {t},
                 !.parent[t] = k.running,
                 !.active    = @ \cup SemsOf(t),
                 !.opened    = @ \cup SemsOf(t),
                 !.value     = [s \in Sems |-> IF s = semSend(t) THEN 1
                                               ELSE IF s \in SemsOf(t) THEN 0
                                               ELSE @[s]],
                 !.numOfActiveChildren[k.running] = CountUp(@)]
<1>1. SemsOf(t) \in SUBSET Sems
  BY DEF Sems
<1>2. /\ k.running \in Threads
      /\ CountUp(k.numOfActiveChildren[k.running]) \in 0 .. CountMod - 1
  BY CountType DEF Kernels
<1>3. made \in Kernels
  BY <1>1, <1>2 DEF Kernels
<1> HIDE DEF made
<1>4. SchedulerPut(made, t) \in Kernels
  BY <1>3, SchedulerPutType
<1> QED  BY <1>4 DEF ThreadCreate, made

\* TCB::finish tells the parent, which may be in joinAll.
LEMMA LeaveParentType ==
  ASSUME NEW k \in Kernels
  PROVE  LeaveParent(k) \in Kernels
<1> DEFINE p == k.parent[k.running]
           counted == [k EXCEPT !.numOfActiveChildren[p] = CountDown(@)]
<1>1. p \in Threads \cup {Null}
  BY DEF Kernels
<1>2. CASE p = Null \/ p \in k.finished
  BY <1>2 DEF LeaveParent
<1>3. CASE p # Null /\ p \notin k.finished
  <2>1. CountDown(k.numOfActiveChildren[p]) \in 0 .. CountMod - 1
    BY <1>1, <1>3, CountType DEF Kernels
  <2> HIDE DEF p
  <2>2. counted \in Kernels
    BY <2>1 DEF Kernels
  <2> HIDE DEF counted
  <2>3. Signal(counted, semJoinAll(p)) \in Kernels
    BY <2>2, SignalType
  <2> QED  BY <1>3, <2>2, <2>3 DEF LeaveParent, counted, p
<1> QED  BY <1>2, <1>3

\* TCB::finish, all of it.
LEMMA FinishType ==
  ASSUME NEW k \in Kernels
  PROVE  Finish(k) \in Kernels
<1> DEFINE t        == k.running
           noMail   == Close(Close(k, semSend(t)), semReceive(t))
           joined   == Close(SignalAll(noMail, semJoin(t), "REGULAR"), semJoin(t))
           orphaned == Close(LeaveParent(joined), semJoinAll(t))
           alone    == Unlink(orphaned, {t})
<1>1. noMail \in Kernels
  BY CloseType
<1> HIDE DEF noMail
<1>2. joined \in Kernels
  BY <1>1, SignalAllType, CloseType DEF UnblockManners
<1> HIDE DEF joined
<1>3. orphaned \in Kernels
  BY <1>2, LeaveParentType, CloseType
<1> HIDE DEF orphaned
<1>4. alone \in Kernels
  BY <1>3, UnlinkType
<1> HIDE DEF alone
<1>5. t \in Threads
  BY DEF Kernels
<1> HIDE DEF t
<1>6. [alone EXCEPT !.finished = @ \cup {t}] \in Kernels
  BY <1>4, <1>5 DEF Kernels
<1>7. Yield([alone EXCEPT !.finished = @ \cup {t}], FALSE) \in Kernels
  BY <1>6, YieldType
<1> QED  BY <1>7 DEF Finish, alone, orphaned, joined, noMail, t

\* A semaphore of the program is opened.
LEMMA SemCreateType ==
  ASSUME NEW k \in Kernels, NEW s \in Sems, NEW init \in Nat
  PROVE  SemCreate(k, s, init) \in Kernels
BY DEF SemCreate, Kernels

\* kSemaphore::wait without suspension: no token is taken that is not there.
LEMMA AcquireType ==
  ASSUME NEW k \in Kernels, NEW s \in Sems, NEW tokens \in Nat,
         k.value[s] >= tokens
  PROVE  Acquire(k, s, tokens) \in Kernels
<1>1. k.value[s] - tokens \in Nat
  BY DEF Kernels
<1> QED  BY <1>1 DEF Acquire, Kernels, UnblockManners

\* kSemaphore::put: the running thread goes to the end of the list.
LEMMA BlockType ==
  ASSUME NEW k \in Kernels, NEW s \in Sems, NEW tokens \in Nat,
         k.value[s] < tokens
  PROVE  Block(k, s, tokens) \in Kernels
<1>1. tokens - k.value[s] \in Nat
  BY DEF Kernels
<1>2. k.running \in Threads /\ k.blocked[s] \in Seq(Threads)
  BY DEF Kernels
<1>3. Append(k.blocked[s], k.running) \in Seq(Threads)
  BY <1>2, AppendProperties
<1> QED  BY <1>1, <1>2, <1>3 DEF Block, Kernels

\* kSemaphore::timedWait with no time to wait.
LEMMA BlockForNoTimeType ==
  ASSUME NEW k \in Kernels, NEW s \in Sems
  PROVE  BlockForNoTime(k, s) \in Kernels
BY DEF BlockForNoTime, Kernels, UnblockManners

\* kSemaphore::resolveManner answers a number.
LEMMA ResolveMannerType ==
  ASSUME NEW k \in Kernels
  PROVE  ResolveManner(k) \in Int
<1>1. k.unblockManner[k.running] \in UnblockManners
  BY DEF Kernels
<1> QED  BY <1>1 DEF ResolveManner, UnblockManners, TIMEOUT, ERR_SEM_WAITCLOSE

-----------------------------------------------------------------------------
\* The parts of the record the invariant is about, one by one.
LEMMA KernelFields ==
  ASSUME NEW k \in Kernels
  PROVE  /\ k.running \in Threads
         /\ k.ready \in Seq(Threads) /\ k.sleepList \in Seq(Threads)
         /\ k.created \subseteq Threads /\ k.finished \subseteq Threads
         /\ k.active \subseteq Sems /\ k.opened \subseteq Sems
         /\ k.remaining \in [Threads -> Nat] /\ k.tokensNeeded \in [Threads -> Nat]
         /\ k.value \in [Sems -> Nat] /\ k.blocked \in [Sems -> Seq(Threads)]
         /\ k.blockedAtSem \in [Threads -> Sems \cup {Null}]
BY DEF Kernels

-----------------------------------------------------------------------------
\* The members no routine but the constructors, finish and yield changes.
SameThreads(k, u) ==
  /\ u.running = k.running /\ u.created = k.created /\ u.finished = k.finished
  /\ u.opened = k.opened

\* What Unlink changes, member by member.
LEMMA UnlinkFields ==
  ASSUME NEW k \in Kernels, NEW W
  PROVE  LET u == Unlink(k, W)
         IN  /\ SameThreads(k, u)
             /\ u.ready = k.ready /\ u.active = k.active /\ u.value = k.value
             /\ u.sleepList = Without(k.sleepList, W)
             /\ \A s \in Sems : u.blocked[s] = Without(k.blocked[s], W)
             /\ \A t \in Threads :
                  /\ u.remaining[t] = IF t \in W THEN 0 ELSE k.remaining[t]
                  /\ u.blockedAtSem[t] = IF t \in W THEN Null ELSE k.blockedAtSem[t]
                  /\ u.tokensNeeded[t] = IF t \in W THEN 0 ELSE k.tokensNeeded[t]
BY DEF Unlink, Kernels, SameThreads

\* What Wake changes beyond Unlink.
LEMMA WakeFields ==
  ASSUME NEW k \in Kernels, NEW q, NEW manner
  PROVE  LET u == Unlink(k, Range(q))
             w == Wake(k, q, manner)
         IN  /\ SameThreads(u, w)
             /\ w.ready = u.ready \o q /\ w.active = u.active /\ w.value = u.value
             /\ w.sleepList = u.sleepList /\ w.remaining = u.remaining
             /\ w.blocked = u.blocked /\ w.blockedAtSem = u.blockedAtSem
             /\ w.tokensNeeded = u.tokensNeeded
<1> DEFINE u == Unlink(k, Range(q))
<1>1. u \in Kernels
  BY UnlinkType
<1> HIDE DEF u
<1>2. LET w == [u EXCEPT !.ready = @ \o q,
                  !.unblockManner = [t \in Threads |->
                     IF t \in Range(q) /\ k.blockedAtSem[t] # Null
                     THEN manner ELSE @[t]]]
      IN  /\ SameThreads(u, w)
          /\ w.ready = u.ready \o q /\ w.active = u.active /\ w.value = u.value
          /\ w.sleepList = u.sleepList /\ w.remaining = u.remaining
          /\ w.blocked = u.blocked /\ w.blockedAtSem = u.blockedAtSem
          /\ w.tokensNeeded = u.tokensNeeded
  BY <1>1 DEF Kernels, SameThreads
<1> QED  BY <1>2 DEF Wake, u

-----------------------------------------------------------------------------
(***************************************************************************)
(* Unlinking a set of threads from the lists of the semaphores.            *)
(***************************************************************************)
LEMMA UnlinkBlocked ==
  ASSUME NEW k \in Kernels, NEW W, ListsAgree(k), Short(k)
  PROVE  ListsAgree(Unlink(k, W)) /\ Short(Unlink(k, W))
<1> DEFINE u == Unlink(k, W)
<1>1. /\ u.active = k.active /\ u.value = k.value
      /\ \A s \in Sems : u.blocked[s] = Without(k.blocked[s], W)
      /\ \A t \in Threads :
           /\ u.blockedAtSem[t] = IF t \in W THEN Null ELSE k.blockedAtSem[t]
           /\ u.tokensNeeded[t] = IF t \in W THEN 0 ELSE k.tokensNeeded[t]
  BY UnlinkFields
<1> HIDE DEF u
<1>2. ASSUME NEW s \in Sems
      PROVE  /\ k.blocked[s] \in Seq(Threads)
             /\ Without(k.blocked[s], W) \in Seq(Threads)
             /\ IsInjective(Without(k.blocked[s], W))
             /\ Range(Without(k.blocked[s], W)) = Range(k.blocked[s]) \ W
  <2>1. k.blocked[s] \in Seq(Threads) /\ IsInjective(k.blocked[s])
    BY KernelFields DEF ListsAgree
  <2> QED  BY <2>1, WithoutList, WithoutInjective
<1>3. ListsAgree(u)
  <2>1. Null \notin Sems
    BY ThreadsAssumption
  <2> QED  BY <1>1, <1>2, <2>1 DEF ListsAgree
<1>4. ASSUME NEW s \in Sems, u.blocked[s] # <<>>
      PROVE  /\ s \in u.active /\ u.value[s] = 0
             /\ \A t \in Range(u.blocked[s]) : u.tokensNeeded[t] > 0
  <2>1. Range(k.blocked[s]) \ W # {}
    BY <1>1, <1>2, <1>4, RangeByIndex
  <2>2. k.blocked[s] # <<>>
    BY <1>2, <2>1, RangeByIndex
  <2>3. \A t \in Range(u.blocked[s]) : t \in Threads /\ t \notin W
                                       /\ t \in Range(k.blocked[s])
    BY <1>1, <1>2, RangeByIndex
  <2> QED  BY <1>1, <2>2, <2>3 DEF Short
<1> QED  BY <1>3, <1>4 DEF Short, u

\* The sleep list may still hold threads of W that have no ticks left: this
\* is how onTick finds it.
LEMMA UnlinkSleepers ==
  ASSUME NEW k \in Kernels, NEW W,
         IsInjective(k.sleepList), InOrder(k.sleepList, k.remaining),
         Range(k.sleepList) \ W = {t \in Threads : sleeps(k, t)} \ W
  PROVE  SleepersListed(Unlink(k, W))
<1> DEFINE u == Unlink(k, W)
<1>1. /\ u.sleepList = Without(k.sleepList, W)
      /\ \A t \in Threads : u.remaining[t] = IF t \in W THEN 0 ELSE k.remaining[t]
  BY UnlinkFields
<1> HIDE DEF u
<1>2. k.sleepList \in Seq(Threads)
  BY KernelFields
<1>3. /\ Range(u.sleepList) = Range(k.sleepList) \ W
      /\ IsInjective(u.sleepList) /\ u.sleepList \in Seq(Threads)
  BY <1>1, <1>2, WithoutList, WithoutInjective
<1>4. Range(u.sleepList) = {t \in Threads : sleeps(u, t)}
  BY <1>1, <1>3 DEF sleeps
<1>5. ASSUME NEW a \in DOMAIN u.sleepList, NEW b \in DOMAIN u.sleepList, a < b
      PROVE  u.remaining[u.sleepList[a]] <= u.remaining[u.sleepList[b]]
  <2>1. PICK i, j \in DOMAIN k.sleepList :
          /\ i < j
          /\ k.sleepList[i] = u.sleepList[a] /\ k.sleepList[j] = u.sleepList[b]
    BY <1>1, <1>2, <1>5, WithoutOrder
  <2>2. k.remaining[k.sleepList[i]] <= k.remaining[k.sleepList[j]]
    BY <2>1 DEF InOrder
  <2>3. u.sleepList[a] \in Range(u.sleepList) /\ u.sleepList[b] \in Range(u.sleepList)
    BY DEF Range
  <2>4. /\ u.sleepList[a] \in Threads \ W /\ u.sleepList[b] \in Threads \ W
    BY <1>2, <1>3, <2>3, RangeByIndex
  <2> QED  BY <1>1, <2>1, <2>2, <2>4
<1> QED  BY <1>3, <1>4, <1>5 DEF SleepersListed, InOrder, u

-----------------------------------------------------------------------------
\* What a routine that wakes threads leaves alone or only takes from.
Steady(k, u) ==
  /\ SameThreads(k, u)
  /\ u.active \subseteq k.active
  /\ \A t \in Threads : u.blockedAtSem[t] \in {Null, k.blockedAtSem[t]}

\* Steady is transitive.
LEMMA SteadyTwice ==
  ASSUME NEW k, NEW u, NEW w, Steady(k, u), Steady(u, w)
  PROVE  Steady(k, w)
BY DEF Steady, SameThreads

\* The threads of W can be woken: they are alive, not ready and not running.
Wakeable(k, W) ==
  /\ ListsAgree(k) /\ Short(k)
  /\ IsInjective(k.sleepList) /\ InOrder(k.sleepList, k.remaining)
  /\ Range(k.sleepList) \ W = {t \in Threads : sleeps(k, t)} \ W
  /\ ReadyCanRun(k) /\ WaitersLive(k) /\ Registered(k) /\ RunnerRuns(k)
  /\ \A t \in W : /\ t # Idle /\ t # k.running
                  /\ t \in k.created /\ t \notin k.finished
                  /\ t \notin Range(k.ready)
  /\ \A t \in k.created \ k.finished :
       t = Idle \/ t = k.running \/ t \in Range(k.ready) \/ WaitsIn(k, t) \/ t \in W

\* Threads that wait can be woken.
LEMMA WaitersWakeable ==
  ASSUME NEW k \in Kernels, Good(k), NEW W \in SUBSET Threads,
         \A t \in W : WaitsIn(k, t)
  PROVE  Wakeable(k, W)
<1>1. \A t \in W : /\ t # Idle /\ t # k.running
                   /\ t \in k.created /\ t \notin k.finished
                   /\ t \notin Range(k.ready)
  BY DEF Good, Consistent, WaitersLive, ReadyCanRun, RunnerRuns
<1>2. \A t \in k.created \ k.finished :
        t = Idle \/ t = k.running \/ t \in Range(k.ready) \/ WaitsIn(k, t) \/ t \in W
  BY DEF Good, Consistent, Placed
<1>3. /\ IsInjective(k.sleepList) /\ InOrder(k.sleepList, k.remaining)
      /\ Range(k.sleepList) \ W = {t \in Threads : sleeps(k, t)} \ W
  BY DEF Good, Consistent, SleepersListed
<1>4. /\ ListsAgree(k) /\ Short(k) /\ ReadyCanRun(k) /\ WaitersLive(k)
      /\ Registered(k) /\ RunnerRuns(k)
  BY DEF Good, Consistent
<1> QED  BY <1>1, <1>2, <1>3, <1>4 DEF Wakeable

\* Waking keeps the invariant.
LEMMA WakeKeeps ==
  ASSUME NEW k \in Kernels, NEW q \in Seq(Threads), NEW manner,
         IsInjective(q), Wakeable(k, Range(q))
  PROVE  Good(Wake(k, q, manner)) /\ Steady(k, Wake(k, q, manner))
<1> DEFINE W == Range(q)
           u == Unlink(k, W)
           w == Wake(k, q, manner)
<1>1. /\ SameThreads(k, u)
      /\ u.ready = k.ready /\ u.active = k.active /\ u.value = k.value
      /\ \A t \in Threads :
           /\ u.remaining[t] = IF t \in W THEN 0 ELSE k.remaining[t]
           /\ u.blockedAtSem[t] = IF t \in W THEN Null ELSE k.blockedAtSem[t]
  BY UnlinkFields
<1>2. /\ SameThreads(u, w)
      /\ w.ready = u.ready \o q /\ w.active = u.active /\ w.value = u.value
      /\ w.sleepList = u.sleepList /\ w.remaining = u.remaining
      /\ w.blocked = u.blocked /\ w.blockedAtSem = u.blockedAtSem
      /\ w.tokensNeeded = u.tokensNeeded
  BY WakeFields
<1>3. ListsAgree(u) /\ Short(u)
  BY UnlinkBlocked DEF Wakeable
<1>4. SleepersListed(u)
  BY UnlinkSleepers DEF Wakeable
<1>5. k.ready \in Seq(Threads) /\ W \subseteq Threads /\ k.running \in Threads
  BY KernelFields, RangeByIndex
<1> HIDE DEF u, w, W
<1>6. ListsAgree(w) /\ Short(w) /\ SleepersListed(w)
  BY <1>2, <1>3, <1>4 DEF ListsAgree, Short, SleepersListed, sleeps
<1>7. \A t \in Threads : WaitsIn(w, t) <=> WaitsIn(k, t) /\ t \notin W
  BY <1>1, <1>2 DEF WaitsIn, sleeps
<1>8. /\ w.running = k.running /\ w.created = k.created
      /\ w.finished = k.finished /\ w.opened = k.opened /\ w.active = k.active
      /\ w.ready = k.ready \o q
  BY <1>1, <1>2 DEF SameThreads
<1>9. Range(w.ready) = Range(k.ready) \cup W /\ IsInjective(w.ready)
  <2>1. IsInjective(k.ready) /\ Range(k.ready) \cap W = {}
    BY DEF Wakeable, ReadyCanRun, W
  <2> QED  BY <1>5, <1>8, <2>1, ConcatList DEF W
<1>10. ReadyCanRun(w)
  <2>1. Range(k.ready) \subseteq Threads
    BY <1>5, RangeByIndex
  <2> QED  BY <1>5, <1>7, <1>8, <1>9, <2>1 DEF Wakeable, ReadyCanRun, W
<1>11. WaitersLive(w)
  BY <1>7, <1>8 DEF Wakeable, WaitersLive
<1>12. Placed(w)
  <2>1. k.created \subseteq Threads
    BY KernelFields
  <2> QED  BY <1>7, <1>8, <1>9, <2>1 DEF Wakeable, Placed, W
<1>13. Registered(w)
  BY <1>8 DEF Wakeable, Registered
<1>14. RunnerRuns(w)
  BY <1>5, <1>7, <1>8 DEF Wakeable, RunnerRuns
<1>15. Steady(k, w)
  BY <1>1, <1>2, <1>8 DEF Steady, SameThreads
<1> QED  BY <1>6, <1>10, <1>11, <1>12, <1>13, <1>14, <1>15 DEF Good, Consistent, w

\* A change of members the invariant does not mention.
LEMMA GoodDepends ==
  ASSUME NEW k, NEW u, SameThreads(k, u), u.ready = k.ready, u.active = k.active,
         u.value = k.value, u.blocked = k.blocked, u.sleepList = k.sleepList,
         u.remaining = k.remaining, u.blockedAtSem = k.blockedAtSem,
         u.tokensNeeded = k.tokensNeeded
  PROVE  /\ Good(k) => Good(u)
         /\ Steady(k, u)
BY DEF SameThreads, Good, Consistent, ListsAgree, Short, SleepersListed,
       ReadyCanRun, WaitersLive, Placed, Registered, RunnerRuns, WaitsIn, sleeps, Steady

-----------------------------------------------------------------------------
\* Setting a value nobody waits for, or to zero.
LEMMA ValueKeeps ==
  ASSUME NEW k \in Kernels, Good(k), NEW s \in Sems, NEW v,
         k.blocked[s] = <<>> \/ v = 0
  PROVE  LET u == [k EXCEPT !.value[s] = v] IN Good(u) /\ Steady(k, u)
<1> DEFINE u == [k EXCEPT !.value[s] = v]
<1>1. /\ SameThreads(k, u) /\ u.ready = k.ready /\ u.active = k.active
      /\ u.blocked = k.blocked /\ u.sleepList = k.sleepList
      /\ u.remaining = k.remaining /\ u.blockedAtSem = k.blockedAtSem
      /\ u.tokensNeeded = k.tokensNeeded
      /\ \A x \in Sems : u.value[x] = IF x = s THEN v ELSE k.value[x]
  BY DEF Kernels, SameThreads
<1> HIDE DEF u
<1>2. Short(u)
  BY <1>1 DEF Good, Consistent, Short
<1>3. Good(u) /\ Steady(k, u)
  BY <1>1, <1>2
     DEF SameThreads, Good, Consistent, ListsAgree, SleepersListed, ReadyCanRun,
         WaitersLive, Placed, Registered, RunnerRuns, WaitsIn, sleeps, Steady
<1> QED  BY <1>3 DEF u

\* One more or one token less for a waiter, as long as it needs some.
LEMMA NeedKeeps ==
  ASSUME NEW k \in Kernels, Good(k), NEW t \in Threads, NEW n \in Nat, n > 0
  PROVE  LET u == [k EXCEPT !.tokensNeeded[t] = n] IN Good(u) /\ Steady(k, u)
<1> DEFINE u == [k EXCEPT !.tokensNeeded[t] = n]
<1>1. /\ SameThreads(k, u) /\ u.ready = k.ready /\ u.active = k.active
      /\ u.blocked = k.blocked /\ u.sleepList = k.sleepList
      /\ u.remaining = k.remaining /\ u.blockedAtSem = k.blockedAtSem
      /\ u.value = k.value
      /\ \A x \in Threads : u.tokensNeeded[x] = IF x = t THEN n ELSE k.tokensNeeded[x]
  BY DEF Kernels, SameThreads
<1> HIDE DEF u
<1>2. \A s \in Sems : Range(k.blocked[s]) \subseteq Threads
  BY KernelFields, RangeByIndex
<1>3. Short(u)
  BY <1>1, <1>2 DEF Good, Consistent, Short
<1>4. Good(u) /\ Steady(k, u)
  BY <1>1, <1>3
     DEF SameThreads, Good, Consistent, ListsAgree, SleepersListed, ReadyCanRun,
         WaitersLive, Placed, Registered, RunnerRuns, WaitsIn, sleeps, Steady
<1> QED  BY <1>4 DEF u

\* kSemaphore::signal: the token is kept, or given to the first waiter, who is
\* woken only when it lacks no more.
LEMMA SignalKeeps ==
  ASSUME NEW k \in Kernels, Good(k), NEW s
  PROVE  Good(Signal(k, s)) /\ Steady(k, Signal(k, s))
<1>0. s \in k.active => s \in Sems
  BY KernelFields
<1>1. CASE s \notin k.active
  BY <1>1, GoodDepends DEF Signal, SameThreads
<1>2. CASE s \in k.active /\ k.blocked[s] = <<>>
  <2>1. LET u == [k EXCEPT !.value[s] = k.value[s] + 1] IN Good(u) /\ Steady(k, u)
    BY <1>0, <1>2, ValueKeeps
  <2> QED  BY <1>2, <2>1 DEF Signal
<1>3. CASE s \in k.active /\ k.blocked[s] # <<>>
  <2> DEFINE first == Head(k.blocked[s])
             q == <<first>>
  <2>1. /\ k.blocked[s] \in Seq(Threads) /\ first \in Threads
        /\ first \in Range(k.blocked[s])
    BY <1>0, <1>3, KernelFields, HeadTailList
  <2>2. WaitsIn(k, first)
    <3>1. k.blockedAtSem[first] = s /\ s # Null
      BY <1>0, <1>3, <2>1, ThreadsAssumption DEF Good, Consistent, ListsAgree
    <3> QED  BY <3>1 DEF WaitsIn
  <2>3. q \in Seq(Threads) /\ Range(q) = {first} /\ IsInjective(q)
    BY <2>1, SingleList
  <2>4. Wakeable(k, Range(q))
    BY <2>1, <2>2, <2>3, WaitersWakeable
  <2>5. Good(Wake(k, q, "REGULAR")) /\ Steady(k, Wake(k, q, "REGULAR"))
    BY <2>3, <2>4, WakeKeeps
  <2>6. ASSUME ~(k.tokensNeeded[first] <= 1)
        PROVE  LET u == [k EXCEPT !.tokensNeeded[first] = k.tokensNeeded[first] - 1]
               IN  Good(u) /\ Steady(k, u)
    <3>1. k.tokensNeeded[first] \in Nat
      BY <2>1, KernelFields
    <3>2. k.tokensNeeded[first] - 1 \in Nat /\ k.tokensNeeded[first] - 1 > 0
      BY <2>6, <3>1
    <3> QED  BY <2>1, <3>2, NeedKeeps
  <2> HIDE DEF first
  <2> QED  BY <1>3, <2>5, <2>6 DEF Signal, first
<1> QED  BY <1>1, <1>2, <1>3

\* kSemaphore::signalAll wakes every waiter and leaves none.
LEMMA SignalAllKeeps ==
  ASSUME NEW k \in Kernels, Good(k), NEW s, NEW manner \in UnblockManners
  PROVE  LET u == SignalAll(k, s, manner)
         IN  Good(u) /\ Steady(k, u) /\ (s \in Sems => u.blocked[s] = <<>>)
<1>0. s \in k.active => s \in Sems
  BY KernelFields
<1>1. CASE s \notin k.active
  <2>1. SignalAll(k, s, manner) = k
    BY <1>1 DEF SignalAll
  <2>2. s \in Sems => k.blocked[s] = <<>>
    BY <1>1 DEF Good, Consistent, Short
  <2> QED  BY <2>1, <2>2, GoodDepends DEF SameThreads
<1>2. CASE s \in k.active
  <2> DEFINE q == k.blocked[s]
             w == Wake(k, q, manner)
             u == [w EXCEPT !.value[s] = 0]
  <2>1. q \in Seq(Threads) /\ IsInjective(q) /\ Range(q) \in SUBSET Threads
    BY <1>0, <1>2, KernelFields, RangeByIndex DEF Good, Consistent, ListsAgree
  <2>2. \A t \in Range(q) : WaitsIn(k, t)
    BY <1>0, <1>2, <2>1, ThreadsAssumption DEF Good, Consistent, ListsAgree, WaitsIn
  <2>3. Wakeable(k, Range(q))
    BY <2>1, <2>2, WaitersWakeable
  <2>4. w \in Kernels /\ Good(w) /\ Steady(k, w)
    BY <2>1, <2>3, WakeKeeps, WakeType
  <2>5. w.blocked[s] = <<>>
    <3>1. w.blocked[s] = Without(q, Range(q))
      BY <1>0, <1>2, UnlinkFields, WakeFields
    <3>2. Without(q, Range(q)) \in Seq(Threads) /\ Range(Without(q, Range(q))) = {}
      BY <2>1, WithoutList
    <3> QED  BY <3>1, <3>2, RangeByIndex
  <2> HIDE DEF w, q
  <2>6. Good(u) /\ Steady(w, u)
    BY <1>0, <1>2, <2>4, ValueKeeps
  <2>7. u.blocked = w.blocked
    BY <2>4 DEF Kernels
  <2>8. SignalAll(k, s, manner) = u
    BY <1>2 DEF SignalAll, w, q
  <2> HIDE DEF u
  <2>9. Steady(k, u)
    BY <2>4, <2>6, SteadyTwice
  <2> QED  BY <2>5, <2>6, <2>7, <2>8, <2>9
<1> QED  BY <1>1, <1>2

\* kSemaphore::close: nobody is left to wait at a semaphore that is not active.
LEMMA CloseKeeps ==
  ASSUME NEW k \in Kernels, Good(k), NEW s \in Sems
  PROVE  Good(Close(k, s)) /\ Steady(k, Close(k, s))
<1> DEFINE a == SignalAll(k, s, "ON_CLOSE")
           u == [a EXCEPT !.active = @ \ {s}]
<1>1. a \in Kernels /\ Good(a) /\ Steady(k, a) /\ a.blocked[s] = <<>>
  BY SignalAllType, SignalAllKeeps DEF UnblockManners
<1> HIDE DEF a
<1>2. /\ SameThreads(a, u) /\ u.ready = a.ready /\ u.value = a.value
      /\ u.blocked = a.blocked /\ u.sleepList = a.sleepList
      /\ u.remaining = a.remaining /\ u.blockedAtSem = a.blockedAtSem
      /\ u.tokensNeeded = a.tokensNeeded
      /\ u.active = a.active \ {s}
  BY <1>1 DEF Kernels, SameThreads
<1>3. u = Close(k, s)
  BY DEF Close, a
<1> HIDE DEF u
<1>4. Short(u)
  BY <1>1, <1>2 DEF Good, Consistent, Short
<1>5. Good(u) /\ Steady(a, u)
  BY <1>1, <1>2, <1>4
     DEF SameThreads, Good, Consistent, ListsAgree, SleepersListed, ReadyCanRun,
         WaitersLive, Placed, Registered, RunnerRuns, WaitsIn, sleeps, Steady
<1> QED  BY <1>1, <1>3, <1>5, SteadyTwice

\* The end of a child signals its parent's joinAll.
LEMMA LeaveParentKeeps ==
  ASSUME NEW k \in Kernels, Good(k)
  PROVE  Good(LeaveParent(k)) /\ Steady(k, LeaveParent(k))
<1> DEFINE p == k.parent[k.running]
           counted == [k EXCEPT !.numOfActiveChildren[p] = CountDown(@)]
<1>1. Good(k) /\ Steady(k, k)
  BY GoodDepends DEF SameThreads
<1>2. CASE p = Null \/ p \in k.finished
  BY <1>1, <1>2 DEF LeaveParent
<1>3. CASE ~(p = Null \/ p \in k.finished)
  <2>1. p \in Threads
    BY <1>3 DEF Kernels
  <2>2. k.numOfActiveChildren[p] \in 0 .. CountMod - 1
    BY <2>1 DEF Kernels
  <2>3. counted \in Kernels
    BY <2>1, <2>2, CountType DEF Kernels
  <2>4. Good(counted) /\ Steady(k, counted)
    <3>1. /\ SameThreads(k, counted) /\ counted.ready = k.ready
          /\ counted.active = k.active /\ counted.value = k.value
          /\ counted.blocked = k.blocked /\ counted.sleepList = k.sleepList
          /\ counted.remaining = k.remaining
          /\ counted.blockedAtSem = k.blockedAtSem
          /\ counted.tokensNeeded = k.tokensNeeded
      BY DEF Kernels, SameThreads
    <3> QED  BY <3>1, GoodDepends
  <2> HIDE DEF counted
  <2>5. /\ Good(Signal(counted, semJoinAll(p)))
        /\ Steady(counted, Signal(counted, semJoinAll(p)))
    BY <2>3, <2>4, SignalKeeps
  <2>6. Steady(k, Signal(counted, semJoinAll(p)))
    BY <2>4, <2>5, SteadyTwice
  <2> QED  BY <1>3, <2>4, <2>5, <2>6 DEF LeaveParent, counted
<1> QED  BY <1>2, <1>3

-----------------------------------------------------------------------------
\* Sleep::onTick wakes exactly those whose time is out, off both lists.
LEMMA OnTickKeeps ==
  ASSUME NEW k \in Kernels, Good(k)
  PROVE  Good(OnTick(k)) /\ Steady(k, OnTick(k))
<1> DEFINE due == {t \in Threads : k.remaining[t] = 1}
           ticked == [k EXCEPT !.remaining =
                        [t \in Threads |-> IF @[t] > 0 THEN @[t] - 1 ELSE 0]]
           q == Only(k.sleepList, due)
<1>1. k.remaining \in [Threads -> Nat] /\ k.sleepList \in Seq(Threads)
  BY KernelFields
<1>2. ticked \in Kernels
  <2>1. [t \in Threads |-> IF k.remaining[t] > 0 THEN k.remaining[t] - 1 ELSE 0]
          \in [Threads -> Nat]
    BY <1>1
  <2> QED  BY <2>1 DEF Kernels
<1>3. /\ SameThreads(k, ticked) /\ ticked.ready = k.ready
      /\ ticked.active = k.active /\ ticked.value = k.value
      /\ ticked.blocked = k.blocked /\ ticked.sleepList = k.sleepList
      /\ ticked.blockedAtSem = k.blockedAtSem
      /\ ticked.tokensNeeded = k.tokensNeeded
      /\ \A t \in Threads : ticked.remaining[t] =
           IF k.remaining[t] > 0 THEN k.remaining[t] - 1 ELSE 0
  BY DEF Kernels, SameThreads
<1>4. /\ IsInjective(k.sleepList) /\ InOrder(k.sleepList, k.remaining)
      /\ Range(k.sleepList) = {t \in Threads : k.remaining[t] > 0}
  BY DEF Good, Consistent, SleepersListed, sleeps
<1>5. q \in Seq(Threads) /\ Range(q) = Range(k.sleepList) \cap due /\ IsInjective(q)
  BY <1>1, <1>4, OnlyList
<1>6. Range(q) = due
  BY <1>1, <1>4, <1>5
<1> HIDE DEF ticked, q
<1>7. \A t \in Threads : ticked.remaining[t] > 0 <=> k.remaining[t] > 0 /\ t \notin due
  BY <1>1, <1>3
<1>8. \A t \in Threads : WaitsIn(k, t) <=> WaitsIn(ticked, t) \/ t \in due
  BY <1>1, <1>3, <1>7 DEF WaitsIn, sleeps
<1>9. \A t \in due : /\ t # Idle /\ t # k.running /\ t \in k.created
                     /\ t \notin k.finished /\ t \notin Range(k.ready)
  BY <1>8 DEF Good, Consistent, WaitersLive, ReadyCanRun, RunnerRuns
<1>10. InOrder(ticked.sleepList, ticked.remaining)
  <2> SUFFICES ASSUME NEW i \in DOMAIN k.sleepList, NEW j \in DOMAIN k.sleepList,
                      i < j
               PROVE  ticked.remaining[k.sleepList[i]]
                        <= ticked.remaining[k.sleepList[j]]
    BY <1>3 DEF InOrder
  <2>1. k.sleepList[i] \in Threads /\ k.sleepList[j] \in Threads
    BY <1>1, LenProperties, ElementOfSeq
  <2>2. k.remaining[k.sleepList[i]] <= k.remaining[k.sleepList[j]]
    BY <1>4 DEF InOrder
  <2>3. k.remaining[k.sleepList[i]] \in Nat /\ k.remaining[k.sleepList[j]] \in Nat
    BY <1>1, <2>1
  <2> QED  BY <1>3, <2>1, <2>2, <2>3
<1>11. Range(ticked.sleepList) \ due = {t \in Threads : sleeps(ticked, t)} \ due
  BY <1>3, <1>4, <1>7 DEF sleeps
<1>12. ListsAgree(ticked) /\ Short(ticked)
  BY <1>3 DEF Good, Consistent, ListsAgree, Short
<1>13. ReadyCanRun(ticked)
  <2>1. Range(k.ready) \subseteq Threads
    BY KernelFields, RangeByIndex
  <2> QED  BY <1>3, <1>8, <2>1 DEF Good, Consistent, ReadyCanRun, SameThreads
<1>14. WaitersLive(ticked)
  BY <1>3, <1>8 DEF Good, Consistent, WaitersLive, SameThreads
<1>15. Registered(ticked)
  BY <1>3 DEF Good, Consistent, Registered, SameThreads
<1>16. RunnerRuns(ticked)
  BY <1>3, <1>8, KernelFields DEF Good, RunnerRuns, SameThreads
<1>17. \A t \in ticked.created \ ticked.finished :
         \/ t = Idle \/ t = ticked.running \/ t \in Range(ticked.ready)
         \/ WaitsIn(ticked, t) \/ t \in due
  <2>1. k.created \subseteq Threads
    BY KernelFields
  <2> QED  BY <1>3, <1>8, <2>1 DEF Good, Consistent, Placed, SameThreads
<1>18. Wakeable(ticked, Range(q))
  <2>1. \A t \in due : /\ t # Idle /\ t # ticked.running /\ t \in ticked.created
                       /\ t \notin ticked.finished /\ t \notin Range(ticked.ready)
    BY <1>3, <1>9 DEF SameThreads
  <2>2. IsInjective(ticked.sleepList)
    BY <1>3, <1>4
  <2> HIDE DEF due
  <2> QED  BY <1>6, <1>10, <1>11, <1>12, <1>13, <1>14, <1>15, <1>16, <1>17, <2>1,
              <2>2 DEF Wakeable
<1>19. /\ Good(Wake(ticked, q, "WAIT_TIMEOUT"))
       /\ Steady(ticked, Wake(ticked, q, "WAIT_TIMEOUT"))
  BY <1>2, <1>5, <1>18, WakeKeeps
<1>20. Steady(k, ticked)
  BY <1>3 DEF Steady
<1>21. OnTick(k) = Wake(ticked, q, "WAIT_TIMEOUT")
  BY DEF OnTick, ticked, q
<1> QED  BY <1>19, <1>20, <1>21, SteadyTwice

-----------------------------------------------------------------------------
(***************************************************************************)
(* Waiting.                                                                *)
(***************************************************************************)
LEMMA AcquireKeeps ==
  ASSUME NEW k \in Kernels, Good(k), NEW s \in Sems, NEW tokens \in Nat,
         k.value[s] >= tokens
  PROVE  Good(Acquire(k, s, tokens)) /\ Steady(k, Acquire(k, s, tokens))
<1> DEFINE v == k.value[s] - tokens
           u == [k EXCEPT !.value[s] = v]
           w == Acquire(k, s, tokens)
<1>1. k.value[s] \in Nat
  BY KernelFields
<1>2. k.blocked[s] = <<>> \/ v = 0
  <2>1. k.blocked[s] # <<>> => k.value[s] = 0
    BY DEF Good, Consistent, Short
  <2> QED  BY <1>1, <2>1
<1>3. Good(u) /\ Steady(k, u)
  BY <1>2, ValueKeeps
<1>4. /\ SameThreads(u, w) /\ w.ready = u.ready /\ w.active = u.active
      /\ w.value = u.value /\ w.blocked = u.blocked /\ w.sleepList = u.sleepList
      /\ w.remaining = u.remaining /\ w.blockedAtSem = u.blockedAtSem
      /\ w.tokensNeeded = u.tokensNeeded
  BY DEF Acquire, Kernels, SameThreads
<1> HIDE DEF u, w
<1>5. Good(w) /\ Steady(u, w)
  BY <1>3, <1>4, GoodDepends
<1> QED  BY <1>3, <1>5, SteadyTwice DEF w

\* kSemaphore::timedWait with no time takes the tokens and blocks nobody.
LEMMA BlockForNoTimeKeeps ==
  ASSUME NEW k \in Kernels, Good(k), NEW s \in Sems
  PROVE  Good(BlockForNoTime(k, s)) /\ Steady(k, BlockForNoTime(k, s))
<1> DEFINE u == [k EXCEPT !.value[s] = 0]
           w == BlockForNoTime(k, s)
<1>1. Good(u) /\ Steady(k, u)
  BY ValueKeeps
<1>2. /\ SameThreads(u, w) /\ w.ready = u.ready /\ w.active = u.active
      /\ w.value = u.value /\ w.blocked = u.blocked /\ w.sleepList = u.sleepList
      /\ w.remaining = u.remaining /\ w.blockedAtSem = u.blockedAtSem
      /\ \A t \in Threads : t # u.running => w.tokensNeeded[t] = u.tokensNeeded[t]
  BY DEF BlockForNoTime, Kernels, SameThreads
<1>3. /\ u.running \in Threads /\ u.blocked \in [Sems -> Seq(Threads)]
  BY KernelFields
<1> HIDE DEF u, w
<1>4. \A x \in Sems : u.running \notin Range(u.blocked[x])
  BY <1>1, <1>3, ThreadsAssumption
     DEF Good, Consistent, ListsAgree, RunnerRuns, WaitsIn
<1>5. \A x \in Sems : Range(u.blocked[x]) \subseteq Threads
  BY <1>3, RangeByIndex
<1>6. Short(w)
  <2> SUFFICES ASSUME NEW x \in Sems, w.blocked[x] # <<>>
               PROVE  /\ x \in w.active /\ w.value[x] = 0
                      /\ \A t \in Range(w.blocked[x]) : w.tokensNeeded[t] > 0
    BY DEF Short
  <2>1. /\ x \in u.active /\ u.value[x] = 0
        /\ \A t \in Range(u.blocked[x]) : u.tokensNeeded[t] > 0
    BY <1>1, <1>2 DEF Good, Consistent, Short
  <2> QED  BY <1>2, <1>4, <1>5, <2>1
<1>7. Good(w) /\ Steady(u, w)
  BY <1>1, <1>2, <1>6
     DEF SameThreads, Good, Consistent, ListsAgree, SleepersListed, ReadyCanRun,
         WaitersLive, Placed, Registered, RunnerRuns, WaitsIn, sleeps, Steady
<1> QED  BY <1>1, <1>7, SteadyTwice DEF w

\* The running thread joins the list of a semaphore that lacks tokens.
LEMMA BlockKeeps ==
  ASSUME NEW k \in Kernels, Good(k), k.running # Idle,
         NEW s \in k.active, NEW tokens \in Nat, k.value[s] < tokens
  PROVE  LET u == Block(k, s, tokens)
         IN  /\ Consistent(u) /\ SameThreads(k, u) /\ u.active = k.active
             /\ u.ready = k.ready /\ u.remaining = k.remaining
             /\ \A t \in Threads :
                  u.blockedAtSem[t] = IF t = k.running THEN s ELSE k.blockedAtSem[t]
<1> DEFINE r == k.running
           u == Block(k, s, tokens)
           n == tokens - k.value[s]
<1>1. /\ r \in Threads /\ s \in Sems /\ k.value[s] \in Nat
      /\ k.blocked \in [Sems -> Seq(Threads)] /\ k.blocked[s] \in Seq(Threads)
  BY KernelFields
<1>2. n \in Nat /\ n > 0
  BY <1>1
<1>3. /\ SameThreads(k, u) /\ u.active = k.active /\ u.ready = k.ready
      /\ u.sleepList = k.sleepList /\ u.remaining = k.remaining
      /\ \A x \in Sems : u.value[x] = IF x = s THEN 0 ELSE k.value[x]
      /\ \A x \in Sems : u.blocked[x] =
           IF x = s THEN Append(k.blocked[s], r) ELSE k.blocked[x]
      /\ \A t \in Threads :
           /\ u.blockedAtSem[t] = IF t = r THEN s ELSE k.blockedAtSem[t]
           /\ u.tokensNeeded[t] = IF t = r THEN n ELSE k.tokensNeeded[t]
  BY <1>1 DEF Block, Kernels, SameThreads
<1>4. /\ k.blockedAtSem[r] = Null /\ ~sleeps(k, r) /\ r \notin k.finished
  BY DEF Good, RunnerRuns, WaitsIn
<1>5. \A x \in Sems : r \notin Range(k.blocked[x])
  BY <1>1, <1>4, ThreadsAssumption DEF Good, Consistent, ListsAgree
<1>6. /\ Range(Append(k.blocked[s], r)) = Range(k.blocked[s]) \cup {r}
      /\ IsInjective(k.blocked[s]) => IsInjective(Append(k.blocked[s], r))
  BY <1>1, <1>5, AppendList
<1> HIDE DEF u, n, r
<1>7. ListsAgree(u)
  <2>1. \A x \in Sems : IsInjective(u.blocked[x])
    BY <1>1, <1>3, <1>6 DEF Good, Consistent, ListsAgree
  <2>2. ASSUME NEW x \in Sems, NEW t \in Threads
        PROVE  t \in Range(u.blocked[x]) <=> u.blockedAtSem[t] = x
    <3>1. t \in Range(k.blocked[x]) <=> k.blockedAtSem[t] = x
      BY DEF Good, Consistent, ListsAgree
    <3> QED  BY <1>3, <1>4, <1>5, <1>6, <3>1, ThreadsAssumption
  <2> QED  BY <2>1, <2>2 DEF ListsAgree
<1>8. Short(u)
  <2> SUFFICES ASSUME NEW x \in Sems, u.blocked[x] # <<>>
               PROVE  /\ x \in u.active /\ u.value[x] = 0
                      /\ \A t \in Range(u.blocked[x]) : u.tokensNeeded[t] > 0
    BY DEF Short
  <2>1. \A y \in Sems : Range(k.blocked[y]) \subseteq Threads
    BY <1>1, RangeByIndex
  <2>2. \A t \in Range(k.blocked[x]) : k.tokensNeeded[t] > 0
    <3>1. k.blocked[x] = <<>> => Range(k.blocked[x]) = {}
      BY <1>1, RangeByIndex
    <3> QED  BY <3>1 DEF Good, Consistent, Short
  <2>3. CASE x = s
    <3>1. Range(u.blocked[x]) = Range(k.blocked[s]) \cup {r}
      BY <1>3, <1>6, <2>3
    <3>2. x \in u.active /\ u.value[x] = 0
      BY <1>3, <2>3
    <3>3. u.tokensNeeded[r] > 0
      BY <1>1, <1>2, <1>3
    <3>4. \A t \in Range(k.blocked[s]) : t = r \/ u.tokensNeeded[t] > 0
      BY <1>1, <1>3, <2>1, <2>2, <2>3
    <3> QED  BY <3>1, <3>2, <3>3, <3>4
  <2>4. CASE x # s
    <3>1. k.blocked[x] # <<>>
      BY <1>3, <2>4
    <3>2. x \in k.active /\ k.value[x] = 0
      BY <3>1 DEF Good, Consistent, Short
    <3> QED  BY <1>3, <1>5, <2>1, <2>2, <2>4, <3>2
  <2> QED  BY <2>3, <2>4
<1>9. SleepersListed(u)
  BY <1>3 DEF Good, Consistent, SleepersListed, sleeps
<1>10. \A t \in Threads : WaitsIn(u, t) <=> WaitsIn(k, t) \/ t = r
  BY <1>1, <1>3, ThreadsAssumption DEF WaitsIn, sleeps
<1>11. ReadyCanRun(u)
  <2>1. Range(k.ready) \subseteq Threads
    BY KernelFields, RangeByIndex
  <2> QED  BY <1>3, <1>10, <2>1 DEF Good, Consistent, ReadyCanRun, SameThreads, r
<1>12. WaitersLive(u)
  BY <1>3, <1>4, <1>10 DEF Good, Consistent, WaitersLive, Registered, SameThreads, r
<1>13. Placed(u)
  <2>1. k.created \subseteq Threads
    BY KernelFields
  <2> QED  BY <1>3, <1>10, <2>1 DEF Good, Consistent, Placed, SameThreads, r
<1>14. Registered(u)
  BY <1>3 DEF Good, Consistent, Registered, SameThreads
<1> QED  BY <1>3, <1>7, <1>8, <1>9, <1>11, <1>12, <1>13, <1>14 DEF Consistent, u, r

\* Two lists in order, the second all later than the first.
LEMMA ConcatInOrder ==
  ASSUME NEW S, NEW q \in Seq(S), NEW r \in Seq(S), NEW f,
         InOrder(q, f), InOrder(r, f),
         \A x \in Range(q), y \in Range(r) : f[x] <= f[y]
  PROVE  InOrder(q \o r, f)
<1> DEFINE c == q \o r  m == Len(q)  n == Len(r)
<1>1. /\ m \in Nat /\ n \in Nat
      /\ DOMAIN q = 1 .. m /\ DOMAIN r = 1 .. n
  BY LenProperties
<1>2. /\ DOMAIN c = 1 .. m + n
      /\ \A i \in 1 .. m + n : c[i] = IF i <= m THEN q[i] ELSE r[i - m]
  BY ConcatProperties, LenProperties
<1> HIDE DEF c, m, n
<1>3. ASSUME NEW i \in DOMAIN c, NEW j \in DOMAIN c, i < j
      PROVE  f[c[i]] <= f[c[j]]
  <2>1. CASE j <= m
    <3>1. i \in DOMAIN q /\ j \in DOMAIN q /\ c[i] = q[i] /\ c[j] = q[j]
      BY <1>1, <1>2, <1>3, <2>1
    <3> QED  BY <1>3, <3>1 DEF InOrder
  <2>2. CASE ~(i <= m)
    <3>1. /\ i - m \in DOMAIN r /\ j - m \in DOMAIN r /\ i - m < j - m
          /\ c[i] = r[i - m] /\ c[j] = r[j - m]
      BY <1>1, <1>2, <1>3, <2>2
    <3> QED  BY <3>1 DEF InOrder
  <2>3. CASE i <= m /\ ~(j <= m)
    <3>1. i \in DOMAIN q /\ j - m \in DOMAIN r /\ c[i] = q[i] /\ c[j] = r[j - m]
      BY <1>1, <1>2, <1>3, <2>3
    <3>2. c[i] \in Range(q) /\ c[j] \in Range(r)
      BY <3>1 DEF Range
    <3> QED  BY <3>2
  <2> QED  BY <2>1, <2>2, <2>3
<1> QED  BY <1>3 DEF InOrder, c

\* Unlinking leaves the sleepers in the order they wake.
LEMMA WithoutInOrder ==
  ASSUME NEW S, NEW q \in Seq(S), NEW W, NEW remaining, InOrder(q, remaining)
  PROVE  InOrder(Without(q, W), remaining)
<1> DEFINE w == Without(q, W)
<1>1. \A a, b \in DOMAIN w : a < b =>
        \E i, j \in DOMAIN q : i < j /\ q[i] = w[a] /\ q[j] = w[b]
  BY WithoutOrder
<1> HIDE DEF w
<1>2. InOrder(w, remaining)
  BY <1>1 DEF InOrder
<1> QED  BY <1>2 DEF w


\* The running thread joins the sleep list; it may be blocked already.
LEMMA SleepPutKeeps ==
  ASSUME NEW k \in Kernels, Consistent(k),
         k.running # Idle, k.running \notin k.finished, ~sleeps(k, k.running),
         NEW timeout \in Nat, timeout > 0
  PROVE  LET u == SleepPut(k, k.running, timeout)
         IN  /\ Consistent(u) /\ SameThreads(k, u) /\ u.active = k.active
             /\ u.blockedAtSem = k.blockedAtSem /\ WaitsIn(u, k.running)
<1> DEFINE r == k.running
           E == {t \in Threads : sleeps(k, t) /\ k.remaining[t] <= timeout}
           q == k.sleepList
           front == Only(q, E)
           back == Without(q, E)
           list == front \o <<r>> \o back
           u == SleepPut(k, r, timeout)
<1>1. r \in Threads /\ q \in Seq(Threads) /\ k.remaining \in [Threads -> Nat]
  BY KernelFields
<1>2. /\ SameThreads(k, u) /\ u.active = k.active /\ u.ready = k.ready
      /\ u.value = k.value /\ u.blocked = k.blocked
      /\ u.blockedAtSem = k.blockedAtSem /\ u.tokensNeeded = k.tokensNeeded
      /\ u.sleepList = list
      /\ \A t \in Threads : u.remaining[t] = IF t = r THEN timeout ELSE k.remaining[t]
  <2> HIDE DEF list
  <2>1. LET w == [k EXCEPT !.sleepList = list, !.remaining[r] = timeout]
        IN  /\ SameThreads(k, w) /\ w.active = k.active /\ w.ready = k.ready
            /\ w.value = k.value /\ w.blocked = k.blocked
            /\ w.blockedAtSem = k.blockedAtSem /\ w.tokensNeeded = k.tokensNeeded
            /\ w.sleepList = list
            /\ \A t \in Threads :
                 w.remaining[t] = IF t = r THEN timeout ELSE k.remaining[t]
    BY <1>1 DEF Kernels, SameThreads
  <2> QED  BY <2>1 DEF SleepPut, list
<1>3. /\ IsInjective(q) /\ Range(q) = {t \in Threads : sleeps(k, t)}
      /\ InOrder(q, k.remaining)
  BY DEF Consistent, SleepersListed
<1>4. /\ front \in Seq(Threads) /\ IsInjective(front) /\ Range(front) = Range(q) \cap E
      /\ back \in Seq(Threads) /\ IsInjective(back) /\ Range(back) = Range(q) \ E
  BY <1>1, <1>3, OnlyList, WithoutList, WithoutInjective
<1>5. r \notin Range(q)
  BY <1>3
<1>6. <<r>> \in Seq(Threads) /\ Range(<<r>>) = {r} /\ IsInjective(<<r>>)
  BY <1>1, SingleList
<1> DEFINE first == front \o <<r>>
<1>7. /\ first \in Seq(Threads) /\ Range(first) = Range(front) \cup {r}
      /\ IsInjective(first)
  <2>1. Range(front) \cap Range(<<r>>) = {}
    BY <1>4, <1>5, <1>6
  <2> HIDE DEF front
  <2>2. /\ front \o <<r>> \in Seq(Threads)
        /\ Range(front \o <<r>>) = Range(front) \cup Range(<<r>>)
        /\ IsInjective(front) /\ IsInjective(<<r>>)
           /\ Range(front) \cap Range(<<r>>) = {} => IsInjective(front \o <<r>>)
    BY <1>4, <1>6, ConcatList
  <2> QED  BY <1>4, <1>6, <2>1, <2>2
<1>8. /\ list \in Seq(Threads) /\ Range(list) = Range(q) \cup {r}
      /\ IsInjective(list)
  <2>1. Range(first) \cap Range(back) = {}
    BY <1>4, <1>5, <1>7
  <2> HIDE DEF first, back
  <2>2. /\ first \o back \in Seq(Threads)
        /\ Range(first \o back) = Range(first) \cup Range(back)
        /\ IsInjective(first) /\ IsInjective(back)
           /\ Range(first) \cap Range(back) = {} => IsInjective(first \o back)
    BY <1>4, <1>7, ConcatList
  <2>3. list = first \o back
    BY DEF first, back
  <2> HIDE DEF list
  <2> QED  BY <1>4, <1>7, <2>1, <2>2, <2>3
<1>9. \A i, j \in DOMAIN front :
        i < j => u.remaining[front[i]] <= u.remaining[front[j]]
  <2> SUFFICES ASSUME NEW i \in DOMAIN front, NEW j \in DOMAIN front, i < j
               PROVE  u.remaining[front[i]] <= u.remaining[front[j]]
    OBVIOUS
  <2>1. InOrder(front, k.remaining)
    BY <1>1, <1>3, WithoutInOrder DEF Only
  <2>2. k.remaining[front[i]] <= k.remaining[front[j]]
    BY <2>1 DEF InOrder
  <2>3. front[i] \in Range(front) /\ front[j] \in Range(front)
    BY DEF Range
  <2>4. front[i] \in Threads \ {r} /\ front[j] \in Threads \ {r}
    BY <1>3, <1>4, <1>5, <2>3
  <2> QED  BY <1>2, <2>1, <2>2, <2>4
<1>10. \A i, j \in DOMAIN back :
         i < j => u.remaining[back[i]] <= u.remaining[back[j]]
  <2> SUFFICES ASSUME NEW i \in DOMAIN back, NEW j \in DOMAIN back, i < j
               PROVE  u.remaining[back[i]] <= u.remaining[back[j]]
    OBVIOUS
  <2>1. InOrder(back, k.remaining)
    BY <1>1, <1>3, WithoutInOrder
  <2>2. k.remaining[back[i]] <= k.remaining[back[j]]
    BY <2>1 DEF InOrder
  <2>3. back[i] \in Range(back) /\ back[j] \in Range(back)
    BY DEF Range
  <2>4. back[i] \in Threads \ {r} /\ back[j] \in Threads \ {r}
    BY <1>3, <1>4, <1>5, <2>3
  <2> QED  BY <1>2, <2>1, <2>2, <2>4
<1>11. \A t \in Range(front) : u.remaining[t] <= timeout
  BY <1>2, <1>3, <1>4, <1>5
<1>12. u.remaining[r] = timeout
  BY <1>1, <1>2
<1>13. \A t \in Range(back) : timeout <= u.remaining[t]
  <2>1. ASSUME NEW t \in Range(back)  PROVE t \in Threads \ {r} /\ t \notin E
    BY <1>3, <1>4, <1>5, <2>1
  <2>2. ASSUME NEW t \in Range(back)  PROVE ~(k.remaining[t] <= timeout)
    BY <1>3, <1>4, <2>1
  <2>3. ASSUME NEW t \in Range(back)  PROVE k.remaining[t] \in Nat
    BY <1>1, <2>1
  <2> HIDE DEF back, E
  <2> QED  BY <1>2, <2>1, <2>2, <2>3
<1>14. InOrder(list, u.remaining)
  <2>1. InOrder(front, u.remaining) /\ InOrder(back, u.remaining)
    BY <1>9, <1>10 DEF InOrder
  <2>2. InOrder(<<r>>, u.remaining)
    BY <1>1, <1>12 DEF InOrder
  <2>3. \A x \in Range(front), y \in Range(<<r>>) : u.remaining[x] <= u.remaining[y]
    BY <1>6, <1>11, <1>12
  <2> HIDE DEF front, back, u, E
  <2>4. InOrder(front \o <<r>>, u.remaining)
    BY <1>4, <1>6, <2>1, <2>2, <2>3, ConcatInOrder
  <2>5. InOrder(first, u.remaining)
    BY <2>4 DEF first
  <2>6. \A x \in Range(first), y \in Range(back) : u.remaining[x] <= u.remaining[y]
    <3>1. \A t \in Range(first) : u.remaining[t] <= timeout /\ t \in Threads
      <4>1. Range(front) \subseteq Threads
        BY <1>4, RangeByIndex
      <4>2. timeout <= timeout
        OBVIOUS
      <4> HIDE DEF first
      <4> QED  BY <1>1, <1>7, <1>11, <1>12, <4>1, <4>2
    <3>2. \A t \in Range(back) : timeout <= u.remaining[t] /\ t \in Threads
      BY <1>4, <1>13, RangeByIndex
    <3>3. \A t \in Threads : u.remaining[t] \in Nat
      BY <1>1, <1>2
    <3> HIDE DEF first
    <3> QED  BY <3>1, <3>2, <3>3
  <2> HIDE DEF first
  <2>7. InOrder(first \o back, u.remaining)
    BY <1>4, <1>7, <2>1, <2>5, <2>6, ConcatInOrder
  <2> QED  BY <2>7 DEF first, list
<1> HIDE DEF u, list, front, back, E
<1>15. \A t \in Threads : sleeps(u, t) <=> sleeps(k, t) \/ t = r
  BY <1>1, <1>2 DEF sleeps
<1>16. SleepersListed(u)
  BY <1>1, <1>2, <1>3, <1>8, <1>14, <1>15 DEF SleepersListed
<1>17. \A t \in Threads : WaitsIn(u, t) <=> WaitsIn(k, t) \/ t = r
  BY <1>2, <1>15 DEF WaitsIn
<1>18. ListsAgree(u) /\ Short(u)
  BY <1>2 DEF Consistent, ListsAgree, Short
<1>19. ReadyCanRun(u)
  <2>1. Range(k.ready) \subseteq Threads
    BY KernelFields, RangeByIndex
  <2> QED  BY <1>2, <1>17, <2>1 DEF Consistent, ReadyCanRun, SameThreads, r
<1>20. WaitersLive(u)
  BY <1>2, <1>17 DEF Consistent, WaitersLive, Registered, SameThreads, r
<1>21. Placed(u)
  <2>1. k.created \subseteq Threads
    BY KernelFields
  <2> QED  BY <1>2, <1>17, <2>1 DEF Consistent, Placed, SameThreads, r
<1>22. Registered(u)
  BY <1>2 DEF Consistent, Registered, SameThreads
<1>23. WaitsIn(u, r)
  BY <1>1, <1>17
<1> QED  BY <1>2, <1>16, <1>18, <1>19, <1>20, <1>21, <1>22, <1>23
         DEF Consistent, u, r

-----------------------------------------------------------------------------
(***************************************************************************)
(* Creation and end.                                                       *)
(***************************************************************************)
\* What any routine may change with time: threads finish, semaphores are
\* opened and closed, and nobody starts to wait.
Later(k, u) ==
  /\ k.finished \subseteq u.finished
  /\ k.opened \subseteq u.opened /\ u.active \cap k.opened \subseteq k.active
  /\ \A t \in Threads : u.blockedAtSem[t] \in {Null, k.blockedAtSem[t]}

\* Steady is the stronger relation,
LEMMA SteadyIsLater ==
  ASSUME NEW k, NEW u, Steady(k, u)
  PROVE  Later(k, u)
BY DEF Steady, Later, SameThreads

\* and composes with the weaker one.
LEMMA SteadyThenLater ==
  ASSUME NEW k, NEW u, NEW w, Steady(k, u), Later(u, w)
  PROVE  Later(k, w)
BY DEF Steady, Later, SameThreads

\* New semaphores, which nobody can be waiting for.
LEMMA OpenKeeps ==
  ASSUME NEW k \in Kernels, Good(k), NEW u \in Kernels, NEW N \in SUBSET Sems,
         NEW T \in SUBSET Threads,
         N \cap k.opened = {}, T \cap k.created = {}, Idle \notin T,
         N \subseteq UserSems \cup UNION {SemsOf(t) : t \in T},
         u.opened = k.opened \cup N, u.active = k.active \cup N,
         u.created = k.created \cup T, u.finished = k.finished,
         u.running = k.running, u.sleepList = k.sleepList,
         u.remaining = k.remaining, u.blocked = k.blocked,
         u.blockedAtSem = k.blockedAtSem, u.tokensNeeded = k.tokensNeeded,
         \A s \in Sems \ N : u.value[s] = k.value[s],
         IsInjective(u.ready), Range(u.ready) = Range(k.ready) \cup T
  PROVE  Good(u) /\ Later(k, u)
<1>1. \A s \in N : k.blocked[s] = <<>>
  BY DEF Good, Consistent, Short, Registered
<1>2. \A t \in Threads : WaitsIn(u, t) <=> WaitsIn(k, t)
  BY DEF WaitsIn, sleeps
<1>3. \A t \in T : /\ t # Idle /\ t # k.running /\ t \notin k.finished
                   /\ ~WaitsIn(k, t)
  BY DEF Good, Consistent, Registered, WaitersLive
<1>4. ListsAgree(u) /\ SleepersListed(u)
  BY DEF Good, Consistent, ListsAgree, SleepersListed, sleeps
<1>5. Short(u)
  BY <1>1 DEF Good, Consistent, Short
<1>6. ReadyCanRun(u)
  <2>1. Range(k.ready) \subseteq Threads
    BY KernelFields, RangeByIndex
  <2> QED  BY <1>2, <1>3, <2>1 DEF Good, Consistent, ReadyCanRun
<1>7. WaitersLive(u)
  BY <1>2 DEF Good, Consistent, WaitersLive
<1>8. Placed(u)
  <2>1. k.created \subseteq Threads
    BY KernelFields
  <2> QED  BY <1>2, <2>1 DEF Good, Consistent, Placed
<1>9. Registered(u)
  <2>1. u.opened \subseteq UserSems \cup UNION {SemsOf(t) : t \in u.created}
    BY DEF Good, Consistent, Registered
  <2> QED  BY <2>1 DEF Good, Consistent, Registered
<1>10. RunnerRuns(u)
  BY <1>2, KernelFields DEF Good, RunnerRuns
<1>11. Later(k, u)
  BY DEF Later
<1> QED  BY <1>4, <1>5, <1>6, <1>7, <1>8, <1>9, <1>10, <1>11 DEF Good, Consistent

\* Opening a semaphore of the program.
LEMMA SemCreateKeeps ==
  ASSUME NEW k \in Kernels, Good(k), NEW s \in UserSems \ k.opened, NEW init \in Nat
  PROVE  Good(SemCreate(k, s, init)) /\ Later(k, SemCreate(k, s, init))
<1> DEFINE u == SemCreate(k, s, init)
<1>1. s \in Sems /\ {s} \in SUBSET Sems
  BY DEF Sems
<1>2. u \in Kernels
  BY <1>1, SemCreateType
<1>3. /\ u.opened = k.opened \cup {s} /\ u.active = k.active \cup {s}
      /\ u.created = k.created \cup {} /\ u.finished = k.finished
      /\ u.running = k.running /\ u.sleepList = k.sleepList
      /\ u.remaining = k.remaining /\ u.blocked = k.blocked
      /\ u.blockedAtSem = k.blockedAtSem /\ u.tokensNeeded = k.tokensNeeded
      /\ \A x \in Sems \ {s} : u.value[x] = k.value[x]
      /\ u.ready = k.ready
  BY DEF SemCreate, Kernels
<1>4. IsInjective(u.ready) /\ Range(u.ready) = Range(k.ready) \cup {}
  BY <1>3 DEF Good, Consistent, ReadyCanRun
<1>5. {s} \cap k.opened = {} /\ {s} \subseteq UserSems \cup UNION {SemsOf(t) : t \in {}}
  OBVIOUS
<1> HIDE DEF u
<1>6. Good(u) /\ Later(k, u)
  <2> DEFINE T == {}
  <2>1. /\ T \in SUBSET Threads /\ T \cap k.created = {} /\ Idle \notin T
        /\ {s} \subseteq UserSems \cup UNION {SemsOf(t) : t \in T}
        /\ u.created = k.created \cup T /\ Range(u.ready) = Range(k.ready) \cup T
    BY <1>3, <1>4, <1>5
  <2> HIDE DEF T
  <2> QED  BY <1>1, <1>2, <1>3, <1>4, <1>5, <2>1, OpenKeeps
<1> QED  BY <1>6 DEF u

\* The semaphores of different threads are different.
LEMMA SemsOfApart ==
  ASSUME NEW t \in Threads, NEW u \in Threads, t # u
  PROVE  SemsOf(t) \cap SemsOf(u) = {} /\ SemsOf(t) \cap UserSems = {}
<1>1. SemsOf(t) \cap UserSems = {}
  BY ThreadsAssumption
<1>2. \A a, b : <<a, t>> # <<b, u>>
  OBVIOUS
<1>3. SemsOf(t) \cap SemsOf(u) = {}
  BY <1>2 DEF SemsOf, semJoin, semJoinAll, semSend, semReceive
<1> QED  BY <1>1, <1>3

\* What TCB::threadCreate changes, member by member.
LEMMA ThreadCreateFields ==
  ASSUME NEW k \in Kernels, NEW t \in Threads, t # Idle
  PROVE  LET u == ThreadCreate(k, t)
         IN  /\ u.opened = k.opened \cup SemsOf(t) /\ u.active = k.active \cup SemsOf(t)
             /\ u.created = k.created \cup {t} /\ u.finished = k.finished
             /\ u.running = k.running /\ u.sleepList = k.sleepList
             /\ u.remaining = k.remaining /\ u.blocked = k.blocked
             /\ u.blockedAtSem = k.blockedAtSem /\ u.tokensNeeded = k.tokensNeeded
             /\ \A x \in Sems \ SemsOf(t) : u.value[x] = k.value[x]
             /\ u.value[semJoin(t)] = 0
             /\ u.ready = Append(k.ready, t)
<1> DEFINE u == ThreadCreate(k, t)
           made == [k EXCEPT
                 !.created   = @ \cup {t},
                 !.parent[t] = k.running,
                 !.active    = @ \cup SemsOf(t),
                 !.opened    = @ \cup SemsOf(t),
                 !.value     = [s \in Sems |-> IF s = semSend(t) THEN 1
                                               ELSE IF s \in SemsOf(t) THEN 0
                                               ELSE @[s]],
                 !.numOfActiveChildren[k.running] = CountUp(@)]
<1>1. /\ SemsOf(t) \in SUBSET Sems /\ semSend(t) \in SemsOf(t)
      /\ semJoin(t) \in SemsOf(t) /\ semJoin(t) # semSend(t)
  BY DEF Sems, SemsOf, semJoin, semSend
<1>2. /\ made.opened = k.opened \cup SemsOf(t)
      /\ made.active = k.active \cup SemsOf(t)
      /\ made.created = k.created \cup {t} /\ made.finished = k.finished
      /\ made.running = k.running /\ made.sleepList = k.sleepList
      /\ made.remaining = k.remaining /\ made.blocked = k.blocked
      /\ made.blockedAtSem = k.blockedAtSem /\ made.tokensNeeded = k.tokensNeeded
      /\ \A x \in Sems \ SemsOf(t) : made.value[x] = k.value[x]
      /\ made.value[semJoin(t)] = 0
      /\ made.ready = k.ready
  BY <1>1 DEF Kernels
<1>3. u = SchedulerPut(made, t)
  BY DEF ThreadCreate
<1>4. u = [made EXCEPT !.ready = Append(@, t)]
  BY <1>3 DEF SchedulerPut
<1>5. u.ready = Append(made.ready, t)
  BY <1>4 DEF Kernels
<1>6. /\ u.opened = made.opened /\ u.active = made.active /\ u.created = made.created
      /\ u.finished = made.finished /\ u.running = made.running
      /\ u.sleepList = made.sleepList /\ u.remaining = made.remaining
      /\ u.blocked = made.blocked /\ u.blockedAtSem = made.blockedAtSem
      /\ u.tokensNeeded = made.tokensNeeded /\ u.value = made.value
  BY <1>4 DEF Kernels
<1> HIDE DEF u, made
<1>7. /\ u.opened = k.opened \cup SemsOf(t) /\ u.active = k.active \cup SemsOf(t)
      /\ u.created = k.created \cup {t} /\ u.finished = k.finished
      /\ u.running = k.running /\ u.sleepList = k.sleepList
      /\ u.remaining = k.remaining /\ u.blocked = k.blocked
      /\ u.blockedAtSem = k.blockedAtSem /\ u.tokensNeeded = k.tokensNeeded
      /\ \A x \in Sems \ SemsOf(t) : u.value[x] = k.value[x]
      /\ u.value[semJoin(t)] = 0
      /\ u.ready = Append(k.ready, t)
  BY <1>2, <1>5, <1>6
<1> QED  BY <1>7 DEF u

\* TCB::threadCreate: a new thread is in the ready list and nowhere else.
LEMMA ThreadCreateKeeps ==
  ASSUME NEW k \in Kernels, Good(k), NEW t \in Threads \ k.created, t # Idle
  PROVE  Good(ThreadCreate(k, t)) /\ Later(k, ThreadCreate(k, t))
<1> DEFINE u == ThreadCreate(k, t)
           N == SemsOf(t)
<1>1. N \in SUBSET Sems
  BY DEF Sems
<1>2. u \in Kernels
  BY ThreadCreateType
<1>3. /\ u.opened = k.opened \cup N /\ u.active = k.active \cup N
      /\ u.created = k.created \cup {t} /\ u.finished = k.finished
      /\ u.running = k.running /\ u.sleepList = k.sleepList
      /\ u.remaining = k.remaining /\ u.blocked = k.blocked
      /\ u.blockedAtSem = k.blockedAtSem /\ u.tokensNeeded = k.tokensNeeded
      /\ \A x \in Sems \ N : u.value[x] = k.value[x]
      /\ u.ready = Append(k.ready, t)
  BY ThreadCreateFields
<1> HIDE DEF u, N
<1>7. IsInjective(u.ready) /\ Range(u.ready) = Range(k.ready) \cup {t}
  <2>1. t \notin Range(k.ready) /\ IsInjective(k.ready) /\ k.ready \in Seq(Threads)
    BY KernelFields DEF Good, Consistent, ReadyCanRun
  <2> QED  BY <1>3, <2>1, AppendList
<1>8. N \cap k.opened = {}
  <2>1. k.created \subseteq Threads
    BY KernelFields
  <2>2. \A x \in k.created : N \cap SemsOf(x) = {}
    BY <2>1, SemsOfApart DEF N
  <2>3. N \cap UserSems = {}
    BY ThreadsAssumption DEF N
  <2> QED  BY <2>2, <2>3 DEF Good, Consistent, Registered
<1>9. N \subseteq UserSems \cup UNION {SemsOf(x) : x \in {t}}
  BY DEF N
<1>10. {t} \in SUBSET Threads /\ {t} \cap k.created = {} /\ Idle \notin {t}
  OBVIOUS
<1>11. Good(u) /\ Later(k, u)
  <2> DEFINE T == {t}
  <2>1. /\ T \in SUBSET Threads /\ T \cap k.created = {} /\ Idle \notin T
        /\ N \subseteq UserSems \cup UNION {SemsOf(x) : x \in T}
        /\ u.created = k.created \cup T /\ Range(u.ready) = Range(k.ready) \cup T
    BY <1>3, <1>7, <1>9, <1>10
  <2>2. /\ u.opened = k.opened \cup N /\ u.active = k.active \cup N
        /\ u.finished = k.finished
        /\ u.running = k.running /\ u.sleepList = k.sleepList
        /\ u.remaining = k.remaining /\ u.blocked = k.blocked
        /\ u.blockedAtSem = k.blockedAtSem /\ u.tokensNeeded = k.tokensNeeded
        /\ \A x \in Sems \ N : u.value[x] = k.value[x]
    BY <1>3
  <2> HIDE DEF T
  <2> QED  BY <1>1, <1>2, <1>7, <1>8, <2>1, <2>2, OpenKeeps
<1> QED  BY <1>11 DEF u

-----------------------------------------------------------------------------
\* The ready list when the next thread is taken from it.
YieldQueue(k, schPut) ==
  IF CanContinue(k, k.running) /\ schPut /\ k.running # Idle
  THEN Append(k.ready, k.running) ELSE k.ready

\* What TCB::yield changes, member by member.
LEMMA YieldFields ==
  ASSUME NEW k \in Kernels, NEW schPut \in BOOLEAN
  PROVE  LET u == Yield(k, schPut)
             q == YieldQueue(k, schPut)
         IN  /\ q \in Seq(Threads)
             /\ u.running = (IF q = <<>> THEN Idle ELSE Head(q))
             /\ u.ready = (IF q = <<>> THEN q ELSE Tail(q))
             /\ u.created = k.created /\ u.finished = k.finished
             /\ u.opened = k.opened /\ u.active = k.active /\ u.value = k.value
             /\ u.sleepList = k.sleepList /\ u.remaining = k.remaining
             /\ u.blocked = k.blocked /\ u.blockedAtSem = k.blockedAtSem
             /\ u.tokensNeeded = k.tokensNeeded
<1> DEFINE u == Yield(k, schPut)
           q == YieldQueue(k, schPut)
           queued == [k EXCEPT !.ready = q]
           got == SchedulerGet(queued)
<1>1. k.running \in Threads /\ k.ready \in Seq(Threads)
  BY KernelFields
<1>2. q \in Seq(Threads)
  BY <1>1 DEF YieldQueue
<1>3. queued = IF CanContinue(k, k.running) /\ schPut
               THEN SchedulerPut(k, k.running) ELSE k
  BY DEF SchedulerPut, YieldQueue, Kernels
<1>4. /\ queued.ready = q /\ queued.running = k.running
      /\ queued.created = k.created /\ queued.finished = k.finished
      /\ queued.opened = k.opened /\ queued.active = k.active
      /\ queued.value = k.value
      /\ queued.sleepList = k.sleepList /\ queued.remaining = k.remaining
      /\ queued.blocked = k.blocked /\ queued.blockedAtSem = k.blockedAtSem
      /\ queued.tokensNeeded = k.tokensNeeded
  BY DEF Kernels
<1>5. queued \in Kernels
  BY <1>1, <1>3, SchedulerPutType
<1> HIDE DEF queued, q
<1>6. /\ got.running = (IF q = <<>> THEN Idle ELSE Head(q))
      /\ got.ready = (IF q = <<>> THEN q ELSE Tail(q))
      /\ got.created = queued.created /\ got.finished = queued.finished
      /\ got.opened = queued.opened /\ got.active = queued.active
      /\ got.value = queued.value
      /\ got.sleepList = queued.sleepList /\ got.remaining = queued.remaining
      /\ got.blocked = queued.blocked /\ got.blockedAtSem = queued.blockedAtSem
      /\ got.tokensNeeded = queued.tokensNeeded
  BY <1>4, <1>5 DEF SchedulerGet, Kernels
<1>7. got \in Kernels
  BY <1>5, SchedulerGetType
<1>8. u = [got EXCEPT !.timeSliceCounter = 0]
  BY <1>3 DEF Yield
<1> HIDE DEF got, u
<1>9. /\ u.running = (IF q = <<>> THEN Idle ELSE Head(q))
      /\ u.ready = (IF q = <<>> THEN q ELSE Tail(q))
      /\ u.created = k.created /\ u.finished = k.finished
      /\ u.opened = k.opened /\ u.active = k.active /\ u.value = k.value
      /\ u.sleepList = k.sleepList /\ u.remaining = k.remaining
      /\ u.blocked = k.blocked /\ u.blockedAtSem = k.blockedAtSem
      /\ u.tokensNeeded = k.tokensNeeded
  BY <1>4, <1>6, <1>7, <1>8 DEF Kernels
<1> QED  BY <1>2, <1>9 DEF u, q

\* The processor goes to the head of the ready list, or to the idle thread.
LEMMA YieldKeeps ==
  ASSUME NEW k \in Kernels, Consistent(k), NEW schPut \in BOOLEAN,
         schPut \/ WaitsIn(k, k.running) \/ k.running \in k.finished
  PROVE  /\ Good(Yield(k, schPut)) /\ Later(k, Yield(k, schPut))
         /\ Yield(k, schPut).created = k.created
<1> DEFINE old == k.running
           put == CanContinue(k, old) /\ schPut /\ old # Idle
           q == IF put THEN Append(k.ready, old) ELSE k.ready
           u == Yield(k, schPut)
<1>1. old \in Threads /\ k.ready \in Seq(Threads)
  BY KernelFields
<1>2. /\ u.running = (IF q = <<>> THEN Idle ELSE Head(q))
      /\ u.ready = (IF q = <<>> THEN q ELSE Tail(q))
      /\ u.created = k.created /\ u.finished = k.finished
      /\ u.opened = k.opened /\ u.active = k.active /\ u.value = k.value
      /\ u.sleepList = k.sleepList /\ u.remaining = k.remaining
      /\ u.blocked = k.blocked /\ u.blockedAtSem = k.blockedAtSem
      /\ u.tokensNeeded = k.tokensNeeded
  BY YieldFields DEF YieldQueue
<1>3. /\ IsInjective(k.ready) /\ old \notin Range(k.ready)
      /\ Range(k.ready) \subseteq Threads
  BY <1>1, RangeByIndex DEF Consistent, ReadyCanRun
<1>4. /\ q \in Seq(Threads) /\ IsInjective(q)
      /\ Range(q) = IF put THEN Range(k.ready) \cup {old} ELSE Range(k.ready)
  <2> HIDE DEF put, u, old
  <2>1. CASE put
    <3>1. q = Append(k.ready, old)
      BY <2>1
    <3> HIDE DEF q
    <3>2. /\ Append(k.ready, old) \in Seq(Threads)
          /\ Range(Append(k.ready, old)) = Range(k.ready) \cup {old}
          /\ IsInjective(Append(k.ready, old))
      BY <1>1, <1>3, AppendList
    <3> QED  BY <2>1, <3>1, <3>2
  <2>2. CASE ~put
    BY <1>1, <1>3, <2>2
  <2> QED  BY <2>1, <2>2
<1>5. /\ put => old \notin k.finished /\ ~WaitsIn(k, old) /\ old # Idle
      /\ old = Idle \/ put \/ WaitsIn(k, old) \/ old \in k.finished
  BY DEF CanContinue, WaitsIn
<1> HIDE DEF put, q, u
<1>6. \A t \in Range(q) : /\ t \in Threads /\ t # Idle /\ t \in k.created
                          /\ t \notin k.finished /\ ~WaitsIn(k, t)
  BY <1>1, <1>3, <1>4, <1>5 DEF Consistent, ReadyCanRun, Registered
<1>7. /\ Range(q) = {} => u.running = Idle /\ Range(u.ready) = {} /\ IsInjective(u.ready)
      /\ Range(q) # {} => /\ u.running \in Range(q)
                          /\ Range(q) = {u.running} \cup Range(u.ready)
                          /\ u.running \notin Range(u.ready)
                          /\ IsInjective(u.ready)
  <2>1. Range(q) = {} <=> q = <<>>
    BY <1>4, RangeByIndex
  <2>2. CASE q = <<>>
    BY <1>2, <1>4, <2>1, <2>2
  <2>3. CASE q # <<>>
    BY <1>2, <1>4, <2>1, <2>3, HeadTailList
  <2> QED  BY <2>2, <2>3
<1>8. \A t \in Threads : WaitsIn(u, t) <=> WaitsIn(k, t)
  BY <1>2 DEF WaitsIn, sleeps
<1>9. ListsAgree(u) /\ Short(u) /\ SleepersListed(u)
  BY <1>2 DEF Consistent, ListsAgree, Short, SleepersListed, sleeps
<1>10. ReadyCanRun(u)
  BY <1>2, <1>6, <1>7, <1>8 DEF ReadyCanRun
<1>11. WaitersLive(u)
  BY <1>2, <1>8 DEF Consistent, WaitersLive
<1>12. Placed(u)
  <2> SUFFICES ASSUME NEW t \in k.created \ k.finished
               PROVE  \/ t = Idle \/ t = u.running \/ t \in Range(u.ready)
                      \/ WaitsIn(u, t)
    BY <1>2 DEF Placed
  <2>1. t \in Threads
    BY KernelFields
  <2>2. t = Idle \/ t = old \/ t \in Range(k.ready) \/ WaitsIn(k, t)
    BY DEF Consistent, Placed
  <2>3. t = Idle \/ t \in Range(q) \/ WaitsIn(k, t)
    BY <1>4, <1>5, <2>2
  <2> QED  BY <1>7, <1>8, <2>1, <2>3
<1>13. Registered(u)
  BY <1>2, <1>6, <1>7 DEF Consistent, Registered
<1>14. RunnerRuns(u)
  <2>1. ~WaitsIn(k, Idle) /\ Idle \in Threads
    BY ThreadsAssumption DEF Consistent, WaitersLive
  <2> QED  BY <1>2, <1>6, <1>7, <1>8, <2>1 DEF RunnerRuns
<1>15. Later(k, u)
  BY <1>2 DEF Later
<1> QED  BY <1>2, <1>9, <1>10, <1>11, <1>12, <1>13, <1>14, <1>15
         DEF Good, Consistent, u

\* The end of the running thread.
LEMMA FinishKeeps ==
  ASSUME NEW k \in Kernels, Good(k)
  PROVE  /\ Good(Finish(k)) /\ Later(k, Finish(k))
         /\ Finish(k).created = k.created
<1> DEFINE t        == k.running
           a        == Close(k, semSend(t))
           noMail   == Close(a, semReceive(t))
           told     == SignalAll(noMail, semJoin(t), "REGULAR")
           joined   == Close(told, semJoin(t))
           left     == LeaveParent(joined)
           orphaned == Close(left, semJoinAll(t))
           alone    == Unlink(orphaned, {t})
           ended    == [alone EXCEPT !.finished = @ \cup {t}]
<1>0. /\ t \in Threads /\ semSend(t) \in Sems /\ semReceive(t) \in Sems
      /\ semJoin(t) \in Sems /\ semJoinAll(t) \in Sems
  <2>1. \A x \in Threads : SemsOf(x) \subseteq Sems
    BY DEF Sems
  <2> QED  BY <2>1, KernelFields DEF SemsOf
<1>1. a \in Kernels /\ Good(a) /\ Steady(k, a)
  BY <1>0, CloseKeeps, CloseType
<1> HIDE DEF a
<1>2. noMail \in Kernels /\ Good(noMail) /\ Steady(k, noMail)
  BY <1>0, <1>1, CloseKeeps, CloseType, SteadyTwice
<1> HIDE DEF noMail
<1>3. told \in Kernels /\ Good(told) /\ Steady(k, told)
  <2>1. "REGULAR" \in UnblockManners
    BY DEF UnblockManners
  <2> QED  BY <1>0, <1>2, <2>1, SignalAllKeeps, SignalAllType, SteadyTwice
<1> HIDE DEF told
<1>4. joined \in Kernels /\ Good(joined) /\ Steady(k, joined)
  BY <1>0, <1>3, CloseKeeps, CloseType, SteadyTwice
<1> HIDE DEF joined
<1>5. left \in Kernels /\ Good(left) /\ Steady(k, left)
  BY <1>4, LeaveParentKeeps, LeaveParentType, SteadyTwice
<1> HIDE DEF left
<1>6. orphaned \in Kernels /\ Good(orphaned) /\ Steady(k, orphaned)
  BY <1>0, <1>5, CloseKeeps, CloseType, SteadyTwice
<1> HIDE DEF orphaned
<1>7. /\ alone \in Kernels /\ SameThreads(orphaned, alone)
      /\ alone.ready = orphaned.ready /\ alone.active = orphaned.active
      /\ \A x \in Threads :
           /\ alone.remaining[x] = IF x \in {t} THEN 0 ELSE orphaned.remaining[x]
           /\ alone.blockedAtSem[x] =
                IF x \in {t} THEN Null ELSE orphaned.blockedAtSem[x]
  BY <1>6, UnlinkType, UnlinkFields
<1>8. ListsAgree(alone) /\ Short(alone)
  BY <1>6, UnlinkBlocked DEF Good, Consistent
<1>9. SleepersListed(alone)
  <2>1. /\ IsInjective(orphaned.sleepList)
        /\ InOrder(orphaned.sleepList, orphaned.remaining)
        /\ Range(orphaned.sleepList) = {x \in Threads : sleeps(orphaned, x)}
    BY <1>6 DEF Good, Consistent, SleepersListed
  <2>2. Range(orphaned.sleepList) \ {t} = {x \in Threads : sleeps(orphaned, x)} \ {t}
    BY <2>1
  <2> QED  BY <1>6, <2>1, <2>2, UnlinkSleepers
<1> HIDE DEF alone
<1>10. /\ ended.running = t /\ ended.created = alone.created
       /\ ended.finished = alone.finished \cup {t} /\ ended.opened = alone.opened
       /\ ended.ready = alone.ready /\ ended.active = alone.active
       /\ ended.value = alone.value /\ ended.blocked = alone.blocked
       /\ ended.sleepList = alone.sleepList /\ ended.remaining = alone.remaining
       /\ ended.blockedAtSem = alone.blockedAtSem
       /\ ended.tokensNeeded = alone.tokensNeeded
       /\ ended \in Kernels
  <2>1. alone.running = t
    BY <1>6, <1>7 DEF Steady, SameThreads
  <2> QED  BY <1>0, <1>7, <2>1 DEF Kernels
<1>11. Finish(k) = Yield(ended, FALSE)
  BY DEF Finish, ended, alone, orphaned, left, joined, told, noMail, a
<1> HIDE DEF ended
<1>12. orphaned.running = t
  BY <1>6 DEF Steady, SameThreads
<1>13. \A x \in Threads : WaitsIn(ended, x) <=> WaitsIn(orphaned, x) /\ x # t
  BY <1>7, <1>10 DEF WaitsIn, sleeps
<1>14. ListsAgree(ended) /\ Short(ended) /\ SleepersListed(ended)
  BY <1>8, <1>9, <1>10 DEF ListsAgree, Short, SleepersListed, sleeps
<1>15. ReadyCanRun(ended)
  <2>1. Range(orphaned.ready) \subseteq Threads
    BY <1>6, KernelFields, RangeByIndex
  <2> QED  BY <1>6, <1>7, <1>10, <1>12, <1>13, <2>1
              DEF Good, Consistent, ReadyCanRun, SameThreads
<1>16. WaitersLive(ended)
  BY <1>6, <1>7, <1>10, <1>13 DEF Good, Consistent, WaitersLive, SameThreads
<1>17. Placed(ended)
  <2>1. orphaned.created \subseteq Threads
    BY <1>6, KernelFields
  <2> QED  BY <1>6, <1>7, <1>10, <1>12, <1>13, <2>1
              DEF Good, Consistent, Placed, SameThreads
<1>18. Registered(ended)
  BY <1>6, <1>7, <1>10, <1>12 DEF Good, Consistent, Registered, SameThreads
<1>19. Consistent(ended) /\ ended.running \in ended.finished
  BY <1>10, <1>14, <1>15, <1>16, <1>17, <1>18 DEF Consistent
<1>20. /\ Good(Finish(k)) /\ Later(ended, Finish(k))
       /\ Finish(k).created = ended.created
  BY <1>10, <1>11, <1>19, YieldKeeps
<1>21. Later(k, Finish(k))
  <2>1. /\ k.finished \subseteq ended.finished /\ ended.opened = k.opened
        /\ ended.active \subseteq k.active
        /\ \A x \in Threads : ended.blockedAtSem[x] \in {Null, k.blockedAtSem[x]}
    BY <1>6, <1>7, <1>10 DEF Steady, SameThreads
  <2> QED  BY <1>20, <2>1 DEF Later
<1>22. ended.created = k.created
  BY <1>6, <1>7, <1>10 DEF Steady, SameThreads
<1> QED  BY <1>20, <1>21, <1>22

-----------------------------------------------------------------------------
(***************************************************************************)
(* What the routines do to threads that wait, and what they leave alone.   *)
(***************************************************************************)
\* What every routine that changes only threads leaves alone.
SameCounts(k, m) ==
  /\ m.created = k.created /\ m.opened = k.opened /\ m.parent = k.parent
  /\ m.numOfActiveChildren = k.numOfActiveChildren /\ m.message = k.message

\* The threads of W stop waiting, and those that were blocked are told why.
Moves(k, m, W, manner) ==
  /\ SameCounts(k, m)
  /\ \A t \in Threads :
       /\ m.blockedAtSem[t] = IF t \in W THEN Null ELSE k.blockedAtSem[t]
       /\ sleeps(m, t) <=> sleeps(k, t) /\ t \notin W
       /\ m.tokensNeeded[t] = IF t \in W THEN 0 ELSE k.tokensNeeded[t]
       /\ m.unblockManner[t] = IF t \in W /\ k.blockedAtSem[t] # Null
                               THEN manner ELSE k.unblockManner[t]

\* That is what Unlink and Wake do.
LEMMA UnlinkMoves ==
  ASSUME NEW k \in Kernels, NEW W
  PROVE  LET u == Unlink(k, W)
         IN  /\ SameCounts(k, u) /\ u.active = k.active /\ u.value = k.value
             /\ u.unblockManner = k.unblockManner
             /\ \A t \in Threads :
                  /\ u.remaining[t] = IF t \in W THEN 0 ELSE k.remaining[t]
                  /\ u.blockedAtSem[t] = IF t \in W THEN Null ELSE k.blockedAtSem[t]
                  /\ u.tokensNeeded[t] = IF t \in W THEN 0 ELSE k.tokensNeeded[t]
BY DEF Unlink, Kernels, SameCounts

\* Those that are woken are told why.
LEMMA WakeMoves ==
  ASSUME NEW k \in Kernels, NEW q, NEW manner
  PROVE  LET m == Wake(k, q, manner)
         IN  /\ Moves(k, m, Range(q), manner)
             /\ m.active = k.active /\ m.value = k.value
<1> DEFINE W == Range(q)
           u == Unlink(k, W)
           told == [t \in Threads |-> IF t \in W /\ k.blockedAtSem[t] # Null
                                      THEN manner ELSE u.unblockManner[t]]
           m == [u EXCEPT !.ready = @ \o q, !.unblockManner = told]
<1>1. /\ SameCounts(k, u) /\ u.active = k.active /\ u.value = k.value
      /\ u.unblockManner = k.unblockManner
      /\ \A t \in Threads :
           /\ u.remaining[t] = IF t \in W THEN 0 ELSE k.remaining[t]
           /\ u.blockedAtSem[t] = IF t \in W THEN Null ELSE k.blockedAtSem[t]
           /\ u.tokensNeeded[t] = IF t \in W THEN 0 ELSE k.tokensNeeded[t]
      /\ u \in Kernels
  BY UnlinkMoves, UnlinkType
<1>2. Wake(k, q, manner) = m
  BY DEF Wake
<1> HIDE DEF u, W
<1>3. /\ SameCounts(u, m) /\ m.active = u.active /\ m.value = u.value
      /\ m.remaining = u.remaining /\ m.blockedAtSem = u.blockedAtSem
      /\ m.tokensNeeded = u.tokensNeeded /\ m.unblockManner = told
  <2> HIDE DEF told
  <2> QED  BY <1>1 DEF Kernels, SameCounts
<1> HIDE DEF m
<1>4. k.remaining \in [Threads -> Nat]
  BY KernelFields
<1>5. SameCounts(k, m)
  BY <1>1, <1>3 DEF SameCounts
<1>6. ASSUME NEW t \in Threads
      PROVE  /\ m.blockedAtSem[t] = IF t \in W THEN Null ELSE k.blockedAtSem[t]
             /\ sleeps(m, t) <=> sleeps(k, t) /\ t \notin W
             /\ m.tokensNeeded[t] = IF t \in W THEN 0 ELSE k.tokensNeeded[t]
             /\ m.unblockManner[t] = IF t \in W /\ k.blockedAtSem[t] # Null
                                     THEN manner ELSE k.unblockManner[t]
  BY <1>1, <1>3, <1>4 DEF sleeps
<1>7. Moves(k, m, W, manner)
  BY <1>5, <1>6 DEF Moves
<1>8. m.active = k.active /\ m.value = k.value
  BY <1>1, <1>3
<1> QED  BY <1>2, <1>7, <1>8 DEF W

\* Closing wakes all of the semaphore, and it has no tokens any more.
LEMMA SignalAllMoves ==
  ASSUME NEW k \in Kernels, Good(k), NEW s \in Sems, NEW manner \in UnblockManners
  PROVE  LET m == SignalAll(k, s, manner)
         IN  \E W : /\ Moves(k, m, W, manner) /\ m.active = k.active
                    /\ \A t \in W : t \in Threads /\ k.blockedAtSem[t] = s /\ s \in k.active
                    /\ \A x \in Sems : m.value[x] \in {k.value[x], 0}
                    /\ \A x \in Sems \ {s} : m.value[x] = k.value[x]
                    /\ \A t \in Threads : m.blockedAtSem[t] = s => s \notin k.active
<1>0. ListsAgree(k) /\ Short(k)
  BY DEF Good, Consistent
<1>1. CASE s \notin k.active
  <2>1. SignalAll(k, s, manner) = k
    BY <1>1 DEF SignalAll
  <2>2. Moves(k, k, {}, manner)
    BY DEF Moves, SameCounts
  <2> QED  BY <1>1, <2>1, <2>2
<1>2. CASE s \in k.active
  <2> DEFINE q == k.blocked[s]
             w == Wake(k, q, manner)
             m == [w EXCEPT !.value[s] = 0]
  <2>0. q \in Seq(Threads)
    BY DEF Kernels
  <2>1. /\ Moves(k, w, Range(q), manner) /\ w.active = k.active /\ w.value = k.value
        /\ w \in Kernels
    BY <2>0, WakeMoves, WakeType
  <2>2. SignalAll(k, s, manner) = m
    BY <1>2 DEF SignalAll
  <2>3. \A t \in Threads : t \in Range(q) <=> k.blockedAtSem[t] = s
    BY <1>0 DEF ListsAgree
  <2>4. Range(q) \subseteq Threads
    BY <2>0, RangeByIndex
  <2> HIDE DEF w, q
  <2>5. /\ SameCounts(w, m) /\ m.active = w.active
        /\ m.blockedAtSem = w.blockedAtSem /\ m.remaining = w.remaining
        /\ m.tokensNeeded = w.tokensNeeded /\ m.unblockManner = w.unblockManner
        /\ m.value = [w.value EXCEPT ![s] = 0]
    BY <2>1 DEF Kernels, SameCounts
  <2> HIDE DEF m
  <2>6. SameCounts(k, m)
    BY <2>1, <2>5 DEF Moves, SameCounts
  <2>7. \A t \in Threads :
          /\ m.blockedAtSem[t] = w.blockedAtSem[t] /\ (sleeps(m, t) <=> sleeps(w, t))
          /\ m.tokensNeeded[t] = w.tokensNeeded[t]
          /\ m.unblockManner[t] = w.unblockManner[t]
    BY <2>5 DEF sleeps
  <2>8. Moves(k, m, Range(q), manner)
    BY <2>1, <2>6, <2>7 DEF Moves
  <2>9. k.value \in [Sems -> Nat]
    BY KernelFields
  <2>10. \A x \in Sems : m.value[x] = IF x = s THEN 0 ELSE k.value[x]
    BY <2>1, <2>5, <2>9
  <2>11. \A t \in Range(q) : t \in Threads /\ k.blockedAtSem[t] = s /\ s \in k.active
    BY <1>2, <2>3, <2>4
  <2>12. \A t \in Threads : m.blockedAtSem[t] # s
    BY <2>3, <2>8, ThreadsAssumption DEF Moves
  <2> QED  BY <2>1, <2>2, <2>5, <2>8, <2>10, <2>11, <2>12
<1> QED  BY <1>1, <1>2

\* A signal is lost on a closed semaphore, is kept as a token or lets in a
\* waiter that needs no more than it.
LEMMA SignalMoves ==
  ASSUME NEW k \in Kernels, Good(k), NEW s \in Sems,
         \A t \in Threads : k.blockedAtSem[t] = s => k.tokensNeeded[t] = 1
  PROVE  LET m == Signal(k, s)
         IN  /\ m.active = k.active
             /\ \/ s \notin k.active /\ m = k
                \/ /\ s \in k.active /\ Moves(k, m, {}, "REGULAR")
                   /\ m.value = [k.value EXCEPT ![s] = @ + 1]
                \/ \E u \in Threads :
                     /\ s \in k.active /\ k.blockedAtSem[u] = s
                     /\ k.value[s] = 0 /\ m.value = k.value
                     /\ Moves(k, m, {u}, "REGULAR")
<1>0. ListsAgree(k) /\ Short(k) /\ k.blocked[s] \in Seq(Threads)
  BY DEF Good, Consistent, Kernels
<1>1. CASE s \notin k.active
  BY <1>1 DEF Signal
<1>2. CASE s \in k.active /\ k.blocked[s] = <<>>
  <2> DEFINE m == [k EXCEPT !.value[s] = @ + 1]
  <2>1. Signal(k, s) = m
    BY <1>2 DEF Signal
  <2>2. /\ SameCounts(k, m) /\ m.active = k.active
        /\ m.blockedAtSem = k.blockedAtSem /\ m.remaining = k.remaining
        /\ m.tokensNeeded = k.tokensNeeded /\ m.unblockManner = k.unblockManner
        /\ m.value = [k.value EXCEPT ![s] = @ + 1]
    BY DEF Kernels, SameCounts
  <2> HIDE DEF m
  <2>3. Moves(k, m, {}, "REGULAR")
    BY <2>2 DEF Moves, sleeps
  <2> QED  BY <1>2, <2>1, <2>2, <2>3
<1>3. CASE s \in k.active /\ k.blocked[s] # <<>>
  <2> DEFINE u == Head(k.blocked[s])
             m == Wake(k, <<u>>, "REGULAR")
  <2>1. u \in Threads /\ u \in Range(k.blocked[s])
    BY <1>0, <1>3, HeadTailList
  <2>2. k.blockedAtSem[u] = s /\ k.value[s] = 0
    BY <1>0, <1>3, <2>1 DEF ListsAgree, Short
  <2>3. k.tokensNeeded[u] = 1
    BY <2>1, <2>2
  <2>4. Signal(k, s) = m
    BY <1>3, <2>3 DEF Signal
  <2> HIDE DEF u
  <2>5. Range(<<u>>) = {u}
    BY <2>1, SingleList
  <2>6. Moves(k, m, {u}, "REGULAR") /\ m.active = k.active /\ m.value = k.value
    BY <2>5, WakeMoves
  <2> QED  BY <1>3, <2>1, <2>2, <2>4, <2>6
<1> QED  BY <1>1, <1>2, <1>3

\* The tick wakes those whose last it is.
LEMMA OnTickMoves ==
  ASSUME NEW k \in Kernels, Good(k)
  PROVE  LET m == OnTick(k)
         IN  /\ Moves(k, m, {t \in Threads : k.remaining[t] = 1}, "WAIT_TIMEOUT")
             /\ m.active = k.active /\ m.value = k.value
<1> DEFINE due == {t \in Threads : k.remaining[t] = 1}
           fewer == [t \in Threads |-> IF k.remaining[t] > 0 THEN k.remaining[t] - 1 ELSE 0]
           c == [k EXCEPT !.remaining = fewer]
           q == Only(k.sleepList, due)
           m == Wake(c, q, "WAIT_TIMEOUT")
<1>1. OnTick(k) = m
  BY DEF OnTick
<1>2. /\ k.remaining \in [Threads -> Nat] /\ k.sleepList \in Seq(Threads)
      /\ Range(k.sleepList) = {t \in Threads : sleeps(k, t)}
  BY KernelFields DEF Good, Consistent, SleepersListed
<1>3. fewer \in [Threads -> Nat]
  BY <1>2
<1>4. due \subseteq {t \in Threads : sleeps(k, t)}
  BY DEF sleeps
<1>5. Range(q) = due /\ q \in Seq(Threads)
  <2> HIDE DEF due
  <2>1. Range(q) = Range(k.sleepList) \cap due /\ q \in Seq(Threads)
    BY <1>2, OnlyList
  <2> QED  BY <1>2, <1>4, <2>1
<1>6. \A t \in Threads : fewer[t] > 0 <=> k.remaining[t] > 0 /\ t \notin due
  BY <1>2
<1> HIDE DEF fewer, due, q
<1>7. /\ c \in Kernels /\ SameCounts(k, c) /\ c.active = k.active /\ c.value = k.value
      /\ c.remaining = fewer /\ c.blockedAtSem = k.blockedAtSem
      /\ c.tokensNeeded = k.tokensNeeded /\ c.unblockManner = k.unblockManner
  BY <1>3 DEF Kernels, SameCounts
<1> HIDE DEF c
<1>8. Moves(c, m, due, "WAIT_TIMEOUT") /\ m.active = c.active /\ m.value = c.value
  BY <1>5, <1>7, WakeMoves
<1> HIDE DEF m
<1>9. SameCounts(k, m)
  BY <1>7, <1>8 DEF Moves, SameCounts
<1>10. \A t \in Threads : sleeps(m, t) <=> sleeps(k, t) /\ t \notin due
  BY <1>6, <1>7, <1>8 DEF Moves, sleeps
<1>11. Moves(k, m, due, "WAIT_TIMEOUT")
  BY <1>7, <1>8, <1>9, <1>10 DEF Moves
<1> QED  BY <1>1, <1>7, <1>8, <1>11 DEF due

\* Everything but who runs and who is ready.
SameStory(k, m) ==
  /\ SameCounts(k, m) /\ m.active = k.active /\ m.value = k.value
  /\ m.blockedAtSem = k.blockedAtSem /\ m.remaining = k.remaining
  /\ m.tokensNeeded = k.tokensNeeded /\ m.unblockManner = k.unblockManner

\* TCB::yield changes none of that.
LEMMA YieldStory ==
  ASSUME NEW k \in Kernels, NEW schPut
  PROVE  SameStory(k, Yield(k, schPut))
BY DEF Yield, SchedulerPut, SchedulerGet, Kernels, SameStory, SameCounts

-----------------------------------------------------------------------------
\* The semaphores of threads are semaphores.
LEMMA SemFrames ==
  /\ \A t \in Threads : SemsOf(t) \subseteq Sems
  /\ \A t \in Threads : /\ semJoin(t) \in Sems /\ semJoinAll(t) \in Sems
                        /\ semSend(t) \in Sems /\ semReceive(t) \in Sems
  /\ UserSems \subseteq Sems
<1>1. \A t \in Threads : SemsOf(t) \subseteq Sems
  BY DEF Sems
<1>2. \A t : /\ semJoin(t) \in SemsOf(t) /\ semJoinAll(t) \in SemsOf(t)
             /\ semSend(t) \in SemsOf(t) /\ semReceive(t) \in SemsOf(t)
  BY DEF SemsOf
<1> QED  BY <1>1, <1>2 DEF Sems

\* The semaphores of the threads and of the program are all different.
LEMMA SemsApart ==
  ASSUME NEW t \in Threads, NEW u \in Threads
  PROVE  /\ semJoin(t) = semJoin(u) => t = u
         /\ semJoinAll(t) = semJoinAll(u) => t = u
         /\ semSend(t) = semSend(u) => t = u
         /\ semReceive(t) = semReceive(u) => t = u
         /\ semJoin(t) \notin {semJoinAll(u), semSend(u), semReceive(u)}
         /\ semJoinAll(t) \notin {semSend(u), semReceive(u)}
         /\ semSend(t) # semReceive(u)
         /\ {semJoin(t), semJoinAll(t), semSend(t), semReceive(t)} \cap UserSems = {}
         /\ {semJoin(t), semJoinAll(t), semSend(t), semReceive(t)} \subseteq Sems
<1>1. \A a, b : <<a, t>> = <<b, u>> => a = b /\ t = u
  OBVIOUS
<1>2. /\ semJoin(t) = semJoin(u) => t = u
      /\ semJoinAll(t) = semJoinAll(u) => t = u
      /\ semSend(t) = semSend(u) => t = u
      /\ semReceive(t) = semReceive(u) => t = u
  BY <1>1 DEF semJoin, semJoinAll, semSend, semReceive
<1>3. /\ semJoin(t) \notin {semJoinAll(u), semSend(u), semReceive(u)}
      /\ semJoinAll(t) \notin {semSend(u), semReceive(u)}
      /\ semSend(t) # semReceive(u)
  BY <1>1 DEF semJoin, semJoinAll, semSend, semReceive
<1>4. SemsOf(t) \cap UserSems = {}
  BY ThreadsAssumption
<1>5. SemsOf(t) \subseteq Sems
  BY SemFrames
<1> QED  BY <1>2, <1>3, <1>4, <1>5 DEF SemsOf

\* The empty list.
LEMMA EmptyList ==
  Range(<<>>) = {} /\ IsInjective(<<>>) /\ \A f : InOrder(<<>>, f)
BY DEF Range, IsInjective, InOrder

\* The three threads of the kernel are different.
LEMMA ThreeThreads ==
  Master \in Threads /\ Idle \in Threads /\ UserMain \in Threads
  /\ Master # Idle /\ UserMain # Idle /\ UserMain # Master
<1>1. Master \in Threads /\ Idle \in Threads /\ UserMain \in Threads
  BY ThreadsAssumption
<1>2. ASSUME NEW a, NEW b PROVE Cardinality({a, b}) # 3
  <2>1. Cardinality({a}) = 1 /\ IsFiniteSet({a})
    BY FS_Singleton
  <2>2. CASE a = b
    <3>1. {a, b} = {a}
      BY <2>2
    <3> QED  BY <2>1, <3>1
  <2>3. CASE a # b
    <3>1. Cardinality({a} \cup {b}) = Cardinality({a}) + 1
      BY <2>1, <2>3, FS_AddElement
    <3>2. {a} \cup {b} = {a, b}
      OBVIOUS
    <3> QED  BY <2>1, <3>1, <3>2
  <2> QED  BY <2>2, <2>3
<1>3. Master # Idle
  <2>1. Cardinality({Idle, UserMain}) # 3
    BY <1>2, Zenon
  <2>2. Master = Idle => {Master, Idle, UserMain} = {Idle, UserMain}
    OBVIOUS
  <2>3. Cardinality({Master, Idle, UserMain}) = 3
    BY ThreadsAssumption
  <2> QED  BY <2>1, <2>2, <2>3
<1>4. UserMain # Idle
  <2>1. Cardinality({Master, Idle}) # 3
    BY <1>2, Zenon
  <2>2. UserMain = Idle => {Master, Idle, UserMain} = {Master, Idle}
    OBVIOUS
  <2>3. Cardinality({Master, Idle, UserMain}) = 3
    BY ThreadsAssumption
  <2> QED  BY <2>1, <2>2, <2>3
<1>5. UserMain # Master
  <2>1. UserMain = Master => {Master, Idle, UserMain} = {Master, Idle}
    OBVIOUS
  <2> QED  BY <1>2, <2>1, ThreadsAssumption
<1> QED  BY <1>1, <1>3, <1>4, <1>5
\* The record the boot leaves.
LEMMA BootGood == AtBoot \in Kernels /\ Good(AtBoot)
<1>1. /\ Master \in Threads /\ Idle \in Threads /\ Master # Idle /\ Null \notin Sems
      /\ 0 \in 0 .. CountMod - 1 /\ 1 \in 0 .. CountMod - 1
  <2>1. {Master, Idle, UserMain} \in SUBSET Threads
    BY ThreadsAssumption
  <2>2. Cardinality(Threads) \in Nat /\ Cardinality(Threads) >= 3
    BY <2>1, ThreadsAssumption, FS_CardinalityType, FS_Subset
  <2>3. CountMod \in Nat /\ CountMod >= 3
    BY <2>2, NumbersAssumption
  <2> QED  BY <2>1, <2>3, ThreeThreads, ThreadsAssumption
<1>2. SemsOf(Master) \in SUBSET Sems /\ SemsOf(Idle) \in SUBSET Sems
  BY <1>1, SemFrames
<1>3. AtBoot \in Kernels
  BY <1>1, <1>2 DEF AtBoot, Kernels, UnblockManners
<1>4. PICK k \in Kernels : k = AtBoot
  BY <1>3
<1>5. /\ k.running = Master /\ k.ready = <<>>
      /\ k.created = {Master, Idle} /\ k.finished = {}
      /\ k.sleepList = <<>> /\ k.opened = k.active
      /\ k.opened = SemsOf(Master) \cup SemsOf(Idle)
      /\ \A t \in Threads : k.remaining[t] = 0 /\ k.blockedAtSem[t] = Null
      /\ \A s \in Sems : k.blocked[s] = <<>>
  BY <1>4 DEF AtBoot
<1>6. \A t \in Threads : ~WaitsIn(k, t) /\ ~sleeps(k, t)
  BY <1>5 DEF WaitsIn, sleeps
<1>7. ListsAgree(k) /\ Short(k)
  BY <1>1, <1>5, EmptyList DEF ListsAgree, Short
<1>8. SleepersListed(k) /\ ReadyCanRun(k)
  BY <1>5, <1>6, EmptyList DEF SleepersListed, ReadyCanRun
<1>9. WaitersLive(k) /\ RunnerRuns(k)
  BY <1>1, <1>5, <1>6 DEF WaitersLive, RunnerRuns
<1>10. Placed(k) /\ Registered(k)
  BY <1>5 DEF Placed, Registered
<1> QED  BY <1>4, <1>7, <1>8, <1>9, <1>10 DEF Good, Consistent
=============================================================================
