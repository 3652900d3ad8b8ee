------------------------ MODULE LinkedLists_proofs ------------------------
(***************************************************************************)
(* The linked lists of LinkedLists.tla stay whole and do what the          *)
(* sequences and timers of the kernel model do, for any number of threads  *)
(* and semaphores, any timeouts and tokens.                                *)
(*                                                                         *)
(* First loops and lists in general: what a loop that goes through known   *)
(* stages returns, and what linking and unlinking one thread does to the   *)
(* sequence the links are.  Then what each routine does to the lists, then *)
(* each loop, and last the invariant and the refinement.                   *)
(***************************************************************************)
EXTENDS LinkedInvariant, Routines_proofs, WellFoundedInduction

\* A set of numbers that is not empty has a least one.
LEMMA LeastNat ==
  ASSUME NEW T, T \subseteq Nat, T # {}
  PROVE  \E x \in T : \A y \in T : x <= y
<1> DEFINE R == {ss \in Nat \X Nat : ss[1] < ss[2]}
<1>1. IsWellFoundedOn(R, Nat)
  BY NatLessThanWellFounded DEF OpToRel
<1>2. PICK x \in T : \A y \in T : ~(<<y, x>> \in R)
  BY <1>1, WFMin
<1>3. ASSUME NEW y \in T PROVE x <= y
  <2>1. <<y, x>> \notin R /\ x \in Nat /\ y \in Nat
    BY <1>2
  <2> QED  BY <2>1
<1> QED  BY <1>3

-----------------------------------------------------------------------------
(***************************************************************************)
(* Loops.                                                                  *)
(***************************************************************************)
\* f goes on from "from" by F, N times.
Walks(f, from, F, N) ==
  f = [i \in 0 .. N |-> IF i = 0 THEN from ELSE F[f[i - 1]]]

LEMMA WalkExists ==
  ASSUME NEW N \in Nat, NEW from, NEW F
  PROVE  \E f : Walks(f, from, F, N)
<1> DEFINE T == {m \in Nat : ~ \E f : Walks(f, from, F, m)}
<1> SUFFICES ASSUME T # {} PROVE FALSE
  OBVIOUS
<1>1. PICK m \in T : \A y \in T : m <= y
  <2>1. T \subseteq Nat
    OBVIOUS
  <2> HIDE DEF T
  <2> QED  BY <2>1, LeastNat
<1>2. m \in Nat /\ ~ \E f : Walks(f, from, F, m)
  OBVIOUS
<1>3. CASE m = 0
  <2>1. Walks([i \in 0 .. 0 |-> from], from, F, 0)
    BY DEF Walks
  <2> QED  BY <1>2, <1>3, <2>1
<1>4. CASE m # 0
  <2>1. m - 1 \in Nat /\ ~(m <= m - 1)
    BY <1>2, <1>4
  <2>2. m - 1 \notin T
    BY <1>1, <2>1
  <2>3. PICK f : Walks(f, from, F, m - 1)
    BY <2>1, <2>2
  <2> DEFINE g == [i \in 0 .. m |-> IF i = m THEN F[f[m - 1]] ELSE f[i]]
  <2>4. \A i \in 0 .. m : i # 0 => i - 1 \in 0 .. m /\ i - 1 # m /\ i - 1 \in 0 .. m - 1
    BY <1>2
  <2>5. \A i \in 0 .. m : i # m => i \in 0 .. m - 1
    BY <1>2
  <2>6. \A i \in 0 .. m - 1 : f[i] = IF i = 0 THEN from ELSE F[f[i - 1]]
    BY <2>3 DEF Walks
  <2>7. \A i \in 0 .. m : g[i] = IF i = 0 THEN from ELSE F[g[i - 1]]
    <3> TAKE i \in 0 .. m
    <3>1. CASE i = 0
      BY <1>4, <2>5, <2>6, <3>1
    <3>2. CASE i # 0
      <4>1. g[i - 1] = f[i - 1]
        BY <2>4, <3>2
      <4>2. CASE i = m
        BY <3>2, <4>1, <4>2
      <4>3. CASE i # m
        BY <2>5, <2>6, <3>2, <4>1, <4>3
      <4> QED  BY <4>2, <4>3
    <3> QED  BY <3>1, <3>2
  <2>8. Walks(g, from, F, m)
    <3>1. g = [i \in 0 .. m |-> g[i]]
      OBVIOUS
    <3> HIDE DEF g
    <3> QED  BY <2>7, <3>1 DEF Walks
  <2> QED  BY <1>2, <2>8
<1> QED  BY <1>3, <1>4

\* The stage after stage j, of those up to n.
After(j, n) == IF j < n THEN j + 1 ELSE n

\* Each step of f leads on to the next stage.
Proceeds(f, S, n, N) ==
  /\ f[0] \in S[0]
  /\ \A i \in 1 .. N : \A j \in 0 .. n :
       f[i - 1] \in S[j] => f[i] \in S[After(j, n)]

\* Each value of f is at a stage.
Staged(f, S, n, N) == \A i \in 0 .. N : \E j \in 0 .. n : f[i] \in S[j]

\* Whoever goes from stage to stage is at the last one in the end.
LEMMA StagesReached ==
  ASSUME NEW n \in Nat, NEW N \in Nat, n <= N, NEW f, NEW S, Proceeds(f, S, n, N)
  PROVE  f[N] \in S[n] /\ Staged(f, S, n, N)
<1>0. /\ f[0] \in S[0]
      /\ \A i \in 1 .. N : \A j \in 0 .. n :
           f[i - 1] \in S[j] => f[i] \in S[After(j, n)]
  BY DEF Proceeds
<1> DEFINE Stage(i) == IF i <= n THEN i ELSE n
           T == {i \in 0 .. N : f[i] \notin S[Stage(i)]}
<1>1. \A i \in 0 .. N : f[i] \in S[Stage(i)]
  <2> SUFFICES ASSUME T # {} PROVE FALSE
    OBVIOUS
  <2>1. PICK i \in T : \A y \in T : i <= y
    <3>1. T \subseteq Nat
      OBVIOUS
    <3> HIDE DEF T
    <3> QED  BY <3>1, LeastNat
  <2>2. i \in 0 .. N /\ f[i] \notin S[Stage(i)]
    OBVIOUS
  <2>3. CASE i = 0
    BY <1>0, <2>2, <2>3
  <2>4. CASE i # 0
    <3>1. i \in 1 .. N /\ i - 1 \in 0 .. N /\ ~(i <= i - 1)
      BY <2>2, <2>4
    <3>2. f[i - 1] \in S[Stage(i - 1)]
      BY <2>1, <3>1
    <3>3. Stage(i - 1) \in 0 .. n /\ After(Stage(i - 1), n) = Stage(i)
      BY <3>1 DEF After
    <3> HIDE DEF Stage
    <3> QED  BY <1>0, <2>2, <3>1, <3>2, <3>3
  <2> QED  BY <2>3, <2>4
<1>2. N \in 0 .. N /\ Stage(N) = n /\ \A i \in 0 .. N : Stage(i) \in 0 .. n
  OBVIOUS
<1> HIDE DEF Stage
<1>3. f[N] \in S[n]
  BY <1>1, <1>2
<1>4. Staged(f, S, n, N)
  BY <1>1, <1>2 DEF Staged
<1> QED  BY <1>3, <1>4

\* F leads from each stage to the next, and stays at the last.
LeadsOn(F, S, n) == \A j \in 0 .. n : \A x \in S[j] : F[x] \in S[After(j, n)]

\* A loop whose body leads from each stage to the next exists, and passes
\* through stages only.
LEMMA LoopExists ==
  ASSUME NEW n \in Nat, NEW N \in Nat, n <= N, NEW S, NEW F, LeadsOn(F, S, n),
         NEW from \in S[0]
  PROVE  \E f : Walks(f, from, F, N) /\ Staged(f, S, n, N)
<1>1. PICK f : Walks(f, from, F, N)
  BY WalkExists
<1>2. f[0] = from
  BY <1>1 DEF Walks
<1>3. ASSUME NEW i \in 1 .. N, NEW j \in 0 .. n, f[i - 1] \in S[j]
      PROVE  f[i] \in S[After(j, n)]
  <2>1. f[i] = F[f[i - 1]]
    <3>1. i \in 0 .. N /\ i # 0
      OBVIOUS
    <3> QED  BY <1>1, <3>1 DEF Walks
  <2> QED  BY <1>3, <2>1 DEF LeadsOn
<1>4. Proceeds(f, S, n, N)
  BY <1>2, <1>3 DEF Proceeds
<1>5. Staged(f, S, n, N)
  BY <1>4, StagesReached
<1> QED  BY <1>1, <1>5

-----------------------------------------------------------------------------
(***************************************************************************)
(* Lists, by their positions.                                              *)
(***************************************************************************)
LEMMA ListFacts ==
  ASSUME NEW q, IsList(q)
  PROVE  /\ Len(q) \in Nat /\ DOMAIN q = 1 .. Len(q)
         /\ \A i \in 1 .. Len(q) : q[i] \in Threads /\ q[i] # Null /\ At(q, i) = q[i]
         /\ \A i : i \notin 1 .. Len(q) => At(q, i) = Null
         /\ \A i, j \in 1 .. Len(q) : q[i] = q[j] => i = j
         /\ \A t : t \in Range(q) <=> \E i \in 1 .. Len(q) : q[i] = t
         /\ Range(q) \subseteq Threads
         /\ q = <<>> <=> Len(q) = 0
<1>1. q \in Seq(Threads) /\ IsInjective(q)
  BY DEF IsList
<1>2. Len(q) \in Nat /\ DOMAIN q = 1 .. Len(q) /\ (q = <<>> <=> Len(q) = 0)
  BY <1>1, LenProperties, EmptySeq
<1>3. \A i \in 1 .. Len(q) : q[i] \in Threads
  BY <1>1, <1>2, ElementOfSeq
<1>4. Null \notin Threads
  BY ThreadsAssumption
<1>5. \A i, j \in 1 .. Len(q) : q[i] = q[j] => i = j
  BY <1>1, <1>2 DEF IsInjective
<1>6. /\ \A t : t \in Range(q) <=> \E i \in 1 .. Len(q) : q[i] = t
      /\ Range(q) \subseteq Threads
  BY <1>1, RangeByIndex
<1>7. /\ \A i \in 1 .. Len(q) : At(q, i) = q[i]
      /\ \A i : i \notin 1 .. Len(q) => At(q, i) = Null
  BY <1>2 DEF At
<1> QED  BY <1>2, <1>3, <1>4, <1>5, <1>6, <1>7

\* r is q with t behind position p.
Inserted(r, q, p, t) ==
  /\ Len(r) = Len(q) + 1
  /\ \A i \in 1 .. Len(q) + 1 :
       r[i] = IF i <= p THEN q[i] ELSE IF i = p + 1 THEN t ELSE q[i - 1]

\* r is q without position p.
Removed(r, q, p) ==
  /\ Len(r) = Len(q) - 1
  /\ \A i \in 1 .. Len(q) - 1 : r[i] = q[IF i < p THEN i ELSE i + 1]

\* Linking t behind position p.
LEMMA InsertChained ==
  ASSUME NEW q, IsList(q), NEW r, IsList(r), NEW p \in 0 .. Len(q),
         NEW t \in Threads, t \notin Range(q), Inserted(r, q, p, t),
         NEW head, NEW next, Chained(head, next, q), NEW newHead, NEW newNext,
         newHead = IF p = 0 THEN t ELSE head,
         \A u \in Threads : newNext[u] = IF u = t THEN At(q, p + 1)
                                         ELSE IF u = At(q, p) THEN t ELSE next[u]
  PROVE  Chained(newHead, newNext, r)
<1> DEFINE n == Len(q)
<1>1. /\ n \in Nat /\ p \in Nat /\ p <= n
      /\ \A i \in 1 .. n : q[i] \in Threads /\ q[i] # Null /\ At(q, i) = q[i]
      /\ \A i : i \notin 1 .. n => At(q, i) = Null
      /\ \A i, j \in 1 .. n : q[i] = q[j] => i = j
      /\ \A i \in 1 .. n : q[i] # t
      /\ t # Null
  BY ListFacts, ThreadsAssumption
<1>2. /\ head = At(q, 1)
      /\ \A i \in 1 .. n : next[q[i]] = At(q, i + 1)
  BY ListFacts DEF Chained
<1>3. /\ DOMAIN r = 1 .. n + 1
      /\ \A i \in 1 .. n + 1 : At(r, i) = r[i]
      /\ At(r, n + 2) = Null
      /\ \A i \in 1 .. n + 1 :
           r[i] = IF i <= p THEN q[i] ELSE IF i = p + 1 THEN t ELSE q[i - 1]
  <2>1. Len(r) = n + 1 /\ \A i \in 1 .. n + 1 :
           r[i] = IF i <= p THEN q[i] ELSE IF i = p + 1 THEN t ELSE q[i - 1]
    BY DEF Inserted
  <2>2. n + 2 \notin 1 .. n + 1
    BY <1>1
  <2> HIDE DEF n
  <2> QED  BY <2>1, <2>2, ListFacts
<1> HIDE DEF n
<1>4. newHead = At(r, 1)
  <2>1. 1 \in 1 .. n + 1
    BY <1>1
  <2>2. CASE p = 0
    BY <1>3, <2>1, <2>2
  <2>3. CASE p # 0
    <3>1. 1 \in 1 .. n /\ 1 <= p
      BY <1>1, <2>3
    <3> QED  BY <1>1, <1>2, <1>3, <2>1, <2>3, <3>1
  <2> QED  BY <2>2, <2>3
<1>5. ASSUME NEW i \in 1 .. n + 1 PROVE newNext[r[i]] = At(r, i + 1)
  <2>1. CASE i < p
    <3>1. i \in 1 .. n /\ i <= p /\ i + 1 <= p /\ i + 1 \in 1 .. n /\ i + 1 \in 1 .. n + 1
      BY <1>1, <2>1
    <3>2. r[i] = q[i] /\ At(r, i + 1) = q[i + 1] /\ next[q[i]] = q[i + 1]
      BY <1>1, <1>2, <1>3, <3>1
    <3>3. q[i] # t /\ q[i] # At(q, p) /\ q[i] \in Threads
      <4>1. p \in 1 .. n /\ i # p
        BY <1>1, <2>1, <3>1
      <4> QED  BY <1>1, <3>1, <4>1
    <3> QED  BY <3>2, <3>3
  <2>2. CASE i = p
    <3>1. i \in 1 .. n /\ i <= p /\ ~(i + 1 <= p) /\ i + 1 = p + 1 /\ i + 1 \in 1 .. n + 1
      BY <1>1, <2>2
    <3>2. r[i] = q[i] /\ At(r, i + 1) = t /\ q[i] = At(q, p) /\ q[i] # t /\ q[i] \in Threads
      BY <1>1, <1>3, <2>2, <3>1
    <3> QED  BY <3>2
  <2>3. CASE i = p + 1
    <3>1. ~(i <= p)
      BY <1>1, <2>3
    <3>2. r[i] = t /\ newNext[t] = At(q, p + 1)
      BY <1>3, <2>3, <3>1
    <3>3. CASE i = n + 1
      BY <1>1, <1>3, <2>3, <3>2, <3>3
    <3>4. CASE i # n + 1
      <4>1. /\ i + 1 \in 1 .. n + 1 /\ ~(i + 1 <= p) /\ i + 1 # p + 1
            /\ (i + 1) - 1 = i /\ i \in 1 .. n
        BY <1>1, <2>3, <3>4
      <4>2. At(r, i + 1) = q[i] /\ At(q, i) = q[i]
        BY <1>1, <1>3, <4>1
      <4> QED  BY <2>3, <3>2, <4>2
    <3> QED  BY <3>3, <3>4
  <2>4. CASE i > p + 1
    <3>1. /\ i - 1 \in 1 .. n /\ ~(i <= p) /\ i # p + 1 /\ i - 1 # p
          /\ ~(i + 1 <= p) /\ i + 1 # p + 1 /\ (i + 1) - 1 = i /\ (i - 1) + 1 = i
      BY <1>1, <2>4
    <3>2. r[i] = q[i - 1] /\ next[q[i - 1]] = At(q, i)
      BY <1>2, <1>3, <3>1
    <3>3. q[i - 1] # t /\ q[i - 1] # At(q, p) /\ q[i - 1] \in Threads
      <4>1. p \in 1 .. n \/ p \notin 1 .. n
        OBVIOUS
      <4> QED  BY <1>1, <3>1, <4>1
    <3>4. At(r, i + 1) = At(q, i)
      <4>1. CASE i = n + 1
        <5>1. i + 1 = n + 2 /\ i \notin 1 .. n
          BY <1>1, <4>1
        <5> QED  BY <1>1, <1>3, <5>1
      <4>2. CASE i # n + 1
        <5>1. i + 1 \in 1 .. n + 1 /\ i \in 1 .. n
          BY <1>1, <4>2
        <5> QED  BY <1>1, <1>3, <3>1, <5>1
      <4> QED  BY <4>1, <4>2
    <3> QED  BY <3>2, <3>3, <3>4
  <2> QED  BY <1>1, <2>1, <2>2, <2>3, <2>4
<1> QED  BY <1>3, <1>4, <1>5 DEF Chained

\* Unlinking position p.
LEMMA RemoveChained ==
  ASSUME NEW q, IsList(q), NEW r, IsList(r), NEW p \in 1 .. Len(q), Removed(r, q, p),
         NEW head, NEW next, Chained(head, next, q), NEW newHead, NEW newNext,
         newHead = IF p = 1 THEN At(q, 2) ELSE head,
         \A u \in Threads : newNext[u] = IF u = q[p] THEN Null
                                         ELSE IF u = At(q, p - 1) THEN At(q, p + 1)
                                         ELSE next[u]
  PROVE  Chained(newHead, newNext, r)
<1> DEFINE n == Len(q)
<1>1. /\ n \in Nat /\ p \in Nat /\ p <= n /\ p >= 1
      /\ \A i \in 1 .. n : q[i] \in Threads /\ q[i] # Null /\ At(q, i) = q[i]
      /\ \A i : i \notin 1 .. n => At(q, i) = Null
      /\ \A i, j \in 1 .. n : q[i] = q[j] => i = j
  BY ListFacts
<1>2. /\ head = At(q, 1)
      /\ \A i \in 1 .. n : next[q[i]] = At(q, i + 1)
  BY ListFacts DEF Chained
<1>3. /\ DOMAIN r = 1 .. n - 1
      /\ \A i \in 1 .. n - 1 : At(r, i) = r[i]
      /\ At(r, n) = Null
      /\ \A i \in 1 .. n - 1 : r[i] = q[IF i < p THEN i ELSE i + 1]
  <2>1. Len(r) = n - 1 /\ \A i \in 1 .. n - 1 : r[i] = q[IF i < p THEN i ELSE i + 1]
    BY DEF Removed
  <2>2. n \notin 1 .. n - 1
    BY <1>1
  <2> HIDE DEF n
  <2> QED  BY <2>1, <2>2, ListFacts
<1> HIDE DEF n
<1>4. \A i \in 1 .. n : At(r, i) = At(q, IF i < p THEN i ELSE i + 1)
  <2> TAKE i \in 1 .. n
  <2>1. CASE i = n
    <3>1. ~(i < p) /\ i + 1 \notin 1 .. n
      BY <1>1, <2>1
    <3> QED  BY <1>1, <1>3, <2>1, <3>1
  <2>2. CASE i # n
    <3>1. i \in 1 .. n - 1 /\ i + 1 \in 1 .. n
      BY <1>1, <2>2
    <3> QED  BY <1>1, <1>3, <3>1
  <2> QED  BY <2>1, <2>2
<1>5. newHead = At(r, 1)
  <2>1. 1 \in 1 .. n /\ (1 < p <=> p # 1) /\ 1 + 1 = 2
    BY <1>1
  <2> QED  BY <1>2, <1>4, <2>1
<1>6. ASSUME NEW i \in 1 .. n - 1 PROVE newNext[r[i]] = At(r, i + 1)
  <2>1. i \in 1 .. n /\ i + 1 \in 1 .. n /\ i \in Nat
    BY <1>1
  <2>2. CASE i + 1 < p
    <3>1. i < p /\ i # p /\ i # p - 1 /\ p - 1 \in 1 .. n
      BY <1>1, <2>1, <2>2
    <3>2. r[i] = q[i] /\ q[i] # q[p] /\ q[i] # At(q, p - 1) /\ q[i] \in Threads
      BY <1>1, <1>3, <2>1, <3>1
    <3>3. At(r, i + 1) = At(q, i + 1)
      BY <1>4, <2>1, <2>2
    <3> QED  BY <1>2, <2>1, <3>2, <3>3
  <2>3. CASE i + 1 = p
    <3>1. i < p /\ i # p /\ i = p - 1 /\ ~(i + 1 < p) /\ (i + 1) + 1 = p + 1
      BY <1>1, <2>1, <2>3
    <3>2. r[i] = q[i] /\ q[i] # q[p] /\ q[i] = At(q, p - 1) /\ q[i] \in Threads
      BY <1>1, <1>3, <2>1, <3>1
    <3>3. At(r, i + 1) = At(q, p + 1)
      BY <1>4, <2>1, <3>1
    <3> QED  BY <3>2, <3>3
  <2>4. CASE i + 1 > p
    <3>1. /\ ~(i < p) /\ ~(i + 1 < p) /\ i + 1 # p /\ i + 1 # p - 1
          /\ p - 1 \in 1 .. n \/ p - 1 \notin 1 .. n
      BY <1>1, <2>1, <2>4
    <3>2. /\ r[i] = q[i + 1] /\ q[i + 1] # q[p] /\ q[i + 1] # At(q, p - 1)
          /\ q[i + 1] \in Threads
      BY <1>1, <1>3, <2>1, <3>1
    <3>3. At(r, i + 1) = At(q, (i + 1) + 1)
      BY <1>4, <2>1, <3>1
    <3> QED  BY <1>2, <2>1, <3>2, <3>3
  <2> QED  BY <1>1, <2>1, <2>2, <2>3, <2>4
<1> QED  BY <1>3, <1>5, <1>6 DEF Chained

\* Without a member a list is the list without its position,
LEMMA WithoutOne ==
  ASSUME NEW q, IsList(q), NEW p \in 1 .. Len(q)
  PROVE  LET r == Without(q, {q[p]})
         IN  IsList(r) /\ Range(r) = Range(q) \ {q[p]} /\ Removed(r, q, p)
<1> DEFINE W == {q[p]}  K == Kept(q, W)  n == Len(q)  r == Without(q, W)
<1>1. /\ n \in Nat /\ DOMAIN q = 1 .. n /\ p \in Nat /\ 1 <= p /\ p <= n
      /\ \A i, j \in 1 .. n : q[i] = q[j] => i = j
  BY ListFacts
<1>2. IsList(r) /\ Range(r) = Range(q) \ {q[p]}
  BY WithoutList, WithoutInjective DEF IsList
<1>3. K = (1 .. n) \ {p}
  BY <1>1 DEF Kept
<1> HIDE DEF K, r, n
<1>4. ASSUME NEW i \in 0 .. n
      PROVE  Cardinality({h \in K : h <= i}) = IF i < p THEN i ELSE i - 1
  <2>1. IsFiniteSet(1 .. i) /\ Cardinality(1 .. i) = i
    <3>1. Cardinality(1 .. i) = IF 1 > i THEN 0 ELSE i - 1 + 1
      BY FS_Interval
    <3> QED  BY <3>1, FS_Interval
  <2>2. {h \in K : h <= i} = (1 .. i) \ {p}
    BY <1>1, <1>3
  <2>3. CASE i < p
    <3>1. p \notin 1 .. i
      BY <1>1, <2>3
    <3>2. (1 .. i) \ {p} = 1 .. i
      BY <3>1
    <3> QED  BY <2>1, <2>2, <2>3, <3>2
  <2>4. CASE ~(i < p)
    <3>1. p \in 1 .. i
      BY <1>1, <2>4
    <3>2. Cardinality((1 .. i) \ {p}) = Cardinality(1 .. i) - 1
      BY <2>1, <3>1, FS_RemoveElement
    <3> QED  BY <2>1, <2>2, <2>4, <3>2
  <2> QED  BY <2>3, <2>4
<1>5. Cardinality(K) = n - 1
  <2>1. {h \in K : h <= n} = K
    BY <1>1, <1>3
  <2>2. n \in 0 .. n /\ ~(n < p)
    BY <1>1
  <2> QED  BY <1>4, <2>1, <2>2
<1>6. \A i \in K : Rank(K, i) = IF i < p THEN i ELSE i - 1
  <2> TAKE i \in K
  <2>1. i \in 0 .. n
    BY <1>1, <1>3
  <2> QED  BY <1>4, <2>1 DEF Rank
<1>7. ASSUME NEW j \in 1 .. n - 1
      PROVE  Nth(K, j) = IF j < p THEN j ELSE j + 1
  <2> DEFINE x == IF j < p THEN j ELSE j + 1
  <2>1. x \in K /\ (IF x < p THEN x ELSE x - 1) = j
    BY <1>1, <1>3
  <2>2. \A i \in K : (IF i < p THEN i ELSE i - 1) = j => i = x
    BY <1>1, <1>3
  <2> HIDE DEF x
  <2>3. Rank(K, x) = j /\ \A i \in K : Rank(K, i) = j => i = x
    BY <1>6, <2>1, <2>2
  <2>4. Nth(K, j) = x
    BY <2>1, <2>3 DEF Nth
  <2> QED  BY <2>4 DEF x
<1>8. r = [j \in 1 .. n - 1 |-> q[Nth(K, j)]]
  BY <1>5 DEF Without, Nth, r, K
<1>9. Len(r) = n - 1
  <2>1. DOMAIN r = 1 .. n - 1 /\ n - 1 \in Nat
    BY <1>1, <1>8
  <2> QED  BY <1>2, <2>1, LenProperties DEF IsList
<1>10. \A i \in 1 .. n - 1 : r[i] = q[IF i < p THEN i ELSE i + 1]
  BY <1>7, <1>8
<1> QED  BY <1>2, <1>9, <1>10 DEF Removed, r, n

\* whoever is at it;
LEMMA WithoutMember ==
  ASSUME NEW q, IsList(q), NEW t \in Range(q)
  PROVE  \E p \in 1 .. Len(q) :
           /\ q[p] = t
           /\ IsList(Without(q, {t})) /\ Range(Without(q, {t})) = Range(q) \ {t}
           /\ Removed(Without(q, {t}), q, p)
<1>1. PICK p \in 1 .. Len(q) : q[p] = t
  BY ListFacts
<1> QED  BY <1>1, WithoutOne

\* without its head it is its tail,
LEMMA TailRemoved ==
  ASSUME NEW q, IsList(q), q # <<>>
  PROVE  /\ IsList(Tail(q)) /\ Range(Tail(q)) = Range(q) \ {Head(q)}
         /\ Removed(Tail(q), q, 1) /\ Head(q) = q[1] /\ 1 \in 1 .. Len(q)
<1>1. q \in Seq(Threads) /\ IsInjective(q) /\ Len(q) \in Nat /\ Len(q) # 0
  BY ListFacts DEF IsList
<1>2. /\ Head(q) \in Threads /\ Tail(q) \in Seq(Threads)
      /\ Range(q) = {Head(q)} \cup Range(Tail(q))
      /\ Head(q) \notin Range(Tail(q)) /\ IsInjective(Tail(q))
  BY <1>1, HeadTailList
<1>3. Len(Tail(q)) = Len(q) - 1 /\ \A i \in 1 .. Len(Tail(q)) : Tail(q)[i] = q[i + 1]
  BY <1>1, HeadTailProperties
<1>4. Removed(Tail(q), q, 1)
  <2>1. \A i \in 1 .. Len(q) - 1 : ~(i < 1)
    BY <1>1
  <2> QED  BY <1>3, <2>1 DEF Removed
<1>5. Head(q) = q[1] /\ 1 \in 1 .. Len(q)
  BY <1>1
<1> QED  BY <1>2, <1>4, <1>5 DEF IsList

\* and with one more it is that behind the last.
LEMMA AppendInserted ==
  ASSUME NEW q, IsList(q), NEW t \in Threads, t \notin Range(q)
  PROVE  /\ IsList(Append(q, t)) /\ Range(Append(q, t)) = Range(q) \cup {t}
         /\ Inserted(Append(q, t), q, Len(q), t)
         /\ Append(q, t)[Len(q) + 1] = t /\ Len(Append(q, t)) = Len(q) + 1
<1>1. q \in Seq(Threads) /\ IsInjective(q) /\ Len(q) \in Nat
  BY ListFacts DEF IsList
<1>2. IsList(Append(q, t)) /\ Range(Append(q, t)) = Range(q) \cup {t}
  BY <1>1, AppendList DEF IsList
<1>3. /\ Len(Append(q, t)) = Len(q) + 1
      /\ \A i \in 1 .. Len(q) : Append(q, t)[i] = q[i]
      /\ Append(q, t)[Len(q) + 1] = t
  BY <1>1, AppendProperties
<1>4. \A i \in 1 .. Len(q) + 1 : (i <= Len(q) <=> i \in 1 .. Len(q))
                                 /\ (i \notin 1 .. Len(q) => i = Len(q) + 1)
  BY <1>1
<1> QED  BY <1>2, <1>3, <1>4 DEF Inserted

\* Whoever was put behind the last leaves the list as it was.
LEMMA WithoutLast ==
  ASSUME NEW q, IsList(q), NEW t \in Threads, t \notin Range(q)
  PROVE  Without(Append(q, t), {t}) = q
<1> DEFINE a == Append(q, t)  n == Len(q)  r == Without(a, {t})
<1>1. /\ IsList(a) /\ Inserted(a, q, n, t) /\ Len(a) = n + 1 /\ a[n + 1] = t
      /\ n \in Nat
  BY AppendInserted, ListFacts
<1> HIDE DEF a
<1>2. n + 1 \in 1 .. Len(a)
  BY <1>1
<1>3. IsList(r) /\ Removed(r, a, n + 1)
  BY <1>1, <1>2, WithoutOne
<1> HIDE DEF r, n
<1>4. Len(r) = n
  BY <1>1, <1>3 DEF Removed
<1>5. \A i \in 1 .. n : r[i] = q[i]
  <2> TAKE i \in 1 .. n
  <2>1. i \in 1 .. Len(a) - 1 /\ i < n + 1 /\ i \in 1 .. n + 1 /\ i <= n
    BY <1>1
  <2>2. r[i] = a[i]
    BY <1>3, <2>1 DEF Removed
  <2>3. a[i] = q[i]
    BY <1>1, <2>1 DEF Inserted, n
  <2> QED  BY <2>2, <2>3
<1>6. r = q
  BY <1>3, <1>4, <1>5, SeqEqual DEF IsList, n
<1> QED  BY <1>6 DEF r, a

\* Only the first d members.
LEMMA OnlyFirst ==
  ASSUME NEW q, IsList(q), NEW W, NEW d \in 0 .. Len(q),
         \A i \in 1 .. Len(q) : q[i] \in W <=> i <= d
  PROVE  /\ IsList(Only(q, W)) /\ Range(Only(q, W)) = Range(q) \cap W
         /\ Len(Only(q, W)) = d /\ \A i \in 1 .. d : Only(q, W)[i] = q[i]
<1> DEFINE V == Range(q) \ W  K == Kept(q, V)  n == Len(q)  r == Without(q, V)
<1>1. /\ n \in Nat /\ DOMAIN q = 1 .. n /\ d \in Nat /\ d <= n
      /\ \A i \in 1 .. n : q[i] \in Range(q)
  BY ListFacts
<1>2. r = Only(q, W)
  BY DEF Only
<1>3. IsList(r) /\ Range(r) = Range(q) \cap W
  <2>1. q \in Seq(Threads) /\ IsInjective(q)
    BY DEF IsList
  <2>2. /\ Only(q, W) \in Seq(Threads) /\ Range(Only(q, W)) = Range(q) \cap W
        /\ IsInjective(Only(q, W))
    BY <2>1, OnlyList
  <2> QED  BY <1>2, <2>2 DEF IsList
<1>4. K = 1 .. d
  <2>1. K = {i \in 1 .. n : i <= d}
    BY <1>1 DEF Kept
  <2>2. \A i : i \in 1 .. n /\ i <= d <=> i \in 1 .. d
    BY <1>1
  <2> HIDE DEF K, n
  <2> QED  BY <2>1, <2>2
<1>5. \A i \in 0 .. d : Cardinality(1 .. i) = i
  <2> TAKE i \in 0 .. d
  <2>1. Cardinality(1 .. i) = IF 1 > i THEN 0 ELSE i - 1 + 1
    BY FS_Interval
  <2> QED  BY <2>1
<1>6. \A i \in K : Rank(K, i) = i
  <2> TAKE i \in K
  <2>1. {h \in K : h <= i} = 1 .. i /\ i \in 0 .. d
    BY <1>1, <1>4
  <2> QED  BY <1>5, <2>1 DEF Rank
<1>7. \A j \in 1 .. d : Nth(K, j) = j
  BY <1>4, <1>6 DEF Nth
<1>8. Cardinality(K) = d
  BY <1>1, <1>4, <1>5
<1>9. r = [j \in 1 .. d |-> q[Nth(K, j)]]
  BY <1>8 DEF Without, Nth
<1> HIDE DEF K, r
<1>10. Len(r) = d
  <2>1. DOMAIN r = 1 .. d
    BY <1>9
  <2> QED  BY <1>1, <1>3, <2>1, LenProperties DEF IsList
<1>11. \A i \in 1 .. d : r[i] = q[i]
  BY <1>7, <1>9
<1> QED  BY <1>2, <1>3, <1>10, <1>11

\* All but the first d members.
LEMMA WithoutTheFirst ==
  ASSUME NEW q, IsList(q), NEW W, NEW d \in 0 .. Len(q),
         \A i \in 1 .. Len(q) : q[i] \in W <=> i <= d
  PROVE  /\ IsList(Without(q, W)) /\ Range(Without(q, W)) = Range(q) \ W
         /\ Len(Without(q, W)) = Len(q) - d
         /\ \A i \in 1 .. Len(q) - d : Without(q, W)[i] = q[i + d]
<1> DEFINE r == Without(q, W)  a == SubSeq(q, 1, d)  n == Len(q)
<1>1. /\ n \in Nat /\ DOMAIN q = 1 .. n /\ d \in Nat /\ d <= n
      /\ q \in Seq(Threads) /\ \A i \in 1 .. n : q[i] \in Threads
  BY ListFacts DEF IsList
<1>2. IsList(r) /\ Range(r) = Range(q) \ W
  BY <1>1, WithoutList, WithoutInjective DEF IsList
<1>3. q = a \o r
  BY <1>1, WithoutFirst
<1>4. a \in Seq(Threads) /\ Len(a) = d
  <2>1. \A i \in 1 .. d : q[i] \in Threads
    BY <1>1
  <2>2. /\ a \in Seq(Threads) /\ Len(a) = (IF 1 <= d THEN d - 1 + 1 ELSE 0)
    BY <1>1, <2>1, SubSeqProperties
  <2> QED  BY <1>1, <2>2
<1> HIDE DEF r, a, n
<1>5. r \in Seq(Threads) /\ Len(r) \in Nat
  BY <1>2, ListFacts DEF IsList
<1>6. /\ Len(a \o r) = d + Len(r)
      /\ \A i \in 1 .. d + Len(r) : (a \o r)[i] = IF i <= d THEN a[i] ELSE r[i - d]
  BY <1>4, <1>5, ConcatProperties, ZenonT(30)
<1>7. Len(r) = n - d
  BY <1>1, <1>3, <1>5, <1>6 DEF n
<1>8. ASSUME NEW i \in 1 .. n - d PROVE r[i] = q[i + d]
  <2>1. i + d \in 1 .. d + Len(r) /\ ~(i + d <= d) /\ (i + d) - d = i
    BY <1>1, <1>7
  <2> QED  BY <1>3, <1>6, <2>1
<1> QED  BY <1>2, <1>7, <1>8 DEF r, n

-----------------------------------------------------------------------------
(***************************************************************************)
(* What the links show.                                                    *)
(***************************************************************************)
\* A list has no more members than there are threads.
LEMMA ListFits ==
  ASSUME NEW q, IsList(q)
  PROVE  Len(q) <= Cardinality(Threads) /\ Cardinality(Threads) \in Nat
<1>1. /\ Len(q) \in Nat /\ q \in [1 .. Len(q) -> Threads]
      /\ \A i, j \in 1 .. Len(q) : q[i] = q[j] => i = j
  <2>1. q \in Seq(Threads)
    BY DEF IsList
  <2> QED  BY <2>1, ListFacts, LenProperties
<1>2. IsFiniteSet(Threads) /\ Cardinality(Threads) \in Nat
  BY ThreadsAssumption, FS_CardinalityType
<1> DEFINE n == Len(q)  I == 1 .. n
<1>3. IsFiniteSet(I) /\ Cardinality(I) = n
  <2>1. IsFiniteSet(I) /\ Cardinality(I) = IF 1 > n THEN 0 ELSE n - 1 + 1
    BY <1>1, FS_Interval
  <2> QED  BY <1>1, <2>1
<1>4. q \in [I -> Threads] /\ ~ \E i, j \in I : i # j /\ q[i] = q[j]
  BY <1>1
<1> HIDE DEF I
<1>5. ~(Cardinality(Threads) < Cardinality(I))
  BY <1>2, <1>3, <1>4, FS_PigeonHole
<1> QED  BY <1>1, <1>2, <1>3, <1>5

\* Following the links from the head shows the list.
LEMMA ChainIs ==
  ASSUME NEW q, IsList(q), NEW head, NEW next \in [Threads -> Links],
         Chained(head, next, q)
  PROVE  Chain(next, head) = q
<1> DEFINE N == Cardinality(Threads)
           follower == [t \in Threads \cup {Null} |-> IF t = Null THEN Null ELSE next[t]]
           at == CHOOSE f : Walks(f, head, follower, N)
           n == Len(q)
<1>1. /\ N \in Nat /\ n \in Nat /\ n <= N /\ DOMAIN q = 1 .. n
      /\ \A i \in 1 .. n : q[i] \in Threads /\ q[i] # Null /\ At(q, i) = q[i]
      /\ \A i : i \notin 1 .. n => At(q, i) = Null
  BY ListFits, ListFacts
<1>2. head = At(q, 1) /\ \A i \in 1 .. n : next[q[i]] = At(q, i + 1)
  BY <1>1 DEF Chained
<1>3. \A i \in Nat : follower[At(q, i + 1)] = At(q, i + 2)
  <2> TAKE i \in Nat
  <2>1. CASE i + 1 \in 1 .. n
    BY <1>1, <1>2, <2>1
  <2>2. CASE i + 1 \notin 1 .. n
    <3>1. i + 2 \notin 1 .. n
      BY <1>1, <2>2
    <3> QED  BY <1>1, <2>2, <3>1
  <2> QED  BY <2>1, <2>2
<1> HIDE DEF follower, n, N
<1>4. Walks(at, head, follower, N)
  BY <1>1, WalkExists
<1>5. Chain(next, head) = [i \in 1 .. Cardinality({h \in 0 .. N : at[h] # Null}) |-> at[i - 1]]
  BY DEF Chain, Walks, follower, N
<1> HIDE DEF at
<1>6. \A i \in 0 .. N : at[i] = IF i = 0 THEN head ELSE follower[at[i - 1]]
  BY <1>4 DEF Walks
<1>7. \A i \in 0 .. N : at[i] = At(q, i + 1)
  <2> DEFINE T == {i \in 0 .. N : at[i] # At(q, i + 1)}
  <2> SUFFICES ASSUME T # {} PROVE FALSE
    OBVIOUS
  <2>1. PICK i \in T : \A y \in T : i <= y
    <3>1. T \subseteq Nat
      BY <1>1
    <3> HIDE DEF T
    <3> QED  BY <3>1, LeastNat
  <2>2. i \in 0 .. N /\ at[i] # At(q, i + 1)
    OBVIOUS
  <2>3. CASE i = 0
    BY <1>1, <1>2, <1>6, <2>2, <2>3
  <2>4. CASE i # 0
    <3>1. i - 1 \in 0 .. N /\ i - 1 \in Nat /\ ~(i <= i - 1) /\ (i - 1) + 1 = i /\ (i - 1) + 2 = i + 1
      BY <1>1, <2>2, <2>4
    <3>2. at[i - 1] = At(q, (i - 1) + 1)
      BY <2>1, <3>1
    <3>3. at[i] = follower[at[i - 1]]
      BY <1>6, <2>2, <2>4
    <3> QED  BY <1>3, <2>2, <3>1, <3>2, <3>3
  <2> QED  BY <2>3, <2>4
<1>8. Cardinality({h \in 0 .. N : at[h] # Null}) = n
  <2>1. \A h \in 0 .. N : at[h] # Null <=> h + 1 \in 1 .. n
    BY <1>1, <1>7
  <2>2. \A h : h \in 0 .. N /\ h + 1 \in 1 .. n <=> h \in 0 .. n - 1
    BY <1>1
  <2>3. {h \in 0 .. N : at[h] # Null} = 0 .. n - 1
    BY <2>1, <2>2
  <2>4. n - 1 \in Int /\ 0 \in Int
    BY <1>1
  <2>5. Cardinality(0 .. n - 1) = IF 0 > n - 1 THEN 0 ELSE (n - 1) - 0 + 1
    BY <2>4, FS_Interval
  <2>6. (IF 0 > n - 1 THEN 0 ELSE (n - 1) - 0 + 1) = n
    BY <1>1
  <2> QED  BY <2>3, <2>5, <2>6
<1>9. \A i \in 1 .. n : at[i - 1] = q[i]
  <2> TAKE i \in 1 .. n
  <2>1. i - 1 \in 0 .. N /\ (i - 1) + 1 = i
    BY <1>1
  <2> QED  BY <1>1, <1>7, <2>1
<1>10. Chain(next, head) = [i \in 1 .. n |-> q[i]]
  BY <1>5, <1>8, <1>9
<1>11. q = [i \in 1 .. n |-> q[i]]
  BY ListFacts DEF IsList, n
<1> QED  BY <1>10, <1>11

\* Adding up the differences shows the ticks that remain.
LEMMA RemainingIs ==
  ASSUME NEW d \in Mems, NEW q, NEW ticks, SleepIs(d, q, ticks)
  PROVE  remaining(d) = ticks
<1> DEFINE next == d.nextSleep  diff == d.timeSleepRelative  n == Len(q)
           before(t) == CHOOSE u \in Threads : next[u] = t
           Sums(f) == f = [t \in Threads |-> diff[t] +
                             IF \E u \in Threads : next[u] = t THEN f[before(t)] ELSE 0]
<1>1. /\ IsList(q) /\ ticks \in [Threads -> Nat]
      /\ \A i \in DOMAIN q : next[q[i]] = At(q, i + 1)
      /\ \A t \in Threads \ Range(q) : next[t] = Null
      /\ \A i \in DOMAIN q : ticks[q[i]] = diff[q[i]] + IF i = 1 THEN 0 ELSE ticks[q[i - 1]]
      /\ \A t \in Threads \ Range(q) : diff[t] = 0 /\ ticks[t] = 0
  BY DEF SleepIs, Chained, LinksBelong, Differences
<1>2. /\ n \in Nat /\ DOMAIN q = 1 .. n
      /\ \A i \in 1 .. n : q[i] \in Threads /\ q[i] # Null /\ At(q, i) = q[i]
      /\ \A i : i \notin 1 .. n => At(q, i) = Null
      /\ \A i, j \in 1 .. n : q[i] = q[j] => i = j
      /\ \A t : t \in Range(q) <=> \E i \in 1 .. n : q[i] = t
  BY <1>1, ListFacts
<1>3. diff \in [Threads -> Nat]
  BY DEF Mems
<1>4. Null \notin Threads
  BY ThreadsAssumption
<1> HIDE DEF next, diff, n
<1>5. \A u, t \in Threads : next[u] = t => \E i \in 1 .. n : i + 1 \in 1 .. n /\ q[i] = u /\ q[i + 1] = t
  <2> TAKE u, t \in Threads
  <2> HAVE next[u] = t
  <2>1. u \in Range(q)
    BY <1>1, <1>4
  <2>2. PICK i \in 1 .. n : q[i] = u
    BY <1>2, <2>1
  <2>3. At(q, i + 1) = t
    BY <1>1, <1>2, <2>2
  <2>4. i + 1 \in 1 .. n
    BY <1>2, <1>4, <2>3
  <2> QED  BY <1>2, <2>2, <2>3, <2>4
<1>6. \A t \in Threads \ Range(q) : ~ \E u \in Threads : next[u] = t
  BY <1>2, <1>5
<1>7. 1 \in 1 .. n => ~ \E u \in Threads : next[u] = q[1]
  <2> SUFFICES ASSUME 1 \in 1 .. n, NEW u \in Threads, next[u] = q[1] PROVE FALSE
    OBVIOUS
  <2>1. PICK i \in 1 .. n : i + 1 \in 1 .. n /\ q[i + 1] = q[1]
    BY <1>2, <1>5
  <2>2. i + 1 = 1
    BY <1>2, <2>1
  <2> QED  BY <1>2, <2>2
<1>8. \A i \in 1 .. n : i # 1 => /\ i - 1 \in 1 .. n
                                 /\ \E u \in Threads : next[u] = q[i]
                                 /\ before(q[i]) = q[i - 1]
  <2> SUFFICES ASSUME NEW i \in 1 .. n, i # 1
               PROVE  /\ i - 1 \in 1 .. n
                      /\ \E u \in Threads : next[u] = q[i]
                      /\ before(q[i]) = q[i - 1]
    OBVIOUS
  <2>1. i - 1 \in 1 .. n /\ (i - 1) + 1 = i
    BY <1>2
  <2>2. next[q[i - 1]] = q[i] /\ q[i - 1] \in Threads /\ q[i] \in Threads
    BY <1>1, <1>2, <2>1, ZenonT(30)
  <2>3. \A u \in Threads : next[u] = q[i] => u = q[i - 1]
    <3> TAKE u \in Threads
    <3> HAVE next[u] = q[i]
    <3>1. PICK j \in 1 .. n : j + 1 \in 1 .. n /\ q[j] = u /\ q[j + 1] = q[i]
      BY <1>5, <2>2
    <3>2. j + 1 = i
      BY <1>2, <3>1
    <3>3. j = i - 1
      BY <1>2, <3>2
    <3> QED  BY <3>1, <3>3
  <2> QED  BY <2>1, <2>2, <2>3
<1> HIDE DEF before
<1>9. Sums(ticks)
  <2>1. ASSUME NEW t \in Threads
        PROVE  ticks[t] = diff[t] + IF \E u \in Threads : next[u] = t
                                    THEN ticks[before(t)] ELSE 0
    <3>1. CASE t \notin Range(q)
      BY <1>1, <1>6, <3>1
    <3>2. CASE t \in Range(q)
      <4>1. PICK i \in 1 .. n : q[i] = t
        BY <1>2, <3>2
      <4>2. ticks[t] = diff[t] + IF i = 1 THEN 0 ELSE ticks[q[i - 1]]
        BY <1>1, <1>2, <4>1
      <4>3. CASE i = 1
        <5>1. ~ \E u \in Threads : next[u] = t
          BY <1>7, <4>1, <4>3
        <5> QED  BY <4>2, <4>3, <5>1
      <4>4. CASE i # 1
        <5>1. (\E u \in Threads : next[u] = t) /\ before(t) = q[i - 1]
          BY <1>8, <4>1, <4>4
        <5> QED  BY <4>2, <4>4, <5>1
      <4> QED  BY <4>3, <4>4
    <3> QED  BY <3>1, <3>2
  <2>2. ticks = [t \in Threads |-> ticks[t]]
    BY <1>1
  <2> QED  BY <2>1, <2>2
<1>10. ASSUME NEW f, Sums(f) PROVE f = ticks
  <2>1. \A t \in Threads : f[t] = diff[t] + IF \E u \in Threads : next[u] = t
                                            THEN f[before(t)] ELSE 0
    BY <1>10
  <2>2. \A i \in 1 .. n : f[q[i]] = ticks[q[i]]
    <3> DEFINE T == {i \in 1 .. n : f[q[i]] # ticks[q[i]]}
    <3> SUFFICES ASSUME T # {} PROVE FALSE
      OBVIOUS
    <3>1. PICK i \in T : \A y \in T : i <= y
      <4>1. T \subseteq Nat
        BY <1>2
      <4> HIDE DEF T
      <4> QED  BY <4>1, LeastNat
    <3>2. i \in 1 .. n /\ f[q[i]] # ticks[q[i]]
      OBVIOUS
    <3>3. f[q[i]] = diff[q[i]] + IF i = 1 THEN 0 ELSE f[q[i - 1]]
      BY <1>2, <1>7, <1>8, <2>1, <3>2
    <3>4. ticks[q[i]] = diff[q[i]] + IF i = 1 THEN 0 ELSE ticks[q[i - 1]]
      BY <1>1, <1>2, <3>2
    <3>5. i # 1 => f[q[i - 1]] = ticks[q[i - 1]]
      <4> HAVE i # 1
      <4>1. i - 1 \in 1 .. n /\ ~(i <= i - 1)
        BY <1>2, <3>2
      <4> QED  BY <3>1, <4>1
    <3> QED  BY <3>2, <3>3, <3>4, <3>5
  <2>3. \A t \in Threads : f[t] = ticks[t]
    <3> TAKE t \in Threads
    <3>1. CASE t \notin Range(q)
      BY <1>1, <1>3, <1>6, <2>1, <3>1
    <3>2. CASE t \in Range(q)
      BY <1>2, <2>2, <3>2
    <3> QED  BY <3>1, <3>2
  <2>4. f = [t \in Threads |-> f[t]] /\ ticks = [t \in Threads |-> ticks[t]]
    BY <1>1, <1>10
  <2> HIDE DEF Sums
  <2> QED  BY <2>3, <2>4
<1>11. remaining(d) = CHOOSE f : Sums(f)
  BY DEF remaining, next, diff, before
<1> HIDE DEF Sums
<1> QED  BY <1>9, <1>10, <1>11

\* The kernel's record, member by member.
MembersOf(k) ==
  [running             |-> k.running,
   timeSliceCounter    |-> k.timeSliceCounter,
   ready               |-> k.ready,
   created             |-> k.created,
   finished            |-> k.finished,
   parent              |-> k.parent,
   numOfActiveChildren |-> k.numOfActiveChildren,
   sleepList           |-> k.sleepList,
   remaining           |-> k.remaining,
   blockedAtSem        |-> k.blockedAtSem,
   tokensNeeded        |-> k.tokensNeeded,
   unblockManner       |-> k.unblockManner,
   opened              |-> k.opened,
   active              |-> k.active,
   value               |-> k.value,
   blocked             |-> k.blocked,
   message             |-> k.message]

LEMMA KernelMembers ==
  ASSUME NEW k \in Kernels
  PROVE  k = MembersOf(k)
BY DEF Kernels, MembersOf

\* The memory represents one record of the kernel, the one QueuesOf shows.
LEMMA QueuesAre ==
  ASSUME NEW d \in Mems, NEW k, Represents(d, k)
  PROVE  QueuesOf(d) = MembersOf(k)
<1>1. /\ d.nextReady \in [Threads -> Links] /\ d.nextSleep \in [Threads -> Links]
      /\ d.nextSemBlocked \in [Threads -> Links]
  BY DEF Mems
<1>2. readyList(d) = k.ready
  <2>1. IsList(k.ready) /\ Chained(d.readyHead, d.nextReady, k.ready)
    BY DEF Represents, ReadyIs
  <2> QED  BY <1>1, <2>1, ChainIs DEF readyList
<1>3. sleepList(d) = k.sleepList
  <2>1. IsList(k.sleepList) /\ Chained(d.sleepHead, d.nextSleep, k.sleepList)
    BY DEF Represents, SleepIs
  <2> QED  BY <1>1, <2>1, ChainIs DEF sleepList
<1>4. remaining(d) = k.remaining
  BY RemainingIs DEF Represents
<1>5. [s \in Sems |-> blocked(d, s)] = k.blocked
  <2>1. k.blocked \in [Sems -> Seq(Threads)] /\ \A s \in Sems : SemIs(d, s, k.blocked[s])
    BY DEF Represents, BlockedAre
  <2>2. \A s \in Sems : blocked(d, s) = k.blocked[s]
    <3> TAKE s \in Sems
    <3>1. IsList(k.blocked[s]) /\ Chained(d.blockedHead[s], d.nextSemBlocked, k.blocked[s])
      BY <2>1 DEF SemIs
    <3> QED  BY <1>1, <3>1, ChainIs DEF blocked
  <2> QED  BY <2>1, <2>2
<1>6. /\ k.running = d.running /\ k.active = d.active /\ k.value = d.value
      /\ k.blockedAtSem = d.blockedAtSem /\ k.tokensNeeded = d.tokensNeeded
      /\ k.unblockManner = d.unblockManner
  BY DEF Represents, SameMembers
<1>7. /\ k.timeSliceCounter = 0 /\ k.created = Threads /\ k.finished = {}
      /\ k.parent = NoThread /\ k.numOfActiveChildren = [t \in Threads |-> 0]
      /\ k.opened = Used /\ k.message = NoThread
  BY DEF Represents, Elsewhere
<1> HIDE DEF Represents
<1> QED  BY <1>2, <1>3, <1>4, <1>5, <1>6, <1>7 DEF QueuesOf, MembersOf

LEMMA QueuesShow ==
  ASSUME NEW d \in Mems, NEW k \in Kernels, Represents(d, k)
  PROVE  QueuesOf(d) = k
<1>1. QueuesOf(d) = MembersOf(k)
  BY QueuesAre
<1>2. k = MembersOf(k)
  BY KernelMembers
<1> QED  BY <1>1, <1>2

-----------------------------------------------------------------------------
(***************************************************************************)
(* The routines.  Each changes one of the three lists and leaves the       *)
(* members of the other two as they are.                                   *)
(***************************************************************************)
SameReady(d, e) ==
  e.readyHead = d.readyHead /\ e.readyTail = d.readyTail /\ e.nextReady = d.nextReady

SameSleep(d, e) ==
  /\ e.sleepHead = d.sleepHead /\ e.nextSleep = d.nextSleep
  /\ e.timeSleepRelative = d.timeSleepRelative /\ e.sleeps = d.sleeps

SameBlocked(d, e) ==
  /\ e.blockedHead = d.blockedHead /\ e.blockedTail = d.blockedTail
  /\ e.nextSemBlocked = d.nextSemBlocked /\ e.blockedAtSem = d.blockedAtSem

\* The members of TCBs and semaphores that are in no list,
SameValues(d, e) ==
  /\ e.tokensNeeded = d.tokensNeeded /\ e.unblockManner = d.unblockManner
  /\ e.active = d.active /\ e.value = d.value

\* and the thread that runs.
SamePlain(d, e) == SameValues(d, e) /\ e.running = d.running

LEMMA SameReadyIs ==
  ASSUME NEW d, NEW e, SameReady(d, e), NEW q, ReadyIs(d, q)
  PROVE  ReadyIs(e, q)
BY DEF SameReady, ReadyIs

LEMMA SameSleepIs ==
  ASSUME NEW d, NEW e, SameSleep(d, e), NEW q, NEW ticks, SleepIs(d, q, ticks)
  PROVE  SleepIs(e, q, ticks)
BY DEF SameSleep, SleepIs

LEMMA SameBlockedAre ==
  ASSUME NEW d, NEW e, SameBlocked(d, e), NEW lists, BlockedAre(d, lists)
  PROVE  BlockedAre(e, lists)
BY DEF SameBlocked, BlockedAre, SemIs

\* The types of the members.
LEMMA MemFields ==
  ASSUME NEW d \in Mems
  PROVE  /\ d.running \in Links /\ d.readyHead \in Links /\ d.readyTail \in Links
         /\ d.nextReady \in [Threads -> Links] /\ d.sleepHead \in Links
         /\ d.nextSleep \in [Threads -> Links] /\ d.timeSleepRelative \in [Threads -> Nat]
         /\ d.sleeps \subseteq Threads /\ d.blockedHead \in [Sems -> Links]
         /\ d.blockedTail \in [Sems -> Links] /\ d.nextSemBlocked \in [Threads -> Links]
         /\ d.blockedAtSem \in [Threads -> Sems \cup {Null}]
         /\ d.tokensNeeded \in [Threads -> Nat] /\ d.value \in [Sems -> Nat]
         /\ d.unblockManner \in [Threads -> UnblockManners] /\ d.active \subseteq Sems
         /\ Null \in Links /\ Threads \subseteq Links
BY DEF Mems, Links

\* Scheduler::put, member by member.
LEMMA ReadyPutFields ==
  ASSUME NEW d \in Mems, NEW t \in Threads, t # Idle, d.readyTail # t
  PROVE  LET e == readyPut(d, t)
         IN  /\ e \in Mems /\ SameSleep(d, e) /\ SameBlocked(d, e) /\ SamePlain(d, e)
             /\ e.readyTail = t
             /\ e.readyHead = (IF d.readyTail = Null THEN t ELSE d.readyHead)
             /\ \A u \in Threads :
                  e.nextReady[u] = IF u = t THEN Null
                                   ELSE IF u = d.readyTail THEN t ELSE d.nextReady[u]
<1> DEFINE c == [d EXCEPT !.nextReady[t] = Null]
           linked == IF c.readyTail = Null THEN [c EXCEPT !.readyHead = t]
                     ELSE [c EXCEPT !.nextReady[c.readyTail] = t]
           e == readyPut(d, t)
<1>1. c.readyTail = d.readyTail /\ e = [linked EXCEPT !.readyTail = t]
  <2>1. c.readyTail = d.readyTail
    BY DEF Mems
  <2> QED  BY <2>1 DEF readyPut
<1>2. /\ c \in Mems /\ SameSleep(d, c) /\ SameBlocked(d, c) /\ SamePlain(d, c)
      /\ c.readyHead = d.readyHead
      /\ \A u \in Threads : c.nextReady[u] = IF u = t THEN Null ELSE d.nextReady[u]
  BY DEF Mems, Links, SameSleep, SameBlocked, SamePlain, SameValues
<1> HIDE DEF c
<1>3. /\ linked \in Mems /\ SameSleep(c, linked) /\ SameBlocked(c, linked)
      /\ SamePlain(c, linked)
      /\ linked.readyHead = (IF c.readyTail = Null THEN t ELSE c.readyHead)
      /\ \A u \in Threads : linked.nextReady[u] = IF u = c.readyTail THEN t ELSE c.nextReady[u]
  <2>1. c.readyTail # Null => c.readyTail \in Threads
    BY <1>2 DEF Mems, Links
  <2>2. Null \notin Threads
    BY ThreadsAssumption
  <2>3. CASE c.readyTail = Null
    <3>1. linked = [c EXCEPT !.readyHead = t]
      BY <2>3
    <3> HIDE DEF linked
    <3> QED  BY <1>2, <2>2, <2>3, <3>1
             DEF Mems, Links, SameSleep, SameBlocked, SamePlain, SameValues
  <2>4. CASE c.readyTail # Null
    <3>1. linked = [c EXCEPT !.nextReady[c.readyTail] = t]
      BY <2>4
    <3> HIDE DEF linked
    <3> QED  BY <1>2, <2>1, <2>4, <3>1
             DEF Mems, Links, SameSleep, SameBlocked, SamePlain, SameValues
  <2> QED  BY <2>3, <2>4
<1> HIDE DEF linked, e
<1>4. /\ e \in Mems /\ SameSleep(linked, e) /\ SameBlocked(linked, e) /\ SamePlain(linked, e)
      /\ e.readyTail = t /\ e.readyHead = linked.readyHead
      /\ e.nextReady = linked.nextReady
  BY <1>1, <1>3 DEF Mems, Links, SameSleep, SameBlocked, SamePlain, SameValues
<1>5. SameSleep(d, e) /\ SameBlocked(d, e) /\ SamePlain(d, e)
  BY <1>2, <1>3, <1>4 DEF SameSleep, SameBlocked, SamePlain, SameValues
<1> QED  BY <1>1, <1>2, <1>3, <1>4, <1>5 DEF e

LEMMA ReadyPutDoes ==
  ASSUME NEW d \in Mems, NEW q, ReadyIs(d, q),
         NEW t \in Threads, t # Idle, t \notin Range(q)
  PROVE  LET e == readyPut(d, t)
         IN  /\ e \in Mems /\ SameSleep(d, e) /\ SameBlocked(d, e) /\ SamePlain(d, e)
             /\ ReadyIs(e, Append(q, t))
<1> DEFINE e == readyPut(d, t)  r == Append(q, t)  n == Len(q)
<1>2. /\ IsList(q) /\ Chained(d.readyHead, d.nextReady, q) /\ d.readyTail = At(q, n)
      /\ \A u \in Threads \ Range(q) : d.nextReady[u] = Null
  BY DEF ReadyIs, LinksBelong
<1>0. d.readyTail # t
  <2>1. d.readyTail \in Range(q) \cup {Null} /\ Null \notin Threads
    BY <1>2, ListFacts, ThreadsAssumption DEF n
  <2> QED  BY <2>1
<1>1. /\ e \in Mems /\ SameSleep(d, e) /\ SameBlocked(d, e) /\ SamePlain(d, e)
      /\ e.readyTail = t
      /\ e.readyHead = (IF d.readyTail = Null THEN t ELSE d.readyHead)
      /\ \A u \in Threads :
           e.nextReady[u] = IF u = t THEN Null
                            ELSE IF u = d.readyTail THEN t ELSE d.nextReady[u]
  BY <1>0, ReadyPutFields
<1>3. /\ IsList(r) /\ Range(r) = Range(q) \cup {t} /\ Inserted(r, q, n, t)
      /\ r[n + 1] = t /\ Len(r) = n + 1
  BY <1>2, AppendInserted
<1>4. /\ n \in Nat /\ n \in 0 .. n /\ At(q, n + 1) = Null
      /\ (d.readyTail = Null <=> n = 0)
      /\ (d.readyTail # Null => d.readyTail \in Range(q))
      /\ At(r, n + 1) = t
  <2>1. n \in Nat /\ n + 1 \notin 1 .. n /\ (n # 0 => n \in 1 .. n) /\ (n = 0 => n \notin 1 .. n)
    BY <1>2, ListFacts
  <2>2. At(q, n + 1) = Null /\ (n = 0 => At(q, n) = Null)
        /\ (n # 0 => At(q, n) = q[n] /\ q[n] # Null /\ q[n] \in Range(q))
    BY <1>2, <2>1, ListFacts
  <2>3. n + 1 \in 1 .. Len(r)
    BY <1>3, <2>1
  <2>4. At(r, n + 1) = t
    <3> HIDE DEF r, n
    <3> QED  BY <1>3, <2>3, ListFacts
  <2> QED  BY <1>2, <2>1, <2>2, <2>4
<1> HIDE DEF e, r, n
<1>5. e.readyHead = IF n = 0 THEN t ELSE d.readyHead
  BY <1>1, <1>4
<1>6. \A u \in Threads : e.nextReady[u] = IF u = t THEN At(q, n + 1)
                                          ELSE IF u = At(q, n) THEN t ELSE d.nextReady[u]
  BY <1>1, <1>2, <1>4
<1>7. Chained(e.readyHead, e.nextReady, r)
  BY <1>2, <1>3, <1>4, <1>5, <1>6, InsertChained DEF n
<1>8. \A u \in Threads \ Range(r) : e.nextReady[u] = Null
  <2>1. \A u \in Threads \ Range(r) : u \notin Range(q) /\ u # t /\ u # d.readyTail
    <3>1. Null \notin Threads
      BY ThreadsAssumption
    <3> QED  BY <1>3, <1>4, <3>1
  <2> QED  BY <1>1, <1>2, <2>1
<1>9. e.readyTail = At(r, Len(r))
  BY <1>1, <1>3, <1>4
<1> QED  BY <1>1, <1>3, <1>7, <1>8, <1>9 DEF ReadyIs, LinksBelong, e, r

\* Scheduler::get: the head runs, or the idle thread.
LEMMA ReadyGetDoes ==
  ASSUME NEW d \in Mems, NEW q, ReadyIs(d, q)
  PROVE  LET e == readyGet(d)
         IN  /\ e \in Mems /\ SameSleep(d, e) /\ SameBlocked(d, e) /\ SameValues(d, e)
             /\ e.running = IF q = <<>> THEN Idle ELSE Head(q)
             /\ ReadyIs(e, IF q = <<>> THEN q ELSE Tail(q))
<1> DEFINE e == readyGet(d)  h == d.readyHead  n == d.nextReady[h]
<1>1. /\ IsList(q) /\ Chained(d.readyHead, d.nextReady, q) /\ d.readyTail = At(q, Len(q))
      /\ \A u \in Threads \ Range(q) : d.nextReady[u] = Null
      /\ h = At(q, 1)
  BY DEF ReadyIs, LinksBelong, Chained
<1>2. Idle \in Threads /\ Null \notin Threads
  BY ThreadsAssumption
<1>3. CASE q = <<>>
  <2>1. h = Null
    <3>1. 1 \notin 1 .. Len(q)
      BY <1>1, <1>3, ListFacts
    <3> QED  BY <1>1, <3>1, ListFacts
  <2>2. e = [d EXCEPT !.running = Idle]
    BY <2>1 DEF readyGet
  <2>3. /\ e \in Mems /\ SameSleep(d, e) /\ SameBlocked(d, e) /\ SameValues(d, e)
        /\ e.running = Idle /\ SameReady(d, e)
    BY <1>2, <2>2 DEF Mems, Links, SameSleep, SameBlocked, SameValues, SameReady
  <2> HIDE DEF e
  <2>4. ReadyIs(e, q)
    BY <2>3, SameReadyIs
  <2> QED  BY <1>3, <2>3, <2>4 DEF e
<1>4. CASE q # <<>>
  <2> DEFINE r == Tail(q)  m == Len(q)
  <2>1. /\ IsList(r) /\ Range(r) = Range(q) \ {Head(q)}
        /\ Removed(r, q, 1) /\ Head(q) = q[1] /\ 1 \in 1 .. m
    BY <1>1, <1>4, TailRemoved
  <2>2. h = q[1] /\ h \in Threads /\ h # Null /\ n = At(q, 2) /\ At(q, 0) = Null
    <3>1. h = q[1] /\ h \in Threads /\ h # Null /\ At(q, 0) = Null /\ 1 \in DOMAIN q
      BY <1>1, <2>1, ListFacts
    <3>2. d.nextReady[q[1]] = At(q, 1 + 1)
      BY <1>1, <3>1 DEF Chained
    <3> QED  BY <3>1, <3>2
  <2>3. e = [d EXCEPT !.running = h, !.readyHead = n, !.nextReady[h] = Null,
                      !.readyTail = IF n = Null THEN Null ELSE @]
    BY <2>2 DEF readyGet
  <2>4. n \in Links
    BY <2>2 DEF Mems
  <2> HIDE DEF n, h, e
  <2>5. /\ e \in Mems /\ SameSleep(d, e) /\ SameBlocked(d, e) /\ SameValues(d, e)
        /\ e.running = h /\ e.readyHead = n
        /\ e.readyTail = (IF n = Null THEN Null ELSE d.readyTail)
        /\ \A u \in Threads : e.nextReady[u] = IF u = h THEN Null ELSE d.nextReady[u]
    BY <2>2, <2>3, <2>4, ZenonT(30) DEF Mems, Links, SameSleep, SameBlocked, SameValues
  <2> HIDE DEF r, m
  <2>6. /\ e.readyHead = IF 1 = 1 THEN At(q, 2) ELSE d.readyHead
        /\ \A u \in Threads : e.nextReady[u] = IF u = q[1] THEN Null
                                              ELSE IF u = At(q, 1 - 1) THEN At(q, 1 + 1)
                                              ELSE d.nextReady[u]
    <3>1. At(q, 1 - 1) = Null
      <4>1. 1 - 1 = 0
        OBVIOUS
      <4> QED  BY <2>2, <4>1
    <3>2. e.readyHead = At(q, 2)
      BY <2>2, <2>5
    <3>3. \A u \in Threads : u # At(q, 1 - 1)
      BY <1>2, <3>1
    <3>4. \A u \in Threads : e.nextReady[u] = IF u = q[1] THEN Null ELSE d.nextReady[u]
      BY <2>2, <2>5
    <3> QED  BY <3>2, <3>3, <3>4
  <2>7. Chained(e.readyHead, e.nextReady, r)
    BY <1>1, <2>1, <2>6, RemoveChained DEF m
  <2>8. e.readyTail = At(r, Len(r))
    <3>1. m \in Nat /\ m >= 1 /\ Len(r) = m - 1 /\ \A i \in 1 .. m - 1 : r[i] = q[i + 1]
      <4>1. m \in Nat /\ m >= 1
        BY <1>1, <2>1, ListFacts DEF m
      <4>2. \A i \in 1 .. m - 1 : ~(i < 1)
        BY <4>1
      <4> QED  BY <2>1, <4>1, <4>2 DEF Removed, m
    <3>2. CASE m = 1
      <4>1. 2 \notin 1 .. m /\ Len(r) = 0 /\ 0 \notin 1 .. 0
        BY <3>1, <3>2
      <4>2. n = Null
        BY <1>1, <2>2, <4>1, ListFacts DEF m
      <4>3. At(r, 0) = Null
        BY <2>1, <4>1, ListFacts
      <4> QED  BY <2>5, <4>1, <4>2, <4>3
    <3>3. CASE m # 1
      <4>1. /\ 2 \in 1 .. m /\ m - 1 \in 1 .. m - 1 /\ (m - 1) + 1 = m /\ m \in 1 .. m
        BY <3>1, <3>3
      <4>2. n # Null /\ At(q, m) = q[m]
        BY <1>1, <2>2, <4>1, ListFacts DEF m
      <4>3. At(r, m - 1) = r[m - 1]
        BY <2>1, <3>1, <4>1, ListFacts
      <4> QED  BY <1>1, <2>5, <3>1, <4>1, <4>2, <4>3 DEF m
    <3> QED  BY <3>2, <3>3
  <2>9. \A u \in Threads \ Range(r) : e.nextReady[u] = Null
    BY <1>1, <2>1, <2>2, <2>5
  <2>10. ReadyIs(e, r)
    BY <2>1, <2>7, <2>8, <2>9 DEF ReadyIs, LinksBelong
  <2> QED  BY <1>4, <2>1, <2>2, <2>5, <2>10 DEF e, r
<1> QED  BY <1>3, <1>4

\* Whoever changes none of these members leaves them as they have to be.
LEMMA ElsewhereKept ==
  ASSUME NEW k, NEW m, Elsewhere(k), SameCounts(k, m),
         m.finished = k.finished, m.timeSliceCounter = 0
  PROVE  Elsewhere(m)
BY DEF Elsewhere, SameCounts

\* TCB::yield up to the context switch.
LEMMA YieldDoes ==
  ASSUME NEW d \in Mems, NEW k \in Kernels, Represents(d, k), NEW schPut \in BOOLEAN,
         k.running \notin Range(k.ready),
         \A t \in Threads : sleeps(k, t) <=> t \in Range(k.sleepList)
  PROVE  LET e == yield(d, schPut)
         IN  e \in Mems /\ e.running \in Threads /\ Represents(e, Yield(k, schPut))
<1> DEFINE old == d.running
           stays == schPut /\ d.blockedAtSem[old] = Null /\ old \notin d.sleeps
           c == IF stays THEN readyPut(d, old) ELSE d
           e == yield(d, schPut)  u == Yield(k, schPut)  q == YieldQueue(k, schPut)
<1>1. /\ SameMembers(d, k) /\ Elsewhere(k) /\ ReadyIs(d, k.ready)
      /\ SleepIs(d, k.sleepList, k.remaining) /\ BlockedAre(d, k.blocked)
  BY DEF Represents
<1>2. /\ k.running \in Threads /\ k.running = d.running
      /\ k.blockedAtSem = d.blockedAtSem /\ d.sleeps = Range(k.sleepList)
      /\ k.finished = {}
  BY <1>1, KernelFields DEF SameMembers, SleepIs, Elsewhere
<1>3. CanContinue(k, old) /\ schPut <=> stays
  BY <1>2 DEF CanContinue
<1>4. /\ c \in Mems /\ SameSleep(d, c) /\ SameBlocked(d, c) /\ SamePlain(d, c)
      /\ ReadyIs(c, q)
  <2>1. CASE stays /\ old # Idle
    <3>1. q = Append(k.ready, old) /\ c = readyPut(d, old)
      BY <1>2, <1>3, <2>1 DEF YieldQueue
    <3> HIDE DEF q, c
    <3> QED  BY <1>1, <1>2, <2>1, <3>1, ReadyPutDoes
  <2>2. CASE ~(stays /\ old # Idle)
    <3>1. q = k.ready
      BY <1>2, <1>3, <2>2 DEF YieldQueue
    <3>2. c = d
      BY <2>2 DEF readyPut
    <3> HIDE DEF q, c
    <3> QED  BY <1>1, <3>1, <3>2 DEF SameSleep, SameBlocked, SamePlain, SameValues
  <2> QED  BY <2>1, <2>2
<1>5. e = readyGet(c)
  BY DEF yield
<1> HIDE DEF c, e, q, u
<1>6. /\ e \in Mems /\ SameSleep(c, e) /\ SameBlocked(c, e) /\ SameValues(c, e)
      /\ e.running = IF q = <<>> THEN Idle ELSE Head(q)
      /\ ReadyIs(e, IF q = <<>> THEN q ELSE Tail(q))
  BY <1>4, <1>5, ReadyGetDoes
<1>7. /\ q \in Seq(Threads)
      /\ u.running = (IF q = <<>> THEN Idle ELSE Head(q))
      /\ u.ready = (IF q = <<>> THEN q ELSE Tail(q))
      /\ u.sleepList = k.sleepList /\ u.remaining = k.remaining
      /\ u.blocked = k.blocked /\ u.finished = k.finished
  BY YieldFields DEF u, q
<1>8. SameStory(k, u)
  BY YieldStory DEF u
<1>9. u.timeSliceCounter = 0
  BY DEF Yield, SchedulerGet, SchedulerPut, Kernels, u
<1>10. e.running = u.running /\ ReadyIs(e, u.ready)
  BY <1>6, <1>7
<1>11. e.running \in Threads
  <2>1. Idle \in Threads
    BY ThreadsAssumption
  <2>2. q # <<>> => Head(q) \in Threads
    BY <1>7, HeadTailList
  <2> QED  BY <1>6, <2>1, <2>2
<1>12. SleepIs(e, u.sleepList, u.remaining)
  <2>1. SleepIs(c, k.sleepList, k.remaining)
    BY <1>1, <1>4, SameSleepIs
  <2> QED  BY <1>6, <1>7, <2>1, SameSleepIs
<1>13. BlockedAre(e, u.blocked)
  <2>1. BlockedAre(c, k.blocked)
    BY <1>1, <1>4, SameBlockedAre
  <2> QED  BY <1>6, <1>7, <2>1, SameBlockedAre
<1>14. SameMembers(e, u)
  BY <1>1, <1>4, <1>6, <1>8, <1>10
     DEF SameMembers, SamePlain, SameValues, SameBlocked, SameStory
<1>15. Elsewhere(u)
  BY <1>1, <1>7, <1>8, <1>9, ElsewhereKept DEF SameStory
<1>16. OnlyBlockedNeed(u)
  <2>1. OnlyBlockedNeed(k)
    BY DEF Represents
  <2> QED  BY <2>1, <1>8 DEF OnlyBlockedNeed, SameStory
<1> QED
  BY <1>6, <1>10, <1>11, <1>12, <1>13, <1>14, <1>15, <1>16 DEF Represents, e, u

\* Links of others do not matter to a list.
LEMMA ChainedElsewhere ==
  ASSUME NEW q, IsList(q), NEW head, NEW next, Chained(head, next, q), NEW newNext,
         \A t \in Range(q) : newNext[t] = next[t]
  PROVE  Chained(head, newNext, q)
<1>1. \A i \in DOMAIN q : q[i] \in Range(q)
  BY DEF Range
<1> QED  BY <1>1 DEF Chained

\* kSemaphore::put, member by member.
LEMMA SemPutFields ==
  ASSUME NEW d \in Mems, NEW s \in Sems, NEW t \in Threads, NEW n \in Nat
  PROVE  LET e == semPut(d, s, t, n)
             first == d.blockedHead[s] = Null
         IN  /\ e \in Mems /\ SameReady(d, e) /\ SameSleep(d, e)
             /\ e.running = d.running /\ e.unblockManner = d.unblockManner
             /\ e.active = d.active /\ e.value = d.value
             /\ \A x \in Sems :
                  /\ e.blockedHead[x] = IF x = s /\ first THEN t ELSE d.blockedHead[x]
                  /\ e.blockedTail[x] = IF x = s THEN t ELSE d.blockedTail[x]
             /\ \A u \in Threads :
                  /\ e.nextSemBlocked[u] = IF u = t THEN Null
                                           ELSE IF ~first /\ u = d.blockedTail[s] THEN t
                                           ELSE d.nextSemBlocked[u]
                  /\ e.blockedAtSem[u] = IF u = t THEN s ELSE d.blockedAtSem[u]
                  /\ e.tokensNeeded[u] = IF u = t THEN n ELSE d.tokensNeeded[u]
<1> DEFINE first == d.blockedHead[s] = Null
           linked == IF first THEN [d EXCEPT !.blockedHead[s] = t]
                     ELSE [d EXCEPT !.nextSemBlocked[d.blockedTail[s]] = t]
           e == semPut(d, s, t, n)
<1>1. e = [linked EXCEPT !.blockedTail[s] = t, !.blockedAtSem[t] = s,
                         !.nextSemBlocked[t] = Null, !.tokensNeeded[t] = n]
  BY DEF semPut
<1>2. /\ linked \in Mems /\ SameReady(d, linked) /\ SameSleep(d, linked)
      /\ SamePlain(d, linked)
      /\ linked.blockedTail = d.blockedTail /\ linked.blockedAtSem = d.blockedAtSem
      /\ \A x \in Sems :
           linked.blockedHead[x] = IF x = s /\ first THEN t ELSE d.blockedHead[x]
      /\ \A u \in Threads :
           linked.nextSemBlocked[u] = IF ~first /\ u = d.blockedTail[s] THEN t
                                      ELSE d.nextSemBlocked[u]
  <2>1. CASE first
    BY <2>1, SMTT(30) DEF Mems, Links, SameReady, SameSleep, SamePlain, SameValues
  <2>2. CASE ~first
    BY <2>2 DEF Mems, Links, SameReady, SameSleep, SamePlain, SameValues
  <2> QED  BY <2>1, <2>2
<1> HIDE DEF linked, e, first
<1>3. /\ e \in Mems /\ SameReady(linked, e) /\ SameSleep(linked, e)
      /\ e.running = linked.running /\ e.unblockManner = linked.unblockManner
      /\ e.active = linked.active /\ e.value = linked.value
      /\ e.blockedHead = linked.blockedHead
      /\ \A x \in Sems : e.blockedTail[x] = IF x = s THEN t ELSE linked.blockedTail[x]
      /\ \A u \in Threads :
           /\ e.nextSemBlocked[u] = IF u = t THEN Null ELSE linked.nextSemBlocked[u]
           /\ e.blockedAtSem[u] = IF u = t THEN s ELSE linked.blockedAtSem[u]
           /\ e.tokensNeeded[u] = IF u = t THEN n ELSE linked.tokensNeeded[u]
  BY <1>1, <1>2, ZenonT(30) DEF Mems, Links, SameReady, SameSleep
<1>4. SameReady(d, e) /\ SameSleep(d, e)
  BY <1>2, <1>3 DEF SameReady, SameSleep
<1>5. /\ linked.running = d.running /\ linked.unblockManner = d.unblockManner
      /\ linked.active = d.active /\ linked.value = d.value
      /\ linked.tokensNeeded = d.tokensNeeded
  BY <1>2 DEF SamePlain, SameValues
<1> QED  BY <1>2, <1>3, <1>4, <1>5 DEF e, first

\* No two semaphores block the same thread.
LEMMA BlockedApart ==
  ASSUME NEW d, NEW L, BlockedAre(d, L), NEW s \in Sems, NEW x \in Sems, s # x
  PROVE  Range(L[s]) \cap Range(L[x]) = {}
<1>1. \A y \in {s, x} : /\ IsList(L[y])
                        /\ \A t \in Threads : t \in Range(L[y]) <=> d.blockedAtSem[t] = y
  BY DEF BlockedAre, SemIs
<1>2. Range(L[s]) \subseteq Threads
  BY <1>1, ListFacts
<1> QED  BY <1>1, <1>2

LEMMA SemPutDoes ==
  ASSUME NEW d \in Mems, NEW L, BlockedAre(d, L), NEW s \in Sems, NEW t \in Threads,
         d.blockedAtSem[t] = Null, NEW n \in Nat
  PROVE  BlockedAre(semPut(d, s, t, n), [L EXCEPT ![s] = Append(@, t)])
<1> DEFINE e == semPut(d, s, t, n)  M == [L EXCEPT ![s] = Append(@, t)]  q == L[s]
           m == Len(q)  first == d.blockedHead[s] = Null  r == Append(q, t)
<1>1. /\ \A x \in Sems :
           /\ e.blockedHead[x] = IF x = s /\ first THEN t ELSE d.blockedHead[x]
           /\ e.blockedTail[x] = IF x = s THEN t ELSE d.blockedTail[x]
      /\ \A u \in Threads :
           /\ e.nextSemBlocked[u] = IF u = t THEN Null
                                    ELSE IF ~first /\ u = d.blockedTail[s] THEN t
                                    ELSE d.nextSemBlocked[u]
           /\ e.blockedAtSem[u] = IF u = t THEN s ELSE d.blockedAtSem[u]
  BY SemPutFields
<1>2. /\ L \in [Sems -> Seq(Threads)]
      /\ \A x \in Sems : /\ IsList(L[x]) /\ Chained(d.blockedHead[x], d.nextSemBlocked, L[x])
                         /\ d.blockedTail[x] = At(L[x], Len(L[x]))
                         /\ \A u \in Threads : u \in Range(L[x]) <=> d.blockedAtSem[u] = x
      /\ \A u \in Threads : d.blockedAtSem[u] = Null => d.nextSemBlocked[u] = Null
  BY DEF BlockedAre, SemIs
<1>3. Null \notin Sems /\ Null \notin Threads
  BY ThreadsAssumption
<1>4. \A x \in Sems : t \notin Range(L[x])
  BY <1>2, <1>3
<1>5. /\ IsList(r) /\ Range(r) = Range(q) \cup {t} /\ Inserted(r, q, m, t)
      /\ r[m + 1] = t /\ Len(r) = m + 1
  BY <1>2, <1>4, AppendInserted
<1>6. /\ m \in Nat /\ m \in 0 .. m /\ At(q, m + 1) = Null /\ (first <=> m = 0)
      /\ (~first => d.blockedTail[s] \in Range(q))
      /\ (first => At(q, m) = Null)
      /\ At(r, m + 1) = t /\ d.blockedTail[s] = At(q, m)
  <2>1. /\ m \in Nat /\ m + 1 \notin 1 .. m /\ (m # 0 => m \in 1 .. m /\ 1 \in 1 .. m)
        /\ (m = 0 => m \notin 1 .. m /\ 1 \notin 1 .. m)
    BY <1>2, ListFacts
  <2>2. d.blockedHead[s] = At(q, 1)
    BY <1>2 DEF Chained
  <2>3. At(q, m + 1) = Null /\ (m = 0 => At(q, m) = Null /\ At(q, 1) = Null)
        /\ (m # 0 => At(q, m) = q[m] /\ q[m] \in Range(q) /\ At(q, 1) # Null)
    BY <1>2, <2>1, ListFacts
  <2>4. m + 1 \in 1 .. Len(r)
    BY <1>5, <2>1
  <2>5. At(r, m + 1) = t
    <3> HIDE DEF r, m, q
    <3> QED  BY <1>5, <2>4, ListFacts
  <2>6. m \in 0 .. m /\ (first <=> At(q, 1) = Null) /\ d.blockedTail[s] = At(q, m)
    BY <1>2, <2>1, <2>2
  <2> HIDE DEF m, q, r, first
  <2> QED  BY <2>1, <2>3, <2>5, <2>6
<1>7. M \in [Sems -> Seq(Threads)] /\ \A x \in Sems : M[x] = IF x = s THEN r ELSE L[x]
  BY <1>2, <1>5 DEF IsList
<1> HIDE DEF e, M, r, m, first, q
<1>8. Chained(e.blockedHead[s], e.nextSemBlocked, r)
  <2>1. e.blockedHead[s] = IF m = 0 THEN t ELSE d.blockedHead[s]
    BY <1>1, <1>6
  <2>2. \A u \in Threads : e.nextSemBlocked[u] =
          IF u = t THEN At(q, m + 1)
          ELSE IF u = At(q, m) THEN t ELSE d.nextSemBlocked[u]
    BY <1>1, <1>3, <1>6
  <2>3. IsList(q) /\ Chained(d.blockedHead[s], d.nextSemBlocked, q) /\ t \notin Range(q)
    BY <1>2, <1>4 DEF q
  <2> QED  BY <1>5, <1>6, <2>1, <2>2, <2>3, InsertChained DEF m
<1>9. SemIs(e, s, r)
  <2>1. e.blockedTail[s] = At(r, Len(r))
    BY <1>1, <1>5, <1>6
  <2>2. \A u \in Threads : u \in Range(r) <=> e.blockedAtSem[u] = s
    BY <1>1, <1>2, <1>5 DEF q
  <2> QED  BY <1>5, <1>8, <2>1, <2>2 DEF SemIs
<1>10. ASSUME NEW x \in Sems, x # s PROVE SemIs(e, x, L[x])
  <2>1. e.blockedHead[x] = d.blockedHead[x] /\ e.blockedTail[x] = d.blockedTail[x]
    BY <1>1, <1>10
  <2>2. \A u \in Range(L[x]) : e.nextSemBlocked[u] = d.nextSemBlocked[u]
    <3>1. Range(L[x]) \subseteq Threads
      BY <1>2, ListFacts
    <3>2. Range(L[s]) \cap Range(L[x]) = {}
      BY <1>10, BlockedApart
    <3>3. \A u \in Range(L[x]) : u # t /\ (~first => u # d.blockedTail[s])
      BY <1>4, <1>6, <3>2 DEF q
    <3> QED  BY <1>1, <3>1, <3>3
  <2>3. Chained(e.blockedHead[x], e.nextSemBlocked, L[x])
    BY <1>2, <2>1, <2>2, ChainedElsewhere
  <2>4. \A u \in Threads : u \in Range(L[x]) <=> e.blockedAtSem[u] = x
    BY <1>1, <1>2, <1>4, <1>10
  <2> QED  BY <1>2, <2>1, <2>3, <2>4 DEF SemIs
<1>11. \A u \in Threads : e.blockedAtSem[u] = Null => e.nextSemBlocked[u] = Null
  <2> TAKE u \in Threads
  <2> HAVE e.blockedAtSem[u] = Null
  <2>1. u # t /\ d.blockedAtSem[u] = Null
    BY <1>1, <1>3
  <2>2. ~first => u # d.blockedTail[s]
    BY <1>2, <1>3, <1>6, <2>1 DEF q
  <2> QED  BY <1>1, <1>2, <2>1, <2>2
<1>12. \A x \in Sems : SemIs(e, x, M[x])
  BY <1>7, <1>9, <1>10
<1> QED  BY <1>7, <1>11, <1>12 DEF BlockedAre, e, M

-----------------------------------------------------------------------------
(***************************************************************************)
(* The search for the thread before another one.                           *)
(***************************************************************************)
LEMMA RoundsEnough ==
  /\ Rounds \in Nat /\ Cardinality(Threads) < Rounds
  /\ Cardinality(UserSems) \in Nat /\ Cardinality(UserSems) + 1 <= Rounds
  /\ \A q : IsList(q) => Len(q) < Rounds
<1>1. Cardinality(Threads) \in Nat /\ Cardinality(UserSems) \in Nat
  BY ThreadsAssumption, BoundsAssumption, FS_CardinalityType
<1>2. \A q : IsList(q) => Len(q) <= Cardinality(Threads) /\ Len(q) \in Nat
  BY ListFits, ListFacts
<1> QED  BY <1>1, <1>2 DEF Rounds

LEMMA PreviousIs ==
  ASSUME NEW q, IsList(q), NEW head, NEW next, Chained(head, next, q),
         NEW p \in 1 .. Len(q)
  PROVE  previous(next, head, q[p]) = At(q, p - 1)
<1> DEFINE tcb == q[p]  n == p - 1
           going(at) == at.curr # Null /\ at.curr # tcb
           step(at)  == [prev |-> at.curr, curr |-> next[at.curr]]
           stage(i) == [prev |-> At(q, i), curr |-> At(q, i + 1)]
           S == [i \in 0 .. n |-> {stage(i)}]
           F == [x \in UNION {S[j] : j \in 0 .. n} |-> IF going(x) THEN step(x) ELSE x]
           from == [prev |-> Null, curr |-> head]
           Looped(g) == g = [i \in 0 .. Rounds |->
             IF i = 0 THEN from
             ELSE LET now == g[i - 1] IN IF going(now) THEN step(now) ELSE now]
<1>1. /\ p \in Nat /\ p >= 1 /\ p <= Len(q) /\ Len(q) \in Nat /\ n \in Nat
      /\ DOMAIN q = 1 .. Len(q)
      /\ \A i \in 1 .. Len(q) : q[i] \in Threads /\ q[i] # Null /\ At(q, i) = q[i]
      /\ \A i : i \notin 1 .. Len(q) => At(q, i) = Null
      /\ \A i, j \in 1 .. Len(q) : q[i] = q[j] => i = j
  BY ListFacts
<1>2. head = At(q, 1) /\ \A i \in 1 .. Len(q) : next[q[i]] = At(q, i + 1)
  BY <1>1 DEF Chained
<1>3. Rounds \in Nat /\ n <= Rounds
  <2>1. Len(q) < Rounds /\ Rounds \in Nat
    BY RoundsEnough
  <2> QED  BY <1>1, <2>1
<1>4. \A i \in 0 .. n : (going(stage(i)) <=> i < n) /\ (i < n => step(stage(i)) = stage(i + 1))
  <2> TAKE i \in 0 .. n
  <2>1. i + 1 \in 1 .. Len(q) /\ (i + 1 = p <=> ~(i < n))
    BY <1>1
  <2>2. stage(i).curr = q[i + 1] /\ q[i + 1] # Null /\ (q[i + 1] = tcb <=> ~(i < n))
    BY <1>1, <2>1
  <2>3. At(q, i + 1) = q[i + 1] /\ next[q[i + 1]] = At(q, (i + 1) + 1)
    BY <1>1, <1>2, <2>1
  <2> QED  BY <2>2, <2>3
<1>5. from = stage(0)
  <2>1. 0 \notin 1 .. Len(q) /\ 0 + 1 = 1
    BY <1>1
  <2> QED  BY <1>1, <1>2, <2>1
<1>6. \A j \in 0 .. n : S[j] = {stage(j)}
  OBVIOUS
<1> HIDE DEF n, stage, going, step, from
<1>7. LeadsOn(F, S, n)
  <2> SUFFICES ASSUME NEW j \in 0 .. n, NEW x \in S[j] PROVE F[x] \in S[After(j, n)]
    BY DEF LeadsOn
  <2>1. x = stage(j) /\ F[x] = IF going(x) THEN step(x) ELSE x
    OBVIOUS
  <2>2. After(j, n) \in 0 .. n /\ (j < n => After(j, n) = j + 1) /\ (~(j < n) => After(j, n) = j)
    BY <1>1 DEF After
  <2> HIDE DEF F, S
  <2> QED  BY <1>4, <1>6, <2>1, <2>2
<1>8. from \in S[0] /\ 0 \in 0 .. n
  BY <1>1, <1>5, <1>6
<1>9. \E f : Walks(f, from, F, Rounds) /\ Staged(f, S, n, Rounds)
  <2> HIDE DEF F, S
  <2> QED  BY <1>1, <1>3, <1>7, <1>8, LoopExists
<1>10. PICK f : Walks(f, from, F, Rounds) /\ Staged(f, S, n, Rounds)
  BY <1>9
<1>11. Looped(f)
  <2>1. \A i \in 0 .. Rounds : f[i] \in UNION {S[j] : j \in 0 .. n}
    BY <1>10 DEF Staged
  <2>2. \A i \in 0 .. Rounds : i # 0 => i - 1 \in 0 .. Rounds
    BY <1>3
  <2>3. \A i \in 0 .. Rounds : i # 0 =>
          F[f[i - 1]] = IF going(f[i - 1]) THEN step(f[i - 1]) ELSE f[i - 1]
    BY <2>1, <2>2
  <2> HIDE DEF F, S
  <2> QED  BY <1>10, <2>3 DEF Walks
<1> DEFINE after == CHOOSE g : Looped(g)
<1>12. Looped(after)
  BY <1>11
<1>13. previous(next, head, tcb) = after[Rounds].prev
  BY DEF previous, While, going, step, from
<1> HIDE DEF after
<1>14. /\ after[0] = from
       /\ \A i \in 1 .. Rounds :
            after[i] = IF going(after[i - 1]) THEN step(after[i - 1]) ELSE after[i - 1]
  <2>1. \A i \in 1 .. Rounds : i \in 0 .. Rounds /\ i # 0
    BY <1>3
  <2>2. 0 \in 0 .. Rounds
    BY <1>3
  <2> QED  BY <1>12, <2>1, <2>2
<1>15. Proceeds(after, S, n, Rounds)
  <2>1. \A i \in 1 .. Rounds : \A j \in 0 .. n :
          after[i - 1] \in S[j] => after[i] = F[after[i - 1]]
    BY <1>14
  <2> HIDE DEF F, S
  <2> QED  BY <1>7, <1>8, <1>14, <2>1 DEF Proceeds, LeadsOn
<1>16. after[Rounds] \in S[n]
  <2> HIDE DEF S
  <2> QED  BY <1>1, <1>3, <1>15, StagesReached
<1>17. n \in 0 .. n
  BY <1>1
<1>18. after[Rounds] = stage(n)
  BY <1>6, <1>16, <1>17
<1> QED  BY <1>13, <1>18 DEF stage, n

-----------------------------------------------------------------------------
(***************************************************************************)
(* Taking a thread out of the middle of a list.                            *)
(***************************************************************************)
\* Sleep::get, member by member, once the thread before is found.
LEMMA SleepGetFields ==
  ASSUME NEW d \in Mems, NEW t \in Threads, NEW before \in Links,
         before = previous(d.nextSleep, d.sleepHead, t), d.nextSleep[t] # t, before # t
  PROVE  LET e == sleepGet(d, t)
             n == d.nextSleep[t]
         IN  /\ e \in Mems /\ SameReady(d, e) /\ SameBlocked(d, e) /\ SamePlain(d, e)
             /\ e.sleepHead = (IF before = Null THEN n ELSE d.sleepHead)
             /\ e.sleeps = d.sleeps \ {t}
             /\ \A u \in Threads :
                  /\ e.nextSleep[u] = IF u = t THEN Null
                                      ELSE IF u = before THEN n ELSE d.nextSleep[u]
                  /\ e.timeSleepRelative[u] =
                       IF u = t THEN 0
                       ELSE IF u = n THEN d.timeSleepRelative[u] + d.timeSleepRelative[t]
                       ELSE d.timeSleepRelative[u]
<1> DEFINE n        == d.nextSleep[t]
           unlinked == IF before = Null THEN [d EXCEPT !.sleepHead = n]
                       ELSE [d EXCEPT !.nextSleep[before] = n]
           longer   == IF n = Null THEN unlinked
                       ELSE [unlinked EXCEPT !.timeSleepRelative[n] =
                                               @ + d.timeSleepRelative[t]]
           e        == sleepGet(d, t)
<1>1. e = [longer EXCEPT !.timeSleepRelative[t] = 0, !.nextSleep[t] = Null,
                         !.sleeps = @ \ {t}]
  BY DEF sleepGet
<1>2. Null \notin Threads
  BY ThreadsAssumption
<1>3. n \in Links /\ d.timeSleepRelative \in [Threads -> Nat]
  BY DEF Mems
<1>4. /\ unlinked \in Mems /\ SameReady(d, unlinked) /\ SameBlocked(d, unlinked)
      /\ SamePlain(d, unlinked)
      /\ unlinked.sleepHead = (IF before = Null THEN n ELSE d.sleepHead)
      /\ unlinked.sleeps = d.sleeps /\ unlinked.timeSleepRelative = d.timeSleepRelative
      /\ \A u \in Threads : unlinked.nextSleep[u] = IF u = before THEN n ELSE d.nextSleep[u]
  <2> HIDE DEF n
  <2>1. CASE before = Null
    BY <1>2, <1>3, <2>1 DEF Mems, SameReady, SameBlocked, SamePlain, SameValues
  <2>2. CASE before # Null
    BY <1>2, <1>3, <2>2 DEF Mems, Links, SameReady, SameBlocked, SamePlain, SameValues
  <2> QED  BY <2>1, <2>2
<1> HIDE DEF unlinked, n, e
<1>5. /\ longer \in Mems /\ SameReady(unlinked, longer) /\ SameBlocked(unlinked, longer)
      /\ SamePlain(unlinked, longer)
      /\ longer.sleepHead = unlinked.sleepHead /\ longer.sleeps = unlinked.sleeps
      /\ longer.nextSleep = unlinked.nextSleep
      /\ \A u \in Threads : longer.timeSleepRelative[u] =
           IF u = n THEN unlinked.timeSleepRelative[u] + d.timeSleepRelative[t]
           ELSE unlinked.timeSleepRelative[u]
  <2> DEFINE ticks == d.timeSleepRelative[t]
  <2>1. ticks \in Nat
    BY <1>3
  <2> HIDE DEF ticks
  <2>2. CASE n = Null
    BY <1>2, <1>4, <2>2 DEF SameReady, SameBlocked, SamePlain, SameValues
  <2>3. CASE n # Null
    <3>1. n \in Threads /\ unlinked.timeSleepRelative[n] \in Nat
      BY <1>3, <1>4, <2>3 DEF Links, Mems
    <3> DEFINE v == unlinked.timeSleepRelative[n] + ticks
    <3>2. longer = [unlinked EXCEPT !.timeSleepRelative[n] = v] /\ v \in Nat
      BY <2>1, <2>3, <3>1 DEF ticks
    <3> HIDE DEF longer, v
    <3>3. /\ longer \in Mems /\ SameReady(unlinked, longer) /\ SameBlocked(unlinked, longer)
          /\ SamePlain(unlinked, longer)
          /\ longer.sleepHead = unlinked.sleepHead /\ longer.sleeps = unlinked.sleeps
          /\ longer.nextSleep = unlinked.nextSleep
          /\ \A u \in Threads : longer.timeSleepRelative[u] =
               IF u = n THEN v ELSE unlinked.timeSleepRelative[u]
      BY <1>4, <3>1, <3>2 DEF Mems, SameReady, SameBlocked, SamePlain, SameValues
    <3> QED  BY <3>3 DEF ticks, v
  <2> QED  BY <2>2, <2>3
<1> HIDE DEF longer
<1>6. /\ e \in Mems /\ SameReady(longer, e) /\ SameBlocked(longer, e) /\ SamePlain(longer, e)
      /\ e.sleepHead = longer.sleepHead /\ e.sleeps = longer.sleeps \ {t}
      /\ \A u \in Threads :
           /\ e.nextSleep[u] = IF u = t THEN Null ELSE longer.nextSleep[u]
           /\ e.timeSleepRelative[u] = IF u = t THEN 0 ELSE longer.timeSleepRelative[u]
  BY <1>1, <1>5 DEF Mems, Links, SameReady, SameBlocked, SamePlain, SameValues
<1>7. SameReady(d, e) /\ SameBlocked(d, e) /\ SamePlain(d, e)
  BY <1>4, <1>5, <1>6 DEF SameReady, SameBlocked, SamePlain, SameValues
<1>8. e.sleepHead = (IF before = Null THEN n ELSE d.sleepHead) /\ e.sleeps = d.sleeps \ {t}
  BY <1>4, <1>5, <1>6
<1>9. \A u \in Threads :
        /\ e.nextSleep[u] = IF u = t THEN Null ELSE IF u = before THEN n ELSE d.nextSleep[u]
        /\ e.timeSleepRelative[u] =
             IF u = t THEN 0
             ELSE IF u = n THEN d.timeSleepRelative[u] + d.timeSleepRelative[t]
             ELSE d.timeSleepRelative[u]
  BY <1>4, <1>5, <1>6
<1> QED  BY <1>6, <1>7, <1>8, <1>9 DEF e, n

\* The differences and the ticks when t has left and n follows it.
Left(diff, ticks, newDiff, newTicks, t, n) ==
  \A u \in Threads :
    /\ newDiff[u] = IF u = t THEN 0 ELSE IF u = n THEN diff[u] + diff[t] ELSE diff[u]
    /\ newTicks[u] = IF u = t THEN 0 ELSE ticks[u]

\* The differences sum up without the one that left.
LEMMA DifferencesWithout ==
  ASSUME NEW q, IsList(q), NEW r, NEW p \in 1 .. Len(q), Removed(r, q, p),
         IsList(r), Range(r) = Range(q) \ {q[p]},
         NEW diff \in [Threads -> Nat], NEW ticks \in [Threads -> Nat],
         Differences(diff, q, ticks),
         NEW newDiff, NEW newTicks,
         Left(diff, ticks, newDiff, newTicks, q[p], At(q, p + 1))
  PROVE  Differences(newDiff, r, newTicks)
<1> DEFINE m == Len(q)
<1>7. \A u \in Threads :
        /\ newDiff[u] = IF u = q[p] THEN 0
                        ELSE IF u = At(q, p + 1) THEN diff[u] + diff[q[p]] ELSE diff[u]
        /\ newTicks[u] = IF u = q[p] THEN 0 ELSE ticks[u]
  BY DEF Left
<1>1. /\ m \in Nat /\ DOMAIN q = 1 .. m /\ p \in 1 .. m
      /\ \A i \in 1 .. m : q[i] \in Threads /\ At(q, i) = q[i]
      /\ \A i : i \notin 1 .. m => At(q, i) = Null
      /\ \A i, j \in 1 .. m : q[i] = q[j] => i = j
      /\ \A i \in 1 .. m : q[i] # Null /\ q[i] \in Range(q)
  BY ListFacts
<1>2. DOMAIN r = 1 .. m - 1 /\ \A i \in 1 .. m - 1 : r[i] = q[IF i < p THEN i ELSE i + 1]
  BY ListFacts DEF Removed
<1>3. /\ \A i \in 1 .. m : ticks[q[i]] = diff[q[i]] + IF i = 1 THEN 0 ELSE ticks[q[i - 1]]
      /\ \A t \in Threads \ Range(q) : diff[t] = 0 /\ ticks[t] = 0
  BY <1>1 DEF Differences
<1>4. \A i \in 1 .. m : /\ diff[q[i]] \in Nat /\ ticks[q[i]] \in Nat
                        /\ newTicks[q[i]] = IF i = p THEN 0 ELSE ticks[q[i]]
                        /\ newDiff[q[i]] = IF i = p THEN 0
                                           ELSE IF i = p + 1 THEN diff[q[i]] + diff[q[p]]
                                           ELSE diff[q[i]]
  <2> TAKE i \in 1 .. m
  <2>1. q[i] = q[p] <=> i = p
    BY <1>1
  <2>2. q[i] = At(q, p + 1) <=> i = p + 1
    <3>1. CASE p + 1 \in 1 .. m
      BY <1>1, <3>1
    <3>2. CASE p + 1 \notin 1 .. m
      BY <1>1, <3>2
    <3> QED  BY <3>1, <3>2
  <2>3. q[i] \in Threads
    BY <1>1
  <2> QED  BY <1>1, <1>7, <2>1, <2>2, <2>3
<1> HIDE DEF m
<1>0. m \in Nat /\ p \in Nat /\ 1 <= p /\ p <= m
  BY <1>1
<1>5. ASSUME NEW i \in 1 .. m - 1
      PROVE  newTicks[r[i]] = newDiff[r[i]] + IF i = 1 THEN 0 ELSE newTicks[r[i - 1]]
  <2>1. i \in 1 .. m /\ i + 1 \in 1 .. m /\ (i # 1 => i - 1 \in 1 .. m /\ i - 1 \in 1 .. m - 1)
    BY <1>0
  <2>2. CASE i < p
    <3>1. i # p /\ i # p + 1 /\ i - 1 # p /\ i - 1 < p
      BY <1>0, <2>2
    <3>2. r[i] = q[i] /\ (i # 1 => r[i - 1] = q[i - 1])
      BY <1>2, <2>1, <2>2, <3>1
    <3>3. newTicks[q[i]] = ticks[q[i]] /\ newDiff[q[i]] = diff[q[i]]
      BY <1>4, <2>1, <3>1
    <3>4. i # 1 => newTicks[q[i - 1]] = ticks[q[i - 1]]
      BY <1>4, <2>1, <3>1
    <3> QED  BY <1>3, <2>1, <3>2, <3>3, <3>4
  <2>3. CASE i = p
    <3>1. i + 1 # p /\ i + 1 = p + 1 /\ ~(i < p) /\ i - 1 # p /\ i - 1 < p /\ i + 1 # 1 /\ (i + 1) - 1 = i
      BY <1>0, <2>3
    <3>2. r[i] = q[i + 1] /\ (i # 1 => r[i - 1] = q[i - 1])
      BY <1>2, <2>1, <3>1
    <3>3. newTicks[q[i + 1]] = ticks[q[i + 1]] /\ newDiff[q[i + 1]] = diff[q[i + 1]] + diff[q[i]]
      BY <1>4, <2>1, <2>3, <3>1
    <3>4. i # 1 => newTicks[q[i - 1]] = ticks[q[i - 1]]
      BY <1>4, <2>1, <3>1
    <3>5. ticks[q[i + 1]] = diff[q[i + 1]] + ticks[q[i]]
      BY <1>3, <2>1, <3>1
    <3>6. ticks[q[i]] = diff[q[i]] + IF i = 1 THEN 0 ELSE ticks[q[i - 1]]
      BY <1>3, <2>1
    <3>7. diff[q[i]] \in Nat /\ diff[q[i + 1]] \in Nat /\ (i # 1 => ticks[q[i - 1]] \in Nat)
      BY <1>4, <2>1
    <3> QED  BY <3>2, <3>3, <3>4, <3>5, <3>6, <3>7, SMTT(30)
  <2>4. CASE i > p
    <3>1. /\ i + 1 # p /\ i + 1 # p + 1 /\ ~(i < p) /\ ~(i - 1 < p) /\ i # p /\ i # 1
          /\ i + 1 # 1 /\ (i + 1) - 1 = i /\ (i - 1) + 1 = i
      BY <1>0, <2>4
    <3>2. r[i] = q[i + 1] /\ r[i - 1] = q[i]
      BY <1>2, <2>1, <3>1
    <3>3. /\ newTicks[q[i + 1]] = ticks[q[i + 1]] /\ newDiff[q[i + 1]] = diff[q[i + 1]]
          /\ newTicks[q[i]] = ticks[q[i]]
      BY <1>4, <2>1, <3>1
    <3>4. ticks[q[i + 1]] = diff[q[i + 1]] + ticks[q[i]]
      BY <1>3, <2>1, <3>1
    <3> QED  BY <3>1, <3>2, <3>3, <3>4
  <2> QED  BY <1>0, <2>2, <2>3, <2>4
<1>6. ASSUME NEW t \in Threads \ Range(r) PROVE newDiff[t] = 0 /\ newTicks[t] = 0
  <2>1. CASE t = q[p]
    BY <1>7, <2>1
  <2>2. CASE t # q[p]
    <3>1. t \notin Range(q)
      BY <2>2
    <3>2. t # At(q, p + 1)
      <4>1. CASE p + 1 \in 1 .. m
        BY <1>1, <3>1, <4>1
      <4>2. CASE p + 1 \notin 1 .. m
        <5>1. Null \notin Threads
          BY ThreadsAssumption
        <5> QED  BY <1>1, <4>2, <5>1
      <4> QED  BY <4>1, <4>2
    <3> QED  BY <1>3, <1>7, <2>2, <3>1, <3>2
  <2> QED  BY <2>1, <2>2
<1> QED  BY <1>2, <1>5, <1>6 DEF Differences

LEMMA SleepGetDoes ==
  ASSUME NEW d \in Mems, NEW q, NEW ticks, SleepIs(d, q, ticks), NEW t \in Range(q),
         NEW newTicks \in [Threads -> Nat],
         \A u \in Threads : newTicks[u] = IF u = t THEN 0 ELSE ticks[u]
  PROVE  LET e == sleepGet(d, t)
         IN  /\ e \in Mems /\ SameReady(d, e) /\ SameBlocked(d, e) /\ SamePlain(d, e)
             /\ SleepIs(e, Without(q, {t}), newTicks)
<1> DEFINE e == sleepGet(d, t)  r == Without(q, {t})
<1>1. /\ IsList(q) /\ ticks \in [Threads -> Nat]
      /\ Chained(d.sleepHead, d.nextSleep, q) /\ d.sleeps = Range(q)
      /\ \A u \in Threads \ Range(q) : d.nextSleep[u] = Null
      /\ Differences(d.timeSleepRelative, q, ticks)
  BY DEF SleepIs, LinksBelong
<1>2. PICK p \in 1 .. Len(q) : /\ q[p] = t /\ IsList(r) /\ Range(r) = Range(q) \ {t}
                               /\ Removed(r, q, p)
  BY <1>1, WithoutMember
<1>3. /\ Len(q) \in Nat /\ DOMAIN q = 1 .. Len(q) /\ p \in Nat
      /\ \A i \in 1 .. Len(q) : q[i] \in Threads /\ q[i] # Null /\ At(q, i) = q[i]
      /\ \A i : i \notin 1 .. Len(q) => At(q, i) = Null
      /\ \A i, j \in 1 .. Len(q) : q[i] = q[j] => i = j
  BY <1>1, ListFacts
<1>4. t \in Threads /\ t # Null /\ Null \notin Threads
  BY <1>2, <1>3, ThreadsAssumption
<1> DEFINE before == At(q, p - 1)  n == At(q, p + 1)
<1>5. before = previous(d.nextSleep, d.sleepHead, t)
  BY <1>1, <1>2, PreviousIs
<1>6. d.nextSleep[t] = n
  BY <1>1, <1>2, <1>3 DEF Chained
<1>7. before \in Links /\ before # t /\ n # t /\ (before = Null <=> p = 1)
  <2>1. p - 1 # p /\ p + 1 # p /\ (p - 1 \in 1 .. Len(q) <=> p # 1)
    BY <1>3
  <2>2. \A i : i # p => At(q, i) # t /\ At(q, i) \in Links
    <3> TAKE i
    <3> HAVE i # p
    <3>1. CASE i \in 1 .. Len(q)
      BY <1>2, <1>3, <3>1 DEF Links
    <3>2. CASE i \notin 1 .. Len(q)
      BY <1>3, <1>4, <3>2 DEF Links
    <3> QED  BY <3>1, <3>2
  <2>3. before = Null <=> p = 1
    BY <1>3, <2>1
  <2> QED  BY <2>1, <2>2, <2>3
<1> HIDE DEF e, r, before, n
<1>8. /\ e \in Mems /\ SameReady(d, e) /\ SameBlocked(d, e) /\ SamePlain(d, e)
      /\ e.sleepHead = (IF before = Null THEN n ELSE d.sleepHead)
      /\ e.sleeps = d.sleeps \ {t}
      /\ \A u \in Threads :
           /\ e.nextSleep[u] = IF u = t THEN Null
                               ELSE IF u = before THEN n ELSE d.nextSleep[u]
           /\ e.timeSleepRelative[u] =
                IF u = t THEN 0
                ELSE IF u = n THEN d.timeSleepRelative[u] + d.timeSleepRelative[t]
                ELSE d.timeSleepRelative[u]
  BY <1>4, <1>5, <1>6, <1>7, SleepGetFields DEF e
<1>9. Chained(e.sleepHead, e.nextSleep, r)
  <2>1. e.sleepHead = IF p = 1 THEN At(q, 2) ELSE d.sleepHead
    <3>1. p = 1 => p + 1 = 2
      OBVIOUS
    <3> QED  BY <1>7, <1>8, <3>1 DEF n
  <2>2. \A u \in Threads : e.nextSleep[u] = IF u = q[p] THEN Null
                                           ELSE IF u = At(q, p - 1) THEN At(q, p + 1)
                                           ELSE d.nextSleep[u]
    BY <1>2, <1>8 DEF before, n
  <2>3. /\ IsList(q) /\ IsList(r) /\ Removed(r, q, p) /\ p \in 1 .. Len(q)
        /\ Chained(d.sleepHead, d.nextSleep, q)
    BY <1>1, <1>2
  <2> DEFINE head == e.sleepHead  links == e.nextSleep
             oldHead == d.sleepHead  oldLinks == d.nextSleep
  <2> HIDE DEF head, links, oldHead, oldLinks
  <2>4. Chained(head, links, r)
    BY <2>1, <2>2, <2>3, RemoveChained DEF head, links, oldHead, oldLinks
  <2> QED  BY <2>4 DEF head, links
<1>10. Differences(e.timeSleepRelative, r, newTicks)
  <2>1. \A u \in Threads : e.timeSleepRelative[u] =
           IF u = q[p] THEN 0
           ELSE IF u = At(q, p + 1) THEN d.timeSleepRelative[u] + d.timeSleepRelative[q[p]]
           ELSE d.timeSleepRelative[u]
    BY <1>2, <1>8 DEF n
  <2>2. \A u \in Threads : newTicks[u] = IF u = q[p] THEN 0 ELSE ticks[u]
    BY <1>2
  <2>3. d.timeSleepRelative \in [Threads -> Nat]
    BY MemFields
  <2>4. /\ IsList(q) /\ IsList(r) /\ Removed(r, q, p) /\ p \in 1 .. Len(q)
        /\ Range(r) = Range(q) \ {q[p]} /\ ticks \in [Threads -> Nat]
        /\ Differences(d.timeSleepRelative, q, ticks)
    BY <1>1, <1>2
  <2> DEFINE diff == d.timeSleepRelative  newDiff == e.timeSleepRelative
  <2> HIDE DEF diff, newDiff
  <2>5. diff \in [Threads -> Nat] /\ Differences(diff, q, ticks)
    BY <2>3, <2>4 DEF diff
  <2>6. Left(diff, ticks, newDiff, newTicks, q[p], At(q, p + 1))
    BY <2>1, <2>2 DEF Left, diff, newDiff
  <2>7. Differences(newDiff, r, newTicks)
    BY <2>4, <2>5, <2>6, DifferencesWithout
  <2> QED  BY <2>7 DEF newDiff
<1>11. \A u \in Threads \ Range(r) : e.nextSleep[u] = Null
  <2> TAKE u \in Threads \ Range(r)
  <2>1. CASE u = t
    BY <1>8, <2>1
  <2>2. CASE u # t
    <3>1. u \notin Range(q)
      BY <1>2, <2>2
    <3>2. u # before
      <4>1. before = Null \/ before \in Range(q)
        BY <1>1, <1>3, ListFacts DEF before
      <4> QED  BY <1>4, <3>1, <4>1
    <3> QED  BY <1>1, <1>8, <2>2, <3>1, <3>2
  <2> QED  BY <2>1, <2>2
<1>12. e.sleeps = Range(r)
  BY <1>1, <1>2, <1>8
<1> QED  BY <1>2, <1>8, <1>9, <1>10, <1>11, <1>12 DEF SleepIs, LinksBelong, e, r

\* kSemaphore::get, member by member, once the thread before is found.
LEMMA SemGetFields ==
  ASSUME NEW d \in Mems, NEW t \in Threads, NEW s \in Sems, d.blockedAtSem[t] = s,
         NEW before \in Links,
         before = previous(d.nextSemBlocked, d.blockedHead[s], t), before # t
  PROVE  LET e == semGet(d, t)
             n == d.nextSemBlocked[t]
             tail == d.blockedTail[s]
         IN  /\ e \in Mems /\ SameReady(d, e) /\ SameSleep(d, e)
             /\ e.running = d.running /\ e.unblockManner = d.unblockManner
             /\ e.active = d.active /\ e.value = d.value
             /\ \A x \in Sems :
                  /\ e.blockedHead[x] = IF x = s /\ before = Null THEN n ELSE d.blockedHead[x]
                  /\ e.blockedTail[x] = IF x # s THEN d.blockedTail[x]
                                        ELSE IF before = Null
                                        THEN IF n = Null THEN Null ELSE tail
                                        ELSE IF tail = t THEN before ELSE tail
             /\ \A u \in Threads :
                  /\ e.nextSemBlocked[u] = IF u = t THEN Null
                                           ELSE IF u = before THEN n ELSE d.nextSemBlocked[u]
                  /\ e.blockedAtSem[u] = IF u = t THEN Null ELSE d.blockedAtSem[u]
                  /\ e.tokensNeeded[u] = IF u = t THEN 0 ELSE d.tokensNeeded[u]
<1> DEFINE n        == d.nextSemBlocked[t]
           tail     == d.blockedTail[s]
           newTail  == IF before = Null THEN IF n = Null THEN Null ELSE tail
                       ELSE IF tail = t THEN before ELSE tail
           unlinked == IF before = Null
                       THEN [d EXCEPT !.blockedHead[s] = n, !.blockedTail[s] = newTail]
                       ELSE [d EXCEPT !.nextSemBlocked[before] = n, !.blockedTail[s] = newTail]
           e        == semGet(d, t)
<1>1. Null \notin Threads
  BY ThreadsAssumption
<1>2. n \in Links /\ tail \in Links /\ newTail \in Links
  BY DEF Mems, Links
<1>3. e = [unlinked EXCEPT !.blockedAtSem[t] = Null, !.nextSemBlocked[t] = Null,
                           !.tokensNeeded[t] = 0]
  BY DEF semGet
<1> HIDE DEF e, n, newTail
<1>4. /\ unlinked \in Mems /\ SameReady(d, unlinked) /\ SameSleep(d, unlinked)
      /\ SamePlain(d, unlinked) /\ unlinked.blockedAtSem = d.blockedAtSem
      /\ \A x \in Sems :
           /\ unlinked.blockedHead[x] = IF x = s /\ before = Null THEN n ELSE d.blockedHead[x]
           /\ unlinked.blockedTail[x] = IF x # s THEN d.blockedTail[x] ELSE newTail
      /\ \A u \in Threads :
           unlinked.nextSemBlocked[u] = IF u = before THEN n ELSE d.nextSemBlocked[u]
  <2>1. CASE before = Null
    BY <1>1, <1>2, <2>1 DEF Mems, SameReady, SameSleep, SamePlain, SameValues
  <2>2. CASE before # Null
    BY <1>1, <1>2, <2>2 DEF Mems, SameReady, SameSleep, SamePlain, SameValues
  <2> QED  BY <2>1, <2>2
<1> HIDE DEF unlinked
<1>5. /\ e \in Mems /\ SameReady(unlinked, e) /\ SameSleep(unlinked, e)
      /\ e.running = unlinked.running /\ e.unblockManner = unlinked.unblockManner
      /\ e.active = unlinked.active /\ e.value = unlinked.value
      /\ e.blockedHead = unlinked.blockedHead /\ e.blockedTail = unlinked.blockedTail
      /\ \A u \in Threads :
           /\ e.nextSemBlocked[u] = IF u = t THEN Null ELSE unlinked.nextSemBlocked[u]
           /\ e.blockedAtSem[u] = IF u = t THEN Null ELSE unlinked.blockedAtSem[u]
           /\ e.tokensNeeded[u] = IF u = t THEN 0 ELSE unlinked.tokensNeeded[u]
  BY <1>3, <1>4, ZenonT(30) DEF Mems, Links, SameReady, SameSleep
<1>6. SameReady(d, e) /\ SameSleep(d, e)
  BY <1>4, <1>5 DEF SameReady, SameSleep
<1>7. /\ e.running = d.running /\ e.unblockManner = d.unblockManner
      /\ e.active = d.active /\ e.value = d.value
      /\ unlinked.tokensNeeded = d.tokensNeeded
  BY <1>4, <1>5 DEF SamePlain, SameValues
<1>8. \A x \in Sems :
        /\ e.blockedHead[x] = IF x = s /\ before = Null THEN n ELSE d.blockedHead[x]
        /\ e.blockedTail[x] = IF x # s THEN d.blockedTail[x] ELSE newTail
  BY <1>4, <1>5
<1>9. \A u \in Threads :
        /\ e.nextSemBlocked[u] = IF u = t THEN Null
                                 ELSE IF u = before THEN n ELSE d.nextSemBlocked[u]
        /\ e.blockedAtSem[u] = IF u = t THEN Null ELSE d.blockedAtSem[u]
        /\ e.tokensNeeded[u] = IF u = t THEN 0 ELSE d.tokensNeeded[u]
  BY <1>4, <1>5, <1>7
<1> QED  BY <1>5, <1>6, <1>7, <1>8, <1>9 DEF e, n, newTail

\* A list t is not on is the same without t.
LEMMA WithoutStranger ==
  ASSUME NEW q, IsList(q), NEW t, t \notin Range(q)
  PROVE  Without(q, {t}) = q
<1>1. q \in Seq(Threads) /\ Range(q) \cap {t} = {}
  BY DEF IsList
<1> QED  BY <1>1, WithoutNobody

LEMMA SemGetDoes ==
  ASSUME NEW d \in Mems, NEW L, BlockedAre(d, L), NEW s \in Sems, NEW t \in Threads,
         d.blockedAtSem[t] = s,
         NEW M \in [Sems -> Seq(Threads)], \A x \in Sems : M[x] = Without(L[x], {t})
  PROVE  LET e == semGet(d, t)
         IN  /\ e \in Mems /\ SameReady(d, e) /\ SameSleep(d, e)
             /\ e.running = d.running /\ e.unblockManner = d.unblockManner
             /\ e.active = d.active /\ e.value = d.value
             /\ \A u \in Threads :
                  /\ e.blockedAtSem[u] = IF u = t THEN Null ELSE d.blockedAtSem[u]
                  /\ e.tokensNeeded[u] = IF u = t THEN 0 ELSE d.tokensNeeded[u]
             /\ BlockedAre(e, M)
<1> DEFINE e == semGet(d, t)  q == L[s]  r == Without(q, {t})  m == Len(q)
           tail == d.blockedTail[s]
<1>1. /\ L \in [Sems -> Seq(Threads)]
      /\ \A x \in Sems : /\ IsList(L[x]) /\ Chained(d.blockedHead[x], d.nextSemBlocked, L[x])
                         /\ d.blockedTail[x] = At(L[x], Len(L[x]))
                         /\ \A u \in Threads : u \in Range(L[x]) <=> d.blockedAtSem[u] = x
      /\ \A u \in Threads : d.blockedAtSem[u] = Null => d.nextSemBlocked[u] = Null
  BY DEF BlockedAre, SemIs
<1>2. Null \notin Sems /\ Null \notin Threads /\ t # Null
  BY ThreadsAssumption
<1>3. /\ IsList(q) /\ Chained(d.blockedHead[s], d.nextSemBlocked, q) /\ tail = At(q, m)
      /\ \A u \in Threads : u \in Range(q) <=> d.blockedAtSem[u] = s
      /\ t \in Range(q)
  BY <1>1
<1> HIDE DEF q, tail
<1>4. PICK p \in 1 .. m : /\ q[p] = t /\ IsList(r) /\ Range(r) = Range(q) \ {t}
                          /\ Removed(r, q, p)
  BY <1>3, WithoutMember
<1>5. /\ m \in Nat /\ DOMAIN q = 1 .. m /\ p \in Nat /\ 1 <= p /\ p <= m
      /\ \A i \in 1 .. m : q[i] \in Threads /\ q[i] # Null /\ At(q, i) = q[i]
      /\ \A i : i \notin 1 .. m => At(q, i) = Null
      /\ \A i, j \in 1 .. m : q[i] = q[j] => i = j
  BY <1>3, ListFacts
<1> DEFINE before == At(q, p - 1)  n == At(q, p + 1)
<1>6. before = previous(d.nextSemBlocked, d.blockedHead[s], t)
  BY <1>3, <1>4, PreviousIs
<1>7. d.nextSemBlocked[t] = n
  BY <1>3, <1>4, <1>5 DEF Chained
<1>8. before \in Links /\ before # t /\ (before = Null <=> p = 1)
      /\ before \in Range(q) \cup {Null} /\ (n = Null <=> p = m)
  <2>1. /\ p - 1 # p /\ (p - 1 \in 1 .. m <=> p # 1)
        /\ (p + 1 \in 1 .. m <=> p # m)
    <3>1. m \in Nat /\ p \in Nat /\ 1 <= p /\ p <= m
      BY <1>5
    <3> QED  BY <3>1
  <2>2. \A i : i # p => At(q, i) # t /\ At(q, i) \in Links /\ At(q, i) \in Range(q) \cup {Null}
    <3> TAKE i
    <3> HAVE i # p
    <3>1. CASE i \in 1 .. m
      BY <1>3, <1>4, <1>5, <3>1, ListFacts DEF Links
    <3>2. CASE i \notin 1 .. m
      BY <1>2, <1>5, <3>2 DEF Links
    <3> QED  BY <3>1, <3>2
  <2>3. (before = Null <=> p = 1) /\ (n = Null <=> p = m)
    BY <1>5, <2>1
  <2> QED  BY <2>1, <2>2, <2>3
<1> HIDE DEF e, r, m, before, n
<1>9. /\ e \in Mems /\ SameReady(d, e) /\ SameSleep(d, e)
      /\ e.running = d.running /\ e.unblockManner = d.unblockManner
      /\ e.active = d.active /\ e.value = d.value
      /\ \A x \in Sems :
           /\ e.blockedHead[x] = IF x = s /\ before = Null THEN n ELSE d.blockedHead[x]
           /\ e.blockedTail[x] = IF x # s THEN d.blockedTail[x]
                                 ELSE IF before = Null
                                 THEN IF n = Null THEN Null ELSE tail
                                 ELSE IF tail = t THEN before ELSE tail
      /\ \A u \in Threads :
           /\ e.nextSemBlocked[u] = IF u = t THEN Null
                                    ELSE IF u = before THEN n ELSE d.nextSemBlocked[u]
           /\ e.blockedAtSem[u] = IF u = t THEN Null ELSE d.blockedAtSem[u]
           /\ e.tokensNeeded[u] = IF u = t THEN 0 ELSE d.tokensNeeded[u]
  BY <1>6, <1>7, <1>8, SemGetFields DEF e, tail
<1>10. Chained(e.blockedHead[s], e.nextSemBlocked, r)
  <2>1. e.blockedHead[s] = IF p = 1 THEN At(q, 2) ELSE d.blockedHead[s]
    <3>1. p = 1 => p + 1 = 2
      OBVIOUS
    <3> QED  BY <1>8, <1>9, <3>1 DEF n
  <2>2. \A u \in Threads : e.nextSemBlocked[u] = IF u = q[p] THEN Null
                                           ELSE IF u = At(q, p - 1) THEN At(q, p + 1)
                                           ELSE d.nextSemBlocked[u]
    BY <1>4, <1>9 DEF before, n
  <2>3. /\ IsList(q) /\ IsList(r) /\ Removed(r, q, p) /\ p \in 1 .. Len(q)
        /\ Chained(d.blockedHead[s], d.nextSemBlocked, q)
    BY <1>3, <1>4 DEF m
  <2> DEFINE head == e.blockedHead[s]  links == e.nextSemBlocked
             oldHead == d.blockedHead[s]  oldLinks == d.nextSemBlocked
  <2> HIDE DEF head, links, oldHead, oldLinks
  <2>4. Chained(head, links, r)
    BY <2>1, <2>2, <2>3, RemoveChained, SMTT(30) DEF head, links, oldHead, oldLinks
  <2> QED  BY <2>4 DEF head, links
<1>11. e.blockedTail[s] = At(r, Len(r))
  <2>1. Len(r) = m - 1 /\ \A i \in 1 .. m - 1 : r[i] = q[IF i < p THEN i ELSE i + 1]
    BY <1>4 DEF Removed, m
  <2>2. CASE m = 1
    <3>1. p = 1 /\ p = m /\ Len(r) = 0 /\ 0 \notin 1 .. 0
      BY <1>5, <2>1, <2>2
    <3>2. At(r, 0) = Null
      BY <1>4, <3>1, ListFacts
    <3> QED  BY <1>8, <1>9, <3>1, <3>2
  <2>3. CASE m # 1
    <3>1. m - 1 \in 1 .. m - 1 /\ m - 1 \in 1 .. Len(r) /\ (m - 1) + 1 = m
          /\ m \in 1 .. m /\ (m - 1 < p <=> p = m)
      BY <1>5, <2>1, <2>3
    <3>2. At(r, m - 1) = r[m - 1]
      BY <1>4, <3>1, ListFacts
    <3>3. tail = q[m]
      BY <1>3, <1>5, <3>1
    <3>4. CASE p = m
      <4>1. p # 1 /\ p - 1 \in 1 .. m /\ m - 1 = p - 1 /\ m - 1 < p
        BY <1>5, <2>3, <3>1, <3>4
      <4>2. r[m - 1] = before
        BY <1>5, <2>1, <3>1, <4>1 DEF before
      <4> QED  BY <1>4, <1>8, <1>9, <2>1, <3>2, <3>3, <3>4, <4>1, <4>2
    <3>5. CASE p # m
      <4>1. ~(m - 1 < p)
        BY <3>1, <3>5
      <4>2. r[m - 1] = tail /\ tail # t
        BY <1>4, <1>5, <2>1, <3>1, <3>3, <3>5, <4>1
      <4> QED  BY <1>8, <1>9, <2>1, <3>2, <3>5, <4>2
    <3> QED  BY <3>4, <3>5
  <2> QED  BY <2>2, <2>3
<1>12. SemIs(e, s, M[s])
  <2>1. M[s] = r
    BY DEF r, q
  <2>2. \A u \in Threads : u \in Range(r) <=> e.blockedAtSem[u] = s
    BY <1>2, <1>3, <1>4, <1>9
  <2> QED  BY <1>4, <1>10, <1>11, <2>1, <2>2 DEF SemIs
<1>13. ASSUME NEW x \in Sems, x # s PROVE SemIs(e, x, M[x])
  <2>1. t \notin Range(L[x]) /\ Range(L[s]) \cap Range(L[x]) = {}
    <3>1. Range(L[s]) \cap Range(L[x]) = {}
      BY <1>13, BlockedApart
    <3> QED  BY <1>1, <1>13, <3>1
  <2>2. M[x] = L[x]
    BY <1>1, <2>1, WithoutStranger
  <2>3. e.blockedHead[x] = d.blockedHead[x] /\ e.blockedTail[x] = d.blockedTail[x]
    BY <1>9, <1>13
  <2>4. \A u \in Range(L[x]) : e.nextSemBlocked[u] = d.nextSemBlocked[u]
    <3>1. Range(L[x]) \subseteq Threads
      BY <1>1, ListFacts
    <3>2. \A u \in Range(L[x]) : u # t /\ u # before
      BY <1>2, <1>8, <2>1, <3>1 DEF q
    <3> QED  BY <1>9, <3>1, <3>2
  <2>5. Chained(e.blockedHead[x], e.nextSemBlocked, L[x])
    <3>1. IsList(L[x]) /\ Chained(e.blockedHead[x], d.nextSemBlocked, L[x])
      BY <1>1, <2>3
    <3> QED  BY <2>4, <3>1, ChainedElsewhere
  <2>6. \A u \in Threads : u \in Range(L[x]) <=> e.blockedAtSem[u] = x
    <3> TAKE u \in Threads
    <3>1. u \in Range(L[x]) <=> d.blockedAtSem[u] = x
      BY <1>1
    <3>2. e.blockedAtSem[u] = IF u = t THEN Null ELSE d.blockedAtSem[u]
      BY <1>9
    <3> QED  BY <1>2, <2>1, <3>1, <3>2
  <2> QED  BY <1>1, <2>2, <2>3, <2>5, <2>6 DEF SemIs
<1>14. \A u \in Threads : e.blockedAtSem[u] = Null => e.nextSemBlocked[u] = Null
  <2> TAKE u \in Threads
  <2> HAVE e.blockedAtSem[u] = Null
  <2>1. CASE u = t
    BY <1>9, <2>1
  <2>2. CASE u # t
    <3>1. d.blockedAtSem[u] = Null
      BY <1>9, <2>2
    <3>2. u # before
      BY <1>2, <1>3, <1>8, <3>1
    <3> QED  BY <1>1, <1>9, <2>2, <3>1, <3>2
  <2> QED  BY <2>1, <2>2
<1>15. BlockedAre(e, M)
  BY <1>12, <1>13, <1>14 DEF BlockedAre
<1> QED  BY <1>9, <1>15 DEF e

-----------------------------------------------------------------------------
(***************************************************************************)
(* Putting a thread into the sleep list, before the first that wakes later.*)
(***************************************************************************)
\* The two ways to link t, member by member: behind "before", or first.
LEMMA SleepLinkFields ==
  ASSUME NEW d \in Mems, NEW t \in Threads, NEW left \in Nat,
         NEW before \in Links, before # t,
         NEW n \in Links, n = (IF before = Null THEN d.sleepHead ELSE d.nextSleep[before]),
         n # t, n # Null => left <= d.timeSleepRelative[n]
  PROVE  LET e == IF before = Null THEN putFirst(d, t, left)
                  ELSE putAfter(d, before, t, left)
         IN  /\ e \in Mems /\ SameReady(d, e) /\ SameBlocked(d, e) /\ SamePlain(d, e)
             /\ e.sleeps = d.sleeps
             /\ e.sleepHead = (IF before = Null THEN t ELSE d.sleepHead)
             /\ \A u \in Threads :
                  /\ e.nextSleep[u] = IF u = t THEN n
                                      ELSE IF u = before THEN t ELSE d.nextSleep[u]
                  /\ e.timeSleepRelative[u] =
                       IF u = t THEN left
                       ELSE IF u = n THEN d.timeSleepRelative[u] - left
                       ELSE d.timeSleepRelative[u]
<1> DEFINE shorter == IF n = Null THEN d
                      ELSE [d EXCEPT !.timeSleepRelative[n] = @ - left]
           e == IF before = Null THEN putFirst(d, t, left)
                ELSE putAfter(d, before, t, left)
<1>1. Null \notin Threads
  BY ThreadsAssumption
<1>2. e = IF before = Null
          THEN [shorter EXCEPT !.timeSleepRelative[t] = left,
                               !.nextSleep[t] = n, !.sleepHead = t]
          ELSE [shorter EXCEPT !.timeSleepRelative[t] = left,
                               !.nextSleep[t] = n, !.nextSleep[before] = t]
  BY DEF putFirst, putAfter
<1>3. /\ shorter \in Mems /\ SameReady(d, shorter) /\ SameBlocked(d, shorter)
      /\ SamePlain(d, shorter)
      /\ shorter.sleepHead = d.sleepHead /\ shorter.sleeps = d.sleeps
      /\ shorter.nextSleep = d.nextSleep
      /\ \A u \in Threads : shorter.timeSleepRelative[u] =
           IF u = n THEN d.timeSleepRelative[u] - left ELSE d.timeSleepRelative[u]
  <2>1. CASE n = Null
    BY <1>1, <2>1 DEF SameReady, SameBlocked, SamePlain, SameValues
  <2>2. CASE n # Null
    <3> DEFINE v == d.timeSleepRelative[n] - left
    <3>1. n \in Threads /\ v \in Nat
      <4>1. n \in Threads /\ d.timeSleepRelative[n] \in Nat /\ left <= d.timeSleepRelative[n]
        BY <2>2 DEF Links, Mems
      <4> QED  BY <4>1
    <3>2. shorter = [d EXCEPT !.timeSleepRelative[n] = v]
      BY <2>2, <3>1
    <3> HIDE DEF shorter, v
    <3>3. /\ shorter \in Mems /\ SameReady(d, shorter) /\ SameBlocked(d, shorter)
          /\ SamePlain(d, shorter)
          /\ shorter.sleepHead = d.sleepHead /\ shorter.sleeps = d.sleeps
          /\ shorter.nextSleep = d.nextSleep
          /\ \A u \in Threads : shorter.timeSleepRelative[u] =
               IF u = n THEN v ELSE d.timeSleepRelative[u]
      BY <3>1, <3>2 DEF Mems, SameReady, SameBlocked, SamePlain, SameValues
    <3> QED  BY <3>3 DEF v
  <2> QED  BY <2>1, <2>2
<1> HIDE DEF shorter, e
<1>4. /\ e \in Mems /\ SameReady(shorter, e) /\ SameBlocked(shorter, e)
      /\ SamePlain(shorter, e) /\ e.sleeps = shorter.sleeps
      /\ e.sleepHead = (IF before = Null THEN t ELSE shorter.sleepHead)
      /\ \A u \in Threads :
           /\ e.nextSleep[u] = IF u = t THEN n
                               ELSE IF u = before THEN t ELSE shorter.nextSleep[u]
           /\ e.timeSleepRelative[u] = IF u = t THEN left ELSE shorter.timeSleepRelative[u]
  <2>1. CASE before = Null
    BY <1>1, <1>2, <1>3, <2>1, ZenonT(30)
       DEF Mems, Links, SameReady, SameBlocked, SamePlain, SameValues
  <2>2. CASE before # Null
    <3>1. e = [shorter EXCEPT !.timeSleepRelative[t] = left,
                              !.nextSleep[t] = n, !.nextSleep[before] = t]
      BY <1>2, <2>2
    <3>2. before \in Threads
      BY <2>2 DEF Links
    <3> QED  BY <1>1, <1>3, <2>2, <3>1, <3>2, ZenonT(30)
                DEF Mems, Links, SameReady, SameBlocked, SamePlain, SameValues
  <2> QED  BY <2>1, <2>2
<1>5. SameReady(d, e) /\ SameBlocked(d, e) /\ SamePlain(d, e)
  BY <1>3, <1>4 DEF SameReady, SameBlocked, SamePlain, SameValues
<1>6. /\ e.sleeps = d.sleeps
      /\ e.sleepHead = (IF before = Null THEN t ELSE d.sleepHead)
  BY <1>3, <1>4
<1>7. \A u \in Threads :
        /\ e.nextSleep[u] = IF u = t THEN n
                            ELSE IF u = before THEN t ELSE d.nextSleep[u]
        /\ e.timeSleepRelative[u] =
             IF u = t THEN left
             ELSE IF u = n THEN d.timeSleepRelative[u] - left
             ELSE d.timeSleepRelative[u]
  BY <1>3, <1>4
<1> QED  BY <1>4, <1>5, <1>6, <1>7 DEF e

\* The differences and the ticks when t has joined, n behind it.
Joined(diff, ticks, newDiff, newTicks, t, n, left, timeout) ==
  \A u \in Threads :
    /\ newDiff[u] = IF u = t THEN left ELSE IF u = n THEN diff[u] - left ELSE diff[u]
    /\ newTicks[u] = IF u = t THEN timeout ELSE ticks[u]

\* The ticks of the member at position p; 0 before the first.
TicksAt(ticks, q, p) == IF p = 0 THEN 0 ELSE ticks[q[p]]

\* The differences sum up with the one that joined behind position p.
LEMMA DifferencesWith ==
  ASSUME NEW q, IsList(q), NEW r, IsList(r), NEW p \in 0 .. Len(q), NEW t \in Threads,
         Inserted(r, q, p, t), t \notin Range(q), Range(r) = Range(q) \cup {t},
         NEW diff \in [Threads -> Nat], NEW ticks \in [Threads -> Nat],
         Differences(diff, q, ticks), NEW newDiff, NEW newTicks, NEW timeout \in Nat,
         TicksAt(ticks, q, p) <= timeout,
         Joined(diff, ticks, newDiff, newTicks, t, At(q, p + 1),
                timeout - TicksAt(ticks, q, p), timeout)
  PROVE  Differences(newDiff, r, newTicks)
<1> DEFINE m == Len(q)  left == timeout - TicksAt(ticks, q, p)
<1>1. /\ m \in Nat /\ DOMAIN q = 1 .. m /\ p \in 0 .. m
      /\ \A i \in 1 .. m : q[i] \in Threads /\ At(q, i) = q[i]
      /\ \A i : i \notin 1 .. m => At(q, i) = Null
      /\ \A i, j \in 1 .. m : q[i] = q[j] => i = j
      /\ \A i \in 1 .. m : q[i] # t /\ q[i] \in Range(q)
  BY ListFacts
<1>2. /\ DOMAIN r = 1 .. m + 1
      /\ \A i \in 1 .. m + 1 :
           r[i] = IF i <= p THEN q[i] ELSE IF i = p + 1 THEN t ELSE q[i - 1]
  BY ListFacts DEF Inserted
<1>3. /\ \A i \in 1 .. m : ticks[q[i]] = diff[q[i]] + IF i = 1 THEN 0 ELSE ticks[q[i - 1]]
      /\ \A u \in Threads \ Range(q) : diff[u] = 0 /\ ticks[u] = 0
  BY <1>1 DEF Differences
<1>4. \A u \in Threads :
        /\ newDiff[u] = IF u = t THEN left
                        ELSE IF u = At(q, p + 1) THEN diff[u] - left ELSE diff[u]
        /\ newTicks[u] = IF u = t THEN timeout ELSE ticks[u]
  BY DEF Joined
<1>5. \A i \in 1 .. m : /\ diff[q[i]] \in Nat /\ ticks[q[i]] \in Nat
                        /\ newTicks[q[i]] = ticks[q[i]]
                        /\ newDiff[q[i]] = IF i = p + 1 THEN diff[q[i]] - left ELSE diff[q[i]]
  <2> TAKE i \in 1 .. m
  <2>1. q[i] = At(q, p + 1) <=> i = p + 1
    <3>1. CASE p + 1 \in 1 .. m
      BY <1>1, <3>1
    <3>2. CASE p + 1 \notin 1 .. m
      <4>1. Null \notin Threads
        BY ThreadsAssumption
      <4> QED  BY <1>1, <3>2, <4>1
    <3> QED  BY <3>1, <3>2
  <2>2. q[i] \in Threads /\ q[i] # t
    BY <1>1
  <2> QED  BY <1>4, <2>1, <2>2
<1>6. newTicks[t] = timeout /\ newDiff[t] = left
  BY <1>4
<1>7. /\ m \in Nat /\ p \in Nat /\ p <= m
      /\ left = timeout - TicksAt(ticks, q, p) /\ left \in Nat
      /\ TicksAt(ticks, q, p) = IF p = 0 THEN 0 ELSE ticks[q[p]]
  <2>1. m \in Nat /\ p \in Nat /\ p <= m
    BY <1>1
  <2>2. p # 0 => p \in 1 .. m
    BY <2>1
  <2>3. TicksAt(ticks, q, p) \in Nat
    BY <1>1, <2>2 DEF TicksAt
  <2> QED  BY <2>1, <2>3 DEF TicksAt
<1> HIDE DEF m, left
<1>8. ASSUME NEW i \in 1 .. m + 1
      PROVE  newTicks[r[i]] = newDiff[r[i]] + IF i = 1 THEN 0 ELSE newTicks[r[i - 1]]
  <2>1. i # 1 => i - 1 \in 1 .. m /\ i - 1 \in 1 .. m + 1
    BY <1>7
  <2>2. CASE i <= p
    <3>1. i \in 1 .. m /\ i - 1 <= p /\ i # p + 1
      BY <1>7, <2>2
    <3>2. r[i] = q[i] /\ (i # 1 => r[i - 1] = q[i - 1])
      BY <1>2, <2>1, <2>2, <3>1
    <3>3. newTicks[q[i]] = ticks[q[i]] /\ newDiff[q[i]] = diff[q[i]]
      BY <1>5, <3>1
    <3>4. i # 1 => newTicks[q[i - 1]] = ticks[q[i - 1]]
      BY <1>5, <2>1
    <3> QED  BY <1>3, <3>1, <3>2, <3>3, <3>4
  <2>3. CASE i = p + 1
    <3>1. ~(i <= p) /\ i - 1 = p /\ i - 1 <= p /\ (i = 1 <=> p = 0)
      BY <1>7, <2>3
    <3>2. r[i] = t /\ (i # 1 => r[i - 1] = q[p])
      BY <1>2, <2>1, <2>3, <3>1
    <3>3. p # 0 => newTicks[q[p]] = ticks[q[p]] /\ ticks[q[p]] \in Nat
      BY <1>5, <2>1, <3>1
    <3>4. timeout = left + TicksAt(ticks, q, p)
      <4>1. TicksAt(ticks, q, p) \in Nat
        BY <1>7, <3>3
      <4> QED  BY <1>7, <4>1
    <3>5. (IF i = 1 THEN 0 ELSE newTicks[r[i - 1]]) = TicksAt(ticks, q, p)
      BY <1>7, <3>1, <3>2, <3>3
    <3> QED  BY <1>6, <3>2, <3>4, <3>5
  <2>4. CASE i = p + 2
    <3>1. /\ ~(i <= p) /\ i # p + 1 /\ i - 1 = p + 1 /\ ~(i - 1 <= p) /\ i # 1
          /\ i - 1 \in 1 .. m /\ (i - 1 = 1 <=> p = 0) /\ (i - 1) - 1 = p
      BY <1>7, <2>4
    <3>2. r[i] = q[i - 1] /\ r[i - 1] = t
      BY <1>2, <2>1, <3>1
    <3>3. newTicks[q[i - 1]] = ticks[q[i - 1]] /\ newDiff[q[i - 1]] = diff[q[i - 1]] - left
      BY <1>5, <3>1
    <3>4. ticks[q[i - 1]] = diff[q[i - 1]] + TicksAt(ticks, q, p)
      <4>1. ticks[q[i - 1]] = diff[q[i - 1]] + IF i - 1 = 1 THEN 0 ELSE ticks[q[(i - 1) - 1]]
        BY <1>3, <3>1
      <4> QED  BY <1>7, <3>1, <4>1
    <3>5. TicksAt(ticks, q, p) \in Nat /\ diff[q[i - 1]] \in Nat
      <4>1. p # 0 => p \in 1 .. m
        BY <1>7
      <4>2. diff[q[i - 1]] \in Nat /\ (p # 0 => ticks[q[p]] \in Nat)
        BY <1>5, <3>1, <4>1
      <4> QED  BY <4>2 DEF TicksAt
    <3> DEFINE here == TicksAt(ticks, q, p)  x == diff[q[i - 1]]
    <3>6. here \in Nat /\ x \in Nat /\ left \in Nat /\ left = timeout - here
      BY <1>7, <3>5
    <3>7. x + here = (x - left) + timeout
      <4> HIDE DEF here, x
      <4> QED  BY <3>6
    <3>8. newTicks[r[i]] = x + here /\ newDiff[r[i]] = x - left /\ newTicks[r[i - 1]] = timeout
      BY <1>6, <3>2, <3>3, <3>4
    <3> HIDE DEF here, x
    <3> QED  BY <3>1, <3>7, <3>8
  <2>5. CASE i > p + 2
    <3>1. /\ ~(i <= p) /\ i # p + 1 /\ i - 1 # p + 1 /\ ~(i - 1 <= p) /\ i # 1
          /\ i - 1 \in 1 .. m /\ i - 1 # 1 /\ (i - 1) - 1 \in 1 .. m
      BY <1>7, <2>5
    <3>2. r[i] = q[i - 1] /\ r[i - 1] = q[(i - 1) - 1]
      BY <1>2, <2>1, <3>1
    <3>3. newTicks[q[i - 1]] = ticks[q[i - 1]] /\ newDiff[q[i - 1]] = diff[q[i - 1]]
      BY <1>5, <3>1
    <3>4. newTicks[q[(i - 1) - 1]] = ticks[q[(i - 1) - 1]]
      BY <1>5, <3>1
    <3>5. ticks[q[i - 1]] = diff[q[i - 1]] + ticks[q[(i - 1) - 1]]
      BY <1>3, <3>1
    <3> QED  BY <3>1, <3>2, <3>3, <3>4, <3>5
  <2> QED  BY <1>7, <2>2, <2>3, <2>4, <2>5
<1>9. ASSUME NEW u \in Threads \ Range(r) PROVE newDiff[u] = 0 /\ newTicks[u] = 0
  <2>1. u # t /\ u \notin Range(q)
    OBVIOUS
  <2>2. u # At(q, p + 1)
    <3>1. CASE p + 1 \in 1 .. m
      BY <1>1, <2>1, <3>1
    <3>2. CASE p + 1 \notin 1 .. m
      <4>1. Null \notin Threads
        BY ThreadsAssumption
      <4> QED  BY <1>1, <3>2, <4>1
    <3> QED  BY <3>1, <3>2
  <2> QED  BY <1>3, <1>4, <2>1, <2>2
<1> QED  BY <1>2, <1>8, <1>9 DEF Differences

\* The loop of Sleep::put stops at the last thread that wakes no later.
LEMMA SearchIs ==
  ASSUME NEW d \in Mems, NEW q, NEW ticks, SleepIs(d, q, ticks), NEW timeout \in Nat,
         NEW c \in 1 .. Len(q), \A i \in 1 .. Len(q) : ticks[q[i]] <= timeout <=> i <= c
  PROVE  search(d, q[1], timeout - d.timeSleepRelative[q[1]])
           = [target |-> q[c], left |-> timeout - ticks[q[c]]]
<1> DEFINE n == c - 1  m == Len(q)  diff == d.timeSleepRelative
           next(at)  == d.nextSleep[at.target]
           going(at) == next(at) # Null /\ d.timeSleepRelative[next(at)] <= at.left
           step(at)  == [target |-> next(at),
                         left   |-> at.left - d.timeSleepRelative[next(at)]]
           stage(i) == [target |-> q[i + 1], left |-> timeout - ticks[q[i + 1]]]
           S == [i \in 0 .. n |-> {stage(i)}]
           F == [x \in UNION {S[j] : j \in 0 .. n} |-> IF going(x) THEN step(x) ELSE x]
           from == [target |-> q[1], left |-> timeout - d.timeSleepRelative[q[1]]]
           Looped(g) == g = [i \in 0 .. Rounds |->
             IF i = 0 THEN from
             ELSE LET now == g[i - 1] IN IF going(now) THEN step(now) ELSE now]
<1>1. /\ IsList(q) /\ ticks \in [Threads -> Nat]
      /\ Chained(d.sleepHead, d.nextSleep, q)
      /\ Differences(d.timeSleepRelative, q, ticks)
  BY DEF SleepIs
<1>2. /\ m \in Nat /\ DOMAIN q = 1 .. m
      /\ \A i \in 1 .. m : q[i] \in Threads /\ q[i] # Null /\ At(q, i) = q[i]
      /\ \A i : i \notin 1 .. m => At(q, i) = Null
  BY <1>1, ListFacts
<1>3. /\ m \in Nat /\ c \in Nat /\ 1 <= c /\ c <= m /\ n \in Nat /\ n = c - 1
  BY <1>2
<1>4. /\ \A i \in 1 .. m : d.nextSleep[q[i]] = At(q, i + 1)
      /\ \A i \in 1 .. m : ticks[q[i]] = diff[q[i]] + IF i = 1 THEN 0 ELSE ticks[q[i - 1]]
      /\ \A i \in 1 .. m : ticks[q[i]] \in Nat /\ diff[q[i]] \in Nat
      /\ \A i \in 1 .. m : ticks[q[i]] <= timeout <=> i <= c
  <2>1. diff \in [Threads -> Nat]
    BY MemFields
  <2>2. \A i \in 1 .. m : ticks[q[i]] = diff[q[i]] + IF i = 1 THEN 0 ELSE ticks[q[i - 1]]
    BY <1>1, <1>2 DEF Differences
  <2>3. \A i \in 1 .. m : d.nextSleep[q[i]] = At(q, i + 1)
    BY <1>1, <1>2 DEF Chained
  <2>4. \A i \in 1 .. m : ticks[q[i]] \in Nat /\ diff[q[i]] \in Nat
    BY <1>1, <1>2, <2>1
  <2> QED  BY <2>2, <2>3, <2>4
<1> HIDE DEF m
<1>5. Rounds \in Nat /\ n <= Rounds
  <2>1. m < Rounds /\ Rounds \in Nat
    BY <1>1, RoundsEnough DEF m
  <2> QED  BY <1>3, <2>1
<1>6. \A i \in 0 .. n : (going(stage(i)) <=> i < n) /\ (i < n => step(stage(i)) = stage(i + 1))
  <2> TAKE i \in 0 .. n
  <2>1. i \in Nat /\ i + 1 \in 1 .. m /\ (i < n <=> i + 2 <= c) /\ (i + 1) + 1 = i + 2
    BY <1>3
  <2>2. next(stage(i)) = At(q, i + 2) /\ stage(i).left = timeout - ticks[q[i + 1]]
    BY <1>4, <2>1
  <2>3. CASE i + 2 \notin 1 .. m
    <3>1. ~(i < n)
      BY <1>3, <2>1, <2>3
    <3>2. At(q, i + 2) = Null
      BY <1>2, <2>3
    <3> QED  BY <2>2, <3>1, <3>2
  <2>4. CASE i + 2 \in 1 .. m
    <3>1. At(q, i + 2) = q[i + 2] /\ q[i + 2] # Null
      BY <1>2, <2>4
    <3>2. i + 2 # 1 /\ (i + 2) - 1 = i + 1
      BY <2>1
    <3>3. ticks[q[i + 2]] = diff[q[i + 2]] + ticks[q[i + 1]]
      BY <1>4, <2>4, <3>2
    <3> DEFINE a == ticks[q[i + 1]]  b == diff[q[i + 2]]
    <3>4. a \in Nat /\ b \in Nat /\ ticks[q[i + 2]] = b + a
      BY <1>4, <2>1, <2>4, <3>3
    <3>5. (b + a <= timeout <=> i < n)
      BY <1>4, <2>1, <2>4, <3>4
    <3>6. /\ going(stage(i)) <=> b <= timeout - a
          /\ step(stage(i)) = [target |-> q[i + 2], left |-> (timeout - a) - b]
      BY <2>2, <3>1
    <3>7. stage(i + 1) = [target |-> q[i + 2], left |-> timeout - (b + a)]
      BY <2>1, <3>4
    <3> HIDE DEF a, b, stage, going, step
    <3>8. (b <= timeout - a <=> b + a <= timeout) /\ (timeout - a) - b = timeout - (b + a)
      BY <3>4
    <3> QED  BY <3>5, <3>6, <3>7, <3>8
  <2> QED  BY <2>3, <2>4
<1>7. from = stage(0)
  <2>1. 1 \in 1 .. m /\ 0 + 1 = 1
    BY <1>3
  <2>2. ticks[q[1]] = diff[q[1]]
    BY <1>4, <2>1
  <2> QED  BY <2>1, <2>2
<1>8. \A j \in 0 .. n : S[j] = {stage(j)}
  OBVIOUS
<1> HIDE DEF n, stage, going, step, from, next, diff
<1>9. LeadsOn(F, S, n)
  <2> SUFFICES ASSUME NEW j \in 0 .. n, NEW x \in S[j] PROVE F[x] \in S[After(j, n)]
    BY DEF LeadsOn
  <2>1. x = stage(j) /\ F[x] = IF going(x) THEN step(x) ELSE x
    OBVIOUS
  <2>2. After(j, n) \in 0 .. n /\ (j < n => After(j, n) = j + 1) /\ (~(j < n) => After(j, n) = j)
    BY <1>3 DEF After
  <2> HIDE DEF F, S
  <2> QED  BY <1>6, <1>8, <2>1, <2>2
<1>10. from \in S[0] /\ 0 \in 0 .. n /\ n \in 0 .. n
  BY <1>3, <1>7, <1>8
<1>11. \E f : Walks(f, from, F, Rounds) /\ Staged(f, S, n, Rounds)
  <2> HIDE DEF F, S
  <2> QED  BY <1>3, <1>5, <1>9, <1>10, LoopExists
<1>12. PICK f : Walks(f, from, F, Rounds) /\ Staged(f, S, n, Rounds)
  BY <1>11
<1>13. Looped(f)
  <2>1. \A i \in 0 .. Rounds : f[i] \in UNION {S[j] : j \in 0 .. n}
    BY <1>12 DEF Staged
  <2>2. \A i \in 0 .. Rounds : i # 0 => i - 1 \in 0 .. Rounds
    BY <1>5
  <2>3. \A i \in 0 .. Rounds : i # 0 =>
          F[f[i - 1]] = IF going(f[i - 1]) THEN step(f[i - 1]) ELSE f[i - 1]
    BY <2>1, <2>2
  <2> HIDE DEF F, S
  <2> QED  BY <1>12, <2>3 DEF Walks
<1> DEFINE after == CHOOSE g : Looped(g)
<1>14. Looped(after)
  BY <1>13
<1>15. search(d, q[1], timeout - d.timeSleepRelative[q[1]]) = after[Rounds]
  BY DEF search, While, going, step, from, next
<1> HIDE DEF after
<1>16. /\ after[0] = from
       /\ \A i \in 1 .. Rounds :
            after[i] = IF going(after[i - 1]) THEN step(after[i - 1]) ELSE after[i - 1]
  <2>1. \A i \in 1 .. Rounds : i \in 0 .. Rounds /\ i # 0
    BY <1>5
  <2>2. 0 \in 0 .. Rounds
    BY <1>5
  <2> QED  BY <1>14, <2>1, <2>2
<1>17. Proceeds(after, S, n, Rounds)
  <2>1. \A i \in 1 .. Rounds : \A j \in 0 .. n :
          after[i - 1] \in S[j] => after[i] = F[after[i - 1]]
    BY <1>16
  <2> HIDE DEF F, S
  <2> QED  BY <1>9, <1>10, <1>16, <2>1 DEF Proceeds, LeadsOn
<1>18. after[Rounds] \in S[n]
  <2> HIDE DEF S
  <2> QED  BY <1>3, <1>5, <1>17, StagesReached
<1>19. after[Rounds] = stage(n)
  BY <1>8, <1>10, <1>18
<1>20. n + 1 = c
  BY <1>3
<1> QED  BY <1>15, <1>19, <1>20 DEF stage

\* The threads that wake no later than timeout are the first ones of the list.
LEMMA FirstToWake ==
  ASSUME NEW q, IsList(q), NEW ticks \in [Threads -> Nat], InOrder(q, ticks),
         NEW timeout \in Nat
  PROVE  \E c \in 0 .. Len(q) : \A i \in 1 .. Len(q) : ticks[q[i]] <= timeout <=> i <= c
<1> DEFINE T == {i \in 1 .. Len(q) + 1 : i = Len(q) + 1 \/ ticks[q[i]] > timeout}
<1>1. /\ Len(q) \in Nat /\ DOMAIN q = 1 .. Len(q)
      /\ \A i \in 1 .. Len(q) : q[i] \in Threads
  BY ListFacts
<1>2. \A i \in 1 .. Len(q) : ticks[q[i]] \in Nat
  BY <1>1
<1>3. T \subseteq Nat /\ Len(q) + 1 \in T
  BY <1>1
<1>4. PICK m \in T : \A y \in T : m <= y
  <2> HIDE DEF T
  <2> QED  BY <1>3, LeastNat
<1>5. m \in 1 .. Len(q) + 1 /\ m - 1 \in 0 .. Len(q)
  BY <1>1
<1>6. ASSUME NEW i \in 1 .. Len(q)
      PROVE  ticks[q[i]] <= timeout <=> i <= m - 1
  <2>1. i \in Nat /\ m \in Nat
    BY <1>1, <1>5
  <2>2. CASE i < m
    <3>1. i \notin T
      <4> HIDE DEF T
      <4> QED  BY <1>4, <2>2, <2>1, <1>3
    <3>2. ~(ticks[q[i]] > timeout)
      BY <3>1, <1>1
    <3> QED  BY <3>2, <2>1, <2>2, <1>2
  <2>3. CASE m <= i
    <3>1. m \in 1 .. Len(q) /\ m # Len(q) + 1
      BY <2>3, <1>5, <1>1
    <3>2. ticks[q[m]] > timeout
      BY <3>1
    <3>3. ticks[q[m]] <= ticks[q[i]]
      <4>1. CASE m = i
        BY <4>1, <1>2
      <4>2. CASE m < i
        BY <4>2, <3>1, <1>1 DEF InOrder
      <4> QED  BY <4>1, <4>2, <2>1, <2>3
    <3>4. ticks[q[m]] \in Nat /\ ticks[q[i]] \in Nat
      BY <1>2, <3>1
    <3> QED  BY <3>2, <3>3, <3>4, <2>1, <2>3
  <2> QED  BY <2>1, <2>2, <2>3
<1> QED  BY <1>5, <1>6

\* Up to the next number are those up to this one, and the next.
LEMMA OneMore ==
  ASSUME NEW n \in Nat
  PROVE  \A i \in 1 .. n + 1 : i <= n \/ (i = n + 1 /\ i > n)
<1> TAKE i \in 1 .. n + 1
<1>1. i \in Int /\ i <= n + 1
  OBVIOUS
<1>2. i <= n \/ i >= n + 1
  BY <1>1
<1> QED  BY <1>1, <1>2

\* Behind those a thread is put in.
LEMMA CutIn ==
  ASSUME NEW q, IsList(q), NEW W, NEW c \in 0 .. Len(q),
         \A i \in 1 .. Len(q) : q[i] \in W <=> i <= c,
         NEW t \in Threads, t \notin Range(q)
  PROVE  LET r == Only(q, W) \o <<t>> \o Without(q, W)
         IN  IsList(r) /\ Range(r) = Range(q) \cup {t} /\ Inserted(r, q, c, t)
<1> DEFINE a == Only(q, W)
           b == Without(q, W)
           m == <<t>>
           am == a \o m
           r == am \o b
<1>1. /\ IsList(a) /\ Range(a) = Range(q) \cap W
      /\ Len(a) = c /\ \A i \in 1 .. c : a[i] = q[i]
  BY OnlyFirst
<1>2. /\ IsList(b) /\ Range(b) = Range(q) \ W
      /\ Len(b) = Len(q) - c /\ \A i \in 1 .. Len(q) - c : b[i] = q[i + c]
  BY WithoutTheFirst
<1>3. m \in Seq(Threads) /\ Range(m) = {t} /\ IsInjective(m) /\ Len(m) = 1 /\ m[1] = t
  BY SingleList
<1>4. Len(q) \in Nat /\ c \in Nat /\ c <= Len(q)
  BY ListFacts
<1> HIDE DEF a, b, m
<1>5. a \in Seq(Threads) /\ IsInjective(a) /\ b \in Seq(Threads) /\ IsInjective(b)
  BY <1>1, <1>2 DEF IsList
<1>6. am \in Seq(Threads) /\ Range(am) = Range(a) \cup {t} /\ IsInjective(am)
  <2>1. Range(a) \cap Range(m) = {}
    BY <1>1, <1>3
  <2>2. /\ a \o m \in Seq(Threads) /\ Range(a \o m) = Range(a) \cup Range(m)
        /\ IsInjective(a \o m)
    BY <2>1, <1>5, <1>3, ConcatList
  <2> QED  BY <2>2, <1>3
<1>7. Len(am) = c + 1 /\ \A i \in 1 .. c + 1 : am[i] = IF i <= c THEN q[i] ELSE t
  <2>1. /\ Len(am) = Len(a) + Len(m)
        /\ \A i \in 1 .. Len(a) + Len(m) :
             am[i] = IF i <= Len(a) THEN a[i] ELSE m[i - Len(a)]
    <3>1. a \in Seq(Threads) /\ m \in Seq(Threads)
      BY <1>5, <1>3
    <3> QED  BY <3>1
  <2>2. ASSUME NEW i \in 1 .. c + 1
        PROVE  am[i] = IF i <= c THEN q[i] ELSE t
    <3>1. i <= c \/ (i = c + 1 /\ i > c)
      BY <1>4, OneMore
    <3>2. CASE i <= c
      BY <3>2, <2>1, <1>1, <1>3, <1>4
    <3>3. CASE i = c + 1
      BY <3>3, <2>1, <1>1, <1>3, <1>4
    <3> QED  BY <3>1, <3>2, <3>3
  <2> QED  BY <2>1, <2>2, <1>1, <1>3
<1> HIDE DEF am
<1>8. r \in Seq(Threads) /\ Range(r) = Range(am) \cup Range(b) /\ IsInjective(r)
  <2>1. Range(am) \cap Range(b) = {}
    BY <1>1, <1>2, <1>6
  <2> QED  BY <2>1, <1>5, <1>6, ConcatList
<1>9. /\ Len(r) = Len(am) + Len(b)
      /\ \A i \in 1 .. Len(am) + Len(b) :
           r[i] = IF i <= Len(am) THEN am[i] ELSE b[i - Len(am)]
  BY <1>5, <1>6
<1>10. Len(r) = Len(q) + 1
  BY <1>9, <1>7, <1>2, <1>4
<1>11. ASSUME NEW i \in 1 .. Len(q) + 1
       PROVE  r[i] = IF i <= c THEN q[i] ELSE IF i = c + 1 THEN t ELSE q[i - 1]
  <2>1. i \in 1 .. Len(am) + Len(b) /\ i \in Nat
    BY <1>7, <1>2, <1>4
  <2>2. CASE i <= c + 1
    <3>1. r[i] = am[i]
      BY <2>1, <2>2, <1>9, <1>7
    <3>2. i \in 1 .. c + 1
      BY <2>1, <2>2, <1>4
    <3> QED  BY <3>1, <3>2, <1>7, <1>4, <2>2
  <2>3. CASE i > c + 1
    <3>1. r[i] = b[i - (c + 1)]
      BY <2>1, <2>3, <1>9, <1>7, <1>4
    <3>2. i - (c + 1) \in 1 .. Len(q) - c /\ i - (c + 1) + c = i - 1
      BY <2>3, <2>1, <1>4
    <3> QED  BY <3>1, <3>2, <1>2, <2>3, <1>4
  <2> QED  BY <2>1, <2>2, <2>3, <1>4
<1>12. IsList(r) /\ Inserted(r, q, c, t)
  BY <1>8, <1>10, <1>11 DEF IsList, Inserted
<1>13. Range(r) = Range(q) \cup {t}
  BY <1>8, <1>6, <1>1, <1>2
<1> QED  BY <1>12, <1>13 DEF r, am, a, b, m

\* Sleep::put: tcb comes behind every thread that wakes no later, with what
\* is left of its ticks, and the thread behind it counts from it.
LEMMA SleepPutDoes ==
  ASSUME NEW d \in Mems, NEW q, NEW ticks, SleepIs(d, q, ticks), InOrder(q, ticks),
         NEW t \in Threads, t \notin Range(q), NEW timeout \in Nat, NEW W,
         \A i \in 1 .. Len(q) : q[i] \in W <=> ticks[q[i]] <= timeout,
         NEW newTicks \in [Threads -> Nat],
         \A u \in Threads : newTicks[u] = IF u = t THEN timeout ELSE ticks[u]
  PROVE  LET e == sleepPut(d, t, timeout)
         IN  /\ e \in Mems /\ SameReady(d, e) /\ SameBlocked(d, e) /\ SamePlain(d, e)
             /\ SleepIs(e, Only(q, W) \o <<t>> \o Without(q, W), newTicks)
<1> DEFINE r == Only(q, W) \o <<t>> \o Without(q, W)
           diff == d.timeSleepRelative
<1>1. /\ IsList(q) /\ ticks \in [Threads -> Nat]
      /\ Chained(d.sleepHead, d.nextSleep, q) /\ d.sleeps = Range(q)
      /\ LinksBelong(d.nextSleep, Range(q)) /\ Differences(diff, q, ticks)
  BY DEF SleepIs
<1>2. /\ Len(q) \in Nat /\ DOMAIN q = 1 .. Len(q)
      /\ \A i \in 1 .. Len(q) : q[i] \in Threads /\ q[i] # Null /\ At(q, i) = q[i]
      /\ \A i : i \notin 1 .. Len(q) => At(q, i) = Null
      /\ \A u : u \in Range(q) <=> \E i \in 1 .. Len(q) : q[i] = u
  BY <1>1, ListFacts
<1>3. PICK c \in 0 .. Len(q) : \A i \in 1 .. Len(q) : ticks[q[i]] <= timeout <=> i <= c
  BY <1>1, FirstToWake
<1>4. IsList(r) /\ Range(r) = Range(q) \cup {t} /\ Inserted(r, q, c, t)
  BY <1>1, <1>3, CutIn
<1> DEFINE sum == TicksAt(ticks, q, c)
           left == timeout - sum
           before == At(q, c)
           n == At(q, c + 1)
<1>5. sum \in Nat /\ sum <= timeout
  <2>1. CASE c = 0
    BY <2>1 DEF TicksAt
  <2>2. CASE c # 0
    <3>1. c \in 1 .. Len(q)
      BY <2>2, <1>2
    <3>2. ticks[q[c]] \in Nat /\ ticks[q[c]] <= timeout
      BY <3>1, <1>1, <1>2, <1>3
    <3> QED  BY <3>2, <2>2 DEF TicksAt
  <2> QED  BY <2>1, <2>2
<1>6. left \in Nat
  BY <1>5
<1>7. /\ before = Null <=> c = 0
      /\ before \in Links /\ n \in Links /\ before # t /\ n # t /\ t # Null
  <2>1. t # Null /\ Null \in Links /\ Threads \subseteq Links
    BY ThreadsAssumption DEF Links
  <2>2. \A i : At(q, i) \in Links /\ At(q, i) # t
    BY <1>2, <2>1
  <2> QED  BY <2>1, <2>2, <1>2
<1>8. n = (IF before = Null THEN d.sleepHead ELSE d.nextSleep[before])
  <2>1. CASE c = 0
    BY <2>1, <1>7, <1>1 DEF Chained
  <2>2. CASE c # 0
    BY <2>2, <1>7, <1>1, <1>2 DEF Chained
  <2> QED  BY <2>1, <2>2
<1>9. ASSUME n # Null
      PROVE  /\ c + 1 \in 1 .. Len(q) /\ n = q[c + 1] /\ left < diff[n]
             /\ ticks[n] \in Nat /\ ticks[n] = diff[n] + sum
  <2>1. c + 1 \in 1 .. Len(q) /\ n = q[c + 1]
    BY <1>9, <1>2
  <2>2. diff[n] \in Nat /\ ticks[n] \in Nat
    <3>1. n \in Threads
      BY <2>1, <1>2
    <3>2. diff \in [Threads -> Nat] /\ ticks \in [Threads -> Nat]
      BY <1>1, MemFields
    <3> HIDE DEF n, diff
    <3> QED  BY <3>1, <3>2
  <2>3. ticks[n] = diff[n] + IF c + 1 = 1 THEN 0 ELSE ticks[q[c + 1 - 1]]
    BY <2>1, <1>1, <1>2 DEF Differences
  <2>4. ticks[n] = diff[n] + sum
    <3>1. CASE c = 0
      BY <3>1, <2>3 DEF TicksAt
    <3>2. CASE c # 0
      <4>1. c + 1 # 1 /\ c + 1 - 1 = c
        BY <3>2, <1>2
      <4> QED  BY <4>1, <3>2, <2>3 DEF TicksAt
    <3> QED  BY <3>1, <3>2
  <2>5. ticks[n] > timeout
    <3>1. ~(c + 1 <= c)
      BY <1>2
    <3> QED  BY <3>1, <2>1, <1>3, <2>2
  <2> QED  BY <2>1, <2>2, <2>4, <2>5, <1>5
<1> DEFINE linked == IF before = Null THEN putFirst(d, t, left)
                     ELSE putAfter(d, before, t, left)
           e == sleepPut(d, t, timeout)
<1>10. e = [linked EXCEPT !.sleeps = @ \cup {t}]
  <2> DEFINE h == d.sleepHead
             found == search(d, h, timeout - d.timeSleepRelative[h])
  <2>1. CASE c = 0
    <3>1. left = timeout
      BY <2>1 DEF TicksAt
    <3>2. h = Null \/ timeout < d.timeSleepRelative[h]
      <4>1. h = n
        BY <2>1, <1>7, <1>8
      <4>2. CASE n = Null
        BY <4>1, <4>2
      <4>3. CASE n # Null
        BY <4>1, <4>3, <1>9, <3>1
      <4> QED  BY <4>2, <4>3
    <3> HIDE DEF left
    <3> QED  BY <3>1, <3>2, <2>1, <1>7 DEF sleepPut
  <2>2. CASE c # 0
    <3>1. c \in 1 .. Len(q) /\ 1 \in 1 .. Len(q) /\ 1 <= c
      BY <2>2, <1>2
    <3>2. h = q[1] /\ h # Null
      BY <3>1, <1>1, <1>2 DEF Chained
    <3>3. ticks[q[1]] = diff[q[1]] + 0
      BY <3>1, <1>1, <1>2 DEF Differences
    <3>4. diff[h] \in Nat /\ diff[h] <= timeout
      <4>1. ticks[q[1]] <= timeout
        BY <3>1, <1>3
      <4>2. diff[q[1]] \in Nat
        BY <3>1, <1>2, MemFields
      <4> QED  BY <4>1, <4>2, <3>2, <3>3
    <3>5. ~(h = Null \/ timeout < diff[h])
      BY <3>2, <3>4
    <3>6. found = [target |-> q[c], left |-> timeout - ticks[q[c]]]
      BY <3>1, <3>2, <1>3, SearchIs
    <3>7. found.target = before /\ found.left = left /\ before # Null
      BY <3>6, <2>2, <3>1, <1>2, <1>7 DEF TicksAt
    <3> HIDE DEF left, found, before
    <3>8. sleepPut(d, t, timeout)
            = [putAfter(d, found.target, t, found.left) EXCEPT !.sleeps = @ \cup {t}]
      BY <3>5 DEF sleepPut, found
    <3> QED  BY <3>7, <3>8
  <2> QED  BY <2>1, <2>2
<1> DEFINE l == linked
<1>11. /\ l \in Mems /\ SameReady(d, l) /\ SameBlocked(d, l) /\ SamePlain(d, l)
       /\ l.sleeps = d.sleeps
       /\ l.sleepHead = (IF before = Null THEN t ELSE d.sleepHead)
       /\ \A u \in Threads :
            /\ l.nextSleep[u] = IF u = t THEN n
                                ELSE IF u = before THEN t ELSE d.nextSleep[u]
            /\ l.timeSleepRelative[u] = IF u = t THEN left
                                        ELSE IF u = n THEN diff[u] - left ELSE diff[u]
  <2>1. n # Null => left <= d.timeSleepRelative[n]
    <3>1. CASE n = Null
      BY <3>1
    <3>2. CASE n # Null
      <4>1. diff[n] \in Nat /\ left < diff[n]
        BY <3>2, <1>9, <1>2, MemFields
      <4> HIDE DEF left, n
      <4> QED  BY <4>1, <1>6
    <3> QED  BY <3>1, <3>2
  <2> HIDE DEF left, n, before
  <2> QED  BY <2>1, <1>6, <1>7, <1>8, SleepLinkFields
<1> HIDE DEF linked
<1>12. /\ e \in Mems /\ SameReady(d, e) /\ SameBlocked(d, e) /\ SamePlain(d, e)
       /\ e.sleeps = d.sleeps \cup {t} /\ e.sleepHead = l.sleepHead
       /\ e.nextSleep = l.nextSleep /\ e.timeSleepRelative = l.timeSleepRelative
  <2> DEFINE x == [l EXCEPT !.sleeps = @ \cup {t}]
  <2>1. /\ x \in Mems /\ SameReady(l, x) /\ SameBlocked(l, x) /\ SamePlain(l, x)
        /\ x.sleeps = l.sleeps \cup {t} /\ x.sleepHead = l.sleepHead
        /\ x.nextSleep = l.nextSleep /\ x.timeSleepRelative = l.timeSleepRelative
    BY <1>11 DEF Mems, SameReady, SameBlocked, SamePlain, SameValues
  <2>2. e = x
    BY <1>10
  <2> HIDE DEF x, e
  <2> QED
    BY <2>1, <2>2, <1>11 DEF SameReady, SameBlocked, SamePlain, SameValues
<1> HIDE DEF e
<1>13. Chained(e.sleepHead, e.nextSleep, r)
  <2> DEFINE newHead == e.sleepHead
             newNext == e.nextSleep
             head == d.sleepHead
             next == d.nextSleep
  <2>1. newHead = IF c = 0 THEN t ELSE head
    BY <1>7, <1>11, <1>12
  <2>2. \A u \in Threads : newNext[u] = IF u = t THEN At(q, c + 1)
                                        ELSE IF u = At(q, c) THEN t ELSE next[u]
    BY <1>11, <1>12
  <2>3. IsList(q) /\ IsList(r) /\ Inserted(r, q, c, t) /\ Chained(head, next, q)
    BY <1>1, <1>4
  <2> HIDE DEF newHead, newNext, head, next, r, left, n, before, sum
  <2>4. Chained(newHead, newNext, r)
    BY <2>1, <2>2, <2>3, InsertChained
  <2> QED  BY <2>4 DEF newHead, newNext
<1>14. Differences(e.timeSleepRelative, r, newTicks)
  <2> DEFINE newDiff == e.timeSleepRelative
  <2>1. diff \in [Threads -> Nat]
    BY MemFields
  <2>2. Joined(diff, ticks, newDiff, newTicks, t, n, left, timeout)
    <3> HIDE DEF left, n
    <3> QED  BY <1>11, <1>12 DEF Joined
  <2>3. /\ IsList(q) /\ IsList(r) /\ Inserted(r, q, c, t) /\ Range(r) = Range(q) \cup {t}
        /\ ticks \in [Threads -> Nat] /\ Differences(diff, q, ticks)
    BY <1>1, <1>4
  <2>4. /\ Joined(diff, ticks, newDiff, newTicks, t, At(q, c + 1),
                  timeout - TicksAt(ticks, q, c), timeout)
        /\ TicksAt(ticks, q, c) <= timeout
    BY <2>2, <1>5
  <2> HIDE DEF newDiff, diff, r, left, n, before, sum
  <2>5. Differences(newDiff, r, newTicks)
    BY <2>1, <2>3, <2>4, DifferencesWith
  <2> QED  BY <2>5 DEF newDiff
<1>15. LinksBelong(e.nextSleep, Range(r))
  <2>1. ASSUME NEW u \in Threads \ Range(r)
        PROVE  e.nextSleep[u] = Null
    <3>1. u # t /\ u \notin Range(q)
      BY <1>4
    <3>2. u # before
      BY <3>1, <1>2, <1>7, ThreadsAssumption
    <3> QED  BY <3>1, <3>2, <1>11, <1>12, <1>1 DEF LinksBelong
  <2> QED  BY <2>1 DEF LinksBelong
<1>16. SleepIs(e, r, newTicks)
  <2>1. e.sleeps = Range(r)
    BY <1>12, <1>1, <1>4
  <2> HIDE DEF r
  <2> QED  BY <2>1, <1>4, <1>13, <1>14, <1>15 DEF SleepIs
<1> QED  BY <1>12, <1>16 DEF e, r

-----------------------------------------------------------------------------
(***************************************************************************)
(* A thread leaves its lists and becomes ready.                            *)
(***************************************************************************)
\* What Wake makes of the record,
LEMMA WakeAllFields ==
  ASSUME NEW k \in Kernels, NEW q \in Seq(Threads), NEW manner \in UnblockManners
  PROVE  LET w == Wake(k, q, manner)
             W == Range(q)
         IN  /\ w \in Kernels /\ SameCounts(k, w) /\ w.finished = k.finished
             /\ w.timeSliceCounter = k.timeSliceCounter
             /\ w.running = k.running /\ w.active = k.active /\ w.value = k.value
             /\ w.ready = k.ready \o q /\ w.sleepList = Without(k.sleepList, W)
             /\ \A s \in Sems : w.blocked[s] = Without(k.blocked[s], W)
             /\ \A u \in Threads :
                  /\ w.remaining[u] = IF u \in W THEN 0 ELSE k.remaining[u]
                  /\ w.blockedAtSem[u] = IF u \in W THEN Null ELSE k.blockedAtSem[u]
                  /\ w.tokensNeeded[u] = IF u \in W THEN 0 ELSE k.tokensNeeded[u]
                  /\ w.unblockManner[u] = IF u \in W /\ k.blockedAtSem[u] # Null
                                          THEN manner ELSE k.unblockManner[u]
<1> DEFINE W == Range(q)
           u == Unlink(k, W)
           w == Wake(k, q, manner)
<1>1. w \in Kernels
  BY WakeType
<1>2. w.timeSliceCounter = k.timeSliceCounter
  BY DEF Wake, Unlink, Kernels
<1>3. /\ SameThreads(k, u)
      /\ u.ready = k.ready /\ u.active = k.active /\ u.value = k.value
      /\ u.sleepList = Without(k.sleepList, W)
      /\ \A s \in Sems : u.blocked[s] = Without(k.blocked[s], W)
      /\ \A x \in Threads : u.remaining[x] = IF x \in W THEN 0 ELSE k.remaining[x]
  BY UnlinkFields
<1>4. /\ SameThreads(u, w)
      /\ w.ready = u.ready \o q /\ w.active = u.active /\ w.value = u.value
      /\ w.sleepList = u.sleepList /\ w.remaining = u.remaining
      /\ w.blocked = u.blocked
  BY WakeFields
<1>5. Moves(k, w, W, manner)
  BY WakeMoves
<1> HIDE DEF W, u, w
<1>6. /\ SameCounts(k, w) /\ w.finished = k.finished /\ w.running = k.running
      /\ w.active = k.active /\ w.value = k.value
      /\ w.ready = k.ready \o q /\ w.sleepList = Without(k.sleepList, W)
      /\ \A s \in Sems : w.blocked[s] = Without(k.blocked[s], W)
  BY <1>3, <1>4, <1>5 DEF Moves, SameThreads
<1>7. \A x \in Threads :
        /\ w.remaining[x] = IF x \in W THEN 0 ELSE k.remaining[x]
        /\ w.blockedAtSem[x] = IF x \in W THEN Null ELSE k.blockedAtSem[x]
        /\ w.tokensNeeded[x] = IF x \in W THEN 0 ELSE k.tokensNeeded[x]
        /\ w.unblockManner[x] = IF x \in W /\ k.blockedAtSem[x] # Null
                                THEN manner ELSE k.unblockManner[x]
  BY <1>3, <1>4, <1>5 DEF Moves
<1> QED  BY <1>1, <1>2, <1>6, <1>7 DEF w, W

\* for one thread.
LEMMA WakeOneFields ==
  ASSUME NEW k \in Kernels, NEW t \in Threads, NEW manner \in UnblockManners
  PROVE  LET w == Wake(k, <<t>>, manner)
         IN  /\ w \in Kernels /\ SameCounts(k, w) /\ w.finished = k.finished
             /\ w.timeSliceCounter = k.timeSliceCounter
             /\ w.running = k.running /\ w.active = k.active /\ w.value = k.value
             /\ w.ready = Append(k.ready, t) /\ w.sleepList = Without(k.sleepList, {t})
             /\ \A s \in Sems : w.blocked[s] = Without(k.blocked[s], {t})
             /\ \A u \in Threads :
                  /\ w.remaining[u] = IF u = t THEN 0 ELSE k.remaining[u]
                  /\ w.blockedAtSem[u] = IF u = t THEN Null ELSE k.blockedAtSem[u]
                  /\ w.tokensNeeded[u] = IF u = t THEN 0 ELSE k.tokensNeeded[u]
                  /\ w.unblockManner[u] = IF u = t /\ k.blockedAtSem[u] # Null
                                          THEN manner ELSE k.unblockManner[u]
<1> DEFINE q == <<t>>
           W == Range(q)
           w == Wake(k, q, manner)
<1>1. q \in Seq(Threads) /\ W = {t}
  BY SingleList
<1>2. /\ w \in Kernels /\ SameCounts(k, w) /\ w.finished = k.finished
      /\ w.timeSliceCounter = k.timeSliceCounter
      /\ w.running = k.running /\ w.active = k.active /\ w.value = k.value
      /\ w.ready = k.ready \o q /\ w.sleepList = Without(k.sleepList, W)
      /\ \A s \in Sems : w.blocked[s] = Without(k.blocked[s], W)
      /\ \A u \in Threads :
           /\ w.remaining[u] = IF u \in W THEN 0 ELSE k.remaining[u]
           /\ w.blockedAtSem[u] = IF u \in W THEN Null ELSE k.blockedAtSem[u]
           /\ w.tokensNeeded[u] = IF u \in W THEN 0 ELSE k.tokensNeeded[u]
           /\ w.unblockManner[u] = IF u \in W /\ k.blockedAtSem[u] # Null
                                   THEN manner ELSE k.unblockManner[u]
  <2> HIDE DEF q
  <2> QED  BY <1>1, WakeAllFields
<1>3. k.ready \o q = Append(k.ready, t)
  <2>1. k.ready \in Seq(Threads)
    BY KernelFields
  <2> QED  BY <2>1
<1> HIDE DEF W, w, q
<1>4. /\ w.ready = Append(k.ready, t) /\ w.sleepList = Without(k.sleepList, {t})
      /\ \A s \in Sems : w.blocked[s] = Without(k.blocked[s], {t})
  BY <1>1, <1>2, <1>3
<1>5. \A u \in Threads :
        /\ w.remaining[u] = IF u = t THEN 0 ELSE k.remaining[u]
        /\ w.blockedAtSem[u] = IF u = t THEN Null ELSE k.blockedAtSem[u]
        /\ w.tokensNeeded[u] = IF u = t THEN 0 ELSE k.tokensNeeded[u]
        /\ w.unblockManner[u] = IF u = t /\ k.blockedAtSem[u] # Null
                                THEN manner ELSE k.unblockManner[u]
  BY <1>1, <1>2
<1> QED  BY <1>2, <1>4, <1>5 DEF w, q

\* The members of the thread a routine takes out of the lists.
Told(d, e, t, manner) ==
  \A u \in Threads :
    /\ e.blockedAtSem[u] = IF u = t THEN Null ELSE d.blockedAtSem[u]
    /\ e.tokensNeeded[u] = IF u = t THEN 0 ELSE d.tokensNeeded[u]
    /\ e.unblockManner[u] = IF u = t /\ d.blockedAtSem[u] # Null
                            THEN manner ELSE d.unblockManner[u]

\* Taken out of the lists it is on, and put at the end of the ready list: the
\* memory represents the record after Wake.
LEMMA ThenReady ==
  ASSUME NEW d \in Mems, NEW k \in Kernels, Represents(d, k), NEW t \in Threads,
         t # Idle, t \notin Range(k.ready), NEW manner \in UnblockManners,
         NEW w, w = Wake(k, <<t>>, manner),
         NEW c \in Mems, SameReady(d, c), SleepIs(c, w.sleepList, w.remaining),
         BlockedAre(c, w.blocked), Told(d, c, t, manner),
         c.running = d.running, c.active = d.active, c.value = d.value
  PROVE  readyPut(c, t) \in Mems /\ Represents(readyPut(c, t), w)
<1> DEFINE e == readyPut(c, t)
<1>1. /\ SameMembers(d, k) /\ Elsewhere(k) /\ OnlyBlockedNeed(k) /\ ReadyIs(d, k.ready)
  BY DEF Represents
<1>2. /\ w \in Kernels /\ SameCounts(k, w) /\ w.finished = k.finished
      /\ w.timeSliceCounter = k.timeSliceCounter
      /\ w.running = k.running /\ w.active = k.active /\ w.value = k.value
      /\ w.ready = Append(k.ready, t)
      /\ \A u \in Threads :
           /\ w.blockedAtSem[u] = IF u = t THEN Null ELSE k.blockedAtSem[u]
           /\ w.tokensNeeded[u] = IF u = t THEN 0 ELSE k.tokensNeeded[u]
           /\ w.unblockManner[u] = IF u = t /\ k.blockedAtSem[u] # Null
                                   THEN manner ELSE k.unblockManner[u]
  <2> DEFINE v == Wake(k, <<t>>, manner)
  <2>1. /\ v \in Kernels /\ SameCounts(k, v) /\ v.finished = k.finished
        /\ v.timeSliceCounter = k.timeSliceCounter
        /\ v.running = k.running /\ v.active = k.active /\ v.value = k.value
        /\ v.ready = Append(k.ready, t) /\ v.sleepList = Without(k.sleepList, {t})
        /\ \A s \in Sems : v.blocked[s] = Without(k.blocked[s], {t})
        /\ \A u \in Threads :
             /\ v.remaining[u] = IF u = t THEN 0 ELSE k.remaining[u]
             /\ v.blockedAtSem[u] = IF u = t THEN Null ELSE k.blockedAtSem[u]
             /\ v.tokensNeeded[u] = IF u = t THEN 0 ELSE k.tokensNeeded[u]
             /\ v.unblockManner[u] = IF u = t /\ k.blockedAtSem[u] # Null
                                     THEN manner ELSE k.unblockManner[u]
    BY WakeOneFields, ZenonT(30)
  <2>2. w = v
    OBVIOUS
  <2> HIDE DEF v
  <2> QED  BY <2>1, <2>2
<1>3. /\ e \in Mems /\ SameSleep(c, e) /\ SameBlocked(c, e) /\ SamePlain(c, e)
      /\ ReadyIs(e, Append(k.ready, t))
  <2>1. ReadyIs(c, k.ready)
    BY <1>1, SameReadyIs
  <2> QED  BY <2>1, ReadyPutDoes
<1> HIDE DEF e
<1>4. SleepIs(e, w.sleepList, w.remaining) /\ BlockedAre(e, w.blocked)
  BY <1>3, SameSleepIs, SameBlockedAre
<1>5. SameMembers(e, w)
  <2>1. /\ c.blockedAtSem \in [Threads -> Sems \cup {Null}]
        /\ c.tokensNeeded \in [Threads -> Nat]
        /\ c.unblockManner \in [Threads -> UnblockManners]
    BY MemFields
  <2>2. /\ w.blockedAtSem \in [Threads -> Sems \cup {Null}]
        /\ w.tokensNeeded \in [Threads -> Nat]
        /\ w.unblockManner \in [Threads -> UnblockManners]
    BY <1>2 DEF Kernels
  <2>3. \A u \in Threads :
          /\ c.blockedAtSem[u] = w.blockedAtSem[u]
          /\ c.tokensNeeded[u] = w.tokensNeeded[u]
          /\ c.unblockManner[u] = w.unblockManner[u]
    BY <1>1, <1>2 DEF SameMembers, Told
  <2>4. /\ c.blockedAtSem = w.blockedAtSem /\ c.tokensNeeded = w.tokensNeeded
        /\ c.unblockManner = w.unblockManner
    BY <2>1, <2>2, <2>3
  <2> QED
    BY <2>4, <1>1, <1>2, <1>3 DEF SameMembers, SamePlain, SameValues, SameBlocked
<1>6. Elsewhere(w)
  <2>1. w.timeSliceCounter = 0
    BY <1>1, <1>2 DEF Elsewhere
  <2> QED  BY <2>1, <1>1, <1>2, ElsewhereKept
<1>7. OnlyBlockedNeed(w)
  BY <1>1, <1>2 DEF OnlyBlockedNeed
<1>8. ReadyIs(e, w.ready)
  BY <1>2, <1>3
<1> QED  BY <1>3, <1>4, <1>5, <1>6, <1>7, <1>8 DEF Represents, e

\* A thread is off the sleep list, whether it was on it or not.
Awake(newTicks, ticks, t) ==
  /\ newTicks \in [Threads -> Nat]
  /\ \A u \in Threads : newTicks[u] = IF u = t THEN 0 ELSE ticks[u]

LEMMA SleepGone ==
  ASSUME NEW d \in Mems, NEW q, NEW ticks, SleepIs(d, q, ticks), NEW t \in Threads,
         NEW newTicks, Awake(newTicks, ticks, t),
         NEW e, e = IF t \in d.sleeps THEN sleepGet(d, t) ELSE d
  PROVE  /\ e \in Mems /\ SameReady(d, e) /\ SameBlocked(d, e) /\ SamePlain(d, e)
         /\ SleepIs(e, Without(q, {t}), newTicks)
<1>1. /\ IsList(q) /\ d.sleeps = Range(q) /\ ticks \in [Threads -> Nat]
      /\ newTicks \in [Threads -> Nat]
      /\ \A u \in Threads : newTicks[u] = IF u = t THEN 0 ELSE ticks[u]
  BY DEF SleepIs, Awake
<1>2. CASE t \in d.sleeps
  BY <1>2, <1>1, SleepGetDoes
<1>3. CASE t \notin d.sleeps
  <2>1. Without(q, {t}) = q
    BY <1>1, <1>3, WithoutStranger
  <2>2. ticks[t] = 0
    BY <1>1, <1>3 DEF SleepIs, Differences
  <2>3. newTicks = ticks
    <3>1. \A u \in Threads : newTicks[u] = ticks[u]
      BY <2>2, <1>1
    <3> QED  BY <3>1, <1>1
  <2> QED
    BY <2>1, <2>3, <1>3 DEF SameReady, SameBlocked, SamePlain, SameValues
<1> QED  BY <1>2, <1>3

\* The same of the lists of the semaphores.
Shortened(M, L, t) ==
  M \in [Sems -> Seq(Threads)] /\ \A x \in Sems : M[x] = Without(L[x], {t})

LeavesSem(d, e, t) ==
  \A u \in Threads :
    /\ e.blockedAtSem[u] = IF u = t THEN Null ELSE d.blockedAtSem[u]
    /\ e.tokensNeeded[u] = IF u = t THEN 0 ELSE d.tokensNeeded[u]

LEMMA SemGone ==
  ASSUME NEW d \in Mems, NEW L, BlockedAre(d, L), NEW s \in Sems, NEW t \in Threads,
         d.blockedAtSem[t] = s, NEW M, Shortened(M, L, t)
  PROVE  LET e == semGet(d, t)
         IN  /\ e \in Mems /\ SameReady(d, e) /\ SameSleep(d, e)
             /\ e.running = d.running /\ e.unblockManner = d.unblockManner
             /\ e.active = d.active /\ e.value = d.value
             /\ LeavesSem(d, e, t) /\ BlockedAre(e, M)
<1> DEFINE e == semGet(d, t)
<1>1. M \in [Sems -> Seq(Threads)] /\ \A x \in Sems : M[x] = Without(L[x], {t})
  BY DEF Shortened
<1>2. /\ e \in Mems /\ SameReady(d, e) /\ SameSleep(d, e)
      /\ e.running = d.running /\ e.unblockManner = d.unblockManner
      /\ e.active = d.active /\ e.value = d.value
      /\ \A u \in Threads :
           /\ e.blockedAtSem[u] = IF u = t THEN Null ELSE d.blockedAtSem[u]
           /\ e.tokensNeeded[u] = IF u = t THEN 0 ELSE d.tokensNeeded[u]
      /\ BlockedAre(e, M)
  BY <1>1, SemGetDoes
<1> HIDE DEF e
<1>3. LeavesSem(d, e, t)
  BY <1>2 DEF LeavesSem
<1> QED  BY <1>2, <1>3 DEF e

\* The reason a thread is told is one of its members.
LEMMA TellManner ==
  ASSUME NEW d \in Mems, NEW t \in Threads, NEW manner \in UnblockManners
  PROVE  LET e == [d EXCEPT !.unblockManner[t] = manner]
         IN  /\ e \in Mems /\ SameReady(d, e) /\ SameSleep(d, e) /\ SameBlocked(d, e)
             /\ e.running = d.running /\ e.tokensNeeded = d.tokensNeeded
             /\ e.active = d.active /\ e.value = d.value
             /\ \A u \in Threads :
                  e.unblockManner[u] = IF u = t THEN manner ELSE d.unblockManner[u]
BY DEF Mems, SameReady, SameSleep, SameBlocked

\* The body of the loops of signal and signalAll: the head of the list of s.
LEMMA ReleaseDoes ==
  ASSUME NEW d \in Mems, NEW k \in Kernels, Represents(d, k), NEW s \in Sems,
         k.blocked[s] # <<>>, NEW t, t = Head(k.blocked[s]),
         t # Idle, t \notin Range(k.ready), NEW manner \in UnblockManners
  PROVE  LET e == release(d, s, manner)
         IN  e \in Mems /\ Represents(e, Wake(k, <<t>>, manner))
<1> DEFINE w == Wake(k, <<t>>, manner)
           taken == semGet(d, t)
           awake == IF t \in taken.sleeps THEN sleepGet(taken, t) ELSE taken
           c == [awake EXCEPT !.unblockManner[t] = manner]
<1>1. /\ SameMembers(d, k) /\ SleepIs(d, k.sleepList, k.remaining)
      /\ BlockedAre(d, k.blocked)
  BY DEF Represents
<1>2. /\ IsList(k.blocked[s]) /\ d.blockedHead[s] = At(k.blocked[s], 1)
      /\ \A u \in Threads : u \in Range(k.blocked[s]) <=> d.blockedAtSem[u] = s
  BY <1>1 DEF BlockedAre, SemIs, Chained
<1>3. /\ t \in Threads /\ d.blockedHead[s] = t /\ d.blockedAtSem[t] = s
  <2>1. Head(k.blocked[s]) = k.blocked[s][1] /\ 1 \in 1 .. Len(k.blocked[s])
    BY <1>2, TailRemoved
  <2>2. /\ \A i \in 1 .. Len(k.blocked[s]) :
             /\ k.blocked[s][i] \in Threads /\ k.blocked[s][i] # Null
             /\ At(k.blocked[s], i) = k.blocked[s][i]
        /\ \A u : u \in Range(k.blocked[s])
             <=> \E i \in 1 .. Len(k.blocked[s]) : k.blocked[s][i] = u
    BY <1>2, ListFacts
  <2> QED  BY <2>1, <2>2, <1>2
<1>4. /\ w \in Kernels /\ SameCounts(k, w) /\ w.finished = k.finished
      /\ w.timeSliceCounter = k.timeSliceCounter
      /\ w.running = k.running /\ w.active = k.active /\ w.value = k.value
      /\ w.ready = Append(k.ready, t) /\ w.sleepList = Without(k.sleepList, {t})
      /\ \A x \in Sems : w.blocked[x] = Without(k.blocked[x], {t})
      /\ \A u \in Threads :
           /\ w.remaining[u] = IF u = t THEN 0 ELSE k.remaining[u]
           /\ w.blockedAtSem[u] = IF u = t THEN Null ELSE k.blockedAtSem[u]
           /\ w.tokensNeeded[u] = IF u = t THEN 0 ELSE k.tokensNeeded[u]
           /\ w.unblockManner[u] = IF u = t /\ k.blockedAtSem[u] # Null
                                   THEN manner ELSE k.unblockManner[u]
  BY <1>3, WakeOneFields
<1> HIDE DEF w
<1>5. w.remaining \in [Threads -> Nat] /\ w.blocked \in [Sems -> Seq(Threads)]
  BY <1>4, KernelFields
<1>6. /\ taken \in Mems /\ SameReady(d, taken) /\ SameSleep(d, taken)
      /\ taken.running = d.running /\ taken.unblockManner = d.unblockManner
      /\ taken.active = d.active /\ taken.value = d.value
      /\ LeavesSem(d, taken, t) /\ BlockedAre(taken, w.blocked)
  <2>1. Shortened(w.blocked, k.blocked, t)
    BY <1>4, <1>5 DEF Shortened
  <2>2. t \in Threads /\ d.blockedAtSem[t] = s /\ BlockedAre(d, k.blocked)
    BY <1>1, <1>3
  <2> HIDE DEF awake, c
  <2> QED  BY <2>1, <2>2, SemGone
<1> HIDE DEF taken
<1>7. /\ awake \in Mems /\ SameReady(taken, awake) /\ SameBlocked(taken, awake)
      /\ SamePlain(taken, awake) /\ SleepIs(awake, w.sleepList, w.remaining)
  <2>1. SleepIs(taken, k.sleepList, k.remaining)
    BY <1>1, <1>6, SameSleepIs
  <2>2. Awake(w.remaining, k.remaining, t)
    BY <1>4, <1>5 DEF Awake
  <2>3. t \in Threads /\ taken \in Mems
    BY <1>3, <1>6
  <2>4. awake = IF t \in taken.sleeps THEN sleepGet(taken, t) ELSE taken
    OBVIOUS
  <2> HIDE DEF awake
  <2>5. /\ awake \in Mems /\ SameReady(taken, awake) /\ SameBlocked(taken, awake)
        /\ SamePlain(taken, awake) /\ SleepIs(awake, Without(k.sleepList, {t}), w.remaining)
    BY <2>1, <2>2, <2>3, <2>4, SleepGone
  <2> QED  BY <2>5, <1>4
<1>8. awake = IF t \in d.sleeps THEN sleepGet(taken, t) ELSE taken
  BY <1>6 DEF SameSleep
<1>9. release(d, s, manner) = readyPut(c, t)
  BY <1>3, <1>8 DEF release, taken
<1> HIDE DEF awake
<1>10. /\ c \in Mems /\ SameReady(awake, c) /\ SameSleep(awake, c) /\ SameBlocked(awake, c)
       /\ c.running = awake.running /\ c.tokensNeeded = awake.tokensNeeded
       /\ c.active = awake.active /\ c.value = awake.value
       /\ \A u \in Threads :
            c.unblockManner[u] = IF u = t THEN manner ELSE awake.unblockManner[u]
  BY <1>3, <1>7, TellManner
<1> HIDE DEF c
<1>11. /\ SameReady(d, c) /\ c.running = d.running /\ c.active = d.active
       /\ c.value = d.value
  BY <1>6, <1>7, <1>10 DEF SameReady, SamePlain, SameValues
<1>12. SleepIs(c, w.sleepList, w.remaining)
  BY <1>7, <1>10, SameSleepIs
<1>13. BlockedAre(c, w.blocked)
  <2>1. BlockedAre(awake, w.blocked)
    BY <1>6, <1>7, SameBlockedAre
  <2> QED  BY <2>1, <1>10, SameBlockedAre
<1>14. Told(d, c, t, manner)
  <2>1. /\ awake.blockedAtSem = taken.blockedAtSem
        /\ awake.tokensNeeded = taken.tokensNeeded
        /\ awake.unblockManner = taken.unblockManner
        /\ c.blockedAtSem = awake.blockedAtSem
    BY <1>7, <1>10 DEF SameBlocked, SamePlain, SameValues
  <2>2. s # Null
    BY ThreadsAssumption
  <2>3. d.blockedAtSem[t] # Null
    BY <1>3, <2>2
  <2> QED  BY <2>1, <2>3, <1>6, <1>10 DEF Told, LeavesSem
<1>15. readyPut(c, t) \in Mems /\ Represents(readyPut(c, t), w)
  BY <1>3, <1>10, <1>11, <1>12, <1>13, <1>14, ThenReady DEF w
<1> QED  BY <1>9, <1>15 DEF w

\* A thread that is at no semaphore is on none of the lists.
LEMMA NobodyLeft ==
  ASSUME NEW d, NEW L, BlockedAre(d, L), NEW t \in Threads, d.blockedAtSem[t] = Null,
         NEW M, Shortened(M, L, t)
  PROVE  M = L
<1>1. /\ L \in [Sems -> Seq(Threads)] /\ M \in [Sems -> Seq(Threads)]
      /\ \A s \in Sems : SemIs(d, s, L[s]) /\ M[s] = Without(L[s], {t})
  BY DEF BlockedAre, Shortened
<1>2. ASSUME NEW s \in Sems
      PROVE  M[s] = L[s]
  <2>1. s # Null
    BY ThreadsAssumption
  <2>2. t \notin Range(L[s]) /\ IsList(L[s])
    BY <2>1, <1>1 DEF SemIs
  <2> QED  BY <2>2, <1>1, WithoutStranger
<1> QED  BY <1>1, <1>2

\* The part of Sleep::onTick and Sleep::sleep that ends a timed wait.
LEMMA TimedOutDoes ==
  ASSUME NEW d \in Mems, NEW L, BlockedAre(d, L), NEW t \in Threads,
         d.blockedAtSem[t] = Null => d.tokensNeeded[t] = 0, NEW M, Shortened(M, L, t)
  PROVE  LET e == timedOut(d, t)
         IN  /\ e \in Mems /\ SameReady(d, e) /\ SameSleep(d, e)
             /\ e.running = d.running /\ e.active = d.active /\ e.value = d.value
             /\ Told(d, e, t, "WAIT_TIMEOUT") /\ BlockedAre(e, M)
<1> DEFINE e == timedOut(d, t)
<1>1. CASE d.blockedAtSem[t] = Null
  <2>1. e = d
    BY <1>1 DEF timedOut
  <2>2. M = L
    BY <1>1, NobodyLeft
  <2>3. Told(d, d, t, "WAIT_TIMEOUT")
    BY <1>1 DEF Told
  <2> QED  BY <2>1, <2>2, <2>3 DEF SameReady, SameSleep
<1>2. CASE d.blockedAtSem[t] # Null
  <2> DEFINE s == d.blockedAtSem[t]
             c == semGet(d, t)
  <2>1. s \in Sems
    BY <1>2, MemFields
  <2>2. /\ c \in Mems /\ SameReady(d, c) /\ SameSleep(d, c)
        /\ c.running = d.running /\ c.unblockManner = d.unblockManner
        /\ c.active = d.active /\ c.value = d.value
        /\ LeavesSem(d, c, t) /\ BlockedAre(c, M)
    BY <2>1, SemGone
  <2>3. e = [c EXCEPT !.unblockManner[t] = "WAIT_TIMEOUT"]
    BY <1>2 DEF timedOut
  <2> HIDE DEF e, c
  <2>4. "WAIT_TIMEOUT" \in UnblockManners
    BY DEF UnblockManners
  <2>5. /\ e \in Mems /\ SameReady(c, e) /\ SameSleep(c, e) /\ SameBlocked(c, e)
        /\ e.running = c.running /\ e.tokensNeeded = c.tokensNeeded
        /\ e.active = c.active /\ e.value = c.value
        /\ \A u \in Threads :
             e.unblockManner[u] = IF u = t THEN "WAIT_TIMEOUT" ELSE c.unblockManner[u]
    BY <2>2, <2>3, <2>4, TellManner
  <2>6. BlockedAre(e, M)
    BY <2>2, <2>5, SameBlockedAre
  <2>7. Told(d, e, t, "WAIT_TIMEOUT")
    BY <1>2, <2>2, <2>5 DEF Told, LeavesSem, SameBlocked
  <2>8. SameReady(d, e) /\ SameSleep(d, e)
    BY <2>2, <2>5 DEF SameReady, SameSleep
  <2> QED  BY <2>2, <2>5, <2>6, <2>7, <2>8 DEF e
<1> QED  BY <1>1, <1>2

\* The body of the loop of Sleep::onTick: the head of the sleep list.
LEMMA WakeHeadDoes ==
  ASSUME NEW d \in Mems, NEW k \in Kernels, Represents(d, k),
         k.sleepList # <<>>, NEW t, t = Head(k.sleepList),
         t # Idle, t \notin Range(k.ready)
  PROVE  LET e == wakeHead(d)
         IN  e \in Mems /\ Represents(e, Wake(k, <<t>>, "WAIT_TIMEOUT"))
<1> DEFINE manner == "WAIT_TIMEOUT"
           w == Wake(k, <<t>>, manner)
           off == sleepGet(d, t)
           c == timedOut(off, t)
<1>1. /\ SameMembers(d, k) /\ SleepIs(d, k.sleepList, k.remaining)
      /\ BlockedAre(d, k.blocked) /\ OnlyBlockedNeed(k)
  BY DEF Represents
<1>2. /\ IsList(k.sleepList) /\ d.sleepHead = At(k.sleepList, 1)
      /\ d.sleeps = Range(k.sleepList)
  BY <1>1 DEF SleepIs, Chained
<1>3. t \in Threads /\ d.sleepHead = t /\ t \in d.sleeps
  <2>1. Head(k.sleepList) = k.sleepList[1] /\ 1 \in 1 .. Len(k.sleepList)
    BY <1>2, TailRemoved
  <2>2. /\ \A i \in 1 .. Len(k.sleepList) :
             /\ k.sleepList[i] \in Threads /\ k.sleepList[i] # Null
             /\ At(k.sleepList, i) = k.sleepList[i]
        /\ \A u : u \in Range(k.sleepList)
             <=> \E i \in 1 .. Len(k.sleepList) : k.sleepList[i] = u
    BY <1>2, ListFacts
  <2> QED  BY <2>1, <2>2, <1>2
<1>4. manner \in UnblockManners
  BY DEF UnblockManners
<1>5. /\ w \in Kernels /\ SameCounts(k, w) /\ w.finished = k.finished
      /\ w.timeSliceCounter = k.timeSliceCounter
      /\ w.running = k.running /\ w.active = k.active /\ w.value = k.value
      /\ w.ready = Append(k.ready, t) /\ w.sleepList = Without(k.sleepList, {t})
      /\ \A x \in Sems : w.blocked[x] = Without(k.blocked[x], {t})
      /\ \A u \in Threads :
           /\ w.remaining[u] = IF u = t THEN 0 ELSE k.remaining[u]
           /\ w.blockedAtSem[u] = IF u = t THEN Null ELSE k.blockedAtSem[u]
           /\ w.tokensNeeded[u] = IF u = t THEN 0 ELSE k.tokensNeeded[u]
           /\ w.unblockManner[u] = IF u = t /\ k.blockedAtSem[u] # Null
                                   THEN manner ELSE k.unblockManner[u]
  BY <1>3, <1>4, WakeOneFields, ZenonT(30)
<1> HIDE DEF w
<1>6. Awake(w.remaining, k.remaining, t) /\ Shortened(w.blocked, k.blocked, t)
  BY <1>5, KernelFields DEF Awake, Shortened
<1>7. /\ off \in Mems /\ SameReady(d, off) /\ SameBlocked(d, off)
      /\ SamePlain(d, off) /\ SleepIs(off, w.sleepList, w.remaining)
  <2>1. off = IF t \in d.sleeps THEN sleepGet(d, t) ELSE d
    BY <1>3
  <2> HIDE DEF off
  <2>2. /\ off \in Mems /\ SameReady(d, off) /\ SameBlocked(d, off)
        /\ SamePlain(d, off) /\ SleepIs(off, Without(k.sleepList, {t}), w.remaining)
    BY <2>1, <1>1, <1>3, <1>6, SleepGone
  <2> QED  BY <2>2, <1>5
<1>8. wakeHead(d) = readyPut(c, t)
  BY <1>3 DEF wakeHead
<1> HIDE DEF off
<1>9. /\ c \in Mems /\ SameReady(off, c) /\ SameSleep(off, c)
      /\ c.running = off.running /\ c.active = off.active /\ c.value = off.value
      /\ Told(off, c, t, manner) /\ BlockedAre(c, w.blocked)
  <2>1. BlockedAre(off, k.blocked)
    BY <1>1, <1>7, SameBlockedAre
  <2>2. off.blockedAtSem[t] = Null => off.tokensNeeded[t] = 0
    BY <1>1, <1>3, <1>7
       DEF OnlyBlockedNeed, SameMembers, SamePlain, SameValues, SameBlocked
  <2> QED  BY <2>1, <2>2, <1>3, <1>6, <1>7, TimedOutDoes
<1> HIDE DEF c
<1>10. /\ SameReady(d, c) /\ c.running = d.running /\ c.active = d.active
       /\ c.value = d.value
  BY <1>7, <1>9 DEF SameReady, SamePlain, SameValues
<1>11. SleepIs(c, w.sleepList, w.remaining)
  BY <1>7, <1>9, SameSleepIs
<1>12. Told(d, c, t, manner)
  BY <1>7, <1>9 DEF Told, SameBlocked, SamePlain, SameValues
<1> HIDE DEF manner
<1>13. readyPut(c, t) \in Mems /\ Represents(readyPut(c, t), w)
  BY <1>3, <1>4, <1>9, <1>10, <1>11, <1>12, ThenReady DEF w
<1> QED  BY <1>8, <1>13 DEF w, manner

-----------------------------------------------------------------------------
(***************************************************************************)
(* The pieces of wait and timedWait.                                       *)
(***************************************************************************)
\* The value suffices.
LEMMA AcquireDoes ==
  ASSUME NEW d \in Mems, NEW k \in Kernels, Represents(d, k), NEW s \in Sems,
         NEW tokens \in Nat, d.value[s] >= tokens
  PROVE  LET e == [d EXCEPT !.value[s] = @ - tokens,
                            !.unblockManner[d.running] = "REGULAR"]
         IN  e \in Mems /\ Represents(e, Acquire(k, s, tokens))
<1> DEFINE v == d.value[s] - tokens
           e == [d EXCEPT !.value[s] = v, !.unblockManner[d.running] = "REGULAR"]
           u == [k EXCEPT !.value[s] = v, !.unblockManner[k.running] = "REGULAR"]
<1>1. /\ SameMembers(d, k) /\ Elsewhere(k) /\ OnlyBlockedNeed(k) /\ ReadyIs(d, k.ready)
      /\ SleepIs(d, k.sleepList, k.remaining) /\ BlockedAre(d, k.blocked)
  BY DEF Represents
<1>2. d.running \in Threads /\ d.running = k.running /\ d.value = k.value
  BY <1>1, KernelFields DEF SameMembers
<1>3. v \in Nat
  <2>1. d.value[s] \in Nat
    BY MemFields
  <2> QED  BY <2>1
<1>4. "REGULAR" \in UnblockManners
  BY DEF UnblockManners
<1>5. u = Acquire(k, s, tokens)
  BY <1>2 DEF Acquire
<1> HIDE DEF v
<1>6. e \in Mems
  BY <1>2, <1>3, <1>4 DEF Mems
<1>7. /\ SameReady(d, e) /\ SameSleep(d, e) /\ SameBlocked(d, e)
      /\ e.running = d.running /\ e.active = d.active
      /\ e.tokensNeeded = d.tokensNeeded
      /\ e.value = [d.value EXCEPT ![s] = v]
      /\ e.unblockManner = [d.unblockManner EXCEPT ![d.running] = "REGULAR"]
  BY DEF Mems, SameReady, SameSleep, SameBlocked
<1>8. /\ SameCounts(k, u) /\ u.timeSliceCounter = k.timeSliceCounter
      /\ u.finished = k.finished /\ u.running = k.running /\ u.ready = k.ready
      /\ u.sleepList = k.sleepList /\ u.remaining = k.remaining
      /\ u.blocked = k.blocked /\ u.blockedAtSem = k.blockedAtSem
      /\ u.tokensNeeded = k.tokensNeeded /\ u.active = k.active
      /\ u.value = [k.value EXCEPT ![s] = v]
      /\ u.unblockManner = [k.unblockManner EXCEPT ![k.running] = "REGULAR"]
  BY DEF Kernels, SameCounts
<1> HIDE DEF e, u
<1>9. SameMembers(e, u)
  BY <1>1, <1>7, <1>8 DEF SameMembers, SameBlocked
<1>10. Elsewhere(u)
  <2>1. u.timeSliceCounter = 0
    BY <1>1, <1>8 DEF Elsewhere
  <2> QED  BY <2>1, <1>1, <1>8, ElsewhereKept
<1>11. OnlyBlockedNeed(u)
  BY <1>1, <1>8 DEF OnlyBlockedNeed
<1>12. /\ ReadyIs(e, u.ready) /\ SleepIs(e, u.sleepList, u.remaining)
       /\ BlockedAre(e, u.blocked)
  BY <1>1, <1>7, <1>8, SameReadyIs, SameSleepIs, SameBlockedAre
<1>13. Represents(e, u)
  BY <1>9, <1>10, <1>11, <1>12 DEF Represents
<1> QED  BY <1>5, <1>6, <1>13 DEF e, v

\* Block, as far as it is the record's.
LEMMA BlockFields ==
  ASSUME NEW k \in Kernels, NEW s \in Sems, NEW tokens \in Nat, k.value[s] < tokens
  PROVE  LET u == Block(k, s, tokens)
         IN  /\ u \in Kernels /\ SameCounts(k, u)
             /\ u.timeSliceCounter = k.timeSliceCounter
             /\ u.finished = k.finished /\ u.running = k.running /\ u.ready = k.ready
             /\ u.sleepList = k.sleepList /\ u.remaining = k.remaining
             /\ u.active = k.active /\ u.unblockManner = k.unblockManner
             /\ u.blocked = [k.blocked EXCEPT ![s] = Append(@, k.running)]
             /\ u.value = [k.value EXCEPT ![s] = 0]
             /\ \A t \in Threads :
                  /\ u.blockedAtSem[t] = IF t = k.running THEN s ELSE k.blockedAtSem[t]
                  /\ u.tokensNeeded[t] = IF t = k.running THEN tokens - k.value[s]
                                         ELSE k.tokensNeeded[t]
<1> DEFINE u == Block(k, s, tokens)
<1>1. u \in Kernels
  BY BlockType
<1>2. /\ SameCounts(k, u) /\ u.timeSliceCounter = k.timeSliceCounter
      /\ u.finished = k.finished /\ u.running = k.running /\ u.ready = k.ready
      /\ u.sleepList = k.sleepList /\ u.remaining = k.remaining
      /\ u.active = k.active /\ u.unblockManner = k.unblockManner
  BY DEF Block, Kernels, SameCounts
<1>3. /\ u.blocked = [k.blocked EXCEPT ![s] = Append(@, k.running)]
      /\ u.value = [k.value EXCEPT ![s] = 0]
      /\ u.blockedAtSem = [k.blockedAtSem EXCEPT ![k.running] = s]
      /\ u.tokensNeeded = [k.tokensNeeded EXCEPT ![k.running] = tokens - k.value[s]]
  BY DEF Block, Kernels
<1> HIDE DEF u
<1>4. \A t \in Threads :
        /\ u.blockedAtSem[t] = IF t = k.running THEN s ELSE k.blockedAtSem[t]
        /\ u.tokensNeeded[t] = IF t = k.running THEN tokens - k.value[s]
                               ELSE k.tokensNeeded[t]
  BY <1>3, KernelFields
<1> QED  BY <1>1, <1>2, <1>3, <1>4 DEF u

\* The value does not suffice.
LEMMA BlockDoes ==
  ASSUME NEW d \in Mems, NEW k \in Kernels, Represents(d, k), NEW s \in Sems,
         NEW tokens \in Nat, d.value[s] < tokens, d.blockedAtSem[d.running] = Null
  PROVE  LET e == block(d, s, tokens)
         IN  e \in Mems /\ Represents(e, Block(k, s, tokens))
<1> DEFINE t == d.running
           n == tokens - d.value[s]
           c == semPut(d, s, t, n)
           e == [c EXCEPT !.value[s] = 0]
           u == Block(k, s, tokens)
<1>1. /\ SameMembers(d, k) /\ Elsewhere(k) /\ OnlyBlockedNeed(k) /\ ReadyIs(d, k.ready)
      /\ SleepIs(d, k.sleepList, k.remaining) /\ BlockedAre(d, k.blocked)
  BY DEF Represents
<1>2. /\ t \in Threads /\ t = k.running /\ d.value = k.value
      /\ d.blockedAtSem = k.blockedAtSem /\ d.tokensNeeded = k.tokensNeeded
      /\ d.unblockManner = k.unblockManner /\ d.active = k.active
  BY <1>1, KernelFields DEF SameMembers
<1>3. n \in Nat
  <2>1. d.value[s] \in Nat
    BY MemFields
  <2> QED  BY <2>1
<1>4. e = block(d, s, tokens)
  BY DEF block
<1>5. /\ u \in Kernels /\ SameCounts(k, u)
      /\ u.timeSliceCounter = k.timeSliceCounter
      /\ u.finished = k.finished /\ u.running = k.running /\ u.ready = k.ready
      /\ u.sleepList = k.sleepList /\ u.remaining = k.remaining
      /\ u.active = k.active /\ u.unblockManner = k.unblockManner
      /\ u.blocked = [k.blocked EXCEPT ![s] = Append(@, k.running)]
      /\ u.value = [k.value EXCEPT ![s] = 0]
      /\ \A x \in Threads :
           /\ u.blockedAtSem[x] = IF x = k.running THEN s ELSE k.blockedAtSem[x]
           /\ u.tokensNeeded[x] = IF x = k.running THEN tokens - k.value[s]
                                  ELSE k.tokensNeeded[x]
  <2>1. k.value[s] < tokens
    BY <1>2
  <2> HIDE DEF t, n, c, e
  <2> QED  BY <2>1, BlockFields
<1> HIDE DEF u, t, n
<1>6. /\ c \in Mems /\ SameReady(d, c) /\ SameSleep(d, c)
      /\ c.running = d.running /\ c.unblockManner = d.unblockManner
      /\ c.active = d.active /\ c.value = d.value
      /\ \A x \in Threads :
           /\ c.blockedAtSem[x] = IF x = t THEN s ELSE d.blockedAtSem[x]
           /\ c.tokensNeeded[x] = IF x = t THEN n ELSE d.tokensNeeded[x]
  BY <1>2, <1>3, SemPutFields
<1>7. BlockedAre(c, [k.blocked EXCEPT ![s] = Append(@, t)])
  <2>1. d.blockedAtSem[t] = Null
    BY DEF t
  <2> QED  BY <2>1, <1>1, <1>2, <1>3, SemPutDoes
<1> HIDE DEF c
<1>8. e \in Mems
  BY <1>6 DEF Mems
<1>9. /\ SameReady(c, e) /\ SameSleep(c, e) /\ SameBlocked(c, e)
      /\ e.running = c.running /\ e.active = c.active
      /\ e.tokensNeeded = c.tokensNeeded /\ e.unblockManner = c.unblockManner
      /\ e.value = [c.value EXCEPT ![s] = 0]
  BY <1>6 DEF Mems, SameReady, SameSleep, SameBlocked
<1> HIDE DEF e
<1>10. ReadyIs(e, u.ready)
  <2>1. ReadyIs(c, k.ready)
    BY <1>1, <1>6, SameReadyIs
  <2> QED  BY <2>1, <1>5, <1>9, SameReadyIs
<1>11. SleepIs(e, u.sleepList, u.remaining)
  <2>1. SleepIs(c, k.sleepList, k.remaining)
    BY <1>1, <1>6, SameSleepIs
  <2> QED  BY <2>1, <1>5, <1>9, SameSleepIs
<1>12. BlockedAre(e, u.blocked)
  BY <1>2, <1>5, <1>7, <1>9, SameBlockedAre
<1>13. SameMembers(e, u)
  <2>1. /\ c.blockedAtSem \in [Threads -> Sems \cup {Null}]
        /\ c.tokensNeeded \in [Threads -> Nat]
    BY <1>6, MemFields
  <2>2. u.blockedAtSem \in [Threads -> Sems \cup {Null}] /\ u.tokensNeeded \in [Threads -> Nat]
    BY <1>5, KernelFields
  <2>3. \A x \in Threads : /\ c.blockedAtSem[x] = u.blockedAtSem[x]
                           /\ c.tokensNeeded[x] = u.tokensNeeded[x]
    <3>1. n = tokens - k.value[s]
      BY <1>2 DEF n
    <3> QED  BY <3>1, <1>2, <1>5, <1>6
  <2>4. c.blockedAtSem = u.blockedAtSem /\ c.tokensNeeded = u.tokensNeeded
    BY <2>1, <2>2, <2>3
  <2> QED  BY <2>4, <1>2, <1>5, <1>6, <1>9 DEF SameMembers, SameBlocked, t
<1>14. Elsewhere(u)
  <2>1. u.timeSliceCounter = 0
    BY <1>1, <1>5 DEF Elsewhere
  <2> QED  BY <2>1, <1>1, <1>5, ElsewhereKept
<1>15. OnlyBlockedNeed(u)
  <2>1. s # Null
    BY ThreadsAssumption
  <2> QED  BY <2>1, <1>1, <1>5 DEF OnlyBlockedNeed
<1>16. Represents(e, u)
  BY <1>10, <1>11, <1>12, <1>13, <1>14, <1>15 DEF Represents
<1> QED  BY <1>4, <1>8, <1>16 DEF u

\* timedWait with no time to wait: the caller is put on the list and taken
\* out of it again, told that the time is up.
LEMMA BlockForNoTimeDoes ==
  ASSUME NEW d \in Mems, NEW k \in Kernels, Represents(d, k), NEW s \in Sems,
         NEW tokens \in Nat, d.value[s] < tokens, d.blockedAtSem[d.running] = Null
  PROVE  LET e == timedOut(block(d, s, tokens), d.running)
         IN  e \in Mems /\ Represents(e, BlockForNoTime(k, s))
<1> DEFINE t == d.running
           c == block(d, s, tokens)
           e == timedOut(c, t)
           b == Block(k, s, tokens)
           u == BlockForNoTime(k, s)
<1>1. /\ SameMembers(d, k) /\ Elsewhere(k) /\ OnlyBlockedNeed(k)
      /\ SleepIs(d, k.sleepList, k.remaining) /\ BlockedAre(d, k.blocked)
  BY DEF Represents
<1>2. /\ t \in Threads /\ t = k.running /\ d.value = k.value
      /\ d.blockedAtSem = k.blockedAtSem /\ k.blockedAtSem[t] = Null
      /\ k.tokensNeeded[t] = 0 /\ k.active = d.active
  BY <1>1, KernelFields DEF SameMembers, OnlyBlockedNeed
<1>3. c \in Mems /\ Represents(c, b)
  BY BlockDoes
<1>4. /\ b \in Kernels /\ SameCounts(k, b)
      /\ b.timeSliceCounter = k.timeSliceCounter
      /\ b.finished = k.finished /\ b.running = k.running /\ b.ready = k.ready
      /\ b.sleepList = k.sleepList /\ b.remaining = k.remaining
      /\ b.active = k.active /\ b.unblockManner = k.unblockManner
      /\ b.blocked = [k.blocked EXCEPT ![s] = Append(@, k.running)]
      /\ b.value = [k.value EXCEPT ![s] = 0]
      /\ \A x \in Threads :
           /\ b.blockedAtSem[x] = IF x = k.running THEN s ELSE k.blockedAtSem[x]
           /\ b.tokensNeeded[x] = IF x = k.running THEN tokens - k.value[s]
                                  ELSE k.tokensNeeded[x]
  <2>1. k.value[s] < tokens
    BY <1>2
  <2> HIDE DEF t, c, e
  <2> QED  BY <2>1, BlockFields
<1>5. u \in Kernels
  BY BlockForNoTimeType
<1>6. /\ SameCounts(k, u) /\ u.timeSliceCounter = k.timeSliceCounter
      /\ u.finished = k.finished /\ u.running = k.running /\ u.ready = k.ready
      /\ u.sleepList = k.sleepList /\ u.remaining = k.remaining
      /\ u.active = k.active /\ u.blocked = k.blocked /\ u.blockedAtSem = k.blockedAtSem
      /\ u.value = [k.value EXCEPT ![s] = 0]
      /\ u.unblockManner = [k.unblockManner EXCEPT ![k.running] = "WAIT_TIMEOUT"]
      /\ u.tokensNeeded = [k.tokensNeeded EXCEPT ![k.running] = 0]
  BY DEF BlockForNoTime, Kernels, SameCounts
<1> HIDE DEF b, u, t
<1>7. /\ SameMembers(c, b) /\ ReadyIs(c, b.ready)
      /\ SleepIs(c, b.sleepList, b.remaining) /\ BlockedAre(c, b.blocked)
      /\ OnlyBlockedNeed(b)
  BY <1>3 DEF Represents
<1>8. Shortened(k.blocked, b.blocked, t)
  <2>1. ASSUME NEW x \in Sems
        PROVE  k.blocked[x] = Without(b.blocked[x], {t})
    <3>1. IsList(k.blocked[x]) /\ t \notin Range(k.blocked[x])
      <4>1. /\ IsList(k.blocked[x])
            /\ \A y \in Threads : y \in Range(k.blocked[x]) <=> d.blockedAtSem[y] = x
        BY <1>1 DEF BlockedAre, SemIs
      <4>2. x # Null
        BY ThreadsAssumption
      <4> QED  BY <4>1, <4>2, <1>2
    <3>2. k.blocked \in [Sems -> Seq(Threads)]
      BY KernelFields
    <3>3. CASE x = s
      <4>1. b.blocked[x] = Append(k.blocked[x], t)
        BY <3>2, <3>3, <1>2, <1>4
      <4> QED  BY <4>1, <3>1, <1>2, WithoutLast
    <3>4. CASE x # s
      <4>1. b.blocked[x] = k.blocked[x]
        BY <3>2, <3>4, <1>4
      <4> QED  BY <4>1, <3>1, WithoutStranger
    <3> QED  BY <3>3, <3>4
  <2> QED  BY <2>1, KernelFields DEF Shortened
<1>9. c.blockedAtSem[t] # Null
  <2>1. s # Null
    BY ThreadsAssumption
  <2> QED  BY <2>1, <1>2, <1>4, <1>7 DEF SameMembers
<1>10. /\ e \in Mems /\ SameReady(c, e) /\ SameSleep(c, e)
       /\ e.running = c.running /\ e.active = c.active /\ e.value = c.value
       /\ Told(c, e, t, "WAIT_TIMEOUT") /\ BlockedAre(e, k.blocked)
  <2> HIDE DEF c
  <2> QED  BY <1>2, <1>3, <1>7, <1>8, <1>9, TimedOutDoes
<1> HIDE DEF e, c
<1>11. ReadyIs(e, u.ready) /\ SleepIs(e, u.sleepList, u.remaining)
  <2>1. ReadyIs(c, k.ready) /\ SleepIs(c, k.sleepList, k.remaining)
    BY <1>4, <1>7
  <2> QED  BY <2>1, <1>6, <1>10, SameReadyIs, SameSleepIs
<1>12. BlockedAre(e, u.blocked)
  BY <1>6, <1>10
<1>13. SameMembers(e, u)
  <2>1. /\ e.blockedAtSem \in [Threads -> Sems \cup {Null}]
        /\ e.tokensNeeded \in [Threads -> Nat]
        /\ e.unblockManner \in [Threads -> UnblockManners]
    BY <1>10, MemFields
  <2>2. /\ u.blockedAtSem \in [Threads -> Sems \cup {Null}]
        /\ u.tokensNeeded \in [Threads -> Nat]
        /\ u.unblockManner \in [Threads -> UnblockManners]
    BY <1>5 DEF Kernels
  <2>3. /\ k.tokensNeeded \in [Threads -> Nat]
        /\ k.unblockManner \in [Threads -> UnblockManners]
    BY DEF Kernels
  <2>4. \A x \in Threads :
          /\ e.blockedAtSem[x] = IF x = t THEN Null ELSE b.blockedAtSem[x]
          /\ e.tokensNeeded[x] = IF x = t THEN 0 ELSE b.tokensNeeded[x]
          /\ e.unblockManner[x] = IF x = t THEN "WAIT_TIMEOUT" ELSE b.unblockManner[x]
    BY <1>7, <1>9, <1>10 DEF Told, SameMembers
  <2>5. \A x \in Threads :
          /\ e.blockedAtSem[x] = u.blockedAtSem[x]
          /\ e.tokensNeeded[x] = u.tokensNeeded[x]
          /\ e.unblockManner[x] = u.unblockManner[x]
    BY <2>3, <2>4, <1>2, <1>4, <1>6
  <2>6. /\ e.blockedAtSem = u.blockedAtSem /\ e.tokensNeeded = u.tokensNeeded
        /\ e.unblockManner = u.unblockManner
    BY <2>1, <2>2, <2>5
  <2> QED  BY <2>6, <1>4, <1>6, <1>7, <1>10 DEF SameMembers
<1>14. Elsewhere(u)
  <2>1. u.timeSliceCounter = 0
    BY <1>1, <1>6 DEF Elsewhere
  <2> QED  BY <2>1, <1>1, <1>6, ElsewhereKept
<1>15. OnlyBlockedNeed(u)
  <2>1. k.tokensNeeded \in [Threads -> Nat]
    BY KernelFields
  <2> QED  BY <2>1, <1>1, <1>6 DEF OnlyBlockedNeed
<1>16. Represents(e, u)
  BY <1>11, <1>12, <1>13, <1>14, <1>15 DEF Represents
<1> QED  BY <1>10, <1>16 DEF e, c, t, u

\* Sleep::put, for a thread that does not sleep yet.
LEMMA SleepPutKept ==
  ASSUME NEW d \in Mems, NEW k \in Kernels, Represents(d, k),
         InOrder(k.sleepList, k.remaining),
         \A x \in Threads : sleeps(k, x) <=> x \in Range(k.sleepList),
         NEW t \in Threads, ~sleeps(k, t), NEW timeout \in Nat
  PROVE  LET e == sleepPut(d, t, timeout)
         IN  e \in Mems /\ Represents(e, SleepPut(k, t, timeout))
<1> DEFINE W == {x \in Threads : sleeps(k, x) /\ k.remaining[x] <= timeout}
           q == k.sleepList
           r == Only(q, W) \o <<t>> \o Without(q, W)
           e == sleepPut(d, t, timeout)
           u == SleepPut(k, t, timeout)
<1>1. /\ SameMembers(d, k) /\ Elsewhere(k) /\ OnlyBlockedNeed(k) /\ ReadyIs(d, k.ready)
      /\ SleepIs(d, q, k.remaining) /\ BlockedAre(d, k.blocked)
  BY DEF Represents
<1>2. u \in Kernels
  BY SleepPutType
<1>3. /\ SameCounts(k, u) /\ u.timeSliceCounter = k.timeSliceCounter
      /\ u.finished = k.finished /\ u.running = k.running /\ u.ready = k.ready
      /\ u.active = k.active /\ u.value = k.value /\ u.blocked = k.blocked
      /\ u.blockedAtSem = k.blockedAtSem /\ u.tokensNeeded = k.tokensNeeded
      /\ u.unblockManner = k.unblockManner
      /\ u.sleepList = r /\ u.remaining = [k.remaining EXCEPT ![t] = timeout]
  BY DEF SleepPut, Kernels, SameCounts
<1>4. \A i \in 1 .. Len(q) : q[i] \in W <=> k.remaining[q[i]] <= timeout
  <2>1. IsList(q)
    BY <1>1 DEF SleepIs
  <2>2. \A i \in 1 .. Len(q) : q[i] \in Threads /\ q[i] \in Range(q)
    BY <2>1, ListFacts
  <2> QED  BY <2>2
<1>5. /\ u.remaining \in [Threads -> Nat]
      /\ \A x \in Threads : u.remaining[x] = IF x = t THEN timeout ELSE k.remaining[x]
  BY <1>2, <1>3, KernelFields
<1> HIDE DEF u
<1>6. /\ e \in Mems /\ SameReady(d, e) /\ SameBlocked(d, e) /\ SamePlain(d, e)
      /\ SleepIs(e, r, u.remaining)
  <2> DEFINE ticks == k.remaining  newTicks == u.remaining
  <2>1. /\ SleepIs(d, q, ticks) /\ InOrder(q, ticks) /\ t \notin Range(q)
        /\ \A i \in 1 .. Len(q) : q[i] \in W <=> ticks[q[i]] <= timeout
        /\ newTicks \in [Threads -> Nat]
        /\ \A x \in Threads : newTicks[x] = IF x = t THEN timeout ELSE ticks[x]
    BY <1>1, <1>4, <1>5
  <2> HIDE DEF ticks, newTicks, q, W
  <2>2. /\ e \in Mems /\ SameReady(d, e) /\ SameBlocked(d, e) /\ SamePlain(d, e)
        /\ SleepIs(e, Only(q, W) \o <<t>> \o Without(q, W), newTicks)
    BY <2>1, SleepPutDoes
  <2> QED  BY <2>2 DEF newTicks
<1> HIDE DEF e, r
<1>7. ReadyIs(e, u.ready) /\ SleepIs(e, u.sleepList, u.remaining) /\ BlockedAre(e, u.blocked)
  BY <1>1, <1>3, <1>6, SameReadyIs, SameBlockedAre
<1>8. SameMembers(e, u)
  BY <1>1, <1>3, <1>6 DEF SameMembers, SamePlain, SameValues, SameBlocked
<1>9. Elsewhere(u)
  <2>1. u.timeSliceCounter = 0
    BY <1>1, <1>3 DEF Elsewhere
  <2> QED  BY <2>1, <1>1, <1>3, ElsewhereKept
<1>10. OnlyBlockedNeed(u)
  BY <1>1, <1>3 DEF OnlyBlockedNeed
<1>11. Represents(e, u)
  BY <1>7, <1>8, <1>9, <1>10 DEF Represents
<1> QED  BY <1>6, <1>11 DEF e, u

-----------------------------------------------------------------------------
(***************************************************************************)
(* Waking threads one by one is waking them together.                      *)
(***************************************************************************)
\* The members of r come in the order of q.
Follows(r, q) ==
  \A a, b \in DOMAIN r : a < b =>
    \E i, j \in DOMAIN q : i < j /\ q[i] = r[a] /\ q[j] = r[b]

\* Up to position a the lists are the same.
SameUpTo(r, w, a) == \A i \in Nat : i < a => At(r, i) = At(w, i)

\* What comes next in one list is behind that position in the other.
LEMMA NextIsBehind ==
  ASSUME NEW r, IsList(r), NEW w, IsList(w), Range(r) = Range(w), NEW a \in Nat,
         SameUpTo(r, w, a), At(r, a) # At(w, a), NEW i \in 1 .. Len(r), i = a
  PROVE  \E b \in 1 .. Len(w) : w[b] = r[a] /\ a < b
<1>1. /\ Len(w) \in Nat
      /\ \A j \in 1 .. Len(w) : w[j] # Null /\ At(w, j) = w[j]
      /\ \A t : t \in Range(w) <=> \E j \in 1 .. Len(w) : w[j] = t
  BY ListFacts
<1>2. /\ Len(r) \in Nat
      /\ \A j \in 1 .. Len(r) : At(r, j) = r[j]
      /\ \A j : j \notin 1 .. Len(r) => At(r, j) = Null
      /\ \A j, l \in 1 .. Len(r) : r[j] = r[l] => j = l
      /\ \A t : t \in Range(r) <=> \E j \in 1 .. Len(r) : r[j] = t
  BY ListFacts
<1>3. PICK b \in 1 .. Len(w) : w[b] = r[a]
  BY <1>1, <1>2
<1>4. b # a
  BY <1>1, <1>2, <1>3
<1>5. ~(b < a)
  <2> SUFFICES ASSUME b < a PROVE FALSE
    OBVIOUS
  <2>1. At(r, b) = At(w, b)
    BY <1>1, <1>3 DEF SameUpTo
  <2>2. At(r, b) = r[a] /\ r[a] # Null
    BY <2>1, <1>1, <1>3
  <2>3. b \in 1 .. Len(r) /\ r[b] = r[a]
    BY <2>2, <1>2
  <2> QED  BY <2>3, <1>2, <1>4
<1> QED  BY <1>1, <1>3, <1>4, <1>5

\* There is one list of some of the members of q in the order of q.
LEMMA SameOrder ==
  ASSUME NEW q, IsList(q), NEW r, IsList(r), NEW w, IsList(w), Range(r) = Range(w),
         Follows(r, q), Follows(w, q)
  PROVE  r = w
<1> DEFINE D == {a \in Nat : At(r, a) # At(w, a)}
<1>1. /\ Len(w) \in Nat /\ DOMAIN w = 1 .. Len(w) /\ w \in Seq(Threads)
      /\ \A j \in 1 .. Len(w) : w[j] # Null /\ At(w, j) = w[j]
      /\ \A j : j \notin 1 .. Len(w) => At(w, j) = Null
  BY ListFacts DEF IsList
<1>2. /\ Len(r) \in Nat /\ DOMAIN r = 1 .. Len(r) /\ r \in Seq(Threads)
      /\ \A j \in 1 .. Len(r) : r[j] # Null /\ At(r, j) = r[j]
      /\ \A j : j \notin 1 .. Len(r) => At(r, j) = Null
  BY ListFacts DEF IsList
<1>3. /\ Len(q) \in Nat /\ DOMAIN q = 1 .. Len(q)
      /\ \A j, l \in 1 .. Len(q) : q[j] = q[l] => j = l
  BY ListFacts
<1>4. CASE D = {}
  <2>1. \A a \in Nat : At(r, a) = At(w, a)
    BY <1>4
  <2>2. \A a \in 1 .. Len(r) : a \in 1 .. Len(w) /\ r[a] = w[a]
    BY <2>1, <1>1, <1>2
  <2>3. \A a \in 1 .. Len(w) : a \in 1 .. Len(r)
    BY <2>1, <1>1, <1>2
  <2>4. Len(r) = Len(w)
    <3>1. Len(r) = 0 \/ Len(r) \in 1 .. Len(w)
      BY <2>2, <1>2
    <3>2. Len(w) = 0 \/ Len(w) \in 1 .. Len(r)
      BY <2>3, <1>1
    <3>3. Len(r) \in Nat /\ Len(w) \in Nat
      BY <1>1, <1>2
    <3> HIDE DEF D
    <3> QED  BY <3>1, <3>2, <3>3
  <2> QED  BY <2>2, <2>4, <1>1, <1>2
<1>5. CASE D # {}
  <2>1. PICK a \in D : \A y \in D : a <= y
    <3>1. D \subseteq Nat
      OBVIOUS
    <3> HIDE DEF D
    <3> QED  BY <1>5, <3>1, LeastNat
  <2>2. a \in Nat /\ At(r, a) # At(w, a)
    OBVIOUS
  <2>3. SameUpTo(r, w, a) /\ SameUpTo(w, r, a)
    <3>1. ASSUME NEW i \in Nat, i < a
          PROVE  At(r, i) = At(w, i)
      <4>1. ~(a <= i)
        BY <3>1, <2>2
      <4> QED  BY <4>1, <2>1
    <3> QED  BY <3>1 DEF SameUpTo
  <2> HIDE DEF D
  <2>4. a \in 1 .. Len(r) => \E b \in 1 .. Len(w) : w[b] = r[a] /\ a < b
    BY <2>2, <2>3, NextIsBehind
  <2>5. a \in 1 .. Len(w) => \E b \in 1 .. Len(r) : r[b] = w[a] /\ a < b
    BY <2>2, <2>3, NextIsBehind
  <2>6. a \in 1 .. Len(r) /\ a \in 1 .. Len(w)
    <3>1. a \in 1 .. Len(r) \/ a \in 1 .. Len(w)
      BY <2>2, <1>1, <1>2
    <3>2. a \in 1 .. Len(r) => a \in 1 .. Len(w)
      BY <2>2, <2>4, <1>1
    <3>3. a \in 1 .. Len(w) => a \in 1 .. Len(r)
      BY <2>2, <2>5, <1>2
    <3> QED  BY <3>1, <3>2, <3>3
  <2>7. PICK b \in 1 .. Len(w) : w[b] = r[a] /\ a < b
    BY <2>4, <2>6
  <2>8. PICK c \in 1 .. Len(r) : r[c] = w[a] /\ a < c
    BY <2>5, <2>6
  <2>9. PICK i, j \in 1 .. Len(q) : i < j /\ q[i] = w[a] /\ q[j] = w[b]
    BY <2>6, <2>7, <1>1, <1>3 DEF Follows
  <2>10. PICK l, m \in 1 .. Len(q) : l < m /\ q[l] = r[a] /\ q[m] = r[c]
    BY <2>6, <2>8, <1>2, <1>3 DEF Follows
  <2>11. j = l /\ i = m
    BY <2>7, <2>8, <2>9, <2>10, <1>3
  <2> QED  BY <2>9, <2>10, <2>11, <1>3
<1> QED  BY <1>4, <1>5

\* Taking some out leaves the others in their order.
LEMMA WithoutFollows ==
  ASSUME NEW q \in Seq(Threads), NEW W
  PROVE  Follows(Without(q, W), q)
BY WithoutOrder DEF Follows

\* To take out some, and then others, is to take them all out.
LEMMA WithoutTwice ==
  ASSUME NEW q, IsList(q), NEW A, NEW B
  PROVE  Without(Without(q, A), B) = Without(q, A \cup B)
<1> DEFINE a == Without(q, A)
           r == Without(a, B)
           w == Without(q, A \cup B)
<1>1. q \in Seq(Threads) /\ IsInjective(q)
  BY DEF IsList
<1>2. a \in Seq(Threads) /\ Range(a) = Range(q) \ A /\ IsInjective(a)
  BY <1>1, WithoutList, WithoutInjective
<1>3. w \in Seq(Threads) /\ Range(w) = Range(q) \ (A \cup B) /\ IsInjective(w)
  BY <1>1, WithoutList, WithoutInjective
<1>4. Follows(a, q) /\ Follows(w, q)
  BY <1>1, WithoutFollows
<1> HIDE DEF a, w
<1>5. r \in Seq(Threads) /\ Range(r) = Range(a) \ B /\ IsInjective(r)
  BY <1>2, WithoutList, WithoutInjective
<1>6. Follows(r, a)
  BY <1>2, WithoutFollows
<1> HIDE DEF r
<1>7. Follows(r, q)
  <2>1. ASSUME NEW x \in DOMAIN r, NEW y \in DOMAIN r, x < y
        PROVE  \E i, j \in DOMAIN q : i < j /\ q[i] = r[x] /\ q[j] = r[y]
    <3>1. PICK i, j \in DOMAIN a : i < j /\ a[i] = r[x] /\ a[j] = r[y]
      BY <2>1, <1>6 DEF Follows
    <3> QED  BY <3>1, <1>4 DEF Follows
  <2> QED  BY <2>1 DEF Follows
<1>8. Follows(w, q)
  BY <1>4
<1>9. Range(r) = Range(w)
  BY <1>2, <1>3, <1>5
<1>10. r = w
  BY <1>3, <1>5, <1>7, <1>8, <1>9, SameOrder DEF IsList
<1> QED  BY <1>10 DEF r, w, a

\* The records k and w agree in all that is not in the lists.
SameRest(k, w) ==
  /\ SameCounts(k, w) /\ w.finished = k.finished
  /\ w.timeSliceCounter = k.timeSliceCounter
  /\ w.running = k.running /\ w.active = k.active /\ w.value = k.value

\* w is k with the threads of W woken, and r its ready list.
Woken(k, w, r, W, manner) ==
  /\ w \in Kernels /\ SameRest(k, w)
  /\ w.ready = r /\ w.sleepList = Without(k.sleepList, W)
  /\ \A s \in Sems : w.blocked[s] = Without(k.blocked[s], W)
  /\ \A u \in Threads :
       /\ w.remaining[u] = IF u \in W THEN 0 ELSE k.remaining[u]
       /\ w.blockedAtSem[u] = IF u \in W THEN Null ELSE k.blockedAtSem[u]
       /\ w.tokensNeeded[u] = IF u \in W THEN 0 ELSE k.tokensNeeded[u]
       /\ w.unblockManner[u] = IF u \in W /\ k.blockedAtSem[u] # Null
                               THEN manner ELSE k.unblockManner[u]

LEMMA WakeIsWoken ==
  ASSUME NEW k \in Kernels, NEW q \in Seq(Threads), NEW manner \in UnblockManners
  PROVE  Woken(k, Wake(k, q, manner), k.ready \o q, Range(q), manner)
<1> DEFINE w == Wake(k, q, manner)
           W == Range(q)
<1>1. /\ w \in Kernels /\ SameCounts(k, w) /\ w.finished = k.finished
      /\ w.timeSliceCounter = k.timeSliceCounter
      /\ w.running = k.running /\ w.active = k.active /\ w.value = k.value
      /\ w.ready = k.ready \o q /\ w.sleepList = Without(k.sleepList, W)
      /\ \A s \in Sems : w.blocked[s] = Without(k.blocked[s], W)
      /\ \A u \in Threads :
           /\ w.remaining[u] = IF u \in W THEN 0 ELSE k.remaining[u]
           /\ w.blockedAtSem[u] = IF u \in W THEN Null ELSE k.blockedAtSem[u]
           /\ w.tokensNeeded[u] = IF u \in W THEN 0 ELSE k.tokensNeeded[u]
           /\ w.unblockManner[u] = IF u \in W /\ k.blockedAtSem[u] # Null
                                   THEN manner ELSE k.unblockManner[u]
  BY WakeAllFields
<1> HIDE DEF w, W
<1>2. Woken(k, w, k.ready \o q, W, manner)
  BY <1>1 DEF Woken, SameRest
<1> QED  BY <1>2 DEF w, W

\* Two records with the same members are the same.
LEMMA SameRecord ==
  ASSUME NEW u \in Kernels, NEW v \in Kernels, SameRest(u, v), v.ready = u.ready,
         v.sleepList = u.sleepList, v.remaining = u.remaining, v.blocked = u.blocked,
         v.blockedAtSem = u.blockedAtSem, v.tokensNeeded = u.tokensNeeded,
         v.unblockManner = u.unblockManner
  PROVE  u = v
<1>1. u = MembersOf(u) /\ v = MembersOf(v)
  BY KernelMembers
<1>2. MembersOf(u) = MembersOf(v)
  BY DEF MembersOf, SameRest, SameCounts
<1> QED  BY <1>1, <1>2

\* What is woken is determined.
LEMMA WokenOnce ==
  ASSUME NEW k, NEW u, NEW v, NEW r, NEW W, NEW manner,
         Woken(k, u, r, W, manner), Woken(k, v, r, W, manner)
  PROVE  u = v
<1>1. u \in Kernels /\ v \in Kernels /\ SameRest(u, v)
  BY DEF Woken, SameRest, SameCounts
<1>2. v.ready = u.ready /\ v.sleepList = u.sleepList
  BY DEF Woken
<1>3. v.blocked = u.blocked
  <2>1. u.blocked \in [Sems -> Seq(Threads)] /\ v.blocked \in [Sems -> Seq(Threads)]
    BY <1>1, KernelFields
  <2>2. \A s \in Sems : v.blocked[s] = u.blocked[s]
    BY DEF Woken
  <2> QED  BY <2>1, <2>2
<1>4. /\ v.remaining = u.remaining /\ v.blockedAtSem = u.blockedAtSem
      /\ v.tokensNeeded = u.tokensNeeded /\ v.unblockManner = u.unblockManner
  <2>1. /\ u.remaining \in [Threads -> Nat] /\ v.remaining \in [Threads -> Nat]
        /\ u.tokensNeeded \in [Threads -> Nat] /\ v.tokensNeeded \in [Threads -> Nat]
        /\ u.blockedAtSem \in [Threads -> Sems \cup {Null}]
        /\ v.blockedAtSem \in [Threads -> Sems \cup {Null}]
        /\ u.unblockManner \in [Threads -> UnblockManners]
        /\ v.unblockManner \in [Threads -> UnblockManners]
    BY <1>1 DEF Kernels
  <2>2. \A x \in Threads :
          /\ v.remaining[x] = u.remaining[x] /\ v.blockedAtSem[x] = u.blockedAtSem[x]
          /\ v.tokensNeeded[x] = u.tokensNeeded[x]
          /\ v.unblockManner[x] = u.unblockManner[x]
    BY DEF Woken
  <2> QED  BY <2>1, <2>2
<1> QED  BY <1>1, <1>2, <1>3, <1>4, SameRecord

\* Nobody is on a list of k twice.
Listed(k) == IsList(k.sleepList) /\ \A s \in Sems : IsList(k.blocked[s])

LEMMA WokenTwice ==
  ASSUME NEW k, Listed(k), NEW u, NEW v, NEW q, NEW r, NEW A, NEW B, NEW manner,
         Woken(k, u, q, A, manner), Woken(u, v, r, B, manner)
  PROVE  Woken(k, v, r, A \cup B, manner)
<1>1. v \in Kernels /\ SameRest(k, v) /\ v.ready = r
  BY DEF Woken, SameRest, SameCounts
<1>2. v.sleepList = Without(k.sleepList, A \cup B)
  <2>1. v.sleepList = Without(Without(k.sleepList, A), B)
    BY DEF Woken
  <2> QED  BY <2>1, WithoutTwice DEF Listed
<1>3. ASSUME NEW s \in Sems
      PROVE  v.blocked[s] = Without(k.blocked[s], A \cup B)
  <2>1. v.blocked[s] = Without(Without(k.blocked[s], A), B)
    BY DEF Woken
  <2> QED  BY <2>1, WithoutTwice DEF Listed
<1>4. ASSUME NEW x \in Threads
      PROVE  /\ v.remaining[x] = IF x \in A \cup B THEN 0 ELSE k.remaining[x]
             /\ v.blockedAtSem[x] = IF x \in A \cup B THEN Null ELSE k.blockedAtSem[x]
             /\ v.tokensNeeded[x] = IF x \in A \cup B THEN 0 ELSE k.tokensNeeded[x]
             /\ v.unblockManner[x] = IF x \in A \cup B /\ k.blockedAtSem[x] # Null
                                     THEN manner ELSE k.unblockManner[x]
  <2>1. /\ u.remaining[x] = IF x \in A THEN 0 ELSE k.remaining[x]
        /\ u.blockedAtSem[x] = IF x \in A THEN Null ELSE k.blockedAtSem[x]
        /\ u.tokensNeeded[x] = IF x \in A THEN 0 ELSE k.tokensNeeded[x]
        /\ u.unblockManner[x] = IF x \in A /\ k.blockedAtSem[x] # Null
                                THEN manner ELSE k.unblockManner[x]
    BY DEF Woken
  <2>2. /\ v.remaining[x] = IF x \in B THEN 0 ELSE u.remaining[x]
        /\ v.blockedAtSem[x] = IF x \in B THEN Null ELSE u.blockedAtSem[x]
        /\ v.tokensNeeded[x] = IF x \in B THEN 0 ELSE u.tokensNeeded[x]
        /\ v.unblockManner[x] = IF x \in B /\ u.blockedAtSem[x] # Null
                                THEN manner ELSE u.unblockManner[x]
    BY DEF Woken
  <2> QED  BY <2>1, <2>2
<1> QED  BY <1>1, <1>2, <1>3, <1>4 DEF Woken

\* Behind two lists is behind the second one.
LEMMA ConcatAppend ==
  ASSUME NEW q \in Seq(Threads), NEW a \in Seq(Threads), NEW t \in Threads
  PROVE  (q \o a) \o <<t>> = q \o Append(a, t)
<1> DEFINE m == Len(q)
           n == Len(a)
           c == q \o a
           l == c \o <<t>>
           b == Append(a, t)
           r == q \o b
<1>1. m \in Nat /\ n \in Nat
  OBVIOUS
<1>2. c \in Seq(Threads) /\ Len(c) = m + n
  OBVIOUS
<1>3. \A i \in 1 .. m + n : c[i] = IF i <= m THEN q[i] ELSE a[i - m]
  OBVIOUS
<1>4. b \in Seq(Threads) /\ Len(b) = n + 1 /\ b[n + 1] = t /\ \A i \in 1 .. n : b[i] = a[i]
  OBVIOUS
<1> HIDE DEF c, b
<1>0. l = Append(c, t)
  BY <1>2
<1>5. l \in Seq(Threads) /\ Len(l) = Len(c) + 1 /\ l[Len(c) + 1] = t
  <2>1. LET e == Append(c, t)
        IN  e \in Seq(Threads) /\ Len(e) = Len(c) + 1 /\ e[Len(c) + 1] = t
    BY <1>2
  <2> HIDE DEF l
  <2> QED  BY <1>0, <2>1
<1>6. \A i \in 1 .. Len(c) : l[i] = c[i]
  <2>1. \A i \in 1 .. Len(c) : Append(c, t)[i] = c[i]
    BY <1>2
  <2> HIDE DEF l
  <2> QED  BY <1>0, <2>1
<1>7. r \in Seq(Threads) /\ Len(r) = m + (n + 1)
  BY <1>4
<1>8. \A i \in 1 .. m + (n + 1) : r[i] = IF i <= m THEN q[i] ELSE b[i - m]
  BY <1>4
<1> HIDE DEF l, r, m, n
<1>9. ASSUME NEW i \in 1 .. m + n + 1
      PROVE  l[i] = r[i]
  <2>1. i \in Nat /\ i >= 1
    BY <1>1
  <2>2. CASE i <= m
    <3>1. i \in 1 .. m + n /\ i \in 1 .. m + (n + 1)
      BY <2>1, <2>2, <1>1
    <3> QED  BY <3>1, <2>2, <1>2, <1>3, <1>6, <1>8
  <2>3. CASE i > m /\ i <= m + n
    <3>1. /\ i \in 1 .. m + n /\ i \in 1 .. m + (n + 1) /\ i - m \in 1 .. n
          /\ ~(i <= m)
      BY <2>1, <2>3, <1>1
    <3> QED  BY <3>1, <1>2, <1>3, <1>4, <1>6, <1>8
  <2>4. CASE i > m + n
    <3>1. /\ i = Len(c) + 1 /\ i \in 1 .. m + (n + 1) /\ i - m = n + 1
          /\ ~(i <= m)
      BY <2>1, <2>4, <1>1, <1>2
    <3> QED  BY <3>1, <1>4, <1>5, <1>8
  <2> QED  BY <2>1, <2>2, <2>3, <2>4, <1>1
<1>10. Len(l) = m + n + 1 /\ Len(r) = m + n + 1
  BY <1>1, <1>2, <1>5, <1>7
<1>11. l = r
  <2> DEFINE p == m + n + 1
  <2>1. Len(l) = p /\ Len(r) = p /\ \A i \in 1 .. p : l[i] = r[i]
    BY <1>9, <1>10
  <2> HIDE DEF p
  <2> QED  BY <2>1, <1>5, <1>7
<1> QED  BY <1>11 DEF l, r, c, b

\* One more thread.
LEMMA WakeMore ==
  ASSUME NEW k \in Kernels, Listed(k), NEW a \in Seq(Threads), NEW t \in Threads,
         NEW manner \in UnblockManners
  PROVE  Wake(Wake(k, a, manner), <<t>>, manner) = Wake(k, Append(a, t), manner)
<1> DEFINE u == Wake(k, a, manner)
           v == Wake(u, <<t>>, manner)
           b == Append(a, t)
           w == Wake(k, b, manner)
           m == <<t>>
<1>1. m \in Seq(Threads) /\ Range(m) = {t}
  BY SingleList
<1>2. b \in Seq(Threads) /\ Range(b) = Range(a) \cup {t}
  BY AppendList
<1>3. Woken(k, u, k.ready \o a, Range(a), manner)
  BY WakeIsWoken
<1>4. u \in Kernels /\ u.ready = k.ready \o a
  BY <1>3 DEF Woken
<1> HIDE DEF m, u, b
<1>5. Woken(u, v, u.ready \o m, Range(m), manner)
  BY <1>1, <1>4, WakeIsWoken DEF m
<1>6. Woken(k, w, k.ready \o b, Range(b), manner)
  BY <1>2, WakeIsWoken
<1>7. u.ready \o m = k.ready \o b
  <2>1. k.ready \in Seq(Threads)
    BY KernelFields
  <2>2. (k.ready \o a) \o <<t>> = k.ready \o Append(a, t)
    BY <2>1, ConcatAppend
  <2> QED  BY <2>2, <1>4 DEF m, b
<1> HIDE DEF v, w
<1>8. Woken(k, v, k.ready \o b, Range(b), manner)
  BY <1>1, <1>2, <1>3, <1>5, <1>7, WokenTwice
<1>9. v = w
  BY <1>6, <1>8, WokenOnce
<1> QED  BY <1>9 DEF u, v, w, b

\* To wake nobody changes nothing.
LEMMA WakeNobody ==
  ASSUME NEW k \in Kernels, NEW manner \in UnblockManners
  PROVE  Wake(k, <<>>, manner) = k
<1> DEFINE q == <<>>
           w == Wake(k, q, manner)
<1>1. q \in Seq(Threads) /\ Range(q) = {}
  BY EmptyList
<1>2. Woken(k, w, k.ready \o q, Range(q), manner)
  BY <1>1, WakeIsWoken
<1>3. k.ready \o q = k.ready
  BY KernelFields
<1> HIDE DEF w, q
<1>4. Woken(k, k, k.ready, {}, manner)
  <2>1. /\ k.sleepList \in Seq(Threads) /\ k.blocked \in [Sems -> Seq(Threads)]
    BY KernelFields
  <2>2. Without(k.sleepList, {}) = k.sleepList
    BY <2>1, WithoutNobody
  <2>3. \A s \in Sems : Without(k.blocked[s], {}) = k.blocked[s]
    BY <2>1, WithoutNobody
  <2> QED  BY <2>2, <2>3 DEF Woken, SameRest, SameCounts
<1>5. w = k
  BY <1>1, <1>2, <1>3, <1>4, WokenOnce
<1> QED  BY <1>5 DEF w, q

-----------------------------------------------------------------------------
(***************************************************************************)
(* The loops that wake threads: stage i is the record with the first i     *)
(* threads of a list woken.                                                *)
(***************************************************************************)
\* The first i threads of a list.
LEMMA FirstOnes ==
  ASSUME NEW q, IsList(q), NEW i \in 0 .. Len(q)
  PROVE  LET a == SubSeq(q, 1, i)
         IN  /\ a \in Seq(Threads)
             /\ \A j \in 1 .. Len(q) : q[j] \in Range(a) <=> j <= i
             /\ Range(a) \subseteq Range(q)
             /\ i < Len(q) => SubSeq(q, 1, i + 1) = Append(a, q[i + 1])
<1> DEFINE a == SubSeq(q, 1, i)
           m == Len(q)
<1>1. /\ m \in Nat /\ \A j \in 1 .. m : q[j] \in Threads
      /\ \A j, l \in 1 .. m : q[j] = q[l] => j = l
      /\ \A t : t \in Range(q) <=> \E j \in 1 .. m : q[j] = t
  BY ListFacts
<1>2. q \in Seq(Threads)
  BY DEF IsList
<1>3. i \in Nat /\ i <= m
  BY <1>1
<1>4. a \in Seq(Threads) /\ Len(a) = i /\ \A j \in 1 .. i : a[j] = q[j]
  BY <1>1, <1>2, <1>3
<1>5. \A t : t \in Range(a) <=> \E j \in 1 .. i : a[j] = t
  <2> HIDE DEF a
  <2> QED  BY <1>4, RangeByIndex
<1>6. \A j \in 1 .. m : q[j] \in Range(a) <=> j <= i
  <2> TAKE j \in 1 .. m
  <2>1. j \in Nat /\ j >= 1
    BY <1>1
  <2>2. \A l \in 1 .. i : l \in 1 .. m
    BY <1>3, <1>1
  <2>3. j <= i => j \in 1 .. i
    BY <2>1, <1>3
  <2> HIDE DEF a, m
  <2>4. CASE j <= i
    BY <2>3, <2>4, <1>4, <1>5
  <2>5. CASE ~(j <= i)
    <3>1. ASSUME NEW l \in 1 .. i, a[l] = q[j]
          PROVE  FALSE
      <4>1. l = j
        BY <3>1, <2>2, <1>1, <1>4
      <4>2. l <= i
        BY <1>3
      <4> QED  BY <4>1, <4>2, <2>5
    <3> QED  BY <3>1, <2>5, <1>5
  <2> QED  BY <2>4, <2>5
<1>7. Range(a) \subseteq Range(q)
  <2>1. \A l \in 1 .. i : l \in 1 .. m
    BY <1>3, <1>1
  <2> HIDE DEF a, m
  <2> QED  BY <2>1, <1>1, <1>4, <1>5
<1>8. ASSUME i < m
      PROVE  SubSeq(q, 1, i + 1) = Append(a, q[i + 1])
  <2> DEFINE b == SubSeq(q, 1, i + 1)
             c == Append(a, q[i + 1])
  <2>1. i + 1 \in 1 .. m /\ i + 1 \in Nat
    BY <1>8, <1>1, <1>3
  <2>2. b \in Seq(Threads) /\ Len(b) = i + 1 /\ \A j \in 1 .. i + 1 : b[j] = q[j]
    BY <2>1, <1>1, <1>2
  <2>3. q[i + 1] \in Threads
    BY <2>1, <1>1
  <2> HIDE DEF a, b
  <2>4. /\ c \in Seq(Threads) /\ Len(c) = i + 1 /\ c[i + 1] = q[i + 1]
        /\ \A j \in 1 .. i : c[j] = a[j]
    BY <2>3, <1>3, <1>4
  <2>5. \A j \in 1 .. i + 1 : b[j] = c[j]
    <3> TAKE j \in 1 .. i + 1
    <3>1. j <= i \/ (j = i + 1 /\ j > i)
      BY <1>3, OneMore
    <3>2. j <= i => j \in 1 .. i
      BY <1>3
    <3> HIDE DEF c
    <3> QED  BY <3>1, <3>2, <2>2, <2>4, <1>4
  <2> HIDE DEF c
  <2>6. b = c
    BY <2>2, <2>4, <2>5
  <2> QED  BY <2>6 DEF b, c
<1> QED  BY <1>4, <1>6, <1>7, <1>8 DEF a, m

\* All the stages there are.
AllStages(S, n) == UNION {S[j] : j \in 0 .. n}

\* Where F is the body of the loop, g does what the loop does.
Obeys(g, F, D, N) == \A i \in 1 .. N : g[i - 1] \in D => g[i] = F[g[i - 1]]

\* Such a loop ends at the last stage.
LEMMA LoopEnds ==
  ASSUME NEW n \in Nat, NEW N \in Nat, n <= N, NEW S, NEW F, LeadsOn(F, S, n),
         NEW g, g[0] \in S[0], Obeys(g, F, AllStages(S, n), N)
  PROVE  g[N] \in S[n]
<1>1. ASSUME NEW i \in 1 .. N, NEW j \in 0 .. n, g[i - 1] \in S[j]
      PROVE  g[i] \in S[After(j, n)]
  <2>1. g[i - 1] \in AllStages(S, n)
    BY <1>1 DEF AllStages
  <2>2. g[i] = F[g[i - 1]]
    BY <2>1 DEF Obeys
  <2> QED  BY <1>1, <2>2 DEF LeadsOn
<1>2. Proceeds(g, S, n, N)
  BY <1>1 DEF Proceeds
<1> QED  BY <1>2, StagesReached

\* There is a function that does it, whatever it does elsewhere.
LEMMA LoopThere ==
  ASSUME NEW n \in Nat, NEW N \in Nat, n <= N, NEW S, NEW F, LeadsOn(F, S, n),
         NEW from \in S[0]
  PROVE  \E f : /\ Walks(f, from, F, N)
                /\ \A i \in 1 .. N : f[i - 1] \in AllStages(S, n)
<1>1. PICK f : Walks(f, from, F, N) /\ Staged(f, S, n, N)
  BY LoopExists
<1>2. ASSUME NEW i \in 1 .. N
      PROVE  f[i - 1] \in AllStages(S, n)
  <2>1. i - 1 \in 0 .. N
    OBVIOUS
  <2>2. PICK j \in 0 .. n : f[i - 1] \in S[j]
    BY <1>1, <2>1 DEF Staged
  <2> QED  BY <2>2 DEF AllStages
<1> QED  BY <1>1, <1>2

\* Setting a value is no matter of the lists.
LEMMA ValueDoes ==
  ASSUME NEW d \in Mems, NEW k \in Kernels, Represents(d, k), NEW s \in Sems, NEW v \in Nat
  PROVE  LET e == [d EXCEPT !.value[s] = v]
             u == [k EXCEPT !.value[s] = v]
         IN  e \in Mems /\ u \in Kernels /\ Represents(e, u)
<1> DEFINE e == [d EXCEPT !.value[s] = v]
           u == [k EXCEPT !.value[s] = v]
<1>1. /\ SameMembers(d, k) /\ Elsewhere(k) /\ OnlyBlockedNeed(k) /\ ReadyIs(d, k.ready)
      /\ SleepIs(d, k.sleepList, k.remaining) /\ BlockedAre(d, k.blocked)
  BY DEF Represents
<1>2. e \in Mems
  BY DEF Mems
<1>3. u \in Kernels
  BY DEF Kernels
<1>4. /\ SameReady(d, e) /\ SameSleep(d, e) /\ SameBlocked(d, e)
      /\ e.running = d.running /\ e.active = d.active
      /\ e.tokensNeeded = d.tokensNeeded /\ e.unblockManner = d.unblockManner
      /\ e.value = [d.value EXCEPT ![s] = v]
  BY DEF Mems, SameReady, SameSleep, SameBlocked
<1>5. /\ SameCounts(k, u) /\ u.timeSliceCounter = k.timeSliceCounter
      /\ u.finished = k.finished /\ u.running = k.running /\ u.ready = k.ready
      /\ u.sleepList = k.sleepList /\ u.remaining = k.remaining
      /\ u.blocked = k.blocked /\ u.blockedAtSem = k.blockedAtSem
      /\ u.tokensNeeded = k.tokensNeeded /\ u.active = k.active
      /\ u.value = [k.value EXCEPT ![s] = v] /\ u.unblockManner = k.unblockManner
  BY DEF Kernels, SameCounts
<1> HIDE DEF e, u
<1>6. SameMembers(e, u)
  BY <1>1, <1>4, <1>5 DEF SameMembers, SameBlocked
<1>7. Elsewhere(u)
  <2>1. u.timeSliceCounter = 0
    BY <1>1, <1>5 DEF Elsewhere
  <2> QED  BY <2>1, <1>1, <1>5, ElsewhereKept
<1>8. OnlyBlockedNeed(u)
  BY <1>1, <1>5 DEF OnlyBlockedNeed
<1>9. /\ ReadyIs(e, u.ready) /\ SleepIs(e, u.sleepList, u.remaining)
      /\ BlockedAre(e, u.blocked)
  BY <1>1, <1>4, <1>5, SameReadyIs, SameSleepIs, SameBlockedAre
<1> QED  BY <1>2, <1>3, <1>6, <1>7, <1>8, <1>9 DEF Represents, e, u

\* What a memory represents has lists.
LEMMA RepresentsListed ==
  ASSUME NEW d, NEW k, Represents(d, k)
  PROVE  Listed(k) /\ IsList(k.ready)
BY DEF Represents, Listed, ReadyIs, SleepIs, BlockedAre, SemIs

\* The threads of q can become ready, in k.
CanAwake(k, q) == \A t \in Range(q) : t # Idle /\ t \notin Range(k.ready)

\* The record with the first i threads of q woken: nobody of the others has
\* become ready.
LEMMA SomeAwake ==
  ASSUME NEW k \in Kernels, Listed(k), NEW q, IsList(q), CanAwake(k, q),
         NEW manner \in UnblockManners, NEW i \in 0 .. Len(q)
  PROVE  LET a == SubSeq(q, 1, i)
             u == Wake(k, a, manner)
         IN  /\ u \in Kernels /\ Woken(k, u, k.ready \o a, Range(a), manner)
             /\ i < Len(q) =>
                  /\ q[i + 1] \in Threads /\ q[i + 1] # Idle
                  /\ q[i + 1] \notin Range(u.ready)
                  /\ Wake(u, <<q[i + 1]>>, manner) = Wake(k, SubSeq(q, 1, i + 1), manner)
<1> DEFINE a == SubSeq(q, 1, i)
           u == Wake(k, a, manner)
           t == q[i + 1]
<1>1. /\ Len(q) \in Nat /\ \A j \in 1 .. Len(q) : q[j] \in Threads
      /\ \A x : x \in Range(q) <=> \E j \in 1 .. Len(q) : q[j] = x
  BY ListFacts
<1>2. /\ a \in Seq(Threads)
      /\ \A j \in 1 .. Len(q) : q[j] \in Range(a) <=> j <= i
      /\ Range(a) \subseteq Range(q)
      /\ i < Len(q) => SubSeq(q, 1, i + 1) = Append(a, q[i + 1])
  BY FirstOnes
<1> HIDE DEF a
<1>3. Woken(k, u, k.ready \o a, Range(a), manner)
  BY <1>2, WakeIsWoken
<1>4. u \in Kernels /\ u.ready = k.ready \o a
  BY <1>3 DEF Woken
<1> HIDE DEF u
<1>5. ASSUME i < Len(q)
      PROVE  /\ t \in Threads /\ t # Idle /\ t \notin Range(u.ready)
             /\ Wake(u, <<t>>, manner) = Wake(k, SubSeq(q, 1, i + 1), manner)
  <2>1. i + 1 \in 1 .. Len(q) /\ ~(i + 1 <= i)
    BY <1>1, <1>5
  <2>2. t \in Threads /\ t \in Range(q) /\ t \notin Range(a)
    BY <2>1, <1>1, <1>2
  <2>3. k.ready \in Seq(Threads)
    BY KernelFields
  <2>4. Range(u.ready) = Range(k.ready) \cup Range(a)
    BY <2>3, <1>2, <1>4, ConcatList
  <2>5. t # Idle /\ t \notin Range(u.ready)
    BY <2>2, <2>4 DEF CanAwake
  <2>6. SubSeq(q, 1, i + 1) = Append(a, t)
    BY <1>2, <1>5
  <2> HIDE DEF t
  <2>7. Wake(u, <<t>>, manner) = Wake(k, Append(a, t), manner)
    BY <1>2, <2>2, WakeMore DEF u
  <2> QED  BY <2>2, <2>5, <2>6, <2>7
<1> QED  BY <1>3, <1>4, <1>5 DEF a, u

\* One round of the loop of signalAll.
LEMMA SignalAllStep ==
  ASSUME NEW k \in Kernels, Listed(k), NEW s \in Sems, CanAwake(k, k.blocked[s]),
         NEW manner \in UnblockManners, NEW i \in 0 .. Len(k.blocked[s]),
         NEW d \in Mems, Represents(d, Wake(k, SubSeq(k.blocked[s], 1, i), manner))
  PROVE  /\ d.blockedHead[s] # Null <=> i < Len(k.blocked[s])
         /\ i < Len(k.blocked[s]) =>
              /\ release(d, s, manner) \in Mems
              /\ Represents(release(d, s, manner),
                            Wake(k, SubSeq(k.blocked[s], 1, i + 1), manner))
<1> DEFINE q == k.blocked[s]
           a == SubSeq(q, 1, i)
           u == Wake(k, a, manner)
           r == u.blocked[s]
           t == q[i + 1]
<1>1. IsList(q) /\ Len(q) \in Nat
  BY ListFacts DEF Listed
<1>2. /\ u \in Kernels /\ Woken(k, u, k.ready \o a, Range(a), manner)
      /\ i < Len(q) =>
           /\ q[i + 1] \in Threads /\ q[i + 1] # Idle
           /\ q[i + 1] \notin Range(u.ready)
           /\ Wake(u, <<q[i + 1]>>, manner) = Wake(k, SubSeq(q, 1, i + 1), manner)
  <2> HIDE DEF q
  <2> QED  BY <1>1, SomeAwake DEF q
<1>3. r = Without(q, Range(a))
  BY <1>2 DEF Woken
<1>4. \A j \in 1 .. Len(q) : q[j] \in Range(a) <=> j <= i
  <2> HIDE DEF q
  <2> QED  BY <1>1, FirstOnes DEF q
<1>5. /\ IsList(r) /\ Len(r) = Len(q) - i
      /\ \A j \in 1 .. Len(q) - i : r[j] = q[j + i]
  <2> DEFINE W == Range(a)
  <2>1. \A j \in 1 .. Len(q) : q[j] \in W <=> j <= i
    BY <1>4
  <2>2. i \in 0 .. Len(q)
    OBVIOUS
  <2> HIDE DEF W, q
  <2>3. /\ IsList(Without(q, W)) /\ Range(Without(q, W)) = Range(q) \ W
        /\ Len(Without(q, W)) = Len(q) - i
        /\ \A j \in 1 .. Len(q) - i : Without(q, W)[j] = q[j + i]
    BY <1>1, <2>1, <2>2, WithoutTheFirst
  <2> QED  BY <2>3, <1>3 DEF W
<1>6. d.blockedHead[s] = At(r, 1)
  BY DEF Represents, BlockedAre, SemIs, Chained
<1>7. Represents(d, u)
  OBVIOUS
<1> HIDE DEF q, a, u, r
<1>8. CASE i < Len(q)
  <2>1. 1 \in 1 .. Len(q) - i /\ 1 \in 1 .. Len(r) /\ 1 + i = i + 1
    BY <1>1, <1>5, <1>8
  <2>2. r[1] = t
    BY <2>1, <1>5
  <2>3. At(r, 1) = r[1] /\ r[1] # Null /\ r # <<>>
    BY <2>1, <1>5, ListFacts
  <2>4. Head(r) = r[1]
    BY <2>3, <1>5, TailRemoved
  <2>5. t # Idle /\ t \notin Range(u.ready)
    BY <1>2, <1>8
  <2>6. release(d, s, manner) \in Mems
        /\ Represents(release(d, s, manner), Wake(u, <<t>>, manner))
    <3>1. u.blocked[s] # <<>> /\ t = Head(u.blocked[s])
      BY <2>2, <2>3, <2>4 DEF r
    <3> HIDE DEF t
    <3> QED  BY <1>2, <1>7, <2>5, <3>1, ReleaseDoes
  <2>7. Wake(u, <<t>>, manner) = Wake(k, SubSeq(q, 1, i + 1), manner)
    BY <1>2, <1>8
  <2> QED  BY <1>6, <1>8, <2>2, <2>3, <2>6, <2>7 DEF q
<1>9. CASE ~(i < Len(q))
  <2>1. Len(r) = 0
    BY <1>1, <1>5, <1>9
  <2>2. 1 \notin 1 .. Len(r)
    BY <2>1
  <2>3. At(r, 1) = Null
    BY <2>2, <1>5, ListFacts
  <2> QED  BY <1>6, <1>9, <2>3 DEF q
<1> QED  BY <1>8, <1>9

\* kSemaphore::signalAll.
LEMMA SignalAllDoes ==
  ASSUME NEW d \in Mems, NEW k \in Kernels, Represents(d, k), NEW s \in Sems,
         s \in k.active, CanAwake(k, k.blocked[s]), NEW manner \in UnblockManners
  PROVE  /\ signalAll(d, s, manner) \in Mems /\ SignalAll(k, s, manner) \in Kernels
         /\ Represents(signalAll(d, s, manner), SignalAll(k, s, manner))
<1> DEFINE q == k.blocked[s]
           n == Len(q)
           going(x) == x.blockedHead[s] # Null
           step(x)  == release(x, s, manner)
           stage(i) == Wake(k, SubSeq(q, 1, i), manner)
           S == [i \in 0 .. n |-> {x \in Mems : Represents(x, stage(i))}]
           F == [x \in AllStages(S, n) |-> IF going(x) THEN step(x) ELSE x]
           Looped(g) == g = [i \in 0 .. Rounds |->
             IF i = 0 THEN d
             ELSE LET now == g[i - 1] IN IF going(now) THEN step(now) ELSE now]
<1>1. Listed(k) /\ IsList(q) /\ n \in Nat
  BY RepresentsListed, ListFacts DEF Listed
<1>2. Rounds \in Nat /\ n <= Rounds
  <2>1. n < Rounds /\ Rounds \in Nat
    BY <1>1, RoundsEnough
  <2> QED  BY <1>1, <2>1
<1>3. \A i \in 0 .. n : \A x \in Mems :
        Represents(x, stage(i)) =>
          /\ going(x) <=> i < n
          /\ i < n => step(x) \in Mems /\ Represents(step(x), stage(i + 1))
  BY <1>1, SignalAllStep
<1>4. stage(0) = k /\ q \in Seq(Threads) /\ SubSeq(q, 1, n) = q
  <2>1. q \in Seq(Threads)
    BY <1>1 DEF IsList
  <2>2. SubSeq(q, 1, 0) = <<>> /\ SubSeq(q, 1, n) = q
    <3> HIDE DEF q
    <3> QED  BY <2>1
  <2>3. Wake(k, <<>>, manner) = k
    BY WakeNobody
  <2> QED  BY <2>1, <2>2, <2>3
<1>5. \A j \in 0 .. n : S[j] = {x \in Mems : Represents(x, stage(j))}
  OBVIOUS
<1> HIDE DEF n, stage, going, step
<1>6. LeadsOn(F, S, n)
  <2> SUFFICES ASSUME NEW j \in 0 .. n, NEW x \in S[j] PROVE F[x] \in S[After(j, n)]
    BY DEF LeadsOn
  <2>1. x \in Mems /\ Represents(x, stage(j))
    BY <1>5
  <2>2. F[x] = IF going(x) THEN step(x) ELSE x
    BY DEF AllStages
  <2>3. After(j, n) \in 0 .. n /\ (j < n => After(j, n) = j + 1) /\ (~(j < n) => After(j, n) = j)
    BY <1>1 DEF After
  <2> HIDE DEF F, S
  <2>4. CASE j < n
    <3>1. F[x] \in Mems /\ Represents(F[x], stage(j + 1))
      BY <1>3, <2>1, <2>2, <2>4
    <3> QED  BY <1>5, <2>3, <2>4, <3>1
  <2>5. CASE ~(j < n)
    <3>1. F[x] = x
      BY <1>3, <2>1, <2>2, <2>5
    <3> QED  BY <2>3, <2>5, <3>1
  <2> QED  BY <2>4, <2>5
<1>7. d \in S[0]
  <2>1. 0 \in 0 .. n
    BY <1>1
  <2> QED  BY <1>4, <1>5, <2>1
<1>8. PICK f : /\ Walks(f, d, F, Rounds)
               /\ \A i \in 1 .. Rounds : f[i - 1] \in AllStages(S, n)
  <2> HIDE DEF F, S
  <2> QED  BY <1>1, <1>2, <1>6, <1>7, LoopThere
<1>9. Looped(f)
  <2>1. \A i \in 0 .. Rounds : i # 0 => i \in 1 .. Rounds
    BY <1>2
  <2>2. \A i \in 0 .. Rounds : i # 0 =>
          F[f[i - 1]] = IF going(f[i - 1]) THEN step(f[i - 1]) ELSE f[i - 1]
    BY <1>8, <2>1
  <2> HIDE DEF F, S
  <2> QED  BY <1>8, <2>2 DEF Walks
<1> DEFINE after == CHOOSE g : Looped(g)
<1>10. Looped(after)
  BY <1>9
<1>11. signalAll(d, s, manner) = [after[Rounds] EXCEPT !.value[s] = 0]
  BY DEF signalAll, While, going, step
<1> HIDE DEF after
<1>12. /\ after[0] = d
       /\ \A i \in 1 .. Rounds :
            after[i] = IF going(after[i - 1]) THEN step(after[i - 1]) ELSE after[i - 1]
  <2>1. \A i \in 1 .. Rounds : i \in 0 .. Rounds /\ i # 0
    BY <1>2
  <2>2. 0 \in 0 .. Rounds
    BY <1>2
  <2> QED  BY <1>10, <2>1, <2>2
<1>13. Obeys(after, F, AllStages(S, n), Rounds)
  BY <1>12 DEF Obeys
<1>14. after[Rounds] \in S[n]
  <2> HIDE DEF F, S
  <2> QED  BY <1>1, <1>2, <1>6, <1>7, <1>12, <1>13, LoopEnds
<1>15. after[Rounds] \in Mems /\ Represents(after[Rounds], Wake(k, q, manner))
  <2>1. n \in 0 .. n
    BY <1>1
  <2>2. stage(n) = Wake(k, q, manner)
    BY <1>4 DEF stage, n
  <2> HIDE DEF S
  <2> QED  BY <1>5, <1>14, <2>1, <2>2
<1>16. Wake(k, q, manner) \in Kernels
  <2> HIDE DEF q
  <2> QED  BY <1>4, WakeIsWoken DEF Woken
<1> DEFINE m == after[Rounds]  w == Wake(k, q, manner)
<1>17. SignalAll(k, s, manner) = [w EXCEPT !.value[s] = 0]
  BY DEF SignalAll
<1>18. m \in Mems /\ w \in Kernels /\ Represents(m, w)
  BY <1>15, <1>16
<1> HIDE DEF m, w
<1>19. /\ [m EXCEPT !.value[s] = 0] \in Mems /\ [w EXCEPT !.value[s] = 0] \in Kernels
       /\ Represents([m EXCEPT !.value[s] = 0], [w EXCEPT !.value[s] = 0])
  BY <1>18, ValueDoes
<1> QED  BY <1>11, <1>17, <1>19 DEF m

-----------------------------------------------------------------------------
(***************************************************************************)
(* Sleep::onTick.                                                          *)
(***************************************************************************)
\* The differences and the ticks of the threads of q when a tick has passed.
Ticked(diff, ticks, newDiff, newTicks, q) ==
  \A t \in Threads :
    /\ newDiff[t] = IF t = q[1] THEN diff[t] - 1 ELSE diff[t]
    /\ newTicks[t] = IF ticks[t] > 0 THEN ticks[t] - 1 ELSE 0
    /\ ticks[t] > 0 <=> t \in Range(q)

\* One tick less for every sleeper is one less for the head.
LEMMA DifferencesTicked ==
  ASSUME NEW q, IsList(q), q # <<>>, NEW diff \in [Threads -> Nat],
         NEW ticks \in [Threads -> Nat], Differences(diff, q, ticks),
         NEW newDiff, NEW newTicks, Ticked(diff, ticks, newDiff, newTicks, q)
  PROVE  Differences(newDiff, q, newTicks) /\ diff[q[1]] > 0
<1> DEFINE m == Len(q)
<1>0. \A t \in Threads :
        /\ newDiff[t] = IF t = q[1] THEN diff[t] - 1 ELSE diff[t]
        /\ newTicks[t] = IF ticks[t] > 0 THEN ticks[t] - 1 ELSE 0
        /\ ticks[t] > 0 <=> t \in Range(q)
  BY DEF Ticked
<1>1. /\ m \in Nat /\ DOMAIN q = 1 .. m /\ m # 0
      /\ \A i \in 1 .. m : q[i] \in Threads
      /\ \A i, j \in 1 .. m : q[i] = q[j] => i = j
      /\ \A t : t \in Range(q) <=> \E i \in 1 .. m : q[i] = t
  BY ListFacts
<1>2. /\ \A i \in 1 .. m :
           ticks[q[i]] = diff[q[i]] + IF i = 1 THEN 0 ELSE ticks[q[i - 1]]
      /\ \A t \in Threads \ Range(q) : diff[t] = 0 /\ ticks[t] = 0
  BY <1>1 DEF Differences
<1>3. 1 \in 1 .. m
  BY <1>1
<1>4. \A i \in 1 .. m : ticks[q[i]] > 0 /\ ticks[q[i]] \in Nat /\ diff[q[i]] \in Nat
  BY <1>0, <1>1
<1>5. ticks[q[1]] = diff[q[1]]
  BY <1>2, <1>3, <1>4
<1>6. diff[q[1]] > 0
  BY <1>3, <1>4, <1>5
<1> HIDE DEF m
<1>7. ASSUME NEW i \in 1 .. m
      PROVE  newTicks[q[i]] = newDiff[q[i]] + IF i = 1 THEN 0 ELSE newTicks[q[i - 1]]
  <2>1. newTicks[q[i]] = ticks[q[i]] - 1
    BY <1>0, <1>1, <1>4
  <2>2. CASE i = 1
    <3>1. newDiff[q[i]] = diff[q[i]] - 1
      BY <1>0, <1>1, <2>2
    <3> QED  BY <1>4, <1>5, <2>1, <2>2, <3>1
  <2>3. CASE i # 1
    <3>1. i - 1 \in 1 .. m
      BY <1>1, <2>3
    <3>2. q[i] # q[1]
      BY <1>1, <1>3, <2>3
    <3>3. newDiff[q[i]] = diff[q[i]] /\ newTicks[q[i - 1]] = ticks[q[i - 1]] - 1
      BY <1>0, <1>1, <1>4, <3>1, <3>2
    <3>4. ticks[q[i]] = diff[q[i]] + ticks[q[i - 1]]
      BY <1>2, <2>3
    <3>5. ticks[q[i]] \in Nat /\ diff[q[i]] \in Nat /\ ticks[q[i - 1]] \in Nat
      BY <1>4, <3>1
    <3>6. ticks[q[i]] - 1 = diff[q[i]] + (ticks[q[i - 1]] - 1)
      BY <3>4, <3>5
    <3> QED  BY <2>1, <2>3, <3>3, <3>6
  <2> QED  BY <2>2, <2>3
<1>8. ASSUME NEW t \in Threads \ Range(q)
      PROVE  newDiff[t] = 0 /\ newTicks[t] = 0
  <2>1. t # q[1]
    BY <1>1, <1>3
  <2> QED  BY <1>0, <1>2, <2>1
<1> QED  BY <1>1, <1>6, <1>7, <1>8 DEF Differences

\* The members of sleepList are those that sleep, in the order they wake.
Sleepy(k) ==
  /\ \A t \in Threads : sleeps(k, t) <=> t \in Range(k.sleepList)
  /\ InOrder(k.sleepList, k.remaining)

\* The decrement of Sleep::onTick.
LEMMA TickedDoes ==
  ASSUME NEW d \in Mems, NEW k \in Kernels, Represents(d, k), Sleepy(k)
  PROVE  LET e == IF d.sleepHead = Null THEN d
                  ELSE [d EXCEPT !.timeSleepRelative[d.sleepHead] = @ - 1]
             u == [k EXCEPT !.remaining =
                     [t \in Threads |-> IF @[t] > 0 THEN @[t] - 1 ELSE 0]]
         IN  e \in Mems /\ u \in Kernels /\ Represents(e, u)
<1> DEFINE e == IF d.sleepHead = Null THEN d
                ELSE [d EXCEPT !.timeSleepRelative[d.sleepHead] = @ - 1]
           ticks == k.remaining
           newTicks == [t \in Threads |-> IF ticks[t] > 0 THEN ticks[t] - 1 ELSE 0]
           u == [k EXCEPT !.remaining = newTicks]
           q == k.sleepList
           diff == d.timeSleepRelative
<1>1. /\ SameMembers(d, k) /\ Elsewhere(k) /\ OnlyBlockedNeed(k) /\ ReadyIs(d, k.ready)
      /\ SleepIs(d, q, ticks) /\ BlockedAre(d, k.blocked)
  BY DEF Represents
<1>2. /\ IsList(q) /\ ticks \in [Threads -> Nat] /\ diff \in [Threads -> Nat]
      /\ Chained(d.sleepHead, d.nextSleep, q) /\ d.sleeps = Range(q)
      /\ LinksBelong(d.nextSleep, Range(q)) /\ Differences(diff, q, ticks)
  BY <1>1, MemFields DEF SleepIs
<1>3. \A t \in Threads : ticks[t] > 0 <=> t \in Range(q)
  BY DEF Sleepy, sleeps
<1>4. newTicks \in [Threads -> Nat]
  BY <1>2
<1>5. u \in Kernels
  <2> HIDE DEF newTicks
  <2> QED  BY <1>4 DEF Kernels
<1>6. /\ SameCounts(k, u) /\ u.timeSliceCounter = k.timeSliceCounter
      /\ u.finished = k.finished /\ u.running = k.running /\ u.ready = k.ready
      /\ u.sleepList = k.sleepList /\ u.remaining = newTicks
      /\ u.blocked = k.blocked /\ u.blockedAtSem = k.blockedAtSem
      /\ u.tokensNeeded = k.tokensNeeded /\ u.active = k.active
      /\ u.value = k.value /\ u.unblockManner = k.unblockManner
  <2> HIDE DEF newTicks
  <2> QED  BY DEF Kernels, SameCounts
<1>7. /\ e \in Mems /\ SameReady(d, e) /\ SameBlocked(d, e) /\ SamePlain(d, e)
      /\ SleepIs(e, q, newTicks)
  <2>1. CASE d.sleepHead = Null
    <3>1. q = <<>> /\ e = d
      <4>1. d.sleepHead = At(q, 1)
        BY <1>2 DEF Chained
      <4>2. 1 \notin 1 .. Len(q)
        BY <1>2, <2>1, <4>1, ListFacts
      <4>3. Len(q) = 0
        BY <1>2, <4>2, ListFacts
      <4> QED  BY <1>2, <2>1, <4>3, ListFacts
    <3>2. \A t \in Threads : ~(ticks[t] > 0) /\ ticks[t] \in Nat
      BY <1>2, <1>3, <3>1, EmptyList
    <3>3. newTicks = ticks
      <4>1. \A t \in Threads : newTicks[t] = ticks[t]
        BY <3>2
      <4> HIDE DEF ticks, newTicks
      <4> QED  BY <1>2, <1>4, <4>1
    <3> QED  BY <1>1, <3>1, <3>3 DEF SameReady, SameBlocked, SamePlain, SameValues
  <2>2. CASE d.sleepHead # Null
    <3>1. q # <<>> /\ d.sleepHead = q[1] /\ q[1] \in Threads
      <4>1. d.sleepHead = At(q, 1)
        BY <1>2 DEF Chained
      <4>2. 1 \in 1 .. Len(q)
        BY <1>2, <2>2, <4>1, ListFacts
      <4>3. q[1] \in Threads /\ At(q, 1) = q[1] /\ Len(q) # 0
        BY <1>2, <4>2, ListFacts
      <4> QED  BY <1>2, <4>1, <4>3, ListFacts
    <3> DEFINE h == d.sleepHead
               newDiff == [t \in Threads |-> IF t = h THEN diff[t] - 1 ELSE diff[t]]
    <3>2. e = [d EXCEPT !.timeSleepRelative = newDiff]
      BY <1>2, <2>2, <3>1 DEF Mems
    <3>3. Ticked(diff, ticks, newDiff, newTicks, q)
      BY <1>3, <3>1 DEF Ticked
    <3>4. Differences(newDiff, q, newTicks) /\ diff[q[1]] > 0
      <4> HIDE DEF newDiff, newTicks, q, ticks, diff
      <4> QED  BY <1>2, <3>1, <3>3, DifferencesTicked
    <3>5. newDiff \in [Threads -> Nat]
      BY <1>2, <3>1, <3>4
    <3> HIDE DEF newDiff, newTicks
    <3>6. /\ e \in Mems /\ SameReady(d, e) /\ SameBlocked(d, e) /\ SamePlain(d, e)
          /\ e.sleepHead = d.sleepHead /\ e.nextSleep = d.nextSleep
          /\ e.sleeps = d.sleeps /\ e.timeSleepRelative = newDiff
      BY <3>2, <3>5 DEF Mems, SameReady, SameBlocked, SamePlain, SameValues
    <3> QED  BY <1>2, <1>4, <3>4, <3>6 DEF SleepIs
  <2> QED  BY <2>1, <2>2
<1> HIDE DEF e, u, newTicks
<1>8. SameMembers(e, u)
  BY <1>1, <1>6, <1>7 DEF SameMembers, SamePlain, SameValues, SameBlocked
<1>9. Elsewhere(u)
  <2>1. u.timeSliceCounter = 0
    BY <1>1, <1>6 DEF Elsewhere
  <2> QED  BY <2>1, <1>1, <1>6, ElsewhereKept
<1>10. OnlyBlockedNeed(u)
  BY <1>1, <1>6 DEF OnlyBlockedNeed
<1>11. ReadyIs(e, u.ready) /\ SleepIs(e, u.sleepList, u.remaining) /\ BlockedAre(e, u.blocked)
  BY <1>1, <1>6, <1>7, SameReadyIs, SameBlockedAre
<1>12. e \in Mems /\ u \in Kernels /\ Represents(e, u)
  BY <1>5, <1>7, <1>8, <1>9, <1>10, <1>11 DEF Represents
<1> QED  BY <1>12 DEF e, u, newTicks

\* The first n threads of the sleep list have no ticks left.
DueAre(k, n) ==
  \A i \in 1 .. Len(k.sleepList) : k.remaining[k.sleepList[i]] = 0 <=> i <= n

\* One round of the loop of Sleep::onTick.
LEMMA DueStep ==
  ASSUME NEW k \in Kernels, Listed(k), CanAwake(k, k.sleepList),
         NEW n \in 0 .. Len(k.sleepList), DueAre(k, n), NEW i \in 0 .. n, NEW d \in Mems,
         Represents(d, Wake(k, SubSeq(k.sleepList, 1, i), "WAIT_TIMEOUT"))
  PROVE  /\ d.sleepHead # Null /\ d.timeSleepRelative[d.sleepHead] = 0 <=> i < n
         /\ i < n =>
              /\ wakeHead(d) \in Mems
              /\ Represents(wakeHead(d),
                            Wake(k, SubSeq(k.sleepList, 1, i + 1), "WAIT_TIMEOUT"))
<1> DEFINE q == k.sleepList
           manner == "WAIT_TIMEOUT"
           a == SubSeq(q, 1, i)
           u == Wake(k, a, manner)
           r == u.sleepList
           t == q[i + 1]
<1>1. IsList(q) /\ Len(q) \in Nat
  BY ListFacts DEF Listed
<1>0. i \in 0 .. Len(q) /\ manner \in UnblockManners /\ i \in Nat /\ n \in Nat /\ n <= Len(q)
  BY <1>1 DEF UnblockManners
<1> HIDE DEF manner
<1>2. /\ u \in Kernels /\ Woken(k, u, k.ready \o a, Range(a), manner)
      /\ i < Len(q) =>
           /\ q[i + 1] \in Threads /\ q[i + 1] # Idle
           /\ q[i + 1] \notin Range(u.ready)
           /\ Wake(u, <<q[i + 1]>>, manner) = Wake(k, SubSeq(q, 1, i + 1), manner)
  <2> HIDE DEF q
  <2> QED  BY <1>0, <1>1, SomeAwake DEF q
<1>3. r = Without(q, Range(a)) /\ \A x \in Threads :
        u.remaining[x] = IF x \in Range(a) THEN 0 ELSE k.remaining[x]
  BY <1>2 DEF Woken
<1>4. \A j \in 1 .. Len(q) : q[j] \in Range(a) <=> j <= i
  <2> HIDE DEF q
  <2> QED  BY <1>0, <1>1, FirstOnes DEF q
<1>5. /\ IsList(r) /\ Len(r) = Len(q) - i
      /\ \A j \in 1 .. Len(q) - i : r[j] = q[j + i]
  <2> DEFINE W == Range(a)
  <2>1. \A j \in 1 .. Len(q) : q[j] \in W <=> j <= i
    BY <1>4
  <2> HIDE DEF W, q
  <2>3. /\ IsList(Without(q, W)) /\ Range(Without(q, W)) = Range(q) \ W
        /\ Len(Without(q, W)) = Len(q) - i
        /\ \A j \in 1 .. Len(q) - i : Without(q, W)[j] = q[j + i]
    BY <1>0, <1>1, <2>1, WithoutTheFirst
  <2> QED  BY <2>3, <1>3 DEF W
<1>6. SleepIs(d, r, u.remaining)
  BY DEF Represents, manner
<1>7. Represents(d, u)
  BY DEF manner
<1>8. \A j \in 1 .. Len(q) : k.remaining[q[j]] = 0 <=> j <= n
  BY DEF DueAre
<1>9. d.sleepHead = At(r, 1) /\ Differences(d.timeSleepRelative, r, u.remaining)
      /\ d.timeSleepRelative \in [Threads -> Nat]
  BY <1>6, MemFields DEF SleepIs, Chained
<1> HIDE DEF q, a, u, r
<1>10. CASE i < Len(q)
  <2>1. 1 \in 1 .. Len(q) - i /\ 1 \in 1 .. Len(r) /\ 1 + i = i + 1 /\ i + 1 \in 1 .. Len(q)
        /\ ~(i + 1 <= i) /\ (i + 1 <= n <=> i < n)
    BY <1>0, <1>1, <1>5, <1>10
  <2>2. r[1] = t
    BY <2>1, <1>5
  <2>3. At(r, 1) = r[1] /\ r[1] # Null /\ r # <<>> /\ r[1] \in Threads /\ 1 \in DOMAIN r
    BY <2>1, <1>5, ListFacts
  <2>4. Head(r) = r[1]
    BY <2>3, <1>5, TailRemoved
  <2>5. t # Idle /\ t \notin Range(u.ready)
    BY <1>2, <1>10
  <2>6. d.timeSleepRelative[t] = u.remaining[t]
    <3>1. u.remaining[r[1]] = d.timeSleepRelative[r[1]] + 0
      BY <2>3, <1>9 DEF Differences
    <3>2. d.timeSleepRelative[r[1]] \in Nat
      BY <2>3, <1>9
    <3> QED  BY <3>1, <3>2, <2>2
  <2>7. u.remaining[t] = 0 <=> i < n
    <3>1. t \notin Range(a) /\ t \in Threads
      BY <2>1, <2>2, <2>3, <1>4
    <3> QED  BY <3>1, <2>1, <1>3, <1>8
  <2>8. wakeHead(d) \in Mems /\ Represents(wakeHead(d), Wake(u, <<t>>, manner))
    <3>1. u.sleepList # <<>> /\ t = Head(u.sleepList)
      BY <2>2, <2>3, <2>4 DEF r
    <3> HIDE DEF t
    <3> QED  BY <1>2, <1>7, <2>5, <3>1, WakeHeadDoes DEF manner
  <2>9. Wake(u, <<t>>, manner) = Wake(k, SubSeq(q, 1, i + 1), manner)
    BY <1>2, <1>10
  <2> QED  BY <1>9, <2>2, <2>3, <2>6, <2>7, <2>8, <2>9 DEF q, manner
<1>11. CASE ~(i < Len(q))
  <2>1. Len(r) = 0 /\ ~(i < n)
    BY <1>0, <1>1, <1>5, <1>11
  <2>2. 1 \notin 1 .. Len(r)
    BY <2>1
  <2>3. At(r, 1) = Null
    BY <2>2, <1>5, ListFacts
  <2> QED  BY <1>9, <2>1, <2>3
<1> QED  BY <1>10, <1>11

\* That loop.
LEMMA DueDoes ==
  ASSUME NEW d \in Mems, NEW k \in Kernels, Represents(d, k), CanAwake(k, k.sleepList),
         NEW n \in 0 .. Len(k.sleepList), DueAre(k, n)
  PROVE  /\ due(d) \in Mems
         /\ Represents(due(d), Wake(k, SubSeq(k.sleepList, 1, n), "WAIT_TIMEOUT"))
<1> DEFINE q == k.sleepList
           going(x) == x.sleepHead # Null /\ x.timeSleepRelative[x.sleepHead] = 0
           stage(i) == Wake(k, SubSeq(q, 1, i), "WAIT_TIMEOUT")
           S == [i \in 0 .. n |-> {x \in Mems : Represents(x, stage(i))}]
           F == [x \in AllStages(S, n) |-> IF going(x) THEN wakeHead(x) ELSE x]
           Looped(g) == g = [i \in 0 .. Rounds |->
             IF i = 0 THEN d
             ELSE LET now == g[i - 1] IN IF going(now) THEN wakeHead(now) ELSE now]
<1>1. Listed(k) /\ IsList(q) /\ n \in Nat /\ Len(q) \in Nat /\ n <= Len(q)
  BY RepresentsListed, ListFacts DEF Listed
<1>2. Rounds \in Nat /\ n <= Rounds
  <2>1. Len(q) < Rounds /\ Rounds \in Nat
    BY <1>1, RoundsEnough
  <2> QED  BY <1>1, <2>1
<1>3. \A i \in 0 .. n : \A x \in Mems :
        Represents(x, stage(i)) =>
          /\ going(x) <=> i < n
          /\ i < n => wakeHead(x) \in Mems /\ Represents(wakeHead(x), stage(i + 1))
  BY <1>1, DueStep
<1>4. stage(0) = k
  <2>1. q \in Seq(Threads)
    BY <1>1 DEF IsList
  <2>2. SubSeq(q, 1, 0) = <<>>
    <3> HIDE DEF q
    <3> QED  BY <2>1
  <2>3. Wake(k, <<>>, "WAIT_TIMEOUT") = k
    BY WakeNobody DEF UnblockManners
  <2> QED  BY <2>2, <2>3
<1>5. \A j \in 0 .. n : S[j] = {x \in Mems : Represents(x, stage(j))}
  OBVIOUS
<1> HIDE DEF stage, going
<1>6. LeadsOn(F, S, n)
  <2> SUFFICES ASSUME NEW j \in 0 .. n, NEW x \in S[j] PROVE F[x] \in S[After(j, n)]
    BY DEF LeadsOn
  <2>1. x \in Mems /\ Represents(x, stage(j))
    BY <1>5
  <2>2. F[x] = IF going(x) THEN wakeHead(x) ELSE x
    BY DEF AllStages
  <2>3. After(j, n) \in 0 .. n /\ (j < n => After(j, n) = j + 1) /\ (~(j < n) => After(j, n) = j)
    BY <1>1 DEF After
  <2> HIDE DEF F, S
  <2>4. CASE j < n
    <3>1. F[x] \in Mems /\ Represents(F[x], stage(j + 1))
      BY <1>3, <2>1, <2>2, <2>4
    <3> QED  BY <1>5, <2>3, <2>4, <3>1
  <2>5. CASE ~(j < n)
    <3>1. F[x] = x
      BY <1>3, <2>1, <2>2, <2>5
    <3> QED  BY <2>3, <2>5, <3>1
  <2> QED  BY <2>4, <2>5
<1>7. d \in S[0]
  <2>1. 0 \in 0 .. n
    BY <1>1
  <2> QED  BY <1>4, <1>5, <2>1
<1>8. PICK f : /\ Walks(f, d, F, Rounds)
               /\ \A i \in 1 .. Rounds : f[i - 1] \in AllStages(S, n)
  <2> HIDE DEF F, S
  <2> QED  BY <1>1, <1>2, <1>6, <1>7, LoopThere
<1>9. Looped(f)
  <2>1. \A i \in 0 .. Rounds : i # 0 => i \in 1 .. Rounds
    BY <1>2
  <2>2. \A i \in 0 .. Rounds : i # 0 =>
          F[f[i - 1]] = IF going(f[i - 1]) THEN wakeHead(f[i - 1]) ELSE f[i - 1]
    BY <1>8, <2>1
  <2> HIDE DEF F, S
  <2> QED  BY <1>8, <2>2 DEF Walks
<1> DEFINE after == CHOOSE g : Looped(g)
<1>10. Looped(after)
  BY <1>9
<1>11. due(d) = after[Rounds]
  BY DEF due, While, going
<1> HIDE DEF after
<1>12. /\ after[0] = d
       /\ \A i \in 1 .. Rounds :
            after[i] = IF going(after[i - 1]) THEN wakeHead(after[i - 1]) ELSE after[i - 1]
  <2>1. \A i \in 1 .. Rounds : i \in 0 .. Rounds /\ i # 0
    BY <1>2
  <2>2. 0 \in 0 .. Rounds
    BY <1>2
  <2> QED  BY <1>10, <2>1, <2>2
<1>13. Obeys(after, F, AllStages(S, n), Rounds)
  BY <1>12 DEF Obeys
<1>14. after[Rounds] \in S[n]
  <2> HIDE DEF F, S
  <2> QED  BY <1>1, <1>2, <1>6, <1>7, <1>12, <1>13, LoopEnds
<1>15. after[Rounds] \in Mems /\ Represents(after[Rounds], stage(n))
  <2>1. n \in 0 .. n
    BY <1>1
  <2> HIDE DEF S
  <2> QED  BY <1>5, <1>14, <2>1
<1> QED  BY <1>11, <1>15 DEF stage

\* The threads that may be woken by a tick.
LEMMA SleepersCanAwake ==
  ASSUME NEW k \in Kernels, Good(k)
  PROVE  Sleepy(k) /\ CanAwake(k, k.sleepList) /\ k.running \notin Range(k.ready)
<1>1. Range(k.sleepList) = {t \in Threads : sleeps(k, t)}
  BY DEF Good, Consistent, SleepersListed
<1>2. Sleepy(k)
  BY <1>1 DEF Sleepy, Good, Consistent, SleepersListed
<1>3. CanAwake(k, k.sleepList)
  BY <1>1 DEF CanAwake, Good, Consistent, WaitersLive, ReadyCanRun, WaitsIn
<1> QED  BY <1>2, <1>3 DEF Good, Consistent, ReadyCanRun

\* Sleep::onTick: the threads whose last tick it is become ready, in the
\* order of the list.
LEMMA OnTickDoes ==
  ASSUME NEW d \in Mems, NEW k \in Kernels, Represents(d, k), Good(k)
  PROVE  onTick(d) \in Mems /\ Represents(onTick(d), OnTick(k))
<1> DEFINE e == IF d.sleepHead = Null THEN d
                ELSE [d EXCEPT !.timeSleepRelative[d.sleepHead] = @ - 1]
           now == {t \in Threads : k.remaining[t] = 1}
           u == [k EXCEPT !.remaining =
                   [t \in Threads |-> IF @[t] > 0 THEN @[t] - 1 ELSE 0]]
           q == k.sleepList
<1>1. Sleepy(k) /\ CanAwake(k, q)
  BY SleepersCanAwake
<1>2. e \in Mems /\ u \in Kernels /\ Represents(e, u)
  BY <1>1, TickedDoes
<1>3. k.remaining \in [Threads -> Nat] /\ IsList(q)
  BY KernelFields, RepresentsListed DEF Listed
<1>4. /\ u.sleepList = q /\ u.ready = k.ready
      /\ \A t \in Threads : u.remaining[t] = IF k.remaining[t] > 0 THEN k.remaining[t] - 1 ELSE 0
  BY DEF Kernels
<1>5. onTick(d) = due(e) /\ OnTick(k) = Wake(u, Only(q, now), "WAIT_TIMEOUT")
  BY DEF onTick, OnTick
<1>6. /\ Len(q) \in Nat /\ \A i \in 1 .. Len(q) : q[i] \in Threads /\ q[i] \in Range(q)
  BY <1>3, ListFacts
<1>7. \A i \in 1 .. Len(q) : k.remaining[q[i]] > 0 /\ k.remaining[q[i]] \in Nat
  BY <1>1, <1>3, <1>6 DEF Sleepy, sleeps
<1> HIDE DEF e, u
<1>8. PICK n \in 0 .. Len(q) : \A i \in 1 .. Len(q) : k.remaining[q[i]] <= 1 <=> i <= n
  <2>1. InOrder(q, k.remaining)
    BY <1>1 DEF Sleepy
  <2> HIDE DEF q
  <2> QED  BY <1>3, <2>1, FirstToWake
<1>9. \A i \in 1 .. Len(q) :
        /\ q[i] \in now <=> i <= n
        /\ u.remaining[q[i]] = 0 <=> i <= n
  BY <1>4, <1>6, <1>7, <1>8
<1>10. DueAre(u, n) /\ CanAwake(u, u.sleepList)
  BY <1>1, <1>4, <1>9 DEF DueAre, CanAwake
<1>11. due(e) \in Mems /\ Represents(due(e), Wake(u, SubSeq(q, 1, n), "WAIT_TIMEOUT"))
  BY <1>2, <1>4, <1>10, DueDoes
<1>12. Only(q, now) = SubSeq(q, 1, n)
  <2> HIDE DEF q, now
  <2>1. /\ IsList(Only(q, now)) /\ Len(Only(q, now)) = n
        /\ \A i \in 1 .. n : Only(q, now)[i] = q[i]
    BY <1>3, <1>9, OnlyFirst
  <2>2. q \in Seq(Threads)
    BY <1>3 DEF IsList
  <2>3. /\ SubSeq(q, 1, n) \in Seq(Threads) /\ Len(SubSeq(q, 1, n)) = n
        /\ \A i \in 1 .. n : SubSeq(q, 1, n)[i] = q[i]
    BY <2>2, <1>6
  <2> DEFINE a == SubSeq(q, 1, n)  b == Only(q, now)
  <2>4. a \in Seq(Threads) /\ b \in Seq(Threads) /\ Len(a) = n /\ Len(b) = n
        /\ \A i \in 1 .. n : a[i] = b[i]
    BY <2>1, <2>3 DEF IsList
  <2> HIDE DEF a, b
  <2>5. a = b
    BY <2>4
  <2> QED  BY <2>5 DEF a, b
<1> QED  BY <1>5, <1>11, <1>12

-----------------------------------------------------------------------------
(***************************************************************************)
(* kSemaphore::signal.                                                     *)
(***************************************************************************)
\* A thread at a semaphore needs another number of tokens.
LEMMA NeedDoes ==
  ASSUME NEW d \in Mems, NEW k \in Kernels, Represents(d, k), NEW t \in Threads,
         k.blockedAtSem[t] # Null, NEW v \in Nat
  PROVE  LET e == [d EXCEPT !.tokensNeeded[t] = v]
             u == [k EXCEPT !.tokensNeeded[t] = v]
         IN  e \in Mems /\ u \in Kernels /\ Represents(e, u)
<1> DEFINE e == [d EXCEPT !.tokensNeeded[t] = v]
           u == [k EXCEPT !.tokensNeeded[t] = v]
<1>1. /\ SameMembers(d, k) /\ Elsewhere(k) /\ OnlyBlockedNeed(k) /\ ReadyIs(d, k.ready)
      /\ SleepIs(d, k.sleepList, k.remaining) /\ BlockedAre(d, k.blocked)
  BY DEF Represents
<1>2. e \in Mems
  BY DEF Mems
<1>3. u \in Kernels
  BY DEF Kernels
<1>4. /\ SameReady(d, e) /\ SameSleep(d, e) /\ SameBlocked(d, e)
      /\ e.running = d.running /\ e.active = d.active
      /\ e.tokensNeeded = [d.tokensNeeded EXCEPT ![t] = v]
      /\ e.unblockManner = d.unblockManner /\ e.value = d.value
  BY DEF Mems, SameReady, SameSleep, SameBlocked
<1>5. /\ SameCounts(k, u) /\ u.timeSliceCounter = k.timeSliceCounter
      /\ u.finished = k.finished /\ u.running = k.running /\ u.ready = k.ready
      /\ u.sleepList = k.sleepList /\ u.remaining = k.remaining
      /\ u.blocked = k.blocked /\ u.blockedAtSem = k.blockedAtSem
      /\ u.tokensNeeded = [k.tokensNeeded EXCEPT ![t] = v] /\ u.active = k.active
      /\ u.value = k.value /\ u.unblockManner = k.unblockManner
  BY DEF Kernels, SameCounts
<1>6. k.tokensNeeded \in [Threads -> Nat]
  BY KernelFields
<1> HIDE DEF e, u
<1>7. SameMembers(e, u)
  BY <1>1, <1>4, <1>5 DEF SameMembers, SameBlocked
<1>8. Elsewhere(u)
  <2>1. u.timeSliceCounter = 0
    BY <1>1, <1>5 DEF Elsewhere
  <2> QED  BY <2>1, <1>1, <1>5, ElsewhereKept
<1>9. OnlyBlockedNeed(u)
  BY <1>1, <1>5, <1>6 DEF OnlyBlockedNeed
<1>10. /\ ReadyIs(e, u.ready) /\ SleepIs(e, u.sleepList, u.remaining)
       /\ BlockedAre(e, u.blocked)
  BY <1>1, <1>4, <1>5, SameReadyIs, SameSleepIs, SameBlockedAre
<1> QED  BY <1>2, <1>3, <1>7, <1>8, <1>9, <1>10 DEF Represents, e, u

\* The loop of signal for one token goes round at most once.
LEMMA SignalLoop ==
  ASSUME NEW d \in Mems, NEW s \in Sems, NEW t, t = d.blockedHead[s],
         t # Null => d.tokensNeeded[t] > 0,
         NEW v \in Nat, v = IF t = Null THEN 1 ELSE 0,
         NEW m, m = IF t = Null THEN d
                    ELSE IF d.tokensNeeded[t] <= 1 THEN release(d, s, "REGULAR")
                    ELSE [d EXCEPT !.tokensNeeded[t] = @ - 1]
  PROVE  signal(d, s, 1) = [m EXCEPT !.value[s] = @ + v]
<1> DEFINE first(at)  == at.mem.blockedHead[s]
           needed(at) == at.mem.tokensNeeded[first(at)]
           going(at)  == first(at) # Null /\ at.tokens > 0
           step(at)   == IF at.tokens >= needed(at)
                         THEN [mem    |-> release(at.mem, s, "REGULAR"),
                               tokens |-> at.tokens - needed(at)]
                         ELSE [mem    |-> [at.mem EXCEPT !.tokensNeeded[first(at)] =
                                                           @ - at.tokens],
                               tokens |-> 0]
           from == [mem |-> d, tokens |-> 1]
           final == [mem |-> m, tokens |-> v]
           n == IF t = Null THEN 0 ELSE 1
           S == [i \in 0 .. n |-> IF i = n THEN {final} ELSE {from}]
           F == [x \in AllStages(S, n) |-> IF going(x) THEN step(x) ELSE x]
           Looped(g) == g = [i \in 0 .. Rounds |->
             IF i = 0 THEN from
             ELSE LET now == g[i - 1] IN IF going(now) THEN step(now) ELSE now]
<1>1. Rounds \in Nat /\ n <= Rounds /\ n \in Nat
  <2>1. Rounds \in Nat /\ Cardinality(UserSems) \in Nat /\ Cardinality(UserSems) + 1 <= Rounds
    BY RoundsEnough
  <2> QED  BY <2>1
<1>2. ~going(final)
  <2>1. final.mem = m /\ final.tokens = v
    OBVIOUS
  <2>2. CASE t = Null
    <3>1. m = d
      BY <2>2
    <3> QED  BY <2>1, <2>2, <3>1
  <2>3. CASE t # Null
    <3>1. ~(v > 0)
      BY <2>3
    <3> QED  BY <2>1, <3>1
  <2> QED  BY <2>2, <2>3
<1>3. t = Null => from = final
  OBVIOUS
<1>4. t # Null => going(from) /\ step(from) = final
  <2> SUFFICES ASSUME t # Null PROVE going(from) /\ step(from) = final
    OBVIOUS
  <2>1. from.mem = d /\ from.tokens = 1 /\ first(from) = t /\ needed(from) = d.tokensNeeded[t]
    OBVIOUS
  <2>2. t \in Threads /\ d.tokensNeeded[t] \in Nat /\ d.tokensNeeded[t] > 0
    BY MemFields DEF Links
  <2>3. CASE d.tokensNeeded[t] <= 1
    <3>1. d.tokensNeeded[t] = 1
      BY <2>2, <2>3
    <3>2. m = release(d, s, "REGULAR") /\ v = 0
      BY <2>3
    <3> QED  BY <2>1, <3>1, <3>2
  <2>4. CASE ~(d.tokensNeeded[t] <= 1)
    <3>1. ~(1 >= d.tokensNeeded[t])
      BY <2>2, <2>4
    <3>2. m = [d EXCEPT !.tokensNeeded[t] = @ - 1] /\ v = 0
      BY <2>4
    <3> QED  BY <2>1, <3>1, <3>2
  <2> QED  BY <2>3, <2>4
<1>5. \A j \in 0 .. n : S[j] = IF j = n THEN {final} ELSE {from}
  OBVIOUS
<1>6. n = 0 <=> t = Null
  OBVIOUS
<1> HIDE DEF first, needed, going, step, from, final, n
<1>7. LeadsOn(F, S, n)
  <2> SUFFICES ASSUME NEW j \in 0 .. n, NEW x \in S[j] PROVE F[x] \in S[After(j, n)]
    BY DEF LeadsOn
  <2>1. F[x] = IF going(x) THEN step(x) ELSE x
    BY DEF AllStages
  <2>2. After(j, n) \in 0 .. n /\ (~(j = n) => After(j, n) = n) /\ (j = n => After(j, n) = n)
        /\ (j # n => n # 0)
    BY <1>1 DEF After, n
  <2> HIDE DEF F, S
  <2>3. CASE j = n
    BY <1>2, <1>5, <2>1, <2>2, <2>3
  <2>4. CASE j # n
    BY <1>4, <1>5, <1>6, <2>1, <2>2, <2>4
  <2> QED  BY <2>3, <2>4
<1>8. from \in S[0]
  <2>1. 0 \in 0 .. n
    BY <1>1
  <2> QED  BY <1>3, <1>5, <1>6, <2>1
<1>9. PICK f : /\ Walks(f, from, F, Rounds)
               /\ \A i \in 1 .. Rounds : f[i - 1] \in AllStages(S, n)
  <2> HIDE DEF F, S
  <2> QED  BY <1>1, <1>7, <1>8, LoopThere
<1>10. Looped(f)
  <2>1. \A i \in 0 .. Rounds : i # 0 => i \in 1 .. Rounds
    BY <1>1
  <2>2. \A i \in 0 .. Rounds : i # 0 =>
          F[f[i - 1]] = IF going(f[i - 1]) THEN step(f[i - 1]) ELSE f[i - 1]
    BY <1>9, <2>1
  <2> HIDE DEF F, S
  <2> QED  BY <1>9, <2>2 DEF Walks
<1> DEFINE after == CHOOSE g : Looped(g)
<1>11. Looped(after)
  BY <1>10
<1>12. signal(d, s, 1) = [after[Rounds].mem EXCEPT !.value[s] = @ + after[Rounds].tokens]
  BY DEF signal, While, going, step, first, needed, from
<1> HIDE DEF after
<1>13. /\ after[0] = from
       /\ \A i \in 1 .. Rounds :
            after[i] = IF going(after[i - 1]) THEN step(after[i - 1]) ELSE after[i - 1]
  <2>1. \A i \in 1 .. Rounds : i \in 0 .. Rounds /\ i # 0
    BY <1>1
  <2>2. 0 \in 0 .. Rounds
    BY <1>1
  <2> QED  BY <1>11, <2>1, <2>2
<1>14. Obeys(after, F, AllStages(S, n), Rounds)
  BY <1>13 DEF Obeys
<1>15. after[Rounds] \in S[n]
  <2> HIDE DEF F, S
  <2> QED  BY <1>1, <1>7, <1>8, <1>13, <1>14, LoopEnds
<1>16. after[Rounds] = final
  <2>1. n \in 0 .. n
    BY <1>1
  <2> HIDE DEF S
  <2> QED  BY <1>5, <1>15, <2>1
<1>17. final.mem = m /\ final.tokens = v
  BY DEF final
<1> QED  BY <1>12, <1>16, <1>17

\* Adding nothing to a value changes nothing.
LEMMA ValueKept ==
  ASSUME NEW m \in Mems, NEW s \in Sems
  PROVE  [m EXCEPT !.value[s] = @ + 0] = m
<1> DEFINE v == m.value[s]
<1>1. v \in Nat /\ m.value \in [Sems -> Nat]
  BY MemFields
<1>2. [m EXCEPT !.value[s] = v] = m
  <2> DEFINE w == [m.value EXCEPT ![s] = v]
  <2>1. w = m.value
    BY <1>1
  <2>2. [m EXCEPT !.value[s] = v] = [m EXCEPT !.value = w]
    OBVIOUS
  <2> HIDE DEF w, v
  <2>3. [m EXCEPT !.value = w] = m
    BY <2>1 DEF Mems
  <2> QED  BY <2>2, <2>3
<1>3. v + 0 = v
  BY <1>1
<1> QED  BY <1>2, <1>3

\* kSemaphore::signal for one token.
LEMMA SignalDoes ==
  ASSUME NEW d \in Mems, NEW k \in Kernels, Represents(d, k), Good(k), NEW s \in Sems,
         s \in k.active
  PROVE  signal(d, s, 1) \in Mems /\ Represents(signal(d, s, 1), Signal(k, s))
<1> DEFINE t == d.blockedHead[s]
           q == k.blocked[s]
           v == IF t = Null THEN 1 ELSE 0
           m == IF t = Null THEN d
                ELSE IF d.tokensNeeded[t] <= 1 THEN release(d, s, "REGULAR")
                ELSE [d EXCEPT !.tokensNeeded[t] = @ - 1]
<1>1. /\ IsList(q) /\ t = At(q, 1) /\ d.tokensNeeded = k.tokensNeeded
      /\ d.blockedAtSem = k.blockedAtSem /\ d.value = k.value
      /\ \A x \in Threads : x \in Range(q) <=> k.blockedAtSem[x] = s
  BY DEF Represents, SameMembers, BlockedAre, SemIs, Chained
<1>2. /\ Len(q) \in Nat /\ (q = <<>> <=> Len(q) = 0)
      /\ \A i \in 1 .. Len(q) : q[i] \in Threads /\ q[i] # Null /\ At(q, i) = q[i]
      /\ \A i : i \notin 1 .. Len(q) => At(q, i) = Null
      /\ \A x : x \in Range(q) <=> \E i \in 1 .. Len(q) : q[i] = x
  BY <1>1, ListFacts
<1>3. /\ q = <<>> <=> t = Null
      /\ q # <<>> => t = Head(q) /\ t \in Range(q) /\ t \in Threads
  <2> HIDE DEF q, t
  <2>1. CASE q = <<>>
    <3>1. 1 \notin 1 .. Len(q)
      BY <1>2, <2>1
    <3> QED  BY <1>1, <1>2, <2>1, <3>1
  <2>2. CASE q # <<>>
    <3>1. 1 \in 1 .. Len(q) /\ Head(q) = q[1]
      BY <1>1, <1>2, <2>2, TailRemoved
    <3> QED  BY <1>1, <1>2, <2>2, <3>1
  <2> QED  BY <2>1, <2>2
<1>4. t # Null => d.tokensNeeded[t] > 0 /\ t # Idle /\ t \notin Range(k.ready)
                  /\ k.blockedAtSem[t] # Null
  <2> SUFFICES ASSUME t # Null
               PROVE  /\ d.tokensNeeded[t] > 0 /\ t # Idle /\ t \notin Range(k.ready)
                      /\ k.blockedAtSem[t] # Null
    OBVIOUS
  <2>1. q # <<>> /\ t \in Range(q) /\ t \in Threads
    BY <1>3
  <2>2. d.tokensNeeded[t] > 0
    BY <1>1, <2>1 DEF Good, Consistent, Short
  <2>3. k.blockedAtSem[t] = s /\ s # Null
    BY <1>1, <2>1, ThreadsAssumption
  <2>4. WaitsIn(k, t)
    BY <2>3 DEF WaitsIn
  <2> QED  BY <2>1, <2>2, <2>3, <2>4 DEF Good, Consistent, WaitersLive, ReadyCanRun
<1>5. d.tokensNeeded \in [Threads -> Nat] /\ d.value \in [Sems -> Nat]
  BY MemFields
<1> HIDE DEF q, t
<1>6. signal(d, s, 1) = [m EXCEPT !.value[s] = @ + v]
  <2>1. v \in Nat
    OBVIOUS
  <2>2. t # Null => d.tokensNeeded[t] > 0
    BY <1>4
  <2>3. t = d.blockedHead[s]
    BY DEF t
  <2> HIDE DEF v, m
  <2> QED  BY <2>1, <2>2, <2>3, SignalLoop DEF v, m
<1>7. CASE t = Null
  <2> DEFINE n == d.value[s] + 1
  <2>1. n \in Nat
    BY <1>5
  <2>2. signal(d, s, 1) = [d EXCEPT !.value[s] = n]
    BY <1>6, <1>7
  <2>3. Signal(k, s) = [k EXCEPT !.value[s] = n]
    BY <1>1, <1>3, <1>7 DEF Signal, q
  <2> HIDE DEF n
  <2> QED  BY <2>1, <2>2, <2>3, ValueDoes
<1>8. CASE t # Null /\ d.tokensNeeded[t] <= 1
  <2>1. Signal(k, s) = Wake(k, <<t>>, "REGULAR")
    BY <1>1, <1>3, <1>8 DEF Signal, q
  <2>2. release(d, s, "REGULAR") \in Mems
        /\ Represents(release(d, s, "REGULAR"), Wake(k, <<t>>, "REGULAR"))
    <3>1. k.blocked[s] # <<>> /\ t = Head(k.blocked[s])
      BY <1>3, <1>8 DEF q
    <3> QED  BY <3>1, <1>4, <1>8, ReleaseDoes DEF UnblockManners
  <2>3. m = release(d, s, "REGULAR") /\ v = 0
    BY <1>8
  <2> HIDE DEF m, v
  <2>4. signal(d, s, 1) = m
    <3>1. signal(d, s, 1) = [m EXCEPT !.value[s] = @ + 0]
      BY <1>6, <2>3
    <3>2. m \in Mems
      BY <2>2, <2>3
    <3>3. [m EXCEPT !.value[s] = @ + 0] = m
      BY <3>2, ValueKept
    <3> QED  BY <3>1, <3>3
  <2> QED  BY <2>1, <2>2, <2>3, <2>4
<1>9. CASE t # Null /\ ~(d.tokensNeeded[t] <= 1)
  <2> DEFINE n == d.tokensNeeded[t] - 1
  <2>1. n \in Nat /\ t \in Threads
    BY <1>3, <1>5, <1>9
  <2>2. m = [d EXCEPT !.tokensNeeded[t] = n] /\ v = 0
    BY <1>9
  <2>3. Signal(k, s) = [k EXCEPT !.tokensNeeded[t] = n]
    BY <1>1, <1>3, <1>9 DEF Signal, q
  <2> HIDE DEF m, v, n
  <2>4. m \in Mems /\ Represents(m, Signal(k, s))
    BY <1>4, <1>9, <2>1, <2>2, <2>3, NeedDoes
  <2>5. signal(d, s, 1) = m
    <3>1. signal(d, s, 1) = [m EXCEPT !.value[s] = @ + 0]
      BY <1>6, <2>2
    <3>2. [m EXCEPT !.value[s] = @ + 0] = m
      BY <2>4, ValueKept
    <3> QED  BY <3>1, <3>2
  <2> QED  BY <2>4, <2>5
<1> QED  BY <1>7, <1>8, <1>9

-----------------------------------------------------------------------------
(***************************************************************************)
(* kSemaphore::close, and for every semaphore.                             *)
(***************************************************************************)
\* Neither is setting active.
LEMMA ActiveDoes ==
  ASSUME NEW d \in Mems, NEW k \in Kernels, Represents(d, k), NEW A \in SUBSET Sems
  PROVE  LET e == [d EXCEPT !.active = A]
             u == [k EXCEPT !.active = A]
         IN  e \in Mems /\ u \in Kernels /\ Represents(e, u)
<1> DEFINE e == [d EXCEPT !.active = A]
           u == [k EXCEPT !.active = A]
<1>1. /\ SameMembers(d, k) /\ Elsewhere(k) /\ OnlyBlockedNeed(k) /\ ReadyIs(d, k.ready)
      /\ SleepIs(d, k.sleepList, k.remaining) /\ BlockedAre(d, k.blocked)
  BY DEF Represents
<1>2. e \in Mems
  BY DEF Mems
<1>3. u \in Kernels
  BY DEF Kernels
<1>4. /\ SameReady(d, e) /\ SameSleep(d, e) /\ SameBlocked(d, e)
      /\ e.running = d.running /\ e.active = A
      /\ e.tokensNeeded = d.tokensNeeded /\ e.unblockManner = d.unblockManner
      /\ e.value = d.value
  BY DEF Mems, SameReady, SameSleep, SameBlocked
<1>5. /\ SameCounts(k, u) /\ u.timeSliceCounter = k.timeSliceCounter
      /\ u.finished = k.finished /\ u.running = k.running /\ u.ready = k.ready
      /\ u.sleepList = k.sleepList /\ u.remaining = k.remaining
      /\ u.blocked = k.blocked /\ u.blockedAtSem = k.blockedAtSem
      /\ u.tokensNeeded = k.tokensNeeded /\ u.active = A
      /\ u.value = k.value /\ u.unblockManner = k.unblockManner
  BY DEF Kernels, SameCounts
<1> HIDE DEF e, u
<1>6. SameMembers(e, u)
  BY <1>1, <1>4, <1>5 DEF SameMembers, SameBlocked
<1>7. Elsewhere(u)
  <2>1. u.timeSliceCounter = 0
    BY <1>1, <1>5 DEF Elsewhere
  <2> QED  BY <2>1, <1>1, <1>5, ElsewhereKept
<1>8. OnlyBlockedNeed(u)
  BY <1>1, <1>5 DEF OnlyBlockedNeed
<1>9. /\ ReadyIs(e, u.ready) /\ SleepIs(e, u.sleepList, u.remaining)
      /\ BlockedAre(e, u.blocked)
  BY <1>1, <1>4, <1>5, SameReadyIs, SameSleepIs, SameBlockedAre
<1> QED  BY <1>2, <1>3, <1>6, <1>7, <1>8, <1>9 DEF Represents, e, u

LEMMA CloseDoes ==
  ASSUME NEW d \in Mems, NEW k \in Kernels, Represents(d, k), Good(k), NEW s \in k.active
  PROVE  /\ close(d, s) \in Mems /\ Close(k, s) \in Kernels
         /\ Represents(close(d, s), Close(k, s))
<1> DEFINE m == signalAll(d, s, "ON_CLOSE")
           w == SignalAll(k, s, "ON_CLOSE")
           A == k.active \ {s}
<1>1. s \in Sems /\ k.active \subseteq Sems
  BY KernelFields
<1>2. CanAwake(k, k.blocked[s])
  <2>1. \A t \in Range(k.blocked[s]) : t \in Threads /\ k.blockedAtSem[t] = s
    <3>1. k.blocked[s] \in Seq(Threads)
      BY <1>1, KernelFields
    <3> QED  BY <1>1, <3>1, RangeByIndex DEF Good, Consistent, ListsAgree
  <2>2. \A t \in Range(k.blocked[s]) : WaitsIn(k, t)
    BY <1>1, <2>1, ThreadsAssumption DEF WaitsIn
  <2> QED  BY <2>1, <2>2 DEF CanAwake, Good, Consistent, WaitersLive, ReadyCanRun
<1>3. m \in Mems /\ w \in Kernels /\ Represents(m, w)
  BY <1>1, <1>2, SignalAllDoes DEF UnblockManners
<1>4. m.active = k.active /\ w.active = k.active
  <2>1. Wake(k, k.blocked[s], "ON_CLOSE").active = k.active
        /\ Wake(k, k.blocked[s], "ON_CLOSE") \in Kernels
    <3>1. k.blocked[s] \in Seq(Threads) /\ "ON_CLOSE" \in UnblockManners
      BY <1>1, KernelFields DEF UnblockManners
    <3> QED  BY <3>1, WakeIsWoken DEF Woken, SameRest
  <2> DEFINE y == Wake(k, k.blocked[s], "ON_CLOSE")
  <2>2. w = [y EXCEPT !.value[s] = 0]
    BY DEF SignalAll
  <2>3. y \in Kernels /\ y.active = k.active
    BY <2>1
  <2> HIDE DEF y, w, m
  <2>4. w.active = k.active
    BY <2>2, <2>3 DEF Kernels
  <2> QED  BY <1>3, <2>4 DEF Represents, SameMembers
<1>5. close(d, s) = [m EXCEPT !.active = A] /\ Close(k, s) = [w EXCEPT !.active = A]
  BY <1>4 DEF close, Close
<1>6. A \in SUBSET Sems
  BY <1>1
<1> HIDE DEF m, w, A
<1> QED  BY <1>3, <1>5, <1>6, ActiveDoes

\* The record u is k with some semaphores closed, of those active in k.
Closed(k, u) ==
  /\ u.running = k.running /\ u.active \subseteq k.active
  /\ \A s \in Sems :
       u.value[s] = IF s \in k.active \ u.active THEN 0 ELSE k.value[s]
  /\ \A t \in Threads :
       /\ u.blockedAtSem[t] \in {k.blockedAtSem[t], Null}
       /\ u.unblockManner[t] =
            IF k.blockedAtSem[t] # Null /\ u.blockedAtSem[t] = Null
            THEN "ON_CLOSE" ELSE k.unblockManner[t]

\* Closing one more.
LEMMA ClosedMore ==
  ASSUME NEW k \in Kernels, NEW u \in Kernels, Good(u), Closed(k, u), NEW s \in u.active
  PROVE  Closed(k, Close(u, s)) /\ Close(u, s).active = u.active \ {s}
<1> DEFINE q == u.blocked[s]
           y == Wake(u, q, "ON_CLOSE")
           w == [y EXCEPT !.value[s] = 0]
           c == [w EXCEPT !.active = @ \ {s}]
<1>1. s \in Sems /\ u.active \subseteq Sems /\ q \in Seq(Threads)
  BY KernelFields
<1>2. Woken(u, y, u.ready \o q, Range(q), "ON_CLOSE")
  <2>1. "ON_CLOSE" \in UnblockManners
    BY DEF UnblockManners
  <2> HIDE DEF q
  <2> QED  BY <1>1, <2>1, WakeIsWoken
<1>3. \A t \in Threads : t \in Range(q) <=> u.blockedAtSem[t] = s
  BY <1>1 DEF Good, Consistent, ListsAgree
<1>4. Close(u, s) = c
  <2>1. SignalAll(u, s, "ON_CLOSE") = w
    BY DEF SignalAll
  <2> HIDE DEF w
  <2> QED  BY <2>1 DEF Close
<1> HIDE DEF q, y
<1>5. y \in Kernels /\ y.running = u.running /\ y.active = u.active /\ y.value = u.value
  BY <1>2 DEF Woken, SameRest
<1>6. c.running = u.running /\ c.active = u.active \ {s}
      /\ c.value = [u.value EXCEPT ![s] = 0]
      /\ c.blockedAtSem = y.blockedAtSem /\ c.unblockManner = y.unblockManner
  BY <1>1, <1>5 DEF Kernels
<1>7. \A t \in Threads :
        /\ y.blockedAtSem[t] = IF t \in Range(q) THEN Null ELSE u.blockedAtSem[t]
        /\ y.unblockManner[t] = IF t \in Range(q) /\ u.blockedAtSem[t] # Null
                                THEN "ON_CLOSE" ELSE u.unblockManner[t]
  BY <1>2 DEF Woken
<1>8. u.value \in [Sems -> Nat] /\ s # Null
  BY <1>1, KernelFields, ThreadsAssumption
<1> HIDE DEF c
<1>9. Closed(k, c)
  <2>1. c.running = k.running /\ c.active \subseteq k.active
    BY <1>6 DEF Closed
  <2>2. \A x \in Sems : c.value[x] = IF x \in k.active \ c.active THEN 0 ELSE k.value[x]
    BY <1>1, <1>6, <1>8 DEF Closed
  <2>3. \A t \in Threads :
          /\ c.blockedAtSem[t] \in {k.blockedAtSem[t], Null}
          /\ c.unblockManner[t] =
               IF k.blockedAtSem[t] # Null /\ c.blockedAtSem[t] = Null
               THEN "ON_CLOSE" ELSE k.unblockManner[t]
    BY <1>3, <1>6, <1>7, <1>8 DEF Closed
  <2> QED  BY <2>1, <2>2, <2>3 DEF Closed
<1> QED  BY <1>4, <1>6, <1>9

\* The memory x represents k with all but c of its semaphores closed.
StillActive(x, k, c) ==
  \E u \in Kernels :
    /\ Good(u) /\ Represents(x, u) /\ Closed(k, u)
    /\ IsFiniteSet(u.active) /\ Cardinality(u.active) = c

\* One round of kSemaphoreDeleteAll.
LEMMA CloseAllStep ==
  ASSUME NEW k \in Kernels, NEW x \in Mems, NEW c \in Nat, StillActive(x, k, c)
  PROVE  /\ x.active # {} <=> c > 0
         /\ c > 0 => LET e == close(x, CHOOSE s \in x.active : TRUE)
                     IN  e \in Mems /\ StillActive(e, k, c - 1)
<1>1. PICK u \in Kernels :
        /\ Good(u) /\ Represents(x, u) /\ Closed(k, u)
        /\ IsFiniteSet(u.active) /\ Cardinality(u.active) = c
  BY DEF StillActive
<1>2. x.active = u.active
  BY <1>1 DEF Represents, SameMembers
<1>3. u.active = {} <=> c = 0
  BY <1>1, FS_EmptySet
<1>4. ASSUME c > 0
      PROVE  LET e == close(x, CHOOSE s \in x.active : TRUE)
             IN  e \in Mems /\ StillActive(e, k, c - 1)
  <2> DEFINE s == CHOOSE s \in x.active : TRUE
             v == Close(u, s)
  <2>1. s \in u.active
    BY <1>2, <1>3, <1>4
  <2>2. u.active \subseteq Sems
    BY KernelFields
  <2> HIDE DEF s
  <2>3. close(x, s) \in Mems /\ v \in Kernels /\ Represents(close(x, s), v)
    BY <1>1, <2>1, CloseDoes
  <2>4. Good(v)
    BY <1>1, <2>1, <2>2, CloseKeeps
  <2>5. Closed(k, v) /\ v.active = u.active \ {s}
    BY <1>1, <2>1, ClosedMore
  <2>6. IsFiniteSet(u.active \ {s}) /\ Cardinality(u.active \ {s}) = c - 1
    BY <1>1, <2>1, FS_RemoveElement
  <2> HIDE DEF v
  <2>7. StillActive(close(x, s), k, c - 1)
    BY <2>3, <2>4, <2>5, <2>6 DEF StillActive
  <2> QED  BY <2>3, <2>7 DEF s
<1> QED  BY <1>2, <1>3, <1>4

\* No more semaphores are active than the loops go round.
LEMMA ActiveFew ==
  ASSUME NEW A, A \subseteq Used
  PROVE  IsFiniteSet(A) /\ Cardinality(A) \in Nat /\ Cardinality(A) <= Rounds
<1>1. IsFiniteSet(UserSems) /\ Cardinality(UserSems) \in Nat
      /\ Cardinality(UserSems) + 1 <= Rounds /\ Rounds \in Nat
  BY BoundsAssumption, RoundsEnough
<1>2. IsFiniteSet(UserSems \cup {JoinAllSem})
      /\ (Cardinality(UserSems \cup {JoinAllSem}) = Cardinality(UserSems)
          \/ Cardinality(UserSems \cup {JoinAllSem}) = Cardinality(UserSems) + 1)
  BY <1>1, FS_AddElement
<1>3. IsFiniteSet(Used) /\ Cardinality(Used) \in Nat /\ Cardinality(Used) <= Rounds
  BY <1>1, <1>2 DEF Used
<1>4. IsFiniteSet(A) /\ Cardinality(A) <= Cardinality(Used) /\ Cardinality(A) \in Nat
  BY <1>3, FS_Subset, FS_CardinalityType
<1> QED  BY <1>1, <1>3, <1>4

\* kSemaphoreDeleteAll.
LEMMA CloseAllDoes ==
  ASSUME NEW d \in Mems, NEW k \in Kernels, Represents(d, k), Good(k)
  PROVE  closeAll(d) \in Mems /\ StillActive(closeAll(d), k, 0)
<1> DEFINE n == Cardinality(k.active)
           going(x) == x.active # {}
           step(x)  == close(x, CHOOSE s \in x.active : TRUE)
           S == [i \in 0 .. n |-> {x \in Mems : StillActive(x, k, n - i)}]
           F == [x \in AllStages(S, n) |-> IF going(x) THEN step(x) ELSE x]
           Looped(g) == g = [i \in 0 .. Rounds |->
             IF i = 0 THEN d
             ELSE LET now == g[i - 1] IN IF going(now) THEN step(now) ELSE now]
<1>1. IsFiniteSet(k.active) /\ n \in Nat /\ n <= Rounds /\ Rounds \in Nat
  <2>1. k.active \subseteq Used
    BY DEF Good, Consistent, Registered, Represents, Elsewhere
  <2> QED  BY <2>1, ActiveFew, RoundsEnough
<1>2. StillActive(d, k, n)
  <2>1. Closed(k, k)
    BY DEF Closed
  <2> QED  BY <1>1, <2>1 DEF StillActive
<1> HIDE DEF n
<1>3. \A i \in 0 .. n : \A x \in Mems :
        StillActive(x, k, n - i) =>
          /\ going(x) <=> i < n
          /\ i < n => step(x) \in Mems /\ StillActive(step(x), k, n - (i + 1))
  <2> SUFFICES ASSUME NEW i \in 0 .. n, NEW x \in Mems, StillActive(x, k, n - i)
               PROVE  /\ going(x) <=> i < n
                      /\ i < n => step(x) \in Mems /\ StillActive(step(x), k, n - (i + 1))
    OBVIOUS
  <2> DEFINE c == n - i
  <2>1. c \in Nat /\ (c > 0 <=> i < n) /\ c - 1 = n - (i + 1)
    BY <1>1
  <2>2. StillActive(x, k, c)
    OBVIOUS
  <2> HIDE DEF c
  <2>3. /\ going(x) <=> c > 0
        /\ c > 0 => step(x) \in Mems /\ StillActive(step(x), k, c - 1)
    BY <2>1, <2>2, CloseAllStep
  <2> QED  BY <2>1, <2>3
<1>5. \A j \in 0 .. n : S[j] = {x \in Mems : StillActive(x, k, n - j)}
  OBVIOUS
<1> HIDE DEF step, going
<1>6. LeadsOn(F, S, n)
  <2> SUFFICES ASSUME NEW j \in 0 .. n, NEW x \in S[j] PROVE F[x] \in S[After(j, n)]
    BY DEF LeadsOn
  <2>1. x \in Mems /\ StillActive(x, k, n - j)
    BY <1>5
  <2>2. F[x] = IF going(x) THEN step(x) ELSE x
    BY DEF AllStages
  <2>3. After(j, n) \in 0 .. n /\ (j < n => After(j, n) = j + 1) /\ (~(j < n) => After(j, n) = j)
    BY <1>1 DEF After
  <2> HIDE DEF F, S
  <2>4. CASE j < n
    <3>1. F[x] \in Mems /\ StillActive(F[x], k, n - (j + 1))
      BY <1>3, <2>1, <2>2, <2>4
    <3> QED  BY <1>5, <2>3, <2>4, <3>1
  <2>5. CASE ~(j < n)
    <3>1. F[x] = x
      BY <1>3, <2>1, <2>2, <2>5
    <3> QED  BY <2>3, <2>5, <3>1
  <2> QED  BY <2>4, <2>5
<1>7. d \in S[0]
  <2>1. 0 \in 0 .. n /\ n - 0 = n
    BY <1>1
  <2> QED  BY <1>2, <1>5, <2>1
<1>8. PICK f : /\ Walks(f, d, F, Rounds)
               /\ \A i \in 1 .. Rounds : f[i - 1] \in AllStages(S, n)
  <2> HIDE DEF F, S
  <2> QED  BY <1>1, <1>6, <1>7, LoopThere
<1>9. Looped(f)
  <2>1. \A i \in 0 .. Rounds : i # 0 => i \in 1 .. Rounds
    BY <1>1
  <2>2. \A i \in 0 .. Rounds : i # 0 =>
          F[f[i - 1]] = IF going(f[i - 1]) THEN step(f[i - 1]) ELSE f[i - 1]
    BY <1>8, <2>1
  <2> HIDE DEF F, S
  <2> QED  BY <1>8, <2>2 DEF Walks
<1> DEFINE after == CHOOSE g : Looped(g)
<1>10. Looped(after)
  BY <1>9
<1>11. closeAll(d) = after[Rounds]
  BY DEF closeAll, While, going, step
<1> HIDE DEF after
<1>12. /\ after[0] = d
       /\ \A i \in 1 .. Rounds :
            after[i] = IF going(after[i - 1]) THEN step(after[i - 1]) ELSE after[i - 1]
  <2>1. \A i \in 1 .. Rounds : i \in 0 .. Rounds /\ i # 0
    BY <1>1
  <2>2. 0 \in 0 .. Rounds
    BY <1>1
  <2> QED  BY <1>10, <2>1, <2>2
<1>13. Obeys(after, F, AllStages(S, n), Rounds)
  BY <1>12 DEF Obeys
<1>14. after[Rounds] \in S[n]
  <2> HIDE DEF F, S
  <2> QED  BY <1>1, <1>6, <1>7, <1>12, <1>13, LoopEnds
<1>15. after[Rounds] \in Mems /\ StillActive(after[Rounds], k, 0)
  <2>1. n \in 0 .. n /\ n - n = 0
    BY <1>1
  <2> HIDE DEF S
  <2> QED  BY <1>5, <1>14, <2>1
<1> QED  BY <1>11, <1>15

-----------------------------------------------------------------------------
(***************************************************************************)
(* Sleep::wakeUpAll.                                                       *)
(***************************************************************************)
\* The memory x is d but for the sleep list, which has c threads.
StillAsleep(x, d, c) ==
  /\ SameReady(d, x) /\ SameBlocked(d, x) /\ SamePlain(d, x)
  /\ \E q, ticks : SleepIs(x, q, ticks) /\ Len(q) = c

\* One round of its loop.
LEMMA WakeUpAllStep ==
  ASSUME NEW d, NEW x \in Mems, NEW c \in Nat, StillAsleep(x, d, c)
  PROVE  /\ x.sleepHead # Null <=> c > 0
         /\ c > 0 => /\ sleepGet(x, x.sleepHead) \in Mems
                     /\ StillAsleep(sleepGet(x, x.sleepHead), d, c - 1)
<1>1. PICK q, ticks : SleepIs(x, q, ticks) /\ Len(q) = c
  BY DEF StillAsleep
<1>2. /\ IsList(q) /\ ticks \in [Threads -> Nat] /\ x.sleepHead = At(q, 1)
      /\ x.sleeps = Range(q)
  BY <1>1 DEF SleepIs, Chained
<1>3. /\ \A i \in 1 .. Len(q) : q[i] \in Threads /\ q[i] # Null /\ At(q, i) = q[i]
      /\ \A i : i \notin 1 .. Len(q) => At(q, i) = Null
      /\ \A t : t \in Range(q) <=> \E i \in 1 .. Len(q) : q[i] = t
  BY <1>2, ListFacts
<1>4. 1 \in 1 .. Len(q) <=> c > 0
  BY <1>1
<1>5. ASSUME c > 0
      PROVE  /\ sleepGet(x, x.sleepHead) \in Mems
             /\ StillAsleep(sleepGet(x, x.sleepHead), d, c - 1)
  <2> DEFINE t == x.sleepHead
             e == sleepGet(x, t)
             r == Without(q, {t})
             newTicks == [u \in Threads |-> IF u = t THEN 0 ELSE ticks[u]]
  <2>1. t \in Threads /\ t \in Range(q)
    BY <1>2, <1>3, <1>4, <1>5
  <2> HIDE DEF t
  <2>2. Awake(newTicks, ticks, t)
    BY <1>2 DEF Awake
  <2> HIDE DEF newTicks
  <2>3. e = IF t \in x.sleeps THEN sleepGet(x, t) ELSE x
    BY <1>2, <2>1
  <2> HIDE DEF e
  <2>4. /\ e \in Mems /\ SameReady(x, e) /\ SameBlocked(x, e) /\ SamePlain(x, e)
        /\ SleepIs(e, r, newTicks)
    BY <1>1, <2>1, <2>2, <2>3, SleepGone
  <2>5. Len(r) = c - 1
    <3>1. \E p \in 1 .. Len(q) : Removed(r, q, p)
      BY <1>2, <2>1, WithoutMember
    <3> QED  BY <3>1, <1>1 DEF Removed
  <2>6. SameReady(d, e) /\ SameBlocked(d, e) /\ SamePlain(d, e)
    BY <2>4 DEF StillAsleep, SameReady, SameBlocked, SamePlain, SameValues
  <2> HIDE DEF r
  <2>7. StillAsleep(e, d, c - 1)
    BY <2>4, <2>5, <2>6 DEF StillAsleep
  <2> QED  BY <2>4, <2>7 DEF e, t
<1> QED  BY <1>2, <1>3, <1>4, <1>5

LEMMA WakeUpAllDoes ==
  ASSUME NEW d \in Mems, NEW q, NEW ticks, SleepIs(d, q, ticks)
  PROVE  wakeUpAll(d) \in Mems /\ StillAsleep(wakeUpAll(d), d, 0)
<1> DEFINE n == Len(q)
           going(x) == x.sleepHead # Null
           step(x)  == sleepGet(x, x.sleepHead)
           S == [i \in 0 .. n |-> {x \in Mems : StillAsleep(x, d, n - i)}]
           F == [x \in AllStages(S, n) |-> IF going(x) THEN step(x) ELSE x]
           Looped(g) == g = [i \in 0 .. Rounds |->
             IF i = 0 THEN d
             ELSE LET now == g[i - 1] IN IF going(now) THEN step(now) ELSE now]
<1>1. n \in Nat /\ n <= Rounds /\ Rounds \in Nat
  <2>1. IsList(q)
    BY DEF SleepIs
  <2>2. n \in Nat /\ n < Rounds /\ Rounds \in Nat
    BY <2>1, RoundsEnough, ListFacts
  <2> QED  BY <2>2
<1>2. StillAsleep(d, d, n)
  BY DEF StillAsleep, SameReady, SameBlocked, SamePlain, SameValues
<1> HIDE DEF n
<1>3. \A i \in 0 .. n : \A x \in Mems :
        StillAsleep(x, d, n - i) =>
          /\ going(x) <=> i < n
          /\ i < n => step(x) \in Mems /\ StillAsleep(step(x), d, n - (i + 1))
  <2> SUFFICES ASSUME NEW i \in 0 .. n, NEW x \in Mems, StillAsleep(x, d, n - i)
               PROVE  /\ going(x) <=> i < n
                      /\ i < n => step(x) \in Mems /\ StillAsleep(step(x), d, n - (i + 1))
    OBVIOUS
  <2> DEFINE c == n - i
  <2>1. c \in Nat /\ (c > 0 <=> i < n) /\ c - 1 = n - (i + 1)
    BY <1>1
  <2>2. StillAsleep(x, d, c)
    OBVIOUS
  <2> HIDE DEF c
  <2>3. /\ going(x) <=> c > 0
        /\ c > 0 => step(x) \in Mems /\ StillAsleep(step(x), d, c - 1)
    BY <2>1, <2>2, WakeUpAllStep
  <2> QED  BY <2>1, <2>3
<1>5. \A j \in 0 .. n : S[j] = {x \in Mems : StillAsleep(x, d, n - j)}
  OBVIOUS
<1> HIDE DEF step, going
<1>6. LeadsOn(F, S, n)
  <2> SUFFICES ASSUME NEW j \in 0 .. n, NEW x \in S[j] PROVE F[x] \in S[After(j, n)]
    BY DEF LeadsOn
  <2>1. x \in Mems /\ StillAsleep(x, d, n - j)
    BY <1>5
  <2>2. F[x] = IF going(x) THEN step(x) ELSE x
    BY DEF AllStages
  <2>3. After(j, n) \in 0 .. n /\ (j < n => After(j, n) = j + 1) /\ (~(j < n) => After(j, n) = j)
    BY <1>1 DEF After
  <2> HIDE DEF F, S
  <2>4. CASE j < n
    <3>1. F[x] \in Mems /\ StillAsleep(F[x], d, n - (j + 1))
      BY <1>3, <2>1, <2>2, <2>4
    <3> QED  BY <1>5, <2>3, <2>4, <3>1
  <2>5. CASE ~(j < n)
    <3>1. F[x] = x
      BY <1>3, <2>1, <2>2, <2>5
    <3> QED  BY <2>3, <2>5, <3>1
  <2> QED  BY <2>4, <2>5
<1>7. d \in S[0]
  <2>1. 0 \in 0 .. n /\ n - 0 = n
    BY <1>1
  <2> QED  BY <1>2, <1>5, <2>1
<1>8. PICK f : /\ Walks(f, d, F, Rounds)
               /\ \A i \in 1 .. Rounds : f[i - 1] \in AllStages(S, n)
  <2> HIDE DEF F, S
  <2> QED  BY <1>1, <1>6, <1>7, LoopThere
<1>9. Looped(f)
  <2>1. \A i \in 0 .. Rounds : i # 0 => i \in 1 .. Rounds
    BY <1>1
  <2>2. \A i \in 0 .. Rounds : i # 0 =>
          F[f[i - 1]] = IF going(f[i - 1]) THEN step(f[i - 1]) ELSE f[i - 1]
    BY <1>8, <2>1
  <2> HIDE DEF F, S
  <2> QED  BY <1>8, <2>2 DEF Walks
<1> DEFINE after == CHOOSE g : Looped(g)
<1>10. Looped(after)
  BY <1>9
<1>11. wakeUpAll(d) = after[Rounds]
  BY DEF wakeUpAll, While, going, step
<1> HIDE DEF after
<1>12. /\ after[0] = d
       /\ \A i \in 1 .. Rounds :
            after[i] = IF going(after[i - 1]) THEN step(after[i - 1]) ELSE after[i - 1]
  <2>1. \A i \in 1 .. Rounds : i \in 0 .. Rounds /\ i # 0
    BY <1>1
  <2>2. 0 \in 0 .. Rounds
    BY <1>1
  <2> QED  BY <1>10, <2>1, <2>2
<1>13. Obeys(after, F, AllStages(S, n), Rounds)
  BY <1>12 DEF Obeys
<1>14. after[Rounds] \in S[n]
  <2> HIDE DEF F, S
  <2> QED  BY <1>1, <1>6, <1>7, <1>12, <1>13, LoopEnds
<1>15. after[Rounds] \in Mems /\ StillAsleep(after[Rounds], d, 0)
  <2>1. n \in 0 .. n /\ n - n = 0
    BY <1>1
  <2> HIDE DEF S
  <2> QED  BY <1>5, <1>14, <2>1
<1> QED  BY <1>11, <1>15

-----------------------------------------------------------------------------
(***************************************************************************)
(* The calls: each leads from a memory with whole lists to another, which  *)
(* represents what the kernel's routines make of the record.               *)
(***************************************************************************)
LEMMA WholeFacts ==
  ASSUME NEW d, Whole(d), NEW k, k = QueuesOf(d)
  PROVE  /\ d \in Mems /\ k \in Kernels /\ Good(k) /\ Represents(d, k)
         /\ k.running = d.running /\ d.running \in Threads
         /\ k.active = d.active /\ k.value = d.value
         /\ k.blockedAtSem = d.blockedAtSem /\ d.blockedAtSem[d.running] = Null
         /\ ~sleeps(k, k.running) /\ k.finished = {} /\ Sleepy(k)
         /\ k.running \notin Range(k.ready)
<1>1. d \in Mems /\ k \in Kernels /\ Good(k) /\ Represents(d, k) /\ d.running \in Threads
  BY DEF Whole
<1>2. /\ k.running = d.running /\ k.active = d.active /\ k.value = d.value
      /\ k.blockedAtSem = d.blockedAtSem /\ k.finished = {}
  BY <1>1 DEF Represents, SameMembers, Elsewhere
<1>3. Sleepy(k) /\ k.running \notin Range(k.ready)
  BY <1>1, SleepersCanAwake
<1>4. ~WaitsIn(k, k.running)
  BY <1>1 DEF Good, RunnerRuns
<1> QED  BY <1>1, <1>2, <1>3, <1>4 DEF WaitsIn

LEMMA WholeMade ==
  ASSUME NEW d \in Mems, NEW k \in Kernels, Good(k), Represents(d, k)
  PROVE  Whole(d) /\ QueuesOf(d) = k
<1>1. QueuesOf(d) = k
  BY QueuesShow
<1>2. d.running \in Threads
  BY KernelFields DEF Represents, SameMembers
<1> QED  BY <1>1, <1>2 DEF Whole

LEMMA UsedSems == Used \subseteq Sems /\ JoinAllSem \in Sems
<1>1. UserMain \in Threads
  BY ThreadsAssumption
<1> QED  BY <1>1 DEF Used, JoinAllSem, Sems, SemsOf

LEMMA RequestFacts ==
  ASSUME NEW r \in Requests
  PROVE  /\ r.caller \in Threads /\ r.caller # Idle /\ r.sem \in Sems
         /\ r.tokens \in Nat
<1>1. UserMain \in Threads /\ UserMain # Idle
  BY ThreeThreads, ThreadsAssumption
<1>2. MaxTokens \in Nat /\ UserSems \subseteq Sems /\ JoinAllSem \in Sems
  BY BoundsAssumption, UsedSems DEF Used
<1>3. CASE r \in [caller : Callers, sem : UserSems, tokens : {1}]
  BY <1>2, <1>3 DEF Callers
<1>4. CASE r \in [caller : {UserMain}, sem : {JoinAllSem}, tokens : 1 .. MaxTokens]
  BY <1>1, <1>2, <1>4
<1> QED  BY <1>3, <1>4 DEF Requests

LEMMA TakeTokensDoes ==
  ASSUME Whole(mem), NEW r \in Requests, TakeTokens(r)
  PROVE  Whole(mem') /\ QueuesOf(mem') = Acquire(QueuesOf(mem), r.sem, r.tokens)
<1> DEFINE k == QueuesOf(mem)
           u == Acquire(k, r.sem, r.tokens)
<1>1. /\ mem \in Mems /\ k \in Kernels /\ Good(k) /\ Represents(mem, k)
      /\ k.running = mem.running /\ k.value = mem.value
  BY WholeFacts
<1>2. r.sem \in Sems /\ r.tokens \in Nat
  BY RequestFacts
<1>3. /\ mem.running = r.caller /\ mem.value[r.sem] >= r.tokens
      /\ mem' = [mem EXCEPT !.value[r.sem] = @ - r.tokens,
                            !.unblockManner[mem.running] = "REGULAR"]
  BY DEF TakeTokens
<1> HIDE DEF k
<1>4. mem' \in Mems /\ Represents(mem', u)
  BY <1>1, <1>2, <1>3, AcquireDoes
<1>5. u \in Kernels /\ Good(u)
  BY <1>1, <1>2, <1>3, AcquireType, AcquireKeeps
<1> HIDE DEF u
<1>6. Whole(mem') /\ QueuesOf(mem') = u
  BY <1>4, <1>5, WholeMade
<1> QED  BY <1>6 DEF u, k

\* A thread that has been put on a list gives up the processor.
LEMMA SuspendDoes ==
  ASSUME NEW d \in Mems, NEW k \in Kernels, Represents(d, k), Consistent(k),
         NEW schPut \in BOOLEAN, schPut \/ WaitsIn(k, k.running)
  PROVE  /\ Whole(yield(d, schPut))
         /\ QueuesOf(yield(d, schPut)) = Yield(k, schPut)
<1>1. /\ \A t \in Threads : sleeps(k, t) <=> t \in Range(k.sleepList)
      /\ k.running \notin Range(k.ready)
  BY DEF Consistent, SleepersListed, ReadyCanRun
<1>2. yield(d, schPut) \in Mems /\ Represents(yield(d, schPut), Yield(k, schPut))
  BY <1>1, YieldDoes
<1>3. Yield(k, schPut) \in Kernels /\ Good(Yield(k, schPut))
  BY YieldType, YieldKeeps
<1> QED  BY <1>2, <1>3, WholeMade

\* The first part of wait and timedWait.
LEMMA BlocksDoes ==
  ASSUME Whole(mem), NEW r \in Requests, Blocks(r)
  PROVE  LET k == QueuesOf(mem)
             d == block(mem, r.sem, r.tokens)
             b == Block(k, r.sem, r.tokens)
         IN  /\ d \in Mems /\ b \in Kernels /\ Represents(d, b) /\ Consistent(b)
             /\ b.running = k.running /\ b.finished = k.finished
             /\ b.remaining = k.remaining /\ WaitsIn(b, b.running)
             /\ k.running = r.caller
<1> DEFINE k == QueuesOf(mem)
           d == block(mem, r.sem, r.tokens)
           b == Block(k, r.sem, r.tokens)
<1>1. /\ mem \in Mems /\ k \in Kernels /\ Good(k) /\ Represents(mem, k)
      /\ k.running = mem.running /\ k.value = mem.value /\ k.active = mem.active
      /\ mem.blockedAtSem[mem.running] = Null /\ k.running \in Threads
  BY WholeFacts
<1>2. r.sem \in Sems /\ r.tokens \in Nat /\ r.caller # Idle
  BY RequestFacts
<1>3. mem.running = r.caller /\ r.sem \in mem.active /\ mem.value[r.sem] < r.tokens
  BY DEF Blocks
<1> HIDE DEF k
<1>4. d \in Mems /\ Represents(d, b)
  BY <1>1, <1>2, <1>3, BlockDoes
<1>5. b \in Kernels
  BY <1>1, <1>2, <1>3, BlockType
<1>6. /\ Consistent(b) /\ SameThreads(k, b) /\ b.remaining = k.remaining
      /\ \A t \in Threads :
           b.blockedAtSem[t] = IF t = k.running THEN r.sem ELSE k.blockedAtSem[t]
  BY <1>1, <1>2, <1>3, BlockKeeps
<1> HIDE DEF b, d
<1>7. b.running = k.running /\ b.finished = k.finished
  BY <1>6 DEF SameThreads
<1>8. WaitsIn(b, b.running)
  <2>1. b.blockedAtSem[b.running] = r.sem /\ r.sem # Null
    BY <1>1, <1>2, <1>6, <1>7, ThreadsAssumption
  <2> QED  BY <2>1 DEF WaitsIn
<1> QED  BY <1>1, <1>3, <1>4, <1>5, <1>6, <1>7, <1>8 DEF k, b, d

LEMMA WaitDoes ==
  ASSUME Whole(mem), NEW r \in Requests, Wait(r)
  PROVE  /\ Whole(mem')
         /\ QueuesOf(mem') = Yield(Block(QueuesOf(mem), r.sem, r.tokens), FALSE)
<1> DEFINE d == block(mem, r.sem, r.tokens)
           b == Block(QueuesOf(mem), r.sem, r.tokens)
<1>1. Blocks(r) /\ mem' = yield(d, FALSE)
  BY DEF Wait
<1>2. d \in Mems /\ b \in Kernels /\ Represents(d, b) /\ Consistent(b) /\ WaitsIn(b, b.running)
  BY <1>1, BlocksDoes
<1> HIDE DEF d, b
<1>3. Whole(mem') /\ QueuesOf(mem') = Yield(b, FALSE)
  BY <1>1, <1>2, SuspendDoes
<1> QED  BY <1>3 DEF b

\* Sleep::sleep, once there is no other reason to go on.
LEMMA SleepDoes ==
  ASSUME NEW d \in Mems, NEW k \in Kernels, Represents(d, k), Consistent(k),
         k.running # Idle, k.running \notin k.finished, ~sleeps(k, k.running),
         NEW timeout \in Nat, timeout > 0
  PROVE  /\ Whole(yield(sleepPut(d, k.running, timeout), FALSE))
         /\ QueuesOf(yield(sleepPut(d, k.running, timeout), FALSE))
              = Yield(SleepPut(k, k.running, timeout), FALSE)
<1> DEFINE t == k.running
           e == sleepPut(d, t, timeout)
           u == SleepPut(k, t, timeout)
<1>1. t \in Threads
  BY KernelFields
<1>2. /\ \A x \in Threads : sleeps(k, x) <=> x \in Range(k.sleepList)
      /\ InOrder(k.sleepList, k.remaining)
  BY DEF Consistent, SleepersListed
<1>3. e \in Mems /\ Represents(e, u)
  BY <1>1, <1>2, SleepPutKept
<1>4. u \in Kernels
  BY <1>1, SleepPutType
<1>5. Consistent(u) /\ SameThreads(k, u) /\ WaitsIn(u, t)
  BY SleepPutKeeps
<1> HIDE DEF e, u
<1>6. WaitsIn(u, u.running)
  BY <1>5 DEF SameThreads
<1>7. Whole(yield(e, FALSE)) /\ QueuesOf(yield(e, FALSE)) = Yield(u, FALSE)
  BY <1>3, <1>4, <1>5, <1>6, SuspendDoes
<1> QED  BY <1>7 DEF e, u

LEMMA TimedWaitDoes ==
  ASSUME Whole(mem), NEW r \in Requests, TimedWait(r)
  PROVE  /\ Whole(mem')
         /\ \/ QueuesOf(mem') = BlockForNoTime(QueuesOf(mem), r.sem)
            \/ \E timeout \in 1 .. MaxTimeout :
                 QueuesOf(mem') =
                   Yield(SleepPut(Block(QueuesOf(mem), r.sem, r.tokens),
                                  r.caller, timeout), FALSE)
<1> DEFINE k == QueuesOf(mem)
           d == block(mem, r.sem, r.tokens)
           b == Block(k, r.sem, r.tokens)
<1>1. /\ Blocks(r)
      /\ \/ mem' = timedOut(d, r.caller)
         \/ \E timeout \in 1 .. MaxTimeout : mem' = yield(sleepPut(d, r.caller, timeout), FALSE)
  BY DEF TimedWait
<1>2. /\ d \in Mems /\ b \in Kernels /\ Represents(d, b) /\ Consistent(b)
      /\ b.running = k.running /\ b.finished = k.finished
      /\ b.remaining = k.remaining /\ k.running = r.caller
  BY <1>1, BlocksDoes
<1>3. /\ mem \in Mems /\ k \in Kernels /\ Good(k) /\ Represents(mem, k)
      /\ k.running = mem.running /\ k.finished = {} /\ ~sleeps(k, k.running)
      /\ mem.blockedAtSem[mem.running] = Null
  BY WholeFacts
<1>4. r.sem \in Sems /\ r.tokens \in Nat /\ r.caller # Idle
  BY RequestFacts
<1>5. CASE mem' = timedOut(d, r.caller)
  <2>1. mem.value[r.sem] < r.tokens /\ mem.running = r.caller
    BY <1>1 DEF Blocks
  <2> HIDE DEF k
  <2>2. mem' \in Mems /\ Represents(mem', BlockForNoTime(k, r.sem))
    BY <1>3, <1>4, <1>5, <2>1, BlockForNoTimeDoes
  <2>3. BlockForNoTime(k, r.sem) \in Kernels /\ Good(BlockForNoTime(k, r.sem))
    BY <1>3, <1>4, BlockForNoTimeType, BlockForNoTimeKeeps
  <2>4. Whole(mem') /\ QueuesOf(mem') = BlockForNoTime(k, r.sem)
    BY <2>2, <2>3, WholeMade
  <2> QED  BY <2>4 DEF k
<1>6. ASSUME NEW timeout \in 1 .. MaxTimeout, mem' = yield(sleepPut(d, r.caller, timeout), FALSE)
      PROVE  Whole(mem') /\ QueuesOf(mem') = Yield(SleepPut(b, r.caller, timeout), FALSE)
  <2>1. timeout \in Nat /\ timeout > 0
    BY BoundsAssumption
  <2> HIDE DEF b, d, k
  <2>2. b.running # Idle /\ b.running \notin b.finished /\ ~sleeps(b, b.running)
    BY <1>2, <1>3, <1>4 DEF sleeps
  <2>3. /\ Whole(yield(sleepPut(d, b.running, timeout), FALSE))
        /\ QueuesOf(yield(sleepPut(d, b.running, timeout), FALSE))
             = Yield(SleepPut(b, b.running, timeout), FALSE)
    BY <1>2, <2>1, <2>2, SleepDoes
  <2> QED  BY <1>2, <1>6, <2>3
<1> QED  BY <1>1, <1>5, <1>6

LEMMA GoToSleepDoes ==
  ASSUME Whole(mem), GoToSleep
  PROVE  /\ Whole(mem')
         /\ \E timeout \in 1 .. MaxTimeout :
              QueuesOf(mem') =
                Yield(SleepPut(QueuesOf(mem), mem.running, timeout), FALSE)
<1> DEFINE k == QueuesOf(mem)
<1>1. /\ mem \in Mems /\ k \in Kernels /\ Good(k) /\ Represents(mem, k)
      /\ k.running = mem.running /\ k.finished = {} /\ ~sleeps(k, k.running)
  BY WholeFacts
<1>2. PICK timeout \in 1 .. MaxTimeout : mem' = yield(sleepPut(mem, mem.running, timeout), FALSE)
  BY DEF GoToSleep
<1>3. mem.running # Idle
  BY DEF GoToSleep, Callers
<1>4. timeout \in Nat /\ timeout > 0
  BY BoundsAssumption
<1> HIDE DEF k
<1>5. /\ Whole(yield(sleepPut(mem, k.running, timeout), FALSE))
      /\ QueuesOf(yield(sleepPut(mem, k.running, timeout), FALSE))
           = Yield(SleepPut(k, k.running, timeout), FALSE)
  BY <1>1, <1>3, <1>4, SleepDoes DEF Good
<1> QED  BY <1>1, <1>2, <1>5 DEF k

LEMMA DispatchDoes ==
  ASSUME Whole(mem), Dispatch
  PROVE  Whole(mem') /\ QueuesOf(mem') = Yield(QueuesOf(mem), TRUE)
<1> DEFINE k == QueuesOf(mem)
<1>1. mem \in Mems /\ k \in Kernels /\ Good(k) /\ Represents(mem, k)
  BY WholeFacts
<1>2. mem' = yield(mem, TRUE)
  BY DEF Dispatch
<1> HIDE DEF k
<1>3. Whole(yield(mem, TRUE)) /\ QueuesOf(yield(mem, TRUE)) = Yield(k, TRUE)
  BY <1>1, SuspendDoes DEF Good
<1> QED  BY <1>2, <1>3 DEF k

LEMMA TickDoes ==
  ASSUME Whole(mem), Tick
  PROVE  Whole(mem') /\ QueuesOf(mem') = OnTick(QueuesOf(mem))
<1> DEFINE k == QueuesOf(mem)
<1>1. mem \in Mems /\ k \in Kernels /\ Good(k) /\ Represents(mem, k)
  BY WholeFacts
<1>2. mem' = onTick(mem)
  BY DEF Tick
<1> HIDE DEF k
<1>3. mem' \in Mems /\ Represents(mem', OnTick(k))
  BY <1>1, <1>2, OnTickDoes
<1>4. OnTick(k) \in Kernels /\ Good(OnTick(k))
  BY <1>1, OnTickType, OnTickKeeps
<1>5. Whole(mem') /\ QueuesOf(mem') = OnTick(k)
  BY <1>3, <1>4, WholeMade
<1> QED  BY <1>5 DEF k

LEMMA SignalOneDoes ==
  ASSUME Whole(mem), NEW s \in Used, SignalOne(s)
  PROVE  Whole(mem') /\ QueuesOf(mem') = Signal(QueuesOf(mem), s)
<1> DEFINE k == QueuesOf(mem)
<1>1. mem \in Mems /\ k \in Kernels /\ Good(k) /\ Represents(mem, k) /\ k.active = mem.active
  BY WholeFacts
<1>2. mem' = signal(mem, s, 1) /\ s \in mem.active /\ s \in Sems
  BY UsedSems DEF SignalOne
<1> HIDE DEF k
<1>3. mem' \in Mems /\ Represents(mem', Signal(k, s))
  BY <1>1, <1>2, SignalDoes
<1>4. Signal(k, s) \in Kernels /\ Good(Signal(k, s))
  BY <1>1, SignalType, SignalKeeps
<1>5. Whole(mem') /\ QueuesOf(mem') = Signal(k, s)
  BY <1>3, <1>4, WholeMade
<1> QED  BY <1>5 DEF k

LEMMA CloseOneDoes ==
  ASSUME Whole(mem), NEW s \in Used, CloseOne(s)
  PROVE  Whole(mem') /\ QueuesOf(mem') = Close(QueuesOf(mem), s)
<1> DEFINE k == QueuesOf(mem)
<1>1. mem \in Mems /\ k \in Kernels /\ Good(k) /\ Represents(mem, k) /\ k.active = mem.active
  BY WholeFacts
<1>2. mem' = close(mem, s) /\ s \in mem.active /\ s \in Sems
  BY UsedSems DEF CloseOne
<1> HIDE DEF k
<1>3. mem' \in Mems /\ Close(k, s) \in Kernels /\ Represents(mem', Close(k, s))
  BY <1>1, <1>2, CloseDoes
<1>4. Good(Close(k, s))
  BY <1>1, <1>2, CloseKeeps
<1>5. Whole(mem') /\ QueuesOf(mem') = Close(k, s)
  BY <1>3, <1>4, WholeMade
<1> QED  BY <1>5 DEF k

\* Where every semaphore is closed, nobody is at one.
LEMMA NobodyBlocked ==
  ASSUME NEW u \in Kernels, Good(u), u.active = {}
  PROVE  u.blocked = [s \in Sems |-> <<>>] /\ \A t \in Threads : u.blockedAtSem[t] = Null
<1>1. u.blocked \in [Sems -> Seq(Threads)] /\ u.blockedAtSem \in [Threads -> Sems \cup {Null}]
  BY KernelFields
<1>2. \A s \in Sems : u.blocked[s] = <<>>
  BY DEF Good, Consistent, Short
<1>3. u.blocked = [s \in Sems |-> <<>>]
  BY <1>1, <1>2
<1>4. \A s \in Sems, t \in Threads : u.blockedAtSem[t] # s
  <2>1. Range(<<>>) = {}
    BY EmptyList
  <2> QED  BY <1>2, <2>1 DEF Good, Consistent, ListsAgree
<1> QED  BY <1>1, <1>3, <1>4

\* A list of nobody, by its links.
LEMMA NobodyListed ==
  /\ IsList(<<>>) /\ Range(<<>>) = {} /\ Len(<<>>) = 0
  /\ \A next : Chained(Null, next, <<>>)
  /\ \A i : At(<<>>, i) = Null
<1> DEFINE q == <<>>
<1>1. q \in Seq(Threads) /\ Range(q) = {} /\ DOMAIN q = {} /\ Len(q) = 0
  BY EmptyList
<1> HIDE DEF q
<1>2. IsList(q) /\ \A i : At(q, i) = Null
  BY <1>1 DEF IsList, IsInjective, At
<1>3. \A next : Chained(Null, next, q)
  BY <1>1, <1>2 DEF Chained
<1> QED  BY <1>1, <1>2, <1>3 DEF q

\* What the shutdown leaves of the record k.
ShutRecord(k) ==
  [k EXCEPT
     !.running = Null,
     !.ready = <<>>,
     !.sleepList = <<>>,
     !.remaining = [t \in Threads |-> 0],
     !.active = {},
     !.value = [s \in Sems |-> IF s \in k.active THEN 0 ELSE @[s]],
     !.blocked = [s \in Sems |-> <<>>],
     !.blockedAtSem = [t \in Threads |-> Null],
     !.tokensNeeded = [t \in Threads |->
                         IF k.blockedAtSem[t] # Null THEN 0 ELSE @[t]],
     !.unblockManner = [t \in Threads |->
                          IF k.blockedAtSem[t] # Null THEN "ON_CLOSE" ELSE @[t]]]

\* The same, member by member.
LEMMA ShutFields ==
  ASSUME NEW k \in Kernels
  PROVE  LET v == ShutRecord(k)
         IN  /\ v.running = Null /\ v.ready = <<>> /\ v.sleepList = <<>>
             /\ v.remaining = [t \in Threads |-> 0] /\ v.active = {}
             /\ v.value = [s \in Sems |-> IF s \in k.active THEN 0 ELSE k.value[s]]
             /\ v.blocked = [s \in Sems |-> <<>>]
             /\ v.blockedAtSem = [t \in Threads |-> Null]
             /\ v.tokensNeeded = [t \in Threads |->
                  IF k.blockedAtSem[t] # Null THEN 0 ELSE k.tokensNeeded[t]]
             /\ v.unblockManner = [t \in Threads |->
                  IF k.blockedAtSem[t] # Null THEN "ON_CLOSE" ELSE k.unblockManner[t]]
             /\ SameCounts(k, v) /\ v.finished = k.finished
             /\ v.timeSliceCounter = k.timeSliceCounter /\ v = MembersOf(v)
<1> DEFINE a == [t \in Threads |-> 0]
           b == [s \in Sems |-> IF s \in k.active THEN 0 ELSE k.value[s]]
           c == [s \in Sems |-> <<>>]
           e == [t \in Threads |-> Null]
           f == [t \in Threads |-> IF k.blockedAtSem[t] # Null THEN 0 ELSE k.tokensNeeded[t]]
           g == [t \in Threads |->
                   IF k.blockedAtSem[t] # Null THEN "ON_CLOSE" ELSE k.unblockManner[t]]
           v == [k EXCEPT !.running = Null, !.ready = <<>>, !.sleepList = <<>>,
                          !.remaining = a, !.active = {}, !.value = b, !.blocked = c,
                          !.blockedAtSem = e, !.tokensNeeded = f, !.unblockManner = g]
<1>1. ShutRecord(k) = v
  BY DEF ShutRecord
<1> HIDE DEF a, b, c, e, f, g
<1>2. /\ v.running = Null /\ v.ready = <<>> /\ v.sleepList = <<>>
      /\ v.remaining = a /\ v.active = {} /\ v.value = b /\ v.blocked = c
      /\ v.blockedAtSem = e /\ v.tokensNeeded = f /\ v.unblockManner = g
      /\ SameCounts(k, v) /\ v.finished = k.finished
      /\ v.timeSliceCounter = k.timeSliceCounter
  BY DEF Kernels, SameCounts
<1>3. v = MembersOf(v)
  <2> DEFINE W ==
        [running : {Null}, timeSliceCounter : Nat, ready : {<<>>},
         created : SUBSET Threads, finished : SUBSET Threads,
         parent : [Threads -> Threads \cup {Null}],
         numOfActiveChildren : [Threads -> 0 .. CountMod - 1],
         sleepList : {<<>>}, remaining : {a}, blockedAtSem : {e}, tokensNeeded : {f},
         unblockManner : {g}, opened : SUBSET Sems, active : {{}}, value : {b},
         blocked : {c}, message : [Threads -> Messages \cup {Null}]]
  <2>1. v \in W
    BY DEF Kernels
  <2>2. ASSUME NEW x \in W PROVE x = MembersOf(x)
    BY DEF MembersOf
  <2> HIDE DEF v, W
  <2> QED  BY <2>1, <2>2
<1> HIDE DEF v
<1> QED  BY <1>1, <1>2, <1>3 DEF a, b, c, e, f, g

\* main(), after the user's main thread has ended.
LEMMA ShutDownDoes ==
  ASSUME Whole(mem), ShutDown
  PROVE  Down(mem') /\ QueuesOf(mem') = ShutRecord(QueuesOf(mem))
<1> DEFINE k == QueuesOf(mem)
           d == closeAll(mem)
           w == wakeUpAll(d)
           v == ShutRecord(k)
           e == [w EXCEPT !.readyHead = Null, !.readyTail = Null,
                          !.nextReady = [t \in Threads |-> Null], !.running = Null]
           zero == [t \in Threads |-> 0]
           none == [s \in Sems |-> <<>>]
<1>1. /\ mem \in Mems /\ k \in Kernels /\ Good(k) /\ Represents(mem, k)
      /\ k.running = mem.running
  BY WholeFacts
<1>2. mem' = e
  BY DEF ShutDown
<1> HIDE DEF k
<1>3. d \in Mems /\ StillActive(d, k, 0)
  BY <1>1, CloseAllDoes
<1>4. PICK u \in Kernels :
        /\ Good(u) /\ Represents(d, u) /\ Closed(k, u)
        /\ IsFiniteSet(u.active) /\ Cardinality(u.active) = 0
  BY <1>3 DEF StillActive
<1>5. u.active = {}
  BY <1>4, FS_EmptySet
<1>6. u.blocked = none /\ \A t \in Threads : u.blockedAtSem[t] = Null
  BY <1>4, <1>5, NobodyBlocked
<1>7. SameMembers(d, u) /\ SleepIs(d, u.sleepList, u.remaining) /\ BlockedAre(d, u.blocked)
      /\ OnlyBlockedNeed(u) /\ Elsewhere(u)
  BY <1>4 DEF Represents
<1> HIDE DEF d
<1>8. w \in Mems /\ StillAsleep(w, d, 0)
  BY <1>3, <1>7, WakeUpAllDoes
<1>9. PICK q, ticks : SleepIs(w, q, ticks) /\ Len(q) = 0
  BY <1>8 DEF StillAsleep
<1>10. SameBlocked(d, w) /\ SamePlain(d, w)
  BY <1>8 DEF StillAsleep
<1> HIDE DEF w
<1>11. SleepIs(w, <<>>, zero)
  <2>1. q = <<>> /\ ticks \in [Threads -> Nat] /\ Differences(w.timeSleepRelative, q, ticks)
    BY <1>9, ListFacts DEF SleepIs
  <2>2. \A t \in Threads : ticks[t] = 0
    BY <2>1, NobodyListed DEF Differences
  <2>3. ticks = zero
    BY <2>1, <2>2
  <2> HIDE DEF zero
  <2> QED  BY <1>9, <2>1, <2>3
<1>12. e \in Mems
  <2> DEFINE next == [t \in Threads |-> Null]
  <2>1. next \in [Threads -> Links] /\ Null \in Links
    BY DEF Links
  <2>2. e = [w EXCEPT !.readyHead = Null, !.readyTail = Null, !.nextReady = next, !.running = Null]
    OBVIOUS
  <2> HIDE DEF next, e
  <2> QED  BY <1>8, <2>1, <2>2 DEF Mems
<1>13. /\ SameSleep(w, e) /\ SameBlocked(w, e) /\ SameValues(w, e) /\ e.running = Null
       /\ e.readyHead = Null /\ e.readyTail = Null /\ \A t \in Threads : e.nextReady[t] = Null
  <2> DEFINE next == [t \in Threads |-> Null]
  <2>1. e = [w EXCEPT !.readyHead = Null, !.readyTail = Null, !.nextReady = next, !.running = Null]
    OBVIOUS
  <2>2. \A t \in Threads : next[t] = Null
    OBVIOUS
  <2> HIDE DEF next, e
  <2>3. /\ SameSleep(w, e) /\ SameBlocked(w, e) /\ SameValues(w, e) /\ e.running = Null
        /\ e.readyHead = Null /\ e.readyTail = Null /\ e.nextReady = next
    BY <1>8, <2>1 DEF Mems, SameSleep, SameBlocked, SameValues
  <2> QED  BY <2>2, <2>3
<1> HIDE DEF e
<1>14. ReadyIs(e, <<>>)
  BY <1>13, NobodyListed DEF ReadyIs, LinksBelong
<1>15. SleepIs(e, <<>>, zero) /\ BlockedAre(e, none)
  <2>1. BlockedAre(w, none)
    BY <1>6, <1>7, <1>10, SameBlockedAre
  <2> HIDE DEF zero, none
  <2> QED  BY <2>1, <1>11, <1>13, SameSleepIs, SameBlockedAre
<1>16. Down(e)
  BY <1>12, <1>13, <1>14, <1>15 DEF Down
<1>17. /\ v.running = Null /\ v.ready = <<>> /\ v.sleepList = <<>>
       /\ v.remaining = zero /\ v.active = {}
       /\ v.value = [s \in Sems |-> IF s \in k.active THEN 0 ELSE k.value[s]]
       /\ v.blocked = none /\ v.blockedAtSem = [t \in Threads |-> Null]
       /\ v.tokensNeeded = [t \in Threads |->
            IF k.blockedAtSem[t] # Null THEN 0 ELSE k.tokensNeeded[t]]
       /\ v.unblockManner = [t \in Threads |->
            IF k.blockedAtSem[t] # Null THEN "ON_CLOSE" ELSE k.unblockManner[t]]
       /\ SameCounts(k, v) /\ v.finished = k.finished
       /\ v.timeSliceCounter = k.timeSliceCounter /\ v = MembersOf(v)
  BY <1>1, ShutFields
<1> HIDE DEF v, zero, none
<1>18. /\ e.active = u.active /\ e.value = u.value /\ e.blockedAtSem = u.blockedAtSem
       /\ e.tokensNeeded = u.tokensNeeded /\ e.unblockManner = u.unblockManner
  BY <1>7, <1>10, <1>13 DEF SameMembers, SamePlain, SameValues, SameBlocked
<1>19. SameMembers(e, v)
  <2>1. v.running = e.running /\ v.active = e.active
    BY <1>5, <1>13, <1>17, <1>18
  <2>2. v.value = e.value
    <3>1. u.value \in [Sems -> Nat]
      BY KernelFields
    <3>2. \A s \in Sems : u.value[s] = IF s \in k.active THEN 0 ELSE k.value[s]
      BY <1>4, <1>5 DEF Closed
    <3> QED  BY <3>1, <3>2, <1>17, <1>18
  <2>3. v.blockedAtSem = e.blockedAtSem
    <3>1. u.blockedAtSem \in [Threads -> Sems \cup {Null}]
      BY KernelFields
    <3> QED  BY <3>1, <1>6, <1>17, <1>18
  <2>4. v.tokensNeeded = e.tokensNeeded
    <3>1. u.tokensNeeded \in [Threads -> Nat] /\ \A t \in Threads : u.tokensNeeded[t] = 0
      BY <1>6, <1>7, KernelFields DEF OnlyBlockedNeed
    <3>2. \A t \in Threads : k.blockedAtSem[t] = Null => k.tokensNeeded[t] = 0
      BY <1>1 DEF Represents, OnlyBlockedNeed
    <3> QED  BY <3>1, <3>2, <1>17, <1>18
  <2>5. v.unblockManner = e.unblockManner
    <3>1. u.unblockManner \in [Threads -> UnblockManners]
      BY DEF Kernels
    <3>2. \A t \in Threads : u.unblockManner[t] =
            IF k.blockedAtSem[t] # Null THEN "ON_CLOSE" ELSE k.unblockManner[t]
      BY <1>4, <1>6 DEF Closed
    <3> QED  BY <3>1, <3>2, <1>17, <1>18
  <2> QED  BY <2>1, <2>2, <2>3, <2>4, <2>5 DEF SameMembers
<1>20. Elsewhere(v)
  <2>1. Elsewhere(k)
    BY <1>1 DEF Represents
  <2>2. v.timeSliceCounter = 0
    BY <2>1, <1>17 DEF Elsewhere
  <2> QED  BY <2>1, <2>2, <1>17, ElsewhereKept
<1>21. OnlyBlockedNeed(v)
  <2>1. \A t \in Threads : v.tokensNeeded[t] = 0
    <3>1. \A t \in Threads : k.blockedAtSem[t] = Null => k.tokensNeeded[t] = 0
      BY <1>1 DEF Represents, OnlyBlockedNeed
    <3> QED  BY <3>1, <1>17
  <2> QED  BY <2>1 DEF OnlyBlockedNeed
<1>22. Represents(e, v)
  BY <1>14, <1>15, <1>17, <1>19, <1>20, <1>21 DEF Represents
<1>23. QueuesOf(e) = MembersOf(v)
  BY <1>12, <1>22, QueuesAre
<1> QED  BY <1>2, <1>16, <1>17, <1>23 DEF v, k

-----------------------------------------------------------------------------
(***************************************************************************)
(* The initial state: main() runs, and the threads it has created are      *)
(* ready in some order.                                                    *)
(***************************************************************************)
LEMMA OrderIs ==
  ASSUME NEW S \in SUBSET Threads
  PROVE  /\ IsList(InSomeOrder(S)) /\ Range(InSomeOrder(S)) = S
         /\ Len(InSomeOrder(S)) = Cardinality(S)
<1> DEFINE n == Cardinality(S)
           q == InSomeOrder(S)
<1>1. IsFiniteSet(S) /\ n \in Nat /\ ExistsBijection(1 .. n, S)
  BY FS_CardinalityType, FS_Subset, ThreadsAssumption
<1>2. \E f \in [1 .. n -> S] : IsInjective(f)
  BY <1>1 DEF ExistsBijection, Bijection, Injection
<1>3. q \in [1 .. n -> S] /\ IsInjective(q)
  BY <1>2 DEF InSomeOrder
<1> HIDE DEF q
<1>4. Cardinality(1 .. n) = n
  BY <1>1, FS_Interval
<1> HIDE DEF n
<1>5. q \in Surjection(1 .. n, S)
  <2>1. q \in Injection(1 .. n, S)
    BY <1>3 DEF Injection
  <2> QED  BY <2>1, <1>1, <1>4, FS_Injection DEF n
<1>6. q \in Seq(Threads) /\ Len(q) = n /\ DOMAIN q = 1 .. n
  BY <1>1, <1>3
<1>7. Range(q) = S
  BY <1>3, <1>5 DEF Surjection, Range
<1> QED  BY <1>3, <1>6, <1>7 DEF IsList, q, n

\* The record the kernel starts with.
FirstRecord ==
  [running             |-> Master,
   timeSliceCounter    |-> 0,
   ready               |-> InSomeOrder(Callers \ {Master}),
   created             |-> Threads,
   finished            |-> {},
   parent              |-> NoThread,
   numOfActiveChildren |-> [t \in Threads |-> 0],
   sleepList           |-> <<>>,
   remaining           |-> [t \in Threads |-> 0],
   blockedAtSem        |-> NoThread,
   tokensNeeded        |-> [t \in Threads |-> 0],
   unblockManner       |-> [t \in Threads |-> "REGULAR"],
   opened              |-> Used,
   active              |-> Used,
   value               |-> [s \in Sems |-> 0],
   blocked             |-> [s \in Sems |-> <<>>],
   message             |-> NoThread]

LEMMA FirstGood == FirstRecord \in Kernels /\ Good(FirstRecord)
<1> DEFINE q == InSomeOrder(Callers \ {Master})
           none == [s \in Sems |-> <<>>]
           zero == [t \in Threads |-> 0]
<1>1. /\ Master \in Threads /\ Idle \in Threads /\ Master # Idle /\ Null \notin Sems
      /\ 0 \in 0 .. CountMod - 1
  <2>1. {Master, Idle, UserMain} \in SUBSET Threads
    BY ThreadsAssumption
  <2>2. Cardinality(Threads) \in Nat /\ Cardinality(Threads) >= 3
    BY <2>1, ThreadsAssumption, FS_CardinalityType, FS_Subset
  <2>3. CountMod \in Nat /\ CountMod >= 3
    BY <2>2, NumbersAssumption
  <2> QED  BY <2>1, <2>3, ThreeThreads, ThreadsAssumption
<1>2. Callers \ {Master} \in SUBSET Threads
  BY DEF Callers
<1>3. q \in Seq(Threads) /\ IsInjective(q) /\ Range(q) = Callers \ {Master}
  BY <1>2, OrderIs DEF IsList
<1>4. Used \subseteq Sems
  BY UsedSems
<1>5. none \in [Sems -> Seq(Threads)] /\ zero \in [Threads -> Nat]
  BY EmptyList
<1> HIDE DEF q
<1>6. FirstRecord \in Kernels
  <2> HIDE DEF none, zero
  <2>1. <<>> \in Seq(Threads)
    BY EmptyList
  <2>2. zero \in [Threads -> 0 .. CountMod - 1]
    BY <1>1 DEF zero
  <2>3. NoThread \in [Threads -> Threads \cup {Null}] /\ NoThread \in [Threads -> Sems \cup {Null}]
        /\ NoThread \in [Threads -> Messages \cup {Null}]
    BY DEF NoThread
  <2>4. [s \in Sems |-> 0] \in [Sems -> Nat] /\ [t \in Threads |-> "REGULAR"] \in [Threads -> UnblockManners]
    BY DEF UnblockManners
  <2>5. FirstRecord =
          [running |-> Master, timeSliceCounter |-> 0, ready |-> q, created |-> Threads,
           finished |-> {}, parent |-> NoThread, numOfActiveChildren |-> zero,
           sleepList |-> <<>>, remaining |-> zero, blockedAtSem |-> NoThread,
           tokensNeeded |-> zero, unblockManner |-> [t \in Threads |-> "REGULAR"],
           opened |-> Used, active |-> Used, value |-> [s \in Sems |-> 0],
           blocked |-> none, message |-> NoThread]
    BY DEF FirstRecord, q, none, zero
  <2> QED  BY <1>1, <1>3, <1>4, <1>5, <2>1, <2>2, <2>3, <2>4, <2>5 DEF Kernels
<1>7. PICK k \in Kernels : k = FirstRecord
  BY <1>6
<1>8. /\ k.running = Master /\ k.ready = q /\ k.created = Threads /\ k.finished = {}
      /\ k.sleepList = <<>> /\ k.opened = Used /\ k.active = Used
      /\ \A t \in Threads : k.remaining[t] = 0 /\ k.blockedAtSem[t] = Null
      /\ \A s \in Sems : k.blocked[s] = <<>>
  BY <1>7 DEF FirstRecord, NoThread, q
<1>9. \A t \in Threads : ~WaitsIn(k, t) /\ ~sleeps(k, t)
  BY <1>8 DEF WaitsIn, sleeps
<1>10. ListsAgree(k) /\ Short(k)
  BY <1>1, <1>8, EmptyList DEF ListsAgree, Short
<1>11. SleepersListed(k)
  BY <1>8, <1>9, EmptyList DEF SleepersListed
<1>12. ReadyCanRun(k)
  <2>1. \A t \in Range(q) : t \in Threads /\ t # Idle /\ t # Master
    BY <1>3 DEF Callers
  <2> QED  BY <1>3, <1>8, <1>9, <2>1 DEF ReadyCanRun
<1>13. WaitersLive(k) /\ RunnerRuns(k)
  BY <1>1, <1>8, <1>9 DEF WaitersLive, RunnerRuns
<1>14. Placed(k)
  BY <1>3, <1>8 DEF Placed, Callers
<1>15. Registered(k)
  <2>1. UserMain \in Threads
    BY ThreeThreads
  <2>2. Used \subseteq UserSems \cup UNION {SemsOf(t) : t \in Threads}
    BY <2>1 DEF Used, JoinAllSem, SemsOf
  <2> QED  BY <1>1, <1>8, <2>2 DEF Registered
<1> QED  BY <1>7, <1>10, <1>11, <1>12, <1>13, <1>14, <1>15 DEF Good, Consistent

LEMMA InitDoes ==
  ASSUME Init
  PROVE  Whole(mem) /\ QueuesOf(mem) = FirstRecord
<1> DEFINE q == InSomeOrder(Callers \ {Master})
           n == Len(q)
           next == [t \in Threads |->
                      IF \E i \in 1 .. n - 1 : q[i] = t
                      THEN q[1 + CHOOSE i \in 1 .. n - 1 : q[i] = t] ELSE Null]
           none == [s \in Sems |-> <<>>]
           zero == [t \in Threads |-> 0]
           nobody == [s \in Sems |-> Null]
           regular == [t \in Threads |-> "REGULAR"]
<1>1. Master \in Threads /\ UserMain \in Callers \ {Master} /\ Callers \ {Master} \in SUBSET Threads
  BY ThreeThreads DEF Callers
<1>2. IsList(q) /\ Range(q) = Callers \ {Master}
  BY <1>1, OrderIs
<1>3. mem = [running |-> Master, readyHead |-> q[1], readyTail |-> q[n], nextReady |-> next,
             sleepHead |-> Null, nextSleep |-> NoThread, timeSleepRelative |-> zero,
             sleeps |-> {}, blockedHead |-> nobody, blockedTail |-> nobody,
             nextSemBlocked |-> NoThread, blockedAtSem |-> NoThread, tokensNeeded |-> zero,
             unblockManner |-> regular, active |-> Used, value |-> [s \in Sems |-> 0]]
  BY DEF Init
<1> HIDE DEF q
<1>4. /\ n \in Nat /\ n >= 1 /\ DOMAIN q = 1 .. n
      /\ \A i \in 1 .. n : q[i] \in Threads /\ At(q, i) = q[i]
      /\ \A i : i \notin 1 .. n => At(q, i) = Null
      /\ \A i, j \in 1 .. n : q[i] = q[j] => i = j
      /\ \A t : t \in Range(q) <=> \E i \in 1 .. n : q[i] = t
  <2>1. /\ n \in Nat /\ DOMAIN q = 1 .. n
        /\ \A i \in 1 .. n : q[i] \in Threads /\ At(q, i) = q[i]
        /\ \A i : i \notin 1 .. n => At(q, i) = Null
        /\ \A i, j \in 1 .. n : q[i] = q[j] => i = j
        /\ \A t : t \in Range(q) <=> \E i \in 1 .. n : q[i] = t
    BY <1>2, ListFacts
  <2>2. \E i \in 1 .. n : q[i] = UserMain
    BY <1>1, <1>2, <2>1
  <2> QED  BY <2>1, <2>2
<1> HIDE DEF n
<1>5. \A i \in 1 .. n : next[q[i]] = At(q, i + 1)
  <2> TAKE i \in 1 .. n
  <2>1. q[i] \in Threads
    BY <1>4
  <2>2. CASE i = n
    <3>1. ~ \E j \in 1 .. n - 1 : q[j] = q[i]
      BY <1>4, <2>2
    <3>2. i + 1 \notin 1 .. n
      BY <1>4, <2>2
    <3> QED  BY <1>4, <2>1, <3>1, <3>2
  <2>3. CASE i # n
    <3>1. i \in 1 .. n - 1 /\ i + 1 \in 1 .. n
      BY <1>4, <2>3
    <3>2. \A j \in 1 .. n - 1 : q[j] = q[i] => j = i
      BY <1>4
    <3>3. (CHOOSE j \in 1 .. n - 1 : q[j] = q[i]) = i
      BY <3>1, <3>2
    <3> QED  BY <1>4, <2>1, <3>1, <3>3
  <2> QED  BY <2>2, <2>3
<1>6. \A t \in Threads \ Range(q) : next[t] = Null
  BY <1>4
<1>7. next \in [Threads -> Links]
  <2>1. \A t \in Threads : next[t] \in Threads \cup {Null}
    <3> TAKE t \in Threads
    <3>1. CASE t \in Range(q)
      <4>1. PICK i \in 1 .. n : q[i] = t
        BY <1>4, <3>1
      <4>2. At(q, i + 1) \in Threads \cup {Null}
        BY <1>4
      <4> HIDE DEF next
      <4> QED  BY <1>5, <4>1, <4>2
    <3>2. CASE t \notin Range(q)
      <4> HIDE DEF next
      <4> QED  BY <1>6, <3>2
    <3> QED  BY <3>1, <3>2
  <2>2. next = [t \in Threads |-> next[t]]
    OBVIOUS
  <2> HIDE DEF next
  <2> QED  BY <2>1, <2>2 DEF Links
<1> HIDE DEF next
<1>8. /\ NoThread \in [Threads -> Links] /\ NoThread \in [Threads -> Sems \cup {Null}]
      /\ \A t \in Threads : NoThread[t] = Null
  BY DEF NoThread, Links
<1>9. mem \in Mems
  <2>1. Master \in Links /\ q[1] \in Links /\ q[n] \in Links /\ Null \in Links
    BY <1>1, <1>4 DEF Links
  <2>2. zero \in [Threads -> Nat] /\ nobody \in [Sems -> Links] /\ regular \in [Threads -> UnblockManners]
    BY <2>1 DEF UnblockManners
  <2>3. [s \in Sems |-> 0] \in [Sems -> Nat] /\ Used \in SUBSET Sems
    BY UsedSems
  <2> HIDE DEF zero, nobody, regular
  <2> QED  BY <1>3, <1>7, <1>8, <2>1, <2>2, <2>3 DEF Mems
<1>10. PICK k \in Kernels : k = FirstRecord /\ Good(k)
  BY FirstGood
<1>11. /\ k.running = Master /\ k.ready = q /\ k.sleepList = <<>> /\ k.remaining = zero
       /\ k.blocked = none /\ k.blockedAtSem = NoThread /\ k.tokensNeeded = zero
       /\ k.unblockManner = regular /\ k.active = Used /\ k.value = [s \in Sems |-> 0]
       /\ Elsewhere(k)
  BY <1>10 DEF FirstRecord, Elsewhere, q
<1>12. SameMembers(mem, k) /\ OnlyBlockedNeed(k)
  BY <1>3, <1>11 DEF SameMembers, OnlyBlockedNeed
<1>13. ReadyIs(mem, q)
  <2>1. mem.readyHead = q[1] /\ mem.readyTail = q[n] /\ mem.nextReady = next
    BY <1>3
  <2>2. 1 \in 1 .. n /\ n \in 1 .. n
    BY <1>4
  <2>3. Chained(mem.readyHead, mem.nextReady, q)
    BY <1>4, <1>5, <2>1, <2>2 DEF Chained
  <2>4. mem.readyTail = At(q, Len(q))
    BY <1>4, <2>1, <2>2 DEF n
  <2>5. LinksBelong(mem.nextReady, Range(q))
    BY <1>6, <2>1 DEF LinksBelong
  <2> QED  BY <1>2, <2>3, <2>4, <2>5 DEF ReadyIs
<1>14. SleepIs(mem, <<>>, zero)
  <2>1. zero \in [Threads -> Nat] /\ \A t \in Threads : zero[t] = 0
    OBVIOUS
  <2>2. /\ mem.sleepHead = Null /\ mem.nextSleep = NoThread /\ mem.sleeps = {}
        /\ mem.timeSleepRelative = zero
    BY <1>3
  <2> HIDE DEF zero
  <2>3. Differences(mem.timeSleepRelative, <<>>, zero)
    BY <2>1, <2>2, EmptyList DEF Differences
  <2> QED  BY <1>8, <2>1, <2>2, <2>3, NobodyListed DEF SleepIs, LinksBelong
<1>15. BlockedAre(mem, none)
  <2>1. none \in [Sems -> Seq(Threads)]
    BY EmptyList
  <2>2. /\ mem.blockedHead = nobody /\ mem.blockedTail = nobody
        /\ mem.nextSemBlocked = NoThread /\ mem.blockedAtSem = NoThread
    BY <1>3
  <2>3. Null \notin Sems
    BY ThreadsAssumption
  <2>4. ASSUME NEW s \in Sems PROVE SemIs(mem, s, <<>>)
    BY <1>8, <2>2, <2>3, NobodyListed DEF SemIs
  <2> QED  BY <1>8, <2>1, <2>2, <2>4 DEF BlockedAre
<1>16. Represents(mem, k)
  <2> HIDE DEF zero, none
  <2> QED  BY <1>11, <1>12, <1>13, <1>14, <1>15 DEF Represents
<1> QED  BY <1>9, <1>10, <1>16, WholeMade

-----------------------------------------------------------------------------
(***************************************************************************)
(* The invariant.                                                          *)
(***************************************************************************)
\* After the shutdown nothing runs.
LEMMA DownIsEnd ==
  ASSUME Down(mem)
  PROVE  ~Next
<1>1. mem.running = Null /\ Null \notin Threads /\ Null \notin Callers /\ Null # Master
  BY ThreeThreads, ThreadsAssumption DEF Down, Callers
<1>2. ASSUME NEW r \in Requests PROVE ~TakeTokens(r) /\ ~Wait(r) /\ ~TimedWait(r)
  <2>1. r.caller # Null
    BY <1>1, RequestFacts
  <2> QED  BY <1>1, <2>1 DEF TakeTokens, Wait, TimedWait, Blocks
<1>3. ASSUME NEW s \in Used PROVE ~SignalOne(s) /\ ~CloseOne(s)
  BY <1>1 DEF SignalOne, CloseOne
<1>4. ~GoToSleep /\ ~Dispatch /\ ~Tick /\ ~ShutDown
  BY <1>1 DEF GoToSleep, Dispatch, Tick, ShutDown
<1> QED  BY <1>2, <1>3, <1>4 DEF Next

LEMMA InvStep ==
  ASSUME ListsInv, [Next]_mem
  PROVE  ListsInv'
<1>1. CASE UNCHANGED mem
  BY <1>1 DEF ListsInv
<1>2. CASE Next
  <2>1. Whole(mem)
    BY <1>2, DownIsEnd DEF ListsInv
  <2>2. Whole(mem') \/ Down(mem')
    <3>1. ASSUME NEW r \in Requests, TakeTokens(r) PROVE Whole(mem')
      BY <2>1, <3>1, TakeTokensDoes
    <3>2. ASSUME NEW r \in Requests, Wait(r) PROVE Whole(mem')
      BY <2>1, <3>2, WaitDoes
    <3>3. ASSUME NEW r \in Requests, TimedWait(r) PROVE Whole(mem')
      BY <2>1, <3>3, TimedWaitDoes
    <3>4. ASSUME NEW s \in Used, SignalOne(s) PROVE Whole(mem')
      BY <2>1, <3>4, SignalOneDoes
    <3>5. ASSUME NEW s \in Used, CloseOne(s) PROVE Whole(mem')
      BY <2>1, <3>5, CloseOneDoes
    <3>6. CASE GoToSleep
      BY <2>1, <3>6, GoToSleepDoes
    <3>7. CASE Dispatch
      BY <2>1, <3>7, DispatchDoes
    <3>8. CASE Tick
      BY <2>1, <3>8, TickDoes
    <3>9. CASE ShutDown
      BY <2>1, <3>9, ShutDownDoes
    <3> QED  BY <1>2, <3>1, <3>2, <3>3, <3>4, <3>5, <3>6, <3>7, <3>8, <3>9 DEF Next
  <2> QED  BY <2>2 DEF ListsInv
<1> QED  BY <1>1, <1>2

\* In every state the links are lists: those of a record of the kernel its
\* invariant holds of while a thread runs, of nobody after the shutdown.
THEOREM ListsInvAlways == Spec => []ListsInv
<1>1. Init => ListsInv
  BY InitDoes DEF ListsInv
<1>2. ListsInv /\ [Next]_mem => ListsInv'
  BY InvStep
<1> QED  BY <1>1, <1>2, PTL DEF Spec

\* Lists that are as the links say show themselves so.
LEMMA ListsShow ==
  ASSUME mem \in Mems, NEW ready, NEW sleeping, NEW ticks, NEW lists,
         ReadyIs(mem, ready), SleepIs(mem, sleeping, ticks), BlockedAre(mem, lists),
         \A s \in Sems : lists[s] # <<>> => s \in Used
  PROVE  ListsAreWhole
<1>1. /\ mem.nextReady \in [Threads -> Links] /\ mem.nextSleep \in [Threads -> Links]
      /\ mem.nextSemBlocked \in [Threads -> Links]
      /\ mem.blockedAtSem \in [Threads -> Sems \cup {Null}]
  BY DEF Mems
<1>2. /\ IsList(ready) /\ Chained(mem.readyHead, mem.nextReady, ready)
      /\ mem.readyTail = At(ready, Len(ready)) /\ LinksBelong(mem.nextReady, Range(ready))
  BY DEF ReadyIs
<1>3. /\ IsList(sleeping) /\ Chained(mem.sleepHead, mem.nextSleep, sleeping)
      /\ mem.sleeps = Range(sleeping) /\ LinksBelong(mem.nextSleep, Range(sleeping))
  BY DEF SleepIs
<1>4. /\ \A s \in Sems : SemIs(mem, s, lists[s])
      /\ \A t \in Threads : mem.blockedAtSem[t] = Null => mem.nextSemBlocked[t] = Null
  BY DEF BlockedAre
<1>5. \A s \in Used : s \in Sems
  BY UsedSems
<1>6. readyList(mem) = ready /\ sleepList(mem) = sleeping
  BY <1>1, <1>2, <1>3, ChainIs DEF readyList, sleepList
<1>7. ASSUME NEW s \in Used
      PROVE  /\ blocked(mem, s) = lists[s] /\ IsList(lists[s])
             /\ mem.blockedTail[s] = At(lists[s], Len(lists[s]))
             /\ \A t \in Threads : t \in Range(lists[s]) <=> mem.blockedAtSem[t] = s
  <2>1. /\ IsList(lists[s]) /\ Chained(mem.blockedHead[s], mem.nextSemBlocked, lists[s])
        /\ mem.blockedTail[s] = At(lists[s], Len(lists[s]))
        /\ \A t \in Threads : t \in Range(lists[s]) <=> mem.blockedAtSem[t] = s
    BY <1>4, <1>5 DEF SemIs
  <2>2. blocked(mem, s) = lists[s]
    BY <1>1, <2>1, ChainIs DEF blocked
  <2> QED  BY <2>1, <2>2
<1>8. ASSUME NEW q, IsList(q), NEW tail, tail = At(q, Len(q)) PROVE TailIsLast(tail, q)
  <2>1. /\ Len(q) \in Nat /\ (q = <<>> <=> Len(q) = 0)
        /\ \A i \in 1 .. Len(q) : At(q, i) = q[i]
        /\ \A i : i \notin 1 .. Len(q) => At(q, i) = Null
    BY <1>8, ListFacts
  <2>2. CASE q = <<>>
    BY <1>8, <2>1, <2>2 DEF TailIsLast
  <2>3. CASE q # <<>>
    <3>1. Len(q) \in 1 .. Len(q)
      BY <2>1, <2>3
    <3> QED  BY <1>8, <2>1, <2>3, <3>1 DEF TailIsLast
  <2> QED  BY <2>2, <2>3
<1> DEFINE waiting == [s \in Used |-> blocked(mem, s)]
<1>9. IsInjective(ready) /\ IsInjective(sleeping) /\ TailIsLast(mem.readyTail, ready)
  BY <1>2, <1>3, <1>8 DEF IsList
<1>10. \A s \in Used : waiting[s] = lists[s]
  BY <1>7
<1> HIDE DEF waiting
<1>11. \A s \in Used :
         /\ IsInjective(waiting[s]) /\ TailIsLast(mem.blockedTail[s], waiting[s])
         /\ \A t \in Threads : t \in Range(waiting[s]) <=> mem.blockedAtSem[t] = s
  BY <1>7, <1>8, <1>10 DEF IsList
<1>12. \A s \in Used : Range(waiting[s]) = {t \in Threads : mem.blockedAtSem[t] = s}
  <2>1. \A s \in Used : Range(waiting[s]) \subseteq Threads
    <3> TAKE s \in Used
    <3>1. IsList(lists[s]) /\ waiting[s] = lists[s]
      BY <1>7, <1>10
    <3> QED  BY <3>1, ListFacts
  <2> QED  BY <1>11, <2>1
<1>13. LinksBelong(mem.nextSemBlocked, UNION {Range(waiting[s]) : s \in Used})
  <2> SUFFICES ASSUME NEW t \in Threads, t \notin UNION {Range(waiting[s]) : s \in Used}
               PROVE  mem.nextSemBlocked[t] = Null
    BY DEF LinksBelong
  <2>1. \A s \in Used : mem.blockedAtSem[t] # s
    BY <1>11
  <2>2. \A s \in Sems \ Used : mem.blockedAtSem[t] # s
    <3> TAKE s \in Sems \ Used
    <3>1. lists[s] = <<>>
      OBVIOUS
    <3>2. t \notin Range(lists[s])
      BY <3>1, EmptyList
    <3> QED  BY <1>4, <3>2 DEF SemIs
  <2>3. mem.blockedAtSem[t] = Null
    BY <1>1, <2>1, <2>2
  <2> QED  BY <1>4, <2>3
<1>14. Range(sleeping) = mem.sleeps /\ LinksBelong(mem.nextSleep, mem.sleeps)
  BY <1>3
<1>15. LinksBelong(mem.nextReady, Range(ready))
  BY <1>2
<1> QED  BY <1>6, <1>9, <1>11, <1>12, <1>13, <1>14, <1>15 DEF ListsAreWhole, waiting

\* The record of a memory with whole lists has nobody at a semaphore the
\* program does not use.
LEMMA OnlyUsed ==
  ASSUME NEW k \in Kernels, Good(k), Elsewhere(k)
  PROVE  \A s \in Sems : k.blocked[s] # <<>> => s \in Used
BY DEF Good, Consistent, Short, Registered, Elsewhere

\* In every state every list is whole: nobody twice, the pointers to the last
\* thread right, sleeps and blockedAtSem true of the lists, and no stale link.
THEOREM AlwaysWhole == Spec => []ListsAreWhole
<1>1. ListsInv => ListsAreWhole
  <2>1. CASE Whole(mem)
    <3> DEFINE k == QueuesOf(mem)
    <3>1. mem \in Mems /\ k \in Kernels /\ Good(k) /\ Represents(mem, k)
      BY <2>1, WholeFacts
    <3> HIDE DEF k
    <3>2. /\ ReadyIs(mem, k.ready) /\ SleepIs(mem, k.sleepList, k.remaining)
          /\ BlockedAre(mem, k.blocked) /\ Elsewhere(k)
      BY <3>1 DEF Represents
    <3>3. \A s \in Sems : k.blocked[s] # <<>> => s \in Used
      BY <3>1, <3>2, OnlyUsed
    <3> QED  BY <3>1, <3>2, <3>3, ListsShow
  <2>2. CASE Down(mem)
    <3> DEFINE none == [s \in Sems |-> <<>>]
               zero == [t \in Threads |-> 0]
    <3>1. mem \in Mems /\ ReadyIs(mem, <<>>) /\ SleepIs(mem, <<>>, zero) /\ BlockedAre(mem, none)
      BY <2>2 DEF Down
    <3>2. \A s \in Sems : none[s] # <<>> => s \in Used
      OBVIOUS
    <3> HIDE DEF none, zero
    <3> QED  BY <3>1, <3>2, ListsShow
  <2> QED  BY <2>1, <2>2 DEF ListsInv
<1> QED  BY <1>1, ListsInvAlways, PTL

\* In every state the head of the sleep list has a tick left, so that the
\* decrement of Sleep::onTick never wraps.
THEOREM AlwaysTicksLeft == Spec => []HeadHasTicksLeft
<1>1. ListsInv => HeadHasTicksLeft
  <2>1. CASE Whole(mem)
    <3> DEFINE k == QueuesOf(mem)
    <3>1. mem \in Mems /\ k \in Kernels /\ Represents(mem, k) /\ Sleepy(k)
      BY <2>1, WholeFacts
    <3> HIDE DEF k
    <3> DEFINE q == k.sleepList
    <3>2. /\ IsList(q) /\ mem.sleepHead = At(q, 1)
          /\ Differences(mem.timeSleepRelative, q, k.remaining)
          /\ mem.timeSleepRelative \in [Threads -> Nat]
      BY <3>1 DEF Represents, SleepIs, Chained, Mems
    <3>3. \A t \in Threads : sleeps(k, t) <=> t \in Range(q)
      BY <3>1 DEF Sleepy
    <3> HIDE DEF q
    <3>4. CASE 1 \in DOMAIN q
      <4>1. q[1] \in Range(q) /\ q[1] \in Threads /\ At(q, 1) = q[1]
        BY <3>2, <3>4, ListFacts
      <4>2. k.remaining[q[1]] > 0
        BY <3>3, <4>1 DEF sleeps
      <4>3. k.remaining[q[1]] = mem.timeSleepRelative[q[1]]
        BY <3>2, <3>4, <4>1 DEF Differences
      <4> QED  BY <3>2, <4>1, <4>2, <4>3 DEF HeadHasTicksLeft
    <3>5. CASE 1 \notin DOMAIN q
      BY <3>2, <3>5 DEF At, HeadHasTicksLeft
    <3> QED  BY <3>4, <3>5
  <2>2. CASE Down(mem)
    <3>1. mem.sleepHead = At(<<>>, 1)
      BY <2>2 DEF Down, SleepIs, Chained
    <3> QED  BY <3>1, NobodyListed DEF HeadHasTicksLeft
  <2> QED  BY <2>1, <2>2 DEF ListsInv
<1> QED  BY <1>1, ListsInvAlways, PTL

-----------------------------------------------------------------------------
(***************************************************************************)
(* The refinement.  The routines of Queues.tla are those of this module's  *)
(* kernel, definition by definition.                                       *)
(***************************************************************************)
LEMMA SameAcquire ==
  ASSUME NEW k, NEW s, NEW tokens
  PROVE  Abstract!Acquire(k, s, tokens) = Acquire(k, s, tokens)
BY DEF Abstract!Acquire, Acquire

LEMMA SameBlock ==
  ASSUME NEW k, NEW s, NEW tokens
  PROVE  Abstract!Block(k, s, tokens) = Block(k, s, tokens)
BY DEF Abstract!Block, Block

LEMMA SameBlockForNoTime ==
  ASSUME NEW k, NEW s
  PROVE  Abstract!BlockForNoTime(k, s) = BlockForNoTime(k, s)
BY DEF Abstract!BlockForNoTime, BlockForNoTime

LEMMA SameYield ==
  ASSUME NEW k, NEW schPut
  PROVE  Abstract!Yield(k, schPut) = Yield(k, schPut)
BY DEF Abstract!Yield, Yield, Abstract!SchedulerGet, SchedulerGet,
       Abstract!SchedulerPut, SchedulerPut, Abstract!CanContinue, CanContinue,
       Abstract!sleeps, sleeps

LEMMA SameSleepPut ==
  ASSUME NEW k, NEW t, NEW timeout
  PROVE  Abstract!SleepPut(k, t, timeout) = SleepPut(k, t, timeout)
BY DEF Abstract!SleepPut, SleepPut, Abstract!Only, Only, Abstract!sleeps,
       sleeps, Abstract!Without, Without, Abstract!Kept, Kept, Abstract!Rank,
       Rank, Abstract!Cardinality, Cardinality, Abstract!Range, Range

LEMMA SameWake ==
  ASSUME NEW k, NEW q, NEW manner
  PROVE  Abstract!Wake(k, q, manner) = Wake(k, q, manner)
BY DEF Abstract!Wake, Wake, Abstract!Unlink, Unlink, Abstract!Sems, Sems,
       Abstract!SemsOf, SemsOf, Abstract!semJoin, semJoin,
       Abstract!semJoinAll, semJoinAll, Abstract!semSend, semSend,
       Abstract!semReceive, semReceive, Abstract!Without, Without,
       Abstract!Kept, Kept, Abstract!Rank, Rank, Abstract!Cardinality,
       Cardinality, Abstract!Range, Range

LEMMA SameOnly ==
  ASSUME NEW q, NEW W
  PROVE  Abstract!Only(q, W) = Only(q, W)
BY DEF Abstract!Only, Only, Abstract!Without, Without, Abstract!Kept, Kept,
       Abstract!Rank, Rank, Abstract!Cardinality, Cardinality, Abstract!Range,
       Range

LEMMA SameOnTick ==
  ASSUME NEW k
  PROVE  Abstract!OnTick(k) = OnTick(k)
BY SameWake, SameOnly DEF Abstract!OnTick, OnTick

LEMMA SameSignalAll ==
  ASSUME NEW k, NEW s, NEW manner
  PROVE  Abstract!SignalAll(k, s, manner) = SignalAll(k, s, manner)
BY SameWake DEF Abstract!SignalAll, SignalAll

LEMMA SameSignal ==
  ASSUME NEW k, NEW s
  PROVE  Abstract!Signal(k, s) = Signal(k, s)
BY SameWake DEF Abstract!Signal, Signal

LEMMA SameClose ==
  ASSUME NEW k, NEW s
  PROVE  Abstract!Close(k, s) = Close(k, s)
BY SameSignalAll DEF Abstract!Close, Close

LEMMA SameSems ==
  /\ Abstract!Sems = Sems /\ Abstract!JoinAllSem = JoinAllSem
  /\ Abstract!Callers = Callers /\ Abstract!Used = Used
  /\ Abstract!Requests = Requests
BY DEF Abstract!Sems, Sems, Abstract!SemsOf, SemsOf, Abstract!semJoin,
       semJoin, Abstract!semJoinAll, semJoinAll, Abstract!semSend, semSend,
       Abstract!semReceive, semReceive, Abstract!JoinAllSem, JoinAllSem,
       Abstract!Callers, Callers, Abstract!Used, Used, Abstract!Requests,
       Requests

LEMMA SameOrders ==
  ASSUME NEW S
  PROVE  Abstract!InSomeOrder(S) = InSomeOrder(S)
BY DEF Abstract!InSomeOrder, InSomeOrder, Abstract!IsInjective, IsInjective,
       Abstract!Cardinality, Cardinality

\* What the shutdown does to the lists of Queues.tla.
LEMMA SameShutDown ==
  ASSUME QueuesOf(mem).running = Master, QueuesOf(mem') = ShutRecord(QueuesOf(mem))
  PROVE  Abstract!ShutDown
BY SameSems DEF Abstract!ShutDown, ShutRecord

LEMMA InitImplements ==
  ASSUME Init
  PROVE  Abstract!Init
<1>1. QueuesOf(mem) = FirstRecord
  BY InitDoes
<1>2. Abstract!NoThread = NoThread
  BY DEF Abstract!NoThread, NoThread
<1>3. Abstract!InSomeOrder(Abstract!Callers \ {Master}) = InSomeOrder(Callers \ {Master})
  BY SameSems, SameOrders
<1> QED  BY <1>1, <1>2, <1>3, SameSems DEF Abstract!Init, FirstRecord

\* Each call of the linked lists is the call of that name.
LEMMA CallImplements ==
  ASSUME Whole(mem), Next
  PROVE  Abstract!Next
<1> DEFINE k == QueuesOf(mem)
           l == QueuesOf(mem')
<1>1. /\ k.running = mem.running /\ k.active = mem.active /\ k.value = mem.value
      /\ k.blockedAtSem = mem.blockedAtSem
  BY WholeFacts
<1>2. ASSUME NEW r \in Requests, TakeTokens(r) \/ Wait(r) PROVE Abstract!Wait(r)
  <2>1. k.running = r.caller /\ r.sem \in k.active
    BY <1>1, <1>2 DEF TakeTokens, Wait, Blocks
  <2>2. CASE TakeTokens(r)
    <3>1. k.value[r.sem] >= r.tokens
      BY <1>1, <2>2 DEF TakeTokens
    <3>2. l = Abstract!Acquire(k, r.sem, r.tokens)
      BY <2>2, TakeTokensDoes, SameAcquire
    <3> QED  BY <2>1, <3>1, <3>2 DEF Abstract!Wait
  <2>3. CASE Wait(r)
    <3>1. r.sem \in Sems /\ r.tokens \in Nat /\ k.value[r.sem] < r.tokens
      BY <1>1, <2>3, RequestFacts DEF Wait, Blocks
    <3>2. k.value[r.sem] \in Nat
      BY <3>1, WholeFacts, KernelFields
    <3>3. ~(k.value[r.sem] >= r.tokens)
      BY <3>1, <3>2
    <3>4. l = Abstract!Yield(Abstract!Block(k, r.sem, r.tokens), FALSE)
      BY <2>3, WaitDoes, SameBlock, SameYield
    <3> QED  BY <2>1, <3>3, <3>4 DEF Abstract!Wait
  <2> QED  BY <1>2, <2>2, <2>3
<1>3. ASSUME NEW r \in Requests, TimedWait(r) PROVE Abstract!TimedWait(r)
  <2>1. k.running = r.caller /\ r.sem \in k.active /\ k.value[r.sem] < r.tokens
    BY <1>1, <1>3 DEF TimedWait, Blocks
  <2>2. \/ l = BlockForNoTime(k, r.sem)
        \/ \E timeout \in 1 .. MaxTimeout :
             l = Yield(SleepPut(Block(k, r.sem, r.tokens), r.caller, timeout), FALSE)
    BY <1>3, TimedWaitDoes
  <2>3. \/ l = Abstract!BlockForNoTime(k, r.sem)
        \/ \E timeout \in 1 .. MaxTimeout :
             l = Abstract!Yield(Abstract!SleepPut(Abstract!Block(k, r.sem, r.tokens),
                                                  r.caller, timeout), FALSE)
    BY <2>2, SameBlockForNoTime, SameBlock, SameSleepPut, SameYield
  <2> QED  BY <2>1, <2>3 DEF Abstract!TimedWait
<1>4. ASSUME NEW s \in Used, SignalOne(s) PROVE Abstract!SignalOne(s)
  <2>1. l = Abstract!Signal(k, s)
    BY <1>4, SignalOneDoes, SameSignal
  <2>2. /\ k.running \in Callers
        /\ \/ s \in UserSems /\ k.value[s] < MaxTokens
           \/ s = JoinAllSem /\ k.running # UserMain /\ k.blockedAtSem[UserMain] = s
    BY <1>1, <1>4 DEF SignalOne
  <2> QED  BY <2>1, <2>2, SameSems DEF Abstract!SignalOne
<1>5. ASSUME NEW s \in Used, CloseOne(s) PROVE Abstract!CloseOne(s)
  <2>1. l = Abstract!Close(k, s)
    BY <1>5, CloseOneDoes, SameClose
  <2>2. k.running \in Callers /\ s \in k.active
    BY <1>1, <1>5 DEF CloseOne
  <2> QED  BY <2>1, <2>2, SameSems DEF Abstract!CloseOne
<1>6. ASSUME GoToSleep PROVE Abstract!GoToSleep
  <2>1. k.running \in Callers
    BY <1>1, <1>6 DEF GoToSleep
  <2>2. \E timeout \in 1 .. MaxTimeout :
          l = Abstract!Yield(Abstract!SleepPut(k, k.running, timeout), FALSE)
    BY <1>1, <1>6, GoToSleepDoes, SameSleepPut, SameYield
  <2> QED  BY <2>1, <2>2, SameSems DEF Abstract!GoToSleep
<1>7. ASSUME Dispatch PROVE Abstract!Dispatch
  <2>1. k.running # Null
    BY <1>1, <1>7 DEF Dispatch
  <2>2. l = Abstract!Yield(k, TRUE)
    BY <1>7, DispatchDoes, SameYield
  <2> QED  BY <2>1, <2>2 DEF Abstract!Dispatch
<1>8. ASSUME Tick PROVE Abstract!Tick
  <2>1. k.running # Null
    BY <1>1, <1>8 DEF Tick
  <2>2. l = Abstract!OnTick(k)
    BY <1>8, TickDoes, SameOnTick
  <2> QED  BY <2>1, <2>2 DEF Abstract!Tick
<1>9. ASSUME ShutDown PROVE Abstract!ShutDown
  <2>1. k.running = Master
    BY <1>1, <1>9 DEF ShutDown
  <2> QED  BY <2>1, <1>9, ShutDownDoes, SameShutDown
<1> QED  BY <1>2, <1>3, <1>4, <1>5, <1>6, <1>7, <1>8, <1>9, SameSems DEF Next, Abstract!Next

LEMMA StepImplements ==
  ASSUME ListsInv, [Next]_mem
  PROVE  [Abstract!Next]_(QueuesOf(mem))
<1>1. CASE UNCHANGED mem
  BY <1>1
<1>2. CASE Next
  <2>1. Whole(mem)
    BY <1>2, DownIsEnd DEF ListsInv
  <2> QED  BY <1>2, <2>1, CallImplements
<1> QED  BY <1>1, <1>2

\* The linked lists do what the sequences and timers of the kernel model do:
\* every call and every tick leads to the same lists, the same values of the
\* semaphores and the same thread running.
THEOREM ListsImplementQueues == Spec => ImplementsQueues
<1>1. Init => Abstract!Init
  BY InitImplements
<1>2. ListsInv /\ [Next]_mem => [Abstract!Next]_(QueuesOf(mem))
  BY StepImplements
<1> QED  BY <1>1, <1>2, ListsInvAlways, PTL DEF Spec, ImplementsQueues, Abstract!Spec
=============================================================================
