------------------------ MODULE MemoryManager_proofs ------------------------
(***************************************************************************)
(* The lists of headers of MemoryManager.tla stay well linked, hold every  *)
(* block once, keep no two free segments that touch, and implement the     *)
(* abstract heap, for a heap of any size and any requests.                 *)
(*                                                                         *)
(* First the loops that follow a list: such a walk exists because links    *)
(* only lead up, and what is true where it stops is carried back to where  *)
(* it began.  Then what each method of MSH does to the ascending lists     *)
(* (OneLess, OneMore) and to the row of segments (Tiled...), then what     *)
(* memAlloc_ and memFree_ do to a heap that is whole (HeapAllocates,       *)
(* HeapFrees), and last the invariant and the refinement.                  *)
(***************************************************************************)
EXTENDS MemoryInvariant, FiniteSetTheorems, WellFoundedInduction, TLAPS

\* A set of numbers that is not empty has a least one.
LEMMA LeastNat ==
  ASSUME NEW T, T \subseteq Nat, T # {}
  PROVE  \E x \in T : \A y \in T : x <= y
<1> DEFINE R == {ss \in Nat \X Nat : ss[1] < ss[2]}
<1>1. IsWellFoundedOn(R, Nat)
  BY NatLessThanWellFounded DEF OpToRel
<1>2. PICK x \in T : \A y \in T : ~(<<y, x>> \in R)
  BY <1>1, WFMin
<1>3. ASSUME NEW y \in T PROVE x <= y
  <2>1. <<y, x>> \notin R /\ x \in Nat /\ y \in Nat
    BY <1>2
  <2> QED  BY <2>1
<1> QED  BY <1>3

\* r is the function that merge defines.
Rounds(r, m, this) ==
  r = [i \in 0 .. HeapBlocks |-> IF i = 0 THEN m ELSE join(r[i - 1], this)]

\* Where a second round joins nothing, merge is one round.
LEMMA MergeOnce ==
  ASSUME NEW m, NEW this, join(join(m, this), this) = join(m, this)
  PROVE  merge(m, this) = join(m, this)
<1>1. PICK j : j = join(m, this) /\ join(j, this) = j
  OBVIOUS
<1>2. HeapBlocks \in Nat /\ HeapBlocks > 0
  BY HeapAssumption
<1> DEFINE g == [i \in 0 .. HeapBlocks |-> IF i = 0 THEN m ELSE j]
<1>3. Rounds(g, m, this)
  <2>1. ASSUME NEW i \in 0 .. HeapBlocks
        PROVE  g[i] = IF i = 0 THEN m ELSE join(g[i - 1], this)
    <3>1. CASE i = 0
      BY <3>1
    <3>2. CASE i # 0
      <4>1. i - 1 \in 0 .. HeapBlocks
        BY <1>2, <3>2
      <4>2. g[i - 1] = IF i - 1 = 0 THEN m ELSE j
        BY <4>1
      <4> QED  BY <1>1, <3>2, <4>2
    <3> QED  BY <3>1, <3>2
  <2> QED  BY <2>1 DEF Rounds
<1> HIDE DEF g
<1> DEFINE r == CHOOSE r : Rounds(r, m, this)
<1>4. merge(m, this) = r[HeapBlocks]
  BY DEF merge, Rounds
<1>5. Rounds(r, m, this)
  BY <1>3
<1> HIDE DEF r
<1> DEFINE T == {i \in 1 .. HeapBlocks : r[i] # j}
<1>6. T = {}
  <2> SUFFICES ASSUME T # {} PROVE FALSE
    OBVIOUS
  <2>1. PICK i \in T : \A y \in T : i <= y
    <3>1. T \subseteq Nat
      OBVIOUS
    <3> HIDE DEF T
    <3> QED  BY <3>1, LeastNat
  <2>2. i \in 1 .. HeapBlocks /\ r[i] = join(r[i - 1], this) /\ r[0] = m
    BY <1>2, <1>5 DEF Rounds
  <2>3. CASE i = 1
    BY <1>1, <2>2, <2>3
  <2>4. CASE i # 1
    <3>1. i - 1 \in 1 .. HeapBlocks /\ i - 1 \notin T
      BY <1>2, <2>1, <2>2, <2>4
    <3> QED  BY <1>1, <2>2, <3>1
  <2> QED  BY <2>3, <2>4
<1>7. HeapBlocks \in 1 .. HeapBlocks
  BY <1>2
<1> QED  BY <1>1, <1>4, <1>6, <1>7

-----------------------------------------------------------------------------
(***************************************************************************)
(* The loops that follow a list.                                           *)
(***************************************************************************)
\* f leads on from the headers in go, and stops at the others.
Walks(f, D, go, nx) == f = [b \in D |-> IF b \in go THEN f[nx[b]] ELSE b]

GoesUp(D, go, nx) ==
  \A b \in go : b \in D /\ nx[b] \in D /\ (b < nx[b] \/ nx[b] \notin go)

\* Links are addresses below the end of the heap.
LEMMA LinksAreNumbers == Links \subseteq 0 .. Top - 1 /\ Blocks \subseteq Links /\ Top \in Nat
BY HeapAssumption DEF Links, Blocks, NullPtr, Top

\* A walk that goes up comes to an end.
LEMMA WalkExists ==
  ASSUME NEW D \in SUBSET Links, NEW go \in SUBSET D, NEW nx, GoesUp(D, go, nx)
  PROVE  \E f : Walks(f, D, go, nx)
<1> DEFINE From(k) == {b \in go : b >= k}
           T == {j \in 0 .. Top : ~ \E f : Walks(f, D, From(Top - j), nx)}
<1>1. Top \in Nat /\ \A b \in D : b \in Nat /\ b < Top
  BY LinksAreNumbers
<1>0. \A b \in go : b \in Nat /\ b < Top
  BY <1>1
<1>2. From(Top - Top) = go
  BY <1>0, <1>1
<1>3. SUFFICES ASSUME T # {} PROVE FALSE
  <2>0. T = {} => \E f : Walks(f, D, From(Top - Top), nx)
    BY <1>1
  <2> QED  BY <1>2, <2>0
<1>4. PICK j \in T : \A y \in T : j <= y
  <2>1. T \subseteq Nat
    OBVIOUS
  <2> HIDE DEF T
  <2> QED  BY <1>3, <2>1, LeastNat
<1>5. j \in 0 .. Top /\ ~ \E f : Walks(f, D, From(Top - j), nx)
  OBVIOUS
<1>6. CASE j = 0
  <2>1. From(Top - j) = {}
    BY <1>0, <1>1, <1>6
  <2>2. Walks([b \in D |-> b], D, {}, nx)
    BY DEF Walks
  <2> QED  BY <1>5, <2>1, <2>2
<1>7. CASE j # 0
  <2> DEFINE k == Top - j
  <2>1. j - 1 \in 0 .. Top /\ j - 1 \notin T
    <3>1. j \in Nat /\ j - 1 \in 0 .. Top /\ ~(j <= j - 1)
      BY <1>1, <1>5, <1>7
    <3> QED  BY <1>4, <3>1
  <2>2. Top - (j - 1) = k + 1 /\ k \in Nat
    BY <1>1, <1>5, <1>7
  <2>3. PICK f : Walks(f, D, From(k + 1), nx)
    BY <2>1, <2>2
  <2> HIDE DEF k, T
  <2>4. CASE k \notin go
    <3>1. From(k) = From(k + 1)
      BY <1>0, <2>2, <2>4
    <3> QED  BY <1>5, <2>3, <3>1 DEF k
  <2>5. CASE k \in go
    <3> DEFINE g == [f EXCEPT ![k] = f[nx[k]]]
    <3>1. /\ DOMAIN f = D
          /\ \A b \in D : f[b] = IF b \in From(k + 1) THEN f[nx[b]] ELSE b
      BY <2>3 DEF Walks
    <3>2. nx[k] \in D /\ k \in D /\ nx[k] # k
      BY <1>1, <2>2, <2>5 DEF GoesUp
    <3>3. ASSUME NEW b \in D
          PROVE  g[b] = IF b \in From(k) THEN g[nx[b]] ELSE b
      <4>1. CASE b = k
        <5>1. g[b] = f[nx[k]] /\ g[nx[k]] = f[nx[k]] /\ b \in From(k)
          BY <1>1, <2>2, <2>5, <3>1, <3>2, <4>1
        <5> QED  BY <4>1, <5>1
      <4>2. CASE b # k
        <5>1. b \in From(k) <=> b \in From(k + 1)
          BY <1>0, <2>2, <4>2
        <5>2. g[b] = f[b]
          BY <3>1, <4>2
        <5>3. CASE b \in From(k + 1)
          <6>1. nx[b] \in D /\ nx[b] # k
            BY <1>1, <2>2, <2>5, <5>3 DEF GoesUp
          <6>2. g[nx[b]] = f[nx[b]]
            BY <3>1, <6>1
          <6> QED  BY <3>1, <5>1, <5>2, <5>3, <6>2
        <5>4. CASE b \notin From(k + 1)
          BY <3>1, <5>1, <5>2, <5>4
        <5> QED  BY <5>3, <5>4
      <4> QED  BY <4>1, <4>2
    <3>4. DOMAIN g = D /\ g = [b \in D |-> g[b]]
      BY <3>1
    <3> HIDE DEF g, From
    <3>5. Walks(g, D, From(k), nx)
      BY <3>3, <3>4 DEF Walks
    <3> QED  BY <1>5, <3>5 DEF k
  <2> QED  BY <2>4, <2>5
<1> QED  BY <1>6, <1>7

\* What holds where it stops and is kept by each step back holds of where a
\* header leads: R relates the headers of S to ends.
LEMMA WalkReaches ==
  ASSUME NEW D \in SUBSET Links, NEW go \in SUBSET D, NEW nx, GoesUp(D, go, nx),
         NEW f, Walks(f, D, go, nx),
         NEW S \in SUBSET D, \A b \in S \cap go : nx[b] \in S,
         NEW R, \A b \in S \ go : <<b, b>> \in R,
         \A b \in S \cap go : \A v : <<nx[b], v>> \in R => <<b, v>> \in R
  PROVE  \A b \in S : <<b, f[b]>> \in R
<1>1. Top \in Nat /\ \A b \in D : b \in Nat /\ b < Top
  BY LinksAreNumbers
<1>0. \A b \in go : b \in Nat /\ b < Top
  BY <1>1
<1>2. \A b \in D : f[b] = IF b \in go THEN f[nx[b]] ELSE b
  BY DEF Walks
<1>3. \A b \in S \ go : <<b, f[b]>> \in R
  BY <1>2
<1> DEFINE T == {j \in 0 .. Top : \E b \in S \cap go : b = Top - j /\ <<b, f[b]>> \notin R}
<1>4. T = {}
  <2> SUFFICES ASSUME T # {} PROVE FALSE
    OBVIOUS
  <2>1. PICK j \in T : \A y \in T : j <= y
    <3>1. T \subseteq Nat
      OBVIOUS
    <3> HIDE DEF T
    <3> QED  BY <3>1, LeastNat
  <2>2. PICK b \in S \cap go : b = Top - j /\ <<b, f[b]>> \notin R
    OBVIOUS
  <2>3. nx[b] \in S /\ f[b] = f[nx[b]] /\ <<nx[b], f[nx[b]]>> \notin R
    BY <1>2, <2>2
  <2>4. nx[b] \in go
    BY <1>3, <2>3
  <2>5. nx[b] \in Nat /\ b \in Nat /\ b < nx[b] /\ nx[b] <= Top
    <3>1. b \in go /\ nx[b] \in go
      BY <2>2, <2>4
    <3>2. b < nx[b]
      BY <3>1 DEF GoesUp
    <3> QED  BY <1>0, <1>1, <3>1, <3>2
  <2>6. Top - nx[b] \in 0 .. Top /\ nx[b] = Top - (Top - nx[b])
    BY <1>1, <2>5
  <2>7. Top - nx[b] \in T
    BY <2>3, <2>4, <2>6
  <2>8. Top - nx[b] < j
    BY <1>1, <2>2, <2>5
  <2>9. j \in Nat /\ Top - nx[b] \in Nat
    BY <1>1, <2>5
  <2>10. j <= Top - nx[b]
    BY <2>1, <2>7
  <2> QED  BY <2>8, <2>9, <2>10
<1>5. ASSUME NEW b \in S \cap go PROVE <<b, f[b]>> \in R
  <2>1. b \in Nat /\ b <= Top
    BY <1>1
  <2>2. Top - b \in 0 .. Top /\ b = Top - (Top - b)
    BY <1>1, <2>1
  <2> QED  BY <1>4, <2>2
<1> QED  BY <1>3, <1>5

\* The layout of the heap, as facts on numbers.
LEMMA HeapFacts ==
  /\ HeapStart \in Nat /\ HeapBlocks \in Nat /\ HeapStart > 0 /\ HeapBlocks > 0
  /\ Top = HeapStart + HeapBlocks /\ NullPtr = 0
  /\ \A b : b \in Blocks <=> b \in Nat /\ HeapStart <= b /\ b < Top
  /\ Links = Blocks \cup {NullPtr} /\ NullPtr \notin Blocks
BY HeapAssumption DEF Links, Blocks, NullPtr, Top

\* The types of the members.
LEMMA MSHFields ==
  ASSUME NEW m \in MSHs
  PROVE  /\ m.head \in [Lists -> Links] /\ m.prev \in [Blocks -> Links]
         /\ m.next \in [Blocks -> Links] /\ m.size \in [Blocks -> Nat]
BY DEF MSHs

\* One assignment to one member.
WithHead(m, b, x) == [m EXCEPT !.head[b] = x]
WithPrev(m, b, x) == [m EXCEPT !.prev[b] = x]
WithNext(m, b, x) == [m EXCEPT !.next[b] = x]
WithSize(m, b, x) == [m EXCEPT !.size[b] = x]

LEMMA SetsHead ==
  ASSUME NEW m \in MSHs, NEW b \in Lists, NEW x \in Links
  PROVE  /\ WithHead(m, b, x) \in MSHs
         /\ WithHead(m, b, x).head = [m.head EXCEPT ![b] = x]
         /\ WithHead(m, b, x).prev = m.prev
         /\ WithHead(m, b, x).next = m.next
         /\ WithHead(m, b, x).size = m.size
BY DEF WithHead, MSHs

LEMMA SetsPrev ==
  ASSUME NEW m \in MSHs, NEW b \in Blocks, NEW x \in Links
  PROVE  /\ WithPrev(m, b, x) \in MSHs
         /\ WithPrev(m, b, x).prev = [m.prev EXCEPT ![b] = x]
         /\ WithPrev(m, b, x).head = m.head
         /\ WithPrev(m, b, x).next = m.next
         /\ WithPrev(m, b, x).size = m.size
BY DEF WithPrev, MSHs

LEMMA SetsNext ==
  ASSUME NEW m \in MSHs, NEW b \in Blocks, NEW x \in Links
  PROVE  /\ WithNext(m, b, x) \in MSHs
         /\ WithNext(m, b, x).next = [m.next EXCEPT ![b] = x]
         /\ WithNext(m, b, x).head = m.head
         /\ WithNext(m, b, x).prev = m.prev
         /\ WithNext(m, b, x).size = m.size
BY DEF WithNext, MSHs

LEMMA SetsSize ==
  ASSUME NEW m \in MSHs, NEW b \in Blocks, NEW x \in Nat
  PROVE  /\ WithSize(m, b, x) \in MSHs
         /\ WithSize(m, b, x).size = [m.size EXCEPT ![b] = x]
         /\ WithSize(m, b, x).head = m.head
         /\ WithSize(m, b, x).prev = m.prev
         /\ WithSize(m, b, x).next = m.next
BY DEF WithSize, MSHs

\* What findBySize finds in the list of S: the first that fits.
FirstFit(m, S, n, v) ==
  \/ v = NullPtr /\ \A c \in S : m.size[c] < n
  \/ v \in S /\ m.size[v] >= n /\ \A c \in S : c < v => m.size[c] < n

\* findBySize finds the first segment that fits, or there is none.
LEMMA FoundBySize ==
  ASSUME NEW m \in MSHs, NEW S \in SUBSET Blocks, Linked(m, "free", S),
         Ascending(m), NEW n \in Nat
  PROVE  FirstFit(m, S, n, findBySize(m, n))
<1> DEFINE go == {b \in Blocks : m.size[b] < n}
           Rec(f) == f = [b \in Blocks \cup {NullPtr} |->
                            IF b # NullPtr /\ m.size[b] < n THEN f[m.next[b]] ELSE b]
           from == CHOOSE f : Rec(f)
           Fits(b, v) == \/ v = NullPtr /\ (b = NullPtr \/ \A c \in S : b <= c => m.size[c] < n)
                         \/ /\ v \in S /\ m.size[v] >= n /\ b \in S /\ b <= v
                            /\ \A c \in S : b <= c /\ c < v => m.size[c] < n
           R == {x \in (S \cup {NullPtr}) \X (S \cup {NullPtr}) : Fits(x[1], x[2])}
<1>1. findBySize(m, n) = from[m.head["free"]]
  BY DEF findBySize
<1>2. Rec(from)
  <2>1. GoesUp(Links, go, m.next)
    BY HeapFacts, MSHFields DEF GoesUp, Ascending
  <2>2. PICK f : Walks(f, Links, go, m.next)
    <3>1. go \in SUBSET Links /\ Links \in SUBSET Links
      BY HeapFacts
    <3> HIDE DEF go
    <3> QED  BY <2>1, <3>1, WalkExists
  <2>3. \A b \in Links : b \in go <=> b # NullPtr /\ m.size[b] < n
    BY HeapFacts
  <2>4. Rec(f)
    BY <2>2, <2>3, HeapFacts DEF Walks
  <2> QED  BY <2>4
<1>3. Walks(from, Links, go, m.next)
  <2>1. \A b \in Links : b \in go <=> b # NullPtr /\ m.size[b] < n
    BY HeapFacts
  <2> HIDE DEF go, from
  <2>2. from = [b \in Links |-> IF b \in go THEN from[m.next[b]] ELSE b]
    BY <1>2, <2>1, HeapFacts
  <2> QED  BY <2>2 DEF Walks
<1> HIDE DEF from
<1>4. \A b \in S : NextIn(S, b, m.next[b]) /\ b \in Nat
  BY HeapFacts DEF Linked
<1> DEFINE SS == S \cup {NullPtr}
<1>5. \A b \in SS \cap go : m.next[b] \in SS
  BY <1>4, HeapFacts DEF NextIn
<1>6. \A b \in SS \ go : <<b, b>> \in R
  BY <1>4, HeapFacts, MSHFields
<1>7. ASSUME NEW b \in SS \cap go, NEW v, <<m.next[b], v>> \in R
      PROVE  <<b, v>> \in R
  <2>1. v \in SS /\ Fits(m.next[b], v)
    BY <1>7
  <2>2. b \in S /\ m.size[b] < n /\ NextIn(S, b, m.next[b])
    BY <1>4, HeapFacts
  <2>3. Fits(b, v)
    BY <1>4, <2>1, <2>2, HeapFacts DEF NextIn
  <2> HIDE DEF Fits
  <2> QED  BY <2>1, <2>2, <2>3
<1>8. \A b \in SS : <<b, from[b]>> \in R
  <2>1. go \in SUBSET Links /\ Links \in SUBSET Links /\ SS \in SUBSET Links
    BY HeapFacts
  <2>2. GoesUp(Links, go, m.next)
    BY HeapFacts, MSHFields DEF GoesUp, Ascending
  <2> HIDE DEF go, R, SS
  <2> QED  BY <1>3, <1>5, <1>6, <1>7, <2>1, <2>2, WalkReaches
<1>9. PICK h : h = m.head["free"]
  OBVIOUS
<1>10. PICK v : v = from[h]
  OBVIOUS
<1>11. NextIn(S, NullPtr, h) /\ h \in SS
  BY <1>9 DEF Linked, NextIn
<1>12. Fits(h, v)
  BY <1>8, <1>10, <1>11
<1>13. FirstFit(m, S, n, v)
  BY <1>4, <1>11, <1>12, HeapFacts DEF NextIn, FirstFit
<1> QED  BY <1>1, <1>9, <1>10, <1>13

\* What findByPointer finds: the last that is not behind other.
LastUpTo(S, other, v) ==
  \/ v = NullPtr /\ \A c \in S : other < c
  \/ v \in S /\ v <= other /\ \A c \in S : c <= v \/ other < c

\* findByPointer finds the last header up to an address, or there is none.
LEMMA FoundByPointer ==
  ASSUME NEW m \in MSHs, NEW l \in Lists, NEW S \in SUBSET Blocks, Linked(m, l, S),
         Ascending(m), NEW other \in Nat
  PROVE  LastUpTo(S, other, findByPointer(m, l, other))
<1> DEFINE Goes(b) == m.next[b] # NullPtr /\ m.next[b] <= other
           go == {b \in Blocks : Goes(b)}
           Rec(f) == f = [b \in Blocks |-> IF Goes(b) THEN f[m.next[b]] ELSE b]
           from == CHOOSE f : Rec(f)
           Last(b, v) == b <= other => v <= other /\ \A c \in S : c <= v \/ other < c
           R == {x \in S \X S : Last(x[1], x[2])}
<1>1. \A b : lastUpTo(m, b, other) = from[b]
  BY DEF lastUpTo
<1>2. GoesUp(Blocks, go, m.next)
  BY HeapFacts, MSHFields DEF GoesUp, Ascending
<1>3. go \in SUBSET Blocks /\ Blocks \in SUBSET Links
  BY HeapFacts
<1>4. Rec(from)
  <2>1. PICK f : Walks(f, Blocks, go, m.next)
    <3> HIDE DEF go
    <3> QED  BY <1>2, <1>3, WalkExists
  <2>2. Rec(f)
    BY <2>1 DEF Walks
  <2> QED  BY <2>2
<1>5. Walks(from, Blocks, go, m.next)
  BY <1>4 DEF Walks
<1> HIDE DEF from
<1>6. \A b \in S : NextIn(S, b, m.next[b]) /\ b \in Nat
  BY HeapFacts DEF Linked
<1>7. \A b \in S \cap go : m.next[b] \in S
  BY <1>6, HeapFacts DEF NextIn
<1>8. \A b \in S \ go : <<b, b>> \in R
  <2> SUFFICES ASSUME NEW b \in S \ go, b <= other, NEW c \in S
               PROVE  c <= b \/ other < c
    OBVIOUS
  <2>1. ~Goes(b) /\ NextIn(S, b, m.next[b])
    BY <1>6
  <2>2. PICK n : n = m.next[b]
    OBVIOUS
  <2>3. n \in Nat /\ c \in Nat /\ b \in Nat
    BY <1>6, <2>2, HeapFacts, MSHFields
  <2>4. n = NullPtr \/ other < n
    BY <2>1, <2>2, <2>3
  <2>5. NextIn(S, b, n)
    BY <2>1, <2>2
  <2> QED  BY <2>3, <2>4, <2>5, HeapFacts DEF NextIn
<1>9. ASSUME NEW b \in S \cap go, NEW v, <<m.next[b], v>> \in R
      PROVE  <<b, v>> \in R
  BY <1>9
<1>10. \A b \in S : <<b, from[b]>> \in R
  <2> HIDE DEF go, R
  <2> QED  BY <1>2, <1>3, <1>5, <1>7, <1>8, <1>9, WalkReaches
<1>11. PICK h : h = m.head[l] /\ NextIn(S, NullPtr, h)
  BY DEF Linked
<1>12. CASE h # NullPtr /\ h <= other
  <2>1. h \in S
    BY <1>11, <1>12 DEF NextIn
  <2>2. PICK v : v = from[h] /\ v \in S /\ Last(h, v)
    BY <1>10, <2>1
  <2>3. findByPointer(m, l, other) = v
    BY <1>1, <1>11, <1>12, <2>2 DEF findByPointer
  <2> QED  BY <1>12, <2>2, <2>3 DEF LastUpTo
<1>13. CASE ~(h # NullPtr /\ h <= other)
  <2>1. findByPointer(m, l, other) = NullPtr
    BY <1>11, <1>13 DEF findByPointer
  <2>2. \A c \in S : other < c
    BY <1>6, <1>11, <1>13, HeapFacts DEF NextIn
  <2> QED  BY <2>1, <2>2 DEF LastUpTo
<1> QED  BY <1>12, <1>13

-----------------------------------------------------------------------------
(***************************************************************************)
(* What the methods of MSH do to the links.                                *)
(***************************************************************************)
\* Nothing but the list l and the headers of S has changed.
Untouched(m, w, l, S) ==
  /\ \A o \in Lists : o # l => w.head[o] = m.head[o]
  /\ \A b \in Blocks : b \notin S => w.next[b] = m.next[b] /\ w.prev[b] = m.prev[b]

\* A list that is not touched stays linked.
LEMMA OtherList ==
  ASSUME NEW m, NEW w, NEW l \in Lists, NEW S, Untouched(m, w, l, S),
         NEW o \in Lists, o # l, NEW O \in SUBSET Blocks, O \cap S = {}, Linked(m, o, O)
  PROVE  Linked(w, o, O)
<1>1. w.head[o] = m.head[o]
  BY DEF Untouched
<1>2. \A b \in O : w.next[b] = m.next[b] /\ w.prev[b] = m.prev[b]
  BY DEF Untouched
<1> QED  BY <1>1, <1>2 DEF Linked

\* Links to S are numbers, and none is the null pointer.
Numbers(S) == \A b \in S : b \in Nat /\ b > 0

\* One header less, and one more, in the ascending order.
LEMMA OneLess ==
  ASSUME NEW S, Numbers(S), NEW x \in S, NEW p, NEW n, NextIn(S, x, n), PrevIn(S, x, p),
         NEW T, T = S \ {x}
  PROVE  /\ NextIn(T, p, n)
         /\ n # NullPtr => PrevIn(T, n, p)
         /\ \A b, k : b \in S \cup {NullPtr} /\ b # x /\ b # p /\ NextIn(S, b, k)
                        => NextIn(T, b, k)
         /\ \A b, k : b \in T /\ b # n /\ PrevIn(S, b, k) => PrevIn(T, b, k)
<1>1. /\ \A b \in S : b \in Nat /\ b > 0
      /\ p \in Nat /\ n \in Nat /\ NullPtr = 0 /\ x \in Nat
      /\ p # NullPtr => p \in S /\ p < x
      /\ n # NullPtr => n \in S /\ x < n
      /\ \A b \in T : b \in S /\ b # x
  BY DEF Numbers, NextIn, PrevIn, NullPtr
<1>2. \A c \in T : c <= p \/ (n # NullPtr /\ n <= c)
  BY <1>1 DEF NextIn, PrevIn
<1>3. NextIn(T, p, n)
  BY <1>1, <1>2 DEF NextIn
<1>4. n # NullPtr => PrevIn(T, n, p)
  BY <1>1, <1>2 DEF PrevIn
<1>5. ASSUME NEW b, NEW k, b \in S \cup {NullPtr}, b # x, b # p, NextIn(S, b, k)
      PROVE  NextIn(T, b, k)
  <2>1. k # x
    <3> SUFFICES ASSUME k = x PROVE FALSE
      OBVIOUS
    <3>1. b < x /\ b \in Nat /\ \A c \in S : c <= b \/ x <= c
      BY <1>1, <1>5 DEF NextIn
    <3>2. b <= p
      <4>1. CASE b = NullPtr
        BY <1>1, <4>1
      <4>2. CASE b \in S
        BY <1>1, <3>1, <4>2 DEF PrevIn
      <4> QED  BY <1>5, <4>1, <4>2
    <3>3. p \in S
      BY <1>1, <1>5, <3>1, <3>2
    <3> QED  BY <1>1, <1>5, <3>1, <3>2, <3>3
  <2> QED  BY <1>1, <1>5, <2>1 DEF NextIn
<1>6. ASSUME NEW b, NEW k, b \in T, b # n, PrevIn(S, b, k)
      PROVE  PrevIn(T, b, k)
  <2>1. k # x
    <3> SUFFICES ASSUME k = x PROVE FALSE
      OBVIOUS
    <3>1. x < b /\ b \in Nat /\ b \in S /\ \A c \in S : c <= x \/ b <= c
      BY <1>1, <1>6 DEF PrevIn
    <3>2. n \in S /\ n <= b
      BY <1>1, <3>1 DEF NextIn
    <3> QED  BY <1>1, <1>6, <3>1, <3>2
  <2> QED  BY <1>1, <1>6, <2>1 DEF PrevIn
<1> QED  BY <1>3, <1>4, <1>5, <1>6

\* One header more: it comes after v, and before what came after v.
LEMMA OneMore ==
  ASSUME NEW S, Numbers(S), NEW x \in Nat, x \notin S, x > 0, NEW v, LastUpTo(S, x, v),
         NEW n, NextIn(S, v, n), NEW T, T = S \cup {x}
  PROVE  /\ NextIn(T, v, x) /\ NextIn(T, x, n) /\ PrevIn(T, x, v)
         /\ n # NullPtr => PrevIn(T, n, x)
         /\ \A b, k : b \in S \cup {NullPtr} /\ b # v /\ NextIn(S, b, k) => NextIn(T, b, k)
         /\ \A b, k : b \in S /\ b # n /\ PrevIn(S, b, k) => PrevIn(T, b, k)
<1>1. /\ \A b \in S : b \in Nat /\ b > 0 /\ b # x
      /\ v \in Nat /\ n \in Nat /\ NullPtr = 0 /\ v < x
      /\ v # NullPtr => v \in S
      /\ n # NullPtr => n \in S /\ x < n
      /\ \A b \in T : b \in S \/ b = x
  BY DEF Numbers, NextIn, LastUpTo, NullPtr
<1>2. \A c \in S : c <= v \/ (n # NullPtr /\ n <= c)
  BY <1>1 DEF NextIn
<1>3. NextIn(T, v, x) /\ NextIn(T, x, n) /\ PrevIn(T, x, v)
  BY <1>1, <1>2 DEF NextIn, PrevIn
<1>4. n # NullPtr => PrevIn(T, n, x)
  BY <1>1, <1>2 DEF PrevIn
<1>5. ASSUME NEW b, NEW k, b \in S \cup {NullPtr}, b # v, NextIn(S, b, k)
      PROVE  NextIn(T, b, k)
  <2>1. b \in Nat
    BY <1>1, <1>5
  <2>2. CASE b < v
    <3>1. v \in S /\ k # NullPtr /\ k \in S /\ k <= v
      BY <1>1, <1>5, <2>1, <2>2 DEF NextIn
    <3> QED  BY <1>1, <1>5, <2>1, <3>1 DEF NextIn
  <2>3. CASE v < b
    <3>1. x < b
      BY <1>1, <1>2, <1>5, <2>1, <2>3
    <3> QED  BY <1>1, <1>5, <2>1, <3>1 DEF NextIn
  <2> QED  BY <1>1, <1>5, <2>1, <2>2, <2>3
<1>6. ASSUME NEW b, NEW k, b \in S, b # n, PrevIn(S, b, k)
      PROVE  PrevIn(T, b, k)
  <2>1. b \in Nat
    BY <1>1, <1>6
  <2>2. CASE b <= v
    BY <1>1, <1>6, <2>1, <2>2 DEF PrevIn
  <2>3. CASE v < b
    <3>1. n \in S /\ n < b
      BY <1>1, <1>2, <1>6, <2>1, <2>3
    <3>2. k # NullPtr /\ n <= k
      BY <1>1, <1>6, <2>1, <3>1 DEF PrevIn
    <3>3. k \in S /\ k < b /\ \A c \in S : c <= k \/ b <= c
      BY <1>6, <3>2 DEF PrevIn
    <3>4. k \in T /\ x <= k
      BY <1>1, <3>1, <3>2, <3>3
    <3>5. \A c \in T : c <= k \/ b <= c
      BY <1>1, <3>3, <3>4
    <3> QED  BY <3>3, <3>4, <3>5 DEF PrevIn
  <2> QED  BY <1>1, <1>6, <2>1, <2>2, <2>3
<1> QED  BY <1>3, <1>4, <1>5, <1>6

\* remove leaves the list linked, one header shorter.
LEMMA RemoveLinks ==
  ASSUME NEW m \in MSHs, NEW l \in Lists, NEW S \in SUBSET Blocks, Linked(m, l, S),
         Ascending(m), NEW this \in S
  PROVE  LET w == remove(m, l, this)
         IN  /\ w \in MSHs /\ w.size = m.size
             /\ Linked(w, l, S \ {this}) /\ Ascending(w) /\ Untouched(m, w, l, S)
<1> DEFINE w == remove(m, l, this)
<1>1. PICK h, p, n : h = m.head[l] /\ p = m.prev[this] /\ n = m.next[this]
  OBVIOUS
<1>2. NextIn(S, NullPtr, h) /\ NextIn(S, this, n) /\ PrevIn(S, this, p)
  BY <1>1 DEF Linked
<1>3. /\ \A b \in S : b \in Nat /\ b > 0
      /\ this \in Blocks /\ p \in Links /\ n \in Links /\ h \in S
  BY <1>2, HeapFacts DEF NextIn, PrevIn
<1>4. /\ h = this <=> p = NullPtr
      /\ p # NullPtr => p \in S /\ p < this
      /\ n # NullPtr => n \in S /\ this < n
  BY <1>2, <1>3, HeapFacts DEF NextIn, PrevIn
<1>0. PICK before, linked, cut :
        /\ before = IF h = this THEN WithHead(m, l, n) ELSE WithNext(m, p, n)
        /\ linked = IF n = NullPtr THEN before
                    ELSE WithPrev(before, n, IF h = this THEN NullPtr ELSE p)
        /\ cut = WithPrev(linked, this, NullPtr)
  OBVIOUS
<1>16. w = WithNext(cut, this, NullPtr)
  BY <1>0, <1>1 DEF remove, WithHead, WithPrev, WithNext
<1> HIDE DEF w
<1>17. /\ NullPtr \in Links /\ p # this /\ n # this
       /\ p # NullPtr => p \in Blocks
       /\ n # NullPtr => n \in Blocks
  BY <1>3, <1>4, HeapFacts
<1>18. /\ before \in MSHs /\ before.size = m.size /\ before.prev = m.prev
       /\ before.head = [m.head EXCEPT ![l] = IF p = NullPtr THEN n ELSE h]
       /\ before.next = IF p = NullPtr THEN m.next ELSE [m.next EXCEPT ![p] = n]
  <2>1. CASE p = NullPtr
    BY <1>0, <1>3, <1>4, <2>1, SetsHead
  <2>2. CASE p # NullPtr
    <3>1. m.head = [m.head EXCEPT ![l] = h]
      BY <1>1, MSHFields
    <3> QED  BY <1>0, <1>3, <1>4, <1>17, <2>2, <3>1, SetsNext
  <2> QED  BY <2>1, <2>2
<1>19. /\ linked \in MSHs /\ linked.size = before.size /\ linked.head = before.head
       /\ linked.next = before.next
       /\ linked.prev = IF n = NullPtr THEN m.prev ELSE [m.prev EXCEPT ![n] = p]
  <2>1. CASE n = NullPtr
    BY <1>0, <1>18, <2>1
  <2>2. CASE n # NullPtr
    <3>1. linked = WithPrev(before, n, p)
      BY <1>0, <1>4, <2>2
    <3> QED  BY <1>3, <1>17, <1>18, <2>2, <3>1, SetsPrev
  <2> QED  BY <2>1, <2>2
<1>20. /\ cut \in MSHs /\ cut.size = m.size /\ cut.head = before.head
       /\ cut.next = before.next /\ cut.prev = [linked.prev EXCEPT ![this] = NullPtr]
  BY <1>0, <1>3, <1>17, <1>18, <1>19, SetsPrev
<1>5. /\ w \in MSHs /\ w.size = m.size /\ w.head = before.head
      /\ w.prev = [linked.prev EXCEPT ![this] = NullPtr]
      /\ w.next = [before.next EXCEPT ![this] = NullPtr]
  BY <1>3, <1>16, <1>17, <1>20, SetsNext
<1>6. /\ w.head = [m.head EXCEPT ![l] = IF p = NullPtr THEN n ELSE h]
      /\ \A b \in Blocks : w.next[b] = IF b = this THEN NullPtr
                                       ELSE IF b = p THEN n ELSE m.next[b]
      /\ \A b \in Blocks : w.prev[b] = IF b = this THEN NullPtr
                                       ELSE IF b = n THEN p ELSE m.prev[b]
  <2>1. ASSUME NEW b \in Blocks
        PROVE  w.next[b] = IF b = this THEN NullPtr ELSE IF b = p THEN n ELSE m.next[b]
    BY <1>5, <1>17, <1>18, MSHFields, HeapFacts
  <2>2. ASSUME NEW b \in Blocks
        PROVE  w.prev[b] = IF b = this THEN NullPtr ELSE IF b = n THEN p ELSE m.prev[b]
    BY <1>5, <1>17, <1>19, MSHFields, HeapFacts
  <2> QED  BY <1>5, <1>18, <2>1, <2>2
<1>7. Ascending(w)
  BY <1>3, <1>4, <1>6, HeapFacts DEF Ascending
<1>8. Untouched(m, w, l, S)
  BY <1>1, <1>3, <1>4, <1>6, MSHFields, HeapFacts DEF Untouched
<1> DEFINE T == S \ {this}
<1>9. Numbers(S) /\ T = S \ {this}
  BY <1>3 DEF Numbers
<1> HIDE DEF T
<1>21. /\ NextIn(T, p, n)
       /\ n # NullPtr => PrevIn(T, n, p)
       /\ \A b, k : b \in S \cup {NullPtr} /\ b # this /\ b # p /\ NextIn(S, b, k)
                      => NextIn(T, b, k)
       /\ \A b, k : b \in T /\ b # n /\ PrevIn(S, b, k) => PrevIn(T, b, k)
  BY <1>2, <1>9, OneLess
<1>10. NextIn(T, NullPtr, w.head[l])
  <2>1. CASE p = NullPtr
    <3>1. w.head[l] = n
      BY <1>6, <2>1, MSHFields
    <3> QED  BY <1>21, <2>1, <3>1
  <2>2. CASE p # NullPtr
    <3>1. w.head[l] = h /\ this # NullPtr
      BY <1>3, <1>6, <2>2, MSHFields, HeapFacts
    <3> QED  BY <1>2, <1>21, <2>2, <3>1
  <2> QED  BY <2>1, <2>2
<1>11. ASSUME NEW b \in T PROVE NextIn(T, b, w.next[b]) /\ PrevIn(T, b, w.prev[b])
  <2>1. /\ b \in S /\ b # this /\ b \in Blocks
        /\ NextIn(S, b, m.next[b]) /\ PrevIn(S, b, m.prev[b])
    BY <1>9 DEF Linked
  <2>2. NextIn(T, b, w.next[b])
    <3>1. CASE b = p
      BY <1>6, <1>21, <2>1, <3>1
    <3>2. CASE b # p
      BY <1>6, <1>21, <2>1, <3>2
    <3> QED  BY <3>1, <3>2
  <2>3. PrevIn(T, b, w.prev[b])
    <3>1. CASE b = n
      <4>1. w.prev[b] = p /\ n # NullPtr
        BY <1>6, <2>1, <3>1, HeapFacts
      <4> QED  BY <1>21, <3>1, <4>1
    <3>2. CASE b # n
      BY <1>6, <1>21, <2>1, <3>2
    <3> QED  BY <3>1, <3>2
  <2> QED  BY <2>2, <2>3
<1>12. Linked(w, l, T)
  BY <1>10, <1>11 DEF Linked
<1> QED  BY <1>5, <1>7, <1>8, <1>9, <1>12 DEF w

\* The insertion leaves the list linked, one header longer.
LEMMA InsertLinks ==
  ASSUME NEW m \in MSHs, NEW l \in Lists, NEW S \in SUBSET Blocks, Linked(m, l, S),
         Ascending(m), NEW x \in Blocks, x \notin S
  PROVE  LET w == insert(m, l, x)
         IN  /\ w \in MSHs /\ w.size = m.size
             /\ Linked(w, l, S \cup {x}) /\ Ascending(w)
             /\ Untouched(m, w, l, S \cup {x})
<1> DEFINE w == insert(m, l, x)
           T == S \cup {x}
<1>1. PICK v, h, n : /\ v = findByPointer(m, l, x) /\ h = m.head[l]
                     /\ n = IF v = NullPtr THEN h ELSE m.next[v]
  OBVIOUS
<1>2. x \in Nat /\ x > 0 /\ Numbers(S) /\ T = S \cup {x}
  BY HeapFacts DEF Numbers
<1>3. LastUpTo(S, x, v)
  BY <1>1, <1>2, FoundByPointer
<1>4. v # NullPtr => v \in S /\ v < x /\ v \in Blocks
  <2> SUFFICES ASSUME v # NullPtr PROVE v \in S /\ v < x /\ v \in Blocks
    OBVIOUS
  <2>1. v \in S /\ v <= x
    BY <1>3 DEF LastUpTo
  <2>2. v \in Blocks /\ v # x /\ v \in Nat
    BY <1>2, <2>1 DEF Numbers
  <2> QED  BY <1>2, <2>1, <2>2
<1>5. NextIn(S, v, n) /\ NextIn(S, NullPtr, h)
  BY <1>1, <1>4 DEF Linked
<1>6. n # NullPtr => n \in S /\ n \in Blocks /\ x < n
  <2> SUFFICES ASSUME n # NullPtr PROVE n \in S /\ n \in Blocks /\ x < n
    OBVIOUS
  <2>1. n \in S /\ v < n /\ n \in Nat
    BY <1>2, <1>5 DEF NextIn, Numbers
  <2>2. v \in Nat
    BY <1>2, <1>4, HeapFacts
  <2>3. n <= v \/ x < n
    BY <1>3, <2>1 DEF LastUpTo
  <2> QED  BY <2>1, <2>2, <2>3
<1>7. n \in Links /\ h \in Links /\ v \in Links
  BY <1>1, <1>4, <1>6, MSHFields, HeapFacts
<1>0. PICK up, down, linked :
        /\ up = WithPrev(m, x, v)
        /\ down = WithNext(up, x, n)
        /\ linked = IF v = NullPtr THEN WithHead(down, l, x) ELSE WithNext(down, v, x)
  OBVIOUS
<1>16. w = IF n = NullPtr THEN linked ELSE WithPrev(linked, n, x)
  <2>1. CASE v = NullPtr
    BY <1>0, <1>1, <2>1 DEF insert, insertAsHead, WithHead, WithPrev, WithNext
  <2>2. CASE v # NullPtr
    BY <1>0, <1>1, <2>2 DEF insert, insertAfter, WithPrev, WithNext
  <2> QED  BY <2>1, <2>2
<1> HIDE DEF w, T
<1>17. /\ x \in Links /\ v # x /\ n # x /\ NullPtr \notin Blocks
       /\ v # NullPtr => v \in Blocks
       /\ n # NullPtr => n \in Blocks
  BY <1>2, <1>4, <1>6, HeapFacts
<1>18. /\ up \in MSHs /\ up.size = m.size /\ up.head = m.head /\ up.next = m.next
       /\ up.prev = [m.prev EXCEPT ![x] = v]
  BY <1>0, <1>7, SetsPrev
<1>19. /\ down \in MSHs /\ down.size = m.size /\ down.head = m.head
       /\ down.next = [m.next EXCEPT ![x] = n] /\ down.prev = up.prev
  BY <1>0, <1>7, <1>18, SetsNext
<1>20. /\ linked \in MSHs /\ linked.size = m.size /\ linked.prev = up.prev
       /\ linked.head = IF v = NullPtr THEN [m.head EXCEPT ![l] = x] ELSE m.head
       /\ linked.next = IF v = NullPtr THEN down.next ELSE [down.next EXCEPT ![v] = x]
  <2>1. CASE v = NullPtr
    BY <1>0, <1>17, <1>19, <2>1, SetsHead
  <2>2. CASE v # NullPtr
    BY <1>0, <1>17, <1>19, <2>2, SetsNext
  <2> QED  BY <2>1, <2>2
<1>8. /\ w \in MSHs /\ w.size = m.size /\ w.head = linked.head /\ w.next = linked.next
      /\ w.prev = IF n = NullPtr THEN up.prev ELSE [up.prev EXCEPT ![n] = x]
  <2>1. CASE n = NullPtr
    BY <1>16, <1>20, <2>1
  <2>2. CASE n # NullPtr
    BY <1>16, <1>17, <1>20, <2>2, SetsPrev
  <2> QED  BY <2>1, <2>2
<1>9. /\ w.head = IF v = NullPtr THEN [m.head EXCEPT ![l] = x] ELSE m.head
      /\ \A b \in Blocks : w.next[b] = IF b = x THEN n ELSE IF b = v THEN x ELSE m.next[b]
      /\ \A b \in Blocks : w.prev[b] = IF b = x THEN v ELSE IF b = n THEN x ELSE m.prev[b]
  <2>1. ASSUME NEW b \in Blocks
        PROVE  w.next[b] = IF b = x THEN n ELSE IF b = v THEN x ELSE m.next[b]
    BY <1>8, <1>17, <1>19, <1>20, MSHFields
  <2>2. ASSUME NEW b \in Blocks
        PROVE  w.prev[b] = IF b = x THEN v ELSE IF b = n THEN x ELSE m.prev[b]
    BY <1>8, <1>17, <1>18, MSHFields
  <2> QED  BY <1>8, <1>20, <2>1, <2>2
<1>10. Ascending(w)
  BY <1>2, <1>4, <1>6, <1>9, HeapFacts DEF Ascending
<1>11. Untouched(m, w, l, T)
  BY <1>2, <1>4, <1>6, <1>9, MSHFields, HeapFacts DEF Untouched
<1>21. /\ NextIn(T, v, x) /\ NextIn(T, x, n) /\ PrevIn(T, x, v)
       /\ n # NullPtr => PrevIn(T, n, x)
       /\ \A b, k : b \in S \cup {NullPtr} /\ b # v /\ NextIn(S, b, k) => NextIn(T, b, k)
       /\ \A b, k : b \in S /\ b # n /\ PrevIn(S, b, k) => PrevIn(T, b, k)
  BY <1>2, <1>3, <1>5, OneMore
<1>12. NextIn(T, NullPtr, w.head[l])
  <2>1. CASE v = NullPtr
    <3>1. w.head[l] = x
      BY <1>9, <2>1, MSHFields
    <3> QED  BY <1>5, <1>21, <2>1, <3>1
  <2>2. CASE v # NullPtr
    <3>1. w.head[l] = h
      BY <1>1, <1>9, <2>2
    <3> QED  BY <1>5, <1>21, <2>2, <3>1
  <2> QED  BY <2>1, <2>2
<1>13. ASSUME NEW b \in T PROVE NextIn(T, b, w.next[b]) /\ PrevIn(T, b, w.prev[b])
  <2>1. CASE b = x
    <3>1. w.next[b] = n /\ w.prev[b] = v
      BY <1>9, <2>1
    <3> QED  BY <1>5, <1>21, <2>1, <3>1
  <2>2. CASE b # x
    <3>1. /\ b \in S /\ b \in Blocks
          /\ NextIn(S, b, m.next[b]) /\ PrevIn(S, b, m.prev[b])
      BY <1>2, <2>2 DEF Linked
    <3>2. NextIn(T, b, w.next[b])
      <4>1. CASE b = v
        BY <1>9, <1>21, <2>2, <3>1, <4>1
      <4>2. CASE b # v
        BY <1>9, <1>21, <2>2, <3>1, <4>2
      <4> QED  BY <4>1, <4>2
    <3>3. PrevIn(T, b, w.prev[b])
      <4>1. CASE b = n
        <5>1. w.prev[b] = x /\ n # NullPtr
          BY <1>9, <2>2, <3>1, <4>1, HeapFacts
        <5> QED  BY <1>5, <1>21, <4>1, <5>1
      <4>2. CASE b # n
        BY <1>9, <1>21, <2>2, <3>1, <4>2
      <4> QED  BY <4>1, <4>2
    <3> QED  BY <3>2, <3>3
  <2> QED  BY <2>1, <2>2
<1>14. Linked(w, l, T)
  BY <1>12, <1>13 DEF Linked
<1> QED  BY <1>8, <1>10, <1>11, <1>14 DEF w, T

\* The header this of S can be split at new.
SplitsAt(m, S, this, by, new) ==
  /\ by \in Nat /\ by > 0 /\ by < m.size[this] /\ new = this + by
  /\ \A c \in S : c <= this \/ new < c

\* reduce puts the new header where the old one was in the free list.
LEMMA ReduceLinks ==
  ASSUME NEW m \in MSHs, NEW S \in SUBSET Blocks, Linked(m, "free", S), Ascending(m),
         NEW this \in S, NEW by, NEW new \in Blocks, SplitsAt(m, S, this, by, new)
  PROVE  LET w == reduce(m, this, by)
         IN  /\ w \in MSHs
             /\ \A b \in Blocks : w.size[b] = IF b = this THEN by
                                              ELSE IF b = new THEN m.size[this] - by
                                              ELSE m.size[b]
             /\ Linked(w, "free", (S \ {this}) \cup {new}) /\ Ascending(w)
             /\ Untouched(m, w, "free", S \cup {new})
<1> DEFINE w == reduce(m, this, by)
           U == S \ {this}
           T == U \cup {new}
<1>1. PICK h, p, n : h = m.head["free"] /\ p = m.prev[this] /\ n = m.next[this]
  OBVIOUS
<1>0. PICK z : z = m.size[this] /\ z \in Nat /\ by < z /\ by \in Nat
  BY MSHFields DEF SplitsAt
<1>2. NextIn(S, NullPtr, h) /\ NextIn(S, this, n) /\ PrevIn(S, this, p)
  BY <1>1 DEF Linked
<1>18. new = this + by
  BY DEF SplitsAt
<1> HIDE DEF w
<1>17. Numbers(U) /\ U = S \ {this} /\ T = U \cup {new}
  BY HeapFacts DEF Numbers
<1> HIDE DEF U, T
<1>3. /\ Numbers(S) /\ this \in Nat /\ new \in Nat /\ this < new
      /\ this \in Blocks /\ new \notin S /\ new > 0 /\ h \in S
      /\ \A c \in S : c \in Nat /\ (c <= this \/ new < c)
  <2>1. \A c \in S : c \in Blocks /\ c \in Nat /\ c > 0
    BY HeapFacts
  <2>2. new = this + by /\ by > 0 /\ by \in Nat /\ \A c \in S : c <= this \/ new < c
    BY DEF SplitsAt
  <2>3. this < new /\ this \in Nat /\ new \in Nat /\ new > 0
    BY <2>1, <2>2
  <2>4. new \notin S
    BY <2>2, <2>3
  <2>5. h \in S
    BY <1>2, <2>1 DEF NextIn, NullPtr
  <2> QED  BY <2>1, <2>2, <2>3, <2>4, <2>5 DEF Numbers
<1>4. /\ h = this <=> p = NullPtr
      /\ p # NullPtr => p \in S /\ p < this /\ p \in Blocks /\ p # this
      /\ n # NullPtr => n \in S /\ new < n /\ n \in Blocks /\ n # this
  <2>1. \A b \in S : b \in Nat /\ b > 0 /\ b \in Blocks
    BY <1>3 DEF Numbers
  <2>2. h = this <=> p = NullPtr
    <3>1. h <= this /\ h \in Nat /\ this \in Nat
      BY <1>2, <1>3, <2>1, HeapFacts DEF NextIn
    <3>2. h = this => p = NullPtr
      <4> SUFFICES ASSUME h = this, p # NullPtr PROVE FALSE
        OBVIOUS
      <4>1. p \in S /\ p < this
        BY <1>2 DEF PrevIn
      <4>2. h <= p /\ p \in Nat
        BY <1>2, <2>1, <4>1, HeapFacts DEF NextIn
      <4> QED  BY <3>1, <4>1, <4>2
    <3>3. p = NullPtr => this <= h
      BY <1>2, <1>3, HeapFacts DEF PrevIn
    <3> QED  BY <3>1, <3>2, <3>3
  <2>3. p # NullPtr => p \in S /\ p < this
    BY <1>2 DEF PrevIn
  <2>4. n # NullPtr => n \in S /\ this < n
    BY <1>2 DEF NextIn
  <2>5. n # NullPtr => new < n
    <3> SUFFICES ASSUME n # NullPtr PROVE new < n
      OBVIOUS
    <3>1. n \in S /\ this < n
      BY <2>4
    <3>2. n <= this \/ new < n
      BY <1>3, <3>1
    <3>3. n \in Nat
      BY <2>1, <3>1
    <3> QED  BY <1>3, <3>1, <3>2, <3>3
  <2>6. p # NullPtr => p \in Blocks /\ p # this
    <3> SUFFICES ASSUME p # NullPtr PROVE p \in Blocks /\ p # this
      OBVIOUS
    <3>1. p \in S /\ p < this
      BY <2>3
    <3>2. p \in Nat /\ p \in Blocks /\ this \in Nat
      BY <2>1, <3>1
    <3> QED  BY <3>1, <3>2
  <2>7. n # NullPtr => n \in Blocks /\ n # this
    <3> SUFFICES ASSUME n # NullPtr PROVE n \in Blocks /\ n # this
      OBVIOUS
    <3>1. n \in S /\ this < n
      BY <2>4
    <3>2. n \in Nat /\ n \in Blocks /\ this \in Nat
      BY <2>1, <3>1
    <3> QED  BY <3>1, <3>2
  <2> QED  BY <2>2, <2>3, <2>4, <2>5, <2>6, <2>7
<1>5. p \in Links /\ n \in Links /\ h \in Links /\ p # new /\ n # new /\ "free" \in Lists
  BY <1>1, <1>3, <1>4, MSHFields, HeapFacts DEF Lists
<1>6. z - by \in Nat /\ ~(z <= by)
  BY <1>0
<1> DEFINE sizes  == WithSize(WithSize(m, new, z - by), this, by)
           split  == WithNext(WithPrev(sizes, new, p), new, n)
           before == IF h = this THEN WithHead(split, "free", new)
                     ELSE WithNext(split, p, new)
           linked == IF n = NullPtr THEN before ELSE WithPrev(before, n, new)
           cut    == WithPrev(linked, this, NullPtr)
<1>19. /\ new \in Links /\ NullPtr \in Links /\ NullPtr \notin Blocks /\ this # new
       /\ p # NullPtr => p \in Blocks /\ p # this /\ p # new
       /\ n # NullPtr => n \in Blocks /\ n # this /\ n # new
  BY <1>3, <1>4, <1>5, HeapFacts
<1>20. /\ sizes \in MSHs /\ sizes.head = m.head /\ sizes.prev = m.prev /\ sizes.next = m.next
       /\ sizes.size = [[m.size EXCEPT ![new] = z - by] EXCEPT ![this] = by]
  <2> DEFINE u == WithSize(m, new, z - by)
  <2>1. /\ u \in MSHs /\ u.head = m.head /\ u.prev = m.prev /\ u.next = m.next
        /\ u.size = [m.size EXCEPT ![new] = z - by]
    BY <1>6, SetsSize
  <2>2. sizes = WithSize(u, this, by)
    OBVIOUS
  <2> HIDE DEF u, sizes
  <2> QED  BY <1>0, <1>3, <2>1, <2>2, SetsSize
<1> HIDE DEF sizes
<1>21. /\ split \in MSHs /\ split.size = sizes.size /\ split.head = m.head
       /\ split.prev = [m.prev EXCEPT ![new] = p]
       /\ split.next = [m.next EXCEPT ![new] = n]
  <2> DEFINE u == WithPrev(sizes, new, p)
  <2>1. /\ u \in MSHs /\ u.head = m.head /\ u.next = m.next /\ u.size = sizes.size
        /\ u.prev = [m.prev EXCEPT ![new] = p]
    BY <1>5, <1>20, SetsPrev
  <2>2. split = WithNext(u, new, n)
    OBVIOUS
  <2> HIDE DEF u, split
  <2> QED  BY <1>5, <2>1, <2>2, SetsNext
<1>22. split.prev[new] = p /\ split.next[new] = n
  BY <1>21, MSHFields
<1> HIDE DEF split
<1>23. /\ before \in MSHs /\ before.size = sizes.size /\ before.prev = split.prev
       /\ before.head = IF p = NullPtr THEN [m.head EXCEPT !["free"] = new] ELSE m.head
       /\ before.next = IF p = NullPtr THEN split.next ELSE [split.next EXCEPT ![p] = new]
  <2>1. CASE p = NullPtr
    <3>1. before = WithHead(split, "free", new)
      BY <1>4, <2>1
    <3> HIDE DEF before
    <3> QED  BY <1>5, <1>19, <1>21, <2>1, <3>1, SetsHead
  <2>2. CASE p # NullPtr
    <3>1. before = WithNext(split, p, new)
      BY <1>4, <2>2
    <3> HIDE DEF before
    <3> QED  BY <1>19, <1>21, <2>2, <3>1, SetsNext
  <2> QED  BY <2>1, <2>2
<1>24. before.next[new] = n
  <2> HIDE DEF before
  <2>1. CASE p = NullPtr
    BY <1>22, <1>23, <2>1
  <2>2. CASE p # NullPtr
    BY <1>19, <1>21, <1>22, <1>23, <2>2, MSHFields
  <2> QED  BY <2>1, <2>2
<1>25. w = WithNext(cut, this, NullPtr)
  <2> DEFINE sp == [m EXCEPT !.size[this + by] = m.size[this] - by, !.size[this] = by,
                             !.prev[this + by] = m.prev[this],
                             !.next[this + by] = m.next[this]]
             be == IF m.head["free"] = this THEN [sp EXCEPT !.head["free"] = this + by]
                   ELSE [sp EXCEPT !.next[sp.prev[this + by]] = this + by]
             li == IF be.next[this + by] = NullPtr THEN be
                   ELSE [be EXCEPT !.prev[be.next[this + by]] = this + by]
  <2>1. w = [li EXCEPT !.prev[this] = NullPtr, !.next[this] = NullPtr]
    BY <1>0, <1>6 DEF w, reduce
  <2>2. sp = split
    BY <1>0, <1>1, <1>18 DEF split, sizes, WithSize, WithPrev, WithNext
  <2> HIDE DEF sp
  <2>3. be = before
    <3>1. CASE h = this
      BY <1>1, <1>18, <2>2, <3>1 DEF WithHead
    <3>2. CASE h # this
      BY <1>1, <1>18, <1>22, <2>2, <3>2 DEF WithNext
    <3> QED  BY <3>1, <3>2
  <2> HIDE DEF be, before
  <2>4. li = linked
    BY <1>18, <1>24, <2>3 DEF WithPrev
  <2> HIDE DEF li, linked
  <2> QED  BY <2>1, <2>4 DEF WithPrev, WithNext
<1> HIDE DEF before
<1>26. /\ linked \in MSHs /\ linked.size = sizes.size /\ linked.head = before.head
       /\ linked.next = before.next
       /\ linked.prev = IF n = NullPtr THEN split.prev ELSE [split.prev EXCEPT ![n] = new]
  <2>1. CASE n = NullPtr
    BY <1>23, <2>1
  <2>2. CASE n # NullPtr
    <3>1. linked = WithPrev(before, n, new)
      BY <2>2
    <3> HIDE DEF linked
    <3> QED  BY <1>19, <1>23, <2>2, <3>1, SetsPrev
  <2> QED  BY <2>1, <2>2
<1> HIDE DEF linked
<1>27. /\ cut \in MSHs /\ cut.size = sizes.size /\ cut.head = before.head
       /\ cut.next = before.next /\ cut.prev = [linked.prev EXCEPT ![this] = NullPtr]
  <2>1. this \in Blocks /\ NullPtr \in Links /\ linked \in MSHs
    BY <1>3, <1>19, <1>26
  <2>2. /\ cut \in MSHs /\ cut.size = linked.size /\ cut.head = linked.head
        /\ cut.next = linked.next /\ cut.prev = [linked.prev EXCEPT ![this] = NullPtr]
    BY <2>1, SetsPrev
  <2> HIDE DEF cut
  <2> QED  BY <1>26, <2>2
<1> HIDE DEF cut
<1>7. /\ w \in MSHs /\ w.size = sizes.size /\ w.head = before.head
      /\ w.prev = [linked.prev EXCEPT ![this] = NullPtr]
      /\ w.next = [before.next EXCEPT ![this] = NullPtr]
  BY <1>3, <1>19, <1>25, <1>27, SetsNext
<1>8. ASSUME NEW b \in Blocks
      PROVE  w.size[b] = IF b = this THEN by ELSE IF b = new THEN z - by ELSE m.size[b]
  BY <1>7, <1>20, MSHFields
<1>9. /\ w.head = IF p = NullPtr THEN [m.head EXCEPT !["free"] = new] ELSE m.head
      /\ \A b \in Blocks : w.next[b] = IF b = this THEN NullPtr ELSE IF b = new THEN n
                                       ELSE IF b = p THEN new ELSE m.next[b]
  <2>1. ASSUME NEW b \in Blocks
        PROVE  w.next[b] = IF b = this THEN NullPtr ELSE IF b = new THEN n
                           ELSE IF b = p THEN new ELSE m.next[b]
    BY <1>7, <1>19, <1>21, <1>23, MSHFields
  <2> QED  BY <1>7, <1>23, <2>1
<1>10. ASSUME NEW b \in Blocks
       PROVE  w.prev[b] = IF b = this THEN NullPtr ELSE IF b = new THEN p
                          ELSE IF b = n THEN new ELSE m.prev[b]
  BY <1>7, <1>19, <1>21, <1>26, MSHFields
<1>11. Ascending(w)
  BY <1>3, <1>4, <1>9, HeapFacts DEF Ascending
<1>12. Untouched(m, w, "free", S \cup {new})
  BY <1>3, <1>4, <1>5, <1>9, <1>10, MSHFields, HeapFacts DEF Untouched
<1>13. /\ NextIn(U, p, n) /\ LastUpTo(U, new, p) /\ new \notin U
       /\ n # NullPtr => PrevIn(U, n, p)
  <2>1. NextIn(U, p, n) /\ (n # NullPtr => PrevIn(U, n, p))
    BY <1>2, <1>3, <1>17, OneLess
  <2>2. LastUpTo(U, new, p)
    BY <1>2, <1>3, <1>4, <1>17, HeapFacts DEF LastUpTo, PrevIn, Numbers
  <2> QED  BY <1>3, <1>17, <2>1, <2>2
<1>14. NextIn(T, NullPtr, w.head["free"])
  <2>1. CASE p = NullPtr
    <3>1. w.head["free"] = new
      BY <1>5, <1>9, <2>1, MSHFields
    <3> QED  BY <1>3, <1>13, <1>17, <2>1, <3>1, OneMore
  <2>2. CASE p # NullPtr
    <3>1. w.head["free"] = h /\ this # NullPtr
      BY <1>1, <1>3, <1>9, <2>2, HeapFacts
    <3>2. NextIn(U, NullPtr, h)
      BY <1>2, <1>3, <1>17, <2>2, <3>1, OneLess
    <3> QED  BY <1>3, <1>13, <1>17, <2>2, <3>1, <3>2, OneMore
  <2> QED  BY <2>1, <2>2
<1>15. ASSUME NEW b \in T PROVE NextIn(T, b, w.next[b]) /\ PrevIn(T, b, w.prev[b])
  <2>1. CASE b = new
    <3>1. w.next[b] = n /\ w.prev[b] = p
      BY <1>3, <1>9, <1>10, <2>1
    <3> QED  BY <1>3, <1>13, <1>17, <2>1, <3>1, OneMore
  <2>2. CASE b # new
    <3>1. /\ b \in S /\ b # this /\ b \in U /\ b \in Blocks
          /\ NextIn(S, b, m.next[b]) /\ PrevIn(S, b, m.prev[b])
      BY <1>3, <1>17, <2>2 DEF Linked
    <3>2. NextIn(T, b, w.next[b])
      <4>1. CASE b = p
        <5>1. w.next[b] = new
          BY <1>9, <2>2, <3>1, <4>1
        <5> QED  BY <1>3, <1>13, <1>17, <4>1, <5>1, OneMore
      <4>2. CASE b # p
        <5>1. w.next[b] = m.next[b]
          BY <1>9, <2>2, <3>1, <4>2
        <5>2. NextIn(U, b, m.next[b])
          BY <1>2, <1>3, <1>17, <3>1, <4>2, OneLess
        <5> QED  BY <1>3, <1>13, <1>17, <3>1, <4>2, <5>1, <5>2, OneMore
      <4> QED  BY <4>1, <4>2
    <3>3. PrevIn(T, b, w.prev[b])
      <4>1. CASE b = n
        <5>1. w.prev[b] = new /\ n # NullPtr
          BY <1>10, <2>2, <3>1, <4>1, HeapFacts
        <5> QED  BY <1>3, <1>13, <1>17, <4>1, <5>1, OneMore
      <4>2. CASE b # n
        <5>1. w.prev[b] = m.prev[b]
          BY <1>10, <2>2, <3>1, <4>2
        <5>2. PrevIn(U, b, m.prev[b])
          BY <1>2, <1>3, <1>17, <3>1, <4>2, OneLess
        <5>3. PrevIn(T, b, m.prev[b])
          BY <1>3, <1>13, <1>17, <3>1, <4>2, <5>2, OneMore
        <5> QED  BY <5>1, <5>3
      <4> QED  BY <4>1, <4>2
    <3> QED  BY <3>2, <3>3
  <2> QED  BY <2>1, <2>2
<1>16. Linked(w, "free", T)
  BY <1>14, <1>15 DEF Linked
<1> QED  BY <1>0, <1>7, <1>8, <1>11, <1>12, <1>16 DEF w, T, U

\* The segment of this ends where the next one of its list begins.
Touches(m, this) ==
  m.next[this] # NullPtr /\ this + m.size[this] = m.next[this]

\* Where nothing touches, a round of merge changes nothing.
LEMMA JoinsNothing ==
  ASSUME NEW m, NEW this, ~Touches(m, this)
  PROVE  join(m, this) = m
<1> DEFINE joined == [m EXCEPT !.size[this] = @ + m.size[m.next[this]],
                               !.size[m.next[this]] = 0,
                               !.next[this] = m.next[m.next[this]],
                               !.next[m.next[this]] = NullPtr,
                               !.prev[m.next[this]] = NullPtr]
           after  == m.next[m.next[this]]
           ahead  == [joined EXCEPT !.prev[after] = this]
<1>1. join(m, this) = IF m.next[this] = NullPtr \/ this + m.size[this] # m.next[this] THEN m
                      ELSE IF after = NullPtr THEN joined ELSE ahead
  BY DEF join
<1> HIDE DEF joined, after, ahead
<1> QED  BY <1>1 DEF Touches

\* A round of merge takes the next header out of the free list.
LEMMA JoinLinks ==
  ASSUME NEW m \in MSHs, NEW S \in SUBSET Blocks, Linked(m, "free", S), Ascending(m),
         NEW this \in S, NEW n, n = m.next[this], Touches(m, this)
  PROVE  LET w == join(m, this)
         IN  /\ w \in MSHs /\ n \in S /\ this < n
             /\ \A b \in Blocks : w.size[b] = IF b = this THEN m.size[this] + m.size[n]
                                              ELSE IF b = n THEN 0 ELSE m.size[b]
             /\ Linked(w, "free", S \ {n}) /\ Ascending(w)
             /\ Untouched(m, w, "free", S)
<1> DEFINE w == join(m, this)
           T == S \ {n}
<1>1. PICK a : a = m.next[n]
  OBVIOUS
<1>2. n # NullPtr /\ NextIn(S, this, n) /\ n \in S
  BY DEF Touches, Linked, NextIn
<1>3. /\ Numbers(S) /\ this \in Blocks /\ n \in Blocks /\ this # n /\ this < n
      /\ this # NullPtr /\ T = S \ {n} /\ "free" \in Lists
  <2>1. \A b \in S : b \in Blocks /\ b \in Nat /\ b > 0
    BY HeapFacts
  <2>2. this < n /\ this \in Nat /\ n \in Nat
    BY <1>2, <2>1 DEF NextIn, NullPtr
  <2> QED  BY <1>2, <2>1, <2>2 DEF Numbers, NullPtr, Lists
<1>4. NextIn(S, n, a) /\ PrevIn(S, n, this)
  <2>1. NextIn(S, n, a)
    BY <1>1, <1>2 DEF Linked
  <2>2. \A c \in S : c <= this \/ n <= c
    BY <1>2 DEF NextIn
  <2> QED  BY <1>3, <2>1, <2>2 DEF PrevIn
<1>5. /\ a \in Links
      /\ a # NullPtr => a \in S /\ a # n /\ a # this /\ a \in Blocks /\ this < a
  <2>1. a # NullPtr => a \in S /\ n < a
    BY <1>4 DEF NextIn
  <2>2. a # NullPtr => a # n /\ a # this /\ this < a
    <3> SUFFICES ASSUME a # NullPtr PROVE a # n /\ a # this /\ this < a
      OBVIOUS
    <3>1. n < a /\ this < n /\ a \in Nat /\ n \in Nat /\ this \in Nat
      BY <1>2, <1>3, <2>1 DEF Numbers
    <3> QED  BY <3>1
  <2> QED  BY <2>1, <2>2, HeapFacts
<1> DEFINE bigger == WithSize(m, this, m.size[this] + m.size[n])
           sizes  == WithSize(bigger, n, 0)
           past   == WithNext(WithNext(sizes, this, a), n, NullPtr)
           joined == WithPrev(past, n, NullPtr)
<1>6. w = IF a = NullPtr THEN joined ELSE WithPrev(joined, a, this)
  <2> DEFINE jo == [m EXCEPT !.size[this] = @ + m.size[m.next[this]],
                             !.size[m.next[this]] = 0,
                             !.next[this] = m.next[m.next[this]],
                             !.next[m.next[this]] = NullPtr,
                             !.prev[m.next[this]] = NullPtr]
  <2>1. w = IF m.next[m.next[this]] = NullPtr THEN jo
            ELSE [jo EXCEPT !.prev[m.next[m.next[this]]] = this]
    BY Zenon DEF join, Touches
  <2>2. jo = joined
    BY <1>1, <1>3 DEF WithSize, WithNext, WithPrev
  <2> HIDE DEF w, jo, joined
  <2>3. w = IF a = NullPtr THEN jo ELSE [jo EXCEPT !.prev[a] = this]
    BY <1>1, <2>1
  <2> QED  BY <2>2, <2>3 DEF WithPrev
<1> HIDE DEF w, T
<1>18. /\ this \in Links /\ NullPtr \in Links /\ NullPtr \notin Blocks
       /\ m.size[this] + m.size[n] \in Nat /\ 0 \in Nat
  BY <1>3, MSHFields, HeapFacts
<1>19. /\ bigger \in MSHs /\ bigger.head = m.head /\ bigger.prev = m.prev
       /\ bigger.next = m.next
       /\ bigger.size = [m.size EXCEPT ![this] = m.size[this] + m.size[n]]
  BY <1>3, <1>18, SetsSize
<1> HIDE DEF bigger
<1>20. /\ sizes \in MSHs /\ sizes.head = m.head /\ sizes.prev = m.prev
       /\ sizes.next = m.next /\ sizes.size = [bigger.size EXCEPT ![n] = 0]
  BY <1>3, <1>18, <1>19, SetsSize
<1> HIDE DEF sizes
<1>21. /\ past \in MSHs /\ past.head = m.head /\ past.prev = m.prev
       /\ past.size = sizes.size
       /\ past.next = [[m.next EXCEPT ![this] = a] EXCEPT ![n] = NullPtr]
  <2> DEFINE u == WithNext(sizes, this, a)
  <2>1. /\ u \in MSHs /\ u.head = m.head /\ u.prev = m.prev /\ u.size = sizes.size
        /\ u.next = [m.next EXCEPT ![this] = a]
    BY <1>3, <1>5, <1>20, SetsNext
  <2>2. past = WithNext(u, n, NullPtr)
    OBVIOUS
  <2> HIDE DEF u, past
  <2> QED  BY <1>3, <1>18, <2>1, <2>2, SetsNext
<1> HIDE DEF past
<1>7. /\ joined \in MSHs /\ joined.head = m.head /\ joined.next = past.next
      /\ joined.size = sizes.size /\ joined.prev = [m.prev EXCEPT ![n] = NullPtr]
  BY <1>3, <1>18, <1>21, SetsPrev
<1> HIDE DEF joined
<1>8. /\ w \in MSHs /\ w.head = m.head /\ w.next = past.next /\ w.size = sizes.size
      /\ w.prev = IF a = NullPtr THEN joined.prev ELSE [joined.prev EXCEPT ![a] = this]
  <2>1. CASE a = NullPtr
    BY <1>6, <1>7, <2>1
  <2>2. CASE a # NullPtr
    BY <1>5, <1>6, <1>7, <1>18, <2>2, SetsPrev
  <2> QED  BY <2>1, <2>2
<1>9. ASSUME NEW b \in Blocks
      PROVE  w.size[b] = IF b = this THEN m.size[this] + m.size[n]
                         ELSE IF b = n THEN 0 ELSE m.size[b]
  BY <1>3, <1>8, <1>19, <1>20, MSHFields
<1>10. /\ w.head = m.head
       /\ \A b \in Blocks : w.next[b] = IF b = n THEN NullPtr ELSE IF b = this THEN a
                                        ELSE m.next[b]
  <2>1. ASSUME NEW b \in Blocks
        PROVE  w.next[b] = IF b = n THEN NullPtr ELSE IF b = this THEN a ELSE m.next[b]
    BY <1>8, <1>21, MSHFields
  <2> QED  BY <1>8, <2>1
<1>11. ASSUME NEW b \in Blocks
       PROVE  w.prev[b] = IF b = n THEN NullPtr ELSE IF b = a THEN this ELSE m.prev[b]
  BY <1>5, <1>7, <1>8, <1>18, MSHFields
<1>12. Ascending(w)
  BY <1>3, <1>5, <1>10, HeapFacts DEF Ascending
<1>13. Untouched(m, w, "free", S)
  <2>1. ASSUME NEW b \in Blocks, b \notin S PROVE b # n /\ b # this /\ b # a
    BY <1>2, <1>5, <2>1, HeapFacts
  <2> QED  BY <1>10, <1>11, <2>1 DEF Untouched
<1>17. /\ NextIn(T, this, a)
       /\ a # NullPtr => PrevIn(T, a, this)
       /\ \A b, k : b \in S \cup {NullPtr} /\ b # n /\ b # this /\ NextIn(S, b, k)
                      => NextIn(T, b, k)
       /\ \A b, k : b \in T /\ b # a /\ PrevIn(S, b, k) => PrevIn(T, b, k)
  <2>1. Numbers(S) /\ n \in S /\ NextIn(S, n, a) /\ PrevIn(S, n, this) /\ T = S \ {n}
    BY <1>2, <1>3, <1>4
  <2> QED  BY <2>1, OneLess
<1>14. NextIn(T, NullPtr, w.head["free"])
  <2>1. PICK k : k = w.head["free"]
    OBVIOUS
  <2>2. NextIn(S, NullPtr, k) /\ n # NullPtr /\ this # NullPtr
    BY <1>2, <1>3, <1>10, <2>1 DEF Linked
  <2>3. NextIn(T, NullPtr, k)
    BY <1>17, <2>2
  <2> QED  BY <2>1, <2>3
<1>15. ASSUME NEW b \in T PROVE NextIn(T, b, w.next[b]) /\ PrevIn(T, b, w.prev[b])
  <2>1. /\ b \in S /\ b # n /\ b \in Blocks
        /\ NextIn(S, b, m.next[b]) /\ PrevIn(S, b, m.prev[b])
    BY <1>3 DEF Linked
  <2>2. NextIn(T, b, w.next[b])
    <3>1. CASE b = this
      <4>1. w.next[b] = a
        BY <1>10, <2>1, <3>1
      <4> QED  BY <1>17, <3>1, <4>1
    <3>2. CASE b # this
      <4>1. w.next[b] = m.next[b]
        BY <1>10, <2>1, <3>2
      <4>2. NextIn(T, b, m.next[b])
        BY <1>17, <2>1, <3>2
      <4> QED  BY <4>1, <4>2
    <3> QED  BY <3>1, <3>2
  <2>3. PrevIn(T, b, w.prev[b])
    <3>1. CASE b = a
      <4>1. w.prev[b] = this /\ a # NullPtr
        BY <1>11, <2>1, <3>1, HeapFacts
      <4> QED  BY <1>17, <3>1, <4>1
    <3>2. CASE b # a
      <4>1. w.prev[b] = m.prev[b]
        BY <1>11, <2>1, <3>2
      <4>2. PrevIn(T, b, m.prev[b])
        BY <1>17, <2>1, <3>2
      <4> QED  BY <4>1, <4>2
    <3> QED  BY <3>1, <3>2
  <2> QED  BY <2>2, <2>3
<1>16. Linked(w, "free", T)
  BY <1>14, <1>15 DEF Linked
<1> QED  BY <1>2, <1>3, <1>8, <1>9, <1>12, <1>13, <1>16 DEF w, T

-----------------------------------------------------------------------------
(***************************************************************************)
(* The row of segments.                                                    *)
(***************************************************************************)
\* A segment ends at the end of the heap or where another begins.
LEMMA EndIsHeader ==
  ASSUME NEW m \in MSHs, NEW H \in SUBSET Blocks, Tiled(m, H), NEW b \in H,
         NEW e, e = b + m.size[b]
  PROVE  e \in Nat /\ b < e /\ e <= Top /\ (e = Top \/ e \in H)
<1>1. b \in Blocks /\ b \in Nat /\ HeapStart <= b
  BY HeapFacts
<1>2. m.size[b] \in Nat /\ m.size[b] >= 1 /\ b + m.size[b] <= Top
  BY <1>1, MSHFields DEF Tiled
<1>3. e \in Nat /\ b < e /\ e <= Top
  BY <1>1, <1>2
<1>4. CASE e # Top
  <2>1. e \in Blocks
    BY <1>1, <1>3, <1>4, HeapFacts
  <2>2. PICK c \in H : c <= e /\ e < c + m.size[c]
    BY <2>1 DEF Tiled
  <2>3. c \in Nat /\ m.size[c] \in Nat
    BY HeapFacts, MSHFields
  <2>4. ~(c < b)
    <3>1. c < b => c + m.size[c] <= b
      BY DEF Tiled
    <3> QED  BY <1>1, <1>3, <2>2, <2>3, <3>1
  <2>5. c # b
    BY <2>2, <2>3
  <2>6. e <= c
    <3>1. b < c => b + m.size[b] <= c
      BY DEF Tiled
    <3> QED  BY <1>1, <2>3, <2>4, <2>5, <3>1
  <2>7. c = e
    BY <1>3, <2>2, <2>3, <2>6
  <2> QED  BY <1>3, <2>7
<1> QED  BY <1>3, <1>4

\* The sizes after a segment was split at new, and after n was joined to it.
SplitSizes(m, w, this, by, new) ==
  \A b \in Blocks : w.size[b] = IF b = this THEN by
                                ELSE IF b = new THEN m.size[this] - by ELSE m.size[b]

JoinSizes(m, w, this, n) ==
  \A b \in Blocks : w.size[b] = IF b = this THEN m.size[this] + m.size[n]
                                ELSE IF b = n THEN 0 ELSE m.size[b]

\* A segment that is cut in two leaves the row without a gap.
LEMMA TiledSplits ==
  ASSUME NEW m \in MSHs, NEW H \in SUBSET Blocks, Tiled(m, H), NEW this \in H,
         NEW by \in Nat, by > 0, by < m.size[this], NEW new, new = this + by
  PROVE  /\ new \in Blocks /\ new \notin H
         /\ \A w : SplitSizes(m, w, this, by, new) => Tiled(w, H \cup {new})
<1>1. PICK z : z = m.size[this] /\ z \in Nat /\ by < z
  BY MSHFields
<1>2. /\ \A b \in H : b \in Blocks /\ b \in Nat /\ m.size[b] \in Nat
      /\ this \in Nat /\ Top \in Nat
  BY MSHFields, HeapFacts
<1>3. this + z <= Top /\ \A c \in H : this < c => this + z <= c
  BY <1>1 DEF Tiled
<1>4. new \in Nat /\ this < new /\ new < this + z /\ new + (z - by) = this + z
  BY <1>1, <1>2
<1>5. new \in Blocks
  BY <1>1, <1>2, <1>3, <1>4, HeapFacts
<1>6. new \notin H
  BY <1>1, <1>2, <1>3, <1>4
<1>7. ASSUME NEW w, SplitSizes(m, w, this, by, new) PROVE Tiled(w, H \cup {new})
  <2>1. /\ w.size[this] = by /\ w.size[new] = z - by
        /\ \A b \in H \ {this} : w.size[b] = m.size[b]
    BY <1>1, <1>2, <1>4, <1>5, <1>6, <1>7 DEF SplitSizes
  <2>2. ASSUME NEW b \in H \cup {new} PROVE w.size[b] >= 1 /\ b + w.size[b] <= Top
    <3>1. CASE b = this
      BY <1>1, <1>2, <1>3, <1>4, <2>1, <3>1
    <3>2. CASE b = new
      BY <1>1, <1>2, <1>3, <1>4, <2>1, <3>2
    <3>3. CASE b # this /\ b # new
      BY <2>1, <3>3 DEF Tiled
    <3> QED  BY <3>1, <3>2, <3>3
  <2>3. ASSUME NEW b \in H \cup {new}, NEW c \in H \cup {new}, b < c
        PROVE  b + w.size[b] <= c
    <3>0. b \in Nat /\ c \in Nat
      BY <1>2, <1>4
    <3>1. CASE b = this
      <4>1. CASE c = new
        BY <1>2, <1>4, <2>1, <3>1, <4>1
      <4>2. CASE c # new
        BY <1>1, <1>2, <1>3, <2>1, <2>3, <3>0, <3>1, <4>2
      <4> QED  BY <4>1, <4>2
    <3>2. CASE b = new
      <4>1. c \in H /\ this < c
        BY <1>2, <1>4, <2>3, <3>0, <3>2
      <4>2. this + z <= c
        BY <1>3, <4>1
      <4> QED  BY <1>4, <2>1, <3>2, <4>2
    <3>3. CASE b # this /\ b # new
      <4>1. b \in H /\ w.size[b] = m.size[b] /\ m.size[b] \in Nat
        BY <1>2, <2>1, <3>3
      <4>2. CASE c = new
        <5>1. b < this
          <6>1. ~(this + z <= b)
            BY <1>1, <1>2, <1>4, <2>3, <3>0, <4>2
          <6> QED  BY <1>2, <1>3, <3>0, <3>3, <4>1, <6>1
        <5>2. b + m.size[b] <= this
          BY <4>1, <5>1 DEF Tiled
        <5> QED  BY <1>2, <1>4, <3>0, <4>1, <4>2, <5>2
      <4>3. CASE c # new
        BY <2>3, <4>1, <4>3 DEF Tiled
      <4> QED  BY <4>2, <4>3
    <3> QED  BY <3>1, <3>2, <3>3
  <2>4. ASSUME NEW c \in Blocks
        PROVE  \E b \in H \cup {new} : b <= c /\ c < b + w.size[b]
    <3>1. PICK b \in H : b <= c /\ c < b + m.size[b]
      BY DEF Tiled
    <3>2. CASE b # this
      BY <2>1, <3>1, <3>2
    <3>3. CASE b = this
      <4>1. c \in Nat /\ c < this + z /\ this <= c
        BY <1>1, <3>1, <3>3, HeapFacts
      <4>2. CASE c < new
        BY <2>1, <3>3, <4>1, <4>2
      <4>3. CASE new <= c
        BY <1>4, <2>1, <4>1, <4>3
      <4> QED  BY <1>4, <4>1, <4>2, <4>3
    <3> QED  BY <3>2, <3>3
  <2> QED  BY <2>2, <2>3, <2>4 DEF Tiled
<1> QED  BY <1>5, <1>6, <1>7

\* So does one that is joined with the segment behind it.
LEMMA TiledJoins ==
  ASSUME NEW m \in MSHs, NEW w, NEW H \in SUBSET Blocks, Tiled(m, H),
         NEW this \in H, NEW n \in H, n = this + m.size[this], JoinSizes(m, w, this, n)
  PROVE  Tiled(w, H \ {n})
<1>1. PICK z, y : /\ z = m.size[this] /\ z \in Nat /\ z >= 1
                  /\ y = m.size[n] /\ y \in Nat
  BY MSHFields DEF Tiled
<1>2. /\ \A b \in H : b \in Blocks /\ b \in Nat /\ m.size[b] \in Nat
      /\ this \in Nat /\ n \in Nat /\ Top \in Nat
  BY MSHFields, HeapFacts
<1>3. n = this + z /\ this < n /\ this + (z + y) = n + y
  BY <1>1, <1>2
<1>4. /\ n + y <= Top /\ \A c \in H : n < c => n + y <= c
      /\ \A c \in H : this < c => n <= c
  BY <1>1, <1>3 DEF Tiled
<1>5. /\ w.size[this] = z + y
      /\ \A b \in H \ {this, n} : w.size[b] = m.size[b]
  BY <1>1, <1>2, <1>3 DEF JoinSizes
<1>6. ASSUME NEW b \in H \ {n} PROVE w.size[b] >= 1 /\ b + w.size[b] <= Top
  <2>1. CASE b = this
    BY <1>1, <1>3, <1>4, <1>5, <2>1
  <2>2. CASE b # this
    BY <1>5, <2>2 DEF Tiled
  <2> QED  BY <2>1, <2>2
<1>7. ASSUME NEW b \in H \ {n}, NEW c \in H \ {n}, b < c
      PROVE  b + w.size[b] <= c
  <2>1. CASE b = this
    <3>1. c \in H /\ c # n /\ this < c /\ c \in Nat
      BY <1>2, <1>7, <2>1
    <3>2. n <= c
      BY <1>4, <3>1
    <3>3. n < c
      BY <1>2, <3>1, <3>2
    <3>4. n + y <= c
      BY <1>4, <3>1, <3>3
    <3> QED  BY <1>3, <1>5, <2>1, <3>4
  <2>2. CASE b # this
    BY <1>5, <1>7, <2>2 DEF Tiled
  <2> QED  BY <2>1, <2>2
<1>8. ASSUME NEW c \in Blocks
      PROVE  \E b \in H \ {n} : b <= c /\ c < b + w.size[b]
  <2>1. PICK b \in H : b <= c /\ c < b + m.size[b]
    BY DEF Tiled
  <2>2. c \in Nat /\ this \in H \ {n}
    BY <1>2, <1>3, HeapFacts
  <2>3. CASE b = n
    <3>1. this <= c /\ c < this + w.size[this]
      BY <1>1, <1>2, <1>3, <1>5, <2>1, <2>2, <2>3
    <3> QED  BY <2>2, <3>1
  <2>4. CASE b = this
    <3>1. this <= c /\ c < this + w.size[this]
      BY <1>1, <1>2, <1>3, <1>5, <2>1, <2>2, <2>4
    <3> QED  BY <2>2, <3>1
  <2>5. CASE b # n /\ b # this
    BY <1>5, <2>1, <2>5
  <2> QED  BY <2>3, <2>4, <2>5
<1> QED  BY <1>6, <1>7, <1>8 DEF Tiled

-----------------------------------------------------------------------------
(***************************************************************************)
(* What they do to the heap.                                               *)
(***************************************************************************)
\* K is N with the headers of T in the list l.
Changed(N, K, l, T) ==
  /\ K \in Partitions /\ K[l] = T
  /\ \A o \in Lists : o # l => K[o] = N[o]

\* What a heap of the right shape gives of one list and of two.
LEMMA ShapeFacts ==
  ASSUME NEW m, NEW N, Shape(m, N)
  PROVE  /\ m \in MSHs /\ Ascending(m) /\ "free" \in Lists
         /\ \A l \in Lists : N[l] \subseteq Blocks /\ N[l] \subseteq Headers(N) /\ Linked(m, l, N[l])
         /\ \A l, o \in Lists : l # o => N[l] \cap N[o] = {}
         /\ Headers(N) \subseteq Blocks
BY DEF Shape, Partitions, Disjoint, Headers, Lists

\* A change to one list keeps the shape of the heap.
LEMMA ShapeChanges ==
  ASSUME NEW m, NEW N, Shape(m, N), NEW w \in MSHs, NEW l \in Lists, NEW T \in SUBSET Blocks,
         Linked(w, l, T), Ascending(w), NEW S, Untouched(m, w, l, S),
         \A o \in Lists : o # l => N[o] \cap S = {} /\ N[o] \cap T = {},
         NEW K, Changed(N, K, l, T)
  PROVE  Shape(w, K)
<1>1. ASSUME NEW o \in Lists PROVE Linked(w, o, K[o])
  <2>1. CASE o = l
    BY <2>1 DEF Changed
  <2>2. CASE o # l
    <3>1. K[o] = N[o] /\ N[o] \in SUBSET Blocks /\ N[o] \cap S = {} /\ Linked(m, o, N[o])
      BY <2>2, ShapeFacts DEF Changed
    <3> QED  BY <2>2, <3>1, OtherList
  <2> QED  BY <2>1, <2>2
<1>2. Disjoint(K)
  BY ShapeFacts DEF Changed, Disjoint
<1> QED  BY <1>1, <1>2 DEF Shape, Changed

\* remove, on the whole heap.
LEMMA ShapeRemoves ==
  ASSUME NEW m, NEW N, Shape(m, N), NEW l \in Lists, NEW x \in N[l],
         NEW K, Changed(N, K, l, N[l] \ {x})
  PROVE  Shape(remove(m, l, x), K) /\ remove(m, l, x).size = m.size
<1>1. PICK w : w = remove(m, l, x)
  OBVIOUS
<1>2. /\ m \in MSHs /\ N[l] \in SUBSET Blocks /\ Linked(m, l, N[l]) /\ Ascending(m)
      /\ \A o \in Lists : o # l => N[o] \cap N[l] = {}
  BY ShapeFacts
<1>3. /\ w \in MSHs /\ w.size = m.size /\ Linked(w, l, N[l] \ {x})
      /\ Ascending(w) /\ Untouched(m, w, l, N[l])
  BY <1>1, <1>2, RemoveLinks
<1>4. Shape(w, K)
  <2>1. PICK T : T = N[l] \ {x}
    OBVIOUS
  <2>2. T \in SUBSET Blocks /\ \A o \in Lists : o # l => N[o] \cap T = {}
    BY <1>2, <2>1
  <2> QED  BY <1>2, <1>3, <2>1, <2>2, ShapeChanges
<1> QED  BY <1>1, <1>3, <1>4

\* The insertion, on the whole heap.
LEMMA ShapeInserts ==
  ASSUME NEW m, NEW N, Shape(m, N), NEW l \in Lists, NEW x \in Blocks \ Headers(N),
         NEW K, Changed(N, K, l, N[l] \cup {x})
  PROVE  Shape(insert(m, l, x), K) /\ insert(m, l, x).size = m.size
<1>1. PICK w : w = insert(m, l, x)
  OBVIOUS
<1>2. /\ m \in MSHs /\ N[l] \in SUBSET Blocks /\ Linked(m, l, N[l]) /\ Ascending(m)
      /\ \A o \in Lists : o # l => N[o] \cap N[l] = {}
      /\ \A o \in Lists : x \notin N[o]
  BY ShapeFacts
<1>3. /\ w \in MSHs /\ w.size = m.size /\ Linked(w, l, N[l] \cup {x})
      /\ Ascending(w) /\ Untouched(m, w, l, N[l] \cup {x})
  BY <1>1, <1>2, InsertLinks
<1>4. Shape(w, K)
  <2>1. PICK T : T = N[l] \cup {x}
    OBVIOUS
  <2>2. T \in SUBSET Blocks /\ \A o \in Lists : o # l => N[o] \cap T = {}
    BY <1>2, <2>1
  <2> QED  BY <1>3, <2>1, <2>2, ShapeChanges
<1> QED  BY <1>1, <1>3, <1>4

\* reduce, on the whole heap.
LEMMA ShapeReduces ==
  ASSUME NEW m, NEW N, Shape(m, N), NEW x \in N["free"], NEW by, NEW new,
         new \in Blocks \ Headers(N), SplitsAt(m, N["free"], x, by, new),
         NEW K, Changed(N, K, "free", (N["free"] \ {x}) \cup {new})
  PROVE  Shape(reduce(m, x, by), K) /\ SplitSizes(m, reduce(m, x, by), x, by, new)
<1>1. PICK w : w = reduce(m, x, by)
  OBVIOUS
<1>2. PICK F : F = N["free"]
  OBVIOUS
<1>3. /\ m \in MSHs /\ F \in SUBSET Blocks /\ Linked(m, "free", F) /\ Ascending(m)
      /\ \A o \in Lists : o # "free" => N[o] \cap F = {} 
      /\ \A o \in Lists : new \notin N[o]
      /\ x \in F /\ new \in Blocks /\ "free" \in Lists
  BY <1>2, ShapeFacts
<1>4. SplitsAt(m, F, x, by, new)
  BY <1>2
<1>5. /\ w \in MSHs
      /\ \A b \in Blocks : w.size[b] = IF b = x THEN by
                                       ELSE IF b = new THEN m.size[x] - by ELSE m.size[b]
      /\ Linked(w, "free", (F \ {x}) \cup {new}) /\ Ascending(w)
      /\ Untouched(m, w, "free", F \cup {new})
  <2>1. /\ m \in MSHs /\ F \in SUBSET Blocks /\ Linked(m, "free", F) /\ Ascending(m)
        /\ x \in F /\ new \in Blocks /\ SplitsAt(m, F, x, by, new)
    BY <1>3, <1>4
  <2> HIDE <1>1, <1>2, <1>3, <1>4
  <2>2. LET r == reduce(m, x, by)
        IN  /\ r \in MSHs
            /\ \A b \in Blocks : r.size[b] = IF b = x THEN by
                                              ELSE IF b = new THEN m.size[x] - by
                                              ELSE m.size[b]
            /\ Linked(r, "free", (F \ {x}) \cup {new}) /\ Ascending(r)
            /\ Untouched(m, r, "free", F \cup {new})
    BY <2>1, ReduceLinks
  <2> QED  BY <1>1, <2>2
<1>6. Shape(w, K)
  <2>1. PICK T, S : T = (F \ {x}) \cup {new} /\ S = F \cup {new}
    OBVIOUS
  <2>2. /\ T \in SUBSET Blocks
        /\ \A o \in Lists : o # "free" => N[o] \cap S = {} /\ N[o] \cap T = {}
    BY <1>3, <2>1
  <2>3. Changed(N, K, "free", T)
    BY <1>2, <2>1
  <2> QED  BY <1>3, <1>5, <2>1, <2>2, <2>3, ShapeChanges
<1> QED  BY <1>1, <1>5, <1>6 DEF SplitSizes

\* A round of merge, on the whole heap.
LEMMA ShapeJoins ==
  ASSUME NEW m, NEW N, Shape(m, N), NEW x \in N["free"], Touches(m, x),
         NEW n, n = m.next[x], NEW K, Changed(N, K, "free", N["free"] \ {n})
  PROVE  /\ Shape(join(m, x), K) /\ JoinSizes(m, join(m, x), x, n)
         /\ n \in N["free"] /\ x < n
<1>1. PICK w : w = join(m, x)
  OBVIOUS
<1>2. PICK F : F = N["free"]
  OBVIOUS
<1>3. /\ m \in MSHs /\ F \in SUBSET Blocks /\ Linked(m, "free", F) /\ Ascending(m)
      /\ \A o \in Lists : o # "free" => N[o] \cap F = {} 
      /\ x \in F /\ "free" \in Lists
  BY <1>2, ShapeFacts
<1>4. /\ w \in MSHs /\ n \in F /\ x < n
      /\ \A b \in Blocks : w.size[b] = IF b = x THEN m.size[x] + m.size[n]
                                       ELSE IF b = n THEN 0 ELSE m.size[b]
      /\ Linked(w, "free", F \ {n}) /\ Ascending(w)
      /\ Untouched(m, w, "free", F)
  BY <1>1, <1>3, JoinLinks
<1>5. Shape(w, K)
  <2>1. PICK T : T = F \ {n}
    OBVIOUS
  <2>2. /\ T \in SUBSET Blocks
        /\ \A o \in Lists : o # "free" => N[o] \cap F = {} /\ N[o] \cap T = {}
    BY <1>3, <2>1
  <2>3. Changed(N, K, "free", T)
    BY <1>2, <2>1
  <2> QED  BY <1>3, <1>4, <2>1, <2>2, <2>3, ShapeChanges
<1> QED  BY <1>1, <1>2, <1>4, <1>5 DEF JoinSizes

\* A free segment touches the next free one just if that begins where it ends.
LEMMA UnmergedTouches ==
  ASSUME NEW m, NEW N, Shape(m, N), Tiled(m, Headers(N)), NEW x \in N["free"]
  PROVE  Touches(m, x) <=> x \in Unmerged(m, N["free"])
<1>1. PICK F, n, e : F = N["free"] /\ n = m.next[x] /\ e = x + m.size[x]
  OBVIOUS
<1>2. NextIn(F, x, n) /\ F \subseteq Headers(N) /\ Headers(N) \in SUBSET Blocks /\ m \in MSHs
  BY <1>1, ShapeFacts DEF Linked
<1>3. \A b \in F : b \in Nat /\ b # NullPtr
  BY <1>2, HeapFacts
<1>4. e \in Nat /\ x < e /\ x \in Nat
  <2>1. x \in Headers(N)
    BY <1>1, <1>2
  <2> QED  BY <1>1, <1>2, <1>3, <2>1, EndIsHeader
<1>5. ASSUME e \in F PROVE n = e /\ n # NullPtr
  <2>1. n \in F /\ n <= e /\ x < n
    BY <1>2, <1>3, <1>4, <1>5 DEF NextIn
  <2>2. e <= n
    <3>1. x \in Headers(N) /\ n \in Headers(N)
      BY <1>1, <1>2, <2>1
    <3> QED  BY <1>1, <2>1, <3>1 DEF Tiled
  <2> QED  BY <1>3, <1>4, <2>1, <2>2
<1>6. ASSUME n # NullPtr, n = e PROVE e \in F
  BY <1>2, <1>6 DEF NextIn
<1> QED  BY <1>1, <1>5, <1>6 DEF Touches, Unmerged

\* What one call of merge does to a heap m, giving w: nothing is lost, and x
\* has no free segment behind it any more.
MergedAt(m, N, x, w, K) ==
  /\ Shape(w, K) /\ Tiled(w, Headers(K))
  /\ x \in K["free"] /\ K["free"] \subseteq N["free"]
  /\ \A o \in Lists : o # "free" => K[o] = N[o] /\ \A b \in N[o] : w.size[b] = m.size[b]
  /\ Unmerged(w, K["free"]) \subseteq Unmerged(m, N["free"]) \ {x}

\* merge is one round if what follows touches nothing itself.
LEMMA MergesAt ==
  ASSUME NEW m, NEW N, Shape(m, N), Tiled(m, Headers(N)), NEW x \in N["free"],
         m.next[x] \notin Unmerged(m, N["free"])
  PROVE  \E K : MergedAt(m, N, x, merge(m, x), K)
<1>1. PICK w, F, n : w = join(m, x) /\ F = N["free"] /\ n = m.next[x]
  OBVIOUS
<1>2. CASE ~Touches(m, x)
  <2>1. w = m /\ merge(m, x) = m
    <3>1. join(m, x) = m
      BY <1>2, JoinsNothing
    <3> QED  BY <1>1, <3>1, MergeOnce
  <2>2. x \notin Unmerged(m, N["free"])
    BY <1>2, UnmergedTouches
  <2>3. MergedAt(m, N, x, m, N)
    BY <2>2 DEF MergedAt
  <2> QED  BY <2>1, <2>3
<1>3. CASE Touches(m, x)
  <2> DEFINE K == [N EXCEPT !["free"] = F \ {n}]
  <2>1. N \in Partitions /\ F \subseteq Blocks /\ "free" \in Lists
    BY <1>1, ShapeFacts DEF Shape
  <2>2. Changed(N, K, "free", F \ {n})
    BY <2>1 DEF Changed, Partitions
  <2> HIDE DEF K
  <2>3. Shape(w, K) /\ JoinSizes(m, w, x, n) /\ n \in F /\ x < n
    BY <1>1, <1>3, <2>2, ShapeJoins
  <2>4. /\ m \in MSHs /\ F \subseteq Headers(N) /\ Headers(N) \subseteq Blocks
        /\ x \in Blocks /\ n \in Blocks /\ x \in Nat /\ n \in Nat /\ x # n
        /\ n = x + m.size[x] /\ m.size[x] \in Nat /\ m.size[n] \in Nat
    <3>1. m \in MSHs /\ F \subseteq Headers(N) /\ Headers(N) \subseteq Blocks
      BY <1>1, ShapeFacts
    <3>2. x \in Blocks /\ n \in Blocks /\ x \in Nat /\ n \in Nat
      BY <1>1, <2>1, <2>3, HeapFacts
    <3> QED  BY <1>1, <1>3, <2>3, <3>1, <3>2, MSHFields DEF Touches
  <2>5. Headers(K) = Headers(N) \ {n}
    <3>1. \A o \in Lists : o # "free" => n \notin N[o] /\ K[o] = N[o]
      BY <1>1, <2>2, <2>3, ShapeFacts DEF Changed
    <3>2. K["free"] = F \ {n}
      BY <2>2 DEF Changed
    <3>3. n \notin N["system"] /\ n \notin N["user"]
          /\ K["system"] = N["system"] /\ K["user"] = N["user"]
      BY <3>1 DEF Lists
    <3> QED  BY <1>1, <3>2, <3>3 DEF Headers
  <2>6. Tiled(w, Headers(K))
    <3>1. x \in Headers(N) /\ n \in Headers(N)
      BY <1>1, <2>3, <2>4
    <3> QED  BY <2>3, <2>4, <2>5, <3>1, TiledJoins
  <2>7. x \in K["free"] /\ K["free"] = F \ {n}
    BY <1>1, <2>2, <2>4 DEF Changed
  <2>8. ASSUME NEW o \in Lists, o # "free"
        PROVE  K[o] = N[o] /\ \A b \in N[o] : w.size[b] = m.size[b]
    <3>1. K[o] = N[o]
      BY <2>2, <2>8 DEF Changed
    <3>2. \A b \in N[o] : b # n /\ b # x /\ b \in Blocks
      BY <1>1, <2>3, <2>8, ShapeFacts
    <3> QED  BY <2>3, <3>1, <3>2 DEF JoinSizes
  <2>9. ASSUME NEW b \in Unmerged(w, K["free"])
        PROVE  b \in Unmerged(m, F) /\ b # x
    <3>1. b \in F /\ b # n /\ b \in Blocks /\ b + w.size[b] \in F
      BY <1>1, <2>4, <2>7, <2>9 DEF Unmerged
    <3>2. b # x
      <4> SUFFICES ASSUME b = x PROVE FALSE
        OBVIOUS
      <4>1. w.size[x] = m.size[x] + m.size[n]
        BY <2>3, <2>4 DEF JoinSizes
      <4>2. b + w.size[b] = n + m.size[n]
        BY <2>4, <4>1
      <4>3. n \in Unmerged(m, F)
        BY <2>3, <3>1, <4>2 DEF Unmerged
      <4> QED  BY <1>1, <4>3
    <3>3. w.size[b] = m.size[b]
      BY <2>3, <3>1, <3>2 DEF JoinSizes
    <3> QED  BY <3>1, <3>2, <3>3 DEF Unmerged
  <2>10. MergedAt(m, N, x, w, K)
    BY <1>1, <2>3, <2>6, <2>7, <2>8, <2>9 DEF MergedAt
  <2>11. merge(m, x) = w
    <3>1. x \notin Unmerged(w, K["free"])
      BY <2>9
    <3>2. ~Touches(w, x)
      BY <2>3, <2>6, <2>7, <3>1, UnmergedTouches
    <3>3. join(w, x) = w
      BY <3>2, JoinsNothing
    <3> QED  BY <1>1, <3>3, MergeOnce
  <2> QED  BY <2>10, <2>11
<1> QED  BY <1>2, <1>3

\* The lists of what is allocated.
Owned == {"system", "user"}

\* What becomes of the segments of the kernel and of the program: o gets T.
Gives(N, K, m, w, o, T) ==
  /\ K[o] = T
  /\ \A u \in Owned : u # o => K[u] = N[u]
  /\ \A u \in Owned : \A b \in K[u] \cap N[u] : w.size[b] = m.size[b]

\* They are not the free list.
LEMMA OwnedLists == \A o \in Owned : o \in Lists /\ o # "free"
BY DEF Owned, Lists

\* A header is taken from its list and comes into another.
LEMMA HeadersMove ==
  ASSUME NEW m, NEW N, Shape(m, N), NEW l \in Lists, NEW o \in Lists, l # o, NEW x \in N[l]
  PROVE  \E K : /\ Shape(insert(remove(m, l, x), o, x), K)
                /\ insert(remove(m, l, x), o, x).size = m.size
                /\ K[l] = N[l] \ {x} /\ K[o] = N[o] \cup {x}
                /\ \A u \in Lists : u # l /\ u # o => K[u] = N[u]
                /\ Headers(K) = Headers(N)
<1> DEFINE T == N[l] \ {x}
           J == [N EXCEPT ![l] = T]
           I == N[o] \cup {x}
           K == [J EXCEPT ![o] = I]
<1>1. PICK w, v : w = remove(m, l, x) /\ v = insert(w, o, x)
  OBVIOUS
<1>2. /\ N \in Partitions /\ T \subseteq Blocks /\ I \subseteq Blocks /\ x \in Blocks
      /\ \A u \in Lists : u # l => x \notin N[u]
  BY ShapeFacts DEF Shape
<1>3. Changed(N, J, l, T)
  BY <1>2 DEF Changed, Partitions
<1>4. J[o] = N[o]
  BY <1>3 DEF Changed
<1>5. Changed(J, K, o, J[o] \cup {x})
  BY <1>2, <1>3, <1>4 DEF Changed, Partitions
<1>6. \A u \in Lists : x \notin J[u]
  BY <1>2, <1>3 DEF Changed
<1> HIDE DEF J, K
<1>7. Shape(w, J) /\ w.size = m.size
  BY <1>1, <1>3, ShapeRemoves
<1>8. x \in Blocks \ Headers(J)
  BY <1>2, <1>6 DEF Headers, Lists
<1>9. Shape(v, K) /\ v.size = w.size
  BY <1>1, <1>5, <1>7, <1>8, ShapeInserts
<1>10. /\ K[l] = N[l] \ {x} /\ K[o] = N[o] \cup {x}
       /\ \A u \in Lists : u # l /\ u # o => K[u] = N[u]
  BY <1>3, <1>4, <1>5 DEF Changed
<1>11. Headers(K) = Headers(N)
  <2>1. \A b : (\E u \in Lists : b \in K[u]) <=> \E u \in Lists : b \in N[u]
    BY <1>10
  <2>2. \A L, b : b \in Headers(L) <=> \E u \in Lists : b \in L[u]
    BY DEF Headers, Lists
  <2>3. \A b : b \in Headers(K) <=> b \in Headers(N)
    BY <2>1, <2>2, Zenon
  <2> QED  BY <2>3 DEF Headers
<1> QED  BY <1>1, <1>7, <1>9, <1>10, <1>11

\* Only the sizes matter to the row of segments.
LEMMA TiledSize ==
  ASSUME NEW m, NEW w, w.size = m.size, NEW H, Tiled(m, H)
  PROVE  Tiled(w, H)
BY DEF Tiled

\* What memFree_ makes of a heap.
Freed(m, o, x) ==
  LET freed  == insert(remove(m, o, x), "free", x)
      merged == merge(freed, x)
      before == merged.prev[x]
  IN  IF before = NullPtr THEN merged ELSE merge(merged, before)

\* memFree_ keeps a heap whole.
LEMMA HeapFrees ==
  ASSUME NEW m, NEW N, IsHeap(m, N), NEW o \in Owned, NEW x \in N[o]
  PROVE  \E K : IsHeap(Freed(m, o, x), K) /\ Gives(N, K, m, Freed(m, o, x), o, N[o] \ {x})
<1>1. PICK freed : freed = insert(remove(m, o, x), "free", x)
  OBVIOUS
<1>2. PICK merged : merged = merge(freed, x)
  OBVIOUS
<1>3. PICK p : p = merged.prev[x]
  OBVIOUS
<1>4. Freed(m, o, x) = IF p = NullPtr THEN merged ELSE merge(merged, p)
  BY <1>1, <1>2, <1>3 DEF Freed
<1>5. o \in Lists /\ o # "free" /\ "free" \in Lists
  BY OwnedLists DEF Lists
<1>6. Shape(m, N) /\ Tiled(m, Headers(N)) /\ Unmerged(m, N["free"]) = {}
  BY DEF IsHeap
<1>7. PICK I : /\ Shape(freed, I) /\ freed.size = m.size
               /\ I[o] = N[o] \ {x} /\ I["free"] = N["free"] \cup {x}
               /\ \A u \in Lists : u # o /\ u # "free" => I[u] = N[u]
               /\ Headers(I) = Headers(N)
  BY <1>1, <1>5, <1>6, HeadersMove
<1>8. Tiled(freed, Headers(I))
  BY <1>6, <1>7, TiledSize
<1>9. /\ x \in Blocks /\ x \in Nat /\ x # NullPtr
      /\ freed \in MSHs /\ I["free"] \subseteq Headers(I)
      /\ I["free"] \subseteq Blocks /\ Headers(I) \subseteq Blocks
  BY <1>5, <1>6, <1>7, ShapeFacts, HeapFacts
<1>10. \A b \in Unmerged(freed, I["free"]) : b = x \/ b + freed.size[b] = x
  <2> SUFFICES ASSUME NEW b \in I["free"], b # x, b + freed.size[b] \in I["free"],
                      b + freed.size[b] # x
               PROVE  FALSE
    BY DEF Unmerged
  <2>1. b \in N["free"] /\ b + m.size[b] \in N["free"]
    BY <1>7
  <2> QED  BY <1>6, <2>1 DEF Unmerged
<1>11. freed.next[x] \notin Unmerged(freed, I["free"])
  <2> SUFFICES ASSUME NEW n, n = freed.next[x], n \in Unmerged(freed, I["free"])
               PROVE  FALSE
    OBVIOUS
  <2>1. n \in I["free"] /\ n # NullPtr /\ x \in I["free"]
    BY <1>7, <1>9, HeapFacts DEF Unmerged
  <2>2. x < n
    BY <1>5, <1>7, <2>1, ShapeFacts DEF Linked, NextIn
  <2>3. n < n + freed.size[n] /\ n + freed.size[n] \in Nat
    BY <1>8, <1>9, <2>1, EndIsHeader
  <2>4. n = x \/ n + freed.size[n] = x
    BY <1>10
  <2>5. n \in Nat
    BY <1>9, <2>1, HeapFacts
  <2> QED  BY <1>9, <2>2, <2>3, <2>4, <2>5
<1>12. PICK J : MergedAt(freed, I, x, merged, J)
  <2>1. x \in I["free"]
    BY <1>7
  <2> QED  BY <1>2, <1>7, <1>8, <1>11, <2>1, MergesAt
<1>13. /\ Shape(merged, J) /\ Tiled(merged, Headers(J))
       /\ x \in J["free"] /\ J["free"] \subseteq I["free"]
       /\ \A u \in Owned : J[u] = I[u] /\ \A b \in I[u] : merged.size[b] = freed.size[b]
       /\ Unmerged(merged, J["free"]) \subseteq Unmerged(freed, I["free"]) \ {x}
  BY <1>12, OwnedLists DEF MergedAt
<1>14. /\ merged \in MSHs /\ PrevIn(J["free"], x, p)
       /\ J["free"] \subseteq Headers(J) /\ Headers(J) \subseteq Blocks
  BY <1>3, <1>5, <1>13, ShapeFacts DEF Linked
<1>15. \A b \in Unmerged(merged, J["free"]) : b = p /\ p # NullPtr
  <2> SUFFICES ASSUME NEW b \in Unmerged(merged, J["free"]) PROVE b = p /\ p # NullPtr
    OBVIOUS
  <2>1. b \in J["free"] /\ b + merged.size[b] \in J["free"] /\ b # x
    BY <1>13 DEF Unmerged
  <2>2. b + freed.size[b] = x
    BY <1>10, <1>13
  <2>3. freed.size[b] \in Nat /\ freed.size[b] >= 1 /\ b \in Nat /\ b \in Blocks
    <3>1. b \in Headers(I) /\ b \in Blocks /\ b \in Nat
      BY <1>9, <1>13, <2>1, HeapFacts
    <3> QED  BY <1>8, <1>9, <3>1, MSHFields DEF Tiled
  <2>4. b < x
    BY <1>9, <2>2, <2>3
  <2>5. p # NullPtr /\ p \in J["free"] /\ p < x /\ b <= p
    <3>1. ~(x <= b) /\ b \in J["free"]
      BY <1>9, <2>1, <2>3, <2>4
    <3>2. p \in J["free"] /\ p < x /\ b <= p
      BY <1>14, <3>1 DEF PrevIn
    <3> QED  BY <1>14, <3>2, HeapFacts
  <2>6. p \in Nat /\ p \in Headers(I) /\ b \in Headers(I)
    BY <1>9, <1>13, <2>1, <2>5, HeapFacts
  <2>7. b < p => b + freed.size[b] <= p
    BY <1>8, <2>6 DEF Tiled
  <2> QED  BY <1>9, <2>2, <2>3, <2>5, <2>6, <2>7
<1>16. CASE p = NullPtr
  <2>1. IsHeap(merged, J)
    BY <1>13, <1>15, <1>16 DEF IsHeap
  <2>2. Gives(N, J, m, merged, o, N[o] \ {x})
    BY <1>7, <1>13, OwnedLists DEF Gives
  <2> QED  BY <1>4, <1>16, <2>1, <2>2
<1>17. CASE p # NullPtr
  <2>1. PICK v : v = merge(merged, p)
    OBVIOUS
  <2>2. p \in J["free"]
    BY <1>14, <1>17 DEF PrevIn
  <2>3. merged.next[p] \notin Unmerged(merged, J["free"])
    <3> SUFFICES ASSUME merged.next[p] = p PROVE FALSE
      BY <1>15
    <3> QED  BY <1>13, <1>14, <1>17, <2>2, HeapFacts DEF Shape, Ascending
  <2>4. PICK K : MergedAt(merged, J, p, v, K)
    BY <1>13, <2>1, <2>2, <2>3, MergesAt
  <2>5. /\ Shape(v, K) /\ Tiled(v, Headers(K))
        /\ \A u \in Owned : K[u] = J[u] /\ \A b \in J[u] : v.size[b] = merged.size[b]
        /\ Unmerged(v, K["free"]) \subseteq Unmerged(merged, J["free"]) \ {p}
    BY <2>4, OwnedLists DEF MergedAt
  <2>6. IsHeap(v, K)
    BY <1>15, <2>5 DEF IsHeap
  <2>7. Gives(N, K, m, v, o, N[o] \ {x})
    BY <1>7, <1>13, <2>5, OwnedLists DEF Gives
  <2> QED  BY <1>4, <1>17, <2>1, <2>6, <2>7
<1> QED  BY <1>16, <1>17

\* What memAlloc_ makes of a heap when it takes n blocks of the segment x.
Took(m, o, x, n) ==
  insert(IF m.size[x] = n THEN remove(m, "free", x) ELSE reduce(m, x, n), o, x)

\* memAlloc_ keeps a heap whole.
LEMMA HeapAllocates ==
  ASSUME NEW m, NEW N, IsHeap(m, N), NEW o \in Owned, NEW n \in Nat, n > 0,
         NEW x \in N["free"], m.size[x] >= n
  PROVE  /\ x \notin N[o]
         /\ \E K : /\ IsHeap(Took(m, o, x, n), K)
                   /\ Gives(N, K, m, Took(m, o, x, n), o, N[o] \cup {x})
                   /\ Took(m, o, x, n).size[x] = n
<1>1. PICK w, F : w = Took(m, o, x, n) /\ F = N["free"]
  OBVIOUS
<1>2. o \in Lists /\ o # "free" /\ "free" \in Lists
  BY OwnedLists DEF Lists
<1>3. Shape(m, N) /\ Tiled(m, Headers(N)) /\ Unmerged(m, F) = {}
  BY <1>1 DEF IsHeap
<1>4. /\ m \in MSHs /\ F \subseteq Headers(N) /\ Headers(N) \subseteq Blocks
      /\ F \subseteq Blocks /\ N \in Partitions
      /\ x \in Headers(N) /\ x \in Blocks /\ x \in Nat /\ m.size[x] \in Nat
      /\ \A u \in Lists : u # "free" => N[u] \cap F = {} /\ N[u] \subseteq Headers(N)
  <2>1. /\ m \in MSHs /\ F \subseteq Headers(N) /\ Headers(N) \subseteq Blocks
        /\ F \subseteq Blocks /\ N \in Partitions
        /\ \A u \in Lists : u # "free" => N[u] \cap F = {} /\ N[u] \subseteq Headers(N)
    BY <1>1, <1>2, <1>3, ShapeFacts DEF Shape
  <2> QED  BY <1>1, <2>1, HeapFacts, MSHFields
<1>5. x \notin N[o]
  BY <1>1, <1>2, <1>4
<1>6. CASE m.size[x] = n
  <2>1. w = insert(remove(m, "free", x), o, x)
    BY <1>1, <1>6 DEF Took
  <2>2. PICK K : /\ Shape(w, K) /\ w.size = m.size
                 /\ K["free"] = F \ {x} /\ K[o] = N[o] \cup {x}
                 /\ \A u \in Lists : u # "free" /\ u # o => K[u] = N[u]
                 /\ Headers(K) = Headers(N)
    BY <1>1, <1>2, <1>3, <2>1, HeadersMove
  <2>3. Tiled(w, Headers(K))
    BY <1>3, <2>2, TiledSize
  <2>4. Unmerged(w, K["free"]) = {}
    BY <1>3, <2>2 DEF Unmerged
  <2>5. Gives(N, K, m, w, o, N[o] \cup {x})
    BY <2>2, OwnedLists DEF Gives
  <2>6. IsHeap(w, K)
    BY <2>2, <2>3, <2>4 DEF IsHeap
  <2> QED  BY <1>1, <1>5, <1>6, <2>2, <2>5, <2>6
<1>7. CASE m.size[x] # n
  <2>1. PICK t, new : t = reduce(m, x, n) /\ new = x + n
    OBVIOUS
  <2>2. w = insert(t, o, x)
    BY <1>1, <1>7, <2>1 DEF Took
  <2>3. n < m.size[x]
    BY <1>4, <1>7
  <2>4. /\ new \in Blocks /\ new \notin Headers(N)
        /\ \A v : SplitSizes(m, v, x, n, new) => Tiled(v, Headers(N) \cup {new})
    BY <1>3, <1>4, <2>1, <2>3, TiledSplits
  <2>5. new \in Nat /\ x < new /\ new < x + m.size[x]
    BY <1>4, <2>1, <2>3
  <2>6. SplitsAt(m, F, x, n, new)
    <3>1. ASSUME NEW c \in F PROVE c <= x \/ new < c
      <4>1. c \in Headers(N) /\ c \in Nat
        BY <1>4, HeapFacts
      <4>2. x < c => x + m.size[x] <= c
        BY <1>3, <1>4, <4>1 DEF Tiled
      <4> QED  BY <1>4, <2>5, <4>1, <4>2
    <3> QED  BY <2>1, <2>3, <3>1 DEF SplitsAt
  <2> DEFINE T == (F \ {x}) \cup {new}
             J == [N EXCEPT !["free"] = T]
             I == N[o] \cup {x}
             K == [J EXCEPT ![o] = I]
  <2>7. Changed(N, J, "free", T)
    BY <1>2, <1>4, <2>4 DEF Changed, Partitions
  <2>8. J[o] = N[o] /\ I \subseteq Blocks
    BY <1>2, <1>4, <2>7, ShapeFacts DEF Changed
  <2>9. Changed(J, K, o, J[o] \cup {x})
    BY <1>2, <2>7, <2>8 DEF Changed, Partitions
  <2>10. \A u \in Lists : x \notin J[u]
    BY <1>1, <1>4, <2>4, <2>5, <2>7 DEF Changed
  <2> HIDE DEF J, K
  <2>11. Shape(t, J) /\ SplitSizes(m, t, x, n, new)
    BY <1>1, <1>3, <2>1, <2>4, <2>6, <2>7, ShapeReduces
  <2>12. x \in Blocks \ Headers(J)
    BY <1>4, <2>10 DEF Headers, Lists
  <2>13. Shape(w, K) /\ w.size = t.size
    BY <1>2, <2>2, <2>9, <2>11, <2>12, ShapeInserts
  <2>14. /\ K["free"] = T /\ K[o] = N[o] \cup {x}
         /\ \A u \in Lists : u # "free" /\ u # o => K[u] = N[u]
    BY <1>2, <2>7, <2>8, <2>9 DEF Changed
  <2>15. Headers(K) = Headers(N) \cup {new}
    <3>1. \A L, b : b \in Headers(L) <=> \E u \in Lists : b \in L[u]
      BY DEF Headers, Lists
    <3>2. \A b : (\E u \in Lists : b \in K[u]) <=> (\E u \in Lists : b \in N[u]) \/ b = new
      BY <1>1, <1>2, <2>14
    <3> QED  BY <3>1, <3>2
  <2>16. SplitSizes(m, w, x, n, new)
    BY <2>11, <2>13 DEF SplitSizes
  <2>17. Tiled(w, Headers(K))
    BY <2>4, <2>15, <2>16
  <2>18. /\ w.size[x] = n /\ w.size[new] = m.size[x] - n
         /\ \A b \in Headers(N) \ {x} : w.size[b] = m.size[b]
    BY <1>4, <2>4, <2>5, <2>16 DEF SplitSizes
  <2>19. Unmerged(w, K["free"]) = {}
    <3> SUFFICES ASSUME NEW b \in T, b + w.size[b] \in T PROVE FALSE
      BY <2>14 DEF Unmerged
    <3>1. CASE b = new
      <4>1. b + w.size[b] = x + m.size[x]
        BY <1>4, <2>1, <2>18, <3>1
      <4>2. x + m.size[x] \in F
        BY <1>4, <2>5, <4>1
      <4> QED  BY <1>1, <1>3, <4>2 DEF Unmerged
    <3>2. CASE b # new
      <4>1. b \in F /\ b \in Headers(N) /\ w.size[b] = m.size[b]
        BY <1>4, <2>18, <3>2
      <4>2. b + m.size[b] # new
        BY <1>3, <1>4, <2>4, <4>1, EndIsHeader, HeapFacts
      <4>3. b + m.size[b] \in F
        BY <4>1, <4>2
      <4> QED  BY <1>3, <4>1, <4>3 DEF Unmerged
    <3> QED  BY <3>1, <3>2
  <2>20. Gives(N, K, m, w, o, N[o] \cup {x})
    <3>1. ASSUME NEW u \in Owned, NEW b \in K[u] \cap N[u]
          PROVE  w.size[b] = m.size[b]
      <4>1. u \in Lists /\ u # "free"
        BY OwnedLists
      <4>2. b \in Headers(N) /\ b # x
        BY <1>1, <1>4, <4>1
      <4> QED  BY <2>18, <4>2
    <3> QED  BY <2>14, <3>1, OwnedLists DEF Gives
  <2>21. IsHeap(w, K)
    BY <2>13, <2>17, <2>19 DEF IsHeap
  <2> QED  BY <1>1, <1>5, <2>18, <2>20, <2>21
<1> QED  BY <1>6, <1>7

-----------------------------------------------------------------------------
(***************************************************************************)
(* Nodes follows the links of a list and finds the headers of it.          *)
(***************************************************************************)
\* One step of the function that Nodes defines.
Up(m, S) == (S \cup {m.next[b] : b \in S \ {NullPtr}}) \ {NullPtr}

\* f is that function, up to k.
Climbs(m, l, k, f) ==
  f = [i \in 0 .. k |-> Up(m, IF i = 0 THEN {m.head[l]} ELSE f[i - 1])]

\* There is such a function.
LEMMA ClimbExists ==
  ASSUME NEW m, NEW l, NEW k \in Nat
  PROVE  \E f : Climbs(m, l, k, f)
<1> DEFINE T == {j \in Nat : ~ \E f : Climbs(m, l, j, f)}
<1>1. SUFFICES ASSUME T # {} PROVE FALSE
  OBVIOUS
<1>2. PICK j \in T : \A y \in T : j <= y
  <2>1. T \subseteq Nat
    OBVIOUS
  <2> HIDE DEF T
  <2> QED  BY <1>1, <2>1, LeastNat
<1>3. j \in Nat /\ ~ \E f : Climbs(m, l, j, f)
  OBVIOUS
<1>4. CASE j = 0
  <2> DEFINE f == [i \in 0 .. j |-> Up(m, {m.head[l]})]
  <2>1. \A i \in 0 .. j : i = 0
    BY <1>4
  <2>2. f = [i \in 0 .. j |-> Up(m, IF i = 0 THEN {m.head[l]} ELSE f[i - 1])]
    BY <2>1
  <2>3. Climbs(m, l, j, f)
    BY <2>2 DEF Climbs
  <2> QED  BY <1>3, <2>3
<1>5. CASE j # 0
  <2>1. j - 1 \in Nat /\ j - 1 \notin T
    <3>1. j - 1 \in Nat /\ ~(j <= j - 1)
      BY <1>3, <1>5
    <3> QED  BY <1>2, <3>1
  <2>2. PICK g : Climbs(m, l, j - 1, g)
    BY <2>1
  <2> HIDE DEF T
  <2> DEFINE f == [i \in 0 .. j |-> IF i = j THEN Up(m, g[j - 1]) ELSE g[i]]
  <2>3. ASSUME NEW i \in 0 .. j
        PROVE  f[i] = Up(m, IF i = 0 THEN {m.head[l]} ELSE f[i - 1])
    <3>1. \A h \in 0 .. j - 1 : f[h] = g[h]
      BY <1>3
    <3>2. CASE i = j
      <4>1. j - 1 \in 0 .. j - 1
        BY <2>1
      <4>2. f[i - 1] = g[j - 1]
        BY <3>1, <3>2, <4>1
      <4>3. f[i] = Up(m, g[j - 1])
        BY <3>2
      <4> HIDE DEF f
      <4> QED  BY <1>5, <3>2, <4>2, <4>3
    <3>3. CASE i # j
      <4>1. i \in 0 .. j - 1
        BY <1>3, <3>3
      <4>2. g[i] = Up(m, IF i = 0 THEN {m.head[l]} ELSE g[i - 1])
        BY <2>2, <4>1 DEF Climbs
      <4>3. i # 0 => f[i - 1] = g[i - 1]
        <5> SUFFICES ASSUME i # 0 PROVE i - 1 \in 0 .. j - 1
          BY <3>1
        <5> HIDE DEF f
        <5> QED  BY <1>3, <4>1
      <4>4. f[i] = g[i]
        BY <3>1, <4>1
      <4> HIDE DEF f
      <4> QED  BY <4>2, <4>3, <4>4
    <3> QED  BY <3>2, <3>3
  <2>4. f = [i \in 0 .. j |-> f[i]]
    OBVIOUS
  <2> HIDE DEF f
  <2>5. Climbs(m, l, j, f)
    BY <2>3, <2>4 DEF Climbs
  <2> QED  BY <1>3, <2>5
<1> QED  BY <1>4, <1>5

\* Following the links from the head finds the headers of the list, and no
\* others.
LEMMA NodesAreThose ==
  ASSUME NEW m, NEW N, Shape(m, N), NEW l \in Lists
  PROVE  Nodes(m, l) = N[l]
<1> DEFINE f == CHOOSE f : Climbs(m, l, HeapBlocks, f)
<1>1. PICK S, h : S = N[l] /\ h = m.head[l]
  OBVIOUS
<1>2. Nodes(m, l) = f[HeapBlocks]
  BY DEF Nodes, Climbs, Up
<1>3. Climbs(m, l, HeapBlocks, f)
  BY ClimbExists, HeapFacts
<1> HIDE DEF f
<1>4. /\ \A i \in 0 .. HeapBlocks : f[i] = Up(m, IF i = 0 THEN {h} ELSE f[i - 1])
      /\ HeapBlocks \in Nat
  BY <1>1, <1>3, HeapFacts DEF Climbs
<1>5. /\ NextIn(S, NullPtr, h)
      /\ \A b \in S : NextIn(S, b, m.next[b]) /\ PrevIn(S, b, m.prev[b])
      /\ \A b \in S : b \in Nat /\ b # NullPtr /\ HeapStart <= b /\ b < Top
  BY <1>1, ShapeFacts, HeapFacts DEF Linked
<1>6. \A X, Y : X \subseteq S \cup {NullPtr} /\ Y = Up(m, X) =>
        /\ Y \subseteq S /\ X \ {NullPtr} \subseteq Y
        /\ \A b \in X \cap S : m.next[b] # NullPtr => m.next[b] \in Y
  BY <1>5 DEF NextIn, Up
<1>7. \A i \in 0 .. HeapBlocks : f[i] \subseteq S
  <2> DEFINE T == {i \in 0 .. HeapBlocks : ~(f[i] \subseteq S)}
  <2> SUFFICES ASSUME T # {} PROVE FALSE
    OBVIOUS
  <2>1. PICK i \in T : \A y \in T : i <= y
    <3>1. T \subseteq Nat
      OBVIOUS
    <3> HIDE DEF T
    <3> QED  BY <3>1, LeastNat
  <2>2. i \in 0 .. HeapBlocks /\ i \in Nat /\ ~(f[i] \subseteq S)
    OBVIOUS
  <2>3. CASE i = 0
    <3>1. f[i] = Up(m, {h})
      BY <1>4, <2>2, <2>3
    <3>2. {h} \subseteq S \cup {NullPtr}
      BY <1>5 DEF NextIn
    <3> QED  BY <1>6, <2>2, <3>1, <3>2
  <2>4. CASE i # 0
    <3>1. i - 1 \in 0 .. HeapBlocks /\ ~(i <= i - 1)
      BY <1>4, <2>2, <2>4
    <3>2. f[i - 1] \subseteq S
      BY <2>1, <3>1
    <3>3. f[i] = Up(m, f[i - 1])
      BY <1>4, <2>2, <2>4
    <3> QED  BY <1>6, <2>2, <3>2, <3>3
  <2> QED  BY <2>3, <2>4
<1>8. \A i \in 1 .. HeapBlocks :
        /\ i - 1 \in 0 .. HeapBlocks /\ i \in 0 .. HeapBlocks
        /\ f[i - 1] \subseteq f[i]
        /\ \A b \in f[i - 1] : m.next[b] # NullPtr => m.next[b] \in f[i]
  <2> SUFFICES ASSUME NEW i \in 1 .. HeapBlocks
               PROVE  /\ i - 1 \in 0 .. HeapBlocks /\ i \in 0 .. HeapBlocks
                      /\ f[i - 1] \subseteq f[i]
                      /\ \A b \in f[i - 1] : m.next[b] # NullPtr => m.next[b] \in f[i]
    OBVIOUS
  <2>1. i - 1 \in 0 .. HeapBlocks /\ i \in 0 .. HeapBlocks /\ i # 0
    BY <1>4
  <2>2. f[i - 1] \subseteq S /\ f[i] = Up(m, f[i - 1])
    BY <1>4, <1>7, <2>1
  <2>3. NullPtr \notin f[i - 1]
    BY <1>5, <2>2
  <2> QED  BY <1>6, <2>1, <2>2, <2>3
<1>9. h # NullPtr => \A i \in 0 .. HeapBlocks : h \in f[i]
  <2> SUFFICES ASSUME h # NullPtr, \E i \in 0 .. HeapBlocks : h \notin f[i] PROVE FALSE
    OBVIOUS
  <2> DEFINE T == {i \in 0 .. HeapBlocks : h \notin f[i]}
  <2>1. PICK i \in T : \A y \in T : i <= y
    <3>1. T \subseteq Nat /\ T # {}
      OBVIOUS
    <3> HIDE DEF T
    <3> QED  BY <3>1, LeastNat
  <2>2. i \in 0 .. HeapBlocks /\ i \in Nat /\ h \notin f[i]
    OBVIOUS
  <2>3. CASE i = 0
    <3>1. f[i] = Up(m, {h})
      BY <1>4, <2>2, <2>3
    <3> QED  BY <2>2, <3>1 DEF Up
  <2>4. CASE i # 0
    <3>1. i \in 1 .. HeapBlocks /\ ~(i <= i - 1)
      BY <1>4, <2>2, <2>4
    <3>2. i - 1 \in 0 .. HeapBlocks /\ f[i - 1] \subseteq f[i]
      BY <1>8, <3>1
    <3>3. h \in f[i - 1]
      BY <2>1, <3>1, <3>2
    <3> QED  BY <2>2, <3>2, <3>3
  <2> QED  BY <2>3, <2>4
<1>10. \A i \in 0 .. HeapBlocks : \A b \in S : b - HeapStart <= i => b \in f[i]
  <2> DEFINE T == {i \in 0 .. HeapBlocks : \E b \in S : b - HeapStart <= i /\ b \notin f[i]}
  <2> SUFFICES ASSUME T # {} PROVE FALSE
    OBVIOUS
  <2>1. PICK i \in T : \A y \in T : i <= y
    <3>1. T \subseteq Nat
      OBVIOUS
    <3> HIDE DEF T
    <3> QED  BY <3>1, LeastNat
  <2>2. i \in 0 .. HeapBlocks /\ i \in Nat
    OBVIOUS
  <2>3. PICK b \in S : b - HeapStart <= i /\ b \notin f[i]
    OBVIOUS
  <2>4. PICK p : p = m.prev[b] /\ PrevIn(S, b, p)
    BY <1>5
  <2>5. CASE p = NullPtr
    <3>1. h # NullPtr /\ h \in S /\ h <= b
      BY <1>5, HeapFacts DEF NextIn
    <3>2. b <= h
      BY <2>4, <2>5, <1>5, <3>1, HeapFacts DEF PrevIn
    <3>3. h = b
      BY <1>5, <3>1, <3>2
    <3> QED  BY <1>9, <2>2, <2>3, <3>1, <3>3
  <2>6. CASE p # NullPtr
    <3>1. p \in S /\ p < b
      BY <2>4, <2>6 DEF PrevIn
    <3>2. p \in Nat /\ b \in Nat /\ HeapStart <= p /\ HeapStart \in Nat
      BY <1>5, <3>1, HeapFacts
    <3>3. i \in 1 .. HeapBlocks /\ ~(i <= i - 1) /\ p - HeapStart <= i - 1
      BY <1>4, <2>2, <2>3, <3>1, <3>2
    <3>4. i - 1 \in 0 .. HeapBlocks
      BY <1>8, <3>3
    <3>5. p \in f[i - 1]
      BY <2>1, <3>1, <3>3, <3>4
    <3>6. PICK n : n = m.next[p] /\ NextIn(S, p, n)
      BY <1>5, <3>1
    <3>7. n \in S /\ n # NullPtr /\ p < n /\ n <= b
      <4>1. ~(b <= p)
        BY <3>1, <3>2
      <4>2. n \in S /\ p < n /\ n <= b
        BY <3>6, <4>1 DEF NextIn
      <4> QED  BY <1>5, <4>2
    <3>8. b <= n
      <4>1. n \in Nat
        BY <1>5, <3>7
      <4>2. n <= p \/ b <= n
        BY <2>4, <2>6, <3>7 DEF PrevIn
      <4> QED  BY <3>2, <3>7, <4>1, <4>2
    <3>9. n = b
      BY <1>5, <3>2, <3>7, <3>8
    <3>10. m.next[p] # NullPtr /\ m.next[p] = b
      BY <3>6, <3>7, <3>9
    <3>11. m.next[p] \in f[i]
      BY <1>8, <3>3, <3>5, <3>10
    <3> QED  BY <2>3, <3>10, <3>11
  <2> QED  BY <2>5, <2>6
<1>11. S \subseteq f[HeapBlocks]
  <2>1. ASSUME NEW b \in S PROVE b - HeapStart <= HeapBlocks
    BY <1>5, HeapFacts
  <2>2. HeapBlocks \in 0 .. HeapBlocks
    BY <1>4
  <2> QED  BY <1>10, <2>1, <2>2
<1>12. f[HeapBlocks] \subseteq S
  <2>1. HeapBlocks \in 0 .. HeapBlocks
    BY <1>4
  <2> QED  BY <1>7, <2>1
<1> QED  BY <1>1, <1>2, <1>11, <1>12

\* The lists of a whole heap are determined by its links.
LEMMA LayoutIs ==
  ASSUME NEW m, NEW N, IsHeap(m, N)
  PROVE  Layout(m) = N /\ IsHeap(m, Layout(m))
<1>1. \A l \in Lists : Nodes(m, l) = N[l]
  BY NodesAreThose DEF IsHeap
<1>2. N = [l \in Lists |-> N[l]]
  BY DEF IsHeap, Shape, Partitions
<1>3. Layout(m) = N
  BY <1>1, <1>2 DEF Layout
<1> QED  BY <1>3

-----------------------------------------------------------------------------
(***************************************************************************)
(* The invariant.                                                          *)
(***************************************************************************)
\* MemoryManager::init leaves one free segment.
LEMMA HeapStarts == Init => HeapInv /\ \A o \in Owned : Nodes(msh, o) = {}
<1> SUFFICES ASSUME Init PROVE HeapInv /\ \A o \in Owned : Nodes(msh, o) = {}
  OBVIOUS
<1> DEFINE F == {HeapStart}
           N == [l \in Lists |-> IF l = "free" THEN F ELSE {}]
<1>1. PICK m : m = msh
  OBVIOUS
<1>2. /\ HeapStart \in Blocks /\ Top \in Nat /\ Top = HeapStart + HeapBlocks
      /\ "free" \in Lists /\ "system" \in Lists /\ "user" \in Lists
  BY HeapFacts DEF Lists
<1>3. /\ m.head = [l \in Lists |-> IF l = "free" THEN HeapStart ELSE NullPtr]
      /\ m.prev = [b \in Blocks |-> NullPtr] /\ m.next = [b \in Blocks |-> NullPtr]
      /\ m.size = [b \in Blocks |-> IF b = HeapStart THEN HeapBlocks ELSE 0]
  BY <1>1 DEF Init
<1>4. m \in MSHs
  <2>1. HeapBlocks \in Nat /\ 0 \in Nat /\ HeapStart \in Links /\ NullPtr \in Links
    BY <1>2, HeapFacts
  <2> QED  BY <1>1, <2>1 DEF Init, MSHs
<1>5. N \in Partitions /\ N["free"] = F /\ N["system"] = {} /\ N["user"] = {}
  BY <1>2 DEF Partitions
<1> HIDE DEF N
<1>6. ASSUME NEW l \in Lists PROVE Linked(m, l, N[l])
  <2>1. CASE l = "free"
    <3>1. NextIn(F, NullPtr, m.head[l])
      BY <1>2, <1>3, <2>1, HeapFacts DEF NextIn
    <3>2. NextIn(F, HeapStart, m.next[HeapStart]) /\ PrevIn(F, HeapStart, m.prev[HeapStart])
      BY <1>2, <1>3, HeapFacts DEF NextIn, PrevIn
    <3> QED  BY <1>5, <2>1, <3>1, <3>2 DEF Linked
  <2>2. CASE l # "free"
    <3>1. N[l] = {} /\ m.head[l] = NullPtr
      BY <1>3, <1>5, <2>2 DEF Lists
    <3> QED  BY <3>1 DEF Linked, NextIn
  <2> QED  BY <2>1, <2>2
<1>7. Ascending(m) /\ Disjoint(N)
  BY <1>3, <1>5 DEF Ascending, Disjoint, Lists
<1>8. Headers(N) = F
  BY <1>5 DEF Headers
<1>9. Tiled(m, F)
  <2>1. m.size[HeapStart] = HeapBlocks
    BY <1>2, <1>3
  <2>2. \A c \in Blocks : HeapStart <= c /\ c < HeapStart + HeapBlocks
    BY HeapFacts
  <2> QED  BY <1>2, <2>1, <2>2, HeapFacts DEF Tiled
<1>10. Unmerged(m, F) = {}
  <2>1. m.size[HeapStart] = HeapBlocks
    BY <1>2, <1>3
  <2>2. HeapStart + HeapBlocks # HeapStart
    BY HeapFacts
  <2> QED  BY <2>1, <2>2 DEF Unmerged
<1>11. IsHeap(m, N)
  BY <1>4, <1>5, <1>6, <1>7, <1>8, <1>9, <1>10 DEF IsHeap, Shape
<1>12. Layout(msh) = N /\ HeapInv
  BY <1>1, <1>11, LayoutIs DEF HeapInv
<1>13. \A o \in Owned : Nodes(msh, o) = N[o]
  BY <1>12, OwnedLists DEF Layout
<1> QED  BY <1>5, <1>12, <1>13 DEF Owned

\* What memAlloc_ does, in terms of the layout: it takes n blocks, the header
\* among them, of the first free segment that is large enough.
Takes(o, n) ==
  \/ /\ \A b \in Nodes(msh, "free") : msh.size[b] < n
     /\ result' = NullPtr /\ msh' = msh
  \/ \E x \in Nodes(msh, "free") :
       /\ msh.size[x] >= n
       /\ \A b \in Nodes(msh, "free") : b < x => msh.size[b] < n
       /\ result' = x + 1 /\ msh' = Took(msh, o, x, n)

\* memAlloc_ takes the first segment that fits.
LEMMA AllocTakes ==
  ASSUME HeapInv, NEW o \in Owned, NEW nBlocks \in Nat, nBlocks + 1 < SizeMod,
         memAlloc_(nBlocks, o)
  PROVE  Takes(o, nBlocks + 1)
<1>1. PICK n : n = nBlocks + 1 /\ n \in Nat
  OBVIOUS
<1>2. PICK x, F : x = findBySize(msh, n) /\ F = Nodes(msh, "free")
  OBVIOUS
<1>3. (nBlocks + 1) % SizeMod = n
  <2>1. SizeMod \in Nat /\ SizeMod > 0
    BY SizesAssumption, HeapAssumption
  <2>2. \A a, b \in Nat : b > 0 /\ a < b => a % b = a
    OBVIOUS
  <2> QED  BY <1>1, <2>1, <2>2
<1>4. /\ msh \in MSHs /\ F \in SUBSET Blocks /\ Linked(msh, "free", F) /\ Ascending(msh)
  <2>1. Shape(msh, Layout(msh)) /\ Layout(msh)["free"] = F
    BY <1>2 DEF HeapInv, IsHeap, Layout, Lists
  <2> QED  BY <2>1, ShapeFacts
<1>5. FirstFit(msh, F, n, x)
  BY <1>1, <1>2, <1>4, FoundBySize
<1>6. CASE x = NullPtr
  <2>1. result' = NullPtr /\ msh' = msh
    BY <1>2, <1>3, <1>6 DEF memAlloc_
  <2>2. NullPtr \notin F
    BY <1>4, HeapFacts
  <2>3. \A b \in F : msh.size[b] < n
    BY <1>5, <1>6, <2>2 DEF FirstFit
  <2> QED  BY <1>1, <1>2, <2>1, <2>3 DEF Takes
<1>7. CASE x # NullPtr
  <2>1. result' = x + 1 /\ msh' = Took(msh, o, x, n)
    BY <1>2, <1>3, <1>7 DEF memAlloc_, Took
  <2>2. x \in F /\ msh.size[x] >= n /\ \A b \in F : b < x => msh.size[b] < n
    BY <1>5, <1>7 DEF FirstFit
  <2> QED  BY <1>1, <1>2, <2>1, <2>2 DEF Takes
<1> QED  BY <1>6, <1>7

\* What memFree_ does.
GivesBack(o, p) ==
  \/ p = NullPtr /\ result' = 0 /\ msh' = msh
  \/ /\ p # NullPtr /\ p - 1 \notin Nodes(msh, o)
     /\ result' = ERR_MEM_FREE /\ msh' = msh
  \/ /\ p # NullPtr /\ p - 1 \in Nodes(msh, o)
     /\ result' = 0 /\ msh' = Freed(msh, o, p - 1)

\* memFree_ knows the headers of the list, and no other address.
LEMMA FreeGivesBack ==
  ASSUME CallsInRange, HeapInv, NEW o \in Owned, NEW p \in Pointers, memFree_(p, o)
  PROVE  GivesBack(o, p)
<1>1. PICK S, x, v : S = Nodes(msh, o) /\ x = p - 1 /\ v = findByPointer(msh, o, x)
  OBVIOUS
<1>2. o \in Lists
  BY OwnedLists
<1>3. msh \in MSHs /\ S \in SUBSET Blocks /\ Linked(msh, o, S) /\ Ascending(msh)
  <2>1. Shape(msh, Layout(msh)) /\ Layout(msh)[o] = S
    BY <1>1, <1>2 DEF HeapInv, IsHeap, Layout
  <2> QED  BY <1>2, <2>1, ShapeFacts
<1>4. p # NullPtr => x \in Nat /\ x # NullPtr
  <2>1. p \in Nat /\ p # 1
    BY HeapAssumption DEF CallsInRange, NullPtr
  <2> QED  BY <1>1, <2>1 DEF NullPtr
<1>5. ASSUME p # NullPtr PROVE x = v <=> x \in S
  <2>1. LastUpTo(S, x, v)
    BY <1>1, <1>2, <1>3, <1>4, <1>5, FoundByPointer
  <2>2. \A c \in S : c \in Nat
    BY <1>3, HeapFacts
  <2>3. x \in S => v # NullPtr
    BY <1>4, <1>5, <2>1, <2>2 DEF LastUpTo
  <2>4. x \in S => x = v
    <3> SUFFICES ASSUME x \in S PROVE x = v
      OBVIOUS
    <3>1. v \in S /\ v <= x /\ (x <= v \/ x < x)
      BY <2>1, <2>3 DEF LastUpTo
    <3> QED  BY <2>2, <3>1
  <2>5. x = v => x \in S
    BY <1>4, <1>5, <2>1 DEF LastUpTo
  <2> QED  BY <2>4, <2>5
<1>6. CASE p = NullPtr
  BY <1>6 DEF memFree_, GivesBack
<1>7. CASE p # NullPtr /\ x # v
  BY <1>1, <1>5, <1>7 DEF memFree_, GivesBack
<1>8. CASE p # NullPtr /\ x = v
  <2>1. result' = 0 /\ msh' = Freed(msh, o, x)
    BY <1>1, <1>8 DEF memFree_, Freed
  <2> QED  BY <1>1, <1>5, <1>8, <2>1 DEF GivesBack
<1> QED  BY <1>6, <1>7, <1>8

\* A number of blocks that comes from bytes never wraps again.
LEMMA RoundUpFits ==
  ASSUME NEW bytes \in Requests
  PROVE  ROUNDUP(bytes) \in Nat /\ ROUNDUP(bytes) + 1 < SizeMod
<1>1. /\ SizeMod \in Nat /\ SizeMod > 4 /\ bytes \in Nat
      /\ MemBlockSize \in Nat /\ MemBlockSize >= 2
  <2>1. MemBlockSize \in Nat /\ MemBlockSize >= 2 /\ HeapBlocks \in Nat /\ HeapBlocks >= 1
    BY HeapAssumption
  <2>2. \A h, k \in Nat : h >= 1 /\ k >= 2 => (h + 1) * k >= 4
    OBVIOUS
  <2> QED  BY <2>1, <2>2, SizesAssumption, HeapAssumption
<1>2. PICK a : a = (bytes + MemBlockSize - 1) % SizeMod
  OBVIOUS
<1>3. a \in Nat /\ a < SizeMod
  <2>1. \A x, y \in Nat : y > 0 => x % y \in Nat /\ x % y < y
    OBVIOUS
  <2>2. bytes + MemBlockSize - 1 \in Nat
    BY <1>1
  <2> QED  BY <1>1, <1>2, <2>1, <2>2
<1>4. a \div MemBlockSize \in Nat /\ 2 * (a \div MemBlockSize) <= a
  <2>1. \A x, y \in Nat : y >= 2 => x \div y \in Nat /\ y * (x \div y) <= x
    OBVIOUS
  <2>2. \A y, q \in Nat : y >= 2 => 2 * q <= y * q
    OBVIOUS
  <2>3. PICK q : q = a \div MemBlockSize
    OBVIOUS
  <2>4. q \in Nat /\ MemBlockSize * q <= a
    BY <1>1, <1>3, <2>1, <2>3
  <2>5. 2 * q <= MemBlockSize * q
    BY <1>1, <2>2, <2>4
  <2>6. PICK r : r = MemBlockSize * q /\ r \in Nat
    BY <1>1, <2>4
  <2> QED  BY <1>3, <2>3, <2>4, <2>5, <2>6
<1>5. PICK q : q = a \div MemBlockSize /\ q \in Nat /\ 2 * q <= a
  BY <1>4
<1>6. ROUNDUP(bytes) = q
  BY <1>2, <1>5 DEF ROUNDUP
<1> QED  BY <1>1, <1>3, <1>5, <1>6

\* The invariant is kept by memAlloc_,
LEMMA TakesKeeps ==
  ASSUME HeapInv, NEW o \in Owned, NEW n \in Nat, n > 0, Takes(o, n)
  PROVE  HeapInv'
<1>1. CASE msh' = msh
  BY <1>1 DEF HeapInv, Layout
<1>2. CASE msh' # msh
  <2>1. PICK x \in Nodes(msh, "free") : msh.size[x] >= n /\ msh' = Took(msh, o, x, n)
    BY <1>2 DEF Takes
  <2>2. x \in Layout(msh)["free"]
    BY <2>1 DEF Layout, Lists
  <2>3. \E K : IsHeap(Took(msh, o, x, n), K)
    BY <2>1, <2>2, HeapAllocates DEF HeapInv
  <2>4. PICK w : w = Took(msh, o, x, n)
    OBVIOUS
  <2>5. IsHeap(w, Layout(w)) /\ msh' = w
    BY <2>1, <2>3, <2>4, LayoutIs
  <2> QED  BY <2>5 DEF HeapInv
<1> QED  BY <1>1, <1>2

\* by memFree_,
LEMMA GivesBackKeeps ==
  ASSUME HeapInv, NEW o \in Owned, NEW p, GivesBack(o, p)
  PROVE  HeapInv'
<1>1. CASE msh' = msh
  BY <1>1 DEF HeapInv, Layout
<1>2. CASE msh' # msh
  <2>1. PICK x : x \in Nodes(msh, o) /\ msh' = Freed(msh, o, x)
    BY <1>2 DEF GivesBack
  <2>2. x \in Layout(msh)[o]
    BY <2>1, OwnedLists DEF Layout
  <2>3. \E K : IsHeap(Freed(msh, o, x), K)
    BY <2>2, HeapFrees DEF HeapInv
  <2>4. PICK w : w = Freed(msh, o, x)
    OBVIOUS
  <2>5. IsHeap(w, Layout(w)) /\ msh' = w
    BY <2>1, <2>3, <2>4, LayoutIs
  <2> QED  BY <2>5 DEF HeapInv
<1> QED  BY <1>1, <1>2

\* and by every step.
LEMMA HeapStays ==
  ASSUME CallsInRange, HeapInv, [Next]_mmVars
  PROVE  HeapInv'
<1>1. ASSUME NEW o \in Owned, NEW nBlocks \in Nat, nBlocks + 1 < SizeMod,
             memAlloc_(nBlocks, o)
      PROVE  HeapInv'
  <2>1. nBlocks + 1 \in Nat /\ nBlocks + 1 > 0
    OBVIOUS
  <2> QED  BY <1>1, <2>1, AllocTakes, TakesKeeps
<1>2. ASSUME NEW o \in Owned, NEW p \in Pointers, memFree_(p, o) PROVE HeapInv'
  BY <1>2, FreeGivesBack, GivesBackKeeps
<1>3. "user" \in Owned /\ "system" \in Owned
  BY DEF Owned
<1>4. ASSUME NEW o \in Owned, memAlloc_byte(o) PROVE HeapInv'
  BY <1>1, <1>4, RoundUpFits DEF memAlloc_byte
<1>5. CASE handleMemAlloc
  <2>1. PICK nBlocks \in BlockRequests : memAlloc_(nBlocks, "user")
    BY <1>5 DEF handleMemAlloc
  <2>2. nBlocks \in Nat /\ nBlocks + 1 < SizeMod
    BY HeapAssumption DEF CallsInRange
  <2> QED  BY <1>1, <1>3, <2>1, <2>2
<1>6. CASE memFree
  BY <1>2, <1>3, <1>6 DEF memFree
<1>7. CASE kMemFree
  BY <1>2, <1>3, <1>7 DEF kMemFree
<1>8. CASE UNCHANGED mmVars
  BY <1>8 DEF HeapInv, Layout, mmVars
<1> QED  BY <1>3, <1>4, <1>5, <1>6, <1>7, <1>8 DEF Next

-----------------------------------------------------------------------------
(***************************************************************************)
(* The theorems.                                                           *)
(***************************************************************************)
\* After any sequence of calls the segments lie side by side and fill the
\* heap, each header is in one ascending list that is linked both ways, and
\* no two free segments touch (see MemoryInvariant.tla).
THEOREM HeapStaysWhole ==
  ASSUME CallsInRange
  PROVE  Spec => []HeapInv
BY HeapStarts, HeapStays, PTL DEF Spec

\* A whole heap has its lists linked both ways.
LEMMA WholeIsLinked == HeapInv => ListsLinked
<1> SUFFICES ASSUME HeapInv, NEW l \in Lists
             PROVE  /\ msh.head[l] # NullPtr => msh.prev[msh.head[l]] = NullPtr
                    /\ \A b \in Nodes(msh, l) :
                         LET n == msh.next[b]
                         IN  n # NullPtr => b < n /\ msh.prev[n] = b
  BY DEF ListsLinked
<1>1. PICK S, h : S = Nodes(msh, l) /\ h = msh.head[l]
  OBVIOUS
<1>2. /\ NextIn(S, NullPtr, h)
      /\ \A b \in S : NextIn(S, b, msh.next[b]) /\ PrevIn(S, b, msh.prev[b])
      /\ \A b \in S : b \in Nat /\ b # NullPtr
  <2>1. Shape(msh, Layout(msh)) /\ Layout(msh)[l] = S
    BY <1>1 DEF HeapInv, IsHeap, Layout
  <2> QED  BY <1>1, <2>1, ShapeFacts, HeapFacts DEF Linked
<1>3. h # NullPtr => msh.prev[h] = NullPtr
  <2> SUFFICES ASSUME h # NullPtr PROVE msh.prev[h] = NullPtr
    OBVIOUS
  <2>1. h \in S /\ \A c \in S : h <= c
    BY <1>2, HeapFacts DEF NextIn
  <2>2. PICK p : p = msh.prev[h] /\ PrevIn(S, h, p)
    BY <1>2, <2>1
  <2>3. ~(p \in S /\ p < h)
    BY <1>2, <2>1
  <2> QED  BY <2>2, <2>3 DEF PrevIn
<1>4. ASSUME NEW b \in S, NEW n, n = msh.next[b], n # NullPtr
      PROVE  b < n /\ msh.prev[n] = b
  <2>1. n \in S /\ b < n /\ \A c \in S : c <= b \/ n <= c
    BY <1>2, <1>4 DEF NextIn
  <2>2. PICK p : p = msh.prev[n] /\ PrevIn(S, n, p)
    BY <1>2, <2>1
  <2>3. b \in Nat /\ n \in Nat /\ ~(n <= b)
    BY <1>2, <2>1
  <2>4. p \in S /\ p < n /\ b <= p
    BY <2>2, <2>3 DEF PrevIn
  <2>5. p \in Nat /\ p <= b
    BY <1>2, <2>1, <2>3, <2>4
  <2> QED  BY <2>1, <2>2, <2>3, <2>4, <2>5
<1> QED  BY <1>1, <1>3, <1>4

\* The lists stay ascending and linked both ways (see ListsLinked).
THEOREM ListsStayLinked ==
  ASSUME CallsInRange
  PROVE  Spec => []ListsLinked
BY HeapStaysWhole, WholeIsLinked, PTL

\* A whole heap has every block in one segment.
LEMMA WholeIsOnce == HeapInv => EveryBlockOnce
<1> SUFFICES ASSUME HeapInv PROVE EveryBlockOnce
  OBVIOUS
<1> DEFINE segs == UNION {{l} \X Nodes(msh, l) : l \in Lists}
           Here(b) == {x \in segs : x[2] <= b /\ b < x[2] + msh.size[x[2]]}
<1>1. PICK H : H = Headers(Layout(msh))
  OBVIOUS
<1>2. /\ Tiled(msh, H) /\ H \subseteq Blocks /\ msh \in MSHs
      /\ \A l, o \in Lists : l # o => Nodes(msh, l) \cap Nodes(msh, o) = {}
      /\ \A l \in Lists : Nodes(msh, l) \subseteq H
  <2>1. Shape(msh, Layout(msh)) /\ Tiled(msh, H)
    BY <1>1 DEF HeapInv, IsHeap
  <2>2. \A l \in Lists : Layout(msh)[l] = Nodes(msh, l)
    BY DEF Layout
  <2> QED  BY <1>1, <2>1, <2>2, ShapeFacts
<1>3. \A c : c \in H <=> \E l \in Lists : c \in Nodes(msh, l)
  BY <1>1 DEF Headers, Layout, Lists
<1>4. \A x \in segs : x[1] \in Lists /\ x[2] \in Nodes(msh, x[1]) /\ x = <<x[1], x[2]>>
  OBVIOUS
<1>5. \A l \in Lists : \A c \in Nodes(msh, l) : <<l, c>> \in segs
  OBVIOUS
<1>6. EveryBlockOnce <=> /\ \A b \in Blocks : Cardinality(Here(b)) = 1
                         /\ \A x \in segs : x[2] + msh.size[x[2]] <= HeapStart + HeapBlocks
  BY DEF EveryBlockOnce
<1> HIDE DEF segs
<1>7. ASSUME NEW b \in Blocks PROVE Cardinality(Here(b)) = 1
  <2>1. PICK c \in H : c <= b /\ b < c + msh.size[c]
    BY <1>2 DEF Tiled
  <2>2. PICK l \in Lists : c \in Nodes(msh, l)
    BY <1>3
  <2>3. ASSUME NEW x \in segs, x[2] <= b, b < x[2] + msh.size[x[2]]
        PROVE  x = <<l, c>>
    <3>1. PICK d : d = x[2] /\ d \in H /\ d \in Nodes(msh, x[1]) /\ x[1] \in Lists
      BY <1>2, <1>4
    <3>2. /\ c \in Nat /\ d \in Nat /\ b \in Nat
          /\ msh.size[c] \in Nat /\ msh.size[d] \in Nat
      BY <1>2, <3>1, MSHFields, HeapFacts
    <3>3. (c < d => c + msh.size[c] <= d) /\ (d < c => d + msh.size[d] <= c)
      BY <1>2, <3>1 DEF Tiled
    <3>4. d <= b /\ b < d + msh.size[d]
      BY <2>3, <3>1
    <3>5. d = c
      BY <2>1, <3>2, <3>3, <3>4
    <3>6. x[1] = l
      BY <1>2, <2>2, <3>1, <3>5
    <3> QED  BY <1>4, <3>1, <3>5, <3>6
  <2>4. <<l, c>> \in Here(b)
    BY <1>5, <2>1, <2>2
  <2>5. Here(b) = {<<l, c>>}
    BY <2>3, <2>4
  <2> QED  BY <2>5, FS_Singleton
<1>8. ASSUME NEW x \in segs PROVE x[2] + msh.size[x[2]] <= HeapStart + HeapBlocks
  <2>1. x[2] \in H
    BY <1>2, <1>4
  <2> QED  BY <1>2, <2>1, HeapFacts DEF Tiled
<1> QED  BY <1>6, <1>7, <1>8

\* Every block of the heap stays in one segment of one list (see
\* EveryBlockOnce).
THEOREM BlocksStayOnce ==
  ASSUME CallsInRange
  PROVE  Spec => []EveryBlockOnce
BY HeapStaysWhole, WholeIsOnce, PTL

\* A whole heap has no free segments that touch.
LEMMA WholeIsMerged == HeapInv => FreeIsMerged
<1>1. Layout(msh)["free"] = Nodes(msh, "free")
  BY DEF Layout, Lists
<1> QED  BY <1>1 DEF HeapInv, IsHeap, Unmerged, FreeIsMerged

\* Free segments that touch are always merged (see FreeIsMerged).
THEOREM FreeStaysMerged ==
  ASSUME CallsInRange
  PROVE  Spec => []FreeIsMerged
BY HeapStaysWhole, WholeIsMerged, PTL

-----------------------------------------------------------------------------
(***************************************************************************)
(* The lists implement Heap.tla.                                           *)
(***************************************************************************)
\* The segments of the headers of S.
Segs(m, S) == {[start |-> b, size |-> m.size[b]] : b \in S}

\* Both specifications have the same heap.
LEMMA SameLayout ==
  /\ Abstract!Blocks = Blocks /\ Abstract!NullPtr = NullPtr
  /\ Abstract!ERR_MEM_FREE = ERR_MEM_FREE
BY DEF Abstract!Blocks, Blocks, Abstract!NullPtr, NullPtr, Abstract!ERR_MEM_FREE, ERR_MEM_FREE

\* A run of free blocks of Heap.tla.
LEMMA FreeRuns ==
  ASSUME NEW n, NEW r
  PROVE  r \in Abstract!Runs(n) <=>
           r \in Blocks /\ \A c \in r .. r + n - 1 : c \in Abstract!Free
BY SameLayout DEF Abstract!Runs

\* What the invariant says of the headers that Nodes finds.
LEMMA HeapIsLaid ==
  ASSUME HeapInv
  PROVE  /\ msh \in MSHs /\ Tiled(msh, Headers(Layout(msh)))
         /\ Headers(Layout(msh)) \subseteq Blocks
         /\ Nodes(msh, "free") \subseteq Headers(Layout(msh))
         /\ \A o \in Owned : Nodes(msh, o) \subseteq Headers(Layout(msh))
         /\ \A o \in Owned : Nodes(msh, "free") \cap Nodes(msh, o) = {}
         /\ \A b \in Headers(Layout(msh)) :
              b \in Nodes(msh, "free") \/ \E o \in Owned : b \in Nodes(msh, o)
         /\ \A b \in Nodes(msh, "free") : b + msh.size[b] \notin Nodes(msh, "free")
<1>1. /\ Shape(msh, Layout(msh)) /\ Tiled(msh, Headers(Layout(msh)))
      /\ Unmerged(msh, Layout(msh)["free"]) = {}
  BY DEF HeapInv, IsHeap
<1>2. "free" \in Lists /\ \A l \in Lists : Layout(msh)[l] = Nodes(msh, l)
  BY DEF Layout, Lists
<1>3. Headers(Layout(msh)) = Nodes(msh, "free") \cup Nodes(msh, "system") \cup Nodes(msh, "user")
  BY <1>2 DEF Headers, Lists
<1> QED  BY <1>1, <1>2, <1>3, OwnedLists, ShapeFacts DEF Unmerged, Owned

\* A whole heap has no two segments on top of each other.
LEMMA WholeIsApart == HeapInv => Abstract!SegmentsApart
<1> SUFFICES ASSUME HeapInv PROVE Abstract!SegmentsApart
  OBVIOUS
<1>1. PICK H : H = Headers(Layout(msh))
  OBVIOUS
<1>2. /\ H \subseteq Blocks /\ Tiled(msh, H) /\ msh \in MSHs
      /\ \A o \in Owned : Nodes(msh, o) \subseteq H
  BY <1>1, HeapIsLaid
<1>3. /\ \A b \in H : b \in Nat /\ msh.size[b] \in Nat /\ HeapStart <= b
      /\ \A b \in H : msh.size[b] >= 1 /\ b + msh.size[b] <= HeapStart + HeapBlocks
      /\ \A b, c \in H : b < c => b + msh.size[b] <= c
  BY <1>2, HeapFacts, MSHFields DEF Tiled, Blocks, Top
<1>4. \A o, u \in Owned : o # u => Nodes(msh, o) \cap Nodes(msh, u) = {}
  <2>1. Disjoint(Layout(msh)) /\ \A o \in Owned : Layout(msh)[o] = Nodes(msh, o)
    BY OwnedLists DEF HeapInv, IsHeap, Shape, Layout
  <2> QED  BY <2>1, OwnedLists DEF Disjoint
<1>5. Abstract!Owners = Owned
  BY DEF Abstract!Owners, Owned
<1>6. PICK segs : segs = [o \in {"system", "user"} |-> AllocatedTo(o)]
  OBVIOUS
<1>7. \A o \in Owned : segs[o] = AllocatedTo(o)
  BY <1>6 DEF Owned
<1>8. \A o \in Owned : \A seg \in segs[o] :
        /\ seg = [start |-> seg.start, size |-> seg.size]
        /\ seg.start \in Nodes(msh, o) /\ seg.size = msh.size[seg.start]
  BY <1>7 DEF AllocatedTo
<1>9. ASSUME NEW o \in Owned, NEW seg \in segs[o]
      PROVE  /\ seg \in Abstract!Segments
             /\ seg.start + seg.size <= HeapStart + HeapBlocks
  <2>1. seg.start \in H /\ seg.size = msh.size[seg.start]
    BY <1>2, <1>8
  <2>2. seg.start \in Blocks /\ seg.size \in 1 .. HeapBlocks
    <3>1. HeapBlocks \in Nat /\ HeapStart \in Nat
      BY HeapAssumption
    <3> QED  BY <1>2, <1>3, <2>1, <3>1
  <2> QED  BY <1>3, <1>8, <2>1, <2>2, SameLayout DEF Abstract!Segments
<1>10. ASSUME NEW o \in Owned, NEW u \in Owned,
              NEW seg \in segs[o], NEW other \in segs[u], o # u \/ seg # other
       PROVE  Abstract!Apart(seg, other)
  <2>1. /\ seg.start \in H /\ seg.size = msh.size[seg.start]
        /\ other.start \in H /\ other.size = msh.size[other.start]
    BY <1>2, <1>8
  <2>2. seg.start # other.start
    BY <1>4, <1>8, <1>10
  <2>3. seg.start < other.start \/ other.start < seg.start
    BY <1>3, <2>1, <2>2
  <2> QED  BY <1>3, <2>1, <2>3 DEF Abstract!Apart
<1>11. segs \in [Owned -> SUBSET Abstract!Segments]
  <2>1. \A o \in Owned : segs[o] \in SUBSET Abstract!Segments
    BY <1>9
  <2> QED  BY <1>6, <2>1 DEF Owned
<1> QED  BY <1>5, <1>6, <1>9, <1>10, <1>11 DEF Abstract!SegmentsApart

\* No two segments that are handed out share a block, whoever owns them, and
\* all lie in the heap, whatever was split, merged and given back before
\* (see SegmentsApart in Heap.tla).
THEOREM SegmentsNeverOverlap ==
  ASSUME CallsInRange
  PROVE  Spec => []Abstract!SegmentsApart
BY HeapStaysWhole, WholeIsApart, PTL

\* The blocks that are in no allocated segment are those of the free ones.
LEMMA FreeBlocks ==
  ASSUME HeapInv, NEW c \in Blocks
  PROVE  c \in Abstract!Free <=>
           \E f \in Nodes(msh, "free") : f <= c /\ c < f + msh.size[f]
<1>1. PICK H, F : H = Headers(Layout(msh)) /\ F = Nodes(msh, "free")
  OBVIOUS
<1>2. /\ \A b \in H : b \in Nat /\ msh.size[b] \in Nat
      /\ \A b, d \in H : b < d => b + msh.size[b] <= d
      /\ F \subseteq H /\ c \in Nat
      /\ \A o \in Owned : Nodes(msh, o) \subseteq H /\ F \cap Nodes(msh, o) = {}
  BY <1>1, HeapIsLaid, HeapFacts, MSHFields DEF Tiled
<1>3. c \notin Abstract!Free <=>
        \E o \in Owned : \E b \in Nodes(msh, o) : c \in b .. b + msh.size[b] - 1
  <2>1. c \notin Abstract!Free <=>
          \E o \in Owned : \E seg \in AllocatedTo(o) : c \in Abstract!Cells(seg)
    BY SameLayout DEF Abstract!Free, Abstract!Taken, Owned
  <2>2. \A o \in Owned :
          (\E seg \in AllocatedTo(o) : c \in Abstract!Cells(seg)) <=>
          \E b \in Nodes(msh, o) : c \in b .. b + msh.size[b] - 1
    <3>1. \A b, z : Abstract!Cells([start |-> b, size |-> z]) = b .. b + z - 1
      BY DEF Abstract!Cells
    <3> QED  BY <3>1 DEF AllocatedTo
  <2> QED  BY <2>1, <2>2
<1>4. ASSUME NEW o \in Owned, NEW b \in Nodes(msh, o), c \in b .. b + msh.size[b] - 1,
             NEW f \in F, f <= c, c < f + msh.size[f]
      PROVE  FALSE
  <2>1. /\ b \in H /\ f \in H /\ b # f /\ b \in Nat /\ f \in Nat
        /\ msh.size[b] \in Nat /\ msh.size[f] \in Nat
    BY <1>2
  <2>2. (b < f => b + msh.size[b] <= f) /\ (f < b => f + msh.size[f] <= b)
    BY <1>2, <2>1
  <2> QED  BY <1>2, <1>4, <2>1, <2>2
<1>5. ASSUME c \in Abstract!Free
      PROVE  \E f \in F : f <= c /\ c < f + msh.size[f]
  <2>1. PICK b \in H : b <= c /\ c < b + msh.size[b]
    BY <1>1, HeapIsLaid DEF Tiled
  <2>2. b \in Nat /\ msh.size[b] \in Nat
    BY <1>2
  <2>3. c \in b .. b + msh.size[b] - 1
    BY <1>2, <2>1, <2>2
  <2>4. b \in F
    BY <1>1, <1>3, <1>5, <2>3, HeapIsLaid
  <2> QED  BY <2>1, <2>4
<1> QED  BY <1>1, <1>3, <1>4, <1>5

\* A run of free blocks lies within one free segment.
LEMMA RunInSegment ==
  ASSUME HeapInv, NEW n \in Nat, n > 0, NEW r \in Abstract!Runs(n)
  PROVE  \E f \in Nodes(msh, "free") : f <= r /\ r + n <= f + msh.size[f]
<1>1. PICK H, F : H = Headers(Layout(msh)) /\ F = Nodes(msh, "free")
  OBVIOUS
<1>2. r \in Blocks /\ r \in Nat /\ r .. r + n - 1 \subseteq Abstract!Free
  BY HeapFacts, FreeRuns
<1>3. r \in Abstract!Free
  BY <1>2
<1>4. PICK f \in F : f <= r /\ r < f + msh.size[f]
  BY <1>1, <1>2, <1>3, FreeBlocks
<1>5. PICK e : e = f + msh.size[f]
  OBVIOUS
<1>6. f \in H /\ H \in SUBSET Blocks /\ Tiled(msh, H) /\ msh \in MSHs /\ f \in Nat
  BY <1>1, HeapIsLaid, HeapFacts
<1>7. e \in Nat /\ (e = Top \/ e \in H) /\ e \notin F
  BY <1>1, <1>5, <1>6, EndIsHeader, HeapIsLaid
<1>8. ASSUME ~(r + n <= e) PROVE FALSE
  <2>1. e \in r .. r + n - 1
    BY <1>2, <1>4, <1>5, <1>7, <1>8
  <2>2. e \in Abstract!Free /\ e \in Blocks
    BY <1>2, <2>1, SameLayout DEF Abstract!Free
  <2>3. PICK g \in F : g <= e /\ e < g + msh.size[g]
    BY <1>1, <2>2, FreeBlocks
  <2>4. e \in H /\ g \in H /\ g \in Nat
    BY <1>1, <1>6, <1>7, <2>2, HeapIsLaid, HeapFacts
  <2>5. g < e => g + msh.size[g] <= e
    BY <1>6, <2>4 DEF Tiled
  <2>6. msh.size[g] \in Nat
    BY <1>6, <2>4, MSHFields
  <2>7. g = e
    BY <1>7, <2>3, <2>4, <2>5, <2>6
  <2> QED  BY <1>7, <2>7
<1> QED  BY <1>1, <1>4, <1>5, <1>8

\* The start of a free segment that is long enough is the start of a run.
LEMMA SegmentIsRun ==
  ASSUME HeapInv, NEW n \in Nat, NEW f \in Nodes(msh, "free"), msh.size[f] >= n
  PROVE  f \in Abstract!Runs(n)
<1>1. f \in Blocks /\ f \in Nat /\ f + msh.size[f] <= Top /\ msh.size[f] \in Nat
  BY HeapIsLaid, HeapFacts, MSHFields DEF Tiled
<1>2. ASSUME NEW c \in f .. f + n - 1 PROVE c \in Abstract!Free
  <2>1. f <= c /\ c < f + msh.size[f] /\ c \in Nat
    BY <1>1
  <2>2. c \in Blocks
    BY <1>1, <2>1, HeapFacts
  <2> QED  BY <2>1, <2>2, FreeBlocks
<1> QED  BY <1>1, <1>2, FreeRuns

\* The segments of the other owner stay what they were.
LEMMA OthersKeep ==
  ASSUME NEW N, NEW K, NEW m, NEW w, NEW o, NEW T, Gives(N, K, m, w, o, T),
         NEW u \in Owned, u # o
  PROVE  Segs(w, K[u]) = Segs(m, N[u])
<1>1. K[u] = N[u] /\ \A b \in N[u] : w.size[b] = m.size[b]
  BY DEF Gives
<1> QED  BY <1>1 DEF Segs

\* memAlloc_ does what Allocate does.
LEMMA TakesAllocates ==
  ASSUME HeapInv, NEW o \in Owned, NEW k \in Nat, Takes(o, k + 1)
  PROVE  Abstract!Allocate(o, k)
<1>1. PICK n : n = k + 1 /\ n \in Nat /\ n > 0
  OBVIOUS
<1>2. \A b \in Nodes(msh, "free") : b \in Nat /\ msh.size[b] \in Nat
  BY HeapIsLaid, HeapFacts, MSHFields
<1>3. CASE msh' = msh /\ result' = NullPtr
           /\ \A b \in Nodes(msh, "free") : msh.size[b] < n
  <2>1. Abstract!Runs(n) = {}
    <3> SUFFICES ASSUME NEW r \in Abstract!Runs(n) PROVE FALSE
      OBVIOUS
    <3>1. PICK f \in Nodes(msh, "free") : f <= r /\ r + n <= f + msh.size[f]
      BY <1>1, RunInSegment
    <3>2. r \in Nat
      BY HeapFacts, FreeRuns
    <3>3. f \in Nat /\ msh.size[f] \in Nat /\ msh.size[f] < n
      BY <1>2, <1>3
    <3> QED  BY <1>1, <3>1, <3>2, <3>3
  <2>2. UNCHANGED [u \in {"system", "user"} |-> AllocatedTo(u)]
    BY <1>3 DEF AllocatedTo, Nodes
  <2> QED  BY <1>1, <1>3, <2>1, <2>2 DEF Abstract!Allocate, Abstract!NullPtr, NullPtr
<1>4. CASE \E x \in Nodes(msh, "free") :
             /\ msh.size[x] >= n
             /\ \A b \in Nodes(msh, "free") : b < x => msh.size[b] < n
             /\ result' = x + 1 /\ msh' = Took(msh, o, x, n)
  <2>1. PICK x \in Nodes(msh, "free") :
          /\ msh.size[x] >= n
          /\ \A b \in Nodes(msh, "free") : b < x => msh.size[b] < n
          /\ result' = x + 1 /\ msh' = Took(msh, o, x, n)
    BY <1>4
  <2>2. x \in Abstract!Runs(n)
    BY <1>1, <2>1, SegmentIsRun
  <2>3. ASSUME NEW c \in Abstract!Runs(n) PROVE x <= c
    <3>1. PICK f \in Nodes(msh, "free") : f <= c /\ c + n <= f + msh.size[f]
      BY <1>1, RunInSegment
    <3>2. c \in Nat
      BY HeapFacts, FreeRuns
    <3>3. f \in Nat /\ msh.size[f] \in Nat /\ x \in Nat
      BY <1>2
    <3>4. ~(msh.size[f] < n)
      BY <1>1, <3>1, <3>2, <3>3
    <3>5. ~(f < x)
      BY <2>1, <3>4
    <3> QED  BY <3>1, <3>2, <3>3, <3>5
  <2>4. PICK N, w : N = Layout(msh) /\ w = Took(msh, o, x, n)
    OBVIOUS
  <2>5. x \in N["free"] /\ IsHeap(msh, N) /\ \A u \in Owned : N[u] = Nodes(msh, u)
    BY <2>4, OwnedLists DEF HeapInv, Layout, Lists
  <2>6. PICK K : /\ IsHeap(w, K) /\ w.size[x] = n
                 /\ Gives(N, K, msh, w, o, N[o] \cup {x})
    BY <1>1, <2>1, <2>4, <2>5, HeapAllocates
  <2>7. x \notin N[o]
    BY <1>1, <2>1, <2>5, HeapAllocates
  <2>8. \A u \in Owned : Nodes(w, u) = K[u]
    BY <2>6, LayoutIs, OwnedLists DEF Layout
  <2>9. Segs(w, K[o]) = Segs(msh, N[o]) \cup {[start |-> x, size |-> n]}
    <3>1. K[o] = N[o] \cup {x} /\ \A b \in N[o] : w.size[b] = msh.size[b]
      BY <2>6 DEF Gives
    <3> QED  BY <2>6, <3>1 DEF Segs
  <2>10. ASSUME NEW u \in Owned, u # o PROVE Segs(w, K[u]) = Segs(msh, N[u])
    BY <2>6, <2>10, OthersKeep
  <2>11. \A u \in Owned : AllocatedTo(u)' = Segs(w, K[u]) /\ AllocatedTo(u) = Segs(msh, N[u])
    BY <2>1, <2>4, <2>5, <2>8 DEF AllocatedTo, Segs
  <2>12. /\ AllocatedTo(o)' = AllocatedTo(o) \cup {[start |-> x, size |-> n]}
         /\ \A u \in Owned : u # o => AllocatedTo(u)' = AllocatedTo(u)
    BY <2>9, <2>10, <2>11
  <2>13. [u \in {"system", "user"} |-> AllocatedTo(u)]' =
           [[u \in {"system", "user"} |-> AllocatedTo(u)] EXCEPT
              ![o] = @ \cup {[start |-> x, size |-> n]}]
    BY <2>12 DEF Owned
  <2> QED  BY <1>1, <2>1, <2>2, <2>3, <2>13 DEF Abstract!Allocate, Abstract!NullPtr, NullPtr
<1> QED  BY <1>1, <1>3, <1>4 DEF Takes

\* memFree_ does what Release does.
LEMMA GivesBackReleases ==
  ASSUME HeapInv, NEW o \in Owned, NEW p \in Pointers, GivesBack(o, p)
  PROVE  Abstract!Release(o, p)
<1>1. p \in Nat /\ \A b \in Nodes(msh, o) : b \in Nat
  BY HeapAssumption, HeapIsLaid, HeapFacts
<1>2. [u \in {"system", "user"} |-> AllocatedTo(u)][o] = AllocatedTo(o)
  BY DEF Owned
<1>3. CASE msh' = msh
  <2>1. UNCHANGED [u \in {"system", "user"} |-> AllocatedTo(u)]
    BY <1>3 DEF AllocatedTo, Nodes
  <2>2. CASE p = NullPtr /\ result' = 0
    BY <2>1, <2>2 DEF Abstract!Release, Abstract!NullPtr, NullPtr, Abstract!ERR_MEM_FREE, ERR_MEM_FREE
  <2>3. CASE p # NullPtr /\ p - 1 \notin Nodes(msh, o) /\ result' = ERR_MEM_FREE
    <3>1. ASSUME NEW seg \in AllocatedTo(o) PROVE p # seg.start + 1
      <4>1. seg.start \in Nodes(msh, o)
        BY DEF AllocatedTo
      <4> QED  BY <1>1, <2>3, <4>1
    <3> QED  BY <1>2, <2>1, <2>3, <3>1 DEF Abstract!Release, Abstract!NullPtr, NullPtr, Abstract!ERR_MEM_FREE, ERR_MEM_FREE
  <2>4. CASE p - 1 \in Nodes(msh, o) /\ msh' = Freed(msh, o, p - 1)
    <3>1. PICK x, w : x = p - 1 /\ w = Freed(msh, o, x)
      OBVIOUS
    <3>2. x \in Layout(msh)[o]
      BY <2>4, <3>1, OwnedLists DEF Layout
    <3>3. PICK K : IsHeap(w, K) /\ K[o] = Layout(msh)[o] \ {x}
      BY <3>1, <3>2, HeapFrees DEF HeapInv, Gives
    <3>4. Layout(w) = K /\ w = msh
      BY <1>3, <2>4, <3>1, <3>3, LayoutIs
    <3> QED  BY <3>2, <3>3, <3>4
  <2> QED  BY <2>2, <2>3, <2>4 DEF GivesBack
<1>4. CASE msh' # msh
  <2>1. PICK x : /\ x = p - 1 /\ x \in Nodes(msh, o)
                 /\ p # NullPtr /\ result' = 0 /\ msh' = Freed(msh, o, x)
    BY <1>4 DEF GivesBack
  <2>2. PICK N, w : N = Layout(msh) /\ w = Freed(msh, o, x)
    OBVIOUS
  <2>3. x \in N[o] /\ IsHeap(msh, N) /\ \A u \in Owned : N[u] = Nodes(msh, u)
    BY <2>1, <2>2, OwnedLists DEF HeapInv, Layout
  <2>4. PICK K : IsHeap(w, K) /\ Gives(N, K, msh, w, o, N[o] \ {x})
    BY <2>2, <2>3, HeapFrees
  <2>5. \A u \in Owned : Nodes(w, u) = K[u]
    BY <2>4, LayoutIs, OwnedLists DEF Layout
  <2>6. PICK seg : seg = [start |-> x, size |-> msh.size[x]]
    OBVIOUS
  <2>7. Segs(w, K[o]) = Segs(msh, N[o]) \ {seg}
    <3>1. K[o] = N[o] \ {x} /\ \A b \in K[o] : w.size[b] = msh.size[b]
      BY <2>4 DEF Gives
    <3>2. Segs(w, K[o]) = Segs(msh, N[o] \ {x})
      BY <3>1 DEF Segs
    <3>3. \A b \in N[o] : [start |-> b, size |-> msh.size[b]] = seg <=> b = x
      BY <2>6
    <3> QED  BY <3>2, <3>3 DEF Segs
  <2>8. ASSUME NEW u \in Owned, u # o PROVE Segs(w, K[u]) = Segs(msh, N[u])
    BY <2>4, <2>8, OthersKeep
  <2>9. \A u \in Owned : AllocatedTo(u)' = Segs(w, K[u]) /\ AllocatedTo(u) = Segs(msh, N[u])
    BY <2>1, <2>2, <2>3, <2>5 DEF AllocatedTo, Segs
  <2>10. /\ AllocatedTo(o)' = AllocatedTo(o) \ {seg}
         /\ \A u \in Owned : u # o => AllocatedTo(u)' = AllocatedTo(u)
    BY <2>7, <2>8, <2>9
  <2>11. [u \in {"system", "user"} |-> AllocatedTo(u)]' =
           [[u \in {"system", "user"} |-> AllocatedTo(u)] EXCEPT ![o] = @ \ {seg}]
    BY <2>10 DEF Owned
  <2>12. seg \in AllocatedTo(o) /\ p = seg.start + 1
    BY <1>1, <2>1, <2>6 DEF AllocatedTo
  <2> QED  BY <1>2, <2>1, <2>11, <2>12 DEF Abstract!Release, Abstract!NullPtr, NullPtr, Abstract!ERR_MEM_FREE, ERR_MEM_FREE
<1> QED  BY <1>3, <1>4

\* Rounding up means the same where it does not wrap.
LEMMA RoundUpIs ==
  ASSUME BytesInRange, NEW bytes \in Requests
  PROVE  ROUNDUP(bytes) = Abstract!BlocksFor(bytes)
<1>1. bytes + MemBlockSize - 1 \in Nat /\ SizeMod \in Nat /\ bytes + MemBlockSize - 1 < SizeMod
  BY HeapAssumption, SizesAssumption DEF BytesInRange
<1>2. \A a, b \in Nat : a < b => a % b = a
  OBVIOUS
<1>3. (bytes + MemBlockSize - 1) % SizeMod = bytes + MemBlockSize - 1
  BY <1>1, <1>2
<1> QED  BY <1>3 DEF ROUNDUP, Abstract!BlocksFor

\* The first state is one of Heap.tla.
LEMMA StartsAbstract == Init => Abstract!Init
<1> SUFFICES ASSUME Init PROVE Abstract!Init
  OBVIOUS
<1>1. \A o \in Owned : AllocatedTo(o) = {}
  BY HeapStarts DEF AllocatedTo
<1>2. [o \in {"system", "user"} |-> AllocatedTo(o)] = [o \in {"system", "user"} |-> {}]
  BY <1>1 DEF Owned
<1>3. result = NullPtr
  BY DEF Init
<1> QED  BY <1>2, <1>3, SameLayout DEF Abstract!Init, Abstract!Owners

\* Every step is one of Heap.tla, or changes nothing there.
LEMMA StepsAbstract ==
  ASSUME CallsInRange, BytesInRange, HeapInv, [Next]_mmVars
  PROVE  [Abstract!Next]_(Abstract!heapVars)
<1>1. ASSUME NEW o \in Owned, NEW k \in Nat, k + 1 < SizeMod, memAlloc_(k, o)
      PROVE  Abstract!Allocate(o, k)
  BY <1>1, AllocTakes, TakesAllocates
<1>2. ASSUME NEW o \in Owned, NEW p \in Pointers, memFree_(p, o)
      PROVE  Abstract!Release(o, p)
  BY <1>2, FreeGivesBack, GivesBackReleases
<1>3. "user" \in Owned /\ "system" \in Owned /\ Abstract!Owners = Owned
  BY DEF Owned, Abstract!Owners
<1>4. ASSUME NEW o \in Owned, memAlloc_byte(o) PROVE Abstract!Next
  <2>1. PICK bytes \in Requests : memAlloc_(ROUNDUP(bytes), o)
    BY <1>4 DEF memAlloc_byte
  <2>2. Abstract!Allocate(o, ROUNDUP(bytes))
    BY <1>1, <2>1, RoundUpFits
  <2>3. Abstract!Allocate(o, Abstract!BlocksFor(bytes))
    BY <2>2, RoundUpIs
  <2> QED  BY <1>3, <2>3 DEF Abstract!Next
<1>5. CASE handleMemAlloc
  <2>1. PICK k \in BlockRequests : memAlloc_(k, "user")
    BY <1>5 DEF handleMemAlloc
  <2>2. k \in Nat /\ k + 1 < SizeMod
    BY HeapAssumption DEF CallsInRange
  <2> QED  BY <1>1, <1>3, <2>1, <2>2 DEF Abstract!Next
<1>6. CASE memFree
  BY <1>2, <1>3, <1>6 DEF memFree, Abstract!Next
<1>7. CASE kMemFree
  BY <1>2, <1>3, <1>7 DEF kMemFree, Abstract!Next
<1>8. CASE UNCHANGED mmVars
  BY <1>8 DEF mmVars, Abstract!heapVars, AllocatedTo, Nodes
<1> QED  BY <1>3, <1>4, <1>5, <1>6, <1>7, <1>8 DEF Next

\* The lists hand out what Heap.tla does, first fit included, and take back
\* what it does (see ImplementsHeap).
THEOREM ListsImplementHeap ==
  ASSUME CallsInRange, BytesInRange
  PROVE  Spec => ImplementsHeap
<1>1. Init => Abstract!Init
  BY StartsAbstract
<1>2. HeapInv /\ [Next]_mmVars => [Abstract!Next]_(Abstract!heapVars)
  BY StepsAbstract
<1> QED  BY <1>1, <1>2, HeapStaysWhole, PTL DEF Spec, ImplementsHeap, Abstract!Spec
=============================================================================
