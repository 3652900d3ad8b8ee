-------------------------- MODULE MemoryInvariant --------------------------
(***************************************************************************)
(* The inductive invariant behind the properties of MemoryManager.tla, as  *)
(* predicates on the headers m and the sets N[l] of those in each list, so *)
(* that they can be stated between two steps of memAlloc_ and memFree_.    *)
(***************************************************************************)
EXTENDS MemoryManager

Links == Blocks \cup {NullPtr}

\* The types of the members.
MSHs == [head : [Lists -> Links],
         prev : [Blocks -> Links],
         next : [Blocks -> Links],
         size : [Blocks -> Nat]]

Partitions == [Lists -> SUBSET Blocks]

-----------------------------------------------------------------------------
\* n is what comes after b in the ascending list of S, p what comes before.
NextIn(S, b, n) ==
  \/ n = NullPtr /\ \A c \in S : c <= b
  \/ n \in S /\ b < n /\ \A c \in S : c <= b \/ n <= c

PrevIn(S, b, p) ==
  \/ p = NullPtr /\ \A c \in S : b <= c
  \/ p \in S /\ p < b /\ \A c \in S : c <= p \/ b <= c

Linked(m, l, S) ==
  /\ NextIn(S, NullPtr, m.head[l])
  /\ \A b \in S : NextIn(S, b, m.next[b]) /\ PrevIn(S, b, m.prev[b])

\* No link leads back, not even one that is left in a header out of use.
Ascending(m) == \A b \in Blocks : m.next[b] = NullPtr \/ b < m.next[b]

\* A header is in one list.
Disjoint(N) == \A l, o \in Lists : l # o => N[l] \cap N[o] = {}

-----------------------------------------------------------------------------
Top == HeapStart + HeapBlocks

Headers(N) == N["free"] \cup N["system"] \cup N["user"]

\* The segments lie side by side and fill the heap.
Tiled(m, H) ==
  /\ \A b \in H : m.size[b] >= 1 /\ b + m.size[b] <= Top
  /\ \A b, c \in H : b < c => b + m.size[b] <= c
  /\ \A c \in Blocks : \E b \in H : b <= c /\ c < b + m.size[b]

\* The segments of F that another segment of F follows without a gap.
Unmerged(m, F) == {b \in F : b + m.size[b] \in F}

\* Each header is in one list, and the lists are well linked.
Shape(m, N) ==
  /\ m \in MSHs /\ N \in Partitions
  /\ \A l \in Lists : Linked(m, l, N[l])
  /\ Ascending(m) /\ Disjoint(N)

IsHeap(m, N) ==
  /\ Shape(m, N)
  /\ Tiled(m, Headers(N))
  /\ Unmerged(m, N["free"]) = {}

Layout(m) == [l \in Lists |-> Nodes(m, l)]

\* The inductive invariant.
HeapInv == IsHeap(msh, Layout(msh))

-----------------------------------------------------------------------------
(***************************************************************************)
(* What the proofs suppose of the calls.                                   *)
(***************************************************************************)
\* One more than a number of blocks asked for is still a size_t, and no
\* address is freed whose header would be at the null pointer: memFree_ would
\* find nothing, take that for the header, and follow it.
CallsInRange ==
  /\ \A nBlocks \in BlockRequests : nBlocks + 1 < SizeMod
  /\ NullPtr + 1 \notin Pointers

\* A number of bytes that is rounded up is still a size_t.
BytesInRange == \A bytes \in Requests : bytes + MemBlockSize - 1 < SizeMod
=============================================================================
