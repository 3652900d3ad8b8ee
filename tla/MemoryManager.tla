--------------------------- MODULE MemoryManager ---------------------------
(***************************************************************************)
(* src/src/memoryManager.cpp at the level of its doubly linked lists of    *)
(* segment headers (MSH): one of free segments, one of the kernel's and    *)
(* one of the program's.  size_t wraps at SizeMod.  A header whose segment *)
(* was merged into another is ordinary memory again and its members are    *)
(* set to 0 here.                                                          *)
(*                                                                         *)
(* The recursive functions are the loops of the code.                      *)
(***************************************************************************)
EXTENDS HeapLayout, FiniteSets

CONSTANT SizeMod  \* a size_t is a number below this

VARIABLES msh,    \* the headers and the heads of the three lists
          result  \* what the last call returned

mmVars == <<msh, result>>

Lists == {"free", "system", "user"}

ASSUME SizesAssumption ==
  /\ SizeMod \in Nat /\ SizeMod > (HeapBlocks + 1) * MemBlockSize
  /\ Requests \cup BlockRequests \subseteq 0 .. SizeMod - 1

\* The ROUNDUP macro, in size_t arithmetic.
ROUNDUP(size) == ((size + MemBlockSize - 1) % SizeMod) \div MemBlockSize

-----------------------------------------------------------------------------
(***************************************************************************)
(* The methods of MSH, on the headers m.                                   *)
(***************************************************************************)
\* Mutants of join: the segment that follows keeps its old prev; the
\* segments are joined whether they touch or not.
joinKeepsPrev(m, this) ==
  LET n == m.next[this]
  IN  IF n # NullPtr /\ this + m.size[this] = n
      THEN [m EXCEPT !.size[this] = @ + m.size[n], !.size[n] = 0,
                     !.next[this] = m.next[n], !.next[n] = NullPtr,
                     !.prev[n] = NullPtr]
      ELSE m
joinAny(m, this) ==
  LET n == m.next[this]
  IN  IF n # NullPtr
      THEN [m EXCEPT !.size[this] = @ + m.size[n], !.size[n] = 0,
                     !.next[this] = m.next[n], !.next[n] = NullPtr,
                     !.prev[n] = NullPtr]
      ELSE m

\* One round of the loop of merge: the segment that follows is joined if it
\* touches.
join(m, this) ==
  LET n      == m.next[this]
      after  == m.next[n]
      joined == [m EXCEPT !.size[this] = @ + m.size[n], !.size[n] = 0,
                          !.next[this] = after, !.next[n] = NullPtr,
                          !.prev[n] = NullPtr]
  IN  IF n = NullPtr \/ this + m.size[this] # n THEN m
      ELSE IF after = NullPtr THEN joined
      ELSE [joined EXCEPT !.prev[after] = this]

\* Mutant of merge: nothing is joined.
mergeNothing(m, this) == m

\* The loop: it ends before it has gone round once for every block.
merge(m, this) ==
  LET rounds[i \in 0 .. HeapBlocks] ==
        IF i = 0 THEN m ELSE join(rounds[i - 1], this)
  IN  rounds[HeapBlocks]

\* The first by blocks of a free segment are cut off, the rest stays free.
reduce(m, this, by) ==
  LET new    == this + by
      split  == [m EXCEPT !.size[new] = m.size[this] - by, !.size[this] = by,
                          !.prev[new] = m.prev[this], !.next[new] = m.next[this]]
      before == IF m.head["free"] = this
                THEN [split EXCEPT !.head["free"] = new]
                ELSE [split EXCEPT !.next[split.prev[new]] = new]
      linked == IF before.next[new] = NullPtr THEN before
                ELSE [before EXCEPT !.prev[before.next[new]] = new]
  IN  IF m.size[this] <= by THEN m
      ELSE [linked EXCEPT !.prev[this] = NullPtr, !.next[this] = NullPtr]

insertAfter(m, this, other) ==
  LET n      == m.next[this]
      linked == [m EXCEPT !.prev[other] = this, !.next[other] = n,
                          !.next[this] = other]
  IN  IF n = NullPtr THEN linked ELSE [linked EXCEPT !.prev[n] = other]

insertAsHead(m, list, other) ==
  LET n      == m.head[list]
      linked == [m EXCEPT !.prev[other] = NullPtr, !.next[other] = n,
                          !.head[list] = other]
  IN  IF n = NullPtr THEN linked ELSE [linked EXCEPT !.prev[n] = other]

remove(m, list, this) ==
  LET p      == m.prev[this]
      n      == m.next[this]
      before == IF m.head[list] = this THEN [m EXCEPT !.head[list] = n]
                ELSE [m EXCEPT !.next[p] = n]
      linked == IF n = NullPtr THEN before
                ELSE [before EXCEPT !.prev[n] =
                        IF m.head[list] = this THEN NullPtr ELSE p]
  IN  [linked EXCEPT !.prev[this] = NullPtr, !.next[this] = NullPtr]

lastUpTo(m, iterator, other) ==
  LET from[b \in Blocks] ==
        IF m.next[b] # NullPtr /\ m.next[b] <= other THEN from[m.next[b]] ELSE b
  IN  from[iterator]

findByPointer(m, list, other) ==
  IF m.head[list] # NullPtr /\ m.head[list] <= other
  THEN lastUpTo(m, m.head[list], other) ELSE NullPtr

\* Mutant of findBySize: room for the space asked for, not for its header.
findBySizeTooSmall(m, nBlocksAct) ==
  LET from[b \in Blocks \cup {NullPtr}] ==
        IF b # NullPtr /\ m.size[b] < nBlocksAct - 1 THEN from[m.next[b]] ELSE b
  IN  from[m.head["free"]]

findBySize(m, nBlocksAct) ==
  LET from[b \in Blocks \cup {NullPtr}] ==
        IF b # NullPtr /\ m.size[b] < nBlocksAct THEN from[m.next[b]] ELSE b
  IN  from[m.head["free"]]

\* "where" and the insertion that follows it, the same in both routines.
insert(m, list, memSeg) ==
  LET where == findByPointer(m, list, memSeg)
  IN  IF where # NullPtr THEN insertAfter(m, where, memSeg)
      ELSE insertAsHead(m, list, memSeg)

-----------------------------------------------------------------------------
(***************************************************************************)
(* MemoryManager.                                                          *)
(***************************************************************************)
memAlloc_(nBlocks, list) ==
  LET nBlocksAct == (nBlocks + 1) % SizeMod
      memSeg     == findBySize(msh, nBlocksAct)
      taken      == IF msh.size[memSeg] = nBlocksAct
                    THEN remove(msh, "free", memSeg)
                    ELSE reduce(msh, memSeg, nBlocksAct)
  IN  \/ /\ memSeg = NullPtr
         /\ result' = NullPtr
         /\ UNCHANGED msh
      \/ /\ memSeg # NullPtr
         /\ msh' = insert(taken, list, memSeg)
         /\ result' = memSeg + 1

memFree_(memAddr, list) ==
  LET memSeg == memAddr - 1
      known  == memSeg = findByPointer(msh, list, memSeg)
      freed  == insert(remove(msh, list, memSeg), "free", memSeg)
      merged == merge(freed, memSeg)
      before == merged.prev[memSeg]
  IN  \/ memAddr = NullPtr /\ result' = 0 /\ UNCHANGED msh
      \/ /\ memAddr # NullPtr /\ ~known
         /\ result' = ERR_MEM_FREE
         /\ UNCHANGED msh
      \/ /\ memAddr # NullPtr /\ known
         /\ msh' = IF before = NullPtr THEN merged ELSE merge(merged, before)
         /\ result' = 0

Init ==
  /\ msh = [head |-> [l \in Lists |-> IF l = "free" THEN HeapStart ELSE NullPtr],
            prev |-> [b \in Blocks |-> NullPtr],
            next |-> [b \in Blocks |-> NullPtr],
            size |-> [b \in Blocks |-> IF b = HeapStart THEN HeapBlocks ELSE 0]]
  /\ result = NullPtr

\* mem_alloc of the C API and handleMemAlloc; kMemAlloc_byte for the kernel.
memAlloc_byte(list) == \E bytes \in Requests : memAlloc_(ROUNDUP(bytes), list)

\* The system call made directly, with a number of blocks.
handleMemAlloc == \E nBlocks \in BlockRequests : memAlloc_(nBlocks, "user")

\* The program may pass anything; the kernel frees what it allocated.
memFree  == \E p \in Pointers : memFree_(p, "user")
kMemFree == \E p \in Pointers :
              /\ p # NullPtr => p - 1 = findByPointer(msh, "system", p - 1)
              /\ memFree_(p, "system")

Next ==
  \/ memAlloc_byte("user") \/ memAlloc_byte("system") \/ handleMemAlloc
  \/ memFree \/ kMemFree

Spec == Init /\ [][Next]_mmVars

-----------------------------------------------------------------------------
(***************************************************************************)
(* Properties.                                                             *)
(***************************************************************************)
\* The headers that are reached from the head of a list; links that lead in
\* a circle are followed once round.
Nodes(m, list) ==
  LET upTo[i \in 0 .. HeapBlocks] ==
        LET S == IF i = 0 THEN {m.head[list]} ELSE upTo[i - 1]
        IN  (S \cup {m.next[b] : b \in S \ {NullPtr}}) \ {NullPtr}
  IN  upTo[HeapBlocks]

\* The three lists are ascending and linked both ways, from the head to the
\* last header, after any sequence of splits, merges and removals: what
\* findByPointer presumes and what remove follows backwards.
ListsLinked ==
  \A l \in Lists :
    /\ msh.head[l] # NullPtr => msh.prev[msh.head[l]] = NullPtr
    /\ \A b \in Nodes(msh, l) :
         LET n == msh.next[b]
         IN  n # NullPtr => b < n /\ msh.prev[n] = b

\* Every block is in exactly one segment of one list: nothing leaks and
\* nothing is handed out twice.
EveryBlockOnce ==
  LET segs == UNION {{l} \X Nodes(msh, l) : l \in Lists}
  IN  /\ \A b \in Blocks :
           Cardinality({x \in segs : x[2] <= b /\ b < x[2] + msh.size[x[2]]}) = 1
      /\ \A x \in segs : x[2] + msh.size[x[2]] <= HeapStart + HeapBlocks

\* No two free segments touch: memory that came back in pieces, in any
\* order, can be handed out in one piece again.
FreeIsMerged ==
  LET free == Nodes(msh, "free")
  IN  \A b \in free : b + msh.size[b] \notin free

\* The lists do what Heap.tla says, first fit included.
AllocatedTo(o) == {[start |-> b, size |-> msh.size[b]] : b \in Nodes(msh, o)}

Abstract == INSTANCE Heap WITH
  segments <- [o \in {"system", "user"} |-> AllocatedTo(o)], result <- result

ImplementsHeap == Abstract!Spec

\* mem_alloc gives at least the bytes it was asked for behind the header, or
\* null.  The macro ROUNDUP wraps for a size close to 2^64, and the request
\* succeeds with a segment that is a header and nothing else.
AllocatesEnough ==
  [][\A bytes \in Requests :
       memAlloc_(ROUNDUP(bytes), "user") /\ result' # NullPtr =>
         (msh'.size[result' - 1] - 1) * MemBlockSize >= bytes]_mmVars
=============================================================================
