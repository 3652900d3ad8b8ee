-------------------------------- MODULE Heap --------------------------------
(***************************************************************************)
(* What the memory manager promises: the heap is a row of blocks; an       *)
(* allocation takes the lowest run of free blocks that is long enough for  *)
(* the header and the space asked for, fails only if there is none, and a  *)
(* segment goes back as a whole when its owner frees it.  There are no     *)
(* lists here, so there is nothing to keep in order or to merge.           *)
(***************************************************************************)
EXTENDS HeapLayout

VARIABLES segments, \* segments[o]: what o, "system" or "user", has allocated
          result    \* what the last call returned

heapVars == <<segments, result>>

Owners   == {"system", "user"}
Segments == [start : Blocks, size : 1 .. HeapBlocks]

Cells(seg) == seg.start .. seg.start + seg.size - 1
Taken      == UNION {Cells(seg) : seg \in segments["system"] \cup segments["user"]}
Free       == Blocks \ Taken

\* The runs of n free blocks, by their first block.
Runs(n) == LET free == Free IN {b \in Blocks : b .. b + n - 1 \subseteq free}

BlocksFor(bytes) == (bytes + MemBlockSize - 1) \div MemBlockSize

Allocate(o, n) ==
  \/ /\ Runs(n + 1) = {}
     /\ result' = NullPtr
     /\ UNCHANGED segments
  \/ \E b \in Runs(n + 1) :
       /\ \A c \in Runs(n + 1) : b <= c
       /\ segments' = [segments EXCEPT ![o] =
                         @ \cup {[start |-> b, size |-> n + 1]}]
       /\ result' = b + 1

Release(o, p) ==
  \/ /\ p = NullPtr
     /\ result' = 0
     /\ UNCHANGED segments
  \/ \E seg \in segments[o] :
       /\ p = seg.start + 1
       /\ segments' = [segments EXCEPT ![o] = @ \ {seg}]
       /\ result' = 0
  \/ /\ p # NullPtr
     /\ \A seg \in segments[o] : p # seg.start + 1
     /\ result' = ERR_MEM_FREE
     /\ UNCHANGED segments

Init ==
  /\ segments = [o \in Owners |-> {}]
  /\ result = NullPtr

Next ==
  \/ \E o \in Owners, bytes \in Requests : Allocate(o, BlocksFor(bytes))
  \/ \E n \in BlockRequests : Allocate("user", n)
  \/ \E o \in Owners, p \in Pointers : Release(o, p)

Spec == Init /\ [][Next]_heapVars

Apart(seg, other) ==
  \/ seg.start + seg.size <= other.start
  \/ other.start + other.size <= seg.start

\* No two segments share a block, whoever owns them, and all lie in the heap
\* (memAlloc_ never hands out what the kernel or the program still holds).
SegmentsApart ==
  /\ segments \in [Owners -> SUBSET Segments]
  /\ \A o \in Owners : \A seg \in segments[o] :
       seg.start + seg.size <= HeapStart + HeapBlocks
  /\ \A o, u \in Owners : \A seg \in segments[o], other \in segments[u] :
       (o # u \/ seg # other) => Apart(seg, other)
=============================================================================
