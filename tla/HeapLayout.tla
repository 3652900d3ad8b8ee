----------------------------- MODULE HeapLayout -----------------------------
(***************************************************************************)
(* The heap, and what is asked of it: parameters of the memory manager and *)
(* of its specification.  An address is the number of a 64-byte block.     *)
(***************************************************************************)
EXTENDS Integers

CONSTANTS HeapStart, HeapBlocks, \* the first block and how many there are
          MemBlockSize,          \* bytes in a block (64)
          Requests,              \* the sizes asked for, in bytes
          BlockRequests,         \* those asked for in blocks, by the ABI
          Pointers               \* what is passed to mem_free

ASSUME HeapAssumption ==
  /\ HeapStart \in Nat \ {0, 1} /\ HeapBlocks \in Nat \ {0}
  /\ MemBlockSize \in Nat \ {0, 1}
  /\ Requests \subseteq Nat /\ BlockRequests \subseteq Nat
  /\ Pointers \subseteq Nat

Blocks       == HeapStart .. HeapStart + HeapBlocks - 1
NullPtr      == 0
ERR_MEM_FREE == -1
=============================================================================
