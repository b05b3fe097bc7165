------------------------------ MODULE Boot0Heap ------------------------------
(***************************************************************************)
(* The heap of the SPL, common/malloc.c: a chain of blocks in the order of *)
(* their addresses, each with its node in front of it, first fit.  chain   *)
(* holds the blocks between the two sentinels; o_size only realloc reads,  *)
(* which nothing calls.                                                    *)
(***************************************************************************)
EXTENDS Integers, Sequences, SequencesExt

CONSTANTS
  HeapBase,  \* CONFIG_HEAP_BASE
  Word       \* 2^32: sizes are __u32

ASSUME HeapAssumption ==
  /\ HeapBase \in Nat
  /\ Word \in Nat \ {0}

VARIABLES
  chain,          \* sequence of [address, size]
  boot_heap_tail  \* the address of the sentinel behind them

heapVars == <<chain, boot_heap_tail>>

Node == 24   \* sizeof(struct alloc_struct_t), 64-bit addresses

Block == [address : Nat, size : Nat]

\* MY_BYTE_ALIGN in a __u32: a size in the last fifteen of the word becomes 0.
Align(n) == (((n + 15) % Word) \div 16) * 16

\* Before malloc_init: statics are zero.
HeapInit == chain = <<>> /\ boot_heap_tail = 0

\* malloc_init: the chain is the two sentinels.
MallocInit(size) == chain' = <<>> /\ boot_heap_tail' = HeapBase + size

boot_heap_head == [address |-> HeapBase, size |-> 0]

\* The node before place k + 1 of the chain, boot_heap_head at the front.
Prev(k) == IF k = 0 THEN boot_heap_head ELSE chain[k]

\* The address the node after it has, boot_heap_tail's at the end.
NextAddress(k) ==
  IF k = Len(chain) THEN boot_heap_tail ELSE chain[k + 1].address

End(b) == b.address + b.size

\* Mutant: no room for the node of the block that follows.
FitsOneNode(k, n) == NextAddress(k) >= End(Prev(k)) + Node + Align(n)

\* Room for the node and the block, and for the node of the block that follows.
Fits(k, n) == NextAddress(k) >= End(Prev(k)) + 2 * Node + Align(n)

NewBlock(k, n) == [address |-> End(Prev(k)) + Node, size |-> Align(n)]

\* malloc where it returns a block: the first gap that fits.
Malloc(n) ==
  /\ n # 0
  /\ \E k \in 0 .. Len(chain) :
       /\ Fits(k, n)
       /\ \A j \in 0 .. k - 1 : ~Fits(j, n)
       /\ chain' = InsertAt(chain, k + 1, NewBlock(k, n))
  /\ UNCHANGED boot_heap_tail

\* malloc where it returns 0.
MallocFails(n) ==
  /\ n = 0 \/ \A k \in 0 .. Len(chain) : ~Fits(k, n)
  /\ UNCHANGED heapVars

\* Where the first fit is: the address malloc returns.
Fit(n) == CHOOSE k \in 0 .. Len(chain) : Fits(k, n) /\ \A j \in 0 .. k - 1 : ~Fits(j, n)
Address(n) == NewBlock(Fit(n), n).address

\* free(p): unlinks the block at p, nothing if there is none.
Free(p) ==
  /\ \/ \E k \in 1 .. Len(chain) :
          /\ chain[k].address = p
          /\ \A j \in 1 .. k - 1 : chain[j].address # p
          /\ chain' = RemoveAt(chain, k)
     \/ /\ \A k \in 1 .. Len(chain) : chain[k].address # p
        /\ UNCHANGED chain
  /\ UNCHANGED boot_heap_tail

-----------------------------------------------------------------------------
\* Every two blocks lie apart with room for a node between them, and all of
\* them within the heap, which is what malloc's gap test (malloc.c:71) is for:
\* a node written over a live block would not be noticed before it is followed.
BlocksApart ==
  /\ \A i, j \in 1 .. Len(chain) : i < j => End(chain[i]) + Node <= chain[j].address
  /\ \A i \in 1 .. Len(chain) :
       /\ HeapBase + Node <= chain[i].address
       /\ End(chain[i]) + Node <= boot_heap_tail
=============================================================================
