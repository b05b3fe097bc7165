----------------------------- MODULE Boot0Proofs -----------------------------
(***************************************************************************)
(* Proofs about Boot0 and its heap, for every medium, package and size.    *)
(***************************************************************************)
EXTENDS Boot0, SequenceTheorems, FiniteSetTheorems, TLAPS

HeapType == chain \in Seq(Block) /\ boot_heap_tail \in Nat

\* The size of a block is a number.
LEMMA AlignNat ==
  ASSUME NEW n \in Nat
  PROVE  Align(n) \in Nat
<1>1. ASSUME NEW a \in Nat, NEW w \in Nat \ {0} PROVE a % w \in Nat
  BY <1>1, Z3
<1>2. ASSUME NEW a \in Nat PROVE (a \div 16) * 16 \in Nat
  BY <1>2, Z3
<1> QED
  BY <1>1, <1>2, HeapAssumption DEF Align

\* malloc keeps the blocks apart, whatever it is asked for and wherever it puts it.
LEMMA MallocKeeps ==
  ASSUME HeapType, BlocksApart, NEW n \in Nat, Malloc(n)
  PROVE  HeapType' /\ BlocksApart'
<1>1. PICK k \in 0 .. Len(chain) :
        Fits(k, n) /\ chain' = InsertAt(chain, k + 1, NewBlock(k, n))
  BY DEF Malloc
<1> DEFINE new == NewBlock(k, n)
           left == SubSeq(chain, 1, k)
           right == SubSeq(chain, k + 1, Len(chain))
<1>2. /\ chain \in Seq(Block) /\ Len(chain) \in Nat
      /\ \A i \in 1 .. Len(chain) : chain[i] \in Block /\ chain[i].address \in Nat /\ chain[i].size \in Nat
      /\ boot_heap_tail \in Nat /\ boot_heap_tail' = boot_heap_tail
  <2>1. chain \in Seq(Block) /\ boot_heap_tail \in Nat /\ boot_heap_tail' = boot_heap_tail
    BY DEF HeapType, Malloc
  <2>2. Len(chain) \in Nat /\ \A i \in 1 .. Len(chain) : chain[i] \in Block
    BY <2>1
  <2>3. \A b \in Block : b.address \in Nat /\ b.size \in Nat
    BY DEF Block
  <2> QED
    BY <2>1, <2>2, <2>3
<1>3. HeapBase \in Nat /\ Align(n) \in Nat
  BY HeapAssumption, AlignNat
<1>4. /\ new.address = End(Prev(k)) + Node /\ new.size = Align(n)
      /\ End(Prev(k)) \in Nat /\ End(Prev(k)) >= HeapBase
      /\ k > 0 => Prev(k) = chain[k]
  <2>1. CASE k = 0
    BY <1>3, <2>1 DEF NewBlock, Prev, End, boot_heap_head
  <2>2. CASE k # 0
    <3>1. k \in 1 .. Len(chain) /\ Prev(k) = chain[k]
      BY <1>1, <2>2 DEF Prev
    <3>2. HeapBase + Node <= chain[k].address
      BY <3>1 DEF BlocksApart
    <3> QED
      BY <1>2, <1>3, <3>1, <3>2 DEF NewBlock, End, Node
  <2> QED
    BY <2>1, <2>2
<1>5. /\ new \in Block
      /\ new.address \in Nat /\ End(new) \in Nat
      /\ new.address = End(Prev(k)) + Node
      /\ HeapBase + Node <= new.address
      /\ NextAddress(k) >= End(new) + Node
  <2>1. new \in Block
    BY <1>3, <1>4 DEF NewBlock, Block, Node
  <2>2. NextAddress(k) >= End(Prev(k)) + 2 * Node + Align(n)
    BY <1>1 DEF Fits
  <2>3. NextAddress(k) \in Nat
    BY <1>1, <1>2 DEF NextAddress
  <2> QED
    BY <1>3, <1>4, <2>1, <2>2, <2>3 DEF End, Node
<1>6. /\ left \in Seq(Block) /\ Len(left) = k
      /\ \A i \in 1 .. k : left[i] = chain[i]
  BY <1>2, SubSeqProperties
<1>7. /\ right \in Seq(Block) /\ Len(right) = Len(chain) - k
      /\ \A i \in 1 .. Len(chain) - k : right[i] = chain[k + i]
  BY <1>2, SubSeqProperties
<1>8. /\ chain' \in Seq(Block) /\ Len(chain') = Len(chain) + 1
      /\ \A i \in 1 .. k : chain'[i] = chain[i]
      /\ chain'[k + 1] = new
      /\ \A i \in k + 2 .. Len(chain) + 1 : chain'[i] = chain[i - 1]
  <2>0. chain' = left \o <<new>> \o right
    <3>1. (k + 1) - 1 = k
      BY <1>1, <1>2
    <3>2. SubSeq(chain, 1, (k + 1) - 1) = left
      BY <3>1
    <3>4. chain' = InsertAt(chain, k + 1, new)
      BY <1>1
    <3>5. InsertAt(chain, k + 1, new) = SubSeq(chain, 1, (k + 1) - 1) \o <<new>> \o right
      <4> HIDE DEF new
      <4> QED
        BY Zenon DEF InsertAt
    <3> HIDE DEF new, left, right
    <3> QED
      BY <3>2, <3>4, <3>5
  <2>1. <<new>> \in Seq(Block) /\ Len(<<new>>) = 1 /\ <<new>>[1] = new
    BY <1>5
  <2>2. /\ left \o <<new>> \in Seq(Block) /\ Len(left \o <<new>>) = k + 1
        /\ \A i \in 1 .. k : (left \o <<new>>)[i] = chain[i]
        /\ (left \o <<new>>)[k + 1] = new
    <3> DEFINE joined == left \o <<new>>
    <3>1. /\ joined \in Seq(Block) /\ Len(joined) = Len(left) + Len(<<new>>)
          /\ \A i \in 1 .. Len(left) + Len(<<new>>) : joined[i] =
               IF i <= Len(left) THEN left[i] ELSE <<new>>[i - Len(left)]
      <4> HIDE DEF new, left
      <4> QED
        BY <1>6, <2>1, ConcatProperties
    <3>2. /\ k \in Nat /\ (k + 1) - k = 1 /\ ~(k + 1 <= k) /\ k + 1 \in 1 .. k + 1
          /\ \A i \in 1 .. k : i \in 1 .. k + 1 /\ i <= k
      BY <1>1, <1>2
    <3> HIDE DEF new, left, joined
    <3>3. /\ Len(joined) = k + 1
          /\ \A i \in 1 .. k + 1 : joined[i] = IF i <= k THEN left[i] ELSE <<new>>[i - k]
      BY <3>1, <1>6, <2>1
    <3>4. joined[k + 1] = new
      BY <3>2, <3>3, <2>1
    <3>5. \A i \in 1 .. k : joined[i] = chain[i]
      BY <3>2, <3>3, <1>6
    <3> QED
      BY <3>1, <3>3, <3>4, <3>5 DEF joined
  <2>3. /\ (left \o <<new>>) \o right \in Seq(Block)
        /\ Len((left \o <<new>>) \o right) = Len(chain) + 1
        /\ \A i \in 1 .. Len(chain) + 1 : ((left \o <<new>>) \o right)[i] =
             IF i <= k + 1 THEN (left \o <<new>>)[i] ELSE right[i - (k + 1)]
    <3> HIDE DEF new, left, right
    <3>1. Len(left \o <<new>>) + Len(right) = Len(chain) + 1
      BY <1>1, <1>2, <1>7, <2>2
    <3> QED
      BY <3>1, <1>1, <1>2, <2>2, <1>7, ConcatProperties
  <2>4. ASSUME NEW i \in k + 2 .. Len(chain) + 1 PROVE right[i - (k + 1)] = chain[i - 1]
    <3> HIDE DEF right
    <3>1. i - (k + 1) \in 1 .. Len(chain) - k /\ k + (i - (k + 1)) = i - 1
      BY <1>1, <1>2
    <3> QED
      BY <1>7, <3>1
  <2>5. ASSUME NEW i \in 1 .. k + 1 PROVE chain'[i] = (left \o <<new>>)[i]
    <3> HIDE DEF new, left, right
    <3>1. i \in 1 .. Len(chain) + 1 /\ i <= k + 1
      BY <1>1, <1>2
    <3> QED
      BY <2>0, <2>3, <3>1
  <2>6. ASSUME NEW i \in k + 2 .. Len(chain) + 1 PROVE chain'[i] = chain[i - 1]
    <3> HIDE DEF new, left, right
    <3>1. i \in 1 .. Len(chain) + 1 /\ ~(i <= k + 1)
      BY <1>1, <1>2
    <3> QED
      BY <2>0, <2>3, <2>4, <3>1
  <2>7. \A i \in 1 .. k : i \in 1 .. k + 1
    BY <1>1, <1>2
  <2>8. k + 1 \in 1 .. k + 1
    BY <1>1, <1>2
  <2>9. /\ chain' \in Seq(Block) /\ Len(chain') = Len(chain) + 1
    BY <2>0, <2>3
  <2> HIDE DEF new, left, right
  <2> QED
    BY <2>2, <2>5, <2>6, <2>7, <2>8, <2>9
<1> HIDE DEF new, left, right
<1>9. \A i \in 1 .. Len(chain) : /\ End(chain[i]) \in Nat
                                 /\ HeapBase + Node <= chain[i].address
                                 /\ End(chain[i]) + Node <= boot_heap_tail
  BY <1>2 DEF BlocksApart, End
<1>10. \A i \in 1 .. Len(chain) : i <= k => End(chain[i]) + Node <= new.address
  <2> SUFFICES ASSUME NEW i \in 1 .. Len(chain), i <= k
               PROVE  End(chain[i]) + Node <= new.address
    OBVIOUS
  <2>1. CASE i = k
    BY <1>4, <1>5, <2>1
  <2>2. CASE i < k
    <3>1. k \in 1 .. Len(chain) /\ End(chain[i]) + Node <= chain[k].address
      BY <1>1, <1>2, <2>2 DEF BlocksApart
    <3>2. chain[k].address <= End(chain[k])
      BY <1>2, <3>1 DEF End
    <3> QED
      BY <1>2, <1>4, <1>5, <1>9, <3>1, <3>2 DEF Node
  <2> QED
    BY <2>1, <2>2, <1>2
<1>11. \A i \in 1 .. Len(chain) : i > k => End(new) + Node <= chain[i].address
  <2> SUFFICES ASSUME NEW i \in 1 .. Len(chain), i > k
               PROVE  End(new) + Node <= chain[i].address
    OBVIOUS
  <2>1. k + 1 \in 1 .. Len(chain) /\ NextAddress(k) = chain[k + 1].address
    BY <1>1, <1>2 DEF NextAddress
  <2>2. CASE i = k + 1
    BY <1>5, <2>1, <2>2
  <2>3. CASE i > k + 1
    <3>1. End(chain[k + 1]) + Node <= chain[i].address
      BY <1>1, <1>2, <2>1, <2>3 DEF BlocksApart
    <3>2. chain[k + 1].address <= End(chain[k + 1])
      BY <1>2, <2>1 DEF End
    <3>3. chain[k + 1].address \in Nat /\ End(chain[k + 1]) \in Nat /\ chain[i].address \in Nat
      BY <1>2, <1>9, <2>1
    <3>4. End(new) \in Nat /\ End(new) + Node <= chain[k + 1].address
      BY <1>5, <2>1
    <3> QED
      BY <3>1, <3>2, <3>3, <3>4 DEF Node
  <2> QED
    BY <2>2, <2>3, <1>1, <1>2
<1>12. End(new) + Node <= boot_heap_tail
  <2>1. CASE k = Len(chain)
    BY <1>5, <2>1 DEF NextAddress
  <2>2. CASE k # Len(chain)
    <3>1. k + 1 \in 1 .. Len(chain)
      BY <1>1, <1>2, <2>2
    <3>2. End(new) + Node <= chain[k + 1].address /\ chain[k + 1].address <= End(chain[k + 1])
      BY <1>1, <1>2, <1>11, <3>1 DEF End
    <3> QED
      BY <1>2, <1>5, <1>9, <3>1, <3>2 DEF Node
  <2> QED
    BY <2>1, <2>2
<1>13. ASSUME NEW i \in 1 .. Len(chain'), NEW j \in 1 .. Len(chain'), i < j
       PROVE  End(chain'[i]) + Node <= chain'[j].address
  <2>1. CASE j <= k
    <3>0. i \in 1 .. k /\ j \in 1 .. k
      BY <1>1, <1>2, <1>8, <1>13, <2>1
    <3>1. i \in 1 .. Len(chain) /\ j \in 1 .. Len(chain) /\ chain'[i] = chain[i] /\ chain'[j] = chain[j]
      BY <1>1, <1>2, <1>8, <3>0
    <3> QED
      BY <1>13, <3>1 DEF BlocksApart
  <2>2. CASE j = k + 1
    BY <1>1, <1>2, <1>8, <1>10, <1>13, <2>2
  <2>3. CASE j > k + 1 /\ i = k + 1
    <3>1. j - 1 \in 1 .. Len(chain) /\ j - 1 > k /\ j \in k + 2 .. Len(chain) + 1
      BY <1>1, <1>2, <1>8, <1>13, <2>3
    <3>2. chain'[i] = new /\ chain'[j] = chain[j - 1]
      BY <1>8, <2>3, <3>1
    <3> QED
      BY <1>11, <3>1, <3>2
  <2>4. CASE j > k + 1 /\ i > k + 1
    <3>1. /\ i - 1 \in 1 .. Len(chain) /\ j - 1 \in 1 .. Len(chain) /\ i - 1 < j - 1
          /\ chain'[i] = chain[i - 1] /\ chain'[j] = chain[j - 1]
      BY <1>1, <1>2, <1>8, <1>13, <2>4
    <3> QED
      BY <3>1 DEF BlocksApart
  <2>5. CASE j > k + 1 /\ i <= k
    <3>1. /\ i \in 1 .. Len(chain) /\ j - 1 \in 1 .. Len(chain) /\ i < j - 1
          /\ chain'[i] = chain[i] /\ chain'[j] = chain[j - 1]
      BY <1>1, <1>2, <1>8, <1>13, <2>5
    <3> QED
      BY <3>1 DEF BlocksApart
  <2> QED
    BY <1>1, <1>2, <2>1, <2>2, <2>3, <2>4, <2>5
<1>14. ASSUME NEW i \in 1 .. Len(chain')
       PROVE  HeapBase + Node <= chain'[i].address /\ End(chain'[i]) + Node <= boot_heap_tail
  <2>1. CASE i <= k
    BY <1>1, <1>2, <1>8, <1>9, <1>14, <2>1
  <2>2. CASE i = k + 1
    BY <1>1, <1>5, <1>8, <1>12, <2>2
  <2>3. CASE i > k + 1
    <3>1. i - 1 \in 1 .. Len(chain)
      BY <1>1, <1>2, <1>8, <1>14, <2>3
    <3>2. chain'[i] = chain[i - 1]
      BY <1>8, <1>14, <2>3, <3>1
    <3> QED
      BY <1>9, <3>1, <3>2
  <2> QED
    BY <1>1, <1>2, <2>1, <2>2, <2>3
<1>15. HeapType'
  BY <1>2, <1>8 DEF HeapType
<1> QED
  BY <1>2, <1>13, <1>14, <1>15 DEF BlocksApart

\* free keeps them apart, whatever address it is given.
LEMMA FreeKeeps ==
  ASSUME HeapType, BlocksApart, NEW p, Free(p)
  PROVE  HeapType' /\ BlocksApart'
<1>1. /\ chain \in Seq(Block) /\ Len(chain) \in Nat
      /\ \A i \in 1 .. Len(chain) : chain[i] \in Block
      /\ boot_heap_tail' = boot_heap_tail
  BY DEF HeapType, Free
<1>2. CASE UNCHANGED chain
  BY <1>1, <1>2 DEF HeapType, BlocksApart
<1>3. ASSUME NEW k \in 1 .. Len(chain), chain' = RemoveAt(chain, k)
      PROVE  HeapType' /\ BlocksApart'
  <2> DEFINE left == SubSeq(chain, 1, k - 1)
             right == SubSeq(chain, k + 1, Len(chain))
             Old(i) == IF i < k THEN i ELSE i + 1
  <2>1. /\ left \in Seq(Block) /\ Len(left) = k - 1
        /\ \A i \in 1 .. k - 1 : left[i] = chain[i]
    BY <1>1, <1>3, SubSeqProperties
  <2>2. /\ right \in Seq(Block) /\ Len(right) = Len(chain) - k
        /\ \A i \in 1 .. Len(chain) - k : right[i] = chain[k + i]
    BY <1>1, <1>3, SubSeqProperties
  <2>3. chain' = left \o right
    BY <1>3, Zenon DEF RemoveAt
  <2>4. Len(left) + Len(right) = Len(chain) - 1
    <3> HIDE DEF left, right
    <3> QED
      BY <1>1, <1>3, <2>1, <2>2
  <2>5. /\ chain' \in Seq(Block) /\ Len(chain') = Len(chain) - 1
        /\ \A i \in 1 .. Len(chain) - 1 :
             chain'[i] = IF i <= k - 1 THEN left[i] ELSE right[i - (k - 1)]
    <3> HIDE DEF left, right
    <3>1. /\ left \o right \in Seq(Block) /\ Len(left \o right) = Len(left) + Len(right)
          /\ \A i \in 1 .. Len(left) + Len(right) :
               (left \o right)[i] = IF i <= Len(left) THEN left[i] ELSE right[i - Len(left)]
      BY <2>1, <2>2, ConcatProperties
    <3> QED
      BY <2>1, <2>3, <2>4, <3>1
  <2>6. ASSUME NEW i \in 1 .. Len(chain')
        PROVE  Old(i) \in 1 .. Len(chain) /\ chain'[i] = chain[Old(i)]
    <3> HIDE DEF left, right
    <3>1. i \in 1 .. Len(chain) - 1
      BY <2>5
    <3>2. CASE i < k
      <4>1. i \in 1 .. k - 1 /\ i <= k - 1 /\ Old(i) = i /\ i \in 1 .. Len(chain)
        BY <1>1, <1>3, <3>1, <3>2
      <4> QED
        BY <2>1, <2>5, <3>1, <4>1
    <3>3. CASE ~(i < k)
      <4>1. /\ i - (k - 1) \in 1 .. Len(chain) - k /\ ~(i <= k - 1)
            /\ k + (i - (k - 1)) = i + 1
            /\ Old(i) = i + 1 /\ i + 1 \in 1 .. Len(chain)
        BY <1>1, <1>3, <3>1, <3>3
      <4> QED
        BY <2>2, <2>5, <3>1, <4>1
    <3> QED
      BY <3>2, <3>3
  <2>7. ASSUME NEW i \in 1 .. Len(chain'), NEW j \in 1 .. Len(chain'), i < j
        PROVE  Old(i) < Old(j)
    BY <1>1, <1>3, <2>5, <2>7
  <2> HIDE DEF left, right, Old
  <2>8. ASSUME NEW i \in 1 .. Len(chain'), NEW j \in 1 .. Len(chain'), i < j
        PROVE  End(chain'[i]) + Node <= chain'[j].address
    BY <2>6, <2>7, <2>8 DEF BlocksApart
  <2>9. ASSUME NEW i \in 1 .. Len(chain')
        PROVE  HeapBase + Node <= chain'[i].address /\ End(chain'[i]) + Node <= boot_heap_tail
    BY <2>6 DEF BlocksApart
  <2> QED
    BY <1>1, <2>5, <2>8, <2>9 DEF HeapType, BlocksApart
<1> QED
  BY <1>2, <1>3 DEF Free
-----------------------------------------------------------------------------
(* The heap in main *)

HeapInv == store \in Stores /\ HeapType /\ BlocksApart

LEMMA HeapStart == Init => HeapInv
  BY DEF Init, HeapInit, HeapInv, HeapType, BlocksApart

LEMMA HeapStep == HeapInv /\ [Next]_vars => HeapInv'
<1> SUFFICES ASSUME HeapInv, [Next]_vars PROVE HeapInv'
  OBVIOUS
<1>1. ASSUME UNCHANGED <<store, heapVars>> PROVE HeapInv'
  BY <1>1 DEF HeapInv, HeapType, heapVars, BlocksApart, End
<1>2. ASSUME NEW n \in Nat, Malloc(n), UNCHANGED store PROVE HeapInv'
  BY <1>2, MallocKeeps DEF HeapInv
<1>3. ASSUME NEW n \in Nat, MallocFails(n), UNCHANGED store PROVE HeapInv'
  BY <1>1, <1>3 DEF MallocFails
<1>4. CASE BoardError \/ OpenError
  BY <1>1, <1>4 DEF BoardError, OpenError, Searching, loadVars, heapVars
<1>5. CASE Board
  <2>1. chain' = <<>> /\ boot_heap_tail' \in Nat /\ store' = store
    BY <1>5, Boot0Assumption, HeapAssumption DEF Board, MallocInit, HeapInv
  <2> QED
    BY <2>1 DEF HeapInv, HeapType, BlocksApart
<1>6. CASE SdmmcHead \/ SdmmcRest
  BY <1>1, <1>6 DEF SdmmcHead, SdmmcRest, Searching, loadVars, heapVars
<1>7. CASE RawHead \/ RawSlot \/ RawPart
  BY <1>1, <1>7 DEF RawHead, RawSlot, RawPart, Searching, loadVars, heapVars
<1>8. CASE SpiHead \/ SpiPart
  BY <1>1, <1>8 DEF SpiHead, SpiPart, Searching, loadVars, heapVars
<1>9. CASE NorHead \/ NorRest
  BY <1>1, <1>9 DEF NorHead, NorRest, Searching, loadVars, heapVars
<1>10. CASE CopyItem \/ LzmaDecode \/ Lz4 \/ Unpacked
  BY <1>1, <1>10 DEF CopyItem, LzmaDecode, Lz4, Unpacked, Loading, heapVars
<1>11. CASE GzInit
  BY <1>1, <1>2, <1>3, <1>11 DEF GzInit, Loading
<1>12. CASE Inflate
  <2>1. UNCHANGED store
    BY <1>12 DEF Inflate, Loading
  <2>2. UNCHANGED <<chain, boot_heap_tail>> \/ MallocFails(32768) \/ Malloc(32768)
    BY <1>12 DEF Inflate, Decoded, heapVars
  <2>3. CASE UNCHANGED <<chain, boot_heap_tail>>
    BY <1>1, <2>1, <2>3 DEF heapVars
  <2>4. CASE MallocFails(32768)
    BY <1>3, <2>1, <2>4
  <2>5. CASE Malloc(32768)
    BY <1>2, <2>1, <2>5
  <2> QED
    BY <2>2, <2>3, <2>4, <2>5
<1>13. CASE LzmaInit
  BY <1>1, <1>2, <1>3, <1>13, Boot0Assumption DEF LzmaInit, Loading
<1>14. CASE Release
  BY <1>14, FreeKeeps DEF Release, Loading, HeapInv
<1>15. CASE ItemsDone \/ Jump
  BY <1>1, <1>15 DEF ItemsDone, Jump, Loading, loadVars, heapVars
<1>16. CASE UNCHANGED vars
  BY <1>1, <1>16 DEF vars, loadVars, heapVars
<1> QED
  BY <1>4, <1>5, <1>6, <1>7, <1>8, <1>9, <1>10, <1>11, <1>12, <1>13, <1>14, <1>15, <1>16
     DEF Next

\* However the decoders allocate, and whatever the heap's size, their blocks and
\* nodes never overlap.
THEOREM HeapApart == Spec => []BlocksApart
<1>1. Init => HeapInv
  BY HeapStart
<1>2. HeapInv /\ [Next]_vars => HeapInv'
  BY HeapStep
<1>3. HeapInv => BlocksApart
  BY DEF HeapInv
<1> QED
  BY <1>1, <1>2, <1>3, PTL DEF Spec

-----------------------------------------------------------------------------
(* The package *)

BufferType ==
  /\ buffer = [head |-> buffer.head, body |-> buffer.body]
  /\ buffer.head \in Version \union {Nil}

\* The search on each medium reaches Loaded with a sum that was right.
PackageInv ==
  /\ store \in Stores /\ BufferType
  /\ HasPackage /\ ~On("spinor") => Verified(buffer)

LEMMA PackageStep == PackageInv /\ [Next]_vars => PackageInv'
<1> SUFFICES ASSUME PackageInv, [Next]_vars PROVE PackageInv'
  OBVIOUS
<1>1. \A i : /\ HeadOf(BlockAt(i)) \in Version \union {Nil}
             /\ BlockAt(i).ver \in Version \union {Nil}
  BY Boot0Assumption DEF PackageInv, HeadOf, BlockAt, Foreign
<1>2. ASSUME UNCHANGED <<store, buffer>>, HasPackage' => HasPackage
      PROVE  PackageInv'
  BY <1>2 DEF PackageInv, BufferType, On, Verified
\* The search goes on.
<1>3. ASSUME UNCHANGED store, BufferType', pc' \notin {"items", "inflate", "lzma", "release", "jump", "jumped", "hung"}
      PROVE  PackageInv'
  BY <1>3 DEF PackageInv, HasPackage
\* The search is over.
<1>4. ASSUME UNCHANGED store, BufferType', Verified(buffer') \/ On("spinor")
      PROVE  PackageInv'
  BY <1>4 DEF PackageInv, On
\* What the reads do to the buffer.
<1>5. ASSUME UNCHANGED buffer PROVE BufferType'
  BY <1>5 DEF PackageInv, BufferType
<1>6. ASSUME NEW h \in Version \union {Nil}, NEW b,
             buffer' = [head |-> h, body |-> b]
      PROVE  BufferType'
  BY <1>6 DEF BufferType
<1>7. CASE BoardError \/ OpenError \/ Board
  BY <1>2, <1>7 DEF BoardError, OpenError, Board, Fel, Goto, Searching, searchVars, HasPackage
<1>8. CASE SdmmcHead
  <2>1. UNCHANGED store /\ pc' \in {"fel", "search", "rest", "astray"}
    BY <1>8 DEF SdmmcHead, Fel, NextCopy, Astray, Goto, Searching
  <2>2. BufferType'
    BY <1>1, <1>8, <1>5 DEF SdmmcHead, PackageInv, BufferType
  <2> QED
    BY <1>3, <2>1, <2>2
<1>9. CASE SdmmcRest
  <2>1. UNCHANGED store
    BY <1>9 DEF SdmmcRest, Searching
  <2>2. BufferType'
    BY <1>9, <1>5 DEF SdmmcRest, PackageInv, BufferType
  <2>3. pc' \in {"fel", "search"} \/ Verified(buffer')
    BY <1>9 DEF SdmmcRest, Fel, NextCopy, Goto
  <2> QED
    BY <1>3, <1>4, <2>1, <2>2, <2>3
<1>10. CASE RawHead
  <2>1. UNCHANGED store /\ pc' \in {"fel", "search", "slot", "part", "astray"}
    BY <1>10 DEF RawHead, Fel, NextCopy, StartParts, Astray, Goto, Searching
  <2>2. BufferType'
    BY <1>1, <1>10, <1>5 DEF RawHead, PackageInv, BufferType
  <2> QED
    BY <1>3, <2>1, <2>2
<1>11. CASE RawSlot
  <2>1. UNCHANGED store /\ (pc' \in {"search", "slot"} \/ Verified(buffer'))
    BY <1>11 DEF RawSlot, NextCopy, Goto, Searching
  <2>2. BufferType'
    BY <1>11, <1>5 DEF RawSlot, PackageInv, BufferType
  <2> QED
    BY <1>3, <1>4, <2>1, <2>2
<1>12. CASE RawPart
  <2>1. UNCHANGED store /\ (pc' \in {"fel", "search", "part"} \/ Verified(buffer'))
    BY <1>12 DEF RawPart, CheckSum, SkipBad, Store, Fel, NextCopy, Goto, Searching
  <2>2. BufferType'
    BY <1>12, <1>5 DEF RawPart, CheckSum, SkipBad, Store, PackageInv, BufferType
  <2> QED
    BY <1>3, <1>4, <2>1, <2>2
<1>13. CASE SpiHead
  <2>1. UNCHANGED store /\ pc' \in {"fel", "search", "part", "astray"}
    BY <1>13 DEF SpiHead, Fel, NextCopy, StartParts, Astray, Goto, Searching
  <2>2. BufferType'
    BY <1>1, <1>13, <1>5 DEF SpiHead, PackageInv, BufferType
  <2> QED
    BY <1>3, <2>1, <2>2
<1>14. CASE SpiPart
  <2>1. UNCHANGED store /\ (pc' \in {"fel", "search", "part"} \/ Verified(buffer'))
    BY <1>14 DEF SpiPart, CheckSum, SkipBad, Store, Fel, NextCopy, Goto, Searching
  <2>2. BufferType'
    BY <1>14, <1>5 DEF SpiPart, CheckSum, SkipBad, Store, PackageInv, BufferType
  <2> QED
    BY <1>3, <1>4, <2>1, <2>2
<1>15. CASE NorHead
  <2>1. UNCHANGED store /\ On("spinor")
    BY <1>15 DEF NorHead, Searching
  <2>2. BufferType'
    BY <1>1, <1>15, <1>5 DEF NorHead, EmptyHead, PackageInv, BufferType
  <2> QED
    BY <1>4, <2>1, <2>2
<1>16. CASE NorRest
  <2>1. UNCHANGED store /\ On("spinor")
    BY <1>16 DEF NorRest, Searching
  <2>2. BufferType'
    BY <1>16, <1>5 DEF NorRest, PackageInv, BufferType
  <2> QED
    BY <1>4, <2>1, <2>2
<1>17. CASE CopyItem \/ Lz4 \/ GzInit \/ Inflate \/ LzmaInit \/ LzmaDecode
  <2>1. Loading
    <3>1. CASE CopyItem
      BY <3>1 DEF CopyItem
    <3>2. CASE Lz4 \/ Inflate \/ LzmaDecode
      BY <3>2 DEF Lz4, Inflate, LzmaDecode, Decoded
    <3>3. CASE GzInit \/ LzmaInit
      BY <3>3 DEF GzInit, LzmaInit
    <3> QED
      BY <1>17, <3>1, <3>2, <3>3
  <2>2. pc = "items" \/ pc = "inflate" \/ pc = "lzma"
    <3>1. CASE CopyItem
      BY <3>1 DEF CopyItem
    <3>2. CASE Lz4 \/ Inflate \/ LzmaDecode
      BY <3>2 DEF Lz4, Inflate, LzmaDecode, Decoded
    <3>3. CASE GzInit \/ LzmaInit
      BY <3>3 DEF GzInit, LzmaInit, Unpack
    <3> QED
      BY <1>17, <3>1, <3>2, <3>3
  <2> QED
    BY <1>2, <2>1, <2>2 DEF Loading, searchVars, HasPackage
<1>18. CASE Release \/ Unpacked \/ ItemsDone \/ Jump
  BY <1>2, <1>18 DEF Release, Unpacked, ItemsDone, Jump, Loading, searchVars, HasPackage
<1>19. CASE UNCHANGED vars
  BY <1>2, <1>19 DEF vars, searchVars, HasPackage
<1> QED
  BY <1>7, <1>8, <1>9, <1>10, <1>11, <1>12, <1>13, <1>14, <1>15, <1>16, <1>17, <1>18, <1>19
     DEF Next

\* On no medium but the NOR flash does a package go on that is not whole.
THEOREM PackagesIntact == Spec => []PackageIntact
<1>1. Init => PackageInv
  BY Boot0Assumption DEF Init, PackageInv, BufferType, HasPackage
<1>2. PackageInv /\ [Next]_vars => PackageInv'
  BY PackageStep
<1>3. PackageInv => PackageIntact
  BY DEF PackageInv, BufferType, PackageIntact, Verified
<1> QED
  BY <1>1, <1>2, <1>3, PTL DEF Spec

-----------------------------------------------------------------------------
(* What the decoders hold                                                  *)

\* The first block of an empty heap, and the window behind the state of inflate.
First(n) == [address |-> HeapBase + Node, size |-> Align(n)]
Window == [address |-> End(First(9552)) + Node, size |-> Align(32768)]

LEMMA Blocks ==
  /\ \A n \in Nat : /\ First(n) \in Block /\ End(First(n)) \in Nat
                    /\ End(First(n)) = HeapBase + Node + Align(n)
  /\ Window \in Block /\ Window.address # HeapBase + Node
  /\ End(Window) = HeapBase + 2 * Node + Align(9552) + Align(32768)
<1>1. \A n \in Nat : Align(n) \in Nat
  BY AlignNat
<1>2. Align(9552) \in Nat /\ Align(32768) \in Nat /\ HeapBase \in Nat
  BY <1>1, HeapAssumption
<1>3. \A n \in Nat : /\ First(n) \in Block /\ End(First(n)) \in Nat
                     /\ End(First(n)) = HeapBase + Node + Align(n)
  BY <1>1, <1>2 DEF First, Block, End, Node
<1>4. End(First(9552)) \in Nat /\ End(First(9552)) = HeapBase + Node + Align(9552)
  BY <1>3
<1>5. /\ Window.address = HeapBase + 2 * Node + Align(9552) /\ Window.size = Align(32768)
      /\ Window.address \in Nat
  BY <1>2, <1>4 DEF Window, Node
<1>6. Window \in Block
  BY <1>2, <1>5 DEF Window, Block
<1>7. Window.address # HeapBase + Node
  BY <1>2, <1>5 DEF Node
<1>8. End(Window) = HeapBase + 2 * Node + Align(9552) + Align(32768)
  BY <1>2, <1>5 DEF End, Node
<1> QED
  BY <1>3, <1>6, <1>7, <1>8

\* An allocation behind the last block.
LEMMA InsertLast ==
  ASSUME NEW S, NEW s \in Seq(S), NEW x \in S
  PROVE  InsertAt(s, Len(s) + 1, x) = Append(s, x)
<1>1. Len(s) \in Nat /\ (Len(s) + 1) - 1 = Len(s)
  BY LenProperties
<1>2. SubSeq(s, 1, (Len(s) + 1) - 1) = s
  BY <1>1, SubSeqFull
<1>3. SubSeq(s, Len(s) + 1, Len(s)) = <<>>
  BY <1>1, SubSeqEmpty
<1>4. Append(s, x) = s \o <<x>> /\ Append(s, x) \in Seq(S)
  BY AppendIsConcat, AppendProperties
<1>5. (s \o <<x>>) \o <<>> = s \o <<x>>
  BY <1>4, ConcatEmptySeq
<1>6. InsertAt(s, Len(s) + 1, x)
        = SubSeq(s, 1, (Len(s) + 1) - 1) \o <<x>> \o SubSeq(s, Len(s) + 1, Len(s))
  BY Zenon DEF InsertAt
<1> QED
  BY <1>2, <1>3, <1>4, <1>5, <1>6

\* The release of the last block.
LEMMA RemoveLast ==
  ASSUME NEW S, NEW s \in Seq(S), NEW x \in S
  PROVE  /\ RemoveAt(Append(s, x), Len(s) + 1) = s
         /\ Front(Append(s, x)) = s /\ Last(Append(s, x)) = x
<1> DEFINE t == Append(s, x)
<1>1. /\ t \in Seq(S) /\ Len(t) = Len(s) + 1 /\ Len(s) \in Nat /\ t[Len(s) + 1] = x
      /\ \A i \in 1 .. Len(s) : t[i] = s[i]
  BY AppendProperties, LenProperties
<1> HIDE DEF t
<1>2. SubSeq(t, 1, Len(s)) = s
  <2>1. \A i \in 1 .. Len(s) : t[i] \in S
    BY <1>1, ElementOfSeq
  <2>2. /\ SubSeq(t, 1, Len(s)) \in Seq(S) /\ Len(SubSeq(t, 1, Len(s))) = Len(s)
        /\ \A i \in 1 .. Len(s) : SubSeq(t, 1, Len(s))[i] = s[i]
    <3>1. /\ SubSeq(t, 1, Len(s)) \in Seq(S)
          /\ Len(SubSeq(t, 1, Len(s))) = IF 1 <= Len(s) THEN Len(s) - 1 + 1 ELSE 0
          /\ \A i \in 1 .. Len(s) - 1 + 1 : SubSeq(t, 1, Len(s))[i] = t[1 + i - 1]
      BY <1>1, <2>1, SubSeqProperties
    <3> QED
      BY <1>1, <3>1
  <2> QED
    BY <2>2, SeqEqual
<1>3. SubSeq(t, (Len(s) + 1) + 1, Len(t)) = <<>>
  BY <1>1, SubSeqEmpty
<1>4. (Len(s) + 1) - 1 = Len(s) /\ Len(t) - 1 = Len(s)
  BY <1>1
<1>5. RemoveAt(t, Len(s) + 1) = SubSeq(t, 1, (Len(s) + 1) - 1) \o SubSeq(t, (Len(s) + 1) + 1, Len(t))
  BY Zenon DEF RemoveAt
<1>6. s \o <<>> = s
  BY ConcatEmptySeq
<1>7. RemoveAt(t, Len(s) + 1) = s
  BY <1>2, <1>3, <1>4, <1>5, <1>6
<1>8. Front(t) = s /\ Last(t) = x
  BY <1>1, <1>2, <1>4 DEF Front, Last
<1> QED
  BY <1>7, <1>8 DEF t

\* The provers know of no sequence <<x, y>> that it is made of another.
LEMMA AppendOne ==
  ASSUME NEW x, NEW y
  PROVE  Append(<<x>>, y) = <<x, y>>
<1>1. <<x>> \in Seq({x, y}) /\ <<x, y>> \in Seq({x, y}) /\ y \in {x, y}
  OBVIOUS
<1>2. PICK s \in Seq({x, y}) : s = <<x>>
  BY <1>1
<1>3. PICK t \in Seq({x, y}) : t = <<x, y>>
  BY <1>1
<1>4. Len(s) = 1 /\ s[1] = x
  BY <1>2
<1>5. Len(t) = 2 /\ t[1] = x /\ t[2] = y
  BY <1>3
<1> DEFINE u == Append(s, y)
<1>6. /\ u \in Seq({x, y}) /\ Len(u) = Len(s) + 1
      /\ \A i \in 1 .. Len(s) : u[i] = s[i]
      /\ u[Len(s) + 1] = y
  BY <1>1, AppendProperties
<1> HIDE DEF u
<1>7. u \in Seq({x, y}) /\ Len(u) = Len(t) /\ \A i \in 1 .. Len(u) : u[i] = t[i]
  BY <1>4, <1>5, <1>6
<1>8. u = t
  BY <1>7, SeqEqual
<1> QED
  BY <1>2, <1>3, <1>8, Zenon DEF u

\* Both for the short sequences that occur here.
LEMMA OneBlock ==
  ASSUME NEW x
  PROVE  RemoveAt(<<x>>, 1) = <<>> /\ Front(<<x>>) = <<>> /\ Last(<<x>>) = x
<1>0. <<>> \in Seq({x})
  OBVIOUS
<1>1. PICK s \in Seq({x}) : s = <<>>
  BY <1>0
<1>2. Len(s) + 1 = 1 /\ Append(s, x) = <<x>>
  BY <1>1
<1>3. x \in {x}
  OBVIOUS
<1>4. /\ RemoveAt(Append(s, x), Len(s) + 1) = s
      /\ Front(Append(s, x)) = s /\ Last(Append(s, x)) = x
  BY <1>3, RemoveLast, Zenon
<1> QED
  BY <1>1, <1>2, <1>4, Zenon

LEMMA TwoBlocks ==
  ASSUME NEW x, NEW y
  PROVE  /\ Append(<<x>>, y) = <<x, y>>
         /\ RemoveAt(<<x, y>>, 2) = <<x>> /\ Front(<<x, y>>) = <<x>> /\ Last(<<x, y>>) = y
<1>0. <<x>> \in Seq({x, y})
  OBVIOUS
<1>1. PICK s \in Seq({x, y}) : s = <<x>>
  BY <1>0
<1>2. Len(s) + 1 = 2
  BY <1>1
<1>5. Append(s, y) = <<x, y>>
  BY <1>1, AppendOne, Zenon
<1>3. y \in {x, y}
  OBVIOUS
<1>4. /\ RemoveAt(Append(s, y), Len(s) + 1) = s
      /\ Front(Append(s, y)) = s /\ Last(Append(s, y)) = y
  BY <1>3, RemoveLast, Zenon
<1> QED
  BY <1>1, <1>2, <1>4, <1>5, Zenon

\* malloc where no gap but the last one has room.
LEMMA MallocLast ==
  ASSUME HeapType, NEW n \in Nat, Malloc(n),
         \A j \in 0 .. Len(chain) - 1 : ~Fits(j, n),
         NewBlock(Len(chain), n) \in Block
  PROVE  /\ chain' = Append(chain, NewBlock(Len(chain), n))
         /\ Address(n) = NewBlock(Len(chain), n).address
<1> DEFINE last == Len(chain)
<1>1. chain \in Seq(Block) /\ last \in Nat
  BY DEF HeapType
<1>2. PICK k \in 0 .. last :
        Fits(k, n) /\ chain' = InsertAt(chain, k + 1, NewBlock(k, n))
  BY DEF Malloc
<1>3. k = last
  BY <1>1, <1>2
<1>4. InsertAt(chain, last + 1, NewBlock(last, n)) = Append(chain, NewBlock(last, n))
  BY <1>1, InsertLast
<1>5. Fit(n) = last
  <2>1. Fit(n) \in 0 .. last /\ Fits(Fit(n), n)
    <3>1. \E j \in 0 .. last : Fits(j, n) /\ \A i \in 0 .. j - 1 : ~Fits(i, n)
      BY <1>1, <1>2, <1>3
    <3> HIDE DEF Fits
    <3> QED
      BY <3>1 DEF Fit
  <2> HIDE DEF Fits
  <2> QED
    BY <1>1, <2>1
<1> QED
  BY <1>2, <1>3, <1>4, <1>5 DEF Address

\* malloc in an empty heap.
LEMMA MallocFirst ==
  ASSUME HeapType, chain = <<>>, NEW n \in Nat, Malloc(n)
  PROVE  chain' = <<First(n)>> /\ Address(n) = HeapBase + Node
<1>1. Len(chain) = 0 /\ 0 .. Len(chain) - 1 = {}
  OBVIOUS
<1>2. NewBlock(0, n) = First(n) /\ First(n) \in Block
  <2>1. End(Prev(0)) = HeapBase
    BY HeapAssumption DEF Prev, boot_heap_head, End
  <2> QED
    BY <2>1, Blocks DEF NewBlock, First
<1>3. chain' = Append(chain, First(n)) /\ Address(n) = First(n).address
  BY <1>1, <1>2, MallocLast
<1> QED
  BY <1>3 DEF First

LEMMA StateAndWindow == Append(<<First(9552)>>, Window) = <<First(9552), Window>>
<1>1. PICK f : f = First(9552)
  OBVIOUS
<1>2. Append(<<f>>, Window) = <<f, Window>>
  <2> HIDE <1>1
  <2> QED
    BY AppendOne, Zenon
<1> QED
  BY <1>1, <1>2

LEMMA AddressAndWindow == Append(<<HeapBase + Node>>, Window.address) = <<HeapBase + Node, Window.address>>
<1>1. PICK a, w : a = HeapBase + Node /\ w = Window.address
  OBVIOUS
<1>2. Append(<<a>>, w) = <<a, w>>
  <2> HIDE <1>1
  <2> QED
    BY AppendOne, Zenon
<1> QED
  BY <1>1, <1>2

\* inflate's window goes behind its state: the gap in front has no room.
LEMMA MallocSecond ==
  ASSUME HeapType, chain = <<First(9552)>>, Malloc(32768)
  PROVE  chain' = <<First(9552), Window>> /\ Address(32768) = Window.address
<1>1. Len(chain) = 1 /\ 0 .. Len(chain) - 1 = {0} /\ chain[1] = First(9552)
  OBVIOUS
<1>2. First(9552).address = HeapBase + Node /\ Align(32768) \in Nat /\ HeapBase \in Nat
  BY HeapAssumption, AlignNat DEF First
<1>3. ~Fits(0, 32768)
  <2>1. NextAddress(0) = HeapBase + Node /\ End(Prev(0)) = HeapBase
    BY <1>1, <1>2 DEF NextAddress, Prev, boot_heap_head, End
  <2> QED
    BY <1>2, <2>1 DEF Fits, Node
<1>4. NewBlock(1, 32768) = Window /\ Window \in Block
  BY <1>1, Blocks DEF NewBlock, Prev, Window
<1>5. chain' = Append(chain, Window) /\ Address(32768) = Window.address
  BY <1>1, <1>3, <1>4, MallocLast
<1> QED
  BY <1>5, StateAndWindow

\* What is in the heap at each point of load_image.
One(n) == chain = <<First(n)>> /\ held = <<HeapBase + Node>>
Two    == chain = <<First(9552), Window>> /\ held = <<HeapBase + Node, Window.address>>
HeldInv ==
  /\ pc \notin {"inflate", "lzma", "release"} => chain = <<>> /\ held = <<>>
  /\ pc = "inflate" => One(9552)
  /\ pc = "lzma" => \E n \in ProbsSizes : One(n)
  /\ pc = "release" =>
       (chain = <<>> /\ held = <<>>) \/ (\E n \in ProbsSizes \union {9552} : One(n)) \/ Two

\* Release, one block after the other.
LEMMA ReleaseHeld ==
  ASSUME HeldInv, Release
  PROVE  HeldInv'
<1>1. /\ pc = "release" /\ pc' = "release" /\ held # <<>>
      /\ Free(Last(held)) /\ held' = Front(held)
  BY DEF Release
<1> DEFINE a == HeapBase + Node
<1>2. a \in Nat /\ Window.address \in Nat
  BY HeapAssumption, Blocks DEF Node, Block
<1>3. ASSUME NEW n \in ProbsSizes \union {9552}, One(n)
      PROVE  chain' = <<>> /\ held' = <<>>
  <2>1. First(n) \in Block /\ First(n).address = a
    BY Boot0Assumption, Blocks DEF First
  <2>2. Front(held) = <<>> /\ Last(held) = a
    BY <1>3, OneBlock DEF One
  <2>3. RemoveAt(chain, 1) = <<>>
    BY <1>3, OneBlock DEF One
  <2>4. Len(chain) = 1 /\ chain[1].address = a
    BY <1>3, <2>1 DEF One
  <2>5. PICK k \in 1 .. Len(chain) : chain' = RemoveAt(chain, k)
    BY <1>1, <2>2, <2>4 DEF Free
  <2>6. k = 1
    BY <2>4
  <2> QED
    BY <1>1, <2>2, <2>3, <2>5, <2>6
<1>4. ASSUME Two PROVE One(9552)'
  <2> DEFINE f == First(9552)
  <2>1. f \in Block /\ Window \in Block /\ f.address = a /\ Window.address # a
    BY Blocks DEF First
  <2>2. chain = <<f, Window>> /\ held = <<a, Window.address>>
    BY <1>4 DEF Two
  <2> HIDE DEF f, a
  <2>3. Front(held) = <<a>> /\ Last(held) = Window.address
    BY <2>2, TwoBlocks
  <2>4. RemoveAt(chain, 2) = <<f>>
    BY <2>2, TwoBlocks
  <2>5. Len(chain) = 2 /\ chain[1].address = a /\ chain[2].address = Window.address
    BY <2>1, <2>2
  <2>6. PICK k \in 1 .. Len(chain) : /\ chain[k].address = Window.address
                                     /\ chain' = RemoveAt(chain, k)
    BY <1>1, <2>3, <2>5 DEF Free
  <2>7. k = 2
    BY <2>1, <2>5, <2>6
  <2>8. chain' = <<f>> /\ held' = <<a>>
    BY <1>1, <2>3, <2>4, <2>6, <2>7
  <2> QED
    BY <2>8 DEF One, f, a
<1>5. (\E n \in ProbsSizes \union {9552} : One(n)) \/ Two
  BY <1>1 DEF HeldInv
<1>6. (chain' = <<>> /\ held' = <<>>) \/ One(9552)'
  BY <1>3, <1>4, <1>5
<1> QED
  BY <1>1, <1>6 DEF HeldInv


LEMMA HeldStep == HeapInv /\ HeldInv /\ [Next]_vars => HeldInv'
<1> SUFFICES ASSUME HeapInv, HeldInv, [Next]_vars PROVE HeldInv'
  OBVIOUS
<1>0. HeapType
  BY DEF HeapInv
<1>1. ASSUME UNCHANGED <<chain, held>>, pc' \notin {"inflate", "lzma", "release"},
             pc \notin {"inflate", "lzma", "release"}
      PROVE  HeldInv'
  BY <1>1 DEF HeldInv
<1>2. CASE BoardError \/ OpenError \/ SdmmcHead \/ SdmmcRest \/ NorHead \/ NorRest
  BY <1>1, <1>2 DEF BoardError, OpenError, SdmmcHead, SdmmcRest, NorHead, NorRest, StartParts,
       Searching, loadVars, heapVars, Goto, Fel, Loaded, NextCopy, Astray
<1>3. CASE Board
  BY <1>3 DEF Board, MallocInit, Goto, HeldInv
<1>4. CASE RawHead \/ RawSlot \/ RawPart
  BY <1>1, <1>4 DEF RawHead, RawSlot, RawPart, StartParts, CheckSum, SkipBad, Store,
       Searching, loadVars, heapVars, Goto, Fel, Loaded, NextCopy, Astray
<1>5. CASE SpiHead \/ SpiPart
  BY <1>1, <1>5 DEF SpiHead, SpiPart, StartParts, CheckSum, SkipBad, Store,
       Searching, loadVars, heapVars, Goto, Fel, Loaded, NextCopy, Astray
<1>6. CASE CopyItem \/ ItemsDone \/ Jump
  BY <1>1, <1>6 DEF CopyItem, ItemsDone, Jump, loadVars, heapVars, Goto
<1>7. CASE GzInit
  <2>1. pc = "items" /\ chain = <<>> /\ held = <<>>
    BY <1>7 DEF GzInit, Unpack, HeldInv
  <2>2. CASE pc' = "jump" /\ UNCHANGED <<heapVars, held>>
    BY <1>1, <2>1, <2>2 DEF heapVars
  <2>3. CASE Malloc(9552) /\ held' = <<Address(9552)>> /\ pc' = "inflate"
    <3>1. chain' = <<First(9552)>> /\ Address(9552) = HeapBase + Node
      BY <1>0, <2>1, <2>3, MallocFirst
    <3>2. One(9552)'
      BY <2>3, <3>1 DEF One
    <3> QED
      BY <2>3, <3>2 DEF HeldInv
  <2> QED
    BY <1>7, <2>2, <2>3 DEF GzInit, GiveUp, Goto, MallocFails
<1>8. CASE LzmaInit
  <2>1. pc = "items" /\ chain = <<>> /\ held = <<>>
    BY <1>8 DEF LzmaInit, Unpack, HeldInv
  <2>2. CASE pc' = "jump" /\ UNCHANGED <<heapVars, held>>
    BY <1>1, <2>1, <2>2 DEF heapVars
  <2>3. ASSUME NEW n \in ProbsSizes, Malloc(n), held' = <<Address(n)>>, pc' = "lzma"
        PROVE  HeldInv'
    <3>1. chain' = <<First(n)>> /\ Address(n) = HeapBase + Node
      BY <1>0, <2>1, <2>3, MallocFirst, Boot0Assumption
    <3>2. One(n)'
      BY <2>3, <3>1 DEF One
    <3> QED
      BY <2>3, <3>2 DEF HeldInv
  <2> QED
    BY <1>8, <2>2, <2>3 DEF LzmaInit, GiveUp, Goto, MallocFails
<1>9. CASE Inflate
  <2>1. pc = "inflate" /\ One(9552) /\ pc' = "release"
    BY <1>9 DEF Inflate, HeldInv, Decoded, Goto
  <2>2. CASE UNCHANGED <<chain, held>>
    <3>1. One(9552)'
      BY <2>1, <2>2 DEF One
    <3> QED
      BY <2>1, <3>1 DEF HeldInv
  <2>3. CASE Malloc(32768) /\ held' = Append(held, Address(32768))
    <3>1. chain' = <<First(9552), Window>> /\ Address(32768) = Window.address
      BY <1>0, <2>1, <2>3, MallocSecond DEF One
    <3>2. held' = Append(<<HeapBase + Node>>, Window.address)
      BY <2>1, <2>3, <3>1 DEF One
    <3>3. held' = <<HeapBase + Node, Window.address>>
      BY <3>2, AddressAndWindow
    <3>4. Two'
      BY <3>1, <3>3 DEF Two
    <3> QED
      BY <2>1, <3>4 DEF HeldInv
  <2>4. \/ UNCHANGED <<chain, boot_heap_tail>> /\ UNCHANGED held
        \/ Malloc(32768) /\ held' = Append(held, Address(32768))
    <3>1. \/ UNCHANGED <<heapVars, held>>
          \/ MallocFails(32768) /\ UNCHANGED held
          \/ Malloc(32768) /\ held' = Append(held, Address(32768))
      BY <1>9 DEF Inflate, Decoded, heapVars
    <3> QED
      BY <3>1 DEF MallocFails, heapVars
  <2> QED
    BY <2>2, <2>3, <2>4
<1>10. CASE LzmaDecode
  <2>1. pc = "lzma" /\ pc' = "release" /\ UNCHANGED <<chain, held>>
    BY <1>10 DEF LzmaDecode, Decoded, Goto, heapVars
  <2>2. PICK n \in ProbsSizes : One(n)
    BY <2>1 DEF HeldInv
  <2>3. One(n)'
    BY <2>1, <2>2 DEF One
  <2> QED
    BY <2>1, <2>3 DEF HeldInv
<1>11. CASE Lz4
  <2>1. pc = "items" /\ pc' = "release" /\ UNCHANGED <<chain, held>>
    BY <1>11 DEF Lz4, Decoded, Goto, heapVars
  <2> QED
    BY <2>1 DEF HeldInv
<1>12. CASE Release
  BY <1>12, ReleaseHeld
<1>13. CASE Unpacked
  <2>1. /\ pc = "release" /\ pc' \in {"items", "jump"} /\ held = <<>>
        /\ UNCHANGED <<chain, held>>
    BY <1>13 DEF Unpacked, Goto, heapVars
  <2>2. chain = <<>>
    BY <2>1 DEF HeldInv, One, Two
  <2> QED
    BY <2>1, <2>2 DEF HeldInv
<1>14. CASE UNCHANGED vars
  BY <1>14 DEF vars, loadVars, heapVars, HeldInv, One, Two
<1> QED
  BY <1>2, <1>3, <1>4, <1>5, <1>6, <1>7, <1>8, <1>9, <1>10, <1>11, <1>12, <1>13, <1>14
     DEF Next

\* Nothing the decoders allocate reaches the package they read from.
THEOREM PackagesKept == DecodersFit => (Spec => []PackageKept)
<1> SUFFICES ASSUME DecodersFit PROVE Spec => []PackageKept
  OBVIOUS
<1>1. Init => HeapInv /\ HeldInv
  BY HeapStart DEF Init, HeapInit, HeldInv
<1>2. (HeapInv /\ HeldInv) /\ [Next]_vars => (HeapInv /\ HeldInv)'
  BY HeapStep, HeldStep
<1>3. HeldInv => PackageKept
  <2> SUFFICES ASSUME HeldInv, NEW k \in DOMAIN chain PROVE End(chain[k]) <= PackageBase
    BY DEF PackageKept
  <2>1. \A n \in ProbsSizes : End(First(n)) <= PackageBase
    BY Blocks, Boot0Assumption DEF DecodersFit
  <2>2. End(First(9552)) <= PackageBase /\ End(Window) <= PackageBase
    <3>1. Align(9552) \in Nat /\ Align(32768) \in Nat /\ HeapBase \in Nat
      BY AlignNat, HeapAssumption
    <3>2. End(First(9552)) = HeapBase + Node + Align(9552)
      BY Blocks
    <3> QED
      BY <3>1, <3>2, Blocks, Boot0Assumption DEF DecodersFit, Node
  <2>3. \/ chain = <<>> \/ chain = <<First(9552), Window>>
        \/ \E n \in ProbsSizes \union {9552} : chain = <<First(n)>>
    BY DEF HeldInv, One, Two
  <2>4. CASE chain = <<>>
    BY <2>4
  <2>5. CASE chain = <<First(9552), Window>>
    BY <2>2, <2>5
  <2>6. ASSUME NEW n \in ProbsSizes \union {9552}, chain = <<First(n)>>
        PROVE  End(chain[k]) <= PackageBase
    BY <2>1, <2>2, <2>6
  <2> QED
    BY <2>3, <2>4, <2>5, <2>6
<1> QED
  BY <1>1, <1>2, <1>3, PTL DEF Spec

-----------------------------------------------------------------------------
(* Types *)

BodyType ==
  /\ \A p \in DOMAIN buffer.body : buffer.body[p] \in Version \union {Nil}
  /\ \A v \in Version : 1 .. Length[v] \subseteq DOMAIN buffer.body

SearchType ==
  /\ pc \in {"board", "search", "rest", "slot", "part", "items", "inflate", "lzma",
             "release", "jump", "jumped", "hung", "fel", "astray"}
  /\ block \in Nat \ {0} /\ at \in Nat \ {0} /\ part \in Nat \ {0} /\ slot \in Nat \ {0}
  /\ failed \in {"no", "board", "open", "read", "lack", "none left"}
  /\ BodyType

LoadType ==
  /\ item \in Nat \ {0}
  /\ image \in [Role -> {"none", "damaged", "whole"}]
  /\ unpacked \in BOOLEAN
  /\ entered \in Role \union {"none"}

\* What a block reads as.
LEMMA Stored ==
  ASSUME store \in Stores, NEW i
  PROVE  /\ HeadOf(BlockAt(i)) \in Version \union {Nil}
         /\ \A p : Fragment(BlockAt(i), p) \in Version \union {Nil}
         /\ \A s : CopyIn(BlockAt(i), s) \in Version \union {Nil}
BY Boot0Assumption DEF BlockAt, Foreign, HeadOf, Fragment, CopyIn

LEMMA SearchTypeStep == PackageInv /\ SearchType /\ [Next]_vars => SearchType'
<1> SUFFICES ASSUME PackageInv, SearchType, [Next]_vars PROVE SearchType'
  OBVIOUS
<1>1. store \in Stores /\ BufferType /\ BodyType
  BY DEF PackageInv, SearchType
<1>2. ASSUME NEW h, NEW p, NEW x \in Version \union {Nil},
             \/ buffer' = [buffer EXCEPT !.body[p] = x]
             \/ buffer' = [buffer EXCEPT !.head = h, !.body[p] = x]
      PROVE  BodyType'
  BY <1>1, <1>2 DEF BodyType, BufferType
<1>3. ASSUME NEW h, UNCHANGED buffer \/ buffer' = [buffer EXCEPT !.head = h]
      PROVE  BodyType'
  BY <1>1, <1>3 DEF BodyType, BufferType
<1>4. ASSUME NEW P, NEW F(_), \A p : F(p) \in Version \union {Nil},
             buffer' = [buffer EXCEPT !.body = [p \in DOMAIN @ |-> IF p \in P THEN F(p) ELSE @[p]]]
      PROVE  BodyType'
  BY <1>1, <1>4 DEF BodyType, BufferType
<1>5. ASSUME UNCHANGED <<block, at, part, slot, failed, buffer>>,
             pc' \in {"items", "inflate", "lzma", "release", "jump", "jumped", "hung"}
      PROVE  SearchType'
  BY <1>5 DEF SearchType, BodyType
<1>20. ASSUME BodyType', pc' \in {"search", "rest", "slot", "part", "items", "fel", "astray"},
              block' \in {block, block + 1}, at' \in {at, at + 1, block},
              part' \in {part, part + 1, 1}, slot' \in {slot, slot + 1, 1},
              failed' \in {failed, "board", "open", "read", "lack", "none left"}
       PROVE  SearchType'
  <2>0. block \in Nat \ {0} /\ at \in Nat \ {0} /\ part \in Nat \ {0} /\ slot \in Nat \ {0}
    BY DEF SearchType
  <2>1. /\ block' \in Nat \ {0}
        /\ at' \in Nat \ {0}
        /\ part' \in Nat \ {0}
        /\ slot' \in Nat \ {0}
    <3>1. \A n, k \in Nat \ {0} : {n, n + 1} \subseteq Nat \ {0} /\ {n, n + 1, k} \subseteq Nat \ {0}
      OBVIOUS
    <3>2. 1 \in Nat \ {0}
      OBVIOUS
    <3> QED
      BY <1>20, <2>0, <3>1, <3>2, Zenon
  <2>2. failed' \in {"no", "board", "open", "read", "lack", "none left"}
    BY <1>20 DEF SearchType
  <2> QED
    BY <1>20, <2>1, <2>2 DEF SearchType
<1>6. CASE BoardError \/ Board \/ OpenError
  BY <1>6 DEF BoardError, Board, OpenError, Fel, Goto, searchVars, SearchType, BodyType
<1>7. CASE SdmmcHead
  <2>1. BodyType'
    BY <1>1, <1>2, <1>3, <1>7, Stored DEF SdmmcHead
  <2>2. pc' \in {"search", "rest", "slot", "part", "items", "fel", "astray"}
    BY <1>7 DEF SdmmcHead, Fel, NextCopy, Astray, Goto
  <2>3. /\ block' \in {block, block + 1} /\ at' \in {at, at + 1, block}
        /\ part' \in {part, part + 1, 1} /\ slot' \in {slot, slot + 1, 1}
        /\ failed' \in {failed, "board", "open", "read", "lack", "none left"}
    BY <1>7 DEF SdmmcHead, Fel, NextCopy, Astray, Goto
  <2> QED
    BY <1>20, <2>1, <2>2, <2>3
<1>8. CASE SdmmcRest
  <2>1. BodyType'
    BY <1>1, <1>3, <1>8, Stored DEF SdmmcRest, BodyType, BufferType
  <2>2. pc' \in {"search", "rest", "slot", "part", "items", "fel", "astray"}
    BY <1>8 DEF SdmmcRest, Fel, NextCopy, Loaded, Goto
  <2>3. /\ block' \in {block, block + 1} /\ at' \in {at, at + 1, block}
        /\ part' \in {part, part + 1, 1} /\ slot' \in {slot, slot + 1, 1}
        /\ failed' \in {failed, "board", "open", "read", "lack", "none left"}
    BY <1>8 DEF SdmmcRest, Fel, NextCopy, Loaded, Goto
  <2> QED
    BY <1>20, <2>1, <2>2, <2>3
<1>9. CASE RawHead
  <2>1. BodyType'
    BY <1>3, <1>9 DEF RawHead
  <2>2. pc' \in {"search", "rest", "slot", "part", "items", "fel", "astray"}
    BY <1>9 DEF RawHead, Fel, NextCopy, StartParts, Astray, Goto
  <2>3. /\ block' \in {block, block + 1} /\ at' \in {at, at + 1, block}
        /\ part' \in {part, part + 1, 1} /\ slot' \in {slot, slot + 1, 1}
        /\ failed' \in {failed, "board", "open", "read", "lack", "none left"}
    BY <1>9 DEF RawHead, Fel, NextCopy, StartParts, Astray, Goto
  <2> QED
    BY <1>20, <2>1, <2>2, <2>3
<1>10. CASE RawSlot
  <2>1. BodyType'
    BY <1>1, <1>2, <1>3, <1>10, Stored DEF RawSlot
  <2>2. pc' \in {"search", "rest", "slot", "part", "items", "fel", "astray"}
    BY <1>10 DEF RawSlot, NextCopy, Loaded, Goto
  <2>3. /\ block' \in {block, block + 1} /\ at' \in {at, at + 1, block}
        /\ part' \in {part, part + 1, 1} /\ slot' \in {slot, slot + 1, 1}
        /\ failed' \in {failed, "board", "open", "read", "lack", "none left"}
    BY <1>10 DEF RawSlot, NextCopy, Loaded, Goto
  <2> QED
    BY <1>20, <2>1, <2>2, <2>3
<1>11. CASE RawPart \/ SpiPart
  <2>1. BodyType'
    BY <1>1, <1>2, <1>3, <1>11, Stored DEF RawPart, SpiPart, CheckSum, SkipBad, Store
  <2>2. pc' \in {"search", "rest", "slot", "part", "items", "fel", "astray"}
    BY <1>11 DEF RawPart, SpiPart, CheckSum, SkipBad, Store, Fel, NextCopy, Loaded, Goto
  <2>3. /\ block' \in {block, block + 1} /\ at' \in {at, at + 1, block}
        /\ part' \in {part, part + 1, 1} /\ slot' \in {slot, slot + 1, 1}
        /\ failed' \in {failed, "board", "open", "read", "lack", "none left"}
    BY <1>11 DEF RawPart, SpiPart, CheckSum, SkipBad, Store, Fel, NextCopy, Loaded, Goto
  <2> QED
    BY <1>20, <2>1, <2>2, <2>3
<1>12. CASE SpiHead
  <2>1. BodyType'
    BY <1>3, <1>12 DEF SpiHead
  <2>2. pc' \in {"search", "rest", "slot", "part", "items", "fel", "astray"}
    BY <1>12 DEF SpiHead, Fel, NextCopy, StartParts, Astray, Goto
  <2>3. /\ block' \in {block, block + 1} /\ at' \in {at, at + 1, block}
        /\ part' \in {part, part + 1, 1} /\ slot' \in {slot, slot + 1, 1}
        /\ failed' \in {failed, "board", "open", "read", "lack", "none left"}
    BY <1>12 DEF SpiHead, Fel, NextCopy, StartParts, Astray, Goto
  <2> QED
    BY <1>20, <2>1, <2>2, <2>3
<1>13. CASE NorHead
  <2>1. BodyType'
    BY <1>3, <1>13 DEF NorHead
  <2>2. pc' \in {"search", "rest", "slot", "part", "items", "fel", "astray"}
    BY <1>13 DEF NorHead, Fel, StartParts, Loaded, Goto
  <2>3. /\ block' \in {block, block + 1} /\ at' \in {at, at + 1, block}
        /\ part' \in {part, part + 1, 1} /\ slot' \in {slot, slot + 1, 1}
        /\ failed' \in {failed, "board", "open", "read", "lack", "none left"}
    BY <1>13 DEF NorHead, Fel, StartParts, Loaded, Goto
  <2> QED
    BY <1>20, <2>1, <2>2, <2>3
<1>14. CASE NorRest
  <2>1. BodyType'
    BY <1>1, <1>3, <1>14, Stored DEF NorRest, BodyType, BufferType
  <2>2. pc' \in {"search", "rest", "slot", "part", "items", "fel", "astray"}
    BY <1>14 DEF NorRest, Fel, Loaded, Goto
  <2>3. /\ block' \in {block, block + 1} /\ at' \in {at, at + 1, block}
        /\ part' \in {part, part + 1, 1} /\ slot' \in {slot, slot + 1, 1}
        /\ failed' \in {failed, "board", "open", "read", "lack", "none left"}
    BY <1>14 DEF NorRest, Fel, Loaded, Goto
  <2> QED
    BY <1>20, <2>1, <2>2, <2>3
<1>15. CASE CopyItem \/ ItemsDone \/ Release \/ Unpacked
  BY <1>5, <1>15 DEF CopyItem, ItemsDone, Release, Unpacked, Loading, searchVars, Goto
<1>16. CASE GzInit \/ LzmaInit
  BY <1>5, <1>16 DEF GzInit, LzmaInit, Unpack, GiveUp, Loading, searchVars, Goto
<1>17. CASE Inflate \/ LzmaDecode \/ Lz4
  BY <1>5, <1>17 DEF Inflate, LzmaDecode, Lz4, Decoded, Loading, searchVars, Goto
<1>18. CASE Jump
  BY <1>5, <1>18 DEF Jump, searchVars, Goto
<1>19. CASE UNCHANGED vars
  BY <1>19 DEF vars, searchVars, SearchType, BodyType
<1> QED
  BY <1>6, <1>7, <1>8, <1>9, <1>10, <1>11, <1>12, <1>13, <1>14, <1>15, <1>16, <1>17, <1>18, <1>19
     DEF Next

\* The first of the four that has a base.
LEMMA FirstOrder ==
  ASSUME \E k \in DOMAIN Order : image[Order[k]] # "none"
  PROVE  \E k \in DOMAIN Order : /\ image[Order[k]] # "none"
                                 /\ \A j \in 1 .. k - 1 : image[Order[j]] = "none"
<1>1. DOMAIN Order = 1 .. 4
  BY DEF Order
<1>2. \/ image[Order[1]] # "none"
      \/ image[Order[1]] = "none" /\ image[Order[2]] # "none"
      \/ image[Order[1]] = "none" /\ image[Order[2]] = "none" /\ image[Order[3]] # "none"
      \/ /\ image[Order[1]] = "none" /\ image[Order[2]] = "none" /\ image[Order[3]] = "none"
         /\ image[Order[4]] # "none"
  BY <1>1
<1>3. 1 .. 1 - 1 = {} /\ 1 .. 2 - 1 = {1} /\ 1 .. 3 - 1 = {1, 2} /\ 1 .. 4 - 1 = {1, 2, 3}
  OBVIOUS
<1> QED
  BY <1>1, <1>2, <1>3

\* Each of the four is an image's name.
LEMMA TargetType == Target \in Role
<1>1. DOMAIN Order = 1 .. 4 /\ \A k \in 1 .. 4 : Order[k] \in Role
  BY DEF Order, Role
<1> DEFINE P(k) == image[Order[k]] # "none" /\ \A j \in 1 .. k - 1 : image[Order[j]] = "none"
<1>3. CASE \E k \in DOMAIN Order : image[Order[k]] # "none"
  <2>1. \E k \in DOMAIN Order : P(k)
    BY <1>3, FirstOrder
  <2>2. Target = Order[CHOOSE k \in DOMAIN Order : P(k)]
    BY <1>3 DEF Target
  <2> HIDE DEF P
  <2> QED
    BY <1>1, <2>1, <2>2
<1>4. CASE ~\E k \in DOMAIN Order : image[Order[k]] # "none"
  BY <1>4 DEF Target, Role
<1> QED
  BY <1>3, <1>4

LEMMA LoadTypeStep == LoadType /\ [Next]_vars => LoadType'
<1> SUFFICES ASSUME LoadType, [Next]_vars PROVE LoadType'
  OBVIOUS
<1>1. ASSUME UNCHANGED <<item, image, unpacked, entered>> PROVE LoadType'
  BY <1>1 DEF LoadType
<1>2. CASE BoardError \/ OpenError \/ SdmmcHead \/ SdmmcRest \/ NorHead \/ NorRest
  BY <1>1, <1>2 DEF BoardError, OpenError, SdmmcHead, SdmmcRest, NorHead, NorRest, Searching, loadVars
<1>3. CASE RawHead \/ RawSlot \/ RawPart \/ SpiHead \/ SpiPart
  BY <1>1, <1>3 DEF RawHead, RawSlot, RawPart, SpiHead, SpiPart, Searching, loadVars
<1>4. CASE Board \/ ItemsDone \/ Release \/ UNCHANGED vars
  BY <1>1, <1>4 DEF Board, ItemsDone, Release, Loading, loadVars, vars
<1>5. CASE CopyItem
  BY <1>5 DEF CopyItem, Loading, LoadType
<1>6. CASE GzInit
  <2>1. image' = [image EXCEPT !["rtos"] = "damaged"] /\ item' = item /\ entered' = entered
    BY <1>6 DEF GzInit, Unpack, Loading
  <2>2. unpacked' = FALSE \/ unpacked' = unpacked
    BY <1>6 DEF GzInit, GiveUp
  <2> QED
    BY <2>1, <2>2 DEF LoadType, Role
<1>7. CASE LzmaInit
  BY <1>7 DEF LzmaInit, Unpack, GiveUp, Loading, LoadType, Role
<1>8. ASSUME NEW w \in BOOLEAN, Decoded(w), UNCHANGED <<item, entered>> PROVE LoadType'
  BY <1>8 DEF Decoded, LoadType, Role
<1>9. CASE Inflate
  <2>1. item' = item /\ entered' = entered
    BY <1>9 DEF Inflate, Loading
  <2>2. unpacked' \in BOOLEAN
    <3>1. (\E w \in BOOLEAN : unpacked' = w) \/ unpacked' = FALSE
      BY <1>9 DEF Inflate, Decoded
    <3> QED
      BY <3>1, Zenon
  <2>3. \/ image' = [image EXCEPT !["rtos"] = "whole"]
        \/ image' = [image EXCEPT !["rtos"] = "damaged"]
    BY <1>9 DEF Inflate, Decoded
  <2> QED
    BY <2>1, <2>2, <2>3 DEF LoadType, Role
<1>10. CASE LzmaDecode \/ Lz4
  <2>1. (\E w \in BOOLEAN : Decoded(w)) /\ UNCHANGED <<item, entered>>
    BY <1>10 DEF LzmaDecode, Lz4, Decoded, Loading
  <2> QED
    BY <1>8, <2>1
<1>11. CASE Unpacked
  BY <1>11 DEF Unpacked, Loading, LoadType
<1>12. CASE Jump
  BY <1>12, TargetType DEF Jump, loadVars, LoadType
<1> QED
  BY <1>2, <1>3, <1>4, <1>5, <1>6, <1>7, <1>9, <1>10, <1>11, <1>12 DEF Next

\* The addresses a decoder holds are blocks of the heap.
LEMMA HeldType == HeldInv => held \in Seq({chain[k].address : k \in DOMAIN chain})
<1> SUFFICES ASSUME HeldInv PROVE held \in Seq({chain[k].address : k \in DOMAIN chain})
  OBVIOUS
<1> DEFINE A == {chain[k].address : k \in DOMAIN chain}
<1>1. ASSUME held = <<>> PROVE held \in Seq(A)
  <2> HIDE DEF A
  <2>1. held \in Seq(A)
    BY <1>1
  <2> QED
    BY <2>1 DEF A
<1>2. ASSUME NEW n \in ProbsSizes \union {9552}, One(n) PROVE held \in Seq(A)
  <2>1. HeapBase + Node \in A
    BY <1>2 DEF One, First
  <2> HIDE DEF A
  <2> QED
    BY <1>2, <2>1 DEF One
<1>3. ASSUME Two PROVE held \in Seq(A)
  <2>1. HeapBase + Node \in A /\ Window.address \in A
    <3>1. 1 \in DOMAIN chain /\ chain[1].address = HeapBase + Node
      BY <1>3 DEF Two, First
    <3>2. 2 \in DOMAIN chain /\ chain[2].address = Window.address
      BY <1>3 DEF Two
    <3> QED
      BY <3>1, <3>2
  <2>2. \A a, w \in A : <<a, w>> \in Seq(A)
    <3> HIDE DEF A
    <3> QED
      OBVIOUS
  <2>3. held = <<HeapBase + Node, Window.address>>
    BY <1>3 DEF Two
  <2> HIDE DEF A
  <2>4. held \in Seq(A)
    BY <2>1, <2>2, <2>3
  <2> QED
    BY <2>4 DEF A
<1> HIDE DEF A
<1>4. held \in Seq(A)
  BY <1>1, <1>2, <1>3 DEF HeldInv
<1> QED
  BY <1>4 DEF A

Typed == HeapInv /\ HeldInv /\ PackageInv /\ SearchType /\ LoadType

LEMMA TypedAlways == Spec => []Typed
<1>1. Init => Typed
  <2> SUFFICES ASSUME Init PROVE Typed
    OBVIOUS
  <2>1. HeapInv /\ HeldInv
    BY HeapStart DEF Init, HeapInit, HeldInv
  <2>2. PackageInv /\ SearchType
    BY Boot0Assumption DEF Init, PackageInv, BufferType, HasPackage, SearchType, BodyType
  <2>3. LoadType
    BY DEF Init, LoadType
  <2> QED
    BY <2>1, <2>2, <2>3 DEF Typed
<1>2. Typed /\ [Next]_vars => Typed'
  BY HeapStep, HeldStep, PackageStep, SearchTypeStep, LoadTypeStep DEF Typed
<1> QED
  BY <1>1, <1>2, PTL DEF Spec

\* Types of the variables.
THEOREM Types == Spec => []TypeOK
<1>1. Typed => TypeOK
  BY HeldType DEF Typed, HeapInv, HeapType, PackageInv, BufferType, SearchType, BodyType, LoadType, TypeOK
<1> QED
  BY <1>1, TypedAlways, PTL

-----------------------------------------------------------------------------
(* The images *)

Whole(k) == RoleOf(Table[k].name) \in Role => image[RoleOf(Table[k].name)] = "whole"

\* The items before the n-th are where they run; and so are those but the RTOS.
Before(n)      == \A k \in 1 .. n - 1 : k \in DOMAIN Table => Whole(k)
BeforeOther(n) == \A k \in 1 .. n - 1 :
                    k \in DOMAIN Table /\ RoleOf(Table[k].name) # "rtos" => Whole(k)
Sound          == \A r \in Role : image[r] \in {"none", "whole"}
SoundOther     == \A r \in Role \ {"rtos"} : image[r] \in {"none", "whole"}
Decoding       == /\ item \in DOMAIN Table /\ Entry.name \in Compressed
                  /\ BeforeOther(item) /\ SoundOther

\* As long as no decoder failed, what load_image has passed is in its place.
ImagesInv ==
  /\ pc \in {"board", "search", "rest", "slot", "part"} => item = 1 /\ Sound /\ unpacked
  /\ pc \in {"items", "inflate", "lzma"} => unpacked
  /\ HasPackage /\ ~On("spinor") /\ unpacked =>
       /\ pc = "items" => Before(item) /\ Sound
       /\ pc \in {"inflate", "lzma"} => Decoding
       /\ pc = "release" => Before(item + 1) /\ Sound
       /\ pc \in {"jump", "jumped"} => Before(Len(Table) + 1) /\ Sound
       /\ pc = "jumped" => entered = Target

\* What the sum says of the items.
LEMMA ItemsIntact ==
  ASSUME Typed, HasPackage, ~On("spinor")
  PROVE  /\ buffer.head \in Version /\ DOMAIN Table = 1 .. Len(Table) /\ Len(Table) \in Nat
         /\ \A k \in DOMAIN Table : Intact(Table[k])
<1>1. Verified(buffer) /\ buffer.head \in Version
  BY DEF Typed, PackageInv, BufferType, Verified
<1>2. Table \in Seq([name : STRING, part : 1 .. Length[buffer.head]])
  BY <1>1, Boot0Assumption DEF Table
<1>3. DOMAIN Table = 1 .. Len(Table) /\ Len(Table) \in Nat
  BY <1>2
<1>4. ASSUME NEW k \in DOMAIN Table PROVE Intact(Table[k])
  <2>1. Table[k] \in [name : STRING, part : 1 .. Length[buffer.head]]
    BY <1>2, <1>3, <1>4, ElementOfSeq
  <2>2. Table[k].part \in 1 .. Length[buffer.head]
    BY <2>1
  <2> QED
    BY <1>1, <2>2 DEF Verified, Intact
<1> QED
  BY <1>1, <1>3, <1>4

\* An item whose image is put in its place.
LEMMA ItemPlaced ==
  ASSUME Typed, HasPackage, ~On("spinor"), item \in DOMAIN Table, UNCHANGED buffer,
         NEW r \in Role, RoleOf(Entry.name) = r, image' = [image EXCEPT ![r] = "whole"],
         \A k \in 1 .. item - 1 : k \in DOMAIN Table /\ RoleOf(Table[k].name) # r => Whole(k),
         \A q \in Role \ {r} : image[q] \in {"none", "whole"}
  PROVE  /\ \A k \in 1 .. item : k \in DOMAIN Table => Whole(k)'
         /\ Sound'
<1>1. Table' = Table /\ image \in [Role -> {"none", "damaged", "whole"}] /\ item \in Nat
  BY DEF Table, Typed, LoadType
<1>2. \A q \in Role : image'[q] = IF q = r THEN "whole" ELSE image[q]
  BY <1>1
<1>3. Sound'
  BY <1>2 DEF Sound
<1>4. ASSUME NEW k \in 1 .. item, k \in DOMAIN Table PROVE Whole(k)'
  <2>2. CASE RoleOf(Table[k].name) = r
    BY <1>1, <1>2, <2>2 DEF Whole
  <2>3. CASE RoleOf(Table[k].name) # r
    <3>1. k # item
      BY <2>3 DEF Entry
    <3>2. Whole(k)
      BY <1>1, <1>4, <2>3, <3>1
    <3> QED
      BY <1>1, <1>2, <2>3, <3>2 DEF Whole
  <2> QED
    BY <2>2, <2>3
<1> QED
  BY <1>3, <1>4

LEMMA ImagesStep == Typed /\ ImagesInv /\ [Next]_vars => ImagesInv'
<1> SUFFICES ASSUME Typed, ImagesInv, [Next]_vars PROVE ImagesInv'
  OBVIOUS
\* The search, which touches nothing of this.
<1>1. ASSUME UNCHANGED <<item, image, unpacked>>, pc \in {"board", "search", "rest", "slot", "part"},
             pc' \in {"search", "rest", "slot", "part", "items", "fel", "astray"}
      PROVE  ImagesInv'
  <2>1. item = 1 /\ Sound /\ unpacked
    BY <1>1 DEF ImagesInv
  <2>2. item' = 1 /\ Sound' /\ unpacked'
    BY <1>1, <2>1 DEF Sound
  <2>3. Before(item)'
    <3>1. 1 .. item' - 1 = {}
      BY <2>2
    <3> QED
      BY <3>1 DEF Before
  <2> QED
    BY <1>1, <2>2, <2>3 DEF ImagesInv, HasPackage
<1>2. CASE BoardError \/ OpenError \/ SdmmcHead \/ SdmmcRest \/ NorHead \/ NorRest
  BY <1>1, <1>2 DEF BoardError, OpenError, SdmmcHead, SdmmcRest, NorHead, NorRest, StartParts,
       Searching, loadVars, Goto, Fel, Loaded, NextCopy, Astray
<1>3. CASE Board
  BY <1>1, <1>3 DEF Board, Goto
<1>4. CASE RawHead \/ RawSlot \/ RawPart
  BY <1>1, <1>4 DEF RawHead, RawSlot, RawPart, StartParts, CheckSum, SkipBad, Store,
       Searching, loadVars, Goto, Fel, Loaded, NextCopy, Astray
<1>5. CASE SpiHead \/ SpiPart
  BY <1>1, <1>5 DEF SpiHead, SpiPart, StartParts, CheckSum, SkipBad, Store,
       Searching, loadVars, Goto, Fel, Loaded, NextCopy, Astray
\* load_image, as long as no decoder failed.
<1>7. CASE CopyItem
  <2>1. /\ pc = "items" /\ pc' = "items" /\ item' = item + 1 /\ item <= Len(Table)
        /\ UNCHANGED <<store, buffer>> /\ unpacked' = unpacked /\ unpacked
    BY <1>7 DEF CopyItem, Loading, searchVars, ImagesInv
  <2>2. SUFFICES ASSUME ~On("spinor") PROVE Before(item)' /\ Sound'
    BY <2>1 DEF ImagesInv, On
  <2>3. HasPackage /\ Before(item) /\ Sound
    BY <2>1, <2>2 DEF ImagesInv, HasPackage
  <2>4. item \in DOMAIN Table /\ item \in Nat /\ Intact(Entry) /\ Table' = Table
    BY <2>1, <2>2, <2>3, ItemsIntact DEF Entry, Typed, LoadType, Table
  <2>5. CASE RoleOf(Entry.name) \in Role
    <3> DEFINE r == RoleOf(Entry.name)
    <3>1. image' = [image EXCEPT ![r] = "whole"]
      BY <1>7, <2>4, <2>5 DEF CopyItem
    <3>2. \A k \in 1 .. item : k \in DOMAIN Table => Whole(k)'
      BY <2>1, <2>2, <2>3, <2>4, <2>5, <3>1, ItemPlaced DEF Before, Sound
    <3>3. Sound'
      BY <2>1, <2>2, <2>3, <2>4, <2>5, <3>1, ItemPlaced DEF Before, Sound
    <3> QED
      BY <2>1, <2>4, <3>2, <3>3 DEF Before
  <2>6. CASE RoleOf(Entry.name) \notin Role
    <3>1. image' = image
      BY <1>7, <2>6 DEF CopyItem
    <3>2. \A k \in 1 .. item : k \in DOMAIN Table => Whole(k)
      BY <2>3, <2>4, <2>6 DEF Before, Whole, Entry
    <3> QED
      BY <2>1, <2>3, <2>4, <3>1, <3>2 DEF Before, Whole, Sound
  <2> QED
    BY <2>5, <2>6
<1>8. CASE GzInit \/ LzmaInit
  <2>1. /\ pc = "items" /\ item' = item /\ item <= Len(Table) /\ Entry.name \in Compressed
        /\ image' = [image EXCEPT !["rtos"] = "damaged"]
    BY <1>8 DEF GzInit, LzmaInit, Unpack, Compressed
  <2>2. UNCHANGED <<store, buffer>>
    BY <1>8 DEF GzInit, LzmaInit, Loading, searchVars
  <2>3. \/ pc' \in {"inflate", "lzma"} /\ unpacked' = unpacked
        \/ pc' = "jump" /\ unpacked' = FALSE
    BY <1>8 DEF GzInit, LzmaInit, GiveUp, Goto
  <2>9. unpacked
    BY <2>1 DEF ImagesInv
  <2>4. SUFFICES ASSUME ~On("spinor"), pc' \in {"inflate", "lzma"} PROVE Decoding'
    BY <2>2, <2>3, <2>9 DEF ImagesInv, On
  <2>5. HasPackage /\ Before(item) /\ Sound
    BY <2>1, <2>4, <2>9 DEF ImagesInv, HasPackage
  <2>6. item \in DOMAIN Table /\ Table' = Table
    BY <2>1, <2>2, <2>4, <2>5, ItemsIntact DEF Typed, LoadType, Table
  <2>7. \A q \in Role \ {"rtos"} : image'[q] = image[q]
    BY <2>1 DEF Typed, LoadType, Role
  <2>8. BeforeOther(item)'
    BY <2>1, <2>5, <2>6, <2>7 DEF Before, BeforeOther, Whole
  <2> QED
    BY <2>1, <2>5, <2>6, <2>7, <2>8 DEF Decoding, SoundOther, Sound, Entry
<1>9. CASE Inflate \/ LzmaDecode \/ Lz4
  <2>1. /\ pc \in {"items", "inflate", "lzma"} /\ pc' = "release" /\ item' = item
        /\ image' = [image EXCEPT !["rtos"] = IF unpacked' /\ Intact(Entry) THEN "whole" ELSE "damaged"]
    BY <1>9 DEF Inflate, LzmaDecode, Lz4, Decoded, Goto
  <2>2. UNCHANGED <<store, buffer>>
    <3>1. CASE Inflate
      BY <3>1 DEF Inflate, Loading, searchVars
    <3>2. CASE LzmaDecode
      BY <3>2 DEF LzmaDecode, Loading, searchVars
    <3>3. CASE Lz4
      BY <3>3 DEF Lz4, Loading, searchVars
    <3> QED
      BY <1>9, <3>1, <3>2, <3>3
  <2>3. SUFFICES ASSUME ~On("spinor"), unpacked' PROVE Before(item + 1)' /\ Sound'
    BY <2>1, <2>2 DEF ImagesInv, On
  <2>4. unpacked /\ HasPackage
    BY <2>1 DEF ImagesInv, HasPackage
  <2>5. item \in DOMAIN Table /\ Entry.name \in Compressed /\ BeforeOther(item) /\ SoundOther
    <3>1. CASE pc = "items"
      <4>1. item <= Len(Table) /\ Entry.name \in Compressed
        BY <1>9, <3>1 DEF Inflate, LzmaDecode, Lz4, Compressed
      <4>2. Before(item) /\ Sound
        BY <2>3, <2>4, <3>1 DEF ImagesInv
      <4>3. item \in DOMAIN Table
        BY <2>3, <2>4, <4>1, ItemsIntact DEF Typed, LoadType
      <4> QED
        BY <4>1, <4>2, <4>3 DEF Before, BeforeOther, Sound, SoundOther
    <3>2. CASE pc # "items"
      BY <2>1, <2>3, <2>4, <3>2 DEF ImagesInv, Decoding
    <3> QED
      BY <3>1, <3>2
  <2>6. Intact(Entry) /\ RoleOf(Entry.name) = "rtos" /\ "rtos" \in Role /\ Table' = Table
    BY <2>2, <2>3, <2>4, <2>5, ItemsIntact DEF Entry, RoleOf, Role, Table
  <2>7. image' = [image EXCEPT !["rtos"] = "whole"]
    BY <2>1, <2>3, <2>6
  <2>8. (\A k \in 1 .. item : k \in DOMAIN Table => Whole(k)') /\ Sound'
    BY <2>2, <2>3, <2>4, <2>5, <2>6, <2>7, ItemPlaced DEF BeforeOther, SoundOther
  <2>9. (item + 1) - 1 = item
    BY DEF Typed, LoadType
  <2> QED
    BY <2>1, <2>6, <2>8, <2>9 DEF Before
<1>10. CASE Release \/ UNCHANGED vars
  <2>1. UNCHANGED <<pc, item, image, unpacked, store, buffer, entered>>
    BY <1>10 DEF Release, Loading, searchVars, loadVars, vars
  <2> QED
    BY <2>1 DEF ImagesInv, HasPackage, On, Before, BeforeOther, Decoding, Sound, SoundOther,
         Whole, Entry, Table, Target
<1>11. CASE Unpacked
  <2>1. /\ pc = "release" /\ UNCHANGED <<image, unpacked, store, buffer>>
        /\ \/ unpacked /\ pc' = "items" /\ item' = item + 1
           \/ ~unpacked /\ pc' = "jump" /\ item' = item
    BY <1>11 DEF Unpacked, Loading, searchVars, Goto
  <2>2. SUFFICES ASSUME ~On("spinor"), unpacked PROVE Before(item)' /\ Sound'
    BY <2>1 DEF ImagesInv, On
  <2>3. Before(item + 1) /\ Sound
    BY <2>1, <2>2 DEF ImagesInv, HasPackage
  <2> QED
    BY <2>1, <2>2, <2>3 DEF Before, Sound, Whole, Table
<1>12. CASE ItemsDone
  <2>1. /\ pc = "items" /\ pc' = "jump" /\ item > Len(Table)
        /\ UNCHANGED <<item, image, unpacked, store, buffer>>
    BY <1>12 DEF ItemsDone, Loading, searchVars, loadVars, Goto
  <2>2. SUFFICES ASSUME ~On("spinor"), unpacked PROVE Before(Len(Table) + 1)' /\ Sound'
    BY <2>1 DEF ImagesInv, On
  <2>3. Before(item) /\ Sound /\ HasPackage
    BY <2>1, <2>2 DEF ImagesInv, HasPackage
  <2>4. \A k \in 1 .. (Len(Table) + 1) - 1 : k \in 1 .. item - 1
    BY <2>1, <2>2, <2>3, ItemsIntact DEF Typed, LoadType
  <2> QED
    BY <2>1, <2>3, <2>4 DEF Before, Sound, Whole, Table
<1>13. CASE Jump
  <2>1. /\ pc = "jump" /\ pc' \in {"hung", "jumped"} /\ entered' = Target
        /\ UNCHANGED <<item, image, unpacked, store, buffer>>
    BY <1>13 DEF Jump, searchVars, loadVars, Goto
  <2> QED
    BY <2>1 DEF ImagesInv, HasPackage, On, Before, Sound, Whole, Table, Target
<1> QED
  BY <1>2, <1>3, <1>4, <1>5, <1>7, <1>8, <1>9, <1>10, <1>11, <1>12, <1>13 DEF Next

\* What Target picks has a base, if anything has.
LEMMA TargetHasBase ==
  ASSUME NEW r \in Role, image[r] # "none"
  PROVE  image[Target] # "none"
<1>1. DOMAIN Order = 1 .. 4 /\ (r = "u-boot" \/ \E k \in DOMAIN Order : Order[k] = r)
  BY DEF Order, Role
<1> DEFINE P(k) == image[Order[k]] # "none" /\ \A j \in 1 .. k - 1 : image[Order[j]] = "none"
<1>2. CASE \E k \in DOMAIN Order : image[Order[k]] # "none"
  <2>1. \E k \in DOMAIN Order : P(k)
    BY <1>2, FirstOrder
  <2>2. Target = Order[CHOOSE k \in DOMAIN Order : P(k)]
    BY <1>2 DEF Target
  <2>3. \A k : P(k) => image[Order[k]] # "none"
    OBVIOUS
  <2> HIDE DEF P
  <2> QED
    BY <2>1, <2>2, <2>3
<1>3. CASE ~\E k \in DOMAIN Order : image[Order[k]] # "none"
  BY <1>1, <1>3 DEF Target
<1> QED
  BY <1>2, <1>3

\* Unless a decoder failed, or on NOR flash where nothing is summed, what is
\* entered is whole, and so is the U-Boot that OpenSBI goes on to.
THEOREM EntersWhole == Bootable => (Spec => []EnteredWhole)
<1> SUFFICES ASSUME Bootable PROVE Spec => []EnteredWhole
  OBVIOUS
<1>1. Init => ImagesInv
  BY DEF Init, ImagesInv, HasPackage, Sound
<1>2. Typed /\ ImagesInv /\ [Next]_vars => ImagesInv'
  BY ImagesStep
<1>3. Typed /\ ImagesInv => EnteredWhole
  <2> SUFFICES ASSUME Typed, ImagesInv, pc = "jumped", ~On("spinor"), unpacked
               PROVE  /\ image[entered] = "whole"
                      /\ (\E k \in DOMAIN Table : Table[k].name = "u-boot") => image["u-boot"] = "whole"
    BY DEF EnteredWhole
  <2>1. HasPackage /\ entered = Target /\ Before(Len(Table) + 1) /\ Sound
    BY DEF HasPackage, ImagesInv
  <2>2. buffer.head \in Version /\ \A k \in DOMAIN Table : Whole(k)
    BY <2>1, ItemsIntact DEF Before
  <2>3. PICK k \in DOMAIN Table : RoleOf(Table[k].name) \in Role
    BY <2>2 DEF Bootable, Table
  <2>4. image[RoleOf(Table[k].name)] = "whole"
    BY <2>2, <2>3 DEF Whole
  <2>5. image[entered] = "whole"
    BY <2>1, <2>3, <2>4, TargetHasBase, TargetType DEF Sound
  <2>6. ASSUME NEW j \in DOMAIN Table, Table[j].name = "u-boot" PROVE image["u-boot"] = "whole"
    BY <2>2, <2>6 DEF Whole, RoleOf, Role, Compressed
  <2> QED
    BY <2>5, <2>6
<1> QED
  BY <1>1, <1>2, <1>3, TypedAlways, PTL DEF Spec

-----------------------------------------------------------------------------
(* Where the search stands *)

\* The blocks from i to j that are not bad, and how many they are.
Good(i, j) == {k \in i .. j : ~BlockAt(k).bad}
Rank(i, j) == Cardinality(Good(i, j))

LEMMA RankNat ==
  ASSUME NEW i \in Nat, NEW j \in Int
  PROVE  IsFiniteSet(Good(i, j)) /\ Rank(i, j) \in Nat
<1>1. IsFiniteSet(i .. j)
  BY FS_Interval
<1>2. Good(i, j) \subseteq i .. j
  BY DEF Good
<1>3. IsFiniteSet(Good(i, j))
  BY <1>1, <1>2, FS_Subset
<1> QED
  BY <1>3, FS_CardinalityType DEF Rank

LEMMA RankEmpty ==
  ASSUME NEW i \in Nat
  PROVE  Rank(i, i - 1) = 0
<1>1. Good(i, i - 1) = {}
  BY DEF Good
<1> QED
  BY <1>1, FS_EmptySet DEF Rank

\* A good block counts one, a bad one nothing.
LEMMA RankStep ==
  ASSUME NEW i \in Nat, NEW j \in Nat, i <= j
  PROVE  Rank(i, j) = IF BlockAt(j).bad THEN Rank(i, j - 1) ELSE Rank(i, j - 1) + 1
<1>1. CASE BlockAt(j).bad
  <2>1. Good(i, j) = Good(i, j - 1)
    BY <1>1 DEF Good
  <2> QED
    BY <1>1, <2>1 DEF Rank
<1>2. CASE ~BlockAt(j).bad
  <2>1. Good(i, j) = Good(i, j - 1) \union {j} /\ j \notin Good(i, j - 1)
    BY <1>2 DEF Good
  <2>2. IsFiniteSet(Good(i, j - 1))
    BY RankNat
  <2> QED
    BY <1>2, <2>1, <2>2, FS_AddElement DEF Rank
<1> QED
  BY <1>1, <1>2

LEMMA RankMono ==
  ASSUME NEW i \in Nat, NEW h \in Nat, NEW j \in Int, NEW k \in Int, h <= i, j <= k
  PROVE  Rank(i, j) <= Rank(h, k)
<1>1. Good(i, j) \subseteq Good(h, k)
  BY DEF Good
<1> QED
  BY <1>1, RankNat, FS_Subset DEF Rank

\* A good block has a rank of its own.
LEMMA RankStrict ==
  ASSUME NEW i \in Nat, NEW j \in Nat, NEW k \in Nat, i <= k, j < k, ~BlockAt(k).bad
  PROVE  Rank(i, j) < Rank(i, k)
<1>1. Rank(i, k) = Rank(i, k - 1) + 1
  BY RankStep
<1>2. Rank(i, j) <= Rank(i, k - 1)
  BY RankMono
<1>3. j \in Int /\ k - 1 \in Int
  OBVIOUS
<1>4. Rank(i, j) \in Nat /\ Rank(i, k - 1) \in Nat
  BY <1>3, RankNat
<1> QED
  BY <1>1, <1>2, <1>4

\* A copy in flash, said with ranks.
LEMMA FlashCopyIs ==
  ASSUME NEW i \in Nat, NEW v, NEW last \in Nat
  PROVE  FlashCopy(i, v, last) <=>
           /\ ~BlockAt(i).bad /\ HeadOf(BlockAt(i)) = v
           /\ \E to \in i .. last :
                /\ Rank(i, to) = Length[v]
                /\ \A j \in i .. to : ~BlockAt(j).bad =>
                     BlockAt(j).reads /\ Fragment(BlockAt(j), Rank(i, j)) = v
<1>1. ASSUME NEW to \in i .. last, NEW j \in Good(i, to)
      PROVE  {k \in Good(i, to) : k <= j} = Good(i, j)
  BY <1>1 DEF Good
<1>2. ASSUME NEW to \in i .. last
      PROVE  (\A j \in Good(i, to) :
                /\ BlockAt(j).reads
                /\ Fragment(BlockAt(j), Cardinality({k \in Good(i, to) : k <= j})) = v)
             <=> \A j \in i .. to : ~BlockAt(j).bad =>
                     BlockAt(j).reads /\ Fragment(BlockAt(j), Rank(i, j)) = v
  <2>1. \A j \in Good(i, to) : Cardinality({k \in Good(i, to) : k <= j}) = Rank(i, j)
    BY <1>1, <1>2 DEF Rank
  <2>2. \A j : j \in Good(i, to) <=> j \in i .. to /\ ~BlockAt(j).bad
    BY DEF Good
  <2> HIDE DEF Good, Rank
  <2> QED
    BY <2>1, <2>2, Zenon
<1>3. FlashCopy(i, v, last) <=>
        \E to \in i .. last :
          /\ ~BlockAt(i).bad /\ HeadOf(BlockAt(i)) = v
          /\ Cardinality(Good(i, to)) = Length[v]
          /\ \A j \in Good(i, to) :
               /\ BlockAt(j).reads
               /\ Fragment(BlockAt(j), Cardinality({k \in Good(i, to) : k <= j})) = v
  BY Zenon DEF FlashCopy, Good
<1> QED
  BY <1>2, <1>3, Zenon DEF Rank

\* What a copy in flash says of the block it begins in.
LEMMA FlashCopyHead ==
  ASSUME NEW i \in Nat, NEW v, NEW last \in Nat, FlashCopy(i, v, last)
  PROVE  /\ ~BlockAt(i).bad /\ BlockAt(i).reads
         /\ HeadOf(BlockAt(i)) = v /\ Fragment(BlockAt(i), 1) = v
<1>1. PICK to \in i .. last : \A j \in i .. to : ~BlockAt(j).bad =>
                     BlockAt(j).reads /\ Fragment(BlockAt(j), Rank(i, j)) = v
  BY FlashCopyIs
<1>2. ~BlockAt(i).bad /\ HeadOf(BlockAt(i)) = v
  BY FlashCopyIs
<1>3. Rank(i, i) = 1
  BY <1>2, RankStep, RankEmpty
<1> QED
  BY <1>1, <1>2, <1>3

\* What a medium holds stays as it is.
LEMMA MediumStays ==
  ASSUME UNCHANGED store
  PROVE  /\ \A i : BlockAt(i)' = BlockAt(i)
         /\ \A m : On(m)' = On(m)
         /\ Places' = Places
         /\ \A i, j : Rank(i, j)' = Rank(i, j)
         /\ \A i, v : CopyAt(i, v)' <=> CopyAt(i, v)
<1>1. \A i : BlockAt(i)' = BlockAt(i)
  BY DEF BlockAt
<1>2. \A m : On(m)' = On(m)
  BY DEF On
<1>3. Places' = Places
  BY DEF Places, On
<1>4. \A i, j : Rank(i, j)' = Rank(i, j)
  BY DEF Rank, Good, BlockAt
<1>5. \A i, v : CopyAt(i, v)' <=> CopyAt(i, v)
  BY DEF CopyAt, PlainCopy, SlotCopy, FlashCopy, BlockAt, On
<1> QED
  BY <1>1, <1>2, <1>3, <1>4, <1>5

\* No place before the one in hand holds a copy that is intact.
Passed == \A i \in Places, v \in Version : i < block => ~CopyAt(i, v)

AtRest ==
  /\ On("sdmmc") /\ block \in DOMAIN Starts
  /\ BlockAt(Starts[block]).reads /\ buffer.head = HeadOf(BlockAt(Starts[block]))
  /\ buffer.head \in Version /\ buffer.body[1] = Fragment(BlockAt(Starts[block]), 1)

AtSlot ==
  /\ On("rawnand") /\ block <= LastBlock /\ ~BlockAt(block).bad
  /\ buffer.head \in Version /\ Length[buffer.head] = 1
  /\ BlockAt(block).reads => /\ buffer.head = HeadOf(BlockAt(block))
                             /\ \A s \in 1 .. slot - 1 : CopyIn(BlockAt(block), s) # buffer.head

AtNorPart ==
  /\ block = 1 /\ BlockAt(1).reads
  /\ buffer.head = HeadOf(BlockAt(1)) /\ buffer.head \in Version

\* The parts read so far are in the good blocks between block and at, in their order.
PartRead(p, j) ==
  /\ ~BlockAt(j).bad /\ Rank(block, j) = p
  /\ On("spinand") => BlockAt(j).reads
  /\ BlockAt(j).reads => buffer.body[p] = Fragment(BlockAt(j), p)

AtFlashPart ==
  /\ On("rawnand") \/ On("spinand")
  /\ block <= LastBlock /\ ~BlockAt(block).bad /\ block <= at
  /\ buffer.head \in Version
  /\ BlockAt(block).reads => buffer.head = HeadOf(BlockAt(block))
  /\ On("rawnand") => Length[buffer.head] > 1 /\ at <= LastBlock + 1
  /\ On("spinand") => BlockAt(block).reads
  /\ Rank(block, at - 1) = part - 1 /\ part <= Length[buffer.head] + 1
  /\ Complete => block < at /\ ~BlockAt(at - 1).bad
  /\ \A p \in 1 .. part - 1 : \E j \in block .. at - 1 : PartRead(p, j)

SearchInv ==
  /\ pc \in {"search", "rest", "slot", "part"} => Passed
  /\ pc \in {"board", "search"} /\ On("spinor") => block = 1
  /\ pc = "board" => block = 1
  /\ pc = "rest" => AtRest
  /\ pc = "slot" => AtSlot
  /\ pc = "part" => (On("spinor") /\ AtNorPart) \/ AtFlashPart

\* Types, once more and without the names.
LEMMA PlaceTypes ==
  ASSUME Typed
  PROVE  /\ block \in Nat \ {0} /\ at \in Nat \ {0} /\ part \in Nat \ {0} /\ slot \in Nat \ {0}
         /\ store \in Stores /\ NextBlock \in Nat /\ LastBlock \in Int
         /\ On("sdmmc") \/ On("rawnand") \/ On("spinand") \/ On("spinor")
         /\ On("sdmmc") => Places = DOMAIN Starts
         /\ On("rawnand") => Places = 1 .. NextBlock - 1
         /\ On("spinand") => Places = 1 .. NextBlock
         /\ On("spinor") => Places = {1}
         /\ \A v \in Version : Length[v] \in Nat /\ Length[v] >= 1
         /\ \A i \in Places : i \in Nat /\ i >= 1
<1>1. /\ block \in Nat \ {0} /\ at \in Nat \ {0} /\ part \in Nat \ {0} /\ slot \in Nat \ {0}
      /\ store \in Stores
  BY DEF Typed, SearchType, PackageInv
<1>2. NextBlock \in Nat /\ LastBlock \in Int
  BY Boot0Assumption DEF LastBlock
<1>3. On("sdmmc") \/ On("rawnand") \/ On("spinand") \/ On("spinor")
  BY <1>1, Boot0Assumption DEF On
<1>4. /\ On("sdmmc") => Places = DOMAIN Starts
      /\ On("rawnand") => Places = 1 .. NextBlock - 1
      /\ On("spinand") => Places = 1 .. NextBlock
      /\ On("spinor") => Places = {1}
  BY DEF Places, On
<1>5. \A v \in Version : Length[v] \in Nat /\ Length[v] >= 1
  BY Boot0Assumption
<1>6. DOMAIN Starts = 1 .. Len(Starts) /\ Len(Starts) \in Nat
  BY Boot0Assumption
<1>7. \A i \in Places : i \in Nat /\ i >= 1
  BY <1>2, <1>3, <1>4, <1>6
<1> QED
  BY <1>1, <1>2, <1>3, <1>4, <1>5, <1>7

\* The buffer has room for every package.
LEMMA BodyHas ==
  ASSUME Typed, NEW v \in Version
  PROVE  /\ buffer = [head |-> buffer.head, body |-> buffer.body]
         /\ 1 \in DOMAIN buffer.body
         /\ \A p \in 1 .. Length[v] : p \in DOMAIN buffer.body
<1>1. buffer = [head |-> buffer.head, body |-> buffer.body]
  BY DEF Typed, PackageInv, BufferType
<1>2. \A p \in 1 .. Length[v] : p \in DOMAIN buffer.body
  BY DEF Typed, SearchType, BodyType
<1>3. 1 \in 1 .. Length[v]
  BY PlaceTypes
<1> QED
  BY <1>1, <1>2, <1>3

\* Where the last part has been read.
LEMMA CompleteTells ==
  ASSUME Typed, AtFlashPart, Complete
  PROVE  /\ buffer.head \in Version /\ buffer.head # Nil
         /\ Length[buffer.head] \in Nat /\ Length[buffer.head] >= 1
         /\ part = Length[buffer.head] + 1
         /\ block \in Nat /\ at \in Nat /\ block < at /\ at - 1 \in Nat /\ block <= at - 1
<1>1. buffer.head \in Version /\ part <= Length[buffer.head] + 1 /\ block < at
  BY DEF AtFlashPart
<1>2. buffer.head # Nil
  BY <1>1, Boot0Assumption
<1>3. /\ Length[buffer.head] \in Nat /\ Length[buffer.head] >= 1
      /\ block \in Nat \ {0} /\ at \in Nat \ {0} /\ part \in Nat \ {0}
  BY <1>1, PlaceTypes
<1> QED
  BY <1>1, <1>2, <1>3 DEF Complete

\* A package whose sum was right is the copy in the flash that was read.
LEMMA SumTells ==
  ASSUME Typed, AtFlashPart, Complete, Verified(buffer),
         On("rawnand") => \A j \in block .. at - 1 : ~BlockAt(j).bad => BlockAt(j).reads
  PROVE  CopyAt(block, buffer.head)
<1> DEFINE v == buffer.head
           to == at - 1
<1>1. /\ v \in Version /\ v # Nil /\ part = Length[v] + 1 /\ Length[v] \in Nat /\ Length[v] >= 1
      /\ block \in Nat /\ at \in Nat /\ block < at /\ to \in Nat /\ block <= to
  BY CompleteTells
<1>2. Rank(block, to) = Length[v]
  BY <1>1 DEF AtFlashPart
<1>3. ASSUME NEW j \in block .. to, ~BlockAt(j).bad
      PROVE  BlockAt(j).reads /\ Fragment(BlockAt(j), Rank(block, j)) = v
  <2>1. j \in Nat /\ j - 1 \in Int /\ block <= j
    BY <1>1
  <2>2. Rank(block, j) = Rank(block, j - 1) + 1 /\ Rank(block, j - 1) \in Nat
    BY <1>1, <1>3, <2>1, RankStep, RankNat
  <2>3. Rank(block, j) <= Rank(block, to)
    BY <1>1, <2>1, RankMono
  <2>4. Rank(block, j) \in 1 .. part - 1 /\ Rank(block, j) \in 1 .. Length[v]
    BY <1>1, <1>2, <2>2, <2>3
  <2>5. PICK k \in block .. at - 1 : PartRead(Rank(block, j), k)
    BY <2>4 DEF AtFlashPart
  <2>6. k \in Nat /\ block <= k
    BY <1>1, <2>5
  <2>7. k = j
    <3>1. ~BlockAt(k).bad /\ Rank(block, k) = Rank(block, j) /\ Rank(block, j) \in Nat
      BY <1>1, <2>1, <2>5, RankNat DEF PartRead
    <3>2. j < k => Rank(block, j) < Rank(block, k)
      BY <1>1, <2>1, <2>6, <3>1, RankStrict
    <3>3. k < j => Rank(block, k) < Rank(block, j)
      BY <1>1, <1>3, <2>1, <2>6, RankStrict
    <3> QED
      BY <2>1, <2>6, <3>1, <3>2, <3>3
  <2>8. BlockAt(j).reads /\ buffer.body[Rank(block, j)] = Fragment(BlockAt(j), Rank(block, j))
    BY <1>3, <2>5, <2>7 DEF PartRead, AtFlashPart
  <2> QED
    BY <2>4, <2>8 DEF Verified
<1>4. ~BlockAt(block).bad /\ HeadOf(BlockAt(block)) = v
  <2>1. ~BlockAt(block).bad
    BY DEF AtFlashPart
  <2>2. BlockAt(block).reads
    BY <1>1, <1>3, <2>1
  <2> QED
    BY <2>1, <2>2 DEF AtFlashPart
<1>5. ASSUME NEW last \in Nat, to <= last PROVE FlashCopy(block, v, last)
  <2>1. to \in block .. last
    BY <1>1, <1>5
  <2> QED
    BY <1>1, <1>2, <1>3, <1>4, <1>5, <2>1, FlashCopyIs
<1>6. CASE On("rawnand")
  <2>1. to <= NextBlock - 1 /\ NextBlock - 1 \in Nat
    BY <1>1, <1>6, PlaceTypes DEF AtFlashPart, LastBlock
  <2> QED
    BY <1>5, <1>6, <2>1 DEF CopyAt
\* Behind the medium nothing is stored.
<1>7. CASE On("spinand")
  <2>1. Fragment(BlockAt(to), Rank(block, to)) = v
    BY <1>1, <1>3 DEF AtFlashPart
  <2>2. to \in DOMAIN store.blocks
    BY <1>1, <2>1 DEF BlockAt, Foreign, Fragment
  <2>3. to <= Len(store.blocks) /\ Len(store.blocks) \in Nat
    BY <2>2, PlaceTypes, Boot0Assumption
  <2> QED
    BY <1>5, <1>7, <2>3 DEF CopyAt
<1> QED
  BY <1>6, <1>7 DEF AtFlashPart

\* A copy that begins in the block in hand has been read, as far as the parts go.
LEMMA CopyTells ==
  ASSUME Typed, AtFlashPart, NEW v \in Version, CopyAt(block, v)
  PROVE  /\ v = buffer.head
         /\ \E last \in Nat : FlashCopy(block, v, last)
<1>1. (On("rawnand") /\ SlotCopy(block, v)) \/ \E last \in Nat : FlashCopy(block, v, last)
  <2>1. Len(store.blocks) \in Nat
    BY PlaceTypes, Boot0Assumption
  <2>2. On("rawnand") => NextBlock - 1 \in Nat
    BY PlaceTypes DEF AtFlashPart, LastBlock
  <2>3. ~On("sdmmc") /\ ~On("spinor")
    BY DEF AtFlashPart, On
  <2> QED
    BY <2>1, <2>2, <2>3 DEF CopyAt
<1>2. BlockAt(block).reads /\ HeadOf(BlockAt(block)) = v
  BY <1>1, PlaceTypes, FlashCopyHead DEF SlotCopy
<1>3. v = buffer.head
  BY <1>2 DEF AtFlashPart
<1>4. ~(On("rawnand") /\ SlotCopy(block, v))
  BY <1>3, PlaceTypes DEF SlotCopy, AtFlashPart
<1> QED
  BY <1>1, <1>3, <1>4

\* Where the sum was wrong no copy begins.
LEMMA SumMisses ==
  ASSUME Typed, AtFlashPart, Complete, ~Verified(buffer), NEW v \in Version
  PROVE  ~CopyAt(block, v)
<1> SUFFICES ASSUME CopyAt(block, v) PROVE FALSE
  OBVIOUS
<1>1. v = buffer.head
  BY CopyTells
<1>2. PICK last \in Nat : FlashCopy(block, v, last)
  BY CopyTells
<1>3. PICK to \in block .. last :
        /\ Rank(block, to) = Length[v]
        /\ \A j \in block .. to : ~BlockAt(j).bad =>
              BlockAt(j).reads /\ Fragment(BlockAt(j), Rank(block, j)) = v
  BY <1>2, PlaceTypes, FlashCopyIs
<1>4. /\ block \in Nat /\ to \in Nat /\ at \in Nat /\ block <= to /\ v # Nil
      /\ Length[v] \in Nat /\ part = Length[v] + 1
  <2>1. block \in Nat /\ at \in Nat /\ v # Nil /\ Length[v] \in Nat /\ part = Length[v] + 1
    BY <1>1, CompleteTells
  <2> QED
    BY <1>3, <2>1
<1>5. ASSUME NEW p \in 1 .. Length[v] PROVE buffer.body[p] = v
  <2>1. PICK j \in block .. at - 1 : PartRead(p, j)
    BY <1>4 DEF AtFlashPart
  <2>2. j \in Nat /\ block <= j /\ p \in Nat
    BY <1>4, <1>5, <2>1
  <2>3. j <= to
    <3>1. ~(to < j)
      <4>1. to < j => Rank(block, to) < Rank(block, j)
        BY <1>4, <2>1, <2>2, RankStrict DEF PartRead
      <4> QED
        BY <1>3, <1>4, <1>5, <2>1, <2>2, <4>1 DEF PartRead
    <3> QED
      BY <1>4, <2>2, <3>1
  <2>4. j \in block .. to
    BY <1>4, <2>2, <2>3
  <2> QED
    BY <1>3, <2>1, <2>4 DEF PartRead
<1> QED
  BY <1>1, <1>4, <1>5 DEF Verified

\* The part that SPI NAND cannot read is one of every copy that begins in the block in hand.
LEMMA UnreadMisses ==
  ASSUME Typed, AtFlashPart, ~Complete, ~BlockAt(at).bad, ~BlockAt(at).reads, NEW v \in Version
  PROVE  ~CopyAt(block, v)
<1> SUFFICES ASSUME CopyAt(block, v) PROVE FALSE
  OBVIOUS
<1>1. v = buffer.head
  BY CopyTells
<1>2. PICK last \in Nat : FlashCopy(block, v, last)
  BY CopyTells
<1>3. PICK to \in block .. last :
        /\ Rank(block, to) = Length[v]
        /\ \A j \in block .. to : ~BlockAt(j).bad => BlockAt(j).reads
  BY <1>2, PlaceTypes, FlashCopyIs
<1>4. /\ block \in Nat /\ at \in Nat /\ at - 1 \in Int /\ block <= at /\ to \in Int
      /\ Length[v] \in Nat /\ part \in Nat
  BY <1>3, PlaceTypes DEF AtFlashPart
<1>5. to < at
  BY <1>3, <1>4
<1>6. Rank(block, to) <= Rank(block, at - 1)
  BY <1>4, <1>5, RankMono
<1> QED
  BY <1>1, <1>3, <1>4, <1>6 DEF AtFlashPart, Complete

\* Where raw NAND lacks blocks, no copy is left that is as long.
LEMMA LackTells ==
  ASSUME Typed, Passed, AtFlashPart, On("rawnand"), ~Complete, at > LastBlock,
         NEW i \in Places, NEW v \in Version, CopyAt(i, v)
  PROVE  Length[v] < Length[buffer.head]
<1>1. /\ i \in Nat /\ block \in Nat /\ at \in Nat /\ at - 1 \in Int /\ part \in Nat
      /\ Length[v] \in Nat /\ Length[buffer.head] \in Nat /\ Length[buffer.head] > 1
      /\ part <= Length[buffer.head]
  <2>1. buffer.head \in Version /\ Length[buffer.head] > 1
    BY DEF AtFlashPart
  <2> QED
    BY <2>1, PlaceTypes DEF Complete
<1>2. block <= i
  BY <1>1 DEF Passed
<1>3. NextBlock - 1 \in Nat /\ at > NextBlock - 1
  BY <1>1, PlaceTypes DEF LastBlock
<1>4. SlotCopy(i, v) \/ FlashCopy(i, v, NextBlock - 1)
  BY DEF CopyAt, On
<1>5. CASE SlotCopy(i, v)
  BY <1>1, <1>5 DEF SlotCopy
<1>6. CASE FlashCopy(i, v, NextBlock - 1)
  <2>1. PICK to \in i .. NextBlock - 1 : Rank(i, to) = Length[v]
    BY <1>1, <1>3, <1>6, FlashCopyIs
  <2>2. to \in Int /\ to <= at - 1
    BY <1>1, <1>3, <2>1
  <2>3. Rank(i, to) <= Rank(block, at - 1)
    BY <1>1, <1>2, <2>2, RankMono
  <2> QED
    BY <1>1, <2>1, <2>3 DEF AtFlashPart
<1> QED
  BY <1>4, <1>5, <1>6

\* The head has been read, and no part yet.
LEMMA PartsBegin ==
  ASSUME Typed, On("rawnand") \/ On("spinand"), block <= LastBlock, ~BlockAt(block).bad,
         StartParts, UNCHANGED store, buffer'.head \in Version,
         BlockAt(block).reads => buffer'.head = HeadOf(BlockAt(block)),
         On("rawnand") => Length[buffer'.head] > 1,
         On("spinand") => BlockAt(block).reads
  PROVE  AtFlashPart'
<1>1. block' = block /\ at' = block /\ part' = 1
  BY DEF StartParts
<1>2. block \in Nat /\ LastBlock \in Int /\ Length[buffer'.head] \in Nat /\ Length[buffer'.head] >= 1
  BY PlaceTypes
<1>3. /\ \A i : BlockAt(i)' = BlockAt(i)
      /\ \A m : On(m)' = On(m)
      /\ \A i, j : Rank(i, j)' = Rank(i, j)
      /\ LastBlock' = LastBlock
  BY MediumStays DEF LastBlock
<1>4. Rank(block, block - 1) = 0
  BY <1>2, RankEmpty
<1>5. ~Complete'
  BY <1>1, <1>2 DEF Complete
<1> QED
  BY <1>1, <1>2, <1>3, <1>4, <1>5 DEF AtFlashPart, HeadOf

\* One block further.
LEMMA PartsGoOn ==
  ASSUME Typed, AtFlashPart, ~Complete, UNCHANGED <<store, block>>, buffer'.head = buffer.head,
         at' = at + 1, On("rawnand") => at <= LastBlock,
         \/ BlockAt(at).bad /\ part' = part /\ buffer' = buffer
         \/ /\ ~BlockAt(at).bad /\ part' = part + 1
            /\ \A p \in 1 .. part - 1 : buffer'.body[p] = buffer.body[p]
            /\ On("spinand") => BlockAt(at).reads
            /\ BlockAt(at).reads => buffer'.body[part] = Fragment(BlockAt(at), part)
  PROVE  AtFlashPart'
<1>1. /\ block \in Nat /\ at \in Nat /\ part \in Nat /\ part >= 1 /\ block <= at /\ LastBlock \in Int
      /\ at' - 1 = at /\ Length[buffer.head] \in Nat /\ part <= Length[buffer.head]
  <2>1. buffer.head \in Version /\ block <= at
    BY DEF AtFlashPart
  <2> QED
    BY <2>1, PlaceTypes DEF Complete
<1>2. /\ \A i : BlockAt(i)' = BlockAt(i)
      /\ \A m : On(m)' = On(m)
      /\ \A i, j : Rank(i, j)' = Rank(i, j)
      /\ LastBlock' = LastBlock
  BY MediumStays DEF LastBlock
<1>3. Rank(block, at) = IF BlockAt(at).bad THEN part - 1 ELSE part
  BY <1>1, RankStep DEF AtFlashPart
<1>4. ASSUME NEW p \in 1 .. part - 1, buffer'.body[p] = buffer.body[p]
      PROVE  \E j \in block .. at : PartRead(p, j)'
  <2>1. PICK j \in block .. at - 1 : PartRead(p, j)
    BY DEF AtFlashPart
  <2>2. j \in block .. at
    BY <1>1
  <2>3. PartRead(p, j)'
    BY <1>2, <1>4, <2>1 DEF PartRead, Fragment
  <2> QED
    BY <2>2, <2>3
<1>5. CASE BlockAt(at).bad
  <2>1. part' = part /\ buffer' = buffer
    BY <1>5
  <2>2. \A p \in 1 .. part' - 1 : \E j \in block' .. at' - 1 : PartRead(p, j)'
    BY <1>1, <1>4, <2>1
  <2>3. ~Complete'
    BY <2>1 DEF Complete
  <2>4. Rank(block, at - 1)' = part' - 1
    BY <1>1, <1>2, <1>3, <1>5, <2>1
  <2> QED
    BY <1>1, <1>2, <2>1, <2>2, <2>3, <2>4 DEF AtFlashPart, HeadOf
<1>6. CASE ~BlockAt(at).bad
  <2>1. /\ part' = part + 1
        /\ \A p \in 1 .. part - 1 : buffer'.body[p] = buffer.body[p]
        /\ On("spinand") => BlockAt(at).reads
        /\ BlockAt(at).reads => buffer'.body[part] = Fragment(BlockAt(at), part)
    BY <1>6
  <2>0. PICK a \in Nat, q \in Nat : a = at /\ q = part
    BY <1>1
  <2>2. PartRead(q, a)'
    BY <1>2, <1>3, <1>6, <2>0, <2>1 DEF PartRead, Fragment
  <2>3. ASSUME NEW p \in 1 .. part' - 1 PROVE \E j \in block' .. at' - 1 : PartRead(p, j)'
    <3>1. p \in 1 .. part - 1 \/ p = part
      BY <1>1, <2>1
    <3>2. at \in block' .. at' - 1 /\ block .. at = block' .. at' - 1
      BY <1>1
    <3> QED
      BY <1>4, <2>0, <2>1, <2>2, <3>1, <3>2
  <2>4. Rank(block, at - 1)' = part' - 1 /\ part' <= Length[buffer.head] + 1
    BY <1>1, <1>2, <1>3, <1>6, <2>1
  <2>5. block' < at' /\ ~BlockAt(at - 1)'.bad
    BY <1>1, <1>2, <1>6
  <2> QED
    BY <1>1, <1>2, <2>3, <2>4, <2>5 DEF AtFlashPart, HeadOf
<1> QED
  BY <1>5, <1>6

\* What a copy says of the block in hand, on either flash.
LEMMA FlashHead ==
  ASSUME Typed, On("rawnand") \/ On("spinand"), block <= LastBlock, NEW v \in Version, CopyAt(block, v)
  PROVE  ~BlockAt(block).bad /\ BlockAt(block).reads /\ HeadOf(BlockAt(block)) = v
<1>1. block \in Nat /\ block >= 1 /\ Len(store.blocks) \in Nat
  BY PlaceTypes, Boot0Assumption
<1>2. On("rawnand") => NextBlock - 1 \in Nat
  BY <1>1, PlaceTypes DEF LastBlock
<1>3. SlotCopy(block, v) \/ \E last \in Nat : FlashCopy(block, v, last)
  BY <1>1, <1>2 DEF CopyAt, On
<1> QED
  BY <1>1, <1>3, FlashCopyHead DEF SlotCopy

\* What a copy in consecutive blocks says of the first of them.
LEMMA PlainCopyHead ==
  ASSUME Typed, NEW i \in Nat, NEW v \in Version, PlainCopy(i, v)
  PROVE  HeadOf(BlockAt(i)) = v /\ BlockAt(i).reads /\ Fragment(BlockAt(i), 1) = v
<1>1. 1 \in 1 .. Length[v] /\ i + 1 - 1 = i
  BY PlaceTypes
<1> QED
  BY <1>1 DEF PlainCopy

Found == SearchInv /\ BootsWhatIsStored /\ IntactCopyFound

\* The next copy, where the one in hand is none.
LEMMA FoundNext ==
  ASSUME Typed, UNCHANGED store, NextCopy, Passed, ~On("spinor"),
         \A v \in Version : ~CopyAt(block, v)
  PROVE  Found'
<1>1. pc' = "search" /\ block' = block + 1
  BY DEF NextCopy, Goto
<1>2. Passed'
  <2>1. \A i \in Places, v \in Version : i < block + 1 => ~CopyAt(i, v)
    BY PlaceTypes DEF Passed
  <2> QED
    BY <1>1, <2>1, MediumStays DEF Passed
<1>3. SearchInv'
  BY <1>1, <1>2 DEF SearchInv, On
<1> QED
  BY <1>1, <1>3 DEF Found, BootsWhatIsStored, IntactCopyFound, HasPackage

\* FEL.
LEMMA FoundFel ==
  ASSUME UNCHANGED store, NEW why, Fel(why),
         \A i \in Places, v \in Version : CopyAt(i, v) =>
           /\ why # "none left"
           /\ why = "read" => i > block
           /\ why = "lack" => Length[v] < Length[buffer'.head]
  PROVE  Found'
<1>1. pc' = "fel" /\ block' = block /\ failed' = why
  BY DEF Fel, Goto
<1>2. IntactCopyFound'
  BY <1>1, MediumStays DEF IntactCopyFound
<1> QED
  BY <1>1, <1>2 DEF Found, SearchInv, BootsWhatIsStored, HasPackage

\* A package goes on.
LEMMA FoundLoaded ==
  ASSUME UNCHANGED store, Loaded,
         \/ CopyAt(block, buffer'.head)
         \/ On("rawnand") /\ \E i \in 1 .. NextBlock - 1 : ~BlockAt(i).reads
         \/ On("spinor")
  PROVE  Found'
<1>1. pc' = "items" /\ block' = block
  BY DEF Loaded, Goto
<1>2. BootsWhatIsStored'
  <2> SUFFICES ASSUME ~On("spinor")'
               PROVE  \/ CopyAt(block, buffer.head)'
                      \/ (On("rawnand") /\ \E i \in 1 .. NextBlock - 1 : ~BlockAt(i).reads)'
    BY DEF BootsWhatIsStored
  <2>1. PICK b, h : b = block /\ h = buffer'.head
    OBVIOUS
  <2>2. CASE CopyAt(block, buffer'.head)
    <3>1. CopyAt(b, h)'
      BY <2>1, <2>2, MediumStays
    <3> QED
      BY <1>1, <2>1, <3>1
  <2>3. CASE ~CopyAt(block, buffer'.head)
    BY <2>3, MediumStays
  <2> QED
    BY <2>2, <2>3
<1> QED
  BY <1>1, <1>2 DEF Found, SearchInv, IntactCopyFound

\* The copy in hand is read on.
LEMMA FoundHere ==
  ASSUME UNCHANGED <<store, block>>, Passed,
         \/ pc' = "rest" /\ AtRest'
         \/ pc' = "slot" /\ AtSlot'
         \/ pc' = "part" /\ ((On("spinor") /\ AtNorPart') \/ AtFlashPart')
  PROVE  Found'
<1>1. Passed'
  BY MediumStays DEF Passed
<1>2. SearchInv'
  BY <1>1 DEF SearchInv, On
<1> QED
  BY <1>2 DEF Found, BootsWhatIsStored, IntactCopyFound, HasPackage

\* verify_addsum does not come back.
LEMMA FoundAstray ==
  ASSUME Astray
  PROVE  Found'
BY DEF Astray, Goto, Found, SearchInv, BootsWhatIsStored, IntactCopyFound, HasPackage

\* The search is over.
LEMMA FoundAfter ==
  ASSUME Found, HasPackage, UNCHANGED <<store, block, buffer>>, HasPackage'
  PROVE  Found'
<1>1. BootsWhatIsStored'
  BY MediumStays DEF Found, BootsWhatIsStored
<1> QED
  BY <1>1 DEF Found, SearchInv, IntactCopyFound, HasPackage

LEMMA SdmmcFound == Typed /\ Found /\ (SdmmcHead \/ SdmmcRest) => Found'
<1> SUFFICES ASSUME Typed, Found, SdmmcHead \/ SdmmcRest PROVE Found'
  OBVIOUS
<1>1. /\ pc \in {"search", "rest"} /\ On("sdmmc") /\ ~On("spinor") /\ UNCHANGED store
      /\ \A v \in Version : v # Nil
  BY Boot0Assumption DEF SdmmcHead, SdmmcRest, Searching, On
<1>2. Passed /\ Places = 1 .. Len(Starts) /\ Len(Starts) \in Nat
  BY <1>1, PlaceTypes, Boot0Assumption DEF Found, SearchInv
<1>3. \A i, v : CopyAt(i, v) <=> PlainCopy(Starts[i], v)
  BY <1>1 DEF CopyAt, On
<1>4. block \in Nat /\ \A i \in Places : i \in Nat /\ Starts[i] \in Nat
  BY <1>2, PlaceTypes, Boot0Assumption
<1> DEFINE b == BlockAt(Starts[block])
<1>5. ASSUME block \in Places, NEW v \in Version, CopyAt(block, v)
      PROVE  b.reads /\ HeadOf(b) = v /\ Fragment(b, 1) = v
  BY <1>3, <1>4, <1>5, PlainCopyHead
\* A place that is none ends the search.
<1>6. ASSUME block \in Places, Fel("read"), \A v \in Version : ~CopyAt(block, v) PROVE Found'
  <2>1. ASSUME NEW i \in Places, NEW v \in Version, CopyAt(i, v) PROVE i > block
    BY <1>2, <1>4, <1>6, <2>1 DEF Passed
  <2> QED
    BY <1>1, <1>6, <2>1, FoundFel
<1>7. CASE SdmmcHead /\ block > Len(Starts)
  <2>1. Fel("none left")
    BY <1>7 DEF SdmmcHead
  <2>2. \A i \in Places, v \in Version : ~CopyAt(i, v)
    BY <1>2, <1>4, <1>7 DEF Passed
  <2> QED
    BY <1>1, <2>1, <2>2, FoundFel
<1>8. CASE SdmmcHead /\ ~(block > Len(Starts))
  <2>1. block \in Places /\ block \in DOMAIN Starts /\ Starts[block] \in Nat
    BY <1>1, <1>2, <1>4, <1>8, PlaceTypes
  <2>2. CASE ~b.reads
    <3>1. Fel("read")
      BY <1>8, <2>2 DEF SdmmcHead
    <3> QED
      BY <1>5, <1>6, <2>1, <2>2, <3>1
  <2>3. CASE b.reads /\ HeadOf(b) = Nil
    <3>1. NextCopy \/ Astray
      BY <1>8, <2>3 DEF SdmmcHead
    <3> QED
      BY <1>1, <1>2, <1>5, <2>1, <2>3, <3>1, FoundNext, FoundAstray
  <2>4. CASE b.reads /\ HeadOf(b) # Nil /\ Astray
    BY <2>4, FoundAstray
  <2>5. CASE b.reads /\ HeadOf(b) # Nil /\ ~Astray
    <3>1. /\ pc' = "rest" /\ UNCHANGED block
          /\ buffer' = [buffer EXCEPT !.head = HeadOf(b), !.body[1] = Fragment(b, 1)]
      BY <1>8, <2>5 DEF SdmmcHead, Goto
    <3>2. HeadOf(b) \in Version
      BY <2>5, PlaceTypes, Stored
    <3>3. buffer'.head = HeadOf(b) /\ buffer'.body[1] = Fragment(b, 1)
      <4> HIDE DEF b
      <4> QED
        BY <3>1, <3>2, BodyHas
    <3>4. BlockAt(Starts[block])' = b
      BY <1>1, <3>1 DEF BlockAt
    <3>5. AtRest'
      BY <1>1, <2>1, <2>5, <3>1, <3>2, <3>3, <3>4, MediumStays DEF AtRest, HeadOf, Fragment
    <3> QED
      BY <1>1, <1>2, <3>1, <3>5, FoundHere
  <2> QED
    BY <2>2, <2>3, <2>4, <2>5
<1>9. CASE SdmmcRest
  <2> DEFINE rest == 2 .. Length[buffer.head]
             B(p) == BlockAt(Starts[block] + p - 1)
  <2>1. AtRest /\ block \in Places /\ Starts[block] \in Nat
    BY <1>1, <1>4, <1>9, PlaceTypes DEF SdmmcRest, Found, SearchInv, AtRest
  <2>2. buffer.head \in Version /\ Length[buffer.head] \in Nat /\ Length[buffer.head] >= 1
    BY <2>1, PlaceTypes DEF AtRest
  <2>3. B(1) = b /\ 1 .. Length[buffer.head] = {1} \union rest /\ 1 \notin rest
    <3>1. Starts[block] + 1 - 1 = Starts[block]
      BY <2>1
    <3> QED
      BY <2>2, <3>1
  <2>4. b.reads /\ HeadOf(b) = buffer.head /\ buffer.body[1] = Fragment(b, 1)
    BY <2>1 DEF AtRest
  <2>5. ASSUME NEW v \in Version, CopyAt(block, v)
        PROVE  /\ v = buffer.head
               /\ \A p \in 1 .. Length[v] : B(p).reads /\ Fragment(B(p), p) = v
    <3>1. v = buffer.head
      BY <1>5, <2>1, <2>4, <2>5
    <3> QED
      BY <1>3, <2>5, <3>1 DEF PlainCopy
  <2>6. CASE \E p \in rest : ~B(p).reads
    <3>1. Fel("read")
      BY <1>9, <2>6 DEF SdmmcRest
    <3>2. \A v \in Version : ~CopyAt(block, v)
      BY <2>3, <2>5, <2>6
    <3> QED
      BY <1>6, <2>1, <3>1, <3>2
  <2>7. CASE ~\E p \in rest : ~B(p).reads
    <3>1. /\ buffer' = [buffer EXCEPT !.body =
                          [p \in DOMAIN @ |-> IF p \in rest THEN Fragment(B(p), p) ELSE @[p]]]
          /\ IF Verified(buffer') THEN Loaded ELSE NextCopy
      BY <1>9, <2>7 DEF SdmmcRest
    <3>2. /\ buffer'.head = buffer.head
          /\ \A p \in 1 .. Length[buffer.head] : buffer'.body[p] = Fragment(B(p), p)
      <4>1. buffer = [head |-> buffer.head, body |-> buffer.body]
        BY <2>2, BodyHas
      <4>2. \A p \in 1 .. Length[buffer.head] : p \in DOMAIN buffer.body
        BY <2>2, BodyHas
      <4> HIDE DEF rest, B
      <4>3. /\ buffer'.head = buffer.head
            /\ \A p \in DOMAIN buffer.body :
                 buffer'.body[p] = IF p \in rest THEN Fragment(B(p), p) ELSE buffer.body[p]
        BY <3>1, <4>1
      <4> QED
        BY <2>3, <2>4, <4>2, <4>3
    <3>3. CASE Verified(buffer')
      <4>1. PlainCopy(Starts[block], buffer.head)
        BY <2>3, <2>4, <2>7, <3>2, <3>3 DEF PlainCopy, Verified
      <4>2. CopyAt(block, buffer'.head)
        BY <1>3, <3>2, <4>1
      <4> QED
        BY <1>1, <3>1, <3>3, <4>2, FoundLoaded
    <3>4. CASE ~Verified(buffer')
      <4>1. ASSUME NEW v \in Version, CopyAt(block, v) PROVE FALSE
        <5>1. v = buffer.head /\ \A p \in 1 .. Length[v] : Fragment(B(p), p) = v
          BY <2>5, <4>1
        <5> HIDE DEF B
        <5> QED
          BY <1>1, <3>2, <3>4, <5>1 DEF Verified
      <4> QED
        BY <1>1, <1>2, <3>1, <3>4, <4>1, FoundNext
    <3> QED
      BY <3>3, <3>4
  <2> QED
    BY <2>6, <2>7
<1> QED
  BY <1>7, <1>8, <1>9

\* What storing a part does to the buffer.
LEMMA StoreTells ==
  ASSUME Typed, AtFlashPart, ~Complete, NEW x, buffer' = [buffer EXCEPT !.body[part] = x]
  PROVE  /\ buffer'.head = buffer.head /\ buffer'.body[part] = x
         /\ \A p \in 1 .. part - 1 : buffer'.body[p] = buffer.body[p]
<1>1. buffer.head \in Version
  BY DEF AtFlashPart
<1>2. part \in 1 .. Length[buffer.head]
  BY <1>1, PlaceTypes DEF Complete
<1>3. \A p \in 1 .. part - 1 : p \in 1 .. Length[buffer.head] /\ p # part
  BY <1>1, <1>2, PlaceTypes
<1>4. /\ buffer = [head |-> buffer.head, body |-> buffer.body]
      /\ \A p \in 1 .. Length[buffer.head] : p \in DOMAIN buffer.body
  BY <1>1, BodyHas
<1> QED
  BY <1>2, <1>3, <1>4

LEMMA RawFound == Typed /\ Found /\ (RawHead \/ RawSlot \/ RawPart) => Found'
<1> SUFFICES ASSUME Typed, Found, RawHead \/ RawSlot \/ RawPart PROVE Found'
  OBVIOUS
<1>1. UNCHANGED store /\ \A v \in Version : v # Nil
  BY Boot0Assumption DEF RawHead, RawSlot, RawPart, Searching
<1>2. pc \in {"search", "slot", "part"} /\ Passed /\ On("rawnand")
  BY DEF RawHead, RawSlot, RawPart, Found, SearchInv, AtSlot
<1>3. ~On("spinor") /\ ~On("spinand") /\ LastBlock = NextBlock - 1 /\ Places = 1 .. LastBlock
  BY <1>2, PlaceTypes DEF LastBlock, On
<1>4. block \in Nat /\ block >= 1 /\ at \in Nat /\ slot \in Nat /\ slot >= 1 /\ LastBlock \in Int
  BY PlaceTypes
<1> DEFINE b == BlockAt(block)
<1>5. ASSUME block <= LastBlock, NEW v \in Version, CopyAt(block, v)
      PROVE  ~b.bad /\ b.reads /\ HeadOf(b) = v
  BY <1>2, <1>5, FlashHead
<1>6. CASE RawHead
  <2> DEFINE head == IF b.reads THEN HeadOf(b) ELSE buffer.head
  <2>1. head \in Version \union {Nil}
    BY PlaceTypes, Stored DEF Typed, PackageInv, BufferType
  <2>2. CASE block > LastBlock /\ Fel("none left")
    <3>1. \A i \in Places : i < block
      <4>1. block > LastBlock
        BY <2>2, Zenon
      <4>2. \A n \in Int, k \in Nat : k > n => \A i \in 1 .. n : i < k
        OBVIOUS
      <4>3. \A i \in 1 .. LastBlock : i < block
        BY <1>4, <4>1, <4>2, Zenon
      <4> QED
        BY <1>3, <4>3, Zenon
    <3>2. \A i \in Places, v \in Version : ~CopyAt(i, v)
      BY <1>2, <3>1 DEF Passed
    <3> QED
      BY <1>1, <2>2, <3>2, FoundFel
  <2>3. CASE block <= LastBlock /\ b.bad /\ NextCopy
    BY <1>1, <1>2, <1>3, <1>5, <2>3, FoundNext
  <2>4. CASE /\ block <= LastBlock /\ ~b.bad
             /\ buffer' = [buffer EXCEPT !.head = head]
             /\ \/ Astray
                \/ head = Nil /\ NextCopy
                \/ /\ head # Nil /\ Length[head] = 1
                   /\ Goto("slot") /\ slot' = 1 /\ UNCHANGED <<block, at, part>>
                \/ head # Nil /\ Length[head] > 1 /\ StartParts
    <3>1. /\ buffer' = [buffer EXCEPT !.head = head]
          /\ \/ Astray
             \/ head = Nil /\ NextCopy
             \/ /\ head # Nil /\ Length[head] = 1
                /\ pc' = "slot" /\ slot' = 1 /\ UNCHANGED block
             \/ head # Nil /\ Length[head] > 1 /\ StartParts
      <4> HIDE DEF head, b
      <4> QED
        BY <2>4 DEF Goto
    <3>2. CASE head = Nil /\ NextCopy
      BY <1>1, <1>2, <1>3, <1>5, <2>4, <3>2, FoundNext
    <3>3. CASE head # Nil /\ ~Astray
      <4>1. head \in Version /\ buffer'.head = head /\ (b.reads => head = HeadOf(b))
        <5>1. head \in Version
          BY <2>1, <3>3
        <5>2. buffer = [head |-> buffer.head, body |-> buffer.body]
          BY DEF Typed, PackageInv, BufferType
        <5>3. buffer'.head = head
          <6> HIDE DEF head
          <6> QED
            BY <3>1, <5>2
        <5> QED
          BY <5>1, <5>3
      <4> HIDE DEF head
      <4>2. CASE Length[head] = 1 /\ pc' = "slot" /\ slot' = 1 /\ UNCHANGED block
        <5>1. BlockAt(block)' = b /\ LastBlock' = LastBlock /\ On("rawnand")'
          BY <1>1, <1>2, <4>2 DEF BlockAt, LastBlock, On
        <5>2. 1 .. slot' - 1 = {}
          BY <4>2
        <5>3. AtSlot'
          BY <2>4, <4>1, <4>2, <5>1, <5>2 DEF AtSlot, HeadOf
        <5> QED
          BY <1>1, <1>2, <4>2, <5>3, FoundHere
      <4>3. CASE Length[head] > 1 /\ StartParts
        <5>1. AtFlashPart'
          BY <1>1, <1>2, <1>3, <2>4, <4>1, <4>3, PartsBegin
        <5> QED
          BY <1>1, <1>2, <4>3, <5>1, FoundHere DEF StartParts, Goto
      <4> QED
        BY <3>1, <3>3, <4>2, <4>3
    <3>4. CASE Astray
      BY <3>4, FoundAstray
    <3> QED
      BY <3>1, <3>2, <3>3, <3>4
  <2> QED
    BY <1>6, <2>2, <2>3, <2>4, Zenon DEF RawHead
<1>7. CASE RawSlot
  <2>1. AtSlot
    BY <1>7 DEF RawSlot, Found, SearchInv
  <2>2. /\ buffer.head \in Version /\ Length[buffer.head] = 1 /\ block <= LastBlock /\ ~b.bad
        /\ b.reads => HeadOf(b) = buffer.head
        /\ b.reads => \A s \in 1 .. slot - 1 : CopyIn(b, s) # buffer.head
    BY <2>1 DEF AtSlot
  <2>3. Slots[buffer.head] \in Nat /\ Slots[buffer.head] >= 1
    <3>1. \A v \in Version : Slots[v] \in Nat /\ (Length[v] = 1 => Slots[v] > 0)
      BY Boot0Assumption
    <3> QED
      BY <2>2, <3>1
  <2>4. CASE slot > Slots[buffer.head]
    <3>1. NextCopy
      BY <1>4, <1>7, <2>3, <2>4 DEF RawSlot
    <3>2. ASSUME NEW v \in Version, CopyAt(block, v) PROVE FALSE
      <4>1. b.reads /\ v = buffer.head
        BY <1>5, <2>2, <3>2
      <4>2. \A s \in 1 .. Slots[v] : CopyIn(b, s) # v
        BY <1>4, <2>2, <2>3, <2>4, <4>1
      <4>3. FlashCopy(block, v, NextBlock - 1)
        BY <1>2, <3>2, <4>2 DEF CopyAt, SlotCopy, On
      <4>4. Fragment(b, 1) = v
        BY <1>3, <1>4, <2>2, <4>3, FlashCopyHead
      <4>5. CopyIn(b, 1) = v
        BY <4>4 DEF CopyIn, Fragment
      <4> QED
        BY <2>3, <4>1, <4>2, <4>5
    <3> QED
      BY <1>1, <1>2, <1>3, <3>1, <3>2, FoundNext
  <2>5. CASE slot <= Slots[buffer.head]
    <3>1. /\ buffer' = IF b.reads THEN [buffer EXCEPT !.body[1] = CopyIn(b, slot)] ELSE buffer
          /\ \/ Verified(buffer') /\ Loaded
             \/ ~Verified(buffer') /\ slot' = slot + 1 /\ UNCHANGED <<pc, block>>
      BY <1>4, <1>7, <2>3, <2>5 DEF RawSlot
    <3>2. buffer'.head = buffer.head /\ (b.reads => buffer'.body[1] = CopyIn(b, slot))
      <4> HIDE DEF b
      <4> QED
        BY <2>2, <3>1, BodyHas
    <3>3. CASE Verified(buffer') /\ Loaded
      <4>1. CASE b.reads
        <5>1. SlotCopy(block, buffer.head)
          BY <1>4, <2>2, <2>3, <2>5, <3>2, <3>3, <4>1 DEF SlotCopy, Verified
        <5>2. CopyAt(block, buffer'.head)
          BY <1>2, <3>2, <5>1 DEF CopyAt
        <5> QED
          BY <1>1, <3>3, <5>2, FoundLoaded
      <4>2. CASE ~b.reads
        BY <1>1, <1>2, <1>3, <1>4, <2>2, <3>3, <4>2, FoundLoaded
      <4> QED
        BY <4>1, <4>2
    <3>4. CASE ~Verified(buffer') /\ slot' = slot + 1 /\ UNCHANGED <<pc, block>>
      <4>1. buffer'.head = buffer.head /\ pc' = "slot"
        BY <1>7, <3>2, <3>4 DEF RawSlot
      <4>2. ASSUME b.reads, NEW s \in 1 .. slot' - 1 PROVE CopyIn(b, s) # buffer.head
        <5>1. s \in 1 .. slot - 1 \/ s = slot
          BY <1>4, <3>4
        <5>2. CopyIn(b, slot) # buffer.head
          <6>1. 1 .. Length[buffer.head] = {1} /\ buffer.head # Nil
            BY <1>1, <2>2
          <6> QED
            BY <3>2, <3>4, <4>2, <6>1 DEF Verified
        <5> QED
          BY <2>2, <4>2, <5>1, <5>2
      <4>3. BlockAt(block)' = b /\ LastBlock' = LastBlock /\ On("rawnand")'
        BY <1>1, <1>2, <3>4 DEF BlockAt, LastBlock, On
      <4>4. AtSlot'
        BY <2>2, <3>4, <4>1, <4>2, <4>3 DEF AtSlot, HeadOf, CopyIn
      <4> QED
        BY <1>1, <1>2, <3>4, <4>1, <4>4, FoundHere
    <3> QED
      BY <3>1, <3>3, <3>4
  <2> QED
    BY <1>4, <2>3, <2>4, <2>5
<1>8. CASE RawPart
  <2>1. AtFlashPart /\ pc = "part"
    BY <1>3, <1>8 DEF RawPart, Found, SearchInv
  <2>2. CASE CheckSum
    <3>1. CASE Verified(buffer)
      <4>1. Loaded /\ UNCHANGED buffer
        BY <2>2, <3>1 DEF CheckSum
      <4>2. CASE \A j \in block .. at - 1 : ~BlockAt(j).bad => BlockAt(j).reads
        <5>1. CopyAt(block, buffer.head)
          BY <2>1, <2>2, <3>1, <4>2, SumTells DEF CheckSum
        <5> QED
          BY <1>1, <4>1, <5>1, FoundLoaded
      <4>3. CASE ~\A j \in block .. at - 1 : ~BlockAt(j).bad => BlockAt(j).reads
        <5>1. PICK j \in block .. at - 1 : ~BlockAt(j).reads
          BY <4>3
        <5>2. j \in 1 .. NextBlock - 1
          BY <1>2, <1>3, <1>4, <2>1 DEF AtFlashPart
        <5> QED
          BY <1>1, <1>2, <4>1, <5>1, <5>2, FoundLoaded
      <4> QED
        BY <4>2, <4>3
    <3>2. CASE ~Verified(buffer)
      <4>1. NextCopy
        BY <2>2, <3>2 DEF CheckSum
      <4>2. \A v \in Version : ~CopyAt(block, v)
        BY <2>1, <2>2, <3>2, SumMisses DEF CheckSum
      <4> QED
        BY <1>1, <1>2, <1>3, <4>1, <4>2, FoundNext
    <3> QED
      BY <3>1, <3>2
  <2>3. CASE ~Complete /\ at > LastBlock /\ Fel("lack") /\ UNCHANGED buffer
    <3>1. \A i \in Places, v \in Version : CopyAt(i, v) => Length[v] < Length[buffer'.head]
      BY <1>2, <2>1, <2>3, LackTells
    <3> QED
      BY <1>1, <2>3, <3>1, FoundFel
  <2>4. CASE /\ ~Complete /\ at <= LastBlock
             /\ \/ SkipBad
                \/ ~BlockAt(at).bad /\ BlockAt(at).reads /\ Store(BlockAt(at))
                \/ /\ ~BlockAt(at).bad /\ ~BlockAt(at).reads
                   /\ at' = at + 1 /\ part' = part + 1
                   /\ UNCHANGED <<pc, block, slot, buffer, failed>>
    <3>1. AtFlashPart' /\ UNCHANGED <<pc, block>>
      <4>1. CASE SkipBad
        BY <1>1, <1>3, <2>1, <2>4, <4>1, PartsGoOn DEF SkipBad
      <4>2. CASE ~BlockAt(at).bad /\ BlockAt(at).reads /\ Store(BlockAt(at))
        <5>1. /\ buffer' = [buffer EXCEPT !.body[part] = Fragment(BlockAt(at), part)]
              /\ at' = at + 1 /\ part' = part + 1 /\ UNCHANGED <<pc, block>>
          BY <4>2 DEF Store
        <5>2. /\ buffer'.head = buffer.head /\ buffer'.body[part] = Fragment(BlockAt(at), part)
              /\ \A p \in 1 .. part - 1 : buffer'.body[p] = buffer.body[p]
          BY <2>1, <2>4, <5>1, StoreTells
        <5> QED
          BY <1>1, <1>3, <2>1, <2>4, <4>2, <5>1, <5>2, PartsGoOn
      <4>3. CASE /\ ~BlockAt(at).bad /\ ~BlockAt(at).reads
                 /\ at' = at + 1 /\ part' = part + 1
                 /\ UNCHANGED <<pc, block, slot, buffer, failed>>
        BY <1>1, <1>3, <2>1, <2>4, <4>3, PartsGoOn
      <4> QED
        BY <2>4, <4>1, <4>2, <4>3
    <3> QED
      BY <1>1, <1>2, <2>1, <3>1, FoundHere
  <2> QED
    BY <1>8, <2>2, <2>3, <2>4 DEF RawPart
<1> QED
  BY <1>6, <1>7, <1>8

LEMMA SpiFound == Typed /\ Found /\ (SpiHead \/ SpiPart) => Found'
<1> SUFFICES ASSUME Typed, Found, SpiHead \/ SpiPart PROVE Found'
  OBVIOUS
<1>1. UNCHANGED store /\ \A v \in Version : v # Nil
  BY Boot0Assumption DEF SpiHead, SpiPart, Searching
<1>2. pc \in {"search", "part"} /\ Passed /\ On("spinand")
  BY DEF SpiHead, SpiPart, Found, SearchInv
<1>3. ~On("spinor") /\ ~On("rawnand") /\ LastBlock = NextBlock /\ Places = 1 .. LastBlock
  BY <1>2, PlaceTypes DEF LastBlock, On
<1>4. block \in Nat /\ block >= 1 /\ at \in Nat /\ LastBlock \in Int
  BY PlaceTypes
<1> DEFINE b == BlockAt(block)
<1>5. ASSUME block <= LastBlock, NEW v \in Version, CopyAt(block, v)
      PROVE  ~b.bad /\ b.reads /\ HeadOf(b) = v
  BY <1>2, <1>5, FlashHead
<1>6. CASE SpiHead
  <2>1. CASE block > LastBlock /\ Fel("none left")
    <3>1. \A i \in Places : i < block
      <4>1. block > LastBlock
        BY <2>1, Zenon
      <4>2. \A n \in Int, k \in Nat : k > n => \A i \in 1 .. n : i < k
        OBVIOUS
      <4>3. \A i \in 1 .. LastBlock : i < block
        BY <1>4, <4>1, <4>2, Zenon
      <4> QED
        BY <1>3, <4>3, Zenon
    <3>2. \A i \in Places, v \in Version : ~CopyAt(i, v)
      BY <1>2, <3>1 DEF Passed
    <3> QED
      BY <1>1, <2>1, <3>2, FoundFel
  <2>2. CASE block <= LastBlock /\ (b.bad \/ ~b.reads) /\ NextCopy
    BY <1>1, <1>2, <1>3, <1>5, <2>2, FoundNext
  <2>3. CASE /\ block <= LastBlock /\ ~b.bad /\ b.reads
             /\ buffer' = [buffer EXCEPT !.head = HeadOf(b)]
             /\ \/ Astray
                \/ HeadOf(b) = Nil /\ NextCopy
                \/ HeadOf(b) # Nil /\ StartParts
    <3>1. CASE HeadOf(b) = Nil /\ NextCopy
      BY <1>1, <1>2, <1>3, <1>5, <2>3, <3>1, FoundNext
    <3>2. CASE HeadOf(b) # Nil /\ StartParts
      <4>1. HeadOf(b) \in Version /\ StartParts
        BY <2>3, <3>2, PlaceTypes, Stored
      <4>2. buffer'.head = HeadOf(b)
        <5>1. buffer = [head |-> buffer.head, body |-> buffer.body]
          BY DEF Typed, PackageInv, BufferType
        <5> HIDE DEF b
        <5> QED
          BY <2>3, <5>1
      <4>3. AtFlashPart'
        BY <1>1, <1>2, <1>3, <2>3, <4>1, <4>2, PartsBegin
      <4> QED
        BY <1>1, <1>2, <4>1, <4>3, FoundHere DEF StartParts, Goto
    <3>3. CASE Astray
      BY <3>3, FoundAstray
    <3> QED
      BY <2>3, <3>1, <3>2, <3>3
  <2> QED
    BY <1>6, <2>1, <2>2, <2>3, Zenon DEF SpiHead
<1>7. CASE SpiPart
  <2>1. AtFlashPart /\ pc = "part"
    BY <1>3, <1>7 DEF SpiPart, Found, SearchInv
  <2>2. CASE CheckSum /\ Verified(buffer)
    <3>1. Loaded /\ UNCHANGED buffer
      BY <2>2 DEF CheckSum
    <3>2. CopyAt(block, buffer.head)
      BY <1>3, <2>1, <2>2, SumTells DEF CheckSum
    <3> QED
      BY <1>1, <3>1, <3>2, FoundLoaded
  <2>3. CASE CheckSum /\ ~Verified(buffer)
    <3>1. NextCopy
      BY <2>3 DEF CheckSum
    <3>2. \A v \in Version : ~CopyAt(block, v)
      BY <2>1, <2>3, SumMisses DEF CheckSum
    <3> QED
      BY <1>1, <1>2, <1>3, <3>1, <3>2, FoundNext
  <2>4. CASE ~Complete /\ SkipBad
    <3>1. AtFlashPart' /\ UNCHANGED <<pc, block>>
      BY <1>1, <1>3, <2>1, <2>4, PartsGoOn DEF SkipBad
    <3> QED
      BY <1>1, <1>2, <2>1, <3>1, FoundHere
  <2>5. CASE ~Complete /\ ~BlockAt(at).bad /\ BlockAt(at).reads /\ Store(BlockAt(at))
    <3>1. /\ buffer' = [buffer EXCEPT !.body[part] = Fragment(BlockAt(at), part)]
          /\ at' = at + 1 /\ part' = part + 1 /\ UNCHANGED <<pc, block>>
      BY <2>5 DEF Store
    <3>2. /\ buffer'.head = buffer.head /\ buffer'.body[part] = Fragment(BlockAt(at), part)
          /\ \A p \in 1 .. part - 1 : buffer'.body[p] = buffer.body[p]
      BY <2>1, <2>5, <3>1, StoreTells
    <3>3. AtFlashPart'
      BY <1>1, <1>3, <2>1, <2>5, <3>1, <3>2, PartsGoOn
    <3> QED
      BY <1>1, <1>2, <2>1, <3>1, <3>3, FoundHere
  <2>6. CASE ~Complete /\ ~BlockAt(at).bad /\ ~BlockAt(at).reads /\ NextCopy
    BY <1>1, <1>2, <1>3, <2>1, <2>6, UnreadMisses, FoundNext
  <2> QED
    BY <1>7, <2>2, <2>3, <2>4, <2>5, <2>6, Zenon DEF SpiPart
<1> QED
  BY <1>6, <1>7

LEMMA NorFound == Typed /\ Found /\ (NorHead \/ NorRest) => Found'
<1> SUFFICES ASSUME Typed, Found, NorHead \/ NorRest PROVE Found'
  OBVIOUS
<1>1. UNCHANGED store /\ On("spinor") /\ pc \in {"search", "part"} /\ \A v \in Version : v # Nil
  BY Boot0Assumption DEF NorHead, NorRest, Searching
<1>2. /\ ~On("rawnand") /\ ~On("spinand") /\ Places = {1}
      /\ \A i, v : CopyAt(i, v) <=> PlainCopy(i, v)
  BY <1>1, PlaceTypes DEF On, CopyAt
<1>3. Passed /\ block = 1
  BY <1>1, <1>2 DEF Found, SearchInv, AtNorPart, AtFlashPart
<1> DEFINE b == BlockAt(1)
<1>4. ASSUME NEW v \in Version, CopyAt(1, v) PROVE b.reads /\ HeadOf(b) = v
  BY <1>2, <1>4, PlainCopyHead
<1>5. CASE NorHead
  <2>1. CASE ~b.reads /\ Fel("read")
    BY <1>1, <1>2, <1>4, <2>1, FoundFel
  <2>2. CASE b.reads /\ HeadOf(b) = Nil /\ Fel("none left")
    BY <1>1, <1>2, <1>4, <2>2, FoundFel
  <2>4. CASE Loaded
    BY <1>1, <2>4, FoundLoaded
  <2>3. CASE /\ b.reads /\ HeadOf(b) # Nil /\ StartParts
             /\ buffer' = [buffer EXCEPT !.head = IF EmptyHead(b) THEN b.ver ELSE HeadOf(b)]
    <3>0. buffer' = [buffer EXCEPT !.head = HeadOf(b)]
      BY <2>3 DEF EmptyHead, HeadOf
    <3>1. HeadOf(b) \in Version
      BY <2>3, PlaceTypes, Stored
    <3>2. buffer'.head = HeadOf(b)
      <4>1. buffer = [head |-> buffer.head, body |-> buffer.body]
        BY DEF Typed, PackageInv, BufferType
      <4> HIDE DEF b
      <4> QED
        BY <3>0, <4>1
    <3>3. BlockAt(1)' = b /\ pc' = "part" /\ UNCHANGED block
      BY <1>1, <2>3 DEF BlockAt, StartParts, Goto
    <3>4. AtNorPart'
      BY <1>3, <2>3, <3>1, <3>2, <3>3 DEF AtNorPart, HeadOf
    <3> QED
      BY <1>1, <1>3, <3>3, <3>4, FoundHere
  <2> QED
    BY <1>5, <2>1, <2>2, <2>3, <2>4, Zenon DEF NorHead
<1>6. CASE NorRest
  <2>1. AtNorPart
    BY <1>1, <1>2, <1>6 DEF NorRest, Found, SearchInv, AtFlashPart
  <2>2. CASE Fel("read") /\ \E p \in 1 .. Length[buffer.head] : ~BlockAt(p).reads
    <3>1. ASSUME NEW v \in Version, CopyAt(1, v) PROVE FALSE
      <4>1. v = buffer.head
        BY <1>4, <2>1, <3>1 DEF AtNorPart
      <4>2. \A p \in 1 .. Length[v] : BlockAt(1 + p - 1).reads
        BY <1>2, <3>1 DEF PlainCopy
      <4>3. \A p \in 1 .. Length[v] : 1 + p - 1 = p
        BY PlaceTypes
      <4> QED
        BY <2>2, <4>1, <4>2, <4>3
    <3> QED
      BY <1>1, <1>2, <1>3, <2>2, <3>1, FoundFel
  <2>3. CASE Loaded
    BY <1>1, <2>3, FoundLoaded
  <2> QED
    BY <1>6, <2>2, <2>3 DEF NorRest
<1> QED
  BY <1>5, <1>6

LEMMA FoundStep == Typed /\ Found /\ [Next]_vars => Found'
<1> SUFFICES ASSUME Typed, Found, [Next]_vars PROVE Found'
  OBVIOUS
<1>1. CASE BoardError \/ OpenError
  <2>1. UNCHANGED store /\ (Fel("board") \/ Fel("open"))
    BY <1>1 DEF BoardError, OpenError, Searching
  <2> QED
    BY <2>1, FoundFel
<1>2. CASE Board
  <2>1. pc' = "search" /\ block' = 1 /\ UNCHANGED store
    BY <1>2 DEF Board, Goto, searchVars, Found, SearchInv
  <2>2. Passed'
    BY <2>1, MediumStays, PlaceTypes DEF Passed
  <2> QED
    BY <2>1, <2>2 DEF Found, SearchInv, BootsWhatIsStored, IntactCopyFound, HasPackage
<1>3. CASE SdmmcHead \/ SdmmcRest
  BY <1>3, SdmmcFound
<1>4. CASE RawHead \/ RawSlot \/ RawPart
  BY <1>4, RawFound
<1>5. CASE SpiHead \/ SpiPart
  BY <1>5, SpiFound
<1>6. CASE NorHead \/ NorRest
  BY <1>6, NorFound
<1>7. CASE CopyItem \/ ItemsDone \/ Release \/ Unpacked
  BY <1>7, FoundAfter DEF CopyItem, ItemsDone, Release, Unpacked, Loading, searchVars, Goto, HasPackage
<1>8. CASE GzInit \/ LzmaInit
  BY <1>8, FoundAfter DEF GzInit, LzmaInit, Unpack, GiveUp, Loading, searchVars, Goto, HasPackage
<1>9. CASE Inflate \/ LzmaDecode \/ Lz4
  BY <1>9, FoundAfter DEF Inflate, LzmaDecode, Lz4, Decoded, Loading, searchVars, Goto, HasPackage
<1>10. CASE Jump
  BY <1>10, FoundAfter DEF Jump, searchVars, Goto, HasPackage
<1>11. CASE UNCHANGED vars
  <2>1. UNCHANGED <<pc, store, block, at, part, slot, buffer, failed>>
    BY <1>11 DEF vars, searchVars
  <2>2. BootsWhatIsStored' /\ IntactCopyFound'
    BY <2>1, MediumStays DEF Found, BootsWhatIsStored, IntactCopyFound, HasPackage
  <2>3. SearchInv'
    <3>1. Passed' = Passed
      BY <2>1, MediumStays DEF Passed
    <3>2. AtRest' = AtRest /\ AtNorPart' = AtNorPart /\ AtSlot' = AtSlot /\ AtFlashPart' = AtFlashPart
      BY <2>1 DEF AtRest, AtNorPart, AtSlot, AtFlashPart, PartRead, Complete, LastBlock, Rank, Good,
                  BlockAt, On, HeadOf, Fragment, CopyIn
    <3> QED
      BY <2>1, <3>1, <3>2, Zenon DEF Found, SearchInv, On
  <2> QED
    BY <2>2, <2>3 DEF Found
<1> QED
  BY <1>1, <1>2, <1>3, <1>4, <1>5, <1>6, <1>7, <1>8, <1>9, <1>10, <1>11 DEF Next

LEMMA FoundAlways == Spec => []Found
<1>1. Init => Found
  BY DEF Init, Found, SearchInv, BootsWhatIsStored, IntactCopyFound, HasPackage
<1>2. Typed /\ Found /\ [Next]_vars => Found'
  BY FoundStep
<1> QED
  BY <1>1, <1>2, TypedAlways, PTL DEF Spec

\* What goes on was all read from where the search stands, and nothing of it is
\* from before the reset; on raw NAND only if every block reads.
THEOREM BootsStored == Spec => []BootsWhatIsStored
  BY FoundAlways, PTL DEF Found

\* The search passes no copy that is intact, on any medium.
THEOREM CopiesFound == Spec => []IntactCopyFound
  BY FoundAlways, PTL DEF Found
=============================================================================
