---------------------------- MODULE SbiFifoProofs -----------------------------
(***************************************************************************)
(* Proofs about SbiFifo for every set of harts, entries and callbacks, and *)
(* every size of the ring.                                                 *)
(***************************************************************************)
EXTENDS SbiFifo, SequenceTheorems, TLAPS

\* A hart in an operation is inside the code of the call it made.
InItsCall ==
  \A p \in Proc :
    /\ pc[p] # "idle" => call[p] \in Call
    /\ pc[p] \in {"enqueue", "enqueue_count"} => call[p].op = "enqueue"
    /\ pc[p] = "update" => call[p].op = "update"

\* What the counters allow between the stores of an operation.
Counters ==
  /\ \A p \in Proc :
       /\ pc[p] \in {"enqueue_count", "dequeue_tail"} => avail < NumEntries
       /\ pc[p] = "dequeue_count" => avail # 0
       /\ pc[p] \in {"reset_tail", "reset_memory"} => avail = 0
  /\ tail = NumEntries => \E p \in Proc : pc[p] = "dequeue_wrap"

\* The entries that count, and the one that is about to.
Written ==
  /\ LiveSlotsWritten
  /\ \A p \in Proc : pc[p] = "enqueue_count" => queue[Index(avail)] \in Data

\* A step of hart p, which is inside, to label l, with what it owes the invariant.
Moves(p, l) ==
  /\ pc[p] \in Inside /\ l \in Inside /\ pc' = [pc EXCEPT ![p] = l]
  /\ lock' = lock /\ call' = call
  /\ queue' \in [Slot -> Data \cup {Zero}]
  /\ avail' \in 0 .. NumEntries /\ tail' \in 0 .. NumEntries
  /\ i' \in [Proc -> 0 .. NumEntries] /\ result' \in [Proc -> Answers]
  /\ l \in {"enqueue", "update"} => pc[p] = l
  /\ l = "enqueue_count" => pc[p] = "enqueue" /\ queue'[Index(avail)'] \in Data
  /\ l \in {"enqueue_count", "dequeue_tail"} => avail' < NumEntries
  /\ l = "dequeue_count" => avail' # 0
  /\ l \in {"reset_tail", "reset_memory"} => avail' = 0
  /\ tail' = NumEntries => l = "dequeue_wrap"

RingInv == TypeOK /\ MutualExclusion /\ InItsCall /\ Counters /\ Written

-----------------------------------------------------------------------------
(* The argument: what is inside is alone, so between two stores of one     *)
(* operation nobody else sees or moves the counters.                       *)

LEMMA RingInvariant == Spec => []RingInv
<1>1. Init => RingInv
  BY RingAssumption DEF Init, RingInv, TypeOK, MutualExclusion, InItsCall, Counters, Written,
     LiveSlotsWritten, Slot, Outside, Inside, Answers
<1>2. RingInv /\ [Next]_vars => RingInv'
  <2> SUFFICES ASSUME TypeOK, MutualExclusion, InItsCall, Counters, Written, [Next]_vars
               PROVE  RingInv'
    BY DEF RingInv
  <2> USE RingAssumption DEF At, Goto, Finish
  <2>0. /\ queue \in [Slot -> Data \cup {Zero}] /\ avail \in 0 .. NumEntries /\ tail \in 0 .. NumEntries
        /\ i \in [Proc -> 0 .. NumEntries] /\ result \in [Proc -> Answers]
    BY DEF TypeOK
  <2>1. \A c \in Call : c.op \in {"enqueue", "update", "dequeue", "reset", "avail"}
    BY DEF Call
  <2>2. \A c \in Call : c.op \in {"enqueue", "update"} => c.arg \in Data
    BY DEF Call
  <2>3. \A n \in Nat : tail < NumEntries /\ n < NumEntries => Index(n) \in Slot
    BY DEF TypeOK, Index, Slot
  <2>4. CASE UNCHANGED vars
    BY <2>4 DEF RingInv, vars, TypeOK, MutualExclusion, InItsCall, Counters, Written, LiveSlotsWritten,
       Oldest, Index
  <2>5. ASSUME NEW p \in Proc, Begin(p) \/ LockCheck(p)
        PROVE  RingInv'
    <3>1. UNCHANGED <<lock, queue, avail, tail, i, result>>
      BY <2>5 DEF Begin, LockCheck
    <3>2. /\ pc[p] \in Outside /\ \E l \in {"lock_check", "trylock"} : pc' = [pc EXCEPT ![p] = l]
          /\ call' \in [Proc -> Call \cup {NoCall}] /\ call'[p] \in Call
          /\ \A o \in Proc : o # p => call'[o] = call[o]
      BY <2>5 DEF Begin, LockCheck, TypeOK, InItsCall, Outside
    <3>3. TypeOK'
      BY <3>1, <3>2 DEF TypeOK, Outside
    <3>4. /\ pc[p] \in Outside /\ pc'[p] \in {"lock_check", "trylock"}
          /\ \A o \in Proc : o # p => pc'[o] = pc[o]
      BY <3>2 DEF TypeOK
    <3>5. MutualExclusion'
      BY <3>1, <3>4 DEF MutualExclusion, Inside
    <3>6. InItsCall'
      BY <3>1, <3>2, <3>4 DEF InItsCall
    <3>7. Counters'
      BY <3>1, <3>4 DEF Counters, Outside
    <3>8. Oldest' = Oldest
      BY <3>4 DEF Oldest, Outside
    <3>9. Written'
      BY <3>1, <3>4, <3>8 DEF Written, LiveSlotsWritten, Index, Outside
    <3> QED
      BY <3>3, <3>5, <3>6, <3>7, <3>9 DEF RingInv
  <2>6. ASSUME NEW p \in Proc, TryLock(p)
        PROVE  RingInv'
    <3>1. call[p].op \in {"enqueue", "update", "dequeue", "reset", "avail"}
      BY <2>1, <2>6 DEF TryLock, InItsCall
    <3>2. /\ pc[p] = "trylock" /\ lock' = 1
          /\ pc' = [pc EXCEPT ![p] = IF lock = 0 THEN call[p].op ELSE "lock_check"]
          /\ UNCHANGED <<queue, avail, tail, call, i, result>>
      BY <2>6 DEF TryLock
    <3>3. TypeOK'
      BY <3>1, <3>2 DEF TypeOK, Outside, Inside
    <3>4. MutualExclusion'
      BY <3>1, <3>2 DEF TypeOK, MutualExclusion, Inside
    <3>5. InItsCall'
      BY <3>1, <3>2 DEF TypeOK, InItsCall
    <3>6. Counters'
      BY <3>1, <3>2 DEF TypeOK, Counters
    <3>7. Oldest' = Oldest
      BY <3>1, <3>2 DEF TypeOK, Oldest
    <3>8. Written'
      BY <3>1, <3>2, <3>7 DEF TypeOK, Written, LiveSlotsWritten, Index
    <3> QED
      BY <3>3, <3>4, <3>5, <3>6, <3>8 DEF RingInv
  <2>7. ASSUME NEW p \in Proc, pc[p] \in Inside
        PROVE  /\ lock = 1 /\ \A o \in Proc : o # p => pc[o] \in Outside
               /\ Oldest = (IF pc[p] = "dequeue_tail" THEN 1 ELSE 0)
               /\ pc[p] # "dequeue_wrap" => tail < NumEntries
    BY <2>7 DEF MutualExclusion, TypeOK, Counters, Outside, Inside, Oldest
  <2>8. ASSUME NEW p \in Proc, NEW l, Moves(p, l)
        PROVE  /\ Oldest' = IF l = "dequeue_tail" THEN 1 ELSE 0
               /\ LiveSlotsWritten' => RingInv'
    <3>1. /\ pc \in [Proc -> Outside \cup Inside] /\ lock = 1
          /\ \A o \in Proc : o # p => pc[o] \in Outside
      BY <2>7, <2>8 DEF Moves, TypeOK
    <3>2. /\ pc'[p] = l /\ \A o \in Proc : o # p => pc'[o] = pc[o] /\ pc'[o] \in Outside
      BY <2>8, <3>1 DEF Moves
    <3>3. TypeOK'
      BY <2>8, <3>1 DEF Moves, TypeOK
    <3>4. MutualExclusion'
      BY <2>8, <3>1, <3>2 DEF Moves, MutualExclusion, Outside, Inside
    <3>5. InItsCall'
      BY <2>8, <3>2 DEF Moves, InItsCall, Outside, Inside
    <3>6. Counters'
      BY <2>8, <3>2 DEF Moves, Counters, Outside
    <3>7. Oldest' = IF l = "dequeue_tail" THEN 1 ELSE 0
      BY <3>2 DEF Oldest, Outside
    <3>8. LiveSlotsWritten' => Written'
      BY <2>8, <3>2 DEF Moves, Written, Outside
    <3> QED
      BY <3>3, <3>4, <3>5, <3>6, <3>7, <3>8 DEF RingInv
  \* What is read before a step.
  <2>9. ASSUME NEW n \in 1 .. avail PROVE queue[Index(n - 1 + Oldest)] \in Data
    BY <2>9 DEF Written, LiveSlotsWritten
  <2>10. ASSUME NEW p \in Proc, EnqueueFull(p) \/ DequeueEmpty(p) \/ UpdateEnd(p) \/ ReadAvail(p)
         PROVE  RingInv'
    <3>1. /\ pc[p] \in Inside \ {"dequeue_tail", "dequeue_wrap"}
          /\ pc' = [pc EXCEPT ![p] = "unlock"]
          /\ UNCHANGED <<lock, queue, avail, tail, call, i>>
      BY <2>10 DEF EnqueueFull, DequeueEmpty, UpdateEnd, ReadAvail, Inside
    <3>2. result' \in [Proc -> Answers]
      BY <2>10 DEF EnqueueFull, DequeueEmpty, UpdateEnd, ReadAvail, TypeOK, Answers
    <3>3. tail < NumEntries /\ Oldest = 0
      BY <2>7, <3>1
    <3>4. Oldest' = 0 /\ (LiveSlotsWritten' => RingInv')
      <4>1. Moves(p, "unlock")
        BY <2>0, <3>1, <3>2, <3>3 DEF Moves, Inside
      <4> QED
        BY <2>8, <4>1
    <3>5. LiveSlotsWritten'
      BY <3>1, <3>3, <3>4 DEF Written, LiveSlotsWritten, Index
    <3> QED
      BY <3>4, <3>5
  <2>11. ASSUME NEW p \in Proc, EnqueueCopy(p)
         PROVE  RingInv'
    <3>1. /\ queue' = [queue EXCEPT ![Index(avail)] = call[p].arg]
          /\ pc[p] = "enqueue" /\ pc' = [pc EXCEPT ![p] = "enqueue_count"]
          /\ UNCHANGED <<lock, avail, tail, call, i, result>> /\ avail < NumEntries
      BY <2>11 DEF EnqueueCopy, TypeOK
    <3>2. tail \in Slot /\ tail < NumEntries /\ Oldest = 0
      BY <2>7, <3>1 DEF TypeOK, Slot, Inside
    <3>3. call[p].arg \in Data
      BY <2>2, <3>1 DEF InItsCall
    <3>4. queue' \in [Slot -> Data \cup {Zero}]
      BY <3>1, <3>3 DEF TypeOK
    <3>5. Index(avail)' = Index(avail) /\ Index(avail) \in Slot
      <4>1. avail \in Nat /\ Index(avail) \in Slot
        BY <2>3, <3>1, <3>2 DEF TypeOK
      <4> QED
        BY <3>1, <4>1 DEF Index
    <3>6. queue'[Index(avail)'] \in Data
      BY <3>1, <3>3, <3>5 DEF TypeOK
    <3>7. Oldest' = 0 /\ (LiveSlotsWritten' => RingInv')
      <4>1. Moves(p, "enqueue_count")
        BY <2>0, <3>1, <3>2, <3>4, <3>6 DEF Moves, Inside
      <4> QED
        BY <2>8, <4>1
    <3>8. ASSUME NEW n \in 1 .. avail' PROVE queue'[Index(n - 1 + Oldest)'] \in Data
      <4>1. Index(n - 1 + Oldest)' = Index(n - 1 + Oldest) /\ Index(n - 1 + Oldest) \in Slot
        BY <2>3, <3>1, <3>2, <3>7 DEF TypeOK, Index
      <4>2. queue[Index(n - 1 + Oldest)] \in Data
        BY <2>9, <3>1
      <4> QED
        BY <3>1, <3>3, <4>1, <4>2 DEF TypeOK
    <3> QED
      BY <3>7, <3>8 DEF LiveSlotsWritten
  <2>12. ASSUME NEW p \in Proc, EnqueueCount(p)
         PROVE  RingInv'
    <3>1. /\ avail' = avail + 1
          /\ pc[p] = "enqueue_count" /\ pc' = [pc EXCEPT ![p] = "unlock"]
          /\ result' = [result EXCEPT ![p] = Code("ok")]
          /\ UNCHANGED <<lock, queue, tail, call, i>>
      BY <2>12 DEF EnqueueCount
    <3>2. tail < NumEntries /\ Oldest = 0 /\ avail < NumEntries
      BY <2>7, <3>1 DEF Counters, Inside
    <3>3. result' \in [Proc -> Answers]
      BY <3>1 DEF TypeOK, Answers
    <3>4. Oldest' = 0 /\ (LiveSlotsWritten' => RingInv')
      <4>1. Moves(p, "unlock")
        BY <2>0, <3>1, <3>2, <3>3 DEF Moves, Inside
      <4> QED
        BY <2>8, <4>1
    <3>5. ASSUME NEW n \in 1 .. avail' PROVE queue'[Index(n - 1 + Oldest)'] \in Data
      <4>1. Index(n - 1 + Oldest)' = Index(n - 1 + Oldest)
        BY <3>1, <3>2, <3>4 DEF Index
      <4>2. CASE n = avail + 1
        <5>1. n - 1 + Oldest = avail
          BY <3>2, <4>2 DEF TypeOK
        <5> QED
          BY <3>1, <4>1, <5>1 DEF Written
      <4>3. CASE n # avail + 1
        BY <2>9, <3>1, <4>1, <4>3 DEF TypeOK
      <4> QED
        BY <4>2, <4>3
    <3> QED
      BY <3>4, <3>5 DEF LiveSlotsWritten
  <2>13. ASSUME NEW p \in Proc, DequeueCopy(p)
         PROVE  RingInv'
    <3>1. /\ result' = [result EXCEPT ![p] = Value(queue[tail])] /\ avail # 0
          /\ pc[p] = "dequeue" /\ pc' = [pc EXCEPT ![p] = "dequeue_count"]
          /\ UNCHANGED <<lock, queue, avail, tail, call, i>>
      BY <2>13 DEF DequeueCopy
    <3>2. tail \in Slot /\ tail < NumEntries /\ Oldest = 0
      BY <2>7, <3>1 DEF TypeOK, Slot, Inside
    <3>3. result' \in [Proc -> Answers]
      BY <3>1, <3>2 DEF TypeOK, Answers
    <3>4. Oldest' = 0 /\ (LiveSlotsWritten' => RingInv')
      <4>1. Moves(p, "dequeue_count")
        BY <2>0, <3>1, <3>2, <3>3 DEF Moves, Inside
      <4> QED
        BY <2>8, <4>1
    <3> QED
      BY <3>1, <3>2, <3>4 DEF Written, LiveSlotsWritten, Index
  <2>14. ASSUME NEW p \in Proc, DequeueCount(p)
         PROVE  RingInv'
    <3>1. /\ avail' = avail - 1 /\ avail # 0
          /\ pc[p] = "dequeue_count" /\ pc' = [pc EXCEPT ![p] = "dequeue_tail"]
          /\ UNCHANGED <<lock, queue, tail, call, i, result>>
      BY <2>14 DEF DequeueCount, Counters
    <3>2. tail < NumEntries /\ Oldest = 0
      BY <2>7, <3>1 DEF Inside
    <3>3. Oldest' = 1 /\ (LiveSlotsWritten' => RingInv')
      <4>1. Moves(p, "dequeue_tail")
        BY <2>0, <3>1, <3>2 DEF Moves, Inside
      <4> QED
        BY <2>8, <4>1
    <3>4. ASSUME NEW n \in 1 .. avail' PROVE queue'[Index(n - 1 + Oldest)'] \in Data
      <4>1. n + 1 \in 1 .. avail /\ Index(n - 1 + Oldest)' = Index((n + 1) - 1 + Oldest)
        BY <3>1, <3>2, <3>3 DEF TypeOK, Index
      <4> QED
        BY <2>9, <3>1, <4>1
    <3> QED
      BY <3>3, <3>4 DEF LiveSlotsWritten
  <2>15. ASSUME NEW p \in Proc, DequeueTail(p)
         PROVE  RingInv'
    <3>1. /\ tail' = tail + 1
          /\ pc[p] = "dequeue_tail" /\ pc' = [pc EXCEPT ![p] = "dequeue_wrap"]
          /\ UNCHANGED <<lock, queue, avail, call, i, result>>
      BY <2>15 DEF DequeueTail
    <3>2. tail < NumEntries /\ Oldest = 1 /\ avail < NumEntries
      BY <2>7, <3>1 DEF Counters, Inside
    <3>3. Oldest' = 0 /\ (LiveSlotsWritten' => RingInv')
      <4>1. Moves(p, "dequeue_wrap")
        BY <2>0, <3>1, <3>2 DEF Moves, Inside
      <4> QED
        BY <2>8, <4>1
    <3>4. ASSUME NEW n \in 1 .. avail' PROVE queue'[Index(n - 1 + Oldest)'] \in Data
      <4>1. n \in 1 .. avail /\ Index(n - 1 + Oldest)' = Index(n - 1 + Oldest)
        BY <3>1, <3>2, <3>3 DEF TypeOK, Index
      <4> QED
        BY <2>9, <3>1, <4>1
    <3> QED
      BY <3>3, <3>4 DEF LiveSlotsWritten
  <2>16. ASSUME NEW p \in Proc, DequeueWrap(p)
         PROVE  RingInv'
    <3>1. /\ tail' = (IF tail >= NumEntries THEN 0 ELSE tail)
          /\ pc[p] = "dequeue_wrap" /\ pc' = [pc EXCEPT ![p] = "unlock"]
          /\ UNCHANGED <<lock, queue, avail, call, i, result>>
      BY <2>16 DEF DequeueWrap
    <3>2. Oldest = 0 /\ tail' < NumEntries /\ tail' \in 0 .. NumEntries
      BY <2>7, <3>1 DEF TypeOK, Inside
    <3>3. Oldest' = 0 /\ (LiveSlotsWritten' => RingInv')
      <4>1. Moves(p, "unlock")
        BY <2>0, <3>1, <3>2 DEF Moves, Inside
      <4> QED
        BY <2>8, <4>1
    <3>4. ASSUME NEW n \in 1 .. avail' PROVE queue'[Index(n - 1 + Oldest)'] \in Data
      <4>1. n \in 1 .. avail /\ Index(n - 1 + Oldest)' = Index(n - 1 + Oldest)
        BY <3>1, <3>2, <3>3 DEF TypeOK, Index
      <4> QED
        BY <2>9, <3>1, <4>1
    <3> QED
      BY <3>3, <3>4 DEF LiveSlotsWritten
  <2>17. ASSUME NEW p \in Proc, UpdateEntry(p)
         PROVE  RingInv'
    <3> DEFINE s == Index(i[p])
               ret == Callback(call[p].arg, queue[s])
    <3>1. pc[p] = "update" /\ i[p] < avail
      BY <2>17 DEF UpdateEntry
    <3>2. tail \in Slot /\ tail < NumEntries /\ Oldest = 0
      BY <2>7, <3>1 DEF TypeOK, Slot, Inside
    <3>3. call[p].arg \in Data
      BY <2>2, <3>1 DEF InItsCall
    <3>4. s \in Slot /\ queue[s] \in Data
      <4>1. i[p] + 1 \in 1 .. avail /\ (i[p] + 1) - 1 + Oldest = i[p]
        BY <3>1, <3>2 DEF TypeOK
      <4>2. s \in Slot
        BY <2>3, <3>1, <3>2 DEF TypeOK
      <4> QED
        BY <2>9, <4>1, <4>2
    <3>5. CASE ret = "unchanged"
      <4>1. /\ i' = [i EXCEPT ![p] = @ + 1] /\ pc' = [pc EXCEPT ![p] = "update"]
            /\ UNCHANGED <<lock, queue, avail, tail, call, result>>
        BY <2>17, <3>5 DEF UpdateEntry, TypeOK
      <4>2. i' \in [Proc -> 0 .. NumEntries]
        BY <3>1, <4>1 DEF TypeOK
      <4>3. Oldest' = 0 /\ (LiveSlotsWritten' => RingInv')
        <5>1. Moves(p, "update")
          BY <2>0, <3>1, <3>2, <4>1, <4>2 DEF Moves, Inside
        <5> QED
          BY <2>8, <5>1
      <4> QED
        BY <3>2, <4>1, <4>3 DEF Written, LiveSlotsWritten, Index
    <3>6. CASE ret # "unchanged"
      <4>1. /\ queue' = [queue EXCEPT ![s] = Rewrite(call[p].arg, queue[s])]
            /\ result' = [result EXCEPT ![p] = Code(ret)]
            /\ pc' = [pc EXCEPT ![p] = "unlock"]
            /\ UNCHANGED <<lock, avail, tail, call, i>>
        BY <2>17, <3>6 DEF UpdateEntry
      <4>2. Rewrite(call[p].arg, queue[s]) \in Data /\ ret \in {"unchanged", "skip", "updated"}
        BY <3>3, <3>4
      <4>3. result' \in [Proc -> Answers]
        BY <4>1, <4>2 DEF TypeOK, Answers
      <4>4. queue' \in [Slot -> Data \cup {Zero}]
        BY <4>1, <4>2 DEF TypeOK
      <4>5. Oldest' = 0 /\ (LiveSlotsWritten' => RingInv')
        <5>1. Moves(p, "unlock")
          BY <2>0, <3>1, <3>2, <4>1, <4>3, <4>4 DEF Moves, Inside
        <5> QED
          BY <2>8, <5>1
      <4>6. ASSUME NEW n \in 1 .. avail' PROVE queue'[Index(n - 1 + Oldest)'] \in Data
        <5>1. n \in 1 .. avail /\ Index(n - 1 + Oldest)' = Index(n - 1 + Oldest)
              /\ Index(n - 1 + Oldest) \in Slot
          BY <2>3, <3>2, <4>1, <4>5 DEF TypeOK, Index
        <5>2. queue[Index(n - 1 + Oldest)] \in Data
          BY <2>9, <5>1
        <5> QED
          BY <4>1, <4>2, <5>1, <5>2 DEF TypeOK
      <4> QED
        BY <4>5, <4>6 DEF LiveSlotsWritten
    <3> QED
      BY <3>5, <3>6
  <2>18. ASSUME NEW p \in Proc, ResetCount(p) \/ ResetTail(p) \/ ResetMemory(p)
         PROVE  RingInv'
    <3>1. pc[p] \in Inside /\ tail < NumEntries /\ avail' = 0
      BY <2>7, <2>18 DEF ResetCount, ResetTail, ResetMemory, Counters, Inside
    <3>2. /\ queue' \in [Slot -> Data \cup {Zero}] /\ result' \in [Proc -> Answers]
          /\ tail' \in 0 .. NumEntries - 1 /\ UNCHANGED <<lock, call, i>>
      BY <2>18, <3>1 DEF ResetCount, ResetTail, ResetMemory, TypeOK, Answers
    <3>3. PICK l \in {"reset_tail", "reset_memory", "unlock"} : pc' = [pc EXCEPT ![p] = l]
      BY <2>18 DEF ResetCount, ResetTail, ResetMemory
    <3>4. LiveSlotsWritten' => RingInv'
      <4>1. Moves(p, l)
        BY <2>0, <3>1, <3>2, <3>3 DEF Moves, Inside
      <4> QED
        BY <2>8, <4>1
    <3> QED
      BY <3>1, <3>4 DEF LiveSlotsWritten
  <2>19. ASSUME NEW p \in Proc, Unlock(p)
         PROVE  RingInv'
    <3>1. /\ pc \in [Proc -> Outside \cup Inside] /\ pc[p] \in Inside /\ tail < NumEntries /\ Oldest = 0
          /\ \A o \in Proc : o # p => pc[o] \in Outside
      BY <2>7, <2>19 DEF Unlock, TypeOK, Inside
    <3>2. /\ pc' = [pc EXCEPT ![p] = "idle"] /\ lock' = 0 /\ UNCHANGED <<queue, avail, tail>>
          /\ call' = [call EXCEPT ![p] = NoCall] /\ i' = [i EXCEPT ![p] = 0]
          /\ result' = [result EXCEPT ![p] = NoAnswer]
      BY <2>19 DEF Unlock
    <3>3. /\ \A o \in Proc : pc'[o] \in Outside
          /\ pc'[p] = "idle" /\ \A o \in Proc : o # p => pc'[o] = pc[o]
      BY <3>1, <3>2 DEF Outside
    <3>4. TypeOK'
      BY <3>1, <3>2 DEF TypeOK, Outside, Answers
    <3>5. MutualExclusion'
      BY <3>3 DEF MutualExclusion, Outside, Inside
    <3>6. InItsCall'
      BY <3>2, <3>3 DEF InItsCall, TypeOK
    <3>7. Counters'
      BY <3>1, <3>2, <3>3 DEF Counters, TypeOK, Outside
    <3>8. Oldest' = 0
      BY <3>3 DEF Oldest, Outside
    <3>9. Written'
      BY <3>1, <3>2, <3>3, <3>8 DEF Written, LiveSlotsWritten, Index, Outside
    <3> QED
      BY <3>4, <3>5, <3>6, <3>7, <3>9 DEF RingInv
  <2> QED
    BY <2>4, <2>5, <2>6, <2>10, <2>11, <2>12, <2>13, <2>14, <2>15, <2>16,
       <2>17, <2>18, <2>19
       DEF Next, Operation
<1> QED
  BY <1>1, <1>2, PTL DEF Spec

\* The lock is 0 or 1, the counters and indices stay within the ring and a data slot
\* holds zero or what a call carried: for any number of entries and of harts.
THEOREM TypeCorrect == Spec => []TypeOK
<1>1. RingInv => TypeOK
  BY DEF RingInv
<1> QED
  BY <1>1, RingInvariant, PTL

\* The lock excludes: of any number of harts, at most one is between spin_lock and
\* spin_unlock, and the counters it leaves are those of a ring.
THEOREM LockExcludes == Spec => [](TypeOK /\ MutualExclusion)
<1>1. RingInv => TypeOK /\ MutualExclusion
  BY DEF RingInv
<1> QED
  BY <1>1, RingInvariant, PTL

\* What a dequeue or an update reads was written by an enqueue: the indices of both
\* wrap alike, whatever the size, and between the stores of each operation.
THEOREM EntriesAreWritten == Spec => []LiveSlotsWritten
<1>1. RingInv => LiveSlotsWritten
  BY DEF RingInv, Written
<1> QED
  BY <1>1, RingInvariant, PTL

-----------------------------------------------------------------------------
(* The ring is a queue.  What is to be remembered: the locals of a hart    *)
(* say what it has seen of the ring, which nobody else changes meanwhile.  *)

Remembers(p) ==
  /\ pc[p] = "idle" => call[p] = NoCall /\ result[p] = NoAnswer
  /\ pc[p] \in Outside => i[p] = 0
  /\ pc[p] \in {"dequeue", "dequeue_count"} => call[p].op = "dequeue"
  /\ pc[p] \in {"reset", "avail"} => call[p].op = pc[p]
  /\ pc[p] = "enqueue_count" => queue[Index(avail)] = call[p].arg
  /\ pc[p] = "dequeue_count" => result[p] = Value(queue[tail])
  /\ pc[p] = "update" =>
       \A n \in 0 .. i[p] - 1 : Callback(call[p].arg, queue[Index(n)]) = "unchanged"
  /\ pc[p] \in Inside \ Pending => result[p] # NoAnswer

Remembered == \A p \in Proc : Remembers(p)

LEMMA NothingIsForgotten == Spec => []Remembered
<1>1. Init => Remembered
  BY DEF Init, Remembered, Remembers, Inside, Outside, Pending
<1>2. RingInv /\ Remembered /\ [Next]_vars => Remembered'
  <2> SUFFICES ASSUME TypeOK, MutualExclusion, InItsCall, Counters, Written, Remembered, [Next]_vars
               PROVE  Remembered'
    BY DEF RingInv
  <2> USE RingAssumption DEF At, Goto, Finish
  <2>1. CASE UNCHANGED vars
    BY <2>1 DEF vars, Remembered, Remembers, Index
  <2>2. ASSUME NEW p \in Proc, Begin(p) \/ Operation(p)
        PROVE  /\ \A o \in Proc : o # p => /\ pc'[o] = pc[o] /\ call'[o] = call[o]
                                          /\ i'[o] = i[o] /\ result'[o] = result[o]
               /\ UNCHANGED <<queue, avail, tail>> \/ \A o \in Proc : o # p => pc[o] \in Outside
    <3>1. CASE Begin(p) \/ LockCheck(p) \/ TryLock(p)
      BY <3>1 DEF Begin, LockCheck, TryLock, TypeOK
    <3>2. CASE ~(Begin(p) \/ LockCheck(p) \/ TryLock(p))
      <4>1. pc[p] \in Inside
        BY <2>2, <3>2 DEF Operation, Unlock, EnqueueFull, EnqueueCopy, EnqueueCount, DequeueEmpty,
           DequeueCopy, DequeueCount, DequeueTail, DequeueWrap, UpdateEnd, UpdateEntry,
           ResetCount, ResetTail, ResetMemory, ReadAvail, Inside
      <4>2. \A o \in Proc : o # p => pc[o] \in Outside
        BY <4>1 DEF MutualExclusion, TypeOK
      <4>3. \A o \in Proc : o # p => /\ pc'[o] = pc[o] /\ call'[o] = call[o]
                                    /\ i'[o] = i[o] /\ result'[o] = result[o]
        BY <2>2, <3>2 DEF Operation, Unlock, EnqueueFull, EnqueueCopy, EnqueueCount, DequeueEmpty,
           DequeueCopy, DequeueCount, DequeueTail, DequeueWrap, UpdateEnd, UpdateEntry,
           ResetCount, ResetTail, ResetMemory, ReadAvail, TypeOK
      <4> QED
        BY <4>2, <4>3
    <3> QED
      BY <3>1, <3>2
  <2>3. ASSUME NEW p \in Proc, Begin(p) \/ Operation(p), Remembers(p)'
        PROVE  Remembered'
    <3>1. ASSUME NEW o \in Proc, o # p PROVE Remembers(o)'
      <4>1. /\ pc'[o] = pc[o] /\ call'[o] = call[o] /\ i'[o] = i[o] /\ result'[o] = result[o]
            /\ UNCHANGED <<queue, avail, tail>> \/ pc[o] \in Outside
        BY <2>2, <2>3, <3>1
      <4>2. Remembers(o)
        BY DEF Remembered
      <4> QED
        BY <4>1, <4>2 DEF Remembers, Outside, Inside, Index
    <3> QED
      BY <2>3, <3>1 DEF Remembered
  <2>4. ASSUME NEW p \in Proc, Begin(p) \/ LockCheck(p) \/ TryLock(p)
        PROVE  Remembers(p)'
    <3>1. /\ pc[p] \in Outside /\ pc'[p] \in {"lock_check", "trylock", call[p].op} /\ i'[p] = 0
          /\ pc'[p] \in {"lock_check", "trylock"} \/ (call'[p] = call[p] /\ call[p] \in Call)
      BY <2>4 DEF Begin, LockCheck, TryLock, TypeOK, Remembered, Remembers, InItsCall, Outside
    <3>2. \A c \in Call : c.op \in {"enqueue", "update", "dequeue", "reset", "avail"}
      BY DEF Call
    <3> QED
      BY <3>1, <3>2 DEF Remembers, Outside, Inside, Pending
  <2>5. ASSUME NEW p \in Proc, pc[p] \in Inside
        PROVE  Remembers(p) /\ (pc[p] # "dequeue_wrap" => tail < NumEntries)
    BY <2>5 DEF MutualExclusion, TypeOK, Counters, Remembered, Inside
  <2>6. ASSUME NEW p \in Proc, EnqueueFull(p) \/ DequeueEmpty(p) \/ UpdateEnd(p) \/ ReadAvail(p)
                 \/ EnqueueCount(p) \/ ResetCount(p)
        PROVE  Remembers(p)'
    <3>1. pc'[p] \in {"unlock", "reset_tail"} /\ result'[p] # NoAnswer
      BY <2>6 DEF EnqueueFull, DequeueEmpty, UpdateEnd, ReadAvail, EnqueueCount, ResetCount,
         TypeOK, NoAnswer, Code, Count
    <3> QED
      BY <3>1 DEF Remembers, Outside, Inside
  <2>7. ASSUME NEW p \in Proc, DequeueTail(p) \/ DequeueWrap(p) \/ ResetTail(p) \/ ResetMemory(p)
        PROVE  Remembers(p)'
    BY <2>5, <2>7 DEF DequeueTail, DequeueWrap, ResetTail, ResetMemory,
       TypeOK, Remembers, Outside, Inside, Pending
  <2>8. ASSUME NEW p \in Proc, EnqueueCopy(p)
        PROVE  Remembers(p)'
    <3>1. Index(avail)' = Index(avail) /\ Index(avail) \in Slot
      BY <2>5, <2>8 DEF EnqueueCopy, TypeOK, Index, Slot, Inside
    <3> QED
      BY <2>8, <3>1 DEF EnqueueCopy, TypeOK, Remembers, Outside, Inside, Pending
  <2>9. ASSUME NEW p \in Proc, DequeueCopy(p)
        PROVE  Remembers(p)'
    BY <2>5, <2>9 DEF DequeueCopy, TypeOK, Remembers, Outside, Inside, Pending
  <2>10. ASSUME NEW p \in Proc, DequeueCount(p)
         PROVE  Remembers(p)'
    <3>1. pc'[p] = "dequeue_tail" /\ result'[p] # NoAnswer
      BY <2>5, <2>10 DEF DequeueCount, TypeOK, Remembers, Inside, NoAnswer, Value
    <3> QED
      BY <3>1 DEF Remembers, Outside, Inside
  <2>11. ASSUME NEW p \in Proc, UpdateEntry(p)
         PROVE  Remembers(p)'
    <3> DEFINE ret == Callback(call[p].arg, queue[Index(i[p])])
    <3>1. pc[p] = "update" /\ UNCHANGED <<avail, tail, call>>
      BY <2>11 DEF UpdateEntry
    <3>2. CASE ret = "unchanged"
      <4>1. /\ i'[p] = i[p] + 1 /\ i[p] \in Nat /\ pc'[p] = "update" /\ UNCHANGED queue
        BY <2>11, <3>2 DEF UpdateEntry, TypeOK
      <4>2. \A n \in 0 .. i[p] : Callback(call[p].arg, queue[Index(n)]) = "unchanged"
        <5>1. \A n \in 0 .. i[p] - 1 : Callback(call[p].arg, queue[Index(n)]) = "unchanged"
          BY <2>5, <3>1 DEF Remembers, Inside
        <5>2. \A n \in 0 .. i[p] : n \in 0 .. i[p] - 1 \/ n = i[p]
          BY <4>1
        <5> QED
          BY <3>2, <5>1, <5>2
      <4>3. \A n \in 0 .. i'[p] - 1 : Callback(call'[p].arg, queue'[Index(n)']) = "unchanged"
        BY <3>1, <4>1, <4>2 DEF Index
      <4> QED
        BY <4>1, <4>3 DEF Remembers, Outside, Inside, Pending
    <3>3. CASE ret # "unchanged"
      <4>1. pc'[p] = "unlock" /\ result'[p] # NoAnswer
        <5>1. ret # "none"
          <6>1. call[p].arg \in Data
            BY <3>1 DEF InItsCall, Call
          <6>2. queue[Index(i[p])] \in Data
            <7>1. Oldest = 0
              BY <3>1 DEF Oldest, MutualExclusion, Inside
            <7>2. i[p] + 1 \in 1 .. avail /\ (i[p] + 1) - 1 + Oldest = i[p]
              BY <2>11, <7>1 DEF UpdateEntry, TypeOK
            <7> QED
              BY <7>2 DEF Written, LiveSlotsWritten
          <6> QED
            BY <6>1, <6>2
        <5> QED
          BY <2>11, <3>3, <5>1 DEF UpdateEntry, TypeOK, NoAnswer, Code
      <4> QED
        BY <4>1 DEF Remembers, Outside, Inside
    <3> QED
      BY <3>2, <3>3
  <2>12. ASSUME NEW p \in Proc, Unlock(p)
         PROVE  Remembers(p)'
    <3>1. pc'[p] = "idle" /\ i'[p] = 0 /\ call'[p] = NoCall /\ result'[p] = NoAnswer
      BY <2>12 DEF Unlock, TypeOK
    <3> QED
      BY <3>1 DEF Remembers, Outside, Inside
  <2> QED
    BY <2>1, <2>3, <2>4, <2>6, <2>7, <2>8, <2>9, <2>10, <2>11, <2>12 DEF Next, Operation
<1> QED
  BY <1>1, <1>2, RingInvariant, PTL DEF Spec

\* What the queue is, seen from the ring, and what a hart inside finds.
RingShows ==
  /\ Contents \in Seq(Data) /\ Len(Contents) = avail
  /\ \A n \in 1 .. avail : Contents[n] = queue[Index(n - 1 + Oldest)]

InsideFinds ==
  \A p \in Proc : pc[p] \in Inside =>
    /\ Oldest = (IF pc[p] = "dequeue_tail" THEN 1 ELSE 0)
    /\ pc[p] # "dequeue_wrap" => tail < NumEntries

\* A step of hart p to label l that answers a, and what the queue does meanwhile.
TakesEffect(p, l, a) ==
  /\ pc[p] \in Pending /\ l \notin Pending
  /\ pc' = [pc EXCEPT ![p] = l] /\ result' = [result EXCEPT ![p] = a] /\ call' = call
  /\ \/ /\ call[p].op = "enqueue" /\ Len(Contents) = NumEntries
        /\ Contents' = Contents /\ a = Code("ENOSPC")
     \/ /\ call[p].op = "enqueue" /\ Len(Contents) # NumEntries
        /\ Contents' = Append(Contents, call[p].arg) /\ a = Code("ok")
     \/ /\ call[p].op = "dequeue" /\ Contents = <<>>
        /\ Contents' = Contents /\ a = Code("ENOENT")
     \/ /\ call[p].op = "dequeue" /\ Contents # <<>>
        /\ Contents' = Tail(Contents) /\ a = Value(Head(Contents))
     \/ call[p].op = "reset" /\ Contents' = <<>> /\ a = Code("ok")
     \/ call[p].op = "avail" /\ Contents' = Contents /\ a = Count(Len(Contents))

\* Enqueue, dequeue, update, reset and avail look like operations on a queue that
\* take effect at one instant, whoever calls them meanwhile and however big the ring.
THEOREM RingIsAQueue == Spec => ImplementsQueue
<1>1. Init => Abs!Init
  <2> SUFFICES ASSUME Init PROVE Abs!Init
    OBVIOUS
  <2>1. Contents = <<>>
    BY DEF Init, Contents
  <2>2. Answered = [p \in Proc |-> NoAnswer]
    BY DEF Init, Answered, Pending
  <2> QED
    BY <2>1, <2>2 DEF Init, Abs!Init, NoCall, Abs!NoCall, NoAnswer, Abs!NoAnswer
<1>2. RingInv => RingShows
  BY DEF RingInv, TypeOK, Written, LiveSlotsWritten, Contents, RingShows
<1>3. RingInv => InsideFinds
  <2> SUFFICES ASSUME RingInv, NEW p \in Proc, pc[p] \in Inside
               PROVE  /\ Oldest = (IF pc[p] = "dequeue_tail" THEN 1 ELSE 0)
                      /\ pc[p] # "dequeue_wrap" => tail < NumEntries
    BY DEF InsideFinds
  <2>1. \A o \in Proc : o # p => pc[o] \in Outside
    BY DEF RingInv, MutualExclusion, TypeOK
  <2>2. Oldest = (IF pc[p] = "dequeue_tail" THEN 1 ELSE 0)
    BY <2>1 DEF Oldest, Outside
  <2>3. pc[p] # "dequeue_wrap" => tail < NumEntries
    BY <2>1, RingAssumption DEF RingInv, TypeOK, Counters, Outside
  <2> QED
    BY <2>2, <2>3
<1>4. RingInv' => RingShows' /\ InsideFinds'
  BY <1>2, <1>3, PTL
<1>5. RingInv /\ RingInv' /\ Remembered /\ [Next]_vars => [Abs!Next]_(Abs!vars)
  <2> SUFFICES ASSUME RingInv, RingInv', Remembered, [Next]_vars
               PROVE  Abs!Next \/ UNCHANGED <<Contents, call, Answered>>
    BY DEF Abs!vars
  <2> USE RingAssumption DEF At, Goto, Finish
  <2>0. /\ TypeOK /\ MutualExclusion /\ InItsCall /\ Counters /\ RingShows /\ InsideFinds
        /\ TypeOK' /\ RingShows' /\ InsideFinds'
    BY <1>2, <1>3, <1>4 DEF RingInv
  <2>1. CASE UNCHANGED vars
    BY <2>1 DEF vars, Contents, Answered, Index, Oldest
  \* How the answers of a step look from outside, and when the queue looks unchanged.
  <2>2. ASSUME NEW p \in Proc, NEW l, NEW a, pc' = [pc EXCEPT ![p] = l],
               result' = [result EXCEPT ![p] = a]
        PROVE  Answered' = [Answered EXCEPT ![p] = IF l \in Pending THEN NoAnswer ELSE a]
    BY <2>0, <2>2 DEF Answered, TypeOK
  <2>3. ASSUME NEW p \in Proc, NEW l, pc' = [pc EXCEPT ![p] = l], result' = result,
               pc[p] \in Pending <=> l \in Pending
        PROVE  Answered' = Answered
    BY <2>0, <2>3 DEF Answered, TypeOK
  <2>4. ASSUME avail' = avail, \A n \in 1 .. avail : queue'[Index(n - 1 + Oldest)'] = queue[Index(n - 1 + Oldest)]
        PROVE  Contents' = Contents
    BY <2>4 DEF Contents
  <2>5. ASSUME UNCHANGED <<queue, avail, tail>>, Oldest' = Oldest
        PROVE  Contents' = Contents
    BY <2>4, <2>5 DEF Index
  <2>6. ASSUME NEW p \in Proc, Begin(p)
        PROVE  Abs!Begin(p)
    <3>1. pc[p] = "idle" /\ call[p] = NoCall /\ result[p] = NoAnswer
      BY <2>6 DEF Begin, Remembered, Remembers
    <3>2. pc' = [pc EXCEPT ![p] = "lock_check"] /\ UNCHANGED <<queue, avail, tail, result>>
      BY <2>6 DEF Begin
    <3>3. Answered' = Answered
      BY <2>0, <3>1, <3>2 DEF Answered, TypeOK
    <3>4. Oldest' = Oldest
      BY <2>0, <3>1, <3>2 DEF Oldest, TypeOK
    <3>5. \E c \in Call : call' = [call EXCEPT ![p] = c]
      BY <2>6 DEF Begin
    <3> QED
      BY <2>5, <3>1, <3>2, <3>3, <3>4, <3>5 DEF Abs!Begin, Abs!Call, Call, NoCall, Abs!NoCall
  <2>7. ASSUME NEW p \in Proc, LockCheck(p) \/ TryLock(p)
        PROVE  UNCHANGED <<Contents, call, Answered>>
    <3>1. call[p].op \in {"enqueue", "update", "dequeue", "reset", "avail"}
      BY <2>0, <2>7 DEF LockCheck, TryLock, InItsCall, Call
    <3>2. pc[p] \in {"lock_check", "trylock"} /\ UNCHANGED <<queue, avail, tail, call, result>>
      BY <2>7 DEF LockCheck, TryLock
    <3>3. PICK l \in {"lock_check", "trylock", "enqueue", "update", "dequeue", "reset", "avail"} :
            pc' = [pc EXCEPT ![p] = l]
      BY <2>7, <3>1 DEF LockCheck, TryLock
    <3>4. Answered' = Answered
      BY <2>3, <3>2, <3>3 DEF Pending
    <3>5. Oldest' = Oldest
      BY <2>0, <3>2, <3>3 DEF Oldest, TypeOK
    <3> QED
      BY <2>5, <3>2, <3>4, <3>5
  \* Steps that are not seen: before the effect and after it.
  <2>8. ASSUME NEW p \in Proc, EnqueueCopy(p)
        PROVE  UNCHANGED <<Contents, call, Answered>>
    <3>1. /\ queue' = [queue EXCEPT ![Index(avail)] = call[p].arg]
          /\ pc[p] = "enqueue" /\ pc' = [pc EXCEPT ![p] = "enqueue_count"]
          /\ UNCHANGED <<lock, avail, tail, call, i, result>> /\ avail < NumEntries
      BY <2>0, <2>8 DEF EnqueueCopy, TypeOK
    <3>2. Oldest = 0 /\ Oldest' = 0 /\ tail < NumEntries
      BY <2>0, <3>1 DEF InsideFinds, Inside, TypeOK
    <3>3. ASSUME NEW n \in 1 .. avail
          PROVE  queue'[Index(n - 1 + Oldest)'] = queue[Index(n - 1 + Oldest)]
      <4>1. /\ Index(n - 1 + Oldest)' = Index(n - 1 + Oldest) /\ Index(n - 1 + Oldest) # Index(avail)
            /\ Index(n - 1 + Oldest) \in Slot
        BY <2>0, <3>1, <3>2 DEF TypeOK, Index, Slot
      <4> QED
        BY <2>0, <3>1, <4>1 DEF TypeOK
    <3>4. Answered' = Answered
      BY <2>3, <3>1 DEF Pending
    <3> QED
      BY <2>4, <3>1, <3>3, <3>4
  <2>9. ASSUME NEW p \in Proc, DequeueCopy(p)
        PROVE  UNCHANGED <<Contents, call, Answered>>
    <3>1. /\ result' = [result EXCEPT ![p] = Value(queue[tail])]
          /\ pc[p] = "dequeue" /\ pc' = [pc EXCEPT ![p] = "dequeue_count"]
          /\ UNCHANGED <<queue, avail, tail, call>>
      BY <2>9 DEF DequeueCopy
    <3>2. Oldest = 0 /\ Oldest' = 0
      BY <2>0, <3>1 DEF InsideFinds, Inside, TypeOK
    <3>3. Answered' = Answered
      BY <2>0, <3>1 DEF Answered, TypeOK, Pending
    <3> QED
      BY <2>5, <3>1, <3>2, <3>3
  <2>10. ASSUME NEW p \in Proc, DequeueTail(p)
         PROVE  UNCHANGED <<Contents, call, Answered>>
    <3>1. /\ tail' = tail + 1
          /\ pc[p] = "dequeue_tail" /\ pc' = [pc EXCEPT ![p] = "dequeue_wrap"]
          /\ UNCHANGED <<queue, avail, call, result>>
      BY <2>10 DEF DequeueTail
    <3>2. Oldest = 1 /\ Oldest' = 0 /\ tail < NumEntries /\ avail < NumEntries
      BY <2>0, <3>1 DEF InsideFinds, Inside, TypeOK, Counters
    <3>3. ASSUME NEW n \in 1 .. avail
          PROVE  queue'[Index(n - 1 + Oldest)'] = queue[Index(n - 1 + Oldest)]
      <4>1. Index(n - 1 + Oldest)' = Index(n - 1 + Oldest)
        BY <2>0, <3>1, <3>2 DEF TypeOK, Index
      <4> QED
        BY <3>1, <4>1
    <3>4. Answered' = Answered
      BY <2>3, <3>1 DEF Pending
    <3> QED
      BY <2>4, <3>1, <3>3, <3>4
  <2>11. ASSUME NEW p \in Proc, DequeueWrap(p)
         PROVE  UNCHANGED <<Contents, call, Answered>>
    <3>1. /\ tail' = (IF tail >= NumEntries THEN 0 ELSE tail)
          /\ pc[p] = "dequeue_wrap" /\ pc' = [pc EXCEPT ![p] = "unlock"]
          /\ UNCHANGED <<queue, avail, call, result>>
      BY <2>11 DEF DequeueWrap
    <3>2. Oldest = 0 /\ Oldest' = 0
      BY <2>0, <3>1 DEF InsideFinds, Inside, TypeOK
    <3>3. ASSUME NEW n \in 1 .. avail
          PROVE  queue'[Index(n - 1 + Oldest)'] = queue[Index(n - 1 + Oldest)]
      <4>1. Index(n - 1 + Oldest)' = Index(n - 1 + Oldest)
        BY <2>0, <3>1, <3>2 DEF TypeOK, Index
      <4> QED
        BY <3>1, <4>1
    <3>4. Answered' = Answered
      BY <2>3, <3>1 DEF Pending
    <3> QED
      BY <2>4, <3>1, <3>3, <3>4
  <2>12. ASSUME NEW p \in Proc, ResetTail(p) \/ ResetMemory(p)
         PROVE  UNCHANGED <<Contents, call, Answered>>
    <3>1. /\ pc[p] \in {"reset_tail", "reset_memory"} /\ UNCHANGED <<avail, call, result>>
      BY <2>12 DEF ResetTail, ResetMemory
    <3>2. avail = 0
      BY <2>0, <3>1 DEF Counters
    <3>3. PICK l \in {"reset_memory", "unlock"} : pc' = [pc EXCEPT ![p] = l]
      BY <2>12 DEF ResetTail, ResetMemory
    <3>4. Answered' = Answered
      BY <2>3, <3>1, <3>3 DEF Pending
    <3>5. Contents' = Contents
      BY <2>4, <3>1, <3>2
    <3> QED
      BY <3>1, <3>4, <3>5
  \* Steps that take effect.
  <2>13. ASSUME NEW p \in Proc, NEW l, NEW a, TakesEffect(p, l, a)
         PROVE  Abs!TakeEffect(p)
    <3>1. Answered[p] = NoAnswer /\ Answered' = [Answered EXCEPT ![p] = a]
      BY <2>2, <2>13 DEF Answered, TakesEffect
    <3> QED
      BY <2>13, <3>1 DEF TakesEffect, Abs!TakeEffect, Abs!Enqueue, Abs!Dequeue, Abs!Reset, Abs!Avail, Abs!Answer,
         NoAnswer, Abs!NoAnswer, Code, Abs!Code, Value, Abs!Value, Count, Abs!Count
  <2>14. ASSUME NEW p \in Proc, EnqueueFull(p) \/ DequeueEmpty(p) \/ ReadAvail(p)
         PROVE  Abs!TakeEffect(p)
    <3>1. /\ pc[p] \in {"enqueue", "dequeue", "avail"} /\ pc' = [pc EXCEPT ![p] = "unlock"]
          /\ UNCHANGED <<queue, avail, tail, call>>
      BY <2>14 DEF EnqueueFull, DequeueEmpty, ReadAvail
    <3>2. Oldest = 0 /\ Oldest' = 0
      BY <2>0, <3>1 DEF InsideFinds, Inside, TypeOK
    <3>3. Contents' = Contents
      BY <2>5, <3>1, <3>2
    <3>4. CASE EnqueueFull(p)
      <4>1. TakesEffect(p, "unlock", Code("ENOSPC"))
        BY <2>0, <3>1, <3>3, <3>4 DEF EnqueueFull, InItsCall, RingShows, TakesEffect, Pending
      <4> QED
        BY <2>13, <4>1
    <3>5. CASE DequeueEmpty(p)
      <4>1. Contents = <<>> /\ call[p].op = "dequeue"
        BY <2>0, <3>5 DEF DequeueEmpty, RingShows, Remembered, Remembers
      <4>2. TakesEffect(p, "unlock", Code("ENOENT"))
        BY <3>1, <3>3, <3>5, <4>1 DEF DequeueEmpty, TakesEffect, Pending
      <4> QED
        BY <2>13, <4>2
    <3>6. CASE ReadAvail(p)
      <4>1. call[p].op = "avail" /\ Len(Contents) = avail
        BY <2>0, <3>6 DEF ReadAvail, RingShows, Remembered, Remembers
      <4>2. TakesEffect(p, "unlock", Count(Len(Contents)))
        BY <3>1, <3>3, <3>6, <4>1 DEF ReadAvail, TakesEffect, Pending
      <4> QED
        BY <2>13, <4>2
    <3> QED
      BY <2>14, <3>4, <3>5, <3>6
  <2>15. ASSUME NEW p \in Proc, EnqueueCount(p)
         PROVE  Abs!TakeEffect(p)
    <3>1. /\ avail' = avail + 1
          /\ pc[p] = "enqueue_count" /\ pc' = [pc EXCEPT ![p] = "unlock"]
          /\ result' = [result EXCEPT ![p] = Code("ok")]
          /\ UNCHANGED <<queue, tail, call>>
      BY <2>15 DEF EnqueueCount
    <3>2. Oldest = 0 /\ Oldest' = 0 /\ avail # NumEntries /\ Len(Contents) = avail /\ avail \in Nat
      BY <2>0, <3>1 DEF InsideFinds, Inside, TypeOK, Counters, RingShows
    <3>3. call[p].op = "enqueue" /\ queue[Index(avail)] = call[p].arg /\ call[p].arg \in Data
      BY <2>0, <3>1 DEF Remembered, Remembers, InItsCall, Call
    <3> DEFINE longer == Append(Contents, call[p].arg)
    <3>4. /\ longer \in Seq(Data) /\ Len(longer) = avail + 1 /\ longer[avail + 1] = call[p].arg
          /\ \A n \in 1 .. avail : longer[n] = Contents[n]
      BY <2>0, <3>2, <3>3, AppendProperties DEF RingShows
    <3>5. ASSUME NEW n \in 1 .. avail + 1 PROVE Contents'[n] = longer[n]
      <4>1. Contents'[n] = queue[Index(n - 1)]
        <5>1. n - 1 + Oldest' = n - 1 /\ n \in 1 .. avail'
          BY <3>1, <3>2
        <5>2. Contents'[n] = queue'[Index(n - 1 + Oldest)']
          BY <2>0, <5>1 DEF RingShows
        <5> QED
          BY <3>1, <5>1, <5>2 DEF Index
      <4>2. CASE n = avail + 1
        <5>1. n - 1 = avail
          BY <3>2, <4>2
        <5> QED
          BY <3>3, <3>4, <4>1, <4>2, <5>1
      <4>3. CASE n # avail + 1
        <5>1. n \in 1 .. avail /\ n - 1 + Oldest = n - 1
          BY <3>2, <4>3
        <5> QED
          BY <2>0, <3>4, <4>1, <5>1 DEF RingShows
      <4> QED
        BY <4>2, <4>3
    <3>6. Contents' = longer
      BY <2>0, <3>1, <3>4, <3>5, SeqEqual DEF RingShows
    <3>7. TakesEffect(p, "unlock", Code("ok"))
      BY <3>1, <3>2, <3>3, <3>6 DEF TakesEffect, Pending
    <3> QED
      BY <2>13, <3>7
  <2>16. ASSUME NEW p \in Proc, DequeueCount(p)
         PROVE  Abs!TakeEffect(p)
    <3>1. /\ avail' = avail - 1 /\ avail # 0
          /\ pc[p] = "dequeue_count" /\ pc' = [pc EXCEPT ![p] = "dequeue_tail"]
          /\ UNCHANGED <<queue, tail, call, result>>
      BY <2>0, <2>16 DEF DequeueCount, Counters
    <3>2. /\ Oldest = 0 /\ Oldest' = 1 /\ tail < NumEntries /\ tail \in Nat
          /\ Len(Contents) = avail /\ avail \in Nat
      BY <2>0, <3>1 DEF InsideFinds, Inside, TypeOK, RingShows
    <3>3. call[p].op = "dequeue" /\ result[p] = Value(queue[tail])
      BY <3>1 DEF Remembered, Remembers
    <3>4. Contents # <<>> /\ Head(Contents) = queue[tail]
      <4>1. Contents # <<>> /\ Head(Contents) = Contents[1]
        BY <2>0, <3>1, <3>2 DEF RingShows
      <4>2. 1 \in 1 .. avail /\ 1 - 1 + Oldest = 0 /\ Index(0) = tail
        BY <3>1, <3>2 DEF Index
      <4> QED
        BY <2>0, <4>1, <4>2 DEF RingShows
    <3>5. /\ Tail(Contents) \in Seq(Data) /\ Len(Tail(Contents)) = avail - 1
          /\ \A n \in 1 .. avail - 1 : Tail(Contents)[n] = Contents[n + 1]
      BY <2>0, <3>2, <3>4, HeadTailProperties DEF RingShows
    <3>6. ASSUME NEW n \in 1 .. avail - 1 PROVE Contents'[n] = Tail(Contents)[n]
      <4>1. /\ n + 1 \in 1 .. avail /\ n \in 1 .. avail'
            /\ Index(n - 1 + Oldest)' = Index((n + 1) - 1 + Oldest)
        BY <3>1, <3>2 DEF Index
      <4> QED
        BY <2>0, <3>1, <3>5, <4>1 DEF RingShows
    <3>7. Contents' = Tail(Contents)
      BY <2>0, <3>1, <3>5, <3>6, SeqEqual DEF RingShows
    <3>8. result' = [result EXCEPT ![p] = Value(Head(Contents))]
      BY <2>0, <3>1, <3>3, <3>4 DEF TypeOK
    <3>9. TakesEffect(p, "dequeue_tail", Value(Head(Contents)))
      BY <3>1, <3>3, <3>4, <3>7, <3>8 DEF TakesEffect, Pending
    <3> QED
      BY <2>13, <3>9
  <2>17. ASSUME NEW p \in Proc, ResetCount(p)
         PROVE  Abs!TakeEffect(p)
    <3>1. /\ avail' = 0 /\ pc[p] = "reset" /\ pc' = [pc EXCEPT ![p] = "reset_tail"]
          /\ result' = [result EXCEPT ![p] = Code("ok")] /\ UNCHANGED call
      BY <2>17 DEF ResetCount
    <3>2. Contents' = <<>> /\ call[p].op = "reset"
      BY <2>0, <3>1 DEF RingShows, Remembered, Remembers
    <3>3. TakesEffect(p, "reset_tail", Code("ok"))
      BY <3>1, <3>2 DEF TakesEffect, Pending
    <3> QED
      BY <2>13, <3>3
  <2>18. ASSUME NEW p \in Proc, UpdateEnd(p) \/ UpdateEntry(p)
         PROVE  Abs!TakeEffect(p) \/ UNCHANGED <<Contents, call, Answered>>
    <3> DEFINE arg == call[p].arg
               hits == {n \in 1 .. Len(Contents) : Callback(arg, Contents[n]) # "unchanged"}
    <3>1. /\ pc[p] = "update" /\ call[p].op = "update" /\ arg \in Data /\ UNCHANGED <<avail, tail, call>>
      BY <2>0, <2>18 DEF UpdateEnd, UpdateEntry, InItsCall, Call
    <3>2. /\ Oldest = 0 /\ tail < NumEntries /\ Len(Contents) = avail /\ avail \in Nat /\ i[p] \in Nat
          /\ pc'[p] \in Inside \ {"dequeue_tail"} => Oldest' = 0
      BY <2>0, <3>1 DEF InsideFinds, Inside, TypeOK, RingShows
    <3>3. \A n \in 1 .. avail : Contents[n] = queue[Index(n - 1)] /\ Contents[n] \in Data
      <4>1. \A n \in 1 .. avail : n - 1 + Oldest = n - 1
        BY <3>2
      <4> QED
        BY <2>0, <3>2, <4>1 DEF RingShows
    <3>4. \A n \in 1 .. i[p] : n <= avail => n \notin hits
      <4>1. \A n \in 0 .. i[p] - 1 : Callback(arg, queue[Index(n)]) = "unchanged"
        BY <3>1 DEF Remembered, Remembers
      <4>2. ASSUME NEW n \in 1 .. i[p], n <= avail PROVE Callback(arg, Contents[n]) = "unchanged"
        <5>1. n - 1 \in 0 .. i[p] - 1 /\ n \in 1 .. avail
          BY <3>2, <4>2
        <5> QED
          BY <3>3, <4>1, <5>1
      <4> QED
        BY <4>2
    <3>5. Answered[p] = NoAnswer
      BY <3>1 DEF Answered, Pending
    <3>6. CASE UpdateEnd(p)
      <4>1. /\ i[p] >= avail /\ pc' = [pc EXCEPT ![p] = "unlock"] /\ queue' = queue
            /\ result' = [result EXCEPT ![p] = Code("unchanged")]
        BY <3>6 DEF UpdateEnd
      <4>2. hits = {}
        BY <3>2, <3>4, <4>1
      <4>3. Contents' = Contents
        BY <2>0, <2>5, <3>1, <3>2, <4>1 DEF TypeOK, Inside
      <4>4. Answered' = [Answered EXCEPT ![p] = Code("unchanged")]
        BY <2>2, <4>1 DEF Pending
      <4>5. Abs!Update(p)
        BY <3>1, <4>2, <4>3, <4>4 DEF Abs!Update, Abs!Answer, Code, Abs!Code
      <4> QED
        BY <3>1, <3>5, <4>5 DEF Abs!TakeEffect, NoAnswer, Abs!NoAnswer
    <3> DEFINE s == Index(i[p])
               ret == Callback(arg, queue[s])
    <3>7. CASE UpdateEntry(p) /\ ret = "unchanged"
      <4>1. pc' = pc /\ queue' = queue /\ result' = result
        BY <3>7 DEF UpdateEntry
      <4>2. Oldest' = Oldest /\ Answered' = Answered
        BY <4>1 DEF Oldest, Answered
      <4> QED
        BY <2>5, <3>1, <4>1, <4>2
    <3>8. CASE UpdateEntry(p) /\ ret # "unchanged"
      <4>1. /\ i[p] < avail /\ pc' = [pc EXCEPT ![p] = "unlock"]
            /\ queue' = [queue EXCEPT ![s] = Rewrite(arg, queue[s])]
            /\ result' = [result EXCEPT ![p] = Code(ret)]
        BY <3>8 DEF UpdateEntry
      <4> DEFINE k == i[p] + 1
                 newer == [Contents EXCEPT ![k] = Rewrite(arg, Contents[k])]
      <4>2. k \in 1 .. avail /\ k - 1 = i[p] /\ Contents[k] = queue[s] /\ Contents[k] \in Data
        <5>1. k \in 1 .. avail /\ k - 1 = i[p]
          BY <3>2, <4>1
        <5> QED
          BY <3>3, <5>1
      <4>3. k \in hits /\ \A n \in hits : k <= n
        <5>1. k \in hits
          BY <3>2, <3>8, <4>2
        <5>2. ASSUME NEW n \in hits PROVE k <= n
          <6>1. n \in Nat /\ n <= avail /\ n >= 1 /\ ~(n <= i[p])
            BY <3>2, <3>4
          <6> QED
            BY <3>2, <6>1
        <5> QED
          BY <5>1, <5>2
      <4>4. Oldest' = 0
        BY <2>0, <3>2, <4>1 DEF TypeOK, Inside
      <4>5. /\ newer \in Seq(Data) /\ Len(newer) = avail
            /\ \A n \in 1 .. avail : newer[n] = IF n = k THEN Rewrite(arg, Contents[k]) ELSE Contents[n]
        BY <2>0, <3>1, <3>2, <4>2, ExceptSeq DEF RingShows
      <4>6. ASSUME NEW n \in 1 .. avail PROVE Contents'[n] = newer[n]
        <5>1. /\ n - 1 + Oldest' = n - 1 /\ n \in 1 .. avail' /\ Index(n - 1) \in Slot /\ s \in Slot
              /\ Index(n - 1) = s <=> n = k
          <6>1. /\ n \in Nat /\ n >= 1 /\ n <= avail /\ avail <= NumEntries /\ tail \in Nat
                /\ NumEntries \in Nat /\ i[p] < avail /\ avail' = avail
            BY <2>0, <3>1, <3>2, <4>1 DEF TypeOK
          <6>2. n - 1 + Oldest' = n - 1 /\ n \in 1 .. avail'
            BY <4>4, <6>1
          <6>3. Index(n - 1) \in Slot /\ s \in Slot
            BY <3>2, <6>1 DEF Index, Slot
          <6>4. Index(n - 1) = s <=> n = k
            <7>1. CASE n = k
              BY <4>2, <7>1
            <7>2. CASE n < k
              <8>1. n - 1 < i[p]
                BY <3>2, <6>1, <7>2
              <8> QED
                BY <3>2, <6>1, <7>2, <8>1 DEF Index
            <7>3. CASE k < n
              <8>1. i[p] < n - 1
                BY <3>2, <6>1, <7>3
              <8> QED
                BY <3>2, <6>1, <7>3, <8>1 DEF Index
            <7> QED
              BY <3>2, <6>1, <7>1, <7>2, <7>3
          <6> QED
            BY <6>2, <6>3, <6>4
        <5>2. Contents'[n] = queue'[Index(n - 1)]
          <6>1. Contents'[n] = queue'[Index(n - 1 + Oldest)']
            BY <2>0, <5>1 DEF RingShows
          <6> QED
            BY <3>1, <5>1, <6>1 DEF Index
        <5> QED
          BY <2>0, <3>3, <4>1, <4>2, <4>5, <5>1, <5>2 DEF TypeOK
      <4>7. Contents' = newer
        BY <2>0, <3>1, <4>5, <4>6, SeqEqual DEF RingShows
      <4>8. Answered' = [Answered EXCEPT ![p] = Code(Callback(arg, Contents[k]))]
        BY <2>2, <4>1, <4>2 DEF Pending
      <4>9. Abs!Update(p)
        BY <3>1, <4>3, <4>7, <4>8 DEF Abs!Update, Abs!Answer, Code, Abs!Code
      <4> QED
        BY <3>1, <3>5, <4>9 DEF Abs!TakeEffect, NoAnswer, Abs!NoAnswer
    <3> QED
      BY <2>18, <3>6, <3>7, <3>8
  <2>19. ASSUME NEW p \in Proc, Unlock(p)
         PROVE  Abs!End(p)
    <3>1. /\ pc[p] = "unlock" /\ pc' = [pc EXCEPT ![p] = "idle"] /\ UNCHANGED <<queue, avail, tail>>
          /\ call' = [call EXCEPT ![p] = NoCall] /\ result' = [result EXCEPT ![p] = NoAnswer]
      BY <2>19 DEF Unlock
    <3>2. Answered[p] = result[p] /\ result[p] # NoAnswer
      BY <3>1 DEF Answered, Pending, Remembered, Remembers, Inside
    <3>3. Answered' = [Answered EXCEPT ![p] = NoAnswer]
      BY <2>2, <3>1
    <3>4. Oldest' = Oldest
      BY <2>0, <3>1 DEF Oldest, TypeOK
    <3>5. Contents' = Contents
      BY <2>5, <3>1, <3>4
    <3> QED
      BY <3>1, <3>2, <3>3, <3>5 DEF Abs!End, NoCall, Abs!NoCall, NoAnswer, Abs!NoAnswer
  <2> QED
    BY <2>1, <2>6, <2>7, <2>8, <2>9, <2>10, <2>11, <2>12, <2>14, <2>15, <2>16, <2>17, <2>18, <2>19
       DEF Next, Operation, Abs!Next
<1> QED
  BY <1>1, <1>5, RingInvariant, NothingIsForgotten, PTL DEF Spec, ImplementsQueue, Abs!Spec
===============================================================================
