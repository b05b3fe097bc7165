------------------------------- MODULE SbiFifo -------------------------------
(***************************************************************************)
(* lib/sbi/sbi_fifo.c: a ring of NumEntries slots, with the index of the   *)
(* oldest entry (tail) and the number of entries (avail), every access     *)
(* under the spin lock of lib/sbi/riscv_locks.c.  One action per access to *)
(* shared memory.                                                          *)
(***************************************************************************)
EXTENDS Naturals, Sequences

CONSTANTS Proc, Data, NumEntries, Callback(_, _), Rewrite(_, _)

\* A callback answers one of its three values and leaves an entry behind.
ASSUME RingAssumption ==
  /\ NumEntries \in Nat \ {0}
  /\ \A d, e \in Data : /\ Callback(d, e) \in {"unchanged", "skip", "updated"}
                        /\ Rewrite(d, e) \in Data

VARIABLES
  lock,    \* qlock: 0 or 1
  queue,   \* [Slot -> Data \cup {Zero}]: queue memory
  avail,
  tail,
  pc,
  call,    \* the operation and its argument
  i,       \* sbi_fifo_inplace_update: the loop index
  result   \* what the operation will return

vars == <<lock, queue, avail, tail, pc, call, i, result>>

\* Zeroed slots, the operations and the answers.
Slot     == 0 .. NumEntries - 1
Zero     == [zero |-> TRUE]
NoCall   == [op |-> "none"]
Call     == [op : {"enqueue", "update"}, arg : Data] \cup [op : {"dequeue", "reset", "avail"}]
NoAnswer == [code |-> "none"]
Code(c)  == [code |-> c]
Value(d) == [code |-> "ok", data |-> d]
Count(n) == [code |-> "ok", count |-> n]

Init ==
  /\ lock = 0
  /\ queue = [s \in Slot |-> Zero]
  /\ avail = 0 /\ tail = 0
  /\ pc = [p \in Proc |-> "idle"]
  /\ call = [p \in Proc |-> NoCall]
  /\ i = [p \in Proc |-> 0]
  /\ result = [p \in Proc |-> NoAnswer]

At(p, l)   == pc[p] = l
Goto(p, l) == pc' = [pc EXCEPT ![p] = l]

\* The ring index of the entry that is n places after the tail.
Index(n) == IF tail + n >= NumEntries THEN tail + n - NumEntries ELSE tail + n

-----------------------------------------------------------------------------
Begin(p) ==
  /\ At(p, "idle")
  /\ \E c \in Call : call' = [call EXCEPT ![p] = c]
  /\ Goto(p, "lock_check")
  /\ UNCHANGED <<lock, queue, avail, tail, i, result>>

\* spin_lock: look at the lock until it is free, then try the swap.
LockCheck(p) ==
  /\ At(p, "lock_check") /\ lock = 0
  /\ Goto(p, "trylock")
  /\ UNCHANGED <<lock, queue, avail, tail, call, i, result>>

\* Mutant: the value the swap returned is not looked at.
TryLockBlind(p) ==
  /\ At(p, "trylock")
  /\ lock' = 1
  /\ Goto(p, call[p].op)
  /\ UNCHANGED <<queue, avail, tail, call, i, result>>

TryLock(p) ==
  /\ At(p, "trylock")
  /\ lock' = 1
  /\ Goto(p, IF lock = 0 THEN call[p].op ELSE "lock_check")
  /\ UNCHANGED <<queue, avail, tail, call, i, result>>

\* The answer is known: unlock and return it.
Finish(p, a) ==
  /\ result' = [result EXCEPT ![p] = a]
  /\ Goto(p, "unlock")

\* Mutant: a full fifo returns without unlocking.
EnqueueFullLocked(p) ==
  /\ At(p, "enqueue") /\ avail = NumEntries
  /\ call' = [call EXCEPT ![p] = NoCall]
  /\ Goto(p, "idle")
  /\ UNCHANGED <<lock, queue, avail, tail, i, result>>

EnqueueFull(p) ==
  /\ At(p, "enqueue") /\ avail = NumEntries
  /\ Finish(p, Code("ENOSPC"))
  /\ UNCHANGED <<lock, queue, avail, tail, call, i>>

\* Mutant: no test for a full fifo.
EnqueueCopyUnchecked(p) ==
  /\ At(p, "enqueue")
  /\ queue' = [queue EXCEPT ![Index(avail)] = call[p].arg]
  /\ Goto(p, "enqueue_count")
  /\ UNCHANGED <<lock, avail, tail, call, i, result>>

\* Mutant: one slot too far.
EnqueueCopyAhead(p) ==
  /\ At(p, "enqueue") /\ avail # NumEntries
  /\ queue' = [queue EXCEPT ![Index(avail + 1)] = call[p].arg]
  /\ Goto(p, "enqueue_count")
  /\ UNCHANGED <<lock, avail, tail, call, i, result>>

EnqueueCopy(p) ==
  /\ At(p, "enqueue") /\ avail # NumEntries
  /\ queue' = [queue EXCEPT ![Index(avail)] = call[p].arg]
  /\ Goto(p, "enqueue_count")
  /\ UNCHANGED <<lock, avail, tail, call, i, result>>

EnqueueCount(p) ==
  /\ At(p, "enqueue_count")
  /\ avail' = avail + 1
  /\ Finish(p, Code("ok"))
  /\ UNCHANGED <<lock, queue, tail, call, i>>

DequeueEmpty(p) ==
  /\ At(p, "dequeue") /\ avail = 0
  /\ Finish(p, Code("ENOENT"))
  /\ UNCHANGED <<lock, queue, avail, tail, call, i>>

DequeueCopy(p) ==
  /\ At(p, "dequeue") /\ avail # 0
  /\ result' = [result EXCEPT ![p] = Value(queue[tail])]
  /\ Goto(p, "dequeue_count")
  /\ UNCHANGED <<lock, queue, avail, tail, call, i>>

DequeueCount(p) ==
  /\ At(p, "dequeue_count")
  /\ avail' = avail - 1
  /\ Goto(p, "dequeue_tail")
  /\ UNCHANGED <<lock, queue, tail, call, i, result>>

DequeueTail(p) ==
  /\ At(p, "dequeue_tail")
  /\ tail' = tail + 1
  /\ Goto(p, "dequeue_wrap")
  /\ UNCHANGED <<lock, queue, avail, call, i, result>>

DequeueWrap(p) ==
  /\ At(p, "dequeue_wrap")
  /\ tail' = IF tail >= NumEntries THEN 0 ELSE tail
  /\ Goto(p, "unlock")
  /\ UNCHANGED <<lock, queue, avail, call, i, result>>

\* sbi_fifo_inplace_update: an empty fifo, or the end of the loop
UpdateEnd(p) ==
  /\ At(p, "update") /\ i[p] >= avail
  /\ Finish(p, Code("unchanged"))
  /\ UNCHANGED <<lock, queue, avail, tail, call, i>>

\* Mutant: the scan starts at slot 0 and not at the tail.
UpdateEntryFromZero(p) ==
  /\ At(p, "update") /\ i[p] < avail
  /\ LET ret == Callback(call[p].arg, queue[i[p]])
     IN  IF ret = "unchanged"
           THEN /\ i' = [i EXCEPT ![p] = @ + 1]
                /\ UNCHANGED <<queue, pc, result>>
           ELSE /\ queue' = [queue EXCEPT ![i[p]] = Rewrite(call[p].arg, @)]
                /\ Finish(p, Code(ret))
                /\ UNCHANGED i
  /\ UNCHANGED <<lock, avail, tail, call>>

\* ... and one turn of it.
UpdateEntry(p) ==
  /\ At(p, "update") /\ i[p] < avail
  /\ LET s   == Index(i[p])
         ret == Callback(call[p].arg, queue[s])
     IN  IF ret = "unchanged"
           THEN /\ i' = [i EXCEPT ![p] = @ + 1]
                /\ UNCHANGED <<queue, pc, result>>
           ELSE /\ queue' = [queue EXCEPT ![s] = Rewrite(call[p].arg, @)]
                /\ Finish(p, Code(ret))
                /\ UNCHANGED i
  /\ UNCHANGED <<lock, avail, tail, call>>

ResetCount(p) ==
  /\ At(p, "reset")
  /\ avail' = 0
  /\ Goto(p, "reset_tail")
  /\ result' = [result EXCEPT ![p] = Code("ok")]
  /\ UNCHANGED <<lock, queue, tail, call, i>>

ResetTail(p) ==
  /\ At(p, "reset_tail")
  /\ tail' = 0
  /\ Goto(p, "reset_memory")
  /\ UNCHANGED <<lock, queue, avail, call, i, result>>

ResetMemory(p) ==
  /\ At(p, "reset_memory")
  /\ queue' = [s \in Slot |-> Zero]
  /\ Goto(p, "unlock")
  /\ UNCHANGED <<lock, avail, tail, call, i, result>>

\* sbi_fifo_avail; sbi_fifo_is_full and sbi_fifo_is_empty compare the same count.
ReadAvail(p) ==
  /\ At(p, "avail")
  /\ Finish(p, Count(avail))
  /\ UNCHANGED <<lock, queue, avail, tail, call, i>>

\* spin_unlock and return; the locals of the operation are gone.
Unlock(p) ==
  /\ At(p, "unlock")
  /\ lock' = 0
  /\ Goto(p, "idle")
  /\ call' = [call EXCEPT ![p] = NoCall]
  /\ i' = [i EXCEPT ![p] = 0]
  /\ result' = [result EXCEPT ![p] = NoAnswer]
  /\ UNCHANGED <<queue, avail, tail>>

Operation(p) ==
  \/ LockCheck(p) \/ TryLock(p) \/ Unlock(p)
  \/ EnqueueFull(p) \/ EnqueueCopy(p) \/ EnqueueCount(p)
  \/ DequeueEmpty(p) \/ DequeueCopy(p) \/ DequeueCount(p) \/ DequeueTail(p) \/ DequeueWrap(p)
  \/ UpdateEnd(p) \/ UpdateEntry(p)
  \/ ResetCount(p) \/ ResetTail(p) \/ ResetMemory(p)
  \/ ReadAvail(p)

Next == \E p \in Proc : Begin(p) \/ Operation(p)

Spec == Init /\ [][Next]_vars

FairSpec == Spec /\ \A p \in Proc : WF_vars(Operation(p))

-----------------------------------------------------------------------------
(* Properties *)

Outside  == {"idle", "lock_check", "trylock"}
Inside   == {"enqueue", "enqueue_count", "dequeue", "dequeue_count", "dequeue_tail",
             "dequeue_wrap", "update", "reset", "reset_tail", "reset_memory", "avail", "unlock"}

Answers == {NoAnswer} \cup {Code(c) : c \in {"ok", "ENOSPC", "ENOENT", "unchanged",
                                             "skip", "updated"}}
             \cup {Value(d) : d \in Data \cup {Zero}}
             \cup {Count(n) : n \in 0 .. NumEntries}

\* Every variable has its type: the counters stay in the ring, where tail may
\* stand one past the last slot only between its increment and its wrap.
TypeOK ==
  /\ lock \in {0, 1}
  /\ queue \in [Slot -> Data \cup {Zero}]
  /\ avail \in 0 .. NumEntries
  /\ tail \in 0 .. NumEntries
  /\ pc \in [Proc -> Outside \cup Inside]
  /\ call \in [Proc -> Call \cup {NoCall}]
  /\ i \in [Proc -> 0 .. NumEntries]
  /\ result \in [Proc -> Answers]

\* At most one hart is between spin_lock and spin_unlock, and then the lock is
\* taken: two harts that both saw it free in spin_lock_check are told apart by
\* the swap.
MutualExclusion ==
  \A p \in Proc :
    pc[p] \in Inside => lock = 1 /\ \A o \in Proc : pc[o] \in Inside => o = p

\* The slots avail counts from tail never hold memory nobody wrote; between
\* the two halves of a dequeue the entries start one place further.
Oldest == IF \E p \in Proc : pc[p] = "dequeue_tail" THEN 1 ELSE 0
LiveSlotsWritten == \A n \in 1 .. avail : queue[Index(n - 1 + Oldest)] \in Data

\* The refinement: the ring is the bounded queue, and each operation takes
\* effect where it changes avail (or rewrites an entry, or fails).
Pending == {"lock_check", "trylock", "enqueue", "enqueue_count", "dequeue",
            "dequeue_count", "update", "reset", "avail"}
Contents == [n \in 1 .. avail |-> queue[Index(n - 1 + Oldest)]]
Answered == [p \in Proc |-> IF pc[p] \in Pending THEN NoAnswer ELSE result[p]]

Abs == INSTANCE SbiFifoAbs WITH q <- Contents, call <- call, result <- Answered

\* The ring implements the bounded queue.
ImplementsQueue == Abs!Spec

\* The lock never stays taken: every critical section ends.
LockReleased == lock = 1 ~> lock = 0
=============================================================================
