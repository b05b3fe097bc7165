----------------------------- MODULE SbiFifoAbs ------------------------------
(***************************************************************************)
(* What callers of lib/sbi/sbi_fifo.c rely on: a bounded queue whose       *)
(* operations take effect at one instant between call and return.          *)
(***************************************************************************)
EXTENDS Naturals, Sequences

CONSTANTS
  Proc,              \* the harts that use the fifo
  Data,              \* the entries
  NumEntries,        \* its capacity
  Callback(_, _),    \* fptr(in, entry): "skip", "updated" or "unchanged"
  Rewrite(_, _)      \* the entry after a callback that returned another answer

VARIABLES
  q,        \* the queue
  call,     \* [Proc -> Call \cup {NoCall}]: the operation in progress
  result    \* [Proc -> Answer \cup {NoAnswer}]: what it will return

vars == <<q, call, result>>

NoCall   == [op |-> "none"]
Call     == [op : {"enqueue", "update"}, arg : Data] \cup [op : {"dequeue", "reset", "avail"}]
NoAnswer == [code |-> "none"]
Code(c)  == [code |-> c]
Value(d) == [code |-> "ok", data |-> d]
Count(n) == [code |-> "ok", count |-> n]

Init ==
  /\ q = <<>>
  /\ call = [p \in Proc |-> NoCall]
  /\ result = [p \in Proc |-> NoAnswer]

Begin(p) ==
  /\ call[p] = NoCall
  /\ \E c \in Call : call' = [call EXCEPT ![p] = c]
  /\ UNCHANGED <<q, result>>

Answer(p, a) == result' = [result EXCEPT ![p] = a]

Enqueue(p) ==
  /\ call[p].op = "enqueue"
  /\ IF Len(q) = NumEntries
       THEN q' = q /\ Answer(p, Code("ENOSPC"))
       ELSE q' = Append(q, call[p].arg) /\ Answer(p, Code("ok"))

Dequeue(p) ==
  /\ call[p].op = "dequeue"
  /\ IF q = <<>>
       THEN q' = q /\ Answer(p, Code("ENOENT"))
       ELSE q' = Tail(q) /\ Answer(p, Value(Head(q)))

\* The first entry the callback does not leave unchanged is rewritten.
Update(p) ==
  /\ call[p].op = "update"
  /\ LET hits == {i \in 1 .. Len(q) : Callback(call[p].arg, q[i]) # "unchanged"}
     IN  \/ /\ hits = {}
            /\ q' = q
            /\ Answer(p, Code("unchanged"))
         \/ \E i \in hits :
              /\ \A j \in hits : i <= j
              /\ q' = [q EXCEPT ![i] = Rewrite(call[p].arg, q[i])]
              /\ Answer(p, Code(Callback(call[p].arg, q[i])))

Reset(p) ==
  /\ call[p].op = "reset"
  /\ q' = <<>>
  /\ Answer(p, Code("ok"))

Avail(p) ==
  /\ call[p].op = "avail"
  /\ q' = q
  /\ Answer(p, Count(Len(q)))

TakeEffect(p) ==
  /\ result[p] = NoAnswer
  /\ Enqueue(p) \/ Dequeue(p) \/ Update(p) \/ Reset(p) \/ Avail(p)
  /\ UNCHANGED call

End(p) ==
  /\ result[p] # NoAnswer
  /\ call' = [call EXCEPT ![p] = NoCall]
  /\ result' = [result EXCEPT ![p] = NoAnswer]
  /\ UNCHANGED q

Next == \E p \in Proc : Begin(p) \/ TakeEffect(p) \/ End(p)

Spec == Init /\ [][Next]_vars
=============================================================================
