--------------------------- MODULE SbiTlbAckProofs ---------------------------
(***************************************************************************)
(* Acknowledgements and wake-ups, for every value of the constants.        *)
(*                                                                         *)
(* One acknowledgement per waiting hart: each step either leaves the place *)
(* of every acknowledgement alone, or puts one in a fifo, takes an entry   *)
(* out of a fifo, raises one flag or takes one flag.                       *)
(* Nothing is forgotten and no fifo outgrows the other harts: events keep  *)
(* an interrupt or a handler, queued requests keep an event, and a         *)
(* requester has one entry at most.                                        *)
(***************************************************************************)
EXTENDS SbiTlbProofs, FiniteSetTheorems

\* Nothing moves.
LEMMA NothingMoves ==
  ASSUME TypeOK, OneAckEach,
         UNCHANGED <<fifo, tlb_sync>>,
         \A r, t \in Hart : Serving(r, t)' <=> Serving(r, t),
         \A r \in Hart : Waiting(r)' <=> Waiting(r),
         \A r \in Hart : Waiting(r) => remote'[r] = remote[r]
  PROVE  OneAckEach'
<1>1. \A r, t \in Hart, i \in Position : Queued(r, t, i)' <=> Queued(r, t, i)
  BY DEF Queued
<1> SUFFICES ASSUME NEW r \in Hart
             PROVE  (QueuedOnce(r) /\ ServedOnce(r) /\ FlagIsFresh(r) /\ NotForgotten(r))'
  BY DEF OneAckEach
<1>2. QueuedOnce(r) /\ ServedOnce(r) /\ FlagIsFresh(r) /\ NotForgotten(r)
  BY DEF OneAckEach
<1>3. QueuedOnce(r)'
  BY <1>1, <1>2 DEF QueuedOnce
<1>4. ServedOnce(r)'
  BY <1>2 DEF ServedOnce
<1>5. FlagIsFresh(r)'
  BY <1>2 DEF FlagIsFresh
<1>6. NotForgotten(r)'
  <2>1. CASE ~Waiting(r)'
    BY <2>1 DEF NotForgotten
  <2>2. CASE Waiting(r)'
    <3>1. Waiting(r) /\ remote'[r] = remote[r]
      BY <2>2
    <3>2. CASE tlb_sync[r] = 1
      BY <3>2 DEF NotForgotten
    <3>3. CASE \E t \in Hart : t = remote[r] /\ Serving(r, t)
      BY <3>1, <3>3 DEF NotForgotten
    <3>4. CASE \E t \in Hart, i \in Position : t = remote[r] /\ Queued(r, t, i)
      BY <1>1, <3>1, <3>4 DEF NotForgotten
    <3> QED
      BY <1>2, <3>1, <3>2, <3>3, <3>4 DEF NotForgotten, TypeOK
  <2> QED
    BY <2>1, <2>2
<1> QED
  BY <1>3, <1>4, <1>5, <1>6

\* Hart h puts its request in t's fifo, as an entry of its own or merged.
LEMMA OneJoins ==
  ASSUME TypeOK, OneAckEach,
         NEW h \in Hart, NEW t \in Hart, NEW p \in Position,
         ~Waiting(h), Waiting(h)', remote'[h] = t,
         UNCHANGED tlb_sync,
         \A r, u \in Hart, i \in Position :
           Queued(r, u, i)' <=> Queued(r, u, i) \/ (r = h /\ u = t /\ i = p),
         \A r, u \in Hart : Serving(r, u)' <=> Serving(r, u),
         \A r \in Hart \ {h} : (Waiting(r)' <=> Waiting(r)) /\ remote'[r] = remote[r]
  PROVE  OneAckEach'
<1> SUFFICES ASSUME NEW r \in Hart
             PROVE  (QueuedOnce(r) /\ ServedOnce(r) /\ FlagIsFresh(r) /\ NotForgotten(r))'
  BY DEF OneAckEach
<1>1. QueuedOnce(r) /\ ServedOnce(r) /\ FlagIsFresh(r) /\ NotForgotten(r)
  BY DEF OneAckEach
<1>2. CASE r = h
  <2>1. \A u \in Hart, i \in Position : ~Queued(h, u, i)
    BY <1>1, <1>2 DEF QueuedOnce
  <2>2. \A u \in Hart : ~Serving(h, u)
    BY <1>1, <1>2 DEF ServedOnce
  <2>3. tlb_sync[h] = 0
    BY <1>1, <1>2 DEF FlagIsFresh, TypeOK
  <2>4. \A u \in Hart, i \in Position : Queued(h, u, i)' <=> u = t /\ i = p
    BY <2>1
  <2>5. \A u \in Hart : ~Serving(h, u)'
    BY <2>2
  <2>6. QueuedOnce(h)'
    BY <2>3, <2>4, <2>5 DEF QueuedOnce
  <2>7. ServedOnce(h)'
    BY <2>5 DEF ServedOnce
  <2>8. FlagIsFresh(h)' /\ NotForgotten(h)'
    BY <2>4 DEF FlagIsFresh, NotForgotten
  <2> QED
    BY <1>2, <2>6, <2>7, <2>8
<1>3. CASE r # h
  <2>1. (Waiting(r)' <=> Waiting(r)) /\ remote'[r] = remote[r]
    BY <1>3
  <2>2. \A u \in Hart, i \in Position : Queued(r, u, i)' <=> Queued(r, u, i)
    BY <1>3
  <2>3. QueuedOnce(r)'
    BY <1>1, <2>1, <2>2 DEF QueuedOnce
  <2>4. ServedOnce(r)'
    BY <1>1, <2>1 DEF ServedOnce
  <2>5. FlagIsFresh(r)'
    BY <1>1, <2>1 DEF FlagIsFresh
  <2>6. NotForgotten(r)'
    <3>1. remote[r] \in Hart
      BY DEF TypeOK
    <3>2. Serving(r, remote[r]) => Serving(r, remote[r])'
      BY <2>1, <3>1 DEF Serving
    <3> QED
      BY <1>1, <2>1, <2>2, <3>1, <3>2 DEF NotForgotten
  <2> QED
    BY <2>3, <2>4, <2>5, <2>6
<1> QED
  BY <1>2, <1>3

\* Hart h takes the oldest entry of its fifo and owes its acknowledgements.
LEMMA OneIsServed ==
  ASSUME TypeOK, OneAckEach, NEW h \in Hart,
         UNCHANGED <<tlb_sync, remote>>,
         \A r, u \in Hart, i \in Position :
           Queued(r, u, i)' <=> IF u = h THEN i + 1 \in Position /\ Queued(r, h, i + 1)
                                         ELSE Queued(r, u, i),
         \A r, u \in Hart : Serving(r, u)' <=> IF u = h THEN Queued(r, h, 1) ELSE Serving(r, u),
         \A r \in Hart : ~Serving(r, h),
         \A r \in Hart : Waiting(r)' <=> Waiting(r)
  PROVE  OneAckEach'
<1> SUFFICES ASSUME NEW r \in Hart
             PROVE  (QueuedOnce(r) /\ ServedOnce(r) /\ FlagIsFresh(r) /\ NotForgotten(r))'
  BY DEF OneAckEach
<1>1. QueuedOnce(r) /\ ServedOnce(r) /\ FlagIsFresh(r) /\ NotForgotten(r)
  BY DEF OneAckEach
<1>2. 1 \in Position /\ Position \subseteq Nat
  BY TlbAssumption DEF Position
<1>3. QueuedOnce(r)'
  <2> SUFFICES ASSUME NEW u \in Hart, NEW i \in Position, Queued(r, u, i)'
               PROVE  /\ Waiting(r)' /\ u = remote'[r]
                      /\ tlb_sync'[r] = 0 /\ ~Serving(r, u)'
                      /\ \A j \in Position : Queued(r, u, j)' => j = i
    BY DEF QueuedOnce
  <2>1. CASE u = h
    <3>1. i + 1 \in Position /\ Queued(r, h, i + 1)
      BY <2>1
    <3>2. Waiting(r) /\ h = remote[r] /\ tlb_sync[r] = 0
      BY <1>1, <3>1 DEF QueuedOnce
    <3>3. ~Queued(r, h, 1)
      <4>1. i + 1 # 1
        BY <1>2 DEF Position
      <4> QED
        BY <1>1, <1>2, <3>1, <4>1 DEF QueuedOnce
    <3>4. ASSUME NEW j \in Position, Queued(r, u, j)' PROVE j = i
      <4>1. j + 1 \in Position /\ Queued(r, h, j + 1)
        BY <2>1, <3>4
      <4>2. j + 1 = i + 1
        BY <1>1, <3>1, <4>1 DEF QueuedOnce
      <4> QED
        BY <1>2, <4>2
    <3> QED
      BY <2>1, <3>2, <3>3, <3>4
  <2>2. CASE u # h
    <3>1. Queued(r, u, i)
      BY <2>2
    <3> QED
      BY <1>1, <2>2, <3>1 DEF QueuedOnce
  <2> QED
    BY <2>1, <2>2
<1>4. ServedOnce(r)'
  <2> SUFFICES ASSUME NEW u \in Hart, Serving(r, u)'
               PROVE  Waiting(r)' /\ u = remote'[r] /\ tlb_sync'[r] = 0
    BY DEF ServedOnce
  <2>1. CASE u = h
    BY <1>1, <1>2, <2>1 DEF QueuedOnce
  <2>2. CASE u # h
    BY <1>1, <2>2 DEF ServedOnce
  <2> QED
    BY <2>1, <2>2
<1>5. FlagIsFresh(r)'
  BY <1>1 DEF FlagIsFresh
<1>6. NotForgotten(r)'
  <2> SUFFICES ASSUME Waiting(r), tlb_sync[r] # 1
               PROVE  \/ Serving(r, remote[r])'
                      \/ \E i \in Position : Queued(r, remote[r], i)'
    BY DEF NotForgotten
  <2>1. remote[r] \in Hart
    BY DEF TypeOK
  <2>2. CASE Serving(r, remote[r])
    BY <2>1, <2>2
  <2>3. CASE ~Serving(r, remote[r])
    <3>1. PICK i \in Position : Queued(r, remote[r], i)
      BY <1>1, <2>3 DEF NotForgotten
    <3>2. CASE remote[r] # h
      BY <2>1, <3>1, <3>2
    <3>3. CASE remote[r] = h /\ i = 1
      BY <2>1, <3>1, <3>3
    <3>4. CASE remote[r] = h /\ i # 1
      <4>1. i - 1 \in Position /\ (i - 1) + 1 = i
        BY <3>4, TlbAssumption DEF Position
      <4>2. Queued(r, h, i - 1)'
        BY <3>1, <3>4, <4>1
      <4> QED
        BY <3>4, <4>1, <4>2
    <3> QED
      BY <3>2, <3>3, <3>4
  <2> QED
    BY <2>2, <2>3
<1> QED
  BY <1>3, <1>4, <1>5, <1>6

\* Hart h gives o the acknowledgement it owes.
LEMMA OneIsAnswered ==
  ASSUME TypeOK, OneAckEach, NEW h \in Hart, NEW o \in Hart, Serving(o, h),
         UNCHANGED <<fifo, remote>>,
         tlb_sync' = [tlb_sync EXCEPT ![o] = 1],
         \A r, u \in Hart : Serving(r, u)' <=> Serving(r, u) /\ ~(r = o /\ u = h),
         \A r \in Hart : Waiting(r)' <=> Waiting(r)
  PROVE  OneAckEach'
<1> SUFFICES ASSUME NEW r \in Hart
             PROVE  (QueuedOnce(r) /\ ServedOnce(r) /\ FlagIsFresh(r) /\ NotForgotten(r))'
  BY DEF OneAckEach
<1>1. QueuedOnce(r) /\ ServedOnce(r) /\ FlagIsFresh(r) /\ NotForgotten(r)
  BY DEF OneAckEach
<1>2. \A u \in Hart, i \in Position : Queued(r, u, i)' <=> Queued(r, u, i)
  BY DEF Queued
<1>3. CASE r = o
  <2>1. Waiting(o) /\ h = remote[o]
    BY <1>1, <1>3 DEF ServedOnce
  <2>2. \A u \in Hart, i \in Position : ~Queued(o, u, i)
    BY <1>1, <1>3, <2>1 DEF QueuedOnce
  <2>3. \A u \in Hart : ~Serving(o, u)'
    BY <1>1, <1>3, <2>1 DEF ServedOnce
  <2>4. tlb_sync'[o] = 1
    BY DEF TypeOK
  <2>5. QueuedOnce(o)'
    BY <1>2, <1>3, <2>2 DEF QueuedOnce
  <2>6. ServedOnce(o)'
    BY <2>3 DEF ServedOnce
  <2> QED
    BY <1>3, <2>1, <2>4, <2>5, <2>6 DEF FlagIsFresh, NotForgotten
<1>4. CASE r # o
  <2>1. tlb_sync'[r] = tlb_sync[r]
    BY <1>4 DEF TypeOK
  <2>2. \A u \in Hart : Serving(r, u)' <=> Serving(r, u)
    BY <1>4
  <2>3. QueuedOnce(r)'
    BY <1>1, <1>2, <2>1, <2>2 DEF QueuedOnce
  <2>4. ServedOnce(r)'
    BY <1>1, <2>1, <2>2 DEF ServedOnce
  <2>5. FlagIsFresh(r)'
    BY <1>1, <2>1 DEF FlagIsFresh
  <2>6. NotForgotten(r)'
    <3>1. remote[r] \in Hart
      BY DEF TypeOK
    <3> QED
      BY <1>1, <1>2, <2>1, <2>2, <3>1 DEF NotForgotten
  <2> QED
    BY <2>3, <2>4, <2>5, <2>6
<1> QED
  BY <1>3, <1>4

\* Hart h takes its flag and stops waiting.
LEMMA OneReturns ==
  ASSUME TypeOK, OneAckEach, NEW h \in Hart, tlb_sync[h] = 1, ~Waiting(h)',
         UNCHANGED <<fifo, remote>>,
         tlb_sync' = [tlb_sync EXCEPT ![h] = 0],
         \A r, u \in Hart : Serving(r, u)' <=> Serving(r, u),
         \A r \in Hart \ {h} : Waiting(r)' <=> Waiting(r)
  PROVE  OneAckEach'
<1> SUFFICES ASSUME NEW r \in Hart
             PROVE  (QueuedOnce(r) /\ ServedOnce(r) /\ FlagIsFresh(r) /\ NotForgotten(r))'
  BY DEF OneAckEach
<1>1. QueuedOnce(r) /\ ServedOnce(r) /\ FlagIsFresh(r) /\ NotForgotten(r)
  BY DEF OneAckEach
<1>2. \A u \in Hart, i \in Position : Queued(r, u, i)' <=> Queued(r, u, i)
  BY DEF Queued
<1>3. CASE r = h
  <2>1. \A u \in Hart, i \in Position : ~Queued(h, u, i)
    BY <1>1, <1>3 DEF QueuedOnce
  <2>2. \A u \in Hart : ~Serving(h, u)
    BY <1>1, <1>3 DEF ServedOnce
  <2>3. tlb_sync'[h] = 0
    BY DEF TypeOK
  <2> QED
    BY <1>2, <1>3, <2>1, <2>2, <2>3 DEF QueuedOnce, ServedOnce, FlagIsFresh, NotForgotten
<1>4. CASE r # h
  <2>1. tlb_sync'[r] = tlb_sync[r] /\ (Waiting(r)' <=> Waiting(r))
    BY <1>4 DEF TypeOK
  <2>2. QueuedOnce(r)'
    BY <1>1, <1>2, <2>1 DEF QueuedOnce
  <2>3. ServedOnce(r)' /\ FlagIsFresh(r)'
    BY <1>1, <2>1 DEF ServedOnce, FlagIsFresh
  <2>4. NotForgotten(r)'
    <3>1. remote[r] \in Hart
      BY DEF TypeOK
    <3> QED
      BY <1>1, <1>2, <2>1, <3>1 DEF NotForgotten
  <2> QED
    BY <2>2, <2>3, <2>4
<1> QED
  BY <1>3, <1>4
-----------------------------------------------------------------------------
\* A step of h leaves every other hart where it is.
LEMMA OthersWait ==
  ASSUME NEW h \in Hart,
         \A r \in Hart \ {h} : pc'[r] = pc[r] /\ event'[r] = event[r] /\ caller'[r] = caller[r]
  PROVE  \A r \in Hart \ {h} : Waiting(r)' <=> Waiting(r)
BY DEF Waiting

\* The steps of h that neither send a request nor take nor give an answer.
LEMMA QuietSteps ==
  ASSUME TypeOK, Control, OneAckEach, NEW h \in Hart,
         \/ Call(h) \/ NextSmode(h) \/ SendManyReturn(h) \/ UpdateSelf(h)
         \/ SetBit(h) \/ IpiSend(h) \/ DequeueEmpty(h)
         \/ Trap(h) \/ TakeBits(h) \/ ProcessSmode(h) \/ ProcessTlb(h) \/ TrapReturn(h)
         \/ ClearSmode(h)
  PROVE  OneAckEach'
<1> USE DEF sendVars, serveVars, trapVars, ipiVars, Goto
<1>1. UNCHANGED <<fifo, tlb_sync, acks>>
  BY DEF Call, TlbRequest, SendSmode, CallSendMany, NextSmode, SendManyReturn, UpdateSelf, SetBit,
         IpiSend, DequeueEmpty, Trap, TakeBits, ProcessSmode, ProcessTlb, TrapReturn, ClearSmode
<1>2. pc[h] # "ack" /\ pc'[h] # "ack" /\ \A r \in Hart \ {h} : pc'[r] = pc[r]
  BY DEF Call, TlbRequest, SendSmode, CallSendMany, NextSmode, NextTarget, SendManyReturn,
         UpdateSelf, SetBit, IpiSend, DequeueEmpty, LeaveLoop, ReturnPoint, Trap, TakeBits,
         ProcessSmode, ProcessTlb, TrapReturn, ClearSmode, TypeOK
<1>3. \A r, t \in Hart : Serving(r, t)' <=> Serving(r, t)
  BY <1>1, <1>2 DEF Serving
<1>4. \A r \in Hart \ {h} :
        event'[r] = event[r] /\ caller'[r] = caller[r] /\ remote'[r] = remote[r]
  BY DEF Call, TlbRequest, SendSmode, CallSendMany, NextSmode, NextTarget, SendManyReturn,
         UpdateSelf, SetBit, IpiSend, DequeueEmpty, LeaveLoop, Trap, TakeBits,
         ProcessSmode, ProcessTlb, TrapReturn, ClearSmode, TypeOK
<1>5. (Waiting(h)' <=> Waiting(h)) /\ (Waiting(h) => remote'[h] = remote[h])
  <2> USE DEF Waiting, TypeOK, Control, IPI_SMODE, IPI_TLB
  <2>1. CASE Call(h)
    BY <2>1 DEF Call, TlbRequest, SendSmode, CallSendMany
  <2>2. CASE NextSmode(h)
    BY <2>2 DEF NextSmode, NextTarget
  <2>3. CASE SendManyReturn(h)
    BY <2>3 DEF SendManyReturn
  <2>4. CASE UpdateSelf(h)
    BY <2>4 DEF UpdateSelf, NextTarget
  <2>5. CASE SetBit(h)
    BY <2>5 DEF SetBit
  <2>6. CASE IpiSend(h)
    BY <2>6 DEF IpiSend
  <2>7. CASE DequeueEmpty(h)
    BY <2>7 DEF DequeueEmpty, LeaveLoop, ReturnPoint
  <2>8. CASE Trap(h) \/ TakeBits(h) \/ ProcessSmode(h)
    BY <2>8 DEF Trap, TakeBits, ProcessSmode
  <2>9. CASE ProcessTlb(h) \/ TrapReturn(h) \/ ClearSmode(h)
    BY <2>9 DEF ProcessTlb, TrapReturn, ClearSmode
  <2> QED
    BY <2>1, <2>2, <2>3, <2>4, <2>5, <2>6, <2>7, <2>8, <2>9
<1>6. \A r \in Hart \ {h} : Waiting(r)' <=> Waiting(r)
  BY <1>2, <1>4, OthersWait
<1> QED
  BY <1>1, <1>3, <1>4, <1>5, <1>6, NothingMoves

LEMMA UpdateRemoteStep ==
  ASSUME TypeOK, Control, OneAckEach, NEW h \in Hart, UpdateRemote(h)
  PROVE  OneAckEach'
<1> DEFINE next == Upgrade(tinfo[h])
<1>1. next \in Entry /\ next.shart_mask = {h}
  BY EntryType DEF TypeOK, Control
<1>2. PICK t \in Hart \ {h} :
        /\ NextTarget(h, t)
        /\ \/ Goto(h, "enqueue") /\ UNCHANGED fifo
           \/ \E i \in MergePoints(fifo[t], next) :
                /\ fifo' = [fifo EXCEPT ![t][i] = Merged(@, next)]
                /\ Goto(h, "set_bit")
  BY DEF UpdateRemote
<1>3. /\ pc[h] = "send_many" /\ event[h] = IPI_TLB /\ remote' = [remote EXCEPT ![h] = t]
      /\ UNCHANGED <<tlb_sync, event, caller, acks>>
  BY <1>2 DEF UpdateRemote, NextTarget, serveVars
<1>4. pc' = [pc EXCEPT ![h] = "enqueue"] \/ pc' = [pc EXCEPT ![h] = "set_bit"]
  BY <1>2 DEF Goto
<1>5. pc'[h] \in {"enqueue", "set_bit"} /\ \A r \in Hart \ {h} : pc'[r] = pc[r]
  BY <1>4 DEF TypeOK
<1>6. \A r, u \in Hart : Serving(r, u)' <=> Serving(r, u)
  BY <1>3, <1>5 DEF Serving
<1>7. \A r \in Hart \ {h} : (Waiting(r)' <=> Waiting(r)) /\ remote'[r] = remote[r]
  BY <1>3, <1>5, OthersWait DEF TypeOK
<1>8. ~Waiting(h) /\ remote'[h] = t
  BY <1>3 DEF Waiting, TypeOK
<1> HIDE DEF next
<1>9. CASE Goto(h, "enqueue") /\ UNCHANGED fifo
  <2>1. ~Waiting(h)'
    BY <1>9 DEF Goto, Waiting, TypeOK
  <2> QED
    BY <1>3, <1>6, <1>7, <1>8, <1>9, <2>1, NothingMoves
<1>10. CASE \E i \in MergePoints(fifo[t], next) :
              fifo' = [fifo EXCEPT ![t][i] = Merged(@, next)] /\ Goto(h, "set_bit")
  <2>1. PICK p \in 1 .. Len(fifo[t]) :
          fifo' = [fifo EXCEPT ![t][p] = Merged(@, next)] /\ Goto(h, "set_bit")
    BY <1>10 DEF MergePoints
  <2>2. fifo[t] \in Seq(Entry) /\ fifo[t][p] \in Entry /\ Len(fifo[t]) <= FifoEntries
    BY ElementOfSeq DEF TypeOK
  <2>3. p \in Position
    BY <2>2, TlbAssumption DEF Position
  <2> DEFINE m == Merged(fifo[t][p], next)
  <2>4. m \in Entry /\ m.shart_mask = fifo[t][p].shart_mask \cup {h}
    BY <1>1, <2>2, EntryType
  <2>5. fifo' = [fifo EXCEPT ![t] = [fifo[t] EXCEPT ![p] = m]]
    BY <2>1
  <2> HIDE DEF m
  <2>6. /\ fifo'[t] = [fifo[t] EXCEPT ![p] = m]
        /\ \A u \in Hart \ {t} : fifo'[u] = fifo[u]
    BY <2>5 DEF TypeOK
  <2>7. /\ Len(fifo'[t]) = Len(fifo[t])
        /\ \A i \in 1 .. Len(fifo[t]) : fifo'[t][i] = IF i = p THEN m ELSE fifo[t][i]
    BY <2>2, <2>4, <2>6, ExceptSeq
  <2>8. ASSUME NEW r \in Hart, NEW u \in Hart, NEW i \in Position
        PROVE  Queued(r, u, i)' <=> Queued(r, u, i) \/ (r = h /\ u = t /\ i = p)
    <3>1. CASE u # t
      BY <2>6, <3>1 DEF Queued
    <3>2. CASE u = t /\ i \notin 1 .. Len(fifo[t])
      <4>1. ~(i <= Len(fifo[t]))
        BY <2>2, <3>2, TlbAssumption DEF Position
      <4> QED
        BY <2>7, <3>2, <4>1 DEF Queued
    <3>3. CASE u = t /\ i \in 1 .. Len(fifo[t])
      BY <2>4, <2>7, <3>3 DEF Queued
    <3> QED
      BY <3>1, <3>2, <3>3
  <2>9. Waiting(h)'
    BY <1>3, <2>1 DEF Goto, Waiting, TypeOK
  <2> QED
    BY <1>3, <1>6, <1>7, <1>8, <2>3, <2>8, <2>9, OneJoins
<1> QED
  BY <1>2, <1>9, <1>10

LEMMA EnqueueStep ==
  ASSUME TypeOK, Control, OneAckEach, NEW h \in Hart, Enqueue(h)
  PROVE  OneAckEach'
<1> DEFINE t == remote[h]
<1>1. t \in Hart /\ fifo[t] \in Seq(Entry) /\ Len(fifo[t]) \in Nat /\ tinfo[h] \in Entry
  BY DEF TypeOK
<1>2. pc[h] = "enqueue" /\ event[h] = IPI_TLB /\ tinfo[h].shart_mask = {h}
  BY DEF Enqueue, Control
<1>3. UNCHANGED <<tlb_sync, event, remote, acks>>
  BY DEF Enqueue, sendVars
<1>4. ~Waiting(h)
  BY <1>2 DEF Waiting
<1>5. CASE Len(fifo[t]) < FifoEntries
  <2>1. /\ fifo' = [fifo EXCEPT ![t] = Append(fifo[t], tinfo[h])]
        /\ pc' = [pc EXCEPT ![h] = "set_bit"] /\ UNCHANGED caller
    BY <1>5 DEF Enqueue, Goto
  <2>2. pc'[h] = "set_bit" /\ \A r \in Hart \ {h} : pc'[r] = pc[r]
    BY <2>1 DEF TypeOK
  <2>3. \A r, u \in Hart : Serving(r, u)' <=> Serving(r, u)
    BY <1>2, <1>3, <2>2 DEF Serving
  <2>4. \A r \in Hart \ {h} : (Waiting(r)' <=> Waiting(r)) /\ remote'[r] = remote[r]
    BY <1>3, <2>1, <2>2, OthersWait
  <2>5. Waiting(h)'
    BY <1>2, <1>3, <2>2 DEF Waiting
  <2>6. Len(fifo[t]) + 1 \in Position
    BY <1>1, <1>5, TlbAssumption DEF Position
  <2>7. fifo'[t] = Append(fifo[t], tinfo[h]) /\ \A u \in Hart \ {t} : fifo'[u] = fifo[u]
    BY <1>1, <2>1 DEF TypeOK
  <2>8. /\ Len(fifo'[t]) = Len(fifo[t]) + 1
        /\ fifo'[t][Len(fifo[t]) + 1] = tinfo[h]
        /\ \A i \in 1 .. Len(fifo[t]) : fifo'[t][i] = fifo[t][i]
    BY <1>1, <2>7
  <2>9. ASSUME NEW r \in Hart, NEW u \in Hart, NEW i \in Position
        PROVE  Queued(r, u, i)' <=> Queued(r, u, i) \/ (r = h /\ u = t /\ i = Len(fifo[t]) + 1)
    <3>1. i \in Nat /\ 1 <= i
      BY TlbAssumption DEF Position
    <3>2. CASE u # t
      BY <2>7, <3>2 DEF Queued
    <3>3. CASE u = t /\ i <= Len(fifo[t])
      <4>1. i \in 1 .. Len(fifo[t]) /\ i # Len(fifo[t]) + 1 /\ i <= Len(fifo[t]) + 1
        BY <1>1, <3>1, <3>3
      <4> QED
        BY <2>8, <3>3, <4>1 DEF Queued
    <3>4. CASE u = t /\ i = Len(fifo[t]) + 1
      <4>1. ~(i <= Len(fifo[t]))
        BY <1>1, <3>4
      <4>2. i <= Len(fifo'[t]) /\ fifo'[t][i].shart_mask = {h}
        BY <1>1, <1>2, <2>8, <3>4
      <4> QED
        BY <3>4, <4>1, <4>2 DEF Queued
    <3>5. CASE u = t /\ i > Len(fifo[t]) + 1
      <4>1. ~(i <= Len(fifo[t])) /\ ~(i <= Len(fifo'[t])) /\ i # Len(fifo[t]) + 1
        BY <1>1, <2>8, <3>1, <3>5
      <4> QED
        BY <3>5, <4>1 DEF Queued
    <3> QED
      BY <1>1, <3>1, <3>2, <3>3, <3>4, <3>5
  <2> HIDE DEF t
  <2>10. remote'[h] = t
    BY <1>3 DEF t
  <2> QED
    BY <1>1, <1>3, <1>4, <2>3, <2>4, <2>5, <2>6, <2>9, <2>10, OneJoins
<1>6. CASE ~(Len(fifo[t]) < FifoEntries)
  <2>1. /\ UNCHANGED fifo /\ caller' = [caller EXCEPT ![h] = "enqueue"]
        /\ pc' = [pc EXCEPT ![h] = "dequeue"]
    BY <1>6 DEF Enqueue, Goto
  <2>2. /\ pc'[h] = "dequeue" /\ caller'[h] = "enqueue"
        /\ \A r \in Hart \ {h} : pc'[r] = pc[r] /\ caller'[r] = caller[r]
    BY <2>1 DEF TypeOK
  <2>3. \A r, u \in Hart : Serving(r, u)' <=> Serving(r, u)
    BY <1>2, <1>3, <2>2 DEF Serving
  <2>4. ~Waiting(h)'
    BY <2>2 DEF Waiting
  <2>5. \A r \in Hart \ {h} : Waiting(r)' <=> Waiting(r)
    BY <1>3, <2>2, OthersWait
  <2> QED
    BY <1>3, <1>4, <2>1, <2>3, <2>4, <2>5, NothingMoves
<1> QED
  BY <1>5, <1>6

LEMMA SyncStep ==
  ASSUME TypeOK, Control, OneAckEach, NEW h \in Hart, Sync(h)
  PROVE  OneAckEach'
<1>1. pc[h] = "sync" /\ event[h] = IPI_TLB
  BY DEF Sync, Control
<1>2. UNCHANGED <<fifo, event, remote, acks>>
  BY DEF Sync, sendVars
<1>3. CASE tlb_sync[h] = 1
  <2>1. /\ tlb_sync' = [tlb_sync EXCEPT ![h] = 0]
        /\ pc' = [pc EXCEPT ![h] = "send_many"] /\ UNCHANGED caller
    BY <1>3 DEF Sync, Goto
  <2>2. pc'[h] = "send_many" /\ \A r \in Hart \ {h} : pc'[r] = pc[r]
    BY <2>1 DEF TypeOK
  <2>3. \A r, t \in Hart : Serving(r, t)' <=> Serving(r, t)
    BY <1>1, <1>2, <2>2 DEF Serving
  <2>4. ~Waiting(h)'
    BY <2>2 DEF Waiting
  <2>5. \A r \in Hart \ {h} : Waiting(r)' <=> Waiting(r)
    BY <1>2, <2>1, <2>2, OthersWait
  <2> QED
    BY <1>2, <1>3, <2>1, <2>3, <2>4, <2>5, OneReturns
<1>4. CASE tlb_sync[h] # 1
  <2>1. /\ UNCHANGED tlb_sync /\ caller' = [caller EXCEPT ![h] = "sync"]
        /\ pc' = [pc EXCEPT ![h] = "dequeue"]
    BY <1>4 DEF Sync, Goto
  <2>2. /\ pc'[h] = "dequeue" /\ caller'[h] = "sync"
        /\ \A r \in Hart \ {h} : pc'[r] = pc[r] /\ caller'[r] = caller[r]
    BY <2>1 DEF TypeOK
  <2>3. \A r, t \in Hart : Serving(r, t)' <=> Serving(r, t)
    BY <1>1, <1>2, <2>2 DEF Serving
  <2>4. Waiting(h)' /\ Waiting(h)
    BY <1>1, <1>2, <2>2 DEF Waiting
  <2>5. \A r \in Hart \ {h} : Waiting(r)' <=> Waiting(r)
    BY <1>2, <2>2, OthersWait
  <2> QED
    BY <1>2, <2>1, <2>3, <2>4, <2>5, NothingMoves
<1> QED
  BY <1>3, <1>4

LEMMA DequeueStep ==
  ASSUME TypeOK, Control, OneAckEach, NEW h \in Hart, Dequeue(h)
  PROVE  OneAckEach'
<1>1. /\ pc[h] = "dequeue" /\ fifo[h] # <<>>
      /\ fifo' = [fifo EXCEPT ![h] = Tail(fifo[h])]
      /\ acks' = [acks EXCEPT ![h] = Head(fifo[h]).shart_mask]
      /\ pc' = [pc EXCEPT ![h] = "ack"]
      /\ UNCHANGED <<tlb_sync, event, remote, caller>>
  BY DEF Dequeue, Goto, sendVars
<1>2. fifo[h] \in Seq(Entry) /\ Len(fifo[h]) \in Nat /\ Len(fifo[h]) <= FifoEntries
  BY DEF TypeOK
<1>3. /\ Len(fifo[h]) >= 1 /\ Head(fifo[h]) = fifo[h][1]
      /\ Len(Tail(fifo[h])) = Len(fifo[h]) - 1
      /\ \A i \in 1 .. Len(fifo[h]) - 1 : Tail(fifo[h])[i] = fifo[h][i + 1]
  BY <1>1, <1>2
<1>4. pc'[h] = "ack" /\ \A r \in Hart \ {h} : pc'[r] = pc[r]
  BY <1>1 DEF TypeOK
<1>5. acks'[h] = fifo[h][1].shart_mask /\ \A r \in Hart \ {h} : acks'[r] = acks[r]
  BY <1>1, <1>3 DEF TypeOK
<1>6. fifo'[h] = Tail(fifo[h]) /\ \A u \in Hart \ {h} : fifo'[u] = fifo[u]
  BY <1>1 DEF TypeOK
<1>7. \A r, u \in Hart : Serving(r, u)' <=> IF u = h THEN Queued(r, h, 1) ELSE Serving(r, u)
  BY <1>2, <1>3, <1>4, <1>5 DEF Serving, Queued
<1>8. \A r \in Hart : ~Serving(r, h)
  BY <1>1 DEF Serving
<1>9. Waiting(h)' <=> Waiting(h)
  BY <1>1, <1>4 DEF Waiting
<1>10. \A r \in Hart \ {h} : Waiting(r)' <=> Waiting(r)
  BY <1>1, <1>4, OthersWait
<1>11. ASSUME NEW r \in Hart, NEW u \in Hart, NEW i \in Position
       PROVE  Queued(r, u, i)' <=> IF u = h THEN i + 1 \in Position /\ Queued(r, h, i + 1)
                                            ELSE Queued(r, u, i)
  <2>1. i \in Nat /\ 1 <= i
    BY TlbAssumption DEF Position
  <2>2. CASE u # h
    BY <1>6, <2>2 DEF Queued
  <2>3. CASE u = h /\ i <= Len(fifo[h]) - 1
    <3>1. i \in 1 .. Len(fifo[h]) - 1 /\ i + 1 \in Position /\ i + 1 <= Len(fifo[h])
      BY <1>2, <2>1, <2>3, TlbAssumption DEF Position
    <3>2. i <= Len(fifo'[h]) /\ fifo'[h][i] = fifo[h][i + 1]
      BY <1>3, <1>6, <2>3, <3>1
    <3> QED
      BY <2>3, <3>1, <3>2 DEF Queued
  <2>4. CASE u = h /\ ~(i <= Len(fifo[h]) - 1)
    <3>1. ~(i <= Len(fifo'[h])) /\ ~(i + 1 <= Len(fifo[h]))
      BY <1>2, <1>3, <1>6, <2>1, <2>4
    <3> QED
      BY <2>4, <3>1 DEF Queued
  <2> QED
    BY <2>2, <2>3, <2>4
<1> QED
  BY <1>1, <1>7, <1>8, <1>9, <1>10, <1>11, OneIsServed

LEMMA AckStep ==
  ASSUME TypeOK, Control, OneAckEach, NEW h \in Hart, Ack(h)
  PROVE  OneAckEach'
<1>1. PICK o \in acks[h] :
        /\ tlb_sync' = [tlb_sync EXCEPT ![o] = 1]
        /\ acks' = [acks EXCEPT ![h] = @ \ {o}]
        /\ IF acks[h] # {o}
             THEN UNCHANGED <<pc, caller, deq_count>>
             ELSE IF LoopEnds(h)
               THEN LeaveLoop(h)
               ELSE Goto(h, "dequeue") /\ UNCHANGED caller
  BY DEF Ack
<1>2. pc[h] = "ack" /\ o \in Hart /\ UNCHANGED <<fifo, event, remote>>
  BY DEF Ack, TypeOK, sendVars
<1>3. acks'[h] = acks[h] \ {o} /\ \A r \in Hart \ {h} : acks'[r] = acks[r]
  BY <1>1 DEF TypeOK
<1>4. \A r \in Hart \ {h} : pc'[r] = pc[r] /\ caller'[r] = caller[r]
  BY <1>1 DEF LeaveLoop, Goto, TypeOK
<1>5. acks[h] # {o} => pc'[h] = "ack"
  BY <1>1, <1>2
<1>6. \A r, u \in Hart : Serving(r, u)' <=> Serving(r, u) /\ ~(r = o /\ u = h)
  BY <1>2, <1>3, <1>4, <1>5 DEF Serving
<1>7. caller[h] \in {"enqueue", "sync", "ipi"}
  BY <1>2 DEF Control, TypeOK
<1>8. Waiting(h)' <=> Waiting(h)
  <2>1. CASE acks[h] # {o}
    BY <1>1, <1>2, <2>1 DEF Waiting
  <2>2. CASE acks[h] = {o} /\ LoopEnds(h)
    <3>1. pc'[h] = ReturnPoint(h) /\ caller'[h] = "none"
      BY <1>1, <2>2 DEF LeaveLoop, Goto, TypeOK
    <3> QED
      BY <1>2, <1>7, <3>1 DEF ReturnPoint, Waiting
  <2>3. CASE acks[h] = {o} /\ ~LoopEnds(h)
    <3>1. pc'[h] = "dequeue" /\ caller'[h] = caller[h]
      BY <1>1, <2>3 DEF Goto, TypeOK
    <3> QED
      BY <1>2, <3>1 DEF Waiting
  <2> QED
    BY <2>1, <2>2, <2>3
<1>9. \A r \in Hart \ {h} : Waiting(r)' <=> Waiting(r)
  BY <1>2, <1>4, OthersWait
<1>10. Serving(o, h)
  BY <1>1, <1>2 DEF Serving
<1> QED
  BY <1>1, <1>2, <1>6, <1>8, <1>9, <1>10, OneIsAnswered
-----------------------------------------------------------------------------
\* Every waiting hart's acknowledgement is in exactly one place, and a hart that
\* does not wait has none: sbi_tlb_sync cannot return on a stale flag and the
\* atomic exchange of sbi_tlb_entry_process never finds its flag set.
THEOREM AcksCorrect == Spec => []OneAckEach
<1>1. Init => OneAckEach
  <2> SUFFICES ASSUME Init PROVE OneAckEach
    OBVIOUS
  <2>1. \A r \in Hart : ~Waiting(r) /\ tlb_sync[r] = 0
    BY DEF Init, Waiting
  <2>2. \A r, t \in Hart : ~Serving(r, t)
    BY DEF Init, Serving
  <2>3. \A r, t \in Hart, i \in Position : ~Queued(r, t, i)
    BY TlbAssumption DEF Init, Queued, Position
  <2> QED
    BY <2>1, <2>2, <2>3 DEF OneAckEach, QueuedOnce, ServedOnce, FlagIsFresh, NotForgotten
<1>2. TypeOK /\ Control /\ OneAckEach /\ [Next]_vars => OneAckEach'
  <2> SUFFICES ASSUME TypeOK, Control, OneAckEach, [Next]_vars PROVE OneAckEach'
    OBVIOUS
  <2>1. CASE Next
    BY <2>1, QuietSteps, UpdateRemoteStep, EnqueueStep, SyncStep, DequeueStep, AckStep
       DEF Next, Machine
  <2>2. CASE UNCHANGED vars
    <3>1. UNCHANGED <<fifo, tlb_sync, pc, event, remote, caller, acks>>
      BY <2>2 DEF vars, sendVars, serveVars
    <3>2. \A r \in Hart : Waiting(r)' <=> Waiting(r)
      BY <3>1 DEF Waiting
    <3>3. \A r, t \in Hart : Serving(r, t)' <=> Serving(r, t)
      BY <3>1 DEF Serving
    <3> QED
      BY <3>1, <3>2, <3>3, NothingMoves
  <2> QED
    BY <2>1, <2>2
<1> QED
  BY <1>1, <1>2, TypeCorrect, PTL DEF Spec
-----------------------------------------------------------------------------
(* Event bits and the interrupt line.                                      *)

\* Every step but these leaves the events and the senders alone.
LEMMA SilentFrame ==
  ASSUME TypeOK, NoSilentEvent, UNCHANGED ipiVars,
         \A r \in Hart : /\ pc[r] = "ipi_send" => pc'[r] = "ipi_send" /\ remote'[r] = remote[r]
                         /\ pc[r] = "take_bits" => pc'[r] = "take_bits"
  PROVE  NoSilentEvent'
<1> SUFFICES ASSUME NEW t \in Hart, ipi_type[t] # {}
             PROVE  \/ msip[t]
                    \/ pc'[t] = "take_bits"
                    \/ \E r \in Hart : pc'[r] = "ipi_send" /\ remote'[r] = t
  BY DEF NoSilentEvent, ipiVars
<1> QED
  BY DEF NoSilentEvent

LEMMA NextSilent == TypeOK /\ NoSilentEvent /\ [Next]_vars => NoSilentEvent'
<1> SUFFICES ASSUME TypeOK, NoSilentEvent, [Next]_vars PROVE NoSilentEvent'
  OBVIOUS
<1>1. CASE UNCHANGED vars
  BY <1>1, SilentFrame DEF vars, sendVars, ipiVars
<1>2. ASSUME NEW h \in Hart, Call(h) \/ Machine(h) \/ ClearSmode(h) PROVE NoSilentEvent'
  <2> USE DEF ipiVars, sendVars, serveVars, Goto
  <2>1. CASE SetBit(h)
    <3>1. /\ remote[h] \in Hart
          /\ \A t \in Hart \ {remote[h]} : ipi_type'[t] = ipi_type[t]
          /\ pc[h] = "set_bit" /\ pc'[h] = "ipi_send" /\ \A r \in Hart \ {h} : pc'[r] = pc[r]
          /\ UNCHANGED <<msip, remote>>
      BY <2>1 DEF SetBit, SetEventBit, TypeOK, IpiTypeOK
    <3> SUFFICES ASSUME NEW t \in Hart, ipi_type'[t] # {}
                 PROVE  \/ msip[t]
                        \/ pc'[t] = "take_bits"
                        \/ \E r \in Hart : pc'[r] = "ipi_send" /\ remote[r] = t
      BY <3>1 DEF NoSilentEvent
    <3>2. CASE t = remote[h]
      BY <3>1, <3>2
    <3>3. CASE t # remote[h]
      <4>1. \/ msip[t] \/ pc[t] = "take_bits"
            \/ \E r \in Hart : pc[r] = "ipi_send" /\ remote[r] = t
        BY <3>1, <3>3 DEF NoSilentEvent
      <4> QED
        BY <3>1, <4>1
    <3> QED
      BY <3>2, <3>3
  <2>2. CASE IpiSend(h)
    <3>1. /\ remote[h] \in Hart /\ msip'[remote[h]]
          /\ \A t \in Hart : msip[t] => msip'[t]
          /\ pc[h] = "ipi_send" /\ \A r \in Hart \ {h} : pc'[r] = pc[r]
          /\ UNCHANGED <<ipi_type, remote>>
      BY <2>2 DEF IpiSend, RaiseMsip, TypeOK, IpiTypeOK
    <3> SUFFICES ASSUME NEW t \in Hart, ipi_type[t] # {}
                 PROVE  \/ msip'[t]
                        \/ pc'[t] = "take_bits"
                        \/ \E r \in Hart : pc'[r] = "ipi_send" /\ remote[r] = t
      BY <3>1 DEF NoSilentEvent
    <3>2. \/ msip[t] \/ pc[t] = "take_bits"
          \/ \E r \in Hart : pc[r] = "ipi_send" /\ remote[r] = t
      BY DEF NoSilentEvent
    <3> QED
      BY <3>1, <3>2
  <2>3. CASE Trap(h)
    <3>1. /\ \A t \in Hart \ {h} : msip'[t] = msip[t]
          /\ pc[h] = "run" /\ pc'[h] = "take_bits" /\ \A r \in Hart \ {h} : pc'[r] = pc[r]
          /\ UNCHANGED <<ipi_type, remote>>
      BY <2>3 DEF Trap, ClearMsip, TypeOK, IpiTypeOK
    <3> QED
      BY <3>1 DEF NoSilentEvent
  <2>4. CASE TakeBits(h)
    <3>1. /\ ipi_type'[h] = {} /\ \A t \in Hart \ {h} : ipi_type'[t] = ipi_type[t]
          /\ pc[h] = "take_bits" /\ \A r \in Hart \ {h} : pc'[r] = pc[r]
          /\ UNCHANGED <<msip, remote>>
      BY <2>4 DEF TakeBits, TakeEventBits, TypeOK, IpiTypeOK
    <3> QED
      BY <3>1 DEF NoSilentEvent
  <2>5. CASE Call(h) \/ NextSmode(h) \/ SendManyReturn(h) \/ UpdateSelf(h) \/ UpdateRemote(h)
    <3>1. UNCHANGED ipiVars /\ pc[h] \in {"run", "send_many"}
      BY <2>5 DEF Call, TlbRequest, SendSmode, CallSendMany, NextSmode, NextTarget,
                  SendManyReturn, UpdateSelf, UpdateRemote
    <3>2. \A r \in Hart \ {h} : pc'[r] = pc[r] /\ remote'[r] = remote[r]
      BY <2>5 DEF Call, TlbRequest, SendSmode, CallSendMany, NextSmode, NextTarget,
                  SendManyReturn, UpdateSelf, UpdateRemote, TypeOK
    <3> QED
      BY <3>1, <3>2, SilentFrame
  <2>6. CASE \/ Enqueue(h) \/ Sync(h) \/ Dequeue(h) \/ DequeueEmpty(h) \/ Ack(h)
             \/ ProcessSmode(h) \/ ProcessTlb(h) \/ TrapReturn(h) \/ ClearSmode(h)
    <3>1. /\ UNCHANGED <<ipiVars, remote>>
          /\ pc[h] \in {"enqueue", "sync", "dequeue", "ack", "events", "run"}
      BY <2>6 DEF Enqueue, Sync, Dequeue, DequeueEmpty, Ack, ProcessSmode, ProcessTlb,
                  TrapReturn, ClearSmode
    <3>2. \A r \in Hart \ {h} : pc'[r] = pc[r]
      BY <2>6 DEF Enqueue, Sync, Dequeue, DequeueEmpty, Ack, LeaveLoop, ProcessSmode,
                  ProcessTlb, TrapReturn, ClearSmode, TypeOK
    <3> QED
      BY <3>1, <3>2, SilentFrame
  <2> QED
    BY <1>2, <2>1, <2>2, <2>3, <2>4, <2>5, <2>6 DEF Machine
<1> QED
  BY <1>1, <1>2 DEF Next

\* sbi_ipi_send writes the event bit before the line, sbi_ipi_process clears the
\* line before it reads the bits: no event waits without an interrupt.
THEOREM NoEventIsSilent == Spec => []NoSilentEvent
<1>1. Init => TypeOK /\ Control /\ NoSilentEvent
  BY InitType DEF Init, IpiInit, NoSilentEvent
<1>2. TypeOK /\ Control /\ NoSilentEvent /\ [Next]_vars => (TypeOK /\ Control /\ NoSilentEvent)'
  BY NextType, NextSilent
<1> QED
  BY <1>1, <1>2, PTL DEF Spec

-----------------------------------------------------------------------------
(* Queued requests and the events that serve them.                         *)

\* A step that keeps every reason to look at the fifos, and adds no entry
\* without being about to set the event bit.
LEMMA WakeFrame ==
  ASSUME NoLostWakeup,
         \A t \in Hart : \/ fifo'[t] = <<>>
                         \/ fifo[t] # <<>>
                         \/ \E r \in Hart : pc'[r] = "set_bit" /\ remote'[r] = t
                                            /\ event'[r] = IPI_TLB,
         \A t \in Hart : caller[t] = "ipi" => caller'[t] = "ipi" \/ fifo'[t] = <<>>,
         \A t \in Hart : IPI_TLB \in pending[t] => IPI_TLB \in pending'[t] \/ caller'[t] = "ipi",
         \A t \in Hart : IPI_TLB \in ipi_type[t] =>
                           IPI_TLB \in ipi_type'[t] \/ IPI_TLB \in pending'[t],
         \A r \in Hart : pc[r] = "set_bit" /\ event[r] = IPI_TLB =>
                           \/ pc'[r] = "set_bit" /\ event'[r] = IPI_TLB /\ remote'[r] = remote[r]
                           \/ IPI_TLB \in ipi_type'[remote[r]]
  PROVE  NoLostWakeup'
BY DEF NoLostWakeup

LEMMA NextWake == TypeOK /\ Control /\ NoLostWakeup /\ [Next]_vars => NoLostWakeup'
<1> SUFFICES ASSUME TypeOK, Control, NoLostWakeup, [Next]_vars PROVE NoLostWakeup'
  OBVIOUS
<1> USE DEF ipiVars, sendVars, serveVars, trapVars, Goto
<1>1. CASE UNCHANGED vars
  BY <1>1, WakeFrame DEF vars
<1>2. ASSUME NEW h \in Hart, Call(h) \/ Machine(h) \/ ClearSmode(h) PROVE NoLostWakeup'
  <2>1. CASE SetBit(h)
    <3>1. /\ ipi_type'[remote[h]] = ipi_type[remote[h]] \cup {event[h]}
          /\ \A t \in Hart : ipi_type[t] \subseteq ipi_type'[t]
          /\ \A r \in Hart \ {h} : pc'[r] = pc[r]
          /\ UNCHANGED <<fifo, event, remote, caller, pending>>
      BY <2>1 DEF SetBit, SetEventBit, TypeOK, IpiTypeOK
    <3> QED
      BY <3>1, WakeFrame
  <2>2. CASE TakeBits(h)
    <3>1. /\ pending'[h] = ipi_type[h]
          /\ \A t \in Hart \ {h} : ipi_type'[t] = ipi_type[t] /\ pending'[t] = pending[t]
          /\ pc[h] = "take_bits" /\ \A r \in Hart \ {h} : pc'[r] = pc[r]
          /\ UNCHANGED <<fifo, event, remote, caller>>
      BY <2>2 DEF TakeBits, TakeEventBits, TypeOK, IpiTypeOK
    <3>2. pending[h] = {} \/ caller[h] = "ipi"
      BY <3>1 DEF Control
    <3> QED
      BY <3>1, <3>2, WakeFrame
  <2>3. CASE ProcessSmode(h) \/ ProcessTlb(h)
    <3>1. /\ UNCHANGED <<fifo, event, remote, ipi_type>>
          /\ \A r \in Hart \ {h} :
               pc'[r] = pc[r] /\ pending'[r] = pending[r] /\ caller'[r] = caller[r]
          /\ pc[h] = "events"
      BY <2>3 DEF ProcessSmode, ProcessTlb, TypeOK
    <3>2. IPI_TLB \in pending[h] => IPI_TLB \in pending'[h] \/ caller'[h] = "ipi"
      BY <2>3 DEF ProcessSmode, ProcessTlb, TypeOK, IPI_SMODE, IPI_TLB
    <3>3. caller[h] # "ipi"
      BY <3>1 DEF Control
    <3> QED
      BY <3>1, <3>2, <3>3, WakeFrame
  <2>4. CASE UpdateRemote(h)
    <3>1. PICK t \in Hart \ {h} :
            /\ NextTarget(h, t)
            /\ \/ Goto(h, "enqueue") /\ UNCHANGED fifo
               \/ /\ \E i \in 1 .. Len(fifo[t]) :
                       fifo' = [fifo EXCEPT ![t][i] = Merged(@, Upgrade(tinfo[h]))]
                  /\ Goto(h, "set_bit")
      BY <2>4 DEF UpdateRemote, MergePoints
    <3>2. /\ pc[h] = "send_many" /\ event[h] = IPI_TLB
          /\ \A r \in Hart \ {h} : pc'[r] = pc[r] /\ remote'[r] = remote[r]
          /\ UNCHANGED <<event, caller, pending, ipi_type>>
      BY <2>4, <3>1 DEF UpdateRemote, NextTarget, TypeOK
    <3>3. \A u \in Hart : (u = t /\ fifo[u] # <<>>) \/ fifo'[u] = fifo[u]
      <4>1. CASE UNCHANGED fifo
        BY <4>1
      <4>2. CASE \E i \in 1 .. Len(fifo[t]) :
                    fifo' = [fifo EXCEPT ![t][i] = Merged(@, Upgrade(tinfo[h]))]
        <5>1. 1 .. Len(fifo[t]) # {} /\ fifo[t] \in Seq(Entry)
          BY <4>2 DEF TypeOK
        <5>2. fifo[t] # <<>>
          BY <5>1
        <5> QED
          BY <4>2, <5>2 DEF TypeOK
      <4> QED
        BY <3>1, <4>1, <4>2
    <3> QED
      BY <3>2, <3>3, WakeFrame
  <2>5. CASE Enqueue(h)
    <3>1. /\ pc[h] = "enqueue" /\ event[h] = IPI_TLB /\ remote[h] \in Hart
          /\ \A r \in Hart \ {h} : pc'[r] = pc[r] /\ caller'[r] = caller[r]
          /\ UNCHANGED <<event, remote, pending, ipi_type>>
      BY <2>5 DEF Enqueue, Control, TypeOK
    <3>2. caller[h] # "ipi"
      BY <3>1 DEF Control
    <3>3. CASE Len(fifo[remote[h]]) < FifoEntries
      <4>1. pc'[h] = "set_bit" /\ \A u \in Hart \ {remote[h]} : fifo'[u] = fifo[u]
        BY <2>5, <3>3 DEF Enqueue, TypeOK
      <4> QED
        BY <3>1, <3>2, <4>1, WakeFrame
    <3>4. CASE ~(Len(fifo[remote[h]]) < FifoEntries)
      <4>1. UNCHANGED fifo
        BY <2>5, <3>4 DEF Enqueue
      <4> QED
        BY <3>1, <3>2, <4>1, WakeFrame
    <3> QED
      BY <3>3, <3>4
  <2>6. CASE Dequeue(h)
    <3>1. /\ UNCHANGED <<event, remote, caller, pending, ipi_type>>
          /\ pc[h] = "dequeue" /\ fifo[h] # <<>> /\ \A r \in Hart \ {h} : pc'[r] = pc[r]
          /\ \A u \in Hart \ {h} : fifo'[u] = fifo[u]
      BY <2>6 DEF Dequeue, TypeOK
    <3> QED
      BY <3>1, WakeFrame
  <2>7. CASE DequeueEmpty(h) \/ Ack(h)
    <3>1. /\ UNCHANGED <<fifo, event, remote, pending, ipi_type>>
          /\ pc[h] \in {"dequeue", "ack"}
          /\ \A r \in Hart \ {h} : pc'[r] = pc[r] /\ caller'[r] = caller[r]
      BY <2>7 DEF DequeueEmpty, Ack, LeaveLoop, TypeOK
    <3>2. caller[h] = "ipi" => caller'[h] = "ipi" \/ fifo'[h] = <<>>
      BY <2>7 DEF DequeueEmpty, Ack, LoopEnds
    <3> QED
      BY <3>1, <3>2, WakeFrame
  <2>8. CASE Call(h) \/ NextSmode(h) \/ SendManyReturn(h) \/ UpdateSelf(h)
    <3>1. /\ UNCHANGED <<fifo, caller, pending, ipi_type>>
          /\ pc[h] \in {"run", "send_many"}
      BY <2>8 DEF Call, TlbRequest, SendSmode, CallSendMany, NextSmode, NextTarget,
                  SendManyReturn, UpdateSelf
    <3>2. \A r \in Hart \ {h} :
            pc'[r] = pc[r] /\ event'[r] = event[r] /\ remote'[r] = remote[r]
      BY <2>8 DEF Call, TlbRequest, SendSmode, CallSendMany, NextSmode, NextTarget,
                  SendManyReturn, UpdateSelf, TypeOK
    <3> QED
      BY <3>1, <3>2, WakeFrame
  <2>9. CASE IpiSend(h) \/ Sync(h) \/ Trap(h) \/ TrapReturn(h) \/ ClearSmode(h)
    <3>1. /\ UNCHANGED <<fifo, event, remote, pending, ipi_type>>
          /\ pc[h] \in {"ipi_send", "sync", "run", "events"}
          /\ \A r \in Hart \ {h} : pc'[r] = pc[r] /\ caller'[r] = caller[r]
      BY <2>9 DEF IpiSend, RaiseMsip, Sync, Trap, ClearMsip, TrapReturn, ClearSmode, TypeOK
    <3>2. caller[h] # "ipi"
      BY <3>1 DEF Control
    <3> QED
      BY <3>1, <3>2, WakeFrame
  <2> QED
    BY <1>2, <2>1, <2>2, <2>3, <2>4, <2>5, <2>6, <2>7, <2>8, <2>9 DEF Machine
<1> QED
  BY <1>1, <1>2 DEF Next

\* A fifo with requests in it always has someone who will serve it: the handler
\* that is draining it, an event taken or to be taken, or a sender about to
\* raise one.  No request is forgotten.
THEOREM NoWakeupIsLost == Spec => []NoLostWakeup
<1>1. Init => TypeOK /\ Control /\ NoLostWakeup
  BY InitType DEF Init, NoLostWakeup
<1>2. TypeOK /\ Control /\ NoLostWakeup /\ [Next]_vars => (TypeOK /\ Control /\ NoLostWakeup)'
  BY NextType, NextWake
<1> QED
  BY <1>1, <1>2, PTL DEF Spec

-----------------------------------------------------------------------------
(* The fifo bound.                                                         *)

\* A fifo never holds more requests than there are other harts: with 8 entries
\* and up to 9 harts sbi_fifo_enqueue never fails in sbi_tlb_update.
THEOREM FifoBound == IsFiniteSet(Hart) /\ Spec => []FifoWithinPeers
\* Distinct entries carry distinct waiting harts, none of them the owner of the fifo.
<1>1. ASSUME IsFiniteSet(Hart), TypeOK, Control, OneAckEach PROVE FifoWithinPeers
  <2> SUFFICES ASSUME NEW t \in Hart
               PROVE  Len(fifo[t]) <= Cardinality(Hart \ {t})
    BY DEF FifoWithinPeers
  <2> DEFINE q == fifo[t]
             P == 1 .. Len(q)
             first == [i \in P |-> CHOOSE r \in Hart : r \in q[i].shart_mask]
  <2>1. q \in Seq(Entry) /\ Len(q) \in Nat /\ Len(q) <= FifoEntries
    BY <1>1 DEF TypeOK
  <2>2. P \subseteq Position
    BY <2>1, TlbAssumption DEF Position
  <2>3. ASSUME NEW i \in P PROVE first[i] \in Hart /\ Queued(first[i], t, i)
    <3>1. q[i] \in Entry
      BY <2>1, ElementOfSeq
    <3>2. \E r \in Hart : r \in q[i].shart_mask
      BY <3>1 DEF Entry
    <3>3. i <= Len(q)
      BY <2>1
    <3> QED
      BY <3>2, <3>3 DEF Queued
  <2> HIDE DEF first
  <2>4. ASSUME NEW i \in P PROVE first[i] \in Hart \ {t}
    <3>1. QueuedOnce(first[i]) /\ first[i] \in Hart /\ Queued(first[i], t, i) /\ i \in Position
      BY <1>1, <2>2, <2>3 DEF OneAckEach
    <3>2. Waiting(first[i]) /\ remote[first[i]] = t
      BY <3>1 DEF QueuedOnce
    <3> QED
      BY <1>1, <3>1, <3>2 DEF Waiting, Control
  <2>5. ASSUME NEW i \in P, NEW j \in P, first[i] = first[j] PROVE i = j
    <3>1. QueuedOnce(first[i]) /\ Queued(first[i], t, i) /\ Queued(first[i], t, j)
      BY <1>1, <2>3, <2>5 DEF OneAckEach
    <3> QED
      BY <2>2, <3>1 DEF QueuedOnce
  <2>6. first \in [P -> Hart \ {t}]
    BY <2>4 DEF first
  <2>7. first \in Injection(P, Hart \ {t})
    BY <2>5, <2>6 DEF Injection, IsInjective
  <2>8. IsFiniteSet(Hart \ {t})
    BY <1>1, FS_RemoveElement
  <2>9. Cardinality(P) <= Cardinality(Hart \ {t})
    BY <2>7, <2>8, FS_Injection
  <2>10. Cardinality(P) = Len(q)
    BY <2>1, FS_Interval
  <2> QED
    BY <2>9, <2>10
<1>2. ASSUME IsFiniteSet(Hart) PROVE Spec => []FifoWithinPeers
  BY <1>1, <1>2, TypeCorrect, AcksCorrect, PTL
<1> QED
  BY <1>2
=============================================================================
