---------------------------- MODULE SbiTlbProofs -----------------------------
(***************************************************************************)
(* Theorems about SbiTlb for every set of harts, fifo size, address space, *)
(* set of requests and number of calls.                                    *)
(***************************************************************************)
EXTENDS SbiTlb, SequenceTheorems, TLAPS

\* Upgrading and merging requests yields entries of the same type.
LEMMA EntryType ==
  ASSUME NEW e \in Entry
  PROVE  /\ Upgrade(e) \in Entry /\ Upgrade(e).shart_mask = e.shart_mask
         /\ \A next \in Entry : /\ Merged(e, next) \in Entry
                               /\ Merged(e, next).shart_mask = e.shart_mask \cup next.shart_mask
<1>1. 0 \in Address /\ FLUSH_ALL \in Address
  BY RangeAssumption DEF Address, FLUSH_ALL
<1>2. [e EXCEPT !.start = 0, !.size = FLUSH_ALL] \in Entry
  BY <1>1 DEF Entry
<1>3. [e EXCEPT !.start = 0, !.size = FLUSH_ALL].shart_mask = e.shart_mask
  BY DEF Entry
<1>4. ASSUME NEW next \in Entry
      PROVE  /\ Merged(e, next) \in Entry
             /\ Merged(e, next).shart_mask = e.shart_mask \cup next.shart_mask
  BY DEF Merged, Entry
<1> QED
  BY <1>2, <1>3, <1>4 DEF Upgrade

LEMMA RequestType ==
  ASSUME NEW h \in Hart
  PROVE  /\ \A r \in Requests : Request(r, h) \in Entry /\ Request(r, h).shart_mask = {h}
         /\ NoTinfo(h) \in Entry /\ NoTinfo(h).shart_mask = {h}
<1>1. ASSUME NEW r \in Requests
      PROVE  Request(r, h) \in Entry /\ Request(r, h).shart_mask = {h}
  <2>1. {h} \in (SUBSET Hart) \ {{}}
    OBVIOUS
  <2>2. r \in TlbInfo
    BY TlbAssumption
  <2> QED
    BY <2>1, <2>2 DEF Request, Entry, TlbInfo
<1>2. NoTinfo(h) \in Entry /\ NoTinfo(h).shart_mask = {h}
  BY TlbAssumption, <1>1 DEF NoTinfo
<1> QED
  BY <1>1, <1>2

LEMMA PagesType ==
  ASSUME NEW e, e.start \in Address
  PROVE  PagesOf(e) \subseteq Page
<1>1. ASSUME NEW k \in {n \in Page : n * PageSize < e.size}
      PROVE  Plus(e.start, k * PageSize) \div PageSize \in Page
  <2>1. k \in Nat
    BY RangeAssumption DEF Page, Address
  <2>2. k * PageSize \in Nat
    BY <2>1, RangeAssumption
  <2>3. e.start \in Nat
    BY RangeAssumption DEF Address
  <2>4. Plus(e.start, k * PageSize) \in Address
    BY <2>2, <2>3, RangeAssumption DEF Plus, Address
  <2> QED
    BY <2>4 DEF Page
<1> QED
  BY <1>1 DEF PagesOf

LEMMA FlushedType ==
  ASSUME NEW e, e.start \in Address, e.type \in FlushType, e.asid \in Asids
  PROVE  Flushed(e) \subseteq Translation
<1>1. (IF e.type = "ITLB" THEN Page ELSE PagesOf(e)) \subseteq Page
  BY PagesType
<1>2. Fences[e.type] \in {Fences[t] : t \in FlushType}
  OBVIOUS
<1>3. (IF e.type \in Tagged /\ ~Everything(e) THEN {e.asid} ELSE Asids) \subseteq Asids
  OBVIOUS
<1> QED
  BY <1>1, <1>2, <1>3 DEF Flushed, Translation
-----------------------------------------------------------------------------
(* Type correctness, with the fit of the locals it rests on.               *)

LEMMA InitType == Init => TypeOK /\ Control
<1> SUFFICES ASSUME Init PROVE TypeOK /\ Control
  OBVIOUS
<1> USE DEF Init
<1>1. IpiTypeOK
  BY DEF IpiInit, IpiTypeOK
<1>2. TypeOK
  BY <1>1, RequestType, TlbAssumption DEF TypeOK, PcLabel, IPI_SMODE, IPI_TLB
<1>3. Control
  BY RequestType DEF Control, IPI_SMODE, IPI_TLB
<1> QED
  BY <1>2, <1>3

LEMMA LocalFlushType ==
  ASSUME TypeOK, NEW h \in Hart, NEW e, LocalFlush(h, e)
  PROVE  stale' \in [Hart -> [Hart -> SUBSET Translation]]
BY DEF TypeOK, LocalFlush

\* The steps that send.
LEMMA SendType ==
  ASSUME TypeOK, Control, NEW h \in Hart,
         \/ Call(h) \/ NextSmode(h) \/ SendManyReturn(h) \/ SetBit(h) \/ IpiSend(h) \/ Sync(h)
  PROVE  TypeOK' /\ Control'
<1> USE DEF TypeOK, Control, IpiTypeOK, ipiVars, sendVars, serveVars, trapVars, Goto, PcLabel,
            IPI_SMODE, IPI_TLB, IPI_HALT, IpiEvent
<1>1. CASE TlbRequest(h)
  <2>1. PICK T \in TlbMasks, r \in Requests :
          /\ CallSendMany(h, IPI_TLB, T)
          /\ tinfo' = [tinfo EXCEPT ![h] = Request(r, h)]
          /\ stale' = [stale EXCEPT ![h] = [t \in Hart |-> IF t \in T THEN Flushed(r) ELSE {}]]
    BY <1>1 DEF TlbRequest
  <2>2. Flushed(r) \in SUBSET Translation
    BY TlbAssumption, FlushedType DEF TlbInfo
  <2>3. stale' \in [Hart -> [Hart -> SUBSET Translation]]
    BY <2>1, <2>2
  <2>4. tinfo' \in [Hart -> Entry] /\ \A k \in Hart : tinfo'[k].shart_mask = {k}
    BY <2>1, RequestType
  <2>5. T \subseteq Hart
    BY TlbAssumption
  <2>6. TypeOK'
    BY <2>1, <2>3, <2>4, <2>5 DEF CallSendMany
  <2>7. Control'
    BY <2>1, <2>4 DEF CallSendMany
  <2> QED
    BY <2>6, <2>7
<1>2. CASE SendSmode(h)
  <2>1. PICK T \in SUBSET Hart : CallSendMany(h, IPI_SMODE, T) /\ UNCHANGED <<tinfo, stale>>
    BY <1>2, TlbAssumption DEF SendSmode
  <2>2. TypeOK'
    BY <2>1 DEF CallSendMany
  <2>3. Control'
    BY <2>1 DEF CallSendMany
  <2> QED
    BY <2>2, <2>3
<1>3. CASE NextSmode(h)
  BY <1>3 DEF NextSmode, NextTarget, IsLeast
<1>4. CASE SendManyReturn(h)
  <2>1. NoTinfo(h) \in Entry /\ NoTinfo(h).shart_mask = {h}
    BY RequestType
  <2>2. TypeOK'
    BY <1>4, <2>1 DEF SendManyReturn
  <2>3. Control'
    BY <1>4, <2>1 DEF SendManyReturn
  <2> QED
    BY <2>2, <2>3
<1>5. CASE SetBit(h)
  BY <1>5 DEF SetBit, SetEventBit
<1>6. CASE IpiSend(h)
  BY <1>6 DEF IpiSend, RaiseMsip
<1>7. CASE Sync(h)
  <2>1. /\ pc[h] = "sync"
        /\ UNCHANGED <<ipiVars, fifo, sendVars, deq_count, acks, trapVars, calls, stale>>
    BY <1>7 DEF Sync
  <2>2. CASE tlb_sync[h] = 1
    <3>1. /\ tlb_sync' = [tlb_sync EXCEPT ![h] = 0] /\ UNCHANGED caller
          /\ pc' = [pc EXCEPT ![h] = "send_many"]
      BY <1>7, <2>2 DEF Sync
    <3>2. TypeOK'
      BY <2>1, <3>1
    <3>3. Control'
      BY <2>1, <3>1
    <3> QED
      BY <3>2, <3>3
  <2>3. CASE tlb_sync[h] # 1
    <3>1. /\ UNCHANGED tlb_sync /\ caller' = [caller EXCEPT ![h] = "sync"]
          /\ pc' = [pc EXCEPT ![h] = "dequeue"]
      BY <1>7, <2>3 DEF Sync
    <3>2. TypeOK'
      BY <2>1, <3>1
    <3>3. Control'
      BY <2>1, <3>1
    <3> QED
      BY <3>2, <3>3
  <2> QED
    BY <2>2, <2>3
<1> QED
  BY <1>1, <1>2, <1>3, <1>4, <1>5, <1>6, <1>7 DEF Call

\* The steps of sbi_tlb_update.
LEMMA UpdateType ==
  ASSUME TypeOK, Control, NEW h \in Hart, UpdateSelf(h) \/ UpdateRemote(h) \/ Enqueue(h)
  PROVE  TypeOK' /\ Control'
<1> DEFINE next == Upgrade(tinfo[h])
<1>n. next \in Entry /\ next.shart_mask = {h}
  BY EntryType DEF TypeOK, Control
<1> USE DEF Control, IpiTypeOK, ipiVars, sendVars, serveVars, trapVars, Goto, PcLabel
<1>1. CASE UpdateSelf(h)
  <2>1. stale' \in [Hart -> [Hart -> SUBSET Translation]]
    BY <1>1, LocalFlushType DEF UpdateSelf
  <2> QED
    <3>1. /\ UNCHANGED <<ipiVars, fifo, tlb_sync, pc, event, serveVars, trapVars, calls>>
          /\ pc[h] = "send_many" /\ tinfo' = [tinfo EXCEPT ![h] = next]
          /\ targets' = [targets EXCEPT ![h] = @ \ {h}] /\ remote' = [remote EXCEPT ![h] = h]
      BY <1>1 DEF UpdateSelf, NextTarget
    <3> HIDE DEF next
    <3>2. TypeOK'
      BY <1>n, <2>1, <3>1 DEF TypeOK
    <3>3. Control'
      BY <1>n, <3>1 DEF TypeOK
    <3> QED
      BY <3>2, <3>3
<1>2. CASE UpdateRemote(h)
  <2>1. PICK t \in Hart \ {h} :
          /\ NextTarget(h, t)
          /\ \/ MergePoints(fifo[t], next) = {} /\ Goto(h, "enqueue") /\ UNCHANGED fifo
             \/ \E i \in MergePoints(fifo[t], next) :
                  /\ fifo' = [fifo EXCEPT ![t][i] = Merged(@, next)]
                  /\ Goto(h, "set_bit")
    BY <1>2 DEF UpdateRemote
  <2>2. fifo' \in [Hart -> Seq(Entry)] /\ \A k \in Hart : Len(fifo'[k]) <= FifoEntries
    <3>1. CASE UNCHANGED fifo
      BY <3>1 DEF TypeOK
    <3>2. CASE \E i \in MergePoints(fifo[t], next) :
                 fifo' = [fifo EXCEPT ![t][i] = Merged(@, next)]
      <4>1. PICK i \in 1 .. Len(fifo[t]) : fifo' = [fifo EXCEPT ![t][i] = Merged(@, next)]
        BY <3>2 DEF MergePoints
      <4>2. fifo[t] \in Seq(Entry) /\ fifo[t][i] \in Entry
        BY ElementOfSeq DEF TypeOK
      <4>3. Merged(fifo[t][i], next) \in Entry
        BY <4>2, <1>n, EntryType
      <4>4. /\ [fifo[t] EXCEPT ![i] = Merged(fifo[t][i], next)] \in Seq(Entry)
            /\ Len([fifo[t] EXCEPT ![i] = Merged(fifo[t][i], next)]) = Len(fifo[t])
        BY <4>2, <4>3, ExceptSeq
      <4>5. fifo' = [fifo EXCEPT ![t] = [fifo[t] EXCEPT ![i] = Merged(fifo[t][i], next)]]
        BY <4>1
      <4> QED
        BY <4>4, <4>5 DEF TypeOK
    <3> QED
      BY <2>1, <3>1, <3>2
  <2>3. tinfo' = [tinfo EXCEPT ![h] = next]
    BY <1>2 DEF UpdateRemote
  <2>4. event[h] = IPI_TLB /\ pc[h] = "send_many"
    BY <1>2, <2>1 DEF UpdateRemote, NextTarget
  <2>5. pc' = [pc EXCEPT ![h] = "enqueue"] \/ pc' = [pc EXCEPT ![h] = "set_bit"]
    BY <2>1
  <2>6. targets' \in [Hart -> SUBSET Hart] /\ remote' = [remote EXCEPT ![h] = t]
    BY <2>1 DEF NextTarget, TypeOK
  <2>7. UNCHANGED <<ipiVars, tlb_sync, event, serveVars, trapVars, calls, stale>>
    BY <1>2 DEF UpdateRemote
  <2> HIDE DEF next
  <2>8. TypeOK'
    <3>1. tinfo' \in [Hart -> Entry]
      BY <1>n, <2>3 DEF TypeOK
    <3>2. pc' \in [Hart -> PcLabel]
      <4>1. PICK l \in PcLabel : pc' = [pc EXCEPT ![h] = l]
        BY <2>5
      <4> QED
        BY <4>1 DEF TypeOK
    <3>3. remote' \in [Hart -> Hart]
      BY <2>6 DEF TypeOK
    <3> QED
      BY <2>2, <2>6, <2>7, <3>1, <3>2, <3>3 DEF TypeOK
  <2>9. Control'
    BY <1>n, <2>3, <2>4, <2>5, <2>6, <2>7 DEF TypeOK
  <2> QED
    BY <2>8, <2>9
<1>3. CASE Enqueue(h)
  <2>1. CASE Len(fifo[remote[h]]) < FifoEntries
    <3>1. remote[h] \in Hart /\ fifo[remote[h]] \in Seq(Entry) /\ tinfo[h] \in Entry
      BY DEF TypeOK
    <3>2. /\ Append(fifo[remote[h]], tinfo[h]) \in Seq(Entry)
          /\ Len(Append(fifo[remote[h]], tinfo[h])) = Len(fifo[remote[h]]) + 1
      BY <3>1
    <3>3. Len(fifo[remote[h]]) \in Nat
      BY <3>1
    <3>4. fifo' = [fifo EXCEPT ![remote[h]] = Append(fifo[remote[h]], tinfo[h])]
      BY <1>3, <2>1 DEF Enqueue
    <3>5. fifo' \in [Hart -> Seq(Entry)] /\ \A k \in Hart : Len(fifo'[k]) <= FifoEntries
      BY <2>1, <3>1, <3>2, <3>3, <3>4, TlbAssumption DEF TypeOK
    <3>6. /\ pc[h] = "enqueue" /\ pc' = [pc EXCEPT ![h] = "set_bit"]
          /\ UNCHANGED <<ipiVars, tlb_sync, sendVars, serveVars, trapVars, calls, stale>>
      BY <1>3, <2>1 DEF Enqueue
    <3>7. TypeOK'
      BY <3>5, <3>6 DEF TypeOK
    <3>8. Control'
      BY <3>6 DEF TypeOK
    <3> QED
      BY <3>7, <3>8
  <2>2. CASE ~(Len(fifo[remote[h]]) < FifoEntries)
    <3>1. /\ pc[h] = "enqueue" /\ pc' = [pc EXCEPT ![h] = "dequeue"]
          /\ caller' = [caller EXCEPT ![h] = "enqueue"]
          /\ UNCHANGED <<ipiVars, fifo, tlb_sync, sendVars, deq_count, acks, trapVars, calls, stale>>
      BY <1>3, <2>2 DEF Enqueue
    <3>2. TypeOK'
      BY <3>1 DEF TypeOK
    <3>3. Control'
      BY <3>1 DEF TypeOK
    <3> QED
      BY <3>2, <3>3
  <2> QED
    BY <2>1, <2>2
<1> QED
  BY <1>1, <1>2, <1>3

\* The steps that serve the fifo.
LEMMA ServeType ==
  ASSUME TypeOK, Control, NEW h \in Hart, Dequeue(h) \/ DequeueEmpty(h) \/ Ack(h)
  PROVE  TypeOK' /\ Control'
<1> USE DEF Control, IpiTypeOK, ipiVars, sendVars, serveVars, trapVars, Goto, PcLabel
<1>1. CASE Dequeue(h)
  <2>1. fifo[h] \in Seq(Entry) /\ fifo[h] # <<>>
    BY <1>1 DEF Dequeue, TypeOK
  <2>2. /\ Head(fifo[h]) \in Entry
        /\ Tail(fifo[h]) \in Seq(Entry)
        /\ Len(Tail(fifo[h])) = Len(fifo[h]) - 1
        /\ Len(fifo[h]) \in Nat
    BY <2>1
  <2>3. fifo' \in [Hart -> Seq(Entry)] /\ \A k \in Hart : Len(fifo'[k]) <= FifoEntries
    BY <1>1, <2>2, TlbAssumption DEF Dequeue, TypeOK
  <2>4. Head(fifo[h]).shart_mask \in (SUBSET Hart) \ {{}}
    BY <2>2 DEF Entry
  <2>5. stale' \in [Hart -> [Hart -> SUBSET Translation]]
    BY <1>1, LocalFlushType DEF Dequeue
  <2> QED
    BY <1>1, <2>3, <2>4, <2>5 DEF Dequeue, TypeOK
<1>2. CASE DequeueEmpty(h)
  BY <1>2 DEF DequeueEmpty, LeaveLoop, ReturnPoint, TypeOK
<1>3. CASE Ack(h)
  <2>1. PICK r \in acks[h] :
          /\ tlb_sync' = [tlb_sync EXCEPT ![r] = 1]
          /\ acks' = [acks EXCEPT ![h] = @ \ {r}]
          /\ IF acks[h] # {r}
               THEN UNCHANGED <<pc, caller, deq_count>>
               ELSE IF LoopEnds(h)
                 THEN LeaveLoop(h)
                 ELSE /\ Goto(h, "dequeue")
                      /\ deq_count' = [deq_count EXCEPT
                                         ![h] = IF caller[h] = "ipi" THEN 0 ELSE @ + 1]
                      /\ UNCHANGED caller
    BY <1>3 DEF Ack
  <2>2. /\ pc[h] = "ack" /\ r \in Hart
        /\ UNCHANGED <<ipiVars, fifo, sendVars, trapVars, calls, stale>>
    BY <1>3 DEF Ack, TypeOK
  <2>3. tlb_sync' \in [Hart -> {0, 1}] /\ acks' \in [Hart -> SUBSET Hart]
    BY <2>1, <2>2 DEF TypeOK
  <2>4. CASE acks[h] # {r}
    <3>1. UNCHANGED <<pc, caller, deq_count>>
      BY <2>1, <2>4
    <3>2. TypeOK'
      BY <2>2, <2>3, <3>1 DEF TypeOK
    <3>3. Control'
      BY <2>1, <2>2, <2>4, <3>1 DEF TypeOK
    <3> QED
      BY <3>2, <3>3
  <2>5. CASE acks[h] = {r} /\ LoopEnds(h)
    <3>1. LeaveLoop(h) /\ caller[h] \in {"enqueue", "sync"}
      BY <2>1, <2>2, <2>5 DEF LoopEnds, TypeOK
    <3>2. TypeOK'
      BY <2>2, <2>3, <3>1 DEF LeaveLoop, ReturnPoint, TypeOK
    <3>3. Control'
      BY <2>1, <2>2, <2>5, <3>1 DEF LeaveLoop, ReturnPoint, TypeOK
    <3> QED
      BY <3>2, <3>3
  <2>6. CASE acks[h] = {r} /\ ~LoopEnds(h)
    <3>1. /\ pc' = [pc EXCEPT ![h] = "dequeue"] /\ UNCHANGED caller
          /\ deq_count' = [deq_count EXCEPT ![h] = IF caller[h] = "ipi" THEN 0 ELSE @ + 1]
      BY <2>1, <2>6
    <3>2. deq_count' \in [Hart -> {0, 1}]
      <4>1. caller[h] = "ipi" \/ deq_count[h] = 0
        BY <2>6 DEF LoopEnds, TypeOK
      <4> QED
        BY <3>1, <4>1 DEF TypeOK
    <3>3. TypeOK'
      BY <2>2, <2>3, <3>1, <3>2 DEF TypeOK
    <3>4. Control'
      BY <2>1, <2>2, <2>6, <3>1 DEF TypeOK
    <3> QED
      BY <3>3, <3>4
  <2> QED
    BY <2>4, <2>5, <2>6
<1> QED
  BY <1>1, <1>2, <1>3

\* The trap.
LEMMA TrapType ==
  ASSUME TypeOK, Control, NEW h \in Hart,
         \/ Trap(h) \/ TakeBits(h) \/ ProcessSmode(h) \/ ProcessTlb(h) \/ TrapReturn(h)
         \/ ClearSmode(h)
  PROVE  TypeOK' /\ Control'
<1> USE DEF TypeOK, Control, IpiTypeOK, ipiVars, sendVars, serveVars, trapVars, Goto, PcLabel
<1>1. CASE Trap(h)
  BY <1>1 DEF Trap, ClearMsip
<1>2. CASE TakeBits(h)
  BY <1>2 DEF TakeBits, TakeEventBits
<1>3. CASE ProcessSmode(h)
  BY <1>3 DEF ProcessSmode
<1>4. CASE ProcessTlb(h)
  BY <1>4 DEF ProcessTlb
<1>5. CASE TrapReturn(h)
  BY <1>5 DEF TrapReturn
<1>6. CASE ClearSmode(h)
  BY <1>6 DEF ClearSmode
<1> QED
  BY <1>1, <1>2, <1>3, <1>4, <1>5, <1>6

LEMMA NextType == TypeOK /\ Control /\ [Next]_vars => TypeOK' /\ Control'
<1> SUFFICES ASSUME TypeOK, Control, [Next]_vars PROVE TypeOK' /\ Control'
  OBVIOUS
<1>1. CASE Next
  BY <1>1, SendType, UpdateType, ServeType, TrapType DEF Next, Machine
<1>2. CASE UNCHANGED vars
  BY <1>2 DEF vars, ipiVars, sendVars, serveVars, trapVars, TypeOK, IpiTypeOK, Control
<1> QED
  BY <1>1, <1>2

\* Every variable of SbiTlb keeps its type, and no fifo outgrows its entries.
THEOREM TypeCorrect == Spec => [](TypeOK /\ Control)
BY InitType, NextType, PTL DEF Spec
=============================================================================
