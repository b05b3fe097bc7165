-------------------------- MODULE SbiTlbFenceProofs --------------------------
(***************************************************************************)
(* A fence that returned was obeyed, for every value of the constants in   *)
(* which requests have ranges that merging can handle (RequestsFit).       *)
(***************************************************************************)
EXTENDS SbiTlbAckProofs

-----------------------------------------------------------------------------
(* Ranges *)

\* The entry sbi_tlb_update works with: whole pages, or everything in the form
\* the upgrade gives it.
Normal(e) ==
  e.type \in Mergeable =>
    \/ e.start = 0 /\ e.size = FLUSH_ALL
    \/ e.size <= FlushLimit /\ PlainRange(e)

\* Whole pages.
LEMMA Multiples ==
  ASSUME NEW p \in Nat, p > 0, NEW x \in Nat
  PROVE  /\ x \div p \in Nat /\ (x % p = 0 => x = (x \div p) * p)
         /\ x * p \in Nat /\ (x * p) \div p = x
<1>1. x \div p \in Int /\ x % p \in 0 .. p - 1 /\ x = p * (x \div p) + (x % p)
  BY Z3
<1>2. x \div p \in Nat
  BY Z3
<1>3. (x \div p) * p = p * (x \div p)
  BY <1>1
<1>4. x * p \in Nat
  OBVIOUS
<1>5. (x * p) \div p = x
  OBVIOUS
<1> QED
  BY <1>1, <1>2, <1>3, <1>4, <1>5

\* The loop of sbi_tlb_local_flush visits the pages between the ends.
LEMMA PlainPages ==
  ASSUME NEW e \in Entry, PlainRange(e), e.size <= FlushLimit
  PROVE  \E a \in Nat : /\ e.start = a * PageSize
                        /\ PagesOf(e) = {a + k : k \in {n \in Nat : n * PageSize < e.size}}
<1>1. /\ PageSize \in Nat /\ PageSize > 0 /\ AddrSpace \in Nat
      /\ FlushLimit \in Nat /\ FLUSH_ALL = AddrSpace - 1 /\ FlushLimit < FLUSH_ALL
  BY RangeAssumption DEF FLUSH_ALL
<1>2. /\ e.start \in Nat /\ e.size \in Nat
      /\ e.start + e.size < AddrSpace /\ e.size # FLUSH_ALL /\ ~Everything(e)
  BY <1>1 DEF Entry, Address, PlainRange
<1> DEFINE a == e.start \div PageSize
<1>3. a \in Nat /\ e.start = a * PageSize
  BY <1>1, <1>2, Multiples DEF PlainRange
<1> HIDE DEF a
<1>4. ASSUME NEW k \in Nat, k * PageSize < e.size
      PROVE  k \in Page /\ Plus(e.start, k * PageSize) \div PageSize = a + k
  <2>1. k * PageSize \in Nat
    BY <1>1
  <2>2. k * PageSize \in Address
    BY <1>1, <1>2, <1>4, <2>1 DEF Address
  <2>3. (k * PageSize) \div PageSize = k
    BY <1>1, Multiples
  <2>4. k \in Page
    BY <2>2, <2>3 DEF Page
  <2>5. e.start + k * PageSize \in Nat /\ e.start + k * PageSize < AddrSpace
    BY <1>1, <1>2, <1>4, <2>1
  <2>6. Plus(e.start, k * PageSize) = e.start + k * PageSize
    BY <1>1, <2>5 DEF Plus
  <2>7. e.start + k * PageSize = (a + k) * PageSize
    BY <1>1, <1>3
  <2>8. a + k \in Nat /\ ((a + k) * PageSize) \div PageSize = a + k
    BY <1>1, <1>3, Multiples
  <2> QED
    BY <2>4, <2>6, <2>7, <2>8
<1>5. Page \subseteq Nat
  BY <1>1 DEF Page, Address
<1>6. PagesOf(e) = {Plus(e.start, k * PageSize) \div PageSize :
                      k \in {n \in Page : n * PageSize < e.size}}
  BY <1>2 DEF PagesOf
<1>7. PagesOf(e) = {a + k : k \in {n \in Nat : n * PageSize < e.size}}
  BY <1>4, <1>5, <1>6
<1> QED
  BY <1>3, <1>7

\* A range within another one flushes no page the other one does not.
LEMMA PagesWithin ==
  ASSUME NEW c \in Entry, NEW d \in Entry,
         PlainRange(c), PlainRange(d), c.size <= FlushLimit, d.size <= FlushLimit,
         d.start <= c.start, c.start + c.size <= d.start + d.size
  PROVE  PagesOf(c) \subseteq PagesOf(d)
<1>1. PageSize \in Nat /\ PageSize > 0
  BY RangeAssumption
<1>2. PICK a \in Nat : /\ c.start = a * PageSize
                       /\ PagesOf(c) = {a + k : k \in {n \in Nat : n * PageSize < c.size}}
  BY PlainPages
<1>3. PICK b \in Nat : /\ d.start = b * PageSize
                       /\ PagesOf(d) = {b + k : k \in {n \in Nat : n * PageSize < d.size}}
  BY PlainPages
<1>4. c.size \in Nat /\ d.size \in Nat
  BY RangeAssumption DEF Entry, Address
<1>5. b <= a
  BY <1>1, <1>2, <1>3
<1>6. ASSUME NEW k \in Nat, k * PageSize < c.size
      PROVE  \E j \in {n \in Nat : n * PageSize < d.size} : a + k = b + j
  <2>1. a - b + k \in Nat
    BY <1>5
  <2>2. (a - b + k) * PageSize = a * PageSize - b * PageSize + k * PageSize
    BY <1>1
  <2>3. (a - b + k) * PageSize < d.size
    BY <1>1, <1>2, <1>3, <1>4, <1>6, <2>2
  <2> QED
    BY <2>1, <2>3
<1> QED
  BY <1>2, <1>3, <1>6

\* Merging, by skipping the new range or by putting it in place of the queued one,
\* drops no translation of either and yields such a range again.
LEMMA MergeKeeps ==
  ASSUME NEW curr \in Entry, NEW next \in Entry, Normal(curr), Normal(next),
         UpdateCb(curr, next) # "unchanged"
  PROVE  /\ Normal(Merged(curr, next))
         /\ Flushed(curr) \cup Flushed(next) \subseteq Flushed(Merged(curr, next))
<1> DEFINE Tag(e) == IF e.type \in Tagged THEN {e.asid} ELSE Asids
           Full(e) == e.start = 0 /\ e.size = FLUSH_ALL
           Plain(e) == e.size <= FlushLimit /\ PlainRange(e)
<1>1. /\ curr.type = next.type /\ curr.type \in Mergeable /\ curr.type # "ITLB"
      /\ Tag(curr) = Tag(next)
      /\ RangeCheck(curr, next) \in {"updated", "skip"}
  BY DEF UpdateCb, RangeCheck, Mergeable, Tagged
<1>2. /\ AddrSpace \in Nat /\ FlushLimit \in Nat
      /\ FLUSH_ALL = AddrSpace - 1 /\ FlushLimit < FLUSH_ALL
  BY RangeAssumption DEF FLUSH_ALL
<1>3. ASSUME NEW e \in Entry
      PROVE  e.start \in Nat /\ e.size \in Nat /\ e.start \in Address
  BY <1>2 DEF Entry, Address
<1>4. ASSUME NEW e \in Entry, Full(e)
      PROVE  ~Everything(e) /\ PagesOf(e) = Page /\ End(e) = FLUSH_ALL
  BY <1>2, <1>4 DEF Everything, PagesOf, End, Plus
<1>5. ASSUME NEW e \in Entry, Plain(e)
      PROVE  ~Everything(e) /\ End(e) = e.start + e.size /\ End(e) <= FLUSH_ALL
  BY <1>2, <1>3, <1>5 DEF PlainRange, End, Plus
<1>6. ASSUME NEW e \in Entry, e.type = curr.type, Full(e) \/ Plain(e)
      PROVE  Flushed(e) = {Fences[curr.type]} \X Tag(e) \X PagesOf(e)
  BY <1>1, <1>4, <1>5, <1>6 DEF Flushed
<1>7. (Full(curr) \/ Plain(curr)) /\ (Full(next) \/ Plain(next))
  BY <1>1 DEF Normal
<1> HIDE DEF Full, Plain, Tag
<1>8. CASE RangeCheck(curr, next) = "updated"
  <2>1. next.start <= curr.start /\ End(curr) < End(next)
    BY <1>2, <1>3, <1>8 DEF RangeCheck, End, Plus
  <2>2. PagesOf(curr) \subseteq PagesOf(next)
    <3>1. CASE Full(next)
      BY <1>3, <1>4, <3>1, PagesType
    <3>2. CASE Plain(next)
      <4>1. End(next) <= FLUSH_ALL /\ End(next) = next.start + next.size
        BY <1>5, <3>2
      <4>2. ~Full(curr)
        <5>1. SUFFICES ASSUME Full(curr) PROVE FALSE
          OBVIOUS
        <5>2. End(curr) = FLUSH_ALL
          BY <1>4, <5>1
        <5>3. FLUSH_ALL \in Nat /\ next.start + next.size \in Nat
          BY <1>2, <1>3
        <5> QED
          BY <2>1, <4>1, <5>2, <5>3
      <4>3. Plain(curr)
        BY <1>7, <4>2
      <4>4. End(curr) = curr.start + curr.size
        BY <1>5, <4>3
      <4>5. curr.start + curr.size <= next.start + next.size
        BY <1>3, <2>1, <4>1, <4>4
      <4> QED
        BY <2>1, <3>2, <4>3, <4>5, PagesWithin DEF Plain
    <3> QED
      BY <1>7, <3>1, <3>2
  <2> DEFINE m == Merged(curr, next)
  <2>3. /\ m \in Entry /\ m.type = curr.type /\ m.asid = curr.asid
        /\ m.start = next.start /\ m.size = next.size
    BY <1>8, EntryType DEF Merged, Entry
  <2>4. Full(m) \/ Plain(m)
    BY <1>7, <2>3 DEF Full, Plain, PlainRange, Everything
  <2>5. PagesOf(m) = PagesOf(next) /\ Tag(m) = Tag(curr)
    BY <2>3 DEF PagesOf, Everything, Tag
  <2> QED
    BY <1>1, <1>6, <1>7, <2>2, <2>3, <2>4, <2>5 DEF Normal, Full, Plain
<1>9. CASE RangeCheck(curr, next) = "skip"
  <2>1. curr.start <= next.start /\ End(next) <= End(curr)
    BY <1>2, <1>3, <1>9 DEF RangeCheck, End, Plus
  <2>2. PagesOf(next) \subseteq PagesOf(curr)
    <3>1. CASE Full(curr)
      BY <1>3, <1>4, <3>1, PagesType
    <3>2. CASE Plain(curr)
      <4>1. CASE Full(next)
        <5>1. curr.start = 0 /\ End(curr) = curr.size
          BY <1>3, <1>5, <2>1, <3>2, <4>1 DEF Full
        <5> QED
          BY <1>2, <1>3, <1>4, <2>1, <3>2, <4>1, <5>1 DEF Plain
      <4>2. CASE Plain(next)
        BY <1>5, <2>1, <3>2, <4>2, PagesWithin DEF Plain
      <4> QED
        BY <1>7, <4>1, <4>2
    <3> QED
      BY <1>7, <3>1, <3>2
  <2> DEFINE m == Merged(curr, next)
  <2>3. /\ m \in Entry /\ m.type = curr.type /\ m.asid = curr.asid
        /\ m.start = curr.start /\ m.size = curr.size
    BY <1>9, EntryType DEF Merged, Entry
  <2>4. Full(m) \/ Plain(m)
    BY <1>7, <2>3 DEF Full, Plain, PlainRange, Everything
  <2>5. PagesOf(m) = PagesOf(curr) /\ Tag(m) = Tag(curr)
    BY <2>3 DEF PagesOf, Everything, Tag
  <2> QED
    BY <1>1, <1>6, <1>7, <2>2, <2>3, <2>4, <2>5 DEF Normal, Full, Plain
<1> QED
  BY <1>1, <1>8, <1>9

\* The upgrade drops no translation and puts a request in the form of an entry.
LEMMA UpgradeKeeps ==
  ASSUME NEW e \in Entry
  PROVE  /\ Flushed(e) \subseteq Flushed(Upgrade(e))
         /\ Fits(e) => Normal(Upgrade(e))
         /\ Normal(e) => Fits(e)
<1>1. /\ AddrSpace \in Nat /\ FlushLimit \in Nat
      /\ FLUSH_ALL = AddrSpace - 1 /\ FlushLimit < FLUSH_ALL
      /\ e.start \in Address /\ e.size \in Nat
  BY RangeAssumption DEF FLUSH_ALL, Entry, Address
<1>2. CASE e.size > FlushLimit
  <2> DEFINE u == [e EXCEPT !.start = 0, !.size = FLUSH_ALL]
  <2>1. Upgrade(e) = u
    BY <1>2 DEF Upgrade
  <2>2. /\ u.type = e.type /\ u.asid = e.asid /\ u.start = 0 /\ u.size = FLUSH_ALL
    BY DEF Entry
  <2>3. ~Everything(e) /\ ~Everything(u)
    BY <1>1, <1>2, <2>2 DEF Everything
  <2>4. PagesOf(e) \subseteq PagesOf(u)
    BY <1>1, <2>2, PagesType DEF PagesOf
  <2> QED
    BY <1>1, <1>2, <2>1, <2>2, <2>3, <2>4 DEF Flushed, Normal, Fits
<1>3. CASE ~(e.size > FlushLimit)
  <2>1. Upgrade(e) = e
    BY <1>3 DEF Upgrade
  <2> QED
    BY <1>1, <1>3, <2>1 DEF Normal, Fits
<1> QED
  BY <1>2, <1>3

-----------------------------------------------------------------------------
(* The ranges in flight are fit to be merged.                              *)

\* The request of hart h has been upgraded and is about to be queued.
Enqueueing(h) ==
  \/ pc[h] = "enqueue"
  \/ pc[h] \in {"dequeue", "ack"} /\ caller[h] = "enqueue"

RangesFit ==
  \A h \in Hart :
    /\ Fits(tinfo[h])
    /\ Enqueueing(h) => Normal(tinfo[h])
    /\ \A i \in 1 .. Len(fifo[h]) : Normal(fifo[h][i])

\* A request whose range fits is still fit once it carries its caller.
LEMMA RequestFits ==
  ASSUME RequestsFit, NEW h \in Hart
  PROVE  /\ \A r \in Requests : Fits(Request(r, h))
         /\ Fits(NoTinfo(h))
<1>1. ASSUME NEW r \in Requests PROVE Fits(Request(r, h))
  BY DEF RequestsFit, Fits, PlainRange, Everything, Request
<1> QED
  BY <1>1, TlbAssumption DEF NoTinfo

LEMMA OthersEnqueue ==
  ASSUME NEW h \in Hart, \A r \in Hart \ {h} : pc'[r] = pc[r] /\ caller'[r] = caller[r]
  PROVE  \A r \in Hart \ {h} : Enqueueing(r)' <=> Enqueueing(r)
BY DEF Enqueueing

\* What a step that leaves the queued and the current ranges alone does to pc.
Calm(h) ==
  \/ NextSmode(h) \/ SetBit(h) \/ IpiSend(h) \/ Sync(h)
  \/ DequeueEmpty(h) \/ Ack(h)
  \/ Trap(h) \/ TakeBits(h) \/ ProcessSmode(h) \/ ProcessTlb(h) \/ TrapReturn(h)
  \/ ClearSmode(h)

LEMMA CalmSteps ==
  ASSUME TypeOK, Control, NEW h \in Hart, Calm(h)
  PROVE  /\ UNCHANGED <<fifo, event, tinfo, stale>>
         /\ NextSmode(h) \/ UNCHANGED <<targets, remote>>
         /\ \A r \in Hart : Enqueueing(r)' <=> Enqueueing(r)
<1> USE DEF sendVars, serveVars, Goto
<1>1. /\ UNCHANGED <<fifo, event, tinfo, stale>>
      /\ NextSmode(h) \/ UNCHANGED <<targets, remote>>
      /\ \A r \in Hart \ {h} : pc'[r] = pc[r] /\ caller'[r] = caller[r]
  BY DEF Calm, NextSmode, NextTarget, SetBit, IpiSend, Sync, DequeueEmpty, Ack, LeaveLoop,
         Trap, TakeBits, ProcessSmode, ProcessTlb, TrapReturn, ClearSmode, TypeOK
<1>2. Enqueueing(h)' <=> Enqueueing(h)
  <2>1. CASE DequeueEmpty(h)
    BY <2>1 DEF DequeueEmpty, LeaveLoop, ReturnPoint, TypeOK, Control, Enqueueing
  <2>2. CASE Ack(h)
    BY <2>2 DEF Ack, LeaveLoop, LoopEnds, ReturnPoint, TypeOK, Control, Enqueueing
  <2>3. CASE \/ NextSmode(h) \/ SetBit(h) \/ IpiSend(h) \/ Sync(h)
             \/ Trap(h) \/ TakeBits(h) \/ ProcessSmode(h) \/ ProcessTlb(h) \/ TrapReturn(h)
             \/ ClearSmode(h)
    BY <2>3 DEF NextSmode, NextTarget, SetBit, IpiSend, Sync, Trap, TakeBits, ProcessSmode,
                ProcessTlb, TrapReturn, ClearSmode, TypeOK, Control, Enqueueing
  <2> QED
    BY <2>1, <2>2, <2>3 DEF Calm
<1> QED
  BY <1>1, <1>2, OthersEnqueue

LEMMA InitFit == RequestsFit /\ Init => RangesFit
BY RequestFits DEF Init, RangesFit, Enqueueing

LEMMA NextFit ==
  ASSUME RequestsFit, TypeOK, Control, RangesFit, [Next]_vars
  PROVE  RangesFit'
<1> USE DEF sendVars, serveVars, Goto
<1>1. CASE UNCHANGED vars
  BY <1>1 DEF vars, RangesFit, Enqueueing
<1>2. ASSUME NEW h \in Hart, Call(h) \/ Machine(h) \/ ClearSmode(h) PROVE RangesFit'
  <2>1. CASE Calm(h)
    <3>1. UNCHANGED <<fifo, tinfo>> /\ \A r \in Hart : Enqueueing(r)' <=> Enqueueing(r)
      BY <2>1, CalmSteps
    <3> QED
      BY <3>1 DEF RangesFit
  <2>2. CASE Call(h) \/ SendManyReturn(h)
    <3>1. /\ UNCHANGED <<fifo, caller>>
          /\ pc'[h] \in {"send_many", "run"}
          /\ \A r \in Hart \ {h} : pc'[r] = pc[r] /\ caller'[r] = caller[r]
                                   /\ tinfo'[r] = tinfo[r]
      <4>1. CASE TlbRequest(h)
        BY <4>1 DEF TlbRequest, CallSendMany, TypeOK
      <4>2. CASE SendSmode(h)
        BY <4>2 DEF SendSmode, CallSendMany, TypeOK
      <4>3. CASE SendManyReturn(h)
        BY <4>3 DEF SendManyReturn, TypeOK
      <4> QED
        BY <2>2, <4>1, <4>2, <4>3 DEF Call
    <3>2. Fits(tinfo'[h])
      <4>1. CASE TlbRequest(h)
        <5>1. PICK r \in Requests : tinfo' = [tinfo EXCEPT ![h] = Request(r, h)]
          BY <4>1 DEF TlbRequest
        <5> QED
          BY <5>1, RequestFits DEF TypeOK
      <4>2. CASE SendSmode(h)
        BY <4>2 DEF SendSmode, RangesFit
      <4>3. CASE SendManyReturn(h)
        <5>1. tinfo' = [tinfo EXCEPT ![h] = NoTinfo(h)]
          BY <4>3 DEF SendManyReturn
        <5> QED
          BY <5>1, RequestFits DEF TypeOK
      <4> QED
        BY <2>2, <4>1, <4>2, <4>3 DEF Call
    <3>3. ~Enqueueing(h)'
      BY <3>1 DEF Enqueueing
    <3> QED
      BY <3>1, <3>2, <3>3, OthersEnqueue DEF RangesFit
  <2>3. CASE UpdateSelf(h)
    <3>1. /\ UNCHANGED <<fifo, caller, pc>> /\ pc[h] = "send_many"
          /\ tinfo' = [tinfo EXCEPT ![h] = Upgrade(tinfo[h])]
      BY <2>3 DEF UpdateSelf, NextTarget
    <3>2. Upgrade(tinfo[h]) \in Entry /\ Fits(Upgrade(tinfo[h]))
      BY EntryType, UpgradeKeeps DEF TypeOK, RangesFit
    <3> QED
      BY <3>1, <3>2 DEF RangesFit, Enqueueing, TypeOK, Control
  <2>4. CASE UpdateRemote(h)
    <3> DEFINE next == Upgrade(tinfo[h])
    <3>1. /\ tinfo[h] \in Entry /\ next \in Entry /\ Normal(next) /\ Fits(next)
      BY EntryType, UpgradeKeeps DEF TypeOK, RangesFit
    <3>2. /\ tinfo' = [tinfo EXCEPT ![h] = next] /\ UNCHANGED caller
          /\ \A r \in Hart \ {h} : pc'[r] = pc[r]
      BY <2>4 DEF UpdateRemote, TypeOK
    <3>3. ASSUME NEW k \in Hart, NEW j \in 1 .. Len(fifo'[k])
          PROVE  Normal(fifo'[k][j])
      <4>1. CASE UNCHANGED fifo
        BY <4>1, <3>3 DEF RangesFit
      <4>2. CASE fifo' # fifo
        <5>0. PICK t \in Hart : \E i \in MergePoints(fifo[t], next) :
                fifo' = [fifo EXCEPT ![t][i] = Merged(@, next)]
          BY <2>4, <4>2 DEF UpdateRemote
        <5>1. PICK i \in MergePoints(fifo[t], next) :
                fifo' = [fifo EXCEPT ![t][i] = Merged(@, next)]
          BY <5>0
        <5>2. fifo[t] \in Seq(Entry) /\ i \in 1 .. Len(fifo[t]) /\ fifo[t][i] \in Entry
          BY <5>1, ElementOfSeq DEF TypeOK, MergePoints
        <5>3. Normal(Merged(fifo[t][i], next))
          BY <3>1, <5>1, <5>2, MergeKeeps DEF MergePoints, RangesFit
        <5>4. /\ Len(fifo'[k]) = Len(fifo[k])
              /\ fifo'[k][j] = IF k = t /\ j = i THEN Merged(fifo[t][i], next) ELSE fifo[k][j]
          BY <5>1, <5>2 DEF TypeOK
        <5> HIDE DEF next
        <5> QED
          BY <3>3, <5>3, <5>4 DEF RangesFit
      <4> QED
        BY <4>1, <4>2
    <3> HIDE DEF next
    <3> QED
      BY <3>1, <3>2, <3>3, OthersEnqueue DEF RangesFit, TypeOK
  <2>5. CASE Enqueue(h)
    <3>1. /\ UNCHANGED tinfo /\ pc[h] = "enqueue" /\ Enqueueing(h)
          /\ \A r \in Hart \ {h} : pc'[r] = pc[r] /\ caller'[r] = caller[r]
      BY <2>5 DEF Enqueue, TypeOK, Enqueueing
    <3>2. ASSUME NEW k \in Hart, NEW j \in 1 .. Len(fifo'[k])
          PROVE  Normal(fifo'[k][j])
      <4>1. CASE UNCHANGED fifo
        BY <4>1, <3>2 DEF RangesFit
      <4>2. CASE fifo' # fifo
        <5>1. fifo' = [fifo EXCEPT ![remote[h]] = Append(fifo[remote[h]], tinfo[h])]
          BY <2>5, <4>2 DEF Enqueue
        <5>2. /\ remote[h] \in Hart /\ fifo[remote[h]] \in Seq(Entry)
              /\ Len(fifo[remote[h]]) \in Nat /\ tinfo[h] \in Entry
          BY DEF TypeOK
        <5>3. CASE k = remote[h]
          <6>1. fifo'[k] = Append(fifo[k], tinfo[h])
            BY <5>1, <5>3 DEF TypeOK
          <6>2. j \in 1 .. Len(fifo[k]) + 1
            BY <3>2, <5>2, <5>3, <6>1
          <6>3. CASE j = Len(fifo[k]) + 1
            BY <3>1, <5>2, <5>3, <6>1, <6>3 DEF RangesFit
          <6>4. CASE j # Len(fifo[k]) + 1
            <7>1. j \in 1 .. Len(fifo[k]) /\ fifo'[k][j] = fifo[k][j]
              BY <5>2, <5>3, <6>1, <6>2, <6>4
            <7> QED
              BY <7>1 DEF RangesFit
          <6> QED
            BY <6>3, <6>4
        <5>4. CASE k # remote[h]
          BY <3>2, <5>1, <5>4 DEF RangesFit, TypeOK
        <5> QED
          BY <5>3, <5>4
      <4> QED
        BY <4>1, <4>2
    <3> QED
      BY <3>1, <3>2, OthersEnqueue DEF RangesFit
  <2>6. CASE Dequeue(h)
    <3>1. /\ UNCHANGED <<tinfo, caller>> /\ pc[h] = "dequeue" /\ pc'[h] = "ack"
          /\ \A r \in Hart \ {h} : pc'[r] = pc[r]
          /\ fifo' = [fifo EXCEPT ![h] = Tail(fifo[h])]
      BY <2>6 DEF Dequeue, TypeOK
    <3>2. fifo[h] \in Seq(Entry) /\ fifo[h] # <<>> /\ Len(fifo[h]) \in Nat
      BY <2>6 DEF Dequeue, TypeOK
    <3>3. ASSUME NEW k \in Hart, NEW j \in 1 .. Len(fifo'[k])
          PROVE  Normal(fifo'[k][j])
      <4>1. CASE k = h
        <5>1. fifo'[k] = Tail(fifo[h])
          BY <3>1, <4>1 DEF TypeOK
        <5>2. j + 1 \in 1 .. Len(fifo[h]) /\ fifo'[k][j] = fifo[h][j + 1]
          BY <3>2, <3>3, <5>1
        <5> QED
          BY <5>2 DEF RangesFit
      <4>2. CASE k # h
        BY <3>1, <3>3, <4>2 DEF RangesFit, TypeOK
      <4> QED
        BY <4>1, <4>2
    <3>4. Enqueueing(h)' <=> Enqueueing(h)
      BY <3>1 DEF Enqueueing
    <3> QED
      BY <3>1, <3>3, <3>4, OthersEnqueue DEF RangesFit
  <2> QED
    BY <1>2, <2>1, <2>2, <2>3, <2>4, <2>5, <2>6 DEF Machine, Calm
<1> QED
  BY <1>1, <1>2 DEF Next

-----------------------------------------------------------------------------
(* Every translation still to be dropped is promised or queued.            *)

\* Outside sbi_ipi_send_many no target is left.
Idle ==
  \A r \in Hart :
    pc[r] \in {"run", "take_bits", "events"} \/ caller[r] = "ipi" => targets[r] = {}

\* The caller has still to visit t with a request that drops what is owed.
Promised(r, t) ==
  /\ event[r] = IPI_TLB
  /\ t \in targets[r] \/ (Enqueueing(r) /\ t = remote[r])
  /\ stale[r][t] \subseteq Flushed(tinfo[r])

\* An entry of t that acknowledges to r drops what is owed.
Covered(r, t) ==
  \E i \in Position : Queued(r, t, i) /\ stale[r][t] \subseteq Flushed(fifo[t][i])

Owed == \A r, t \in Hart : stale[r][t] = {} \/ Promised(r, t) \/ Covered(r, t)

LEMMA NextIdle ==
  ASSUME TypeOK, Control, Idle, [Next]_vars
  PROVE  Idle'
<1> USE DEF sendVars, serveVars, Goto
<1>1. CASE UNCHANGED vars
  BY <1>1 DEF vars, Idle
<1>2. ASSUME NEW h \in Hart, Call(h) \/ Machine(h) \/ ClearSmode(h) PROVE Idle'
  <2>1. \A r \in Hart \ {h} : pc'[r] = pc[r] /\ caller'[r] = caller[r] /\ targets'[r] = targets[r]
    <3>1. CASE Call(h) \/ SendManyReturn(h)
      BY <3>1 DEF Call, TlbRequest, SendSmode, CallSendMany, SendManyReturn, TypeOK
    <3>2. CASE Calm(h)
      BY <3>2 DEF Calm, NextSmode, NextTarget, SetBit, IpiSend, Sync, DequeueEmpty, Ack, LeaveLoop,
                  Trap, TakeBits, ProcessSmode, ProcessTlb, TrapReturn, ClearSmode, TypeOK
    <3>3. CASE UpdateSelf(h) \/ UpdateRemote(h) \/ Enqueue(h) \/ Dequeue(h)
      BY <3>3 DEF UpdateSelf, UpdateRemote, NextTarget, Enqueue, Dequeue, TypeOK
    <3> QED
      BY <1>2, <3>1, <3>2, <3>3 DEF Machine, Calm
  <2>2. pc'[h] \in {"run", "take_bits", "events"} \/ caller'[h] = "ipi" => targets'[h] = {}
    <3>1. CASE Call(h)
      <4>1. pc[h] = "run" /\ caller[h] \in {"none", "enqueue", "sync", "ipi"}
        BY <3>1 DEF Call, TlbRequest, SendSmode, CallSendMany, TypeOK
      <4>2. pc' = [pc EXCEPT ![h] = "send_many"] /\ caller' = caller
        BY <3>1 DEF Call, TlbRequest, SendSmode, CallSendMany
      <4>3. pc'[h] = "send_many"
        BY <4>2 DEF TypeOK
      <4>4. caller[h] = "none"
        BY <4>1 DEF Control
      <4> QED
        BY <4>2, <4>3, <4>4
    <3>2. CASE SendManyReturn(h)
      BY <3>2 DEF SendManyReturn
    <3>3. CASE NextSmode(h) \/ UpdateSelf(h) \/ UpdateRemote(h) \/ Enqueue(h) \/ Dequeue(h)
      BY <3>3 DEF NextSmode, NextTarget, UpdateSelf, UpdateRemote, Enqueue, Dequeue, TypeOK, Control, Idle
    <3>4. CASE DequeueEmpty(h) \/ Ack(h)
      <4>1. UNCHANGED targets
        BY <3>4 DEF DequeueEmpty, Ack
      <4>2. pc'[h] \in {"run", "take_bits", "events"} \/ caller'[h] = "ipi" => caller[h] = "ipi"
        <5>1. CASE DequeueEmpty(h)
          BY <5>1 DEF DequeueEmpty, LeaveLoop, ReturnPoint, TypeOK
        <5>2. CASE Ack(h)
          <6>1. \/ pc' = pc /\ caller' = caller
                \/ LeaveLoop(h)
                \/ pc' = [pc EXCEPT ![h] = "dequeue"] /\ caller' = caller
            BY <5>2 DEF Ack
          <6>2. pc[h] = "ack"
            BY <5>2 DEF Ack
          <6> QED
            BY <6>1, <6>2 DEF LeaveLoop, ReturnPoint, TypeOK
        <5> QED
          BY <3>4, <5>1, <5>2
      <4> QED
        BY <4>1, <4>2 DEF Idle
    <3>5. CASE SetBit(h) \/ IpiSend(h) \/ Sync(h)
      BY <3>5 DEF SetBit, IpiSend, Sync, TypeOK, Control, Idle
    <3>6. CASE Trap(h) \/ TakeBits(h) \/ ProcessSmode(h) \/ ProcessTlb(h) \/ TrapReturn(h)
               \/ ClearSmode(h)
      BY <3>6 DEF Trap, TakeBits, ProcessSmode, ProcessTlb, TrapReturn, ClearSmode, TypeOK, Idle
    <3> QED
      BY <1>2, <3>1, <3>2, <3>3, <3>4, <3>5, <3>6 DEF Machine
  <2> QED
    BY <2>1, <2>2 DEF Idle
<1> QED
  BY <1>1, <1>2 DEF Next

\* A step of h that takes no entry away and lets none drop less keeps Owed when it
\* keeps what h itself owes.
LEMMA OwedFrame ==
  ASSUME Owed, NEW h \in Hart,
         \A r, t \in Hart : stale'[r][t] \subseteq stale[r][t] \/ r = h,
         \A r, t \in Hart, i \in Position :
           Queued(r, t, i) => /\ Queued(r, t, i)'
                              /\ Flushed(fifo[t][i]) \subseteq Flushed(fifo'[t][i]),
         \A r \in Hart \ {h} :
           /\ event'[r] = event[r] /\ targets'[r] = targets[r]
           /\ remote'[r] = remote[r] /\ tinfo'[r] = tinfo[r]
           /\ Enqueueing(r) => Enqueueing(r)',
         \A t \in Hart :
           \/ stale'[h][t] = {} \/ Promised(h, t)' \/ Covered(h, t)'
           \/ ~Promised(h, t) /\ stale'[h][t] \subseteq stale[h][t]
  PROVE  Owed'
<1> SUFFICES ASSUME NEW r \in Hart, NEW t \in Hart
             PROVE  stale'[r][t] = {} \/ Promised(r, t)' \/ Covered(r, t)'
  BY DEF Owed
<1>1. stale[r][t] = {} \/ Promised(r, t) \/ Covered(r, t)
  BY DEF Owed
<1>2. ASSUME stale'[r][t] \subseteq stale[r][t]
      PROVE  Covered(r, t) => Covered(r, t)'
  <2>1. ASSUME NEW i \in Position, Queued(r, t, i), stale[r][t] \subseteq Flushed(fifo[t][i])
        PROVE  Queued(r, t, i)' /\ stale'[r][t] \subseteq Flushed(fifo'[t][i])
    <3>1. Queued(r, t, i)' /\ Flushed(fifo[t][i]) \subseteq Flushed(fifo'[t][i])
      BY <2>1
    <3> HIDE DEF Queued
    <3> QED
      BY <1>2, <2>1, <3>1
  <2> QED
    BY <2>1 DEF Covered
<1>3. CASE r = h
  BY <1>1, <1>2, <1>3
<1>4. CASE r # h
  <2>1. Promised(r, t) => Promised(r, t)'
    BY <1>4 DEF Promised
  <2> QED
    BY <1>1, <1>2, <1>4, <2>1
<1> QED
  BY <1>3, <1>4

\* The steps that leave every request where it is.
LEMMA CalmOwed ==
  ASSUME TypeOK, Control, Owed, NEW h \in Hart, Calm(h)
  PROVE  Owed'
<1>1. /\ UNCHANGED <<fifo, event, tinfo, stale>>
      /\ NextSmode(h) \/ UNCHANGED <<targets, remote>>
      /\ \A r \in Hart : Enqueueing(r)' <=> Enqueueing(r)
  BY CalmSteps
<1>2. \A r, t \in Hart : Covered(r, t)' <=> Covered(r, t)
  BY <1>1 DEF Covered, Queued
<1>3. CASE UNCHANGED <<targets, remote>>
  BY <1>1, <1>2, <1>3 DEF Owed, Promised
<1>4. CASE NextSmode(h)
  <2>1. /\ event[h] = IPI_SMODE
        /\ \A r \in Hart \ {h} : targets'[r] = targets[r] /\ remote'[r] = remote[r]
    BY <1>4 DEF NextSmode, NextTarget, TypeOK
  <2>2. \A r, t \in Hart : Promised(r, t) => Promised(r, t)'
    <3> SUFFICES ASSUME NEW r \in Hart, NEW t \in Hart, Promised(r, t) PROVE Promised(r, t)'
      OBVIOUS
    <3>1. r # h
      BY <2>1 DEF Promised, IPI_SMODE, IPI_TLB
    <3> QED
      BY <1>1, <2>1, <3>1 DEF Promised
  <2> QED
    BY <1>1, <1>2, <2>2 DEF Owed
<1> QED
  BY <1>1, <1>3, <1>4

\* A new call owes what it has just promised; an old one has nothing left to owe.
LEMMA CallOwed ==
  ASSUME TypeOK, Control, Idle, Owed, NEW h \in Hart, Call(h) \/ SendManyReturn(h)
  PROVE  Owed'
<1> USE DEF sendVars, serveVars, Goto
<1>1. /\ UNCHANGED <<fifo, caller>>
      /\ \A r \in Hart \ {h} :
           /\ pc'[r] = pc[r] /\ event'[r] = event[r] /\ targets'[r] = targets[r]
           /\ remote'[r] = remote[r] /\ tinfo'[r] = tinfo[r]
           /\ stale'[r] = stale[r]
  <2>1. CASE TlbRequest(h)
    BY <2>1 DEF TlbRequest, CallSendMany, TypeOK
  <2>2. CASE SendSmode(h)
    BY <2>2 DEF SendSmode, CallSendMany, TypeOK
  <2>3. CASE SendManyReturn(h)
    BY <2>3 DEF SendManyReturn, TypeOK
  <2> QED
    BY <2>1, <2>2, <2>3 DEF Call
<1>2. \A r \in Hart \ {h} : Enqueueing(r)' <=> Enqueueing(r)
  BY <1>1, OthersEnqueue
<1>3. targets[h] = {} /\ ~Enqueueing(h)
  BY DEF Call, TlbRequest, SendSmode, CallSendMany, SendManyReturn, Idle, Enqueueing, Control
<1>4. \A t \in Hart : ~Promised(h, t)
  BY <1>3 DEF Promised
<1>5. ASSUME NEW t \in Hart
      PROVE  \/ stale'[h][t] = {} \/ Promised(h, t)'
             \/ ~Promised(h, t) /\ stale'[h][t] \subseteq stale[h][t]
  <2>1. CASE TlbRequest(h)
    <3>1. PICK T \in TlbMasks, r \in Requests :
            /\ event' = [event EXCEPT ![h] = IPI_TLB]
            /\ targets' = [targets EXCEPT ![h] = T]
            /\ tinfo' = [tinfo EXCEPT ![h] = Request(r, h)]
            /\ stale' = [stale EXCEPT ![h] =
                           [k \in Hart |-> IF k \in T THEN Flushed(r) ELSE {}]]
      BY <2>1 DEF TlbRequest, CallSendMany
    <3>2. Flushed(Request(r, h)) = Flushed(r)
      BY DEF Flushed, Request, PagesOf, Everything
    <3>3. /\ event'[h] = IPI_TLB /\ targets'[h] = T /\ tinfo'[h] = Request(r, h)
          /\ stale'[h][t] = IF t \in T THEN Flushed(r) ELSE {}
      BY <3>1 DEF TypeOK
    <3> QED
      BY <3>2, <3>3 DEF Promised
  <2>2. CASE SendSmode(h) \/ SendManyReturn(h)
    BY <1>4, <2>2 DEF SendSmode, SendManyReturn
  <2> QED
    BY <2>1, <2>2 DEF Call
<1>6. \A r, t \in Hart, i \in Position : Queued(r, t, i)' <=> Queued(r, t, i)
  BY <1>1 DEF Queued
<1>7. \A r, t \in Hart : stale'[r][t] \subseteq stale[r][t] \/ r = h
  BY <1>1
<1> HIDE DEF Queued, Promised, Covered
<1> QED
  BY <1>1, <1>2, <1>5, <1>6, <1>7, OwedFrame

\* The caller's own flush.
LEMMA SelfOwed ==
  ASSUME TypeOK, Control, Owed, NEW h \in Hart, UpdateSelf(h)
  PROVE  Owed'
<1> DEFINE next == Upgrade(tinfo[h])
<1>1. /\ UNCHANGED <<fifo, caller, pc, event>> /\ pc[h] = "send_many" /\ event[h] = IPI_TLB
      /\ tinfo' = [tinfo EXCEPT ![h] = next]
      /\ targets' = [targets EXCEPT ![h] = @ \ {h}]
      /\ remote' = [remote EXCEPT ![h] = h]
      /\ stale' = [r \in Hart |-> [stale[r] EXCEPT ![h] = @ \ Flushed(next)]]
  BY DEF UpdateSelf, NextTarget, LocalFlush, serveVars
<1>2. Flushed(tinfo[h]) \subseteq Flushed(next)
  BY UpgradeKeeps DEF TypeOK
<1> HIDE DEF next
<1>3. \A r, t \in Hart :
        stale'[r][t] = IF t = h THEN stale[r][t] \ Flushed(next) ELSE stale[r][t]
  BY <1>1 DEF TypeOK
<1>4. \A r \in Hart : Enqueueing(r)' <=> Enqueueing(r)
  BY <1>1 DEF Enqueueing
<1>5. ~Enqueueing(h)
  BY <1>1 DEF Enqueueing
<1>6. ASSUME NEW t \in Hart
      PROVE  \/ stale'[h][t] = {} \/ Promised(h, t)'
             \/ ~Promised(h, t) /\ stale'[h][t] \subseteq stale[h][t]
  <2>1. CASE Promised(h, t)
    <3>1. t \in targets[h] /\ stale[h][t] \subseteq Flushed(tinfo[h])
      BY <1>5, <2>1 DEF Promised
    <3>2. CASE t = h
      BY <1>2, <1>3, <3>1, <3>2
    <3>3. CASE t # h
      <4>1. t \in targets'[h] /\ event'[h] = IPI_TLB /\ tinfo'[h] = next
        BY <1>1, <3>1, <3>3 DEF TypeOK
      <4>2. stale'[h][t] \subseteq Flushed(next)
        BY <1>2, <1>3, <3>1, <3>3
      <4> QED
        BY <4>1, <4>2 DEF Promised
    <3> QED
      BY <3>2, <3>3
  <2>2. CASE ~Promised(h, t)
    BY <1>3, <2>2
  <2> QED
    BY <2>1, <2>2
<1>7. \A r, t \in Hart, i \in Position : Queued(r, t, i)' <=> Queued(r, t, i)
  BY <1>1 DEF Queued
<1>8. \A r \in Hart \ {h} :
        /\ event'[r] = event[r] /\ targets'[r] = targets[r]
        /\ remote'[r] = remote[r] /\ tinfo'[r] = tinfo[r]
  BY <1>1 DEF TypeOK
<1>9. \A r, t \in Hart : stale'[r][t] \subseteq stale[r][t]
  BY <1>3
<1> HIDE DEF Queued, Promised, Covered
<1> QED
  BY <1>1, <1>4, <1>6, <1>7, <1>8, <1>9, OwedFrame

\* A request merged into a queued entry, or about to be queued.
LEMMA RemoteOwed ==
  ASSUME TypeOK, Control, RangesFit, Owed, NEW h \in Hart, UpdateRemote(h)
  PROVE  Owed'
<1> DEFINE next == Upgrade(tinfo[h])
<1>1. /\ tinfo[h] \in Entry /\ next \in Entry /\ Normal(next) /\ next.shart_mask = {h}
      /\ Flushed(tinfo[h]) \subseteq Flushed(next)
  BY EntryType, UpgradeKeeps DEF TypeOK, RangesFit, Control
<1>2. PICK t \in Hart \ {h} :
        /\ NextTarget(h, t)
        /\ \/ Goto(h, "enqueue") /\ UNCHANGED fifo
           \/ \E i \in MergePoints(fifo[t], next) :
                fifo' = [fifo EXCEPT ![t][i] = Merged(@, next)] /\ Goto(h, "set_bit")
  BY DEF UpdateRemote
<1>3. /\ UNCHANGED <<caller, event, stale>> /\ pc[h] = "send_many" /\ event[h] = IPI_TLB
      /\ tinfo' = [tinfo EXCEPT ![h] = next]
      /\ targets' = [targets EXCEPT ![h] = @ \ {t}]
      /\ remote' = [remote EXCEPT ![h] = t]
      /\ \A r \in Hart \ {h} : pc'[r] = pc[r]
  BY <1>2 DEF UpdateRemote, NextTarget, serveVars, Goto, TypeOK
<1> HIDE DEF next
<1>4. \A r \in Hart \ {h} : Enqueueing(r)' <=> Enqueueing(r)
  BY <1>3, OthersEnqueue
<1>5. ~Enqueueing(h)
  BY <1>3 DEF Enqueueing, Control
<1>6. /\ event'[h] = IPI_TLB /\ tinfo'[h] = next /\ targets'[h] = targets[h] \ {t}
      /\ remote'[h] = t
      /\ \A r \in Hart \ {h} :
           /\ event'[r] = event[r] /\ targets'[r] = targets[r]
           /\ remote'[r] = remote[r] /\ tinfo'[r] = tinfo[r]
  BY <1>3 DEF TypeOK
<1>7. ASSUME NEW u \in Hart, u # t, Promised(h, u) PROVE Promised(h, u)'
  <2>1. u \in targets[h] /\ stale[h][u] \subseteq Flushed(tinfo[h])
    BY <1>5, <1>7 DEF Promised
  <2>2. u \in targets'[h] /\ stale'[h][u] \subseteq Flushed(next)
    BY <1>1, <1>3, <1>6, <1>7, <2>1
  <2> QED
    BY <1>6, <2>2 DEF Promised
<1>8. ASSUME Promised(h, t) PROVE stale'[h][t] \subseteq Flushed(next)
  BY <1>1, <1>3, <1>8 DEF Promised
<1>9. CASE Goto(h, "enqueue") /\ UNCHANGED fifo
  <2>1. \A r, u \in Hart, i \in Position : Queued(r, u, i)' <=> Queued(r, u, i)
    BY <1>9 DEF Queued
  <2>2. Promised(h, t) => Promised(h, t)'
    <3>1. Enqueueing(h)'
      BY <1>9 DEF Goto, TypeOK, Enqueueing
    <3> QED
      BY <1>6, <1>8, <3>1 DEF Promised
  <2>3. \A u \in Hart : Promised(h, u) => Promised(h, u)'
    BY <1>7, <2>2
  <2> HIDE DEF Queued, Promised, Covered
  <2> QED
    BY <1>3, <1>4, <1>6, <1>9, <2>1, <2>3, OwedFrame
<1>10. CASE \E i \in MergePoints(fifo[t], next) : fifo' = [fifo EXCEPT ![t][i] = Merged(@, next)]
  <2>1. PICK i \in MergePoints(fifo[t], next) : fifo' = [fifo EXCEPT ![t][i] = Merged(@, next)]
    BY <1>10
  <2> DEFINE m == Merged(fifo[t][i], next)
  <2>2. /\ fifo[t] \in Seq(Entry) /\ Len(fifo[t]) \in Nat /\ Len(fifo[t]) <= FifoEntries
        /\ i \in 1 .. Len(fifo[t]) /\ fifo[t][i] \in Entry
        /\ UpdateCb(fifo[t][i], next) # "unchanged"
    BY <2>1, ElementOfSeq DEF TypeOK, MergePoints
  <2>3. /\ m.shart_mask = fifo[t][i].shart_mask \cup {h}
        /\ Flushed(fifo[t][i]) \subseteq Flushed(m) /\ Flushed(next) \subseteq Flushed(m)
    <3>1. Normal(fifo[t][i])
      BY <2>2 DEF RangesFit
    <3>2. Flushed(fifo[t][i]) \cup Flushed(next) \subseteq Flushed(m)
      BY <1>1, <2>2, <3>1, MergeKeeps
    <3>3. m.shart_mask = fifo[t][i].shart_mask \cup {h}
      BY <1>1, <2>2, EntryType
    <3> QED
      BY <3>2, <3>3
  <2>4. /\ \A u \in Hart : Len(fifo'[u]) = Len(fifo[u])
        /\ \A u \in Hart, j \in Position :
             j <= Len(fifo[u]) => fifo'[u][j] = IF u = t /\ j = i THEN m ELSE fifo[u][j]
    BY <2>1, <2>2, TlbAssumption DEF TypeOK, Position
  <2> HIDE DEF m
  <2>5. ASSUME NEW r \in Hart, NEW u \in Hart, NEW j \in Position, Queued(r, u, j)
        PROVE  Queued(r, u, j)' /\ Flushed(fifo[u][j]) \subseteq Flushed(fifo'[u][j])
    BY <2>3, <2>4, <2>5 DEF Queued
  <2>6. Promised(h, t) => Covered(h, t)'
    <3>1. i \in Position
      BY <2>2, TlbAssumption DEF Position
    <3>2. Queued(h, t, i)' /\ fifo'[t][i] = m
      BY <2>2, <2>3, <2>4, <3>1 DEF Queued
    <3> QED
      BY <1>8, <2>3, <3>1, <3>2 DEF Covered
  <2>7. \A u \in Hart : Promised(h, u) => Promised(h, u)' \/ Covered(h, u)'
    BY <1>7, <2>6
  <2> HIDE DEF Queued, Promised, Covered
  <2> QED
    BY <1>3, <1>4, <1>6, <2>5, <2>7, OwedFrame
<1> QED
  BY <1>2, <1>9, <1>10

\* A request queued, or a fifo that has no room for it.
LEMMA EnqueueOwed ==
  ASSUME TypeOK, Control, Owed, NEW h \in Hart, Enqueue(h)
  PROVE  Owed'
<1>0. PICK t \in Hart : t = remote[h]
  BY DEF TypeOK
<1>1. /\ UNCHANGED <<event, targets, remote, tinfo, stale>>
      /\ pc[h] = "enqueue" /\ event[h] = IPI_TLB /\ tinfo[h].shart_mask = {h}
      /\ \A r \in Hart \ {h} : pc'[r] = pc[r] /\ caller'[r] = caller[r]
  BY DEF Enqueue, sendVars, Goto, TypeOK, Control
<1>2. /\ t \in Hart /\ fifo[t] \in Seq(Entry) /\ Len(fifo[t]) \in Nat /\ tinfo[h] \in Entry
      /\ FifoEntries \in Nat /\ \A u \in Hart : Len(fifo[u]) \in Nat
  BY TlbAssumption DEF TypeOK
<1>r. remote[h] = t /\ remote'[h] = t
  BY <1>0, <1>1
<1>3. \A r \in Hart \ {h} : Enqueueing(r)' <=> Enqueueing(r)
  BY <1>1, OthersEnqueue
<1>4. \A u \in Hart : u # t /\ Promised(h, u) => Promised(h, u)'
  BY <1>1, <1>r DEF Promised
<1>5. CASE Len(fifo[t]) < FifoEntries
  <2>1. fifo' = [fifo EXCEPT ![t] = Append(fifo[t], tinfo[h])]
    BY <1>5, <1>r DEF Enqueue
  <2>2. ASSUME NEW r \in Hart, NEW u \in Hart, NEW i \in Position, Queued(r, u, i)
        PROVE  Queued(r, u, i)' /\ Flushed(fifo[u][i]) \subseteq Flushed(fifo'[u][i])
    <3>1. CASE u = t
      <4>1. i \in 1 .. Len(fifo[t])
        BY <1>2, <2>2, <3>1 DEF Queued, Position
      <4>2. /\ Len(fifo'[t]) = Len(fifo[t]) + 1 /\ fifo'[t][i] = fifo[t][i]
        BY <1>2, <2>1, <4>1 DEF TypeOK
      <4> QED
        BY <1>2, <2>2, <3>1, <4>1, <4>2 DEF Queued
    <3>2. CASE u # t
      BY <2>1, <2>2, <3>2 DEF Queued, TypeOK
    <3> QED
      BY <3>1, <3>2
  <2>3. Promised(h, t) => Covered(h, t)'
    <3>0. PICK i \in Nat : i = Len(fifo[t]) + 1
      BY <1>2
    <3>1. /\ Len(fifo'[t]) = i /\ fifo'[t][i] = tinfo[h]
      BY <1>2, <2>1, <3>0 DEF TypeOK
    <3>2. i \in Position /\ i <= Len(fifo'[t])
      BY <1>2, <1>5, <3>0, <3>1 DEF Position
    <3>3. Queued(h, t, i)'
      BY <1>1, <3>1, <3>2 DEF Queued
    <3>4. Promised(h, t) => stale'[h][t] \subseteq Flushed(fifo'[t][i])
      BY <1>1, <3>1 DEF Promised
    <3> QED
      BY <3>2, <3>3, <3>4 DEF Covered
  <2>4. \A u \in Hart : Promised(h, u) => Promised(h, u)' \/ Covered(h, u)'
    BY <1>4, <2>3
  <2> HIDE DEF Queued, Promised, Covered
  <2> QED
    BY <1>1, <1>3, <2>2, <2>4, OwedFrame
<1>6. CASE ~(Len(fifo[t]) < FifoEntries)
  <2>1. UNCHANGED fifo /\ Enqueueing(h)'
    BY <1>6, <1>r DEF Enqueue, Goto, TypeOK, Enqueueing
  <2>2. \A r, u \in Hart : Covered(r, u)' <=> Covered(r, u)
    BY <1>1, <2>1 DEF Covered, Queued
  <2>3. \A r, u \in Hart : Promised(r, u) => Promised(r, u)'
    BY <1>1, <1>3, <2>1 DEF Promised
  <2> QED
    BY <1>1, <2>2, <2>3 DEF Owed
<1> QED
  BY <1>5, <1>6

\* An entry served: what it covered is dropped, the others move up by one.
LEMMA DequeueOwed ==
  ASSUME TypeOK, Control, Owed, NEW h \in Hart, Dequeue(h)
  PROVE  Owed'
<1>1. /\ UNCHANGED <<event, targets, remote, tinfo, caller>> /\ pc[h] = "dequeue"
      /\ fifo' = [fifo EXCEPT ![h] = Tail(fifo[h])]
      /\ pc' = [pc EXCEPT ![h] = "ack"]
      /\ stale' = [r \in Hart |-> [stale[r] EXCEPT ![h] = @ \ Flushed(Head(fifo[h]))]]
  BY DEF Dequeue, LocalFlush, sendVars, Goto
<1>2. /\ fifo[h] \in Seq(Entry) /\ fifo[h] # <<>> /\ Len(fifo[h]) \in Nat
      /\ Len(fifo[h]) <= FifoEntries /\ FifoEntries \in Nat
  BY TlbAssumption DEF Dequeue, TypeOK
<1>3. \A r, t \in Hart :
        stale'[r][t] = IF t = h THEN stale[r][t] \ Flushed(fifo[h][1]) ELSE stale[r][t]
  <2>1. Head(fifo[h]) = fifo[h][1]
    BY <1>2
  <2> QED
    BY <1>1, <2>1 DEF TypeOK
<1>4. \A r \in Hart : Enqueueing(r)' <=> Enqueueing(r)
  BY <1>1 DEF Enqueueing, TypeOK
<1> SUFFICES ASSUME NEW r \in Hart, NEW t \in Hart
             PROVE  stale'[r][t] = {} \/ Promised(r, t)' \/ Covered(r, t)'
  BY DEF Owed
<1>5. CASE stale[r][t] = {}
  BY <1>3, <1>5
<1>6. CASE Promised(r, t)
  <2>1. stale'[r][t] \subseteq stale[r][t]
    BY <1>3
  <2> QED
    BY <1>1, <1>4, <1>6, <2>1 DEF Promised
<1>7. CASE Covered(r, t)
  <2>1. PICK i \in Position : Queued(r, t, i) /\ stale[r][t] \subseteq Flushed(fifo[t][i])
    BY <1>7 DEF Covered
  <2>2. CASE t # h
    <3>1. fifo'[t] = fifo[t] /\ stale'[r][t] = stale[r][t]
      BY <1>1, <1>3, <2>2 DEF TypeOK
    <3> QED
      BY <2>1, <3>1 DEF Covered, Queued
  <2>3. CASE t = h /\ i = 1
    BY <1>3, <2>1, <2>3
  <2>4. CASE t = h /\ i # 1
    <3>1. i - 1 \in Position /\ i - 1 <= Len(fifo'[h]) /\ fifo'[h][i - 1] = fifo[h][i]
      <4>1. fifo'[h] = Tail(fifo[h])
        BY <1>1 DEF TypeOK
      <4>2. i \in 2 .. Len(fifo[h])
        BY <1>2, <2>1, <2>4 DEF Queued, Position
      <4> QED
        BY <1>2, <4>1, <4>2 DEF Position
    <3>2. Queued(r, h, i - 1)' /\ stale'[r][h] \subseteq Flushed(fifo'[h][i - 1])
      BY <1>3, <2>1, <2>4, <3>1 DEF Queued
    <3> QED
      BY <2>4, <3>1, <3>2 DEF Covered
  <2> QED
    BY <2>2, <2>3, <2>4
<1> QED
  BY <1>5, <1>6, <1>7 DEF Owed

LEMMA NextOwed ==
  ASSUME TypeOK, Control, RangesFit, Idle, Owed, [Next]_vars
  PROVE  Owed'
<1>1. CASE UNCHANGED vars
  <2>1. UNCHANGED <<fifo, pc, event, targets, remote, tinfo, caller, stale>>
    BY <1>1 DEF vars, sendVars, serveVars
  <2> QED
    BY <2>1 DEF Owed, Promised, Covered, Queued, Enqueueing
<1>2. CASE Next
  BY <1>2, CalmOwed, CallOwed, SelfOwed, RemoteOwed, EnqueueOwed, DequeueOwed
     DEF Next, Machine, Calm
<1> QED
  BY <1>1, <1>2

-----------------------------------------------------------------------------
(* The results.                                                            *)

Fenced == TypeOK /\ Control /\ RangesFit /\ Idle /\ Owed

LEMMA FencedAlways ==
  ASSUME RequestsFit
  PROVE  Spec => []Fenced
<1>1. Init => Fenced
  <2> SUFFICES ASSUME Init PROVE Fenced
    OBVIOUS
  <2>1. Idle /\ Owed
    BY DEF Init, Idle, Owed
  <2> QED
    BY <2>1, InitType, InitFit DEF Fenced
<1>2. Fenced /\ [Next]_vars => Fenced'
  BY NextType, NextFit, NextIdle, NextOwed DEF Fenced
<1> QED
  BY <1>1, <1>2, PTL DEF Spec

\* When sbi_tlb_request returns, every target has dropped every translation of the
\* range: a fence is complete, whatever merging, upgrading and serving went on.
THEOREM FencesComplete == RequestsFit => (Spec => []ShootdownComplete)
\* A hart that runs supervisor code has no target left and nothing queued.
<1>1. ASSUME Fenced, OneAckEach PROVE ShootdownComplete
  <2> SUFFICES ASSUME NEW r \in Hart, pc[r] = "run", NEW t \in Hart PROVE stale[r][t] = {}
    BY DEF ShootdownComplete
  <2>1. ~Waiting(r) /\ ~Enqueueing(r) /\ targets[r] = {}
    BY <1>1 DEF Waiting, Enqueueing, Fenced, Idle
  <2>2. ~Promised(r, t)
    BY <2>1 DEF Promised
  <2>3. ~Covered(r, t)
    BY <1>1, <2>1 DEF Covered, OneAckEach, QueuedOnce
  <2> QED
    BY <1>1, <2>2, <2>3 DEF Fenced, Owed
<1>2. ASSUME RequestsFit PROVE Spec => []ShootdownComplete
  BY <1>1, <1>2, FencedAlways, AcksCorrect, PTL
<1> QED
  BY <1>2

\* Merging a request into a queued one drops no translation of either, as the
\* comment of sbi_tlb_update_cb promises.
THEOREM MergingKeepsRanges == RequestsFit => (Spec => MergeKeepsRanges)
<1> DEFINE Keeps ==
      \A h, t \in Hart : \A i \in 1 .. Len(fifo[t]) :
        (/\ pc[h] = "send_many" /\ pc'[h] = "set_bit" /\ remote'[h] = t
         /\ fifo'[t][i] # fifo[t][i])
        => Flushed(fifo[t][i]) \cup Flushed(tinfo[h]) \subseteq Flushed(fifo'[t][i])
<1>1. Fenced /\ [Next]_vars => Keeps
  <2> SUFFICES ASSUME Fenced, [Next]_vars,
                      NEW h \in Hart, NEW t \in Hart, NEW i \in 1 .. Len(fifo[t]),
                      pc[h] = "send_many", pc'[h] = "set_bit", remote'[h] = t,
                      fifo'[t][i] # fifo[t][i]
               PROVE  Flushed(fifo[t][i]) \cup Flushed(tinfo[h]) \subseteq Flushed(fifo'[t][i])
    OBVIOUS
  <2> USE DEF Fenced
  <2>1. UpdateRemote(h)
    <3>1. PICK k \in Hart : Call(k) \/ Machine(k) \/ ClearSmode(k)
      BY DEF Next, vars
    <3>2. k = h
      BY <3>1 DEF Call, TlbRequest, SendSmode, CallSendMany, Machine, Goto, NextSmode,
                  SendManyReturn, UpdateSelf, UpdateRemote, Enqueue, SetBit, IpiSend, Sync,
                  Dequeue, DequeueEmpty, Ack, LeaveLoop, Trap, TakeBits, ProcessSmode,
                  ProcessTlb, TrapReturn, ClearSmode, TypeOK
    <3>3. pc[h] = "send_many" /\ fifo' # fifo /\ pc'[h] = "set_bit"
      OBVIOUS
    <3> QED
      BY <3>1, <3>2, <3>3
         DEF Call, TlbRequest, SendSmode, CallSendMany, Machine, NextSmode,
             SendManyReturn, UpdateSelf, Enqueue, SetBit, IpiSend, Sync,
             Dequeue, DequeueEmpty, Ack, Trap, TakeBits, ProcessSmode,
             ProcessTlb, TrapReturn, ClearSmode
  <2> DEFINE next == Upgrade(tinfo[h])
  <2>2. /\ tinfo[h] \in Entry /\ next \in Entry /\ Normal(next)
        /\ Flushed(tinfo[h]) \subseteq Flushed(next)
    BY EntryType, UpgradeKeeps DEF TypeOK, RangesFit
  <2>3. PICK u \in Hart : \E j \in MergePoints(fifo[u], next) :
          fifo' = [fifo EXCEPT ![u][j] = Merged(@, next)]
    BY <2>1 DEF UpdateRemote
  <2>4. PICK j \in MergePoints(fifo[u], next) : fifo' = [fifo EXCEPT ![u][j] = Merged(@, next)]
    BY <2>3
  <2>5. u = t /\ j = i /\ fifo'[t][i] = Merged(fifo[t][i], next)
    BY <2>4 DEF TypeOK, MergePoints
  <2>6. /\ fifo[t][i] \in Entry /\ Normal(fifo[t][i])
        /\ UpdateCb(fifo[t][i], next) # "unchanged"
    BY <2>4, <2>5, ElementOfSeq DEF TypeOK, RangesFit, MergePoints
  <2> HIDE DEF next
  <2> QED
    BY <2>2, <2>5, <2>6, MergeKeeps
<1>2. ASSUME RequestsFit PROVE Spec => MergeKeepsRanges
  <2>1. Fenced /\ [Next]_vars => [Keeps]_vars
    BY <1>1
  <2> QED
    BY <1>1, <1>2, FencedAlways, PTL DEF Spec, MergeKeepsRanges
<1> QED
  BY <1>2
=============================================================================
