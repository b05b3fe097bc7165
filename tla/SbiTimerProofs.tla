---------------------------- MODULE SbiTimerProofs ---------------------------
(***************************************************************************)
(* Proofs about SbiTimer for every width of the halves, every set of harts *)
(* and deadlines, and every bound on the clock and the calls.              *)
(***************************************************************************)
EXTENDS SbiTimer, TLAPS

\* Quotient and rest of naturals are naturals.
LEMMA Quotient ==
  ASSUME NEW b \in Nat, b > 0, NEW v \in Nat
  PROVE  v \div b \in Nat /\ v % b \in Nat
<1>1. v \div b \in Int /\ v % b \in 0 .. b - 1 /\ v = b * (v \div b) + (v % b)
  BY Z3
<1>2. ASSUME NEW q \in Int, NEW r \in 0 .. b - 1, v = b * q + r
      PROVE  q \in Nat
  BY <1>2, Z3
<1> QED
  BY <1>1, <1>2

\* A value of two halves is what its halves make, each half is one, and the high
\* half does not go down when the value goes up.
LEMMA Halves ==
  /\ Never \in Nat
  /\ \A v \in 0 .. Never : /\ Hi(v) \in 0 .. Half - 1 /\ Lo(v) \in 0 .. Half - 1
                           /\ Join(Hi(v), Lo(v)) = v
  /\ \A v, w \in 0 .. Never : v <= w => Hi(v) <= Hi(w)
<1>1. Half \in Nat /\ Half > 0 /\ Never \in Nat
  <2>1. ASSUME NEW b \in Nat, b > 0 PROVE b * b > 0
    BY <2>1, Z3
  <2> QED
    BY TimerAssumption, <2>1 DEF Never
<1>2. ASSUME NEW b \in Nat, b > 0, NEW v \in Nat
      PROVE  /\ v \div b \in Int /\ v % b \in 0 .. b - 1
             /\ v = b * (v \div b) + (v % b)
  BY <1>2, Z3
<1>3. ASSUME NEW b \in Nat, b > 0, NEW q \in Int, NEW r \in 0 .. b - 1,
             b * q + r >= 0, b * q + r < b * b
      PROVE  q \in 0 .. b - 1
  BY <1>3, Z3
<1>4. ASSUME NEW b \in Nat, b > 0, NEW p \in Int, NEW q \in Int,
             NEW r \in 0 .. b - 1, NEW s \in 0 .. b - 1, b * p + r <= b * q + s
      PROVE  p <= q
  BY <1>4, Z3
<1>5. ASSUME NEW v \in 0 .. Never
      PROVE  /\ Hi(v) \in 0 .. Half - 1 /\ Lo(v) \in 0 .. Half - 1
             /\ Half * Hi(v) + Lo(v) = v
             /\ Join(Hi(v), Lo(v)) = v
  <2>1. Hi(v) \in Int /\ Lo(v) \in 0 .. Half - 1 /\ Half * Hi(v) + Lo(v) = v
    BY <1>1, <1>2 DEF Hi, Lo
  <2>2. v >= 0 /\ v < Half * Half
    BY <1>1 DEF Never
  <2>3. Hi(v) \in 0 .. Half - 1
    BY <1>1, <1>3, <2>1, <2>2
  <2>4. Hi(v) * Half = Half * Hi(v)
    BY <1>1, <2>1
  <2> QED
    BY <2>1, <2>3, <2>4 DEF Join
<1>6. ASSUME NEW v \in 0 .. Never, NEW w \in 0 .. Never, v <= w
      PROVE  Hi(v) <= Hi(w)
  <2>1. /\ Hi(v) \in Int /\ Lo(v) \in 0 .. Half - 1
        /\ Hi(w) \in Int /\ Lo(w) \in 0 .. Half - 1
    BY <1>1, <1>5
  <2>2. Half * Hi(v) + Lo(v) <= Half * Hi(w) + Lo(w)
    BY <1>5, <1>6
  <2> QED
    BY <1>1, <1>4, <2>1, <2>2
<1> QED
  BY <1>1, <1>5, <1>6
-----------------------------------------------------------------------------
(* Types *)

\* Every variable has its type in every behaviour, whatever the width.
THEOREM TypeCorrect == Spec => []TypeOK
<1>1. Init => TypeOK
  <2> SUFFICES ASSUME Init PROVE TypeOK
    OBVIOUS
  <2>1. {0, Half - 1} \subseteq 0 .. Half - 1 /\ Never \in 0 .. Never /\ 0 \in 0 .. Never
    BY TimerAssumption, Halves
  <2> QED
    BY <2>1, TimerAssumption DEF Init, TypeOK, Label
<1>2. TypeOK /\ [Next]_vars => TypeOK'
  <2> SUFFICES ASSUME TypeOK, [Next]_vars PROVE TypeOK'
    OBVIOUS
  <2> USE DEF TypeOK
  <2>1. CASE Tick
    BY <2>1 DEF Tick, cmpVars, csrs, readVars, askVars
  <2>2. ASSUME NEW h \in Hart, Call(h) PROVE TypeOK'
    <3>1. Never \in 0 .. Never
      BY Halves
    <3>2. CASE EventStart(h)
      BY <3>2, TimerAssumption
      DEF EventStart, StartWriting, Goto, At, Label, csrs, readVars
    <3>3. CASE EventStop(h)
      <4>1. CASE StartWriting(h, Never, "exit")
        BY <3>1, <3>3, <4>1
        DEF EventStop, StartWriting, Goto, Label, csrs, readVars, askVars
      <4>2. CASE Goto(h, "exit") /\ UNCHANGED cmpVars
        BY <3>3, <4>2 DEF EventStop, Goto, Label, cmpVars, csrs, readVars, askVars
      <4> QED
        BY <3>3, <4>1, <4>2 DEF EventStop
    <3>4. CASE TimerValue(h)
      BY <3>4 DEF TimerValue, Goto, At, Label, cmpVars, csrs, askVars
    <3> QED
      BY <2>2, <3>2, <3>3, <3>4 DEF Call
  <2>3. ASSUME NEW h \in Hart, Machine(h) PROVE TypeOK'
    <3>1. CASE TimerInit(h)
      BY <3>1, Halves
      DEF TimerInit, StartWriting, Goto, At, Label, csrs, readVars, askVars
    <3>2. CASE CompareLow(h)
      BY <3>2, Halves DEF CompareLow, Goto, At, Label, csrs, readVars, askVars
    <3>3. CASE CompareHigh(h)
      BY <3>3, Halves DEF CompareHigh, Goto, At, Label, csrs, readVars, askVars
    <3>4. CASE ClearStip(h) \/ SetMtie(h) \/ TimerProcess(h) \/ TimerExit(h)
      BY <3>4
      DEF ClearStip, SetMtie, TimerProcess, TimerExit, Goto, At, Label,
          cmpVars, readVars, askVars
    <3>5. CASE ReadHigh(h) \/ ReadLow(h) \/ ReadAgain(h)
      <4>1. \A v \in Nat : Hi(v) \in Nat /\ Lo(v) \in Nat
        <5>1. Half \in Nat /\ Half > 0
          BY TimerAssumption
        <5> QED
          BY <5>1, Quotient DEF Hi, Lo
      <4>2. \A a, b \in Nat : Join(a, b) \in Nat
        <5>1. ASSUME NEW a \in Nat, NEW b \in Nat, NEW c \in Nat
              PROVE  a * c + b \in Nat
          <6>1. a * c \in Nat
            BY Z3
          <6> QED
            BY <6>1
        <5>2. Half \in Nat
          BY TimerAssumption
        <5> QED
          BY <5>1, <5>2, Zenon DEF Join
      <4>3. Hi(mtime) \in Nat /\ Lo(mtime) \in Nat /\ Join(hi[h], lo[h]) \in Nat
        BY <4>1, <4>2
      <4> QED
        BY <3>5, <4>3
        DEF ReadHigh, ReadLow, ReadAgain, Goto, At, Label, cmpVars, csrs, askVars
    <3> QED
      BY <2>3, <3>1, <3>2, <3>3, <3>4, <3>5 DEF Machine
  <2>4. CASE UNCHANGED vars
    BY <2>4 DEF vars, cmpVars, csrs, readVars, askVars
  <2> QED
    BY <2>1, <2>2, <2>3, <2>4 DEF Next
<1> QED
  BY <1>1, <1>2, PTL DEF Spec
-----------------------------------------------------------------------------
(* Deadlines *)

CompareIs(h, v) == mtimecmp[h].hi = Hi(v) /\ mtimecmp[h].lo = Lo(v)

\* Where the supervisor, or an emulated read on its behalf, runs.
Running == {"super", "rd_hi", "rd_lo", "rd_again"}

\* The deadline on its way from the call to the registers and back to the hart.
DeadlineInv(h) ==
  /\ pc[h] = "init" => ~asked[h] /\ ~mtie[h] /\ ~stip[h]
  /\ pc[h] \in {"cmp_lo", "cmp_hi"} =>
       /\ return_to[h] = "super" => ~asked[h] /\ ~mtie[h] /\ ~stip[h]
       /\ return_to[h] = "clear_stip" => asked[h] /\ writing[h] = next_event[h]
  /\ pc[h] = "cmp_hi" => mtimecmp[h].lo = Lo(writing[h])
  /\ pc[h] \in {"clear_stip", "set_mtie"} => asked[h] /\ CompareIs(h, next_event[h])
  /\ pc[h] = "set_mtie" => ~stip[h]
  /\ pc[h] \in Running =>
       /\ ~asked[h] => ~mtie[h] /\ ~stip[h]
       /\ asked[h] => /\ CompareIs(h, next_event[h])
                      /\ mtie[h] # stip[h]
                      /\ stip[h] => next_event[h] <= mtime

\* A deadline is never signalled early, and it is either awaited or signalled: the
\* compare register holds it whenever the interrupt can be taken.
THEOREM DeadlinesKept == Spec => [](NeverEarly /\ AwaitedOrSignalled)
<1> DEFINE Inv == \A h \in Hart : DeadlineInv(h)
<1>1. Init => Inv
  BY DEF Init, DeadlineInv, Running
<1>2. TypeOK /\ Inv /\ [Next]_vars => Inv'
  <2> SUFFICES ASSUME TypeOK, Inv, [Next]_vars, NEW g \in Hart PROVE DeadlineInv(g)'
    OBVIOUS
  <2>0. DeadlineInv(g)
    OBVIOUS
  <2> DEFINE kept == <<mtimecmp[g], writing[g], return_to[g], mtie[g], stip[g], pc[g],
                       next_event[g], asked[g]>>
  <2>1. ASSUME UNCHANGED kept, mtime' \in Nat, mtime' >= mtime PROVE DeadlineInv(g)'
    BY <2>0, <2>1 DEF DeadlineInv, CompareIs, Running, TypeOK
  <2>2. CASE Tick
    BY <2>1, <2>2 DEF Tick, cmpVars, csrs, askVars, TypeOK
  <2>3. ASSUME NEW h \in Hart, Call(h) \/ Machine(h), h # g PROVE DeadlineInv(g)'
    <3>1. CASE Call(h)
      <4>1. UNCHANGED <<mtime, mtie, stip>>
        BY <3>1 DEF Call, EventStart, EventStop, TimerValue, csrs
      <4>2. UNCHANGED <<next_event[g], asked[g]>>
        BY <2>3, <3>1 DEF Call, EventStart, EventStop, TimerValue, askVars, TypeOK
      <4>3. UNCHANGED <<mtimecmp[g], writing[g], return_to[g], pc[g]>>
        BY <2>3, <3>1
        DEF Call, EventStart, EventStop, TimerValue, StartWriting, Goto, cmpVars, TypeOK
      <4> QED
        BY <2>1, <4>1, <4>2, <4>3 DEF TypeOK
    <3>2. CASE TimerInit(h) \/ CompareLow(h) \/ CompareHigh(h)
      BY <2>1, <2>3, <3>2
      DEF TimerInit, CompareLow, CompareHigh, StartWriting, Goto, csrs, askVars, TypeOK
    <3>3. CASE ClearStip(h) \/ SetMtie(h) \/ TimerProcess(h) \/ TimerExit(h)
      BY <2>1, <2>3, <3>3
      DEF ClearStip, SetMtie, TimerProcess, TimerExit, Goto, cmpVars, askVars, TypeOK
    <3>4. CASE ReadHigh(h) \/ ReadLow(h) \/ ReadAgain(h)
      BY <2>1, <2>3, <3>4
      DEF ReadHigh, ReadLow, ReadAgain, Goto, cmpVars, csrs, askVars, TypeOK
    <3> QED
      BY <2>3, <3>1, <3>2, <3>3, <3>4 DEF Machine
  <2>4. CASE Call(g)
    <3>1. CASE EventStart(g)
      BY <2>0, <3>1 DEF EventStart, StartWriting, Goto, At, DeadlineInv, Running, TypeOK
    <3>2. CASE EventStop(g)
      BY <2>0, <3>2 DEF EventStop, StartWriting, Goto, At, DeadlineInv, Running, TypeOK
    <3>3. CASE TimerValue(g)
      BY <2>0, <3>3
      DEF TimerValue, Goto, At, DeadlineInv, CompareIs, Running, TypeOK, cmpVars, csrs, askVars
    <3> QED
      BY <2>4, <3>1, <3>2, <3>3 DEF Call
  <2>5. CASE Machine(g)
    <3>1. CASE TimerInit(g)
      BY <2>0, <3>1
      DEF TimerInit, StartWriting, Goto, At, DeadlineInv, Running, TypeOK, csrs, askVars
    <3>2. CASE CompareLow(g)
      BY <2>0, <3>2
      DEF CompareLow, Goto, At, DeadlineInv, Running, TypeOK, csrs, askVars
    <3>3. CASE CompareHigh(g)
      BY <2>0, <3>3
      DEF CompareHigh, Goto, At, DeadlineInv, CompareIs, Running, TypeOK, csrs, askVars
    <3>4. CASE ClearStip(g) \/ SetMtie(g) \/ TimerExit(g)
      BY <2>0, <3>4
      DEF ClearStip, SetMtie, TimerExit, Goto, At, DeadlineInv, CompareIs, Running,
          TypeOK, cmpVars, askVars
    <3>5. CASE TimerProcess(g)
      <4>1. mtimecmp[g].hi = Hi(next_event[g]) /\ mtimecmp[g].lo = Lo(next_event[g])
        BY <2>0, <3>5 DEF TimerProcess, At, DeadlineInv, CompareIs, Running, TypeOK
      <4>2. next_event[g] <= mtime
        BY <3>5, <4>1, Halves DEF TimerProcess, Mtip, TypeOK
      <4> QED
        BY <2>0, <3>5, <4>2
        DEF TimerProcess, At, DeadlineInv, CompareIs, Running, TypeOK, cmpVars, askVars
    <3>6. CASE ReadHigh(g) \/ ReadLow(g) \/ ReadAgain(g)
      BY <2>0, <3>6
      DEF ReadHigh, ReadLow, ReadAgain, Goto, At, DeadlineInv, CompareIs, Running,
          TypeOK, cmpVars, csrs, askVars
    <3> QED
      BY <2>5, <3>1, <3>2, <3>3, <3>4, <3>5, <3>6 DEF Machine
  <2>6. CASE UNCHANGED vars
    BY <2>1, <2>6 DEF vars, cmpVars, csrs, askVars, TypeOK
  <2> QED
    BY <2>2, <2>3, <2>4, <2>5, <2>6 DEF Next
<1>3. Inv => NeverEarly /\ AwaitedOrSignalled
  BY DEF DeadlineInv, Running, NeverEarly, AwaitedOrSignalled, At
<1> QED
  BY <1>1, <1>2, <1>3, TypeCorrect, PTL DEF Spec

\* The supervisor is never shown the bit of a deadline that has not come: between the
\* store of the two halves, the clearing of the bit and the enabling of the machine
\* interrupt, on every hart, whatever the width of a half.
THEOREM NoneIsEarly == Spec => []NeverEarly
  BY DeadlinesKept, PTL

-----------------------------------------------------------------------------
(* Reading in halves *)

\* What has been read so far was there, in this order, since the call.
ReadInv(h) ==
  /\ pc[h] \in {"rd_hi", "rd_lo", "rd_again"} => since[h] <= mtime
  /\ pc[h] = "rd_lo" => \E t \in since[h] .. mtime : hi[h] = Hi(t)
  /\ pc[h] = "rd_again" =>
       \E t \in since[h] .. mtime : \E u \in t .. mtime : hi[h] = Hi(t) /\ lo[h] = Lo(u)

\* The loop of clint_time_rd32 returns a value mtime had during the call: the high
\* half was the same before and after, so it was the same when the low one was read.
THEOREM ReadCorrect == Spec => ReadIsCurrent
<1> DEFINE Inv == mtime <= MaxTime /\ \A h \in Hart : ReadInv(h)
<1>1. Init => Inv
  BY TimerAssumption DEF Init, ReadInv
<1>2. TypeOK /\ Inv /\ [Next]_vars => Inv'
  <2> SUFFICES ASSUME TypeOK, Inv, [Next]_vars PROVE Inv'
    OBVIOUS
  <2>1. mtime' \in Nat /\ mtime <= mtime' /\ mtime' <= MaxTime
    <3>1. mtime \in Nat /\ MaxTime \in Nat /\ mtime <= MaxTime
      BY TimerAssumption DEF TypeOK
    <3>2. CASE Tick
      BY <3>1, <3>2 DEF Tick
    <3>3. CASE UNCHANGED vars \/ \E h \in Hart : Call(h) \/ Machine(h)
      <4>1. UNCHANGED mtime
        BY <3>3
        DEF Call, Machine, EventStart, EventStop, TimerValue, TimerInit, CompareLow,
            CompareHigh, ClearStip, SetMtie, TimerProcess, TimerExit, ReadHigh, ReadLow,
            ReadAgain, vars
      <4> QED
        BY <3>1, <4>1
    <3> QED
      BY <3>2, <3>3 DEF Next
  <2> SUFFICES ASSUME NEW g \in Hart PROVE ReadInv(g)'
    BY <2>1
  <2>0. ReadInv(g) /\ mtime \in Nat /\ since[g] \in Nat
    BY DEF TypeOK
  <2>2. ASSUME UNCHANGED <<pc[g], hi[g], lo[g], since[g]>> PROVE ReadInv(g)'
    BY <2>0, <2>1, <2>2 DEF ReadInv
  <2>3. CASE Tick \/ UNCHANGED vars
    BY <2>2, <2>3 DEF Tick, vars, readVars
  <2>4. ASSUME NEW h \in Hart, Call(h) \/ Machine(h), h # g PROVE ReadInv(g)'
    <3>1. UNCHANGED pc[g]
      BY <2>4
      DEF Call, Machine, EventStart, EventStop, TimerValue, TimerInit, CompareLow,
          CompareHigh, ClearStip, SetMtie, TimerProcess, TimerExit, ReadHigh, ReadLow,
          ReadAgain, StartWriting, Goto, TypeOK
    <3>2. UNCHANGED <<hi[g], lo[g], since[g]>>
      BY <2>4
      DEF Call, Machine, EventStart, EventStop, TimerValue, TimerInit, CompareLow,
          CompareHigh, ClearStip, SetMtie, TimerProcess, TimerExit, ReadHigh, ReadLow,
          ReadAgain, readVars, TypeOK
    <3> QED
      BY <2>2, <3>1, <3>2
  <2>5. CASE Call(g)
    BY <2>1, <2>5
    DEF Call, EventStart, EventStop, TimerValue, StartWriting, Goto, At, ReadInv, TypeOK
  <2>6. CASE Machine(g)
    <3>1. CASE ReadHigh(g)
      <4>1. since[g] <= mtime
        BY <2>0, <3>1 DEF ReadHigh, At, ReadInv
      <4> QED
        BY <2>0, <2>1, <3>1, <4>1 DEF ReadHigh, Goto, At, ReadInv, TypeOK
    <3>2. CASE ReadLow(g)
      <4>1. PICK t \in since[g] .. mtime : hi[g] = Hi(t)
        BY <2>0, <3>2 DEF ReadLow, At, ReadInv
      <4> QED
        BY <2>0, <2>1, <3>2, <4>1 DEF ReadLow, Goto, At, ReadInv, TypeOK
    <3>3. CASE ReadAgain(g)
      <4>1. since[g] <= mtime
        BY <2>0, <3>3 DEF ReadAgain, At, ReadInv
      <4> QED
        BY <2>0, <2>1, <3>3, <4>1 DEF ReadAgain, Goto, At, ReadInv, TypeOK
    <3>4. CASE \/ TimerInit(g) \/ CompareLow(g) \/ CompareHigh(g)
               \/ ClearStip(g) \/ SetMtie(g) \/ TimerProcess(g) \/ TimerExit(g)
      BY <2>0, <2>1, <3>4
      DEF TimerInit, CompareLow, CompareHigh, ClearStip, SetMtie, TimerProcess,
          TimerExit, StartWriting, Goto, At, ReadInv, TypeOK
    <3> QED
      BY <2>6, <3>1, <3>2, <3>3, <3>4 DEF Machine
  <2> QED
    BY <2>3, <2>4, <2>5, <2>6 DEF Next
<1>3. TypeOK /\ Inv /\ [Next]_vars =>
        [\A h \in Hart :
           At(h, "rd_again") /\ pc'[h] = "super" => value'[h] \in since[h] .. mtime]_vars
  <2> SUFFICES ASSUME TypeOK, Inv, Next, NEW g \in Hart, At(g, "rd_again"), pc'[g] = "super"
               PROVE  value'[g] \in since[g] .. mtime
    OBVIOUS
  <2>1. ReadAgain(g)
    BY DEF Next, Tick, Call, Machine, EventStart, EventStop, TimerValue, TimerInit,
           CompareLow, CompareHigh, ClearStip, SetMtie, TimerProcess, TimerExit, ReadHigh,
           ReadLow, ReadAgain, StartWriting, Goto, At, TypeOK
  <2>2. PICK t \in since[g] .. mtime, u \in since[g] .. mtime :
          t <= u /\ hi[g] = Hi(t) /\ lo[g] = Lo(u)
    BY DEF ReadInv, At, TypeOK
  <2>3. t \in 0 .. Never /\ u \in 0 .. Never /\ mtime \in 0 .. Never
    BY TimerAssumption, Halves DEF TypeOK
  <2>4. Hi(mtime) = hi[g] /\ value'[g] = Join(hi[g], lo[g])
    BY <2>1 DEF ReadAgain, Goto, At, TypeOK
  <2>5. Hi(t) <= Hi(u) /\ Hi(u) <= Hi(mtime)
    <3>1. t <= u /\ u <= mtime
      BY <2>2 DEF TypeOK
    <3> QED
      BY <2>3, <3>1, Halves
  <2>6. Hi(u) = hi[g]
    <3>1. Hi(t) \in Int /\ Hi(u) \in Int
      BY <2>3, Halves
    <3> QED
      BY <2>2, <2>4, <2>5, <3>1
  <2>7. value'[g] = u
    BY <2>2, <2>3, <2>4, <2>6, Halves
  <2> QED
    BY <2>2, <2>7 DEF TypeOK
<1> QED
  BY <1>1, <1>2, <1>3, TypeCorrect, PTL DEF Spec, ReadIsCurrent
=============================================================================
