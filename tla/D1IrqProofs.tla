----------------------------- MODULE D1IrqProofs -----------------------------
(***************************************************************************)
(* Proofs about D1Irq, for all sets of sources, depths and nestings, and   *)
(* for events at any time.  The argument: mepc is main's only while no     *)
(* interrupt has been taken in the tail of a handler; one that was         *)
(* overwrites mepc with a place in the tail for ever, so that main does    *)
(* not run again; and the loop over the PLIC is never interrupted.         *)
(***************************************************************************)
EXTENDS D1Irq, TLAPS

PlicLabel == {"plic_mask", "claim", "complete", "service", "unmask"}

\* Interrupts are on outside the handler and in its tail, and nowhere else, so that
\* these are the places a trap interrupts.
Window ==
  /\ MIE <=> pc \in {"main", "tail", "mret", "wild"}
  /\ mepc \in {"main", "tail", "mret"}
  /\ pc = "save" => frames < MaxNest

\* Without nesting the one context and the one mepc are main's; after it mepc is
\* a place in the tail.
OneContext ==
  /\ ~nested => /\ mepc = "main" /\ pc # "wild"
                /\ from = (IF pc = "main" THEN <<>> ELSE <<"main">>)
                /\ frames = (IF pc \in {"main", "save", "mret"} THEN 0 ELSE 1)
  /\ nested => mepc # "main" /\ pc # "main"

\* A source is claimed only until its completion, by one handler at a time, and MEIP
\* is masked only in the loop.
ClaimShape ==
  /\ \A s \in PlicSource : gateway[s] = "claimed" => pc = "complete" /\ irq = s
  /\ pc \in {"complete", "service"} => irq \in PlicSource
  /\ enabled # {} /\ pc \notin PlicLabel => "MEI" \in mie

IInv == TypeOK /\ Window /\ OneContext /\ ClaimShape

-----------------------------------------------------------------------------
(* The PLIC and the causes.                                                *)

LEMMA PendingType ==
  ASSUME TypeOK
  PROVE  Pending \in SUBSET Cause /\ Requests \in SUBSET PlicSource
BY DEF TypeOK, Pending, Requests, Cause, Clint

LEMMA InitIInv == Init => IInv
<1> SUFFICES ASSUME Init PROVE IInv
  OBVIOUS
<1>1. TypeOK
  <2>1. level \in [PlicSource -> 0 .. UartDepth]
    BY D1Assumption DEF Init
  <2>2. frames \in 0 .. MaxNest /\ from \in Seq(Label) /\ Len(from) <= MaxNest
    BY D1Assumption DEF Init
  <2> QED
    BY <2>1, <2>2 DEF Init, TypeOK, Cause, Clint, Label
<1> QED
  BY <1>1 DEF Init, IInv, Window, OneContext, ClaimShape, PlicLabel

-----------------------------------------------------------------------------
(* The steps outside the handler.                                          *)

LEMMA OutsideStep ==
  ASSUME IInv, Environment \/ Program
  PROVE  IInv'
<1> USE DEF IInv
<1>1. ASSUME NEW s \in PlicSource, DeviceEvent(s)
      PROVE  IInv'
  <2>1. \A t \in PlicSource : gateway'[t] = "claimed" => gateway[t] = "claimed"
    BY <1>1 DEF DeviceEvent, Latched, TypeOK
  <2>2. level' \in [PlicSource -> 0 .. UartDepth]
    BY <1>1, D1Assumption DEF DeviceEvent, Capacity, TypeOK
  <2>3. gateway' \in [PlicSource -> {"idle", "pending", "claimed"}]
    BY <1>1 DEF DeviceEvent, Latched, TypeOK
  <2>4. TypeOK'
    BY <1>1, <2>2, <2>3 DEF TypeOK, DeviceEvent, csrs, traps
  <2> QED
    BY <1>1, <2>1, <2>4
       DEF DeviceEvent, Window, OneContext, ClaimShape, PlicLabel, csrs, traps
<1>2. ASSUME Deadline \/ SoftStart
      PROVE  IInv'
  <2>1. TypeOK'
    BY <1>2 DEF Deadline, SoftStart, TypeOK, csrs, plic, traps, Clint
  <2> QED
    BY <1>2, <2>1
       DEF Deadline, SoftStart, Window, OneContext, ClaimShape, PlicLabel, csrs, plic, traps
<1>3. ASSUME SoftInit \/ TimerInit
      PROVE  IInv'
  <2>1. TypeOK'
    BY <1>3 DEF SoftInit, TimerInit, TypeOK, plic, traps, Cause, Clint
  <2> QED
    BY <1>3, <2>1
       DEF SoftInit, TimerInit, Window, OneContext, ClaimShape, PlicLabel, plic, traps
<1>4. ASSUME NEW s \in PlicSource, PlicEnable(s)
      PROVE  IInv'
  <2>1. TypeOK'
    BY <1>4 DEF PlicEnable, TypeOK, traps, Cause
  <2> QED
    BY <1>4, <2>1 DEF PlicEnable, Window, OneContext, ClaimShape, PlicLabel, traps
<1> QED
  BY <1>1, <1>2, <1>3, <1>4 DEF Environment, Program

-----------------------------------------------------------------------------
(* The steps of the hart.                                                  *)

\* One trap more, of main or of a tail.
LEMMA TrapStep ==
  ASSUME IInv, Trap
  PROVE  IInv'
<1> USE DEF IInv
<1>1. pc \in {"main", "tail", "mret"}
  BY DEF Trap, Window
<1>2. mcause' \in Cause
  <2>1. \A causes \in SUBSET Cause : causes # {} => First(causes) \in causes
    BY DEF First, Cause, Clint
  <2> QED
    BY PendingType, <2>1 DEF Trap
<1>3. from' \in Seq(Label) /\ Len(from') <= MaxNest
  <2>1. from \in Seq(Label) /\ pc \in Label /\ Len(from) < MaxNest /\ from' = Append(from, pc)
    BY DEF Trap, TypeOK
  <2> QED
    BY <2>1, D1Assumption
<1>4. nested' \in BOOLEAN /\ (nested' <=> nested \/ pc # "main")
  BY <1>1 DEF Trap, TypeOK
<1>5. TypeOK'
  <2>1. /\ MIE' = FALSE /\ mepc' = pc /\ pc' = "save"
        /\ UNCHANGED <<mie, frames, irq, enabled, gateway, line, level>>
    BY DEF Trap, Goto, plic
  <2> QED
    BY <1>2, <1>3, <1>4, <2>1 DEF TypeOK, Label
<1>6. Window'
  BY <1>1 DEF Trap, Goto, Window, plic
<1>7. OneContext'
  <2>1. ASSUME ~nested'
        PROVE  mepc' = "main" /\ from' = <<"main">> /\ frames' = 0
    <3>1. pc = "main" /\ ~nested
      BY <1>4, <2>1
    <3>2. from = <<>> /\ frames = 0
      BY <3>1 DEF OneContext
    <3> QED
      BY <3>1, <3>2 DEF Trap
  <2>2. ASSUME nested'
        PROVE  mepc' # "main"
    BY <1>4, <2>2 DEF Trap, OneContext
  <2>3. pc' = "save"
    BY DEF Trap, Goto
  <2> QED
    BY <2>1, <2>2, <2>3 DEF OneContext
<1>8. ClaimShape'
  BY <1>1 DEF Trap, Goto, ClaimShape, PlicLabel, plic
<1> QED
  BY <1>5, <1>6, <1>7, <1>8

\* Saving and restoring the context, and leaving the handler.
LEMMA FrameStep ==
  ASSUME IInv, Save \/ Enable \/ Restore \/ Mret
  PROVE  IInv'
<1> USE DEF IInv
<1>1. ASSUME Save
      PROVE  IInv'
  <2>1. pc' \in {"soft", "timer", "plic_mask"}
    BY <1>1 DEF Save, Goto, TypeOK, Cause, Clint
  <2>2. frames' = frames + 1 /\ frames' \in 0 .. MaxNest
    BY <1>1, D1Assumption DEF Save, Window, TypeOK
  <2>3. MIE' = FALSE
        /\ UNCHANGED <<mie, mepc, mcause, irq, enabled, gateway, line, level, from, nested>>
    BY <1>1 DEF Save, plic, traps
  <2>4. TypeOK'
    BY <2>1, <2>2, <2>3 DEF TypeOK, Label
  <2>5. OneContext'
    BY <1>1, <2>1, <2>2, <2>3 DEF Save, OneContext
  <2> QED
    BY <1>1, <2>1, <2>3, <2>4, <2>5 DEF Save, Window, ClaimShape, PlicLabel
<1>2. ASSUME Enable
      PROVE  IInv'
  <2>1. TypeOK'
    BY <1>2 DEF Enable, Goto, TypeOK, Label, plic, traps
  <2> QED
    BY <1>2, <2>1
       DEF Enable, Goto, Window, OneContext, ClaimShape, PlicLabel, plic, traps
<1>3. ASSUME Restore
      PROVE  IInv'
  <2>1. /\ pc = "tail" /\ UNCHANGED <<MIE, mie, mepc, mcause, irq, enabled, gateway, line, level, from, nested>>
        /\ \/ frames = 0 /\ pc' = "wild" /\ frames' = frames
           \/ frames # 0 /\ pc' = "mret" /\ frames' = frames - 1
    BY <1>3 DEF Restore, Goto, csrs, plic, traps
  <2>2. frames' \in 0 .. MaxNest
    BY <2>1, D1Assumption DEF TypeOK
  <2>3. TypeOK'
    BY <2>1, <2>2 DEF TypeOK, Label
  <2>4. OneContext'
    BY <2>1 DEF OneContext
  <2> QED
    BY <2>1, <2>3, <2>4 DEF Window, ClaimShape, PlicLabel
<1>4. ASSUME Mret
      PROVE  IInv'
  <2>1. /\ pc = "mret" /\ pc' = mepc /\ MIE' = TRUE
        /\ from' = IF from = <<>> THEN from ELSE SubSeq(from, 1, Len(from) - 1)
        /\ UNCHANGED <<mie, mepc, mcause, frames, irq, enabled, gateway, line, level, nested>>
    BY <1>4 DEF Mret, Goto, plic
  <2>2. from' \in Seq(Label) /\ Len(from') <= MaxNest
    <3>1. from \in Seq(Label) /\ Len(from) <= MaxNest /\ MaxNest \in Nat
      BY D1Assumption DEF TypeOK
    <3> QED
      BY <2>1, <3>1
  <2>3. TypeOK'
    BY <2>1, <2>2 DEF TypeOK
  <2>4. OneContext'
    <3>1. ASSUME ~nested
          PROVE  pc' = "main" /\ from' = <<>> /\ frames' = 0
      <4>1. mepc = "main" /\ from = <<"main">> /\ frames = 0
        BY <2>1, <3>1 DEF OneContext
      <4>2. SubSeq(from, 1, Len(from) - 1) = <<>>
        BY <4>1
      <4> QED
        BY <2>1, <4>1, <4>2
    <3> QED
      BY <2>1, <3>1 DEF OneContext
  <2> QED
    BY <2>1, <2>3, <2>4 DEF Window, ClaimShape, PlicLabel
<1> QED
  BY <1>1, <1>2, <1>3, <1>4

\* The handlers of the two CLINT interrupts.
LEMMA ClintStep ==
  ASSUME IInv, SoftClear \/ TimerSet
  PROVE  IInv'
<1> USE DEF IInv
<1>1. TypeOK'
  BY DEF SoftClear, TimerSet, Goto, TypeOK, Label, csrs, plic, traps
<1> QED
  BY <1>1 DEF SoftClear, TimerSet, Goto, Window, OneContext, ClaimShape, PlicLabel,
              csrs, plic, traps

\* plic_handle_irq
LEMMA PlicStep ==
  ASSUME IInv, PlicMask \/ Claim \/ ClaimNothing \/ Complete \/ Service \/ Unmask
  PROVE  IInv'
<1> USE DEF IInv
<1>1. ASSUME PlicMask \/ ClaimNothing \/ Unmask
      PROVE  IInv'
  <2>1. TypeOK'
    BY <1>1 DEF PlicMask, ClaimNothing, Unmask, Goto, TypeOK, Label, Cause, csrs, plic, traps
  <2> QED
    BY <1>1, <2>1 DEF PlicMask, ClaimNothing, Unmask, Goto, Window, OneContext, ClaimShape,
                      PlicLabel, csrs, plic, traps
<1>2. ASSUME Claim
      PROVE  IInv'
  <2>1. irq' \in PlicSource
    <3>1. Requests \subseteq {18, 79, 85} /\ Requests # {} /\ irq' = CHOOSE s \in Requests : \A t \in Requests : s <= t
      BY <1>2, PendingType, D1Assumption DEF Claim, UART, WDOG, GPIO
    <3>2. \E s \in Requests : \A t \in Requests : s <= t
      <4>1. CASE 18 \in Requests
        BY <3>1, <4>1
      <4>2. CASE 18 \notin Requests /\ 79 \in Requests
        BY <3>1, <4>2
      <4>3. CASE 18 \notin Requests /\ 79 \notin Requests
        <5>1. Requests = {85}
          BY <3>1, <4>3
        <5> QED
          BY <5>1
      <4> QED
        BY <4>1, <4>2, <4>3
    <3> QED
      BY <3>1, <3>2, PendingType
  <2>2. gateway' \in [PlicSource -> {"idle", "pending", "claimed"}]
        /\ \A s \in PlicSource : gateway'[s] = "claimed" => s = irq'
    BY <1>2, <2>1 DEF Claim, TypeOK, ClaimShape
  <2>3. TypeOK'
    BY <1>2, <2>1, <2>2 DEF Claim, Goto, TypeOK, Label, csrs, traps
  <2> QED
    BY <1>2, <2>1, <2>2, <2>3
       DEF Claim, Goto, Window, OneContext, ClaimShape, PlicLabel, csrs, traps
<1>3. ASSUME Complete
      PROVE  IInv'
  <2>1. irq \in PlicSource
    BY <1>3 DEF Complete, ClaimShape
  <2>2. gateway' \in [PlicSource -> {"idle", "pending", "claimed"}]
        /\ \A s \in PlicSource : gateway'[s] # "claimed"
    BY <1>3, <2>1 DEF Complete, Latched, TypeOK, ClaimShape
  <2>3. TypeOK'
    BY <1>3, <2>2 DEF Complete, Goto, TypeOK, Label, csrs, traps
  <2> QED
    BY <1>3, <2>1, <2>2, <2>3
       DEF Complete, Goto, Window, OneContext, ClaimShape, PlicLabel, csrs, traps
<1>4. ASSUME Service
      PROVE  IInv'
  <2>1. level' \in [PlicSource -> 0 .. UartDepth]
    BY <1>4, D1Assumption DEF Service, TypeOK, ClaimShape
  <2>2. TypeOK'
    BY <1>4, <2>1 DEF Service, Goto, TypeOK, Label, csrs, plic, traps
  <2> QED
    BY <1>4, <2>2
       DEF Service, Goto, Window, OneContext, ClaimShape, PlicLabel, csrs, plic, traps
<1> QED
  BY <1>1, <1>2, <1>3, <1>4

LEMMA NextIInv == IInv /\ [Next]_vars => IInv'
<1> SUFFICES ASSUME IInv, [Next]_vars PROVE IInv'
  OBVIOUS
<1>1. CASE UNCHANGED vars
  BY <1>1 DEF vars, csrs, plic, traps, IInv, TypeOK, Window, OneContext, ClaimShape
<1>2. CASE Hart
  BY <1>2, TrapStep, FrameStep, ClintStep, PlicStep DEF Hart
<1>3. CASE Environment \/ Program
  BY <1>3, OutsideStep
<1> QED
  BY <1>1, <1>2, <1>3 DEF Next

-----------------------------------------------------------------------------
\* Every variable keeps its type, for all depths and nestings and for events at any
\* time: a claim belongs to a source, a device is drained no further than empty, the
\* contexts of irq_handle_trap stay within the bound.
THEOREM TypeCorrect == Spec => []TypeOK
<1>1. IInv => TypeOK
  BY DEF IInv
<1> QED
  BY <1>1, InitIInv, NextIInv, PTL DEF Spec

\* Whenever main runs, trap.S, irq_handle_trap and plic_handle_irq have left nothing
\* behind, for events at any time, those that nest included.
THEOREM MainStaysWhole == Spec => []MainIsWhole
<1>1. IInv => MainIsWhole
  BY DEF IInv, Window, OneContext, ClaimShape, PlicLabel, MainIsWhole
<1> QED
  BY <1>1, InitIInv, NextIInv, PTL DEF Spec

\* For events at any time, every mret of trap.S returns to the place its trap
\* interrupted until an interrupt is taken in the tail of a handler.
THEOREM ContextComesBack == Spec => ContextUnlessNested
<1>1. IInv /\ [Next]_vars
      => [Mret /\ ~nested => from # <<>> /\ pc' = from[Len(from)]]_vars
  <2> SUFFICES ASSUME IInv, Mret, ~nested
               PROVE  from # <<>> /\ pc' = from[Len(from)]
    OBVIOUS
  <2>1. from = <<"main">> /\ mepc = "main"
    BY DEF Mret, IInv, OneContext
  <2> QED
    BY <2>1 DEF Mret, Goto
<1> QED
  BY <1>1, InitIInv, NextIInv, PTL DEF Spec, ContextUnlessNested

\* After it, main never runs again: the tail has overwritten the only copy of the
\* place to return to (mepc, which trap.S does not save).
THEOREM NestingLosesMain == Spec => [](nested => [](pc # "main"))
<1>1. IInv /\ nested => pc # "main"
  BY DEF IInv, OneContext
<1>2. nested /\ [Next]_vars => nested'
  BY DEF Next, Hart, Environment, Program, Trap, Save, Enable, Restore, Mret, SoftClear, TimerSet,
         PlicMask, Claim, ClaimNothing, Complete, Service, Unmask, Deadline, DeviceEvent,
         SoftInit, TimerInit, SoftStart, PlicEnable, vars, traps
<1> QED
  BY <1>1, <1>2, InitIInv, NextIInv, PTL DEF Spec
=============================================================================
