------------------------------ MODULE SbiTimer -------------------------------
(***************************************************************************)
(* The supervisor's timer: lib/sbi/sbi_timer.c turns a deadline into a     *)
(* machine timer interrupt and that into the supervisor's pending bit,     *)
(* lib/utils/sys/clint.c reads mtime and writes mtimecmp one half at a     *)
(* time, while the clock runs.  Machine mode runs with its interrupts off, *)
(* so the interrupt is taken in the supervisor only.                       *)
(***************************************************************************)
EXTENDS Integers

CONSTANTS
  Hart,
  Half,          \* 2^32: how many values half a register has
  Deadlines,     \* what supervisors pass to set_timer
  HasEventStop,  \* whether the platform has timer_event_stop (the D1 has not): a set
  MaxTime,       \* bound: the clock stops there
  MaxCalls       \* bound: [Hart -> Nat], the calls of each hart

Never == Half * Half - 1   \* -1ULL

ASSUME TimerAssumption ==
  /\ Half \in Nat \ {0}
  /\ Deadlines \subseteq 0 .. Never
  /\ HasEventStop \subseteq BOOLEAN
  /\ MaxTime \in Nat /\ MaxTime < Never
  /\ MaxCalls \in [Hart -> Nat]

VARIABLES
  mtime,
  mtimecmp,    \* [Hart -> [hi, lo]]: clint_time_cmp
  mtie, stip,  \* [Hart -> BOOLEAN]: MTIP of mie, STIP of mip
  pc,
  writing,     \* the value clint_time_wr32 writes
  return_to,   \* and where its caller goes on
  hi, lo,      \* the locals of clint_time_rd32
  value,       \* what it returned last
  since,       \* history: mtime when it was called
  next_event,  \* history: the deadline asked for last, Never for none
  asked,       \* history: there was one
  calls        \* [Hart -> Nat]: calls left

cmpVars  == <<mtimecmp, writing, return_to>>
csrs     == <<mtie, stip>>
readVars == <<hi, lo, value, since>>
askVars  == <<next_event, asked>>
vars     == <<mtime, cmpVars, csrs, pc, readVars, askVars, calls>>

Hi(v) == v \div Half
Lo(v) == v % Half
Join(h, l) == h * Half + l

Goto(h, l) == pc' = [pc EXCEPT ![h] = l]

At(h, l) == pc[h] = l

\* After reset the compare register holds anything; fw_base.S clears mie and mip.
Init ==
  /\ mtime = 0
  /\ mtimecmp \in [Hart -> [hi : {0, Half - 1}, lo : {0, Half - 1}]]
  /\ mtie = [h \in Hart |-> FALSE] /\ stip = [h \in Hart |-> FALSE]
  /\ pc = [h \in Hart |-> "init"]
  /\ writing = [h \in Hart |-> 0]
  /\ return_to = [h \in Hart |-> "super"]
  /\ hi = [h \in Hart |-> 0] /\ lo = [h \in Hart |-> 0]
  /\ value = [h \in Hart |-> 0] /\ since = [h \in Hart |-> 0]
  /\ next_event = [h \in Hart |-> Never]
  /\ asked = [h \in Hart |-> FALSE]
  /\ calls = MaxCalls

Tick ==
  /\ mtime < MaxTime
  /\ mtime' = mtime + 1
  /\ UNCHANGED <<cmpVars, csrs, pc, readVars, askVars, calls>>

-----------------------------------------------------------------------------
(* clint_time_wr32: the low half, then the high one. *)

StartWriting(h, v, next) ==
  /\ writing' = [writing EXCEPT ![h] = v]
  /\ return_to' = [return_to EXCEPT ![h] = next]
  /\ Goto(h, "cmp_lo")
  /\ UNCHANGED mtimecmp

\* Mutant: the low register gets the value without its mask.
CompareLowUnmasked(h) ==
  /\ At(h, "cmp_lo")
  /\ mtimecmp' = [mtimecmp EXCEPT ![h].lo = writing[h]]
  /\ Goto(h, "cmp_hi")
  /\ UNCHANGED <<mtime, writing, return_to, csrs, readVars, askVars, calls>>

CompareLow(h) ==
  /\ At(h, "cmp_lo")
  /\ mtimecmp' = [mtimecmp EXCEPT ![h].lo = Lo(writing[h])]
  /\ Goto(h, "cmp_hi")
  /\ UNCHANGED <<mtime, writing, return_to, csrs, readVars, askVars, calls>>

\* Mutant: the high register keeps what it has.
CompareHighKept(h) ==
  /\ At(h, "cmp_hi")
  /\ Goto(h, return_to[h])
  /\ UNCHANGED <<mtime, cmpVars, csrs, readVars, askVars, calls>>

CompareHigh(h) ==
  /\ At(h, "cmp_hi")
  /\ mtimecmp' = [mtimecmp EXCEPT ![h].hi = Hi(writing[h])]
  /\ Goto(h, return_to[h])
  /\ UNCHANGED <<mtime, writing, return_to, csrs, readVars, askVars, calls>>

-----------------------------------------------------------------------------
(* sbi_timer.c *)

\* sbi_timer_init, clint_warm_timer_init
TimerInit(h) ==
  /\ At(h, "init")
  /\ StartWriting(h, Never, "super")
  /\ UNCHANGED <<mtime, csrs, readVars, askVars, calls>>

\* The set_timer call, up to sbi_platform_timer_event_start.
EventStart(h) ==
  /\ At(h, "super") /\ calls[h] > 0
  /\ calls' = [calls EXCEPT ![h] = @ - 1]
  /\ \E d \in Deadlines :
       /\ next_event' = [next_event EXCEPT ![h] = d]
       /\ StartWriting(h, d, "clear_stip")
  /\ asked' = [asked EXCEPT ![h] = TRUE]
  /\ UNCHANGED <<mtime, csrs, readVars>>

\* Mutant: the bit of the last deadline stays.
KeepStip(h) ==
  /\ At(h, "clear_stip")
  /\ Goto(h, "set_mtie")
  /\ UNCHANGED <<mtime, cmpVars, csrs, readVars, askVars, calls>>

ClearStip(h) ==
  /\ At(h, "clear_stip")
  /\ stip' = [stip EXCEPT ![h] = FALSE]
  /\ Goto(h, "set_mtie")
  /\ UNCHANGED <<mtime, cmpVars, mtie, readVars, askVars, calls>>

SetMtie(h) ==
  /\ At(h, "set_mtie")
  /\ mtie' = [mtie EXCEPT ![h] = TRUE]
  /\ Goto(h, "super")
  /\ UNCHANGED <<mtime, cmpVars, stip, readVars, askVars, calls>>

\* The CLINT raises the line by comparing, whatever the halves hold meanwhile.
Mtip(h) == mtime >= Join(mtimecmp[h].hi, mtimecmp[h].lo)

\* Mutant: the machine interrupt stays enabled.
TimerProcessKeeps(h) ==
  /\ At(h, "super") /\ mtie[h] /\ Mtip(h)
  /\ stip' = [stip EXCEPT ![h] = TRUE]
  /\ UNCHANGED <<mtime, cmpVars, mtie, pc, readVars, askVars, calls>>

\* The trap, IRQ_M_TIMER, and sbi_timer_process.
TimerProcess(h) ==
  /\ At(h, "super") /\ mtie[h] /\ Mtip(h)
  /\ mtie' = [mtie EXCEPT ![h] = FALSE]
  /\ stip' = [stip EXCEPT ![h] = TRUE]
  /\ UNCHANGED <<mtime, cmpVars, pc, readVars, askVars, calls>>

\* sbi_timer_exit, up to the platform's timer_event_stop if it has one.
EventStop(h) ==
  /\ At(h, "super") /\ calls[h] > 0
  /\ \/ TRUE \in HasEventStop /\ StartWriting(h, Never, "exit")
     \/ FALSE \in HasEventStop /\ Goto(h, "exit") /\ UNCHANGED cmpVars
  /\ UNCHANGED <<mtime, csrs, readVars, askVars, calls>>

\* The rest of it; sbi_exit goes on to sbi_hart_hang.
TimerExit(h) ==
  /\ At(h, "exit")
  /\ stip' = [stip EXCEPT ![h] = FALSE]
  /\ mtie' = [mtie EXCEPT ![h] = FALSE]
  /\ Goto(h, "hung")
  /\ UNCHANGED <<mtime, cmpVars, readVars, askVars, calls>>

-----------------------------------------------------------------------------
(* clint_time_rd32, for an emulated read of the time *)

TimerValue(h) ==
  /\ At(h, "super") /\ calls[h] > 0
  /\ calls' = [calls EXCEPT ![h] = @ - 1]
  /\ since' = [since EXCEPT ![h] = mtime]
  /\ Goto(h, "rd_hi")
  /\ UNCHANGED <<mtime, cmpVars, csrs, hi, lo, value, askVars>>

ReadHigh(h) ==
  /\ At(h, "rd_hi")
  /\ hi' = [hi EXCEPT ![h] = Hi(mtime)]
  /\ Goto(h, "rd_lo")
  /\ UNCHANGED <<mtime, cmpVars, csrs, lo, value, since, askVars, calls>>

ReadLow(h) ==
  /\ At(h, "rd_lo")
  /\ lo' = [lo EXCEPT ![h] = Lo(mtime)]
  /\ Goto(h, "rd_again")
  /\ UNCHANGED <<mtime, cmpVars, csrs, hi, value, since, askVars, calls>>

\* Mutant: the high half is not looked at again.
ReadOnce(h) ==
  /\ At(h, "rd_again")
  /\ value' = [value EXCEPT ![h] = Join(hi[h], lo[h])]
  /\ Goto(h, "super")
  /\ UNCHANGED <<mtime, cmpVars, csrs, hi, lo, since, askVars, calls>>

\* "while (hi != ...)", and the return.
ReadAgain(h) ==
  /\ At(h, "rd_again")
  /\ IF Hi(mtime) = hi[h]
       THEN /\ value' = [value EXCEPT ![h] = Join(hi[h], lo[h])]
            /\ Goto(h, "super")
       ELSE Goto(h, "rd_hi") /\ UNCHANGED value
  /\ UNCHANGED <<mtime, cmpVars, csrs, hi, lo, since, askVars, calls>>

-----------------------------------------------------------------------------
Call(h) == EventStart(h) \/ EventStop(h) \/ TimerValue(h)

\* What a hart does by itself.
Machine(h) ==
  \/ TimerInit(h) \/ CompareLow(h) \/ CompareHigh(h)
  \/ ClearStip(h) \/ SetMtie(h) \/ TimerProcess(h) \/ TimerExit(h)
  \/ ReadHigh(h) \/ ReadLow(h) \/ ReadAgain(h)

Next == Tick \/ \E h \in Hart : Call(h) \/ Machine(h)

Spec == Init /\ [][Next]_vars

\* The clock runs, a hart goes on and takes its interrupt.
FairSpec == Spec /\ WF_vars(Tick) /\ \A h \in Hart : WF_vars(Machine(h))

-----------------------------------------------------------------------------
(* Properties *)

Label == {"init", "super", "cmp_lo", "cmp_hi", "clear_stip", "set_mtie",
          "exit", "rd_hi", "rd_lo", "rd_again", "hung"}

\* Every variable has its type; half a register holds half a register.
TypeOK ==
  /\ mtime \in Nat
  /\ mtimecmp \in [Hart -> [hi : 0 .. Half - 1, lo : 0 .. Half - 1]]
  /\ mtie \in [Hart -> BOOLEAN] /\ stip \in [Hart -> BOOLEAN]
  /\ pc \in [Hart -> Label]
  /\ writing \in [Hart -> 0 .. Never]
  /\ return_to \in [Hart -> {"super", "clear_stip", "exit"}]
  /\ hi \in [Hart -> Nat] /\ lo \in [Hart -> Nat]
  /\ value \in [Hart -> Nat] /\ since \in [Hart -> Nat]
  /\ next_event \in [Hart -> 0 .. Never]
  /\ asked \in [Hart -> BOOLEAN]
  /\ calls \in [Hart -> Nat]

\* The supervisor sees its timer pending only when the deadline it asked for last
\* has passed: neither a half-written compare register nor the bit of an earlier
\* deadline (sbi_timer_event_start) can make it early.
NeverEarly ==
  \A h \in Hart : At(h, "super") /\ stip[h] => asked[h] /\ next_event[h] <= mtime

\* A deadline is awaited or signalled, never both (the machine would take the same
\* interrupt for ever) and never neither (nobody would hear of it).
AwaitedOrSignalled ==
  \A h \in Hart : At(h, "super") /\ asked[h] => mtie[h] # stip[h]

\* The value read in halves is one mtime had during the call, although the low
\* half may wrap between the accesses.
ReadIsCurrent ==
  [][\A h \in Hart :
       At(h, "rd_again") /\ pc'[h] = "super" => value'[h] \in since[h] .. mtime]_vars

\* A deadline that the clock reaches is signalled, or replaced by one it does not
\* reach, or the hart leaves.
DeadlineSignalled ==
  \A h \in Hart :
    asked[h] /\ next_event[h] <= MaxTime
      ~> stip[h] \/ next_event[h] > MaxTime \/ At(h, "hung")
=============================================================================
