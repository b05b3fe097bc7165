-------------------------------- MODULE D1Irq --------------------------------
(***************************************************************************)
(* Interrupts in the bare-metal SDK: the trap entry of boot/trap.S, the    *)
(* dispatcher irq_handle_trap of boot/interrupt.c, and the claim loop of   *)
(* drivers/plint.c, on one hart with its CLINT lines, a PLIC with level    *)
(* gateways and three devices (UART receiver, GPIO port B, watchdog).      *)
(* The labels of pc stand for the places between two accesses to shared    *)
(* registers; "tail" is everything from the return of                      *)
(* all_interrupt_enable to the last load of RESTORE_CONTEXT.               *)
(***************************************************************************)
EXTENDS Integers, Sequences

CONSTANTS
  PlicSource,  \* the PLIC interrupt numbers the program may enable
  UartDepth,   \* bytes the UART receiver holds
  MaxNest      \* bound: contexts on the stack, and open traps

UART == 18   \* the numbers plic_handle_irq compares with
WDOG == 79
GPIO == 85

ASSUME D1Assumption ==
  /\ PlicSource \subseteq {UART, WDOG, GPIO}
  /\ UartDepth \in Nat \ {0} /\ MaxNest \in Nat \ {0}

VARIABLES
  MIE,      \* mstatus.MIE
  mie,      \* the causes enabled in the mie register
  mepc,     \* where mret will go
  pc,
  mcause,   \* the cause the handler was entered with
  frames,   \* contexts on the stack
  irq,      \* plic_handle_irq: the source claimed last
  enabled,  \* PLIC enable register
  line,     \* CLINT lines that are up: "MSI", "MTI"
  level,    \* [PlicSource -> Nat]: bytes received (UART) or status bit (others)
  gateway,  \* [PlicSource -> {"idle", "pending", "claimed"}]
  from,     \* history: where each open trap interrupted the program
  nested    \* history: whether an interrupt was ever taken in a handler's tail

csrs   == <<MIE, mie, mepc, mcause>>
plic   == <<enabled, gateway>>
traps  == <<from, nested>>
vars   == <<csrs, pc, frames, irq, plic, line, level, traps>>

Clint == {"MSI", "MTI"}
Cause == Clint \cup {"MEI"}

Goto(l) == pc' = l

Init ==
  /\ MIE = TRUE /\ mie = {}
  /\ pc = "main" /\ mepc = "main" /\ mcause = "MSI"
  /\ frames = 0 /\ from = <<>> /\ nested = FALSE
  /\ irq = 0
  /\ enabled = {}
  /\ line = {}
  /\ level = [s \in PlicSource |-> 0]
  /\ gateway = [s \in PlicSource |-> "idle"]

-----------------------------------------------------------------------------
(* The interrupt controllers and the devices.                              *)

Requests == {s \in enabled : gateway[s] = "pending"}
Pending  == line \cup (IF Requests = {} THEN {} ELSE {"MEI"})

\* A level gateway forwards a request when it is idle and the device asserts.
Latched(s, g, n) == [g EXCEPT ![s] = IF @ = "idle" /\ n[s] > 0 THEN "pending" ELSE @]

Capacity(s) == IF s = UART THEN UartDepth ELSE 1

DeviceEvent(s) ==
  /\ level[s] < Capacity(s)
  /\ level' = [level EXCEPT ![s] = @ + 1]
  /\ gateway' = Latched(s, gateway, level')
  /\ UNCHANGED <<csrs, pc, frames, irq, enabled, line, traps>>

\* mtime reaches mtimecmp
Deadline ==
  /\ line' = line \cup {"MTI"}
  /\ UNCHANGED <<csrs, pc, frames, irq, plic, level, traps>>

-----------------------------------------------------------------------------
(* What main calls.                                                        *)

\* clint_soft_irq_init and clint_timer_init first disable both local interrupts.
SoftInit ==
  /\ pc = "main"
  /\ mie' = (mie \ {"MTI"}) \cup {"MSI"}
  /\ UNCHANGED <<MIE, mepc, mcause, pc, frames, irq, plic, line, level, traps>>

\* clint_timer_init sets the compare register to the present: the line goes up.
TimerInit ==
  /\ pc = "main"
  /\ mie' = (mie \ {"MSI"}) \cup {"MTI"}
  /\ line' = line \cup {"MTI"}
  /\ UNCHANGED <<MIE, mepc, mcause, pc, frames, irq, plic, level, traps>>

\* c906_plic_mmode_enable
PlicEnable(s) ==
  /\ pc = "main"
  /\ enabled' = enabled \cup {s}
  /\ mie' = mie \cup {"MEI"}
  /\ UNCHANGED <<MIE, mepc, mcause, pc, frames, irq, gateway, line, level, traps>>

\* clint_soft_irq_start
SoftStart ==
  /\ pc = "main"
  /\ line' = line \cup {"MSI"}
  /\ UNCHANGED <<csrs, pc, frames, irq, plic, level, traps>>

-----------------------------------------------------------------------------
(* Trap entry and exit.                                                    *)

\* MEI comes before MSI, MSI before MTI.
First(causes) ==
  IF "MEI" \in causes THEN "MEI" ELSE IF "MSI" \in causes THEN "MSI" ELSE "MTI"

\* The hart takes an interrupt wherever MIE is set: what it interrupts may be main,
\* or the tail of a handler that has called all_interrupt_enable.
Trap ==
  /\ MIE /\ Pending \cap mie # {} /\ pc # "wild"
  /\ frames < MaxNest /\ Len(from) < MaxNest
  /\ MIE' = FALSE
  /\ mcause' = First(Pending \cap mie)
  /\ mepc' = pc
  /\ from' = Append(from, pc)
  /\ nested' = (nested \/ pc \in {"tail", "mret"})
  /\ Goto("save")
  /\ UNCHANGED <<mie, frames, irq, plic, line, level>>

\* SAVE_CONTEXT (neither mepc nor mstatus), all_interrupt_disable, the switch.
Save ==
  /\ pc = "save"
  /\ frames' = frames + 1
  /\ MIE' = FALSE
  /\ Goto([MSI |-> "soft", MTI |-> "timer", MEI |-> "plic_mask"][mcause])
  /\ UNCHANGED <<mie, mepc, mcause, irq, plic, line, level, traps>>

\* all_interrupt_enable, the last call of irq_handle_trap
Enable ==
  /\ pc = "enable"
  /\ MIE' = TRUE
  /\ Goto("tail")
  /\ UNCHANGED <<mie, mepc, mcause, frames, irq, plic, line, level, traps>>

\* RESTORE_CONTEXT; with no frame on the stack it loads whatever lies above.
Restore ==
  /\ pc = "tail"
  /\ IF frames = 0
       THEN Goto("wild") /\ UNCHANGED frames
       ELSE Goto("mret") /\ frames' = frames - 1
  /\ UNCHANGED <<csrs, irq, plic, line, level, traps>>

\* mret: MIE takes the value of MPIE, which the trap set to 1.
Mret ==
  /\ pc = "mret"
  /\ MIE' = TRUE
  /\ Goto(mepc)
  /\ from' = IF from = <<>> THEN from ELSE SubSeq(from, 1, Len(from) - 1)
  /\ UNCHANGED <<mie, mepc, mcause, frames, irq, plic, line, level, nested>>

-----------------------------------------------------------------------------
(* The cases of irq_handle_trap.                                           *)

\* clint_soft_irq_clear
SoftClear ==
  /\ pc = "soft"
  /\ line' = line \ {"MSI"}
  /\ Goto("enable")
  /\ UNCHANGED <<csrs, frames, irq, plic, level, traps>>

\* clint_timer_cmp_set_val: one second from now, whatever the argument
TimerSet ==
  /\ pc = "timer"
  /\ line' = line \ {"MTI"}
  /\ Goto("enable")
  /\ UNCHANGED <<csrs, frames, irq, plic, level, traps>>

\* Mutant: interrupts are let in again while the PLIC is served.
PlicMaskEnables ==
  /\ pc = "plic_mask"
  /\ mie' = mie \ {"MEI"} /\ MIE' = TRUE
  /\ Goto("claim")
  /\ UNCHANGED <<mepc, mcause, frames, irq, plic, line, level, traps>>

\* plic_handle_irq: csr_clear(mie, MIP_MEIP)
PlicMask ==
  /\ pc = "plic_mask"
  /\ mie' = mie \ {"MEI"}
  /\ Goto("claim")
  /\ UNCHANGED <<MIE, mepc, mcause, frames, irq, plic, line, level, traps>>

\* c906_plic_mmode_mclaim_get: all priorities are 1, so the lowest number wins.
Claim ==
  /\ pc = "claim" /\ Requests # {}
  /\ irq' = CHOOSE s \in Requests : \A t \in Requests : s <= t
  /\ gateway' = [gateway EXCEPT ![irq'] = "claimed"]
  /\ Goto("complete")
  /\ UNCHANGED <<csrs, frames, enabled, line, level, traps>>

ClaimNothing ==
  /\ pc = "claim" /\ Requests = {}
  /\ irq' = 0
  /\ Goto("unmask")
  /\ UNCHANGED <<csrs, frames, plic, line, level, traps>>

\* Mutant: the source is not completed.
CompleteForgotten ==
  /\ pc = "complete"
  /\ Goto("service")
  /\ UNCHANGED <<csrs, frames, irq, plic, line, level, traps>>

\* plic_complete, before the device is served: its level latches again.
Complete ==
  /\ pc = "complete"
  /\ gateway' = Latched(irq, [gateway EXCEPT ![irq] = "idle"], level)
  /\ Goto("service")
  /\ UNCHANGED <<csrs, frames, irq, enabled, line, level, traps>>

\* Mutant: sys_uart_getc without the test of LSR_DR.
ServiceUnchecked ==
  /\ pc = "service"
  /\ level' = [level EXCEPT ![irq] = IF irq = UART THEN @ - 1 ELSE 0]
  /\ Goto("claim")
  /\ UNCHANGED <<csrs, frames, irq, plic, line, traps>>

\* sys_uart_getc takes one byte if there is one; the other two read the status and
\* write it back to clear it.
Service ==
  /\ pc = "service"
  /\ level' = [level EXCEPT ![irq] = IF irq = UART /\ @ > 0 THEN @ - 1 ELSE 0]
  /\ Goto("claim")
  /\ UNCHANGED <<csrs, frames, irq, plic, line, traps>>

\* Mutant: MEIP stays masked.
UnmaskForgotten ==
  /\ pc = "unmask"
  /\ Goto("enable")
  /\ UNCHANGED <<csrs, frames, irq, plic, line, level, traps>>

\* csr_set(mie, MIP_MEIP)
Unmask ==
  /\ pc = "unmask"
  /\ mie' = mie \cup {"MEI"}
  /\ Goto("enable")
  /\ UNCHANGED <<MIE, mepc, mcause, frames, irq, plic, line, level, traps>>

-----------------------------------------------------------------------------
Hart ==
  \/ Trap \/ Save \/ Enable \/ Restore \/ Mret
  \/ SoftClear \/ TimerSet
  \/ PlicMask \/ Claim \/ ClaimNothing \/ Complete \/ Service \/ Unmask

Environment == Deadline \/ \E s \in PlicSource : DeviceEvent(s)

Program == SoftInit \/ TimerInit \/ SoftStart \/ \E s \in PlicSource : PlicEnable(s)

Next == Hart \/ Environment \/ Program

Spec == Init /\ [][Next]_vars

\* A hart that has something to execute in the handler, or an interrupt to take,
\* goes on.
FairSpec == Spec /\ WF_vars(Hart)

-----------------------------------------------------------------------------
(* Properties *)

Label == {"main", "save", "soft", "timer", "plic_mask", "claim", "complete",
          "service", "unmask", "enable", "tail", "mret", "wild"}

\* Every variable has its type; the open traps and the contexts are bounded.
TypeOK ==
  /\ MIE \in BOOLEAN /\ mie \subseteq Cause
  /\ mepc \in Label /\ pc \in Label
  /\ mcause \in Cause
  /\ frames \in 0 .. MaxNest
  /\ irq \in PlicSource \cup {0}
  /\ enabled \subseteq PlicSource
  /\ line \subseteq Clint
  /\ level \in [PlicSource -> 0 .. UartDepth]
  /\ gateway \in [PlicSource -> {"idle", "pending", "claimed"}]
  /\ from \in Seq(Label) /\ Len(from) <= MaxNest
  /\ nested \in BOOLEAN

\* "Save the caller saving registers (context)" (trap.S): every mret goes back to
\* the place its own trap interrupted.  It does not: see ContextUnlessNested.
ContextRestored ==
  [][Mret => from # <<>> /\ pc' = from[Len(from)]]_vars

\* As long as no interrupt was taken between all_interrupt_enable and mret, every
\* mret goes back to the place its trap interrupted, whenever else events come:
\* nothing but the tail of the handler can lose a context.
ContextUnlessNested ==
  [][Mret /\ ~nested => from # <<>> /\ pc' = from[Len(from)]]_vars

\* Whenever main runs, after any events at any time, the handlers have left nothing
\* behind: no frame on the stack, interrupts on, no source claimed and not completed,
\* and the external interrupt unmasked if main ever enabled a source.  After an
\* interrupt in a tail it holds because main does not run again.
MainIsWhole ==
  pc = "main" =>
    /\ frames = 0 /\ from = <<>> /\ MIE
    /\ \A s \in PlicSource : gateway[s] # "claimed"
    /\ enabled # {} => "MEI" \in mie

\* The devices the PLIC prefers to s fall silent.
PreferredQuiet(s) == \A t \in PlicSource : t < s => <>[](level[t] = 0)

\* A byte or a status bit of an enabled source gets its handler, although the claim
\* is completed before the device is served and more events come meanwhile, unless
\* sources of lower numbers keep the loop busy or a nested interrupt has led the hart
\* away.
EventServed ==
  \A s \in PlicSource :
    PreferredQuiet(s) =>
      (s \in enabled /\ level[s] > 0 ~> (pc = "service" /\ irq = s) \/ pc = "wild")
=============================================================================
