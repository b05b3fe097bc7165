----------------------------- MODULE SbiLifeProofs ----------------------------
(***************************************************************************)
(* Proofs about the harts' coming up and being halted, for every set of    *)
(* harts, every way the firmware may have been loaded, and any fences and  *)
(* shutdowns.                                                              *)
(***************************************************************************)
EXTENDS SbiLife, TLAPS

\* Every variable has its type in every behaviour.
THEOREM TypeCorrect == Spec => []TypeOK
<1> USE DEF IPI_HALT, IPI_TLB, IPI_SMODE, IpiEvent, IpiTypeOK, BootTypeOK, BootLabel, LifeLabel,
            RELOCATE_DONE, BOOT_HART_DONE, Goto, At
<1>1. Init => TypeOK
  <2> SUFFICES ASSUME Init PROVE TypeOK
    OBVIOUS
  <2>1. IpiTypeOK
    BY DEF Init, IpiInit
  <2>2. PICK load \in Loads : moved = load.moved /\ preferred = load.preferred
    BY DEF Init, BootInit
  <2>3. moved \in BOOLEAN /\ preferred \in SUBSET Hart
    BY <2>2, LoadAssumption
  <2>4. PICK junk \in 0 .. 2 : boot_status = [load |-> 0, link |-> IF moved THEN junk ELSE 0]
    BY DEF Init, BootInit
  <2>5. boot_status \in [{"load", "link"} -> 0 .. 2]
    BY <2>4
  <2>6. BootTypeOK /\ pc \in [Hart -> BootLabel \cup LifeLabel]
    <3>1. /\ relocate_lottery = FALSE /\ copied = ~moved /\ bss_zeroed = FALSE
          /\ offsets \in BOOLEAN /\ coldboot = [h \in Hart |-> FALSE]
          /\ pc = [h \in Hart |-> "start"]
      BY DEF Init, BootInit
    <3>2. coldboot_lottery \in Nat /\ coldboot_done \in {0, 1}
      BY DEF Init, BootInit
    <3>3. coldboot_wait_bitmap \in SUBSET Hart /\ avail_hart_mask \in SUBSET Hart
      BY DEF Init, BootInit
    <3> QED
      BY <2>3, <2>5, <3>1, <3>2, <3>3
  <2> QED
    BY <2>1, <2>6, LifeAssumption DEF Init, TypeOK
<1>2. TypeOK /\ [Next]_vars => TypeOK'
  <2> SUFFICES ASSUME TypeOK, [Next]_vars PROVE TypeOK'
    OBVIOUS
  <2> USE DEF TypeOK, ipiVars, imageVars, coldVars, bootVars, sendVars, trapVars, tlbVars, lifeVars
  <2>1. ASSUME NEW h \in Hart, Boot(h), UNCHANGED lifeVars PROVE TypeOK'
    <3>1. CASE Start(h)
      BY <2>1, <3>1 DEF Start
    <3>2. CASE Relocate(h)
      BY <2>1, <3>2 DEF Relocate
    <3>3. CASE RelocateDone(h)
      BY <2>1, <3>3 DEF RelocateDone, AtLoad
    <3>4. CASE BssZero(h)
      BY <2>1, <3>4 DEF BssZero
    <3>5. CASE BootHartDone(h)
      BY <2>1, <3>5 DEF BootHartDone
    <3>6. CASE WaitRelocate(h) \/ WaitBootHart(h)
      BY <2>1, <3>6 DEF WaitRelocate, WaitBootHart
    <3>7. CASE SbiInit(h)
      <4>1. coldboot' \in [Hart -> BOOLEAN]
        BY <3>7 DEF SbiInit
      <4> QED
        BY <2>1, <3>7, <4>1 DEF SbiInit
    <3>8. CASE ColdInit(h)
      BY <2>1, <3>8 DEF ColdInit
    <3>9. CASE WakeColdbootHarts(h)
      BY <2>1, <3>9 DEF WakeColdbootHarts
    <3>10. CASE WaitForColdboot(h)
      BY <2>1, <3>10 DEF WaitForColdboot, LookAtDone
    <3>11. CASE ClearOwnIpi(h) \/ WarmIpiInit(h)
      <4>1. CASE ClearOwnIpi(h)
        BY <2>1, <4>1 DEF ClearOwnIpi
      <4>2. CASE WarmIpiInit(h)
        BY <2>1, <4>2 DEF WarmIpiInit
      <4> QED
        BY <3>11, <4>1, <4>2
    <3>12. CASE MarkAvailable(h)
      BY <2>1, <3>12 DEF MarkAvailable
    <3> QED
      BY <2>1, <3>1, <3>2, <3>3, <3>4, <3>5, <3>6, <3>7, <3>8, <3>9, <3>10, <3>11, <3>12 DEF Boot
  <2>2. ASSUME NEW h \in Hart, WakeUp(h) PROVE TypeOK'
    BY <2>2 DEF WakeUp, Wfi, LookAtDone
  <2>3. ASSUME NEW h \in Hart, WarmTlbInit(h) PROVE TypeOK'
    BY <2>3 DEF WarmTlbInit
  <2>4. ASSUME NEW h \in Hart, RemoteFence(h) PROVE TypeOK'
    <3>1. PICK mask \in FenceMasks \cup {avail_hart_mask} : SendMany(h, IPI_TLB, mask)
      BY <2>4 DEF RemoteFence
    <3>2. calls' \in [Hart -> Nat]
      BY <2>4 DEF RemoteFence
    <3> QED
      BY <2>4, <3>1, <3>2, LifeAssumption DEF RemoteFence, SendMany, ReturnTo
  <2>5. ASSUME NEW h \in Hart, Shutdown(h) PROVE TypeOK'
    BY <2>5 DEF Shutdown
  <2>6. ASSUME NEW h \in Hart, HaltAll(h) PROVE TypeOK'
    <3>1. /\ event' \in [Hart -> {IPI_HALT, IPI_TLB}] /\ targets' \in [Hart -> SUBSET Hart]
          /\ pc' \in [Hart -> BootLabel \cup LifeLabel]
      <4>1. hmask[h] \in SUBSET Hart
        BY <2>6
      <4>2. event' = [event EXCEPT ![h] = IPI_HALT]
        BY <2>6 DEF HaltAll, SendMany
      <4>3. \/ targets' = [targets EXCEPT ![h] = hmask[h]] /\ pc' = [pc EXCEPT ![h] = "send_many"]
            \/ targets' = targets /\ pc' = [pc EXCEPT ![h] = "exit"]
        BY <2>6 DEF HaltAll, SendMany, ReturnTo
      <4> QED
        BY <4>1, <4>2, <4>3
    <3>2. UNCHANGED <<ipiVars, bootVars, hmask, remote, trapVars, tlbVars, calls>>
      BY <2>6 DEF HaltAll
    <3> QED
      BY <3>1, <3>2
  <2>7. ASSUME NEW h \in Hart, NextTarget(h) PROVE TypeOK'
    <3>1. PICK t \in targets[h] :
            /\ targets' = [targets EXCEPT ![h] = @ \ {t}]
            /\ remote' = [remote EXCEPT ![h] = t]
            /\ requests' = requests \/ requests' = [requests EXCEPT ![t] = @ \cup {h}]
      BY <2>7 DEF NextTarget
    <3>2. /\ targets' \in [Hart -> SUBSET Hart] /\ remote' \in [Hart -> Hart]
          /\ requests' \in [Hart -> SUBSET Hart]
      BY <3>1
    <3>3. pc' \in [Hart -> BootLabel \cup LifeLabel]
      BY <2>7 DEF NextTarget
    <3>4. UNCHANGED <<ipiVars, bootVars, event, hmask, trapVars, tlb_sync, calls>>
      BY <2>7 DEF NextTarget
    <3> QED
      BY <3>2, <3>3, <3>4
  <2>8. ASSUME NEW h \in Hart, SendManyReturn(h) \/ SetBit(h) \/ IpiSend(h) PROVE TypeOK'
    <3>1. CASE SendManyReturn(h)
      BY <3>1 DEF SendManyReturn, ReturnTo
    <3>2. CASE SetBit(h)
      BY <3>2 DEF SetBit, SetEventBit
    <3>3. CASE IpiSend(h)
      BY <3>3 DEF IpiSend, RaiseMsip
    <3> QED
      BY <2>8, <3>1, <3>2, <3>3
  <2>9. ASSUME NEW h \in Hart, Sync(h) \/ Acknowledge(h) PROVE TypeOK'
    <3>1. CASE Sync(h)
      BY <3>1 DEF Sync
    <3>2. CASE Acknowledge(h)
      BY <3>2 DEF Acknowledge
    <3> QED
      BY <2>9, <3>1, <3>2
  <2>10. ASSUME NEW h \in Hart,
                Trap(h) \/ TakeBits(h) \/ ProcessHalt(h) \/ ProcessTlb(h) \/ TlbProcessed(h)
         PROVE  TypeOK'
    <3>1. CASE Trap(h)
      BY <3>1 DEF Trap, ClearMsip
    <3>2. CASE TakeBits(h)
      BY <3>2 DEF TakeBits, TakeEventBits
    <3>3. CASE ProcessHalt(h)
      BY <3>3 DEF ProcessHalt
    <3>4. CASE ProcessTlb(h) \/ TlbProcessed(h)
      BY <3>4 DEF ProcessTlb, TlbProcessed
    <3> QED
      BY <2>10, <3>1, <3>2, <3>3, <3>4
  <2>11. ASSUME NEW h \in Hart, ProcessReturn(h) \/ Exit(h) \/ IpiExit(h) PROVE TypeOK'
    <3>1. CASE ProcessReturn(h)
      BY <3>1 DEF ProcessReturn
    <3>2. CASE Exit(h)
      BY <3>2 DEF Exit, UnmarkAvailable
    <3>3. CASE IpiExit(h)
      BY <3>3 DEF IpiExit
    <3> QED
      BY <2>11, <3>1, <3>2, <3>3
  <2>12. CASE UNCHANGED vars
    BY <2>12 DEF vars
  <2> QED
    BY <2>1, <2>2, <2>3, <2>4, <2>5, <2>6, <2>7, <2>8, <2>9, <2>10, <2>11, <2>12
    DEF Next, Call, Machine, ComeUp
<1> QED
  BY <1>1, <1>2, PTL DEF Spec

-----------------------------------------------------------------------------
(* The steps of harts that have come up.                                   *)

\* Fences, shutdowns, traps and exits leave the state of the boot as it is, make no
\* hart available and move a hart among the places of a running one only.
LEMMA UpStep ==
  ASSUME TypeOK, NEW h \in Hart, Call(h) \/ Machine(h), ~ComeUp(h), ~WarmTlbInit(h)
  PROVE  /\ UNCHANGED <<imageVars, coldVars, coldboot>>
         /\ avail_hart_mask' \subseteq avail_hart_mask
         /\ pc[h] \in LifeLabel /\ pc'[h] \in LifeLabel
         /\ \A g \in Hart \ {h} : pc'[g] = pc[g]
         /\ \A g \in Hart : exiting[g] => exiting'[g]
         /\ pc'[h] = "hung" => exiting'[h]
<1> USE DEF TypeOK, LifeLabel, At, Goto, bootVars, lifeVars, sendVars, trapVars, tlbVars
<1>1. CASE RemoteFence(h)
  BY <1>1 DEF RemoteFence, SendMany, ReturnTo, IPI_HALT, IPI_TLB
<1>2. CASE Shutdown(h) \/ HaltAll(h)
  BY <1>2 DEF Shutdown, HaltAll, SendMany, ReturnTo, IPI_HALT, IPI_TLB
<1>3. CASE NextTarget(h)
  BY <1>3 DEF NextTarget
<1>4. CASE SendManyReturn(h) \/ SetBit(h) \/ IpiSend(h)
  BY <1>4 DEF SendManyReturn, SetBit, IpiSend, ReturnTo
<1>5. CASE Sync(h)
  BY <1>5 DEF Sync
<1>6. CASE Acknowledge(h)
  BY <1>6 DEF Acknowledge
<1>7. CASE Trap(h) \/ TakeBits(h) \/ ProcessHalt(h) \/ ProcessTlb(h) \/ TlbProcessed(h)
  BY <1>7 DEF Trap, TakeBits, ProcessHalt, ProcessTlb, TlbProcessed
<1>8. CASE ProcessReturn(h)
  BY <1>8 DEF ProcessReturn
<1>9. CASE Exit(h)
  BY <1>9 DEF Exit, UnmarkAvailable, imageVars, coldVars
<1>10. CASE IpiExit(h)
  BY <1>10 DEF IpiExit
<1> QED
  BY <1>1, <1>2, <1>3, <1>4, <1>5, <1>6, <1>7, <1>8, <1>9, <1>10 DEF Call, Machine

-----------------------------------------------------------------------------
(* One hart prepares the firmware, one makes the cold boot.                *)

\* The hart that won the lottery of fw_base.S, while it prepares the image.
Preparing(h) == pc[h] \in {"relocate", "relocate_done", "bss_zero", "fdt_reloc"}

\* Before the image is at its link address everybody waits at the load address;
\* afterwards BOOT_HART_DONE is there only once .bss is zeroed and nobody prepares
\* anything any more, and C code runs only from then on.
FirmwareInv ==
  /\ \A g, h \in Hart : Preparing(g) /\ Preparing(h) => g = h
  /\ ~relocate_lottery =>
       /\ \A h \in Hart : ~Preparing(h)
       /\ boot_status.load = 0
       /\ copied => boot_status.link = 0
  /\ boot_status.load # BOOT_HART_DONE
  /\ ~copied => /\ moved /\ boot_status.load = 0
                /\ \A h \in Hart : pc[h] \in {"start", "relocate", "wait_copy"}
  /\ \A h \in Hart : At(h, "fdt_reloc") => bss_zeroed
  /\ copied /\ boot_status.link = BOOT_HART_DONE =>
       bss_zeroed /\ \A h \in Hart : ~Preparing(h)
  /\ \A h \in Hart : ~InFirmware(h) => copied /\ boot_status.link = BOOT_HART_DONE

\* The lottery of sbi_init counts from the zeroed .bss: who has drawn number one is
\* in C, and the lottery has gone on.
Drawn ==
  /\ \A h \in Hart : coldboot[h] => ~InFirmware(h) /\ coldboot_lottery # 0
  /\ \A g, h \in Hart : coldboot[g] /\ coldboot[h] => g = h

\* Nobody runs code that is not there yet, whoever is in C finds .bss zeroed and
\* for good, and one hart makes the cold boot: a hart draws number one of the
\* second lottery only after the one winner of the first has zeroed it.
THEOREM ColdBootIsOne == Spec => [](FirmwareInv /\ OneColdBoot)
<1>1. Init => FirmwareInv /\ Drawn
  <2> SUFFICES ASSUME Init PROVE FirmwareInv /\ Drawn
    OBVIOUS
  <2>1. PICK junk \in 0 .. 2 : boot_status = [load |-> 0, link |-> IF moved THEN junk ELSE 0]
    BY DEF Init, BootInit, BOOT_HART_DONE
  <2>2. /\ moved \in BOOLEAN /\ copied = ~moved /\ relocate_lottery = FALSE
        /\ pc = [h \in Hart |-> "start"] /\ coldboot = [h \in Hart |-> FALSE]
    BY LoadAssumption DEF Init, BootInit
  <2> QED
    <3>1. boot_status.load = 0 /\ (copied => boot_status.link = 0)
      BY <2>1, <2>2
    <3>2. \A h \in Hart : pc[h] = "start" /\ ~coldboot[h]
      BY <2>2
    <3>3. FirmwareInv
      <4>1. moved \/ copied
        BY <2>2
      <4> QED
        BY <2>2, <3>1, <3>2, <4>1 DEF FirmwareInv, Preparing, InFirmware, At, BOOT_HART_DONE
    <3>4. Drawn
      BY <3>2 DEF Drawn
    <3> QED
      BY <3>3, <3>4
<1>2. TypeOK /\ FirmwareInv /\ [Next]_vars => FirmwareInv'
  <2> SUFFICES ASSUME TypeOK, FirmwareInv, [Next]_vars PROVE FirmwareInv'
    OBVIOUS
  <2> USE DEF TypeOK, BootTypeOK, At, Goto, RELOCATE_DONE, BOOT_HART_DONE
  <2>1. ASSUME NEW h \in Hart, Start(h) PROVE FirmwareInv'
    BY <2>1 DEF Start, coldVars, FirmwareInv, Preparing, InFirmware
  <2>2. ASSUME NEW h \in Hart, Relocate(h) PROVE FirmwareInv'
    BY <2>2 DEF Relocate, coldVars, FirmwareInv, Preparing, InFirmware
  <2>3. ASSUME NEW h \in Hart, RelocateDone(h) PROVE FirmwareInv'
    BY <2>3 DEF RelocateDone, AtLoad, coldVars, FirmwareInv, Preparing, InFirmware
  <2>4. ASSUME NEW h \in Hart, BssZero(h) PROVE FirmwareInv'
    BY <2>4 DEF BssZero, imageVars, FirmwareInv, Preparing, InFirmware
  <2>5. ASSUME NEW h \in Hart, BootHartDone(h) PROVE FirmwareInv'
    BY <2>5 DEF BootHartDone, coldVars, FirmwareInv, Preparing, InFirmware
  <2>6. ASSUME NEW h \in Hart, WaitRelocate(h) PROVE FirmwareInv'
    BY <2>6 DEF WaitRelocate, bootVars, imageVars, coldVars, FirmwareInv, Preparing, InFirmware
  <2>7. ASSUME NEW h \in Hart, WaitBootHart(h) PROVE FirmwareInv'
    BY <2>7 DEF WaitBootHart, bootVars, imageVars, coldVars, FirmwareInv, Preparing, InFirmware
  <2>8. ASSUME NEW h \in Hart,
               \/ SbiInit(h) \/ ColdInit(h) \/ WakeColdbootHarts(h) \/ WaitForColdboot(h)
               \/ ClearOwnIpi(h) \/ WarmIpiInit(h) \/ MarkAvailable(h) \/ WakeUp(h)
               \/ WarmTlbInit(h)
        PROVE  FirmwareInv'
    <3>1. UNCHANGED <<relocate_lottery, moved, boot_status, copied, bss_zeroed>>
      BY <2>8 DEF SbiInit, ColdInit, WakeColdbootHarts, WaitForColdboot, LookAtDone, ClearOwnIpi,
                  WarmIpiInit, MarkAvailable, WakeUp, Wfi, WarmTlbInit, bootVars, coldVars, imageVars
    <3>2. ~InFirmware(h) /\ ~InFirmware(h)' /\ \A g \in Hart \ {h} : pc'[g] = pc[g]
      BY <2>8 DEF SbiInit, ColdInit, WakeColdbootHarts, WaitForColdboot, LookAtDone, ClearOwnIpi,
                  WarmIpiInit, MarkAvailable, WakeUp, Wfi, WarmTlbInit, InFirmware
    <3> QED
      BY <3>1, <3>2 DEF FirmwareInv, Preparing, InFirmware
  <2>9. ASSUME NEW h \in Hart, Call(h) \/ Machine(h), ~ComeUp(h), ~WarmTlbInit(h)
         PROVE  FirmwareInv'
    <3>1. /\ UNCHANGED imageVars /\ UNCHANGED coldVars
          /\ pc[h] \in LifeLabel /\ pc'[h] \in LifeLabel
          /\ \A g \in Hart \ {h} : pc'[g] = pc[g]
      BY <2>9, UpStep
    <3>2. ~InFirmware(h) /\ ~InFirmware(h)'
      BY <3>1 DEF LifeLabel, InFirmware
    <3> QED
      BY <3>1, <3>2 DEF coldVars, imageVars, FirmwareInv, Preparing, InFirmware
  <2>10. CASE UNCHANGED vars
    BY <2>10 DEF vars, bootVars, coldVars, imageVars, FirmwareInv, Preparing, InFirmware
  <2> QED
    BY <2>1, <2>2, <2>3, <2>4, <2>5, <2>6, <2>7, <2>8, <2>9, <2>10 DEF Next, Machine, ComeUp, Boot
<1>3. TypeOK /\ FirmwareInv /\ Drawn /\ [Next]_vars => Drawn'
  <2> SUFFICES ASSUME TypeOK, FirmwareInv, Drawn, [Next]_vars PROVE Drawn'
    OBVIOUS
  <2> USE DEF TypeOK, BootTypeOK, At, Goto
  <2>1. ASSUME NEW h \in Hart, SbiInit(h) PROVE Drawn'
    BY <2>1 DEF SbiInit, Drawn, InFirmware
  <2>2. ASSUME NEW h \in Hart, BssZero(h) PROVE Drawn'
    <3>1. \A g \in Hart : InFirmware(g) /\ ~coldboot[g]
      BY <2>2 DEF BssZero, FirmwareInv, Preparing, Drawn
    <3> QED
      BY <2>2, <3>1 DEF BssZero, Drawn
  <2>3. ASSUME UNCHANGED <<coldboot, coldboot_lottery>>,
               \A g \in Hart : pc'[g] = pc[g] \/ ~InFirmware(g)'
        PROVE  Drawn'
    BY <2>3 DEF Drawn, InFirmware
  <2>4. ASSUME NEW h \in Hart,
               \/ Start(h) \/ Relocate(h) \/ RelocateDone(h) \/ BootHartDone(h)
               \/ WaitRelocate(h) \/ WaitBootHart(h)
        PROVE  Drawn'
    <3>1. UNCHANGED <<coldboot, coldboot_lottery>>
      BY <2>4 DEF Start, Relocate, RelocateDone, BootHartDone, WaitRelocate, WaitBootHart,
                  bootVars, coldVars
    <3>2. InFirmware(h) /\ \A g \in Hart \ {h} : pc'[g] = pc[g]
      BY <2>4 DEF Start, Relocate, RelocateDone, BootHartDone, WaitRelocate, WaitBootHart,
                  InFirmware
    <3> QED
      BY <3>1, <3>2 DEF Drawn, InFirmware
  <2>5. ASSUME NEW h \in Hart,
               \/ ColdInit(h) \/ WakeColdbootHarts(h) \/ WaitForColdboot(h)
               \/ ClearOwnIpi(h) \/ WarmIpiInit(h) \/ MarkAvailable(h) \/ WakeUp(h)
               \/ WarmTlbInit(h)
        PROVE  Drawn'
    <3>1. UNCHANGED <<coldboot, coldboot_lottery>>
      BY <2>5 DEF ColdInit, WakeColdbootHarts, WaitForColdboot, LookAtDone, ClearOwnIpi,
                  WarmIpiInit, MarkAvailable, WakeUp, Wfi, WarmTlbInit, bootVars, coldVars, imageVars
    <3>2. ~InFirmware(h)' /\ \A g \in Hart \ {h} : pc'[g] = pc[g]
      BY <2>5 DEF ColdInit, WakeColdbootHarts, WaitForColdboot, LookAtDone, ClearOwnIpi,
                  WarmIpiInit, MarkAvailable, WakeUp, Wfi, WarmTlbInit, InFirmware
    <3> QED
      BY <2>3, <3>1, <3>2
  <2>6. ASSUME NEW h \in Hart, Call(h) \/ Machine(h), ~ComeUp(h), ~WarmTlbInit(h)
        PROVE  Drawn'
    <3>1. /\ UNCHANGED <<coldVars, coldboot>> /\ pc'[h] \in LifeLabel
          /\ \A g \in Hart \ {h} : pc'[g] = pc[g]
      BY <2>6, UpStep
    <3>2. ~InFirmware(h)'
      BY <3>1 DEF LifeLabel, InFirmware
    <3> QED
      BY <2>3, <3>1, <3>2 DEF coldVars
  <2>7. CASE UNCHANGED vars
    BY <2>3, <2>7 DEF vars, bootVars, coldVars
  <2> QED
    BY <2>1, <2>2, <2>4, <2>5, <2>6, <2>7 DEF Next, Machine, ComeUp, Boot
<1>4. FirmwareInv /\ Drawn => OneColdBoot
  BY DEF FirmwareInv, Drawn, OneColdBoot, Preparing, At
<1> QED
  BY <1>1, <1>2, <1>3, <1>4, TypeCorrect, PTL DEF Spec
-----------------------------------------------------------------------------
(* Warm harts come after the cold one.                                     *)

\* The flag of the cold boot, once it is not junk any more, says that it has
\* allocated everything.
FlagIsTrue ==
  /\ bss_zeroed /\ coldboot_done = 1 => offsets
  /\ \A h \in Hart : At(h, "wake") => offsets

\* No warm hart initialises itself before the cold one has allocated everything,
\* and none hangs for a missing offset: it waits for a flag that BssZero alone can
\* take back, and nobody is in C at that time.
THEOREM WarmComesAfterCold == Spec => []WarmAfterCold
<1>1. Init => FlagIsTrue /\ WarmAfterCold
  BY DEF Init, BootInit, FlagIsTrue, WarmAfterCold, At
<1>2. TypeOK /\ FirmwareInv /\ FlagIsTrue /\ WarmAfterCold /\ [Next]_vars
        => FlagIsTrue' /\ WarmAfterCold'
  <2> SUFFICES ASSUME TypeOK, FirmwareInv, FlagIsTrue, WarmAfterCold, [Next]_vars
               PROVE  FlagIsTrue' /\ WarmAfterCold'
    OBVIOUS
  <2> USE DEF TypeOK, BootTypeOK, At, Goto, FlagIsTrue, WarmAfterCold
  <2>1. ASSUME NEW h \in Hart, UNCHANGED lifeVars,
               \/ Start(h) \/ Relocate(h) \/ RelocateDone(h) \/ BootHartDone(h)
               \/ WaitRelocate(h) \/ WaitBootHart(h)
        PROVE  FlagIsTrue' /\ WarmAfterCold'
    <3>1. UNCHANGED coldVars
      BY <2>1 DEF Start, Relocate, RelocateDone, BootHartDone, WaitRelocate, WaitBootHart, bootVars
    <3>2. /\ pc'[h] \in {"relocate", "relocate_done", "bss_zero", "fdt_reloc",
                         "wait_copy", "wait_boot", "sbi_init"}
          /\ \A g \in Hart \ {h} : pc'[g] = pc[g]
      BY <2>1 DEF Start, Relocate, RelocateDone, BootHartDone, WaitRelocate, WaitBootHart
    <3> QED
      BY <2>1, <3>1, <3>2 DEF coldVars, lifeVars, trapVars
  <2>2. ASSUME NEW h \in Hart, UNCHANGED lifeVars, BssZero(h)
        PROVE  FlagIsTrue' /\ WarmAfterCold'
    <3>1. \A g \in Hart : InFirmware(g)
      BY <2>2 DEF BssZero, FirmwareInv, Preparing
    <3> QED
      BY <2>2, <3>1 DEF BssZero, InFirmware, lifeVars, trapVars
  <2>3. ASSUME NEW h \in Hart, UNCHANGED lifeVars, SbiInit(h) \/ ColdInit(h)
        PROVE  FlagIsTrue' /\ WarmAfterCold'
    <3>1. CASE SbiInit(h)
      BY <2>3, <3>1 DEF SbiInit, lifeVars, trapVars
    <3>2. CASE ColdInit(h)
      BY <2>3, <3>2 DEF ColdInit, lifeVars, trapVars
    <3> QED
      BY <2>3, <3>1, <3>2
  <2>4. ASSUME NEW h \in Hart, UNCHANGED lifeVars, WakeColdbootHarts(h)
        PROVE  FlagIsTrue' /\ WarmAfterCold'
    BY <2>4 DEF WakeColdbootHarts, lifeVars, trapVars
  <2>5. ASSUME NEW h \in Hart, UNCHANGED lifeVars, WaitForColdboot(h) \/ Wfi(h)
        PROVE  FlagIsTrue' /\ WarmAfterCold'
    <3>1. bss_zeroed
      BY <2>5 DEF WaitForColdboot, Wfi, FirmwareInv, InFirmware
    <3> QED
      BY <2>5, <3>1 DEF WaitForColdboot, Wfi, LookAtDone, lifeVars, trapVars
  <2>6. ASSUME NEW h \in Hart, UNCHANGED lifeVars,
               ClearOwnIpi(h) \/ WarmIpiInit(h) \/ MarkAvailable(h)
        PROVE  FlagIsTrue' /\ WarmAfterCold'
    BY <2>6 DEF ClearOwnIpi, WarmIpiInit, MarkAvailable, bootVars, coldVars, lifeVars, trapVars
  <2>7. ASSUME NEW h \in Hart, WarmTlbInit(h)
        PROVE  FlagIsTrue' /\ WarmAfterCold'
    BY <2>7 DEF WarmTlbInit, bootVars, coldVars, trapVars
  <2>8. ASSUME NEW h \in Hart, Call(h) \/ Machine(h), ~ComeUp(h), ~WarmTlbInit(h)
        PROVE  FlagIsTrue' /\ WarmAfterCold'
    <3>1. /\ UNCHANGED coldVars
          /\ pc'[h] \in LifeLabel /\ \A g \in Hart \ {h} : pc'[g] = pc[g]
          /\ \A g \in Hart : exiting[g] => exiting'[g]
          /\ pc'[h] = "hung" => exiting'[h]
      BY <2>8, UpStep
    <3> QED
      BY <3>1 DEF coldVars, LifeLabel
  <2>9. CASE UNCHANGED vars
    BY <2>9 DEF vars, bootVars, coldVars, lifeVars, trapVars
  <2> QED
    BY <2>1, <2>2, <2>3, <2>4, <2>5, <2>6, <2>7, <2>8, <2>9 DEF Next, Machine, ComeUp, Boot, WakeUp
<1> QED
  BY <1>1, <1>2, TypeCorrect, ColdBootIsOne, PTL DEF Spec
-----------------------------------------------------------------------------
(* Initialisation wipes nothing.                                           *)

\* Whoever is named in a mask that machine mode goes through, or is asked to flush,
\* or asks, has been let into the supervisor; the bitmap names sleeping harts.
NamedAreUp ==
  /\ bss_zeroed => \A t \in avail_hart_mask : ~ComingUp(t)
  /\ bss_zeroed => \A t \in coldboot_wait_bitmap : At(t, "wfi")
  /\ \A h \in Hart : \A t \in targets[h] \cup requests[h] : ~ComingUp(t)
  /\ \A h \in Hart : pc[h] \in {"set_bit", "ipi_send"} => ~ComingUp(remote[h])

\* No hart that comes up has anything to lose when its data is initialised: only
\* harts that have been let into the supervisor are named to the others, and the
\* wake-up goes to those that sleep.
THEOREM InitWipesNothing == Spec => []NothingIsWiped
<1> USE DEF ComingUp
<1>1. Init => NamedAreUp /\ NothingIsWiped
  BY DEF Init, IpiInit, BootInit, NamedAreUp, NothingIsWiped, At, BootLabel
<1>2. TypeOK /\ FirmwareInv /\ NamedAreUp /\ NothingIsWiped /\ [Next]_vars
        => NamedAreUp' /\ NothingIsWiped'
  <2> SUFFICES ASSUME TypeOK, FirmwareInv, NamedAreUp, NothingIsWiped, [Next]_vars
               PROVE  NamedAreUp' /\ NothingIsWiped'
    OBVIOUS
  <2> USE DEF TypeOK, BootTypeOK, IpiTypeOK, At, Goto, NamedAreUp, NothingIsWiped
  <2>1. ASSUME NEW h \in Hart, UNCHANGED lifeVars,
               \/ Start(h) \/ Relocate(h) \/ RelocateDone(h) \/ BootHartDone(h)
               \/ WaitRelocate(h) \/ WaitBootHart(h) \/ SbiInit(h)
        PROVE  NamedAreUp' /\ NothingIsWiped'
    <3>1. UNCHANGED <<ipiVars, bss_zeroed, avail_hart_mask, coldboot_wait_bitmap>>
      BY <2>1 DEF Start, Relocate, RelocateDone, BootHartDone, WaitRelocate, WaitBootHart,
                  SbiInit, bootVars, coldVars
    <3>2. /\ pc[h] \in BootLabel \ {"wfi", "woken"} /\ pc'[h] \in BootLabel
          /\ \A g \in Hart \ {h} : pc'[g] = pc[g]
      BY <2>1 DEF Start, Relocate, RelocateDone, BootHartDone, WaitRelocate, WaitBootHart,
                  SbiInit, BootLabel
    <3>3. \A g \in Hart : ComingUp(g)' <=> ComingUp(g)
      BY <3>2
    <3>4. UNCHANGED <<ipi_type, msip, bss_zeroed, avail_hart_mask, coldboot_wait_bitmap,
                      targets, remote, requests, tlb_sync>>
      BY <2>1, <3>1 DEF ipiVars, lifeVars, sendVars, tlbVars
    <3>5. /\ pc[h] \notin {"wfi", "woken", "set_bit", "ipi_send"}
          /\ pc'[h] \notin {"set_bit", "ipi_send"}
      BY <3>2 DEF BootLabel
    <3>6. NamedAreUp'
      BY <3>2, <3>3, <3>4, <3>5
    <3>7. NothingIsWiped'
      BY <3>2, <3>3, <3>4, <3>5
    <3> QED
      BY <3>6, <3>7
  <2>2. ASSUME NEW h \in Hart, UNCHANGED lifeVars, BssZero(h)
        PROVE  NamedAreUp' /\ NothingIsWiped'
    BY <2>2 DEF BssZero, ipiVars, lifeVars, sendVars, tlbVars, BootLabel
  <2>3. ASSUME NEW h \in Hart, UNCHANGED lifeVars, ColdInit(h)
        PROVE  NamedAreUp' /\ NothingIsWiped'
    BY <2>3 DEF ColdInit, lifeVars, sendVars, tlbVars, BootLabel
  <2>4. ASSUME NEW h \in Hart, UNCHANGED lifeVars, WakeColdbootHarts(h)
        PROVE  NamedAreUp' /\ NothingIsWiped'
    <3>1. bss_zeroed
      BY <2>4 DEF WakeColdbootHarts, FirmwareInv, InFirmware
    <3> QED
      BY <2>4, <3>1 DEF WakeColdbootHarts, lifeVars, sendVars, tlbVars, BootLabel
  <2>5. ASSUME NEW h \in Hart, UNCHANGED lifeVars, WaitForColdboot(h) \/ Wfi(h)
        PROVE  NamedAreUp' /\ NothingIsWiped'
    <3>1. /\ pc[h] \in {"wait_cold", "wfi"} /\ pc'[h] \in {"wfi", "woken"}
          /\ \A g \in Hart \ {h} : pc'[g] = pc[g]
          /\ h \in coldboot_wait_bitmap' => pc'[h] = "wfi"
          /\ coldboot_wait_bitmap' \subseteq coldboot_wait_bitmap \cup {h}
      BY <2>5 DEF WaitForColdboot, Wfi, LookAtDone
    <3>2. UNCHANGED <<ipi_type, msip, bss_zeroed, avail_hart_mask, targets, remote, requests, tlb_sync>>
      BY <2>5 DEF WaitForColdboot, Wfi, LookAtDone, ipiVars, lifeVars, sendVars, tlbVars
    <3>3. \A g \in Hart : ComingUp(g)' <=> ComingUp(g)
      BY <3>1 DEF BootLabel
    <3>4. NamedAreUp'
      <4>1. bss_zeroed' => \A t \in avail_hart_mask' : ~ComingUp(t)'
        BY <3>2, <3>3
      <4>2. bss_zeroed' => \A t \in coldboot_wait_bitmap' : At(t, "wfi")'
        BY <3>1, <3>2
      <4>3. \A g \in Hart : \A t \in targets'[g] \cup requests'[g] : ~ComingUp(t)'
        BY <3>2, <3>3
      <4>4. \A g \in Hart : pc'[g] \in {"set_bit", "ipi_send"} => ~ComingUp(remote[g])'
        BY <3>1, <3>2, <3>3
      <4> QED
        BY <3>2, <4>1, <4>2, <4>3, <4>4
    <3>5. NothingIsWiped'
      BY <3>1, <3>2, <3>3 DEF BootLabel
    <3> QED
      BY <3>4, <3>5
  <2>6. ASSUME NEW h \in Hart, UNCHANGED lifeVars, ClearOwnIpi(h)
        PROVE  NamedAreUp' /\ NothingIsWiped'
    BY <2>6 DEF ClearOwnIpi, bootVars, coldVars, lifeVars, sendVars, tlbVars, BootLabel
  <2>7. ASSUME NEW h \in Hart, UNCHANGED lifeVars, WarmIpiInit(h)
        PROVE  NamedAreUp' /\ NothingIsWiped'
    BY <2>7 DEF WarmIpiInit, bootVars, coldVars, lifeVars, sendVars, tlbVars, BootLabel
  <2>8. ASSUME NEW h \in Hart, UNCHANGED lifeVars, MarkAvailable(h)
        PROVE  NamedAreUp' /\ NothingIsWiped'
    BY <2>8 DEF MarkAvailable, ipiVars, coldVars, lifeVars, sendVars, tlbVars, BootLabel
  <2>9. ASSUME NEW h \in Hart, WarmTlbInit(h)
        PROVE  NamedAreUp' /\ NothingIsWiped'
    BY <2>9 DEF WarmTlbInit, ipiVars, bootVars, coldVars, sendVars, BootLabel
  <2>10. ASSUME NEW h \in Hart, Call(h) \/ Machine(h), ~ComeUp(h), ~WarmTlbInit(h)
         PROVE  NamedAreUp' /\ NothingIsWiped'
    <3>1. /\ UNCHANGED coldVars /\ avail_hart_mask' \subseteq avail_hart_mask
          /\ pc[h] \in LifeLabel /\ pc'[h] \in LifeLabel
          /\ \A g \in Hart \ {h} : pc'[g] = pc[g]
      BY <2>10, UpStep
    <3>2. \A g \in Hart : ComingUp(g)' <=> ComingUp(g)
      BY <3>1 DEF LifeLabel, BootLabel
    <3>3. bss_zeroed
      BY <3>1 DEF FirmwareInv, InFirmware, LifeLabel
    <3>4. /\ \A t \in avail_hart_mask' : ~ComingUp(t)'
          /\ \A t \in coldboot_wait_bitmap' : At(t, "wfi")'
      BY <3>1, <3>2, <3>3 DEF coldVars, LifeLabel
    <3>5. h \in Hart /\ ~ComingUp(h) /\ ~ComingUp(h)'
      BY <3>1 DEF LifeLabel, BootLabel
    <3>6. CASE RemoteFence(h) \/ HaltAll(h)
      <4>1. targets'[h] = targets[h] \/ targets'[h] \subseteq avail_hart_mask
        BY <3>6 DEF RemoteFence, HaltAll, SendMany
      <4>2. \A g \in Hart \ {h} : targets'[g] = targets[g]
        BY <3>6 DEF RemoteFence, HaltAll, SendMany
      <4>3. /\ UNCHANGED <<ipi_type, msip, requests, tlb_sync, remote>>
            /\ pc'[h] \notin {"set_bit", "ipi_send"}
        BY <3>6 DEF RemoteFence, HaltAll, SendMany, ReturnTo, ipiVars, tlbVars
      <4>4. \A g \in Hart : \A t \in targets'[g] \cup requests'[g] : ~ComingUp(t)'
        BY <3>2, <3>3, <4>1, <4>2, <4>3
      <4>5. \A g \in Hart : pc'[g] \in {"set_bit", "ipi_send"} => ~ComingUp(remote[g])'
        BY <3>1, <3>2, <4>3
      <4>6. NamedAreUp'
        BY <3>4, <4>3, <4>4, <4>5
      <4>7. NothingIsWiped'
        BY <3>1, <3>2, <3>5, <4>3
      <4> QED
        BY <4>6, <4>7
    <3>7. CASE Shutdown(h) \/ SendManyReturn(h) \/ ProcessReturn(h) \/ Exit(h) \/ TlbProcessed(h)
      <4>1. /\ UNCHANGED <<ipi_type, msip, requests, tlb_sync, remote, targets>>
            /\ pc'[h] \notin {"set_bit", "ipi_send"}
        BY <3>7 DEF Shutdown, SendManyReturn, ProcessReturn, Exit, UnmarkAvailable, TlbProcessed,
                    ReturnTo, ipiVars, tlbVars, sendVars, lifeVars
      <4> QED
        BY <3>1, <3>2, <3>4, <3>5, <4>1
    <3>8. CASE NextTarget(h)
      <4>1. PICK t \in targets[h] :
              /\ targets' = [targets EXCEPT ![h] = @ \ {t}]
              /\ remote' = [remote EXCEPT ![h] = t]
              /\ requests' = requests \/ requests' = [requests EXCEPT ![t] = @ \cup {h}]
        BY <3>8 DEF NextTarget
      <4>2. UNCHANGED <<ipi_type, msip, tlb_sync>>
        BY <3>8 DEF NextTarget, ipiVars
      <4>3. t \in Hart /\ ~ComingUp(t)
        BY <4>1
      <4>4. \A g \in Hart : /\ targets'[g] \subseteq targets[g]
                            /\ requests'[g] \subseteq requests[g] \cup {h}
                            /\ ComingUp(g) => requests'[g] = requests[g]
        BY <4>1, <4>3
      <4>5. remote'[h] = t /\ \A g \in Hart \ {h} : remote'[g] = remote[g]
        BY <4>1
      <4>6. NamedAreUp'
        BY <3>1, <3>2, <3>4, <3>5, <4>3, <4>4, <4>5
      <4> QED
        BY <3>1, <3>2, <3>5, <4>2, <4>4, <4>6
    <3>9. CASE SetBit(h) \/ IpiSend(h)
      <4>1. /\ ~ComingUp(remote[h])
            /\ UNCHANGED <<requests, tlb_sync, remote, targets>>
            /\ \A g \in Hart \ {remote[h]} : ipi_type'[g] = ipi_type[g] /\ msip'[g] = msip[g]
            /\ pc'[h] = "ipi_send" \/ pc'[h] \notin {"set_bit", "ipi_send"}
        BY <3>9 DEF SetBit, SetEventBit, IpiSend, RaiseMsip, lifeVars, sendVars, tlbVars
      <4> QED
        BY <3>1, <3>2, <3>4, <3>5, <4>1
    <3>10. CASE Sync(h)
      BY <3>1, <3>2, <3>4, <3>5, <3>10 DEF Sync, ipiVars, sendVars
    <3>11. CASE Acknowledge(h)
      <4>1. PICK r \in requests[h] : /\ tlb_sync' = [tlb_sync EXCEPT ![r] = TRUE]
                                     /\ requests' = [requests EXCEPT ![h] = @ \ {r}]
        BY <3>11 DEF Acknowledge
      <4>2. UNCHANGED <<ipi_type, msip, remote, targets, pc>>
        BY <3>11 DEF Acknowledge, ipiVars, sendVars
      <4>3. ~ComingUp(r)
        BY <4>1
      <4> QED
        BY <3>2, <3>4, <4>1, <4>2, <4>3
    <3>12. CASE Trap(h) \/ TakeBits(h) \/ IpiExit(h) \/ ProcessHalt(h) \/ ProcessTlb(h)
      <4>1. /\ UNCHANGED <<requests, tlb_sync, remote, targets>>
            /\ \A g \in Hart \ {h} : ipi_type'[g] = ipi_type[g] /\ msip'[g] = msip[g]
            /\ pc'[h] \notin {"set_bit", "ipi_send"}
        BY <3>12 DEF Trap, ClearMsip, TakeBits, TakeEventBits, IpiExit, ProcessHalt, ProcessTlb,
                     ipiVars, lifeVars, sendVars, tlbVars
      <4> QED
        BY <3>1, <3>2, <3>4, <3>5, <4>1
    <3> QED
      BY <2>10, <3>6, <3>7, <3>8, <3>9, <3>10, <3>11, <3>12 DEF Call, Machine
  <2>11. CASE UNCHANGED vars
    BY <2>11 DEF vars, ipiVars, bootVars, coldVars, lifeVars, sendVars, tlbVars
  <2> QED
    BY <2>1, <2>2, <2>3, <2>4, <2>5, <2>6, <2>7, <2>8, <2>9, <2>10, <2>11
    DEF Next, Machine, ComeUp, Boot, WakeUp
<1> QED
  BY <1>1, <1>2, TypeCorrect, ColdBootIsOne, PTL DEF Spec
-----------------------------------------------------------------------------
(* A halt request that was sent is not lost.                               *)

\* Bits are in hand only while they are handled; only fences wait for a flag.
InHand ==
  /\ \A h \in Hart : taken[h] # {} => pc[h] \in {"events", "tlb_process"}
  /\ \A h \in Hart : At(h, "sync") => event[h] = IPI_TLB

\* A step of one hart leaves the locals of the others alone.
LEMMA OthersKeep ==
  ASSUME TypeOK, NEW h \in Hart, Call(h) \/ Machine(h) \/ WakeUp(h), NEW g \in Hart \ {h}
  PROVE  /\ pc'[g] = pc[g] /\ event'[g] = event[g] /\ hmask'[g] = hmask[g]
         /\ targets'[g] = targets[g] /\ remote'[g] = remote[g]
         /\ taken'[g] = taken[g] /\ exiting'[g] = exiting[g]
<1> USE DEF TypeOK, At, Goto, lifeVars, sendVars, trapVars
<1>1. CASE WakeUp(h)
  BY <1>1 DEF WakeUp, Wfi, LookAtDone
<1>2. CASE ComeUp(h)
  BY <1>2 DEF ComeUp, Boot, Start, Relocate, RelocateDone, BssZero, BootHartDone, WaitRelocate,
              WaitBootHart, SbiInit, ColdInit, WakeColdbootHarts, WaitForColdboot, LookAtDone,
              ClearOwnIpi, WarmIpiInit, MarkAvailable
<1>3. CASE RemoteFence(h) \/ Shutdown(h) \/ HaltAll(h)
  BY <1>3 DEF RemoteFence, Shutdown, HaltAll, SendMany
<1>4. CASE NextTarget(h)
  BY <1>4 DEF NextTarget
<1>5. CASE WarmTlbInit(h) \/ SendManyReturn(h) \/ SetBit(h) \/ IpiSend(h) \/ Sync(h) \/ Acknowledge(h)
  BY <1>5 DEF WarmTlbInit, SendManyReturn, SetBit, IpiSend, Sync, Acknowledge
<1>6. CASE \/ Trap(h) \/ TakeBits(h) \/ ProcessHalt(h) \/ ProcessTlb(h) \/ TlbProcessed(h)
           \/ ProcessReturn(h) \/ Exit(h) \/ IpiExit(h)
  BY <1>6 DEF Trap, TakeBits, ProcessHalt, ProcessTlb, TlbProcessed, ProcessReturn, Exit, IpiExit
<1> QED
  BY <1>1, <1>2, <1>3, <1>4, <1>5, <1>6 DEF Call, Machine

LEMMA InHandStep ==
  ASSUME TypeOK, InHand, [Next]_vars
  PROVE  InHand'
<1> USE DEF TypeOK, InHand, At, Goto, lifeVars, sendVars, trapVars
<1>1. ASSUME NEW h \in Hart, Call(h) \/ Machine(h) \/ WakeUp(h)
      PROVE  InHand'
  <2>1. /\ taken'[h] # {} => pc'[h] \in {"events", "tlb_process"}
        /\ pc'[h] = "sync" => event'[h] = IPI_TLB
    <3>1. CASE WakeUp(h)
      BY <3>1 DEF WakeUp, Wfi, LookAtDone
    <3>2. CASE ComeUp(h)
      BY <3>2 DEF ComeUp, Boot, Start, Relocate, RelocateDone, BssZero, BootHartDone, WaitRelocate,
                  WaitBootHart, SbiInit, ColdInit, WakeColdbootHarts, WaitForColdboot, LookAtDone,
                  ClearOwnIpi, WarmIpiInit, MarkAvailable
    <3>3. CASE RemoteFence(h) \/ Shutdown(h) \/ HaltAll(h)
      BY <3>3 DEF RemoteFence, Shutdown, HaltAll, SendMany, ReturnTo
    <3>4. CASE NextTarget(h)
      BY <3>4 DEF NextTarget
    <3>5. CASE \/ WarmTlbInit(h) \/ SendManyReturn(h) \/ SetBit(h) \/ IpiSend(h) \/ Sync(h)
               \/ Acknowledge(h)
      BY <3>5 DEF WarmTlbInit, SendManyReturn, SetBit, IpiSend, Sync, Acknowledge, ReturnTo
    <3>6. CASE \/ Trap(h) \/ TakeBits(h) \/ ProcessHalt(h) \/ ProcessTlb(h) \/ TlbProcessed(h)
               \/ ProcessReturn(h) \/ Exit(h) \/ IpiExit(h)
      BY <3>6 DEF Trap, TakeBits, ProcessHalt, ProcessTlb, TlbProcessed, ProcessReturn, Exit, IpiExit
    <3> QED
      BY <1>1, <3>1, <3>2, <3>3, <3>4, <3>5, <3>6 DEF Call, Machine
  <2> QED
    BY <1>1, <2>1, OthersKeep
<1>2. CASE UNCHANGED vars
  BY <1>2 DEF vars
<1> QED
  BY <1>1, <1>2 DEF Next

\* Whatever step is taken, a hart that was told is told.
LEMMA ToldStep ==
  ASSUME TypeOK, NothingIsWiped, InHand, [Next]_vars, NEW t \in Hart, Told(t)
  PROVE  Told(t)'
<1> USE DEF TypeOK, IpiTypeOK, At, Goto, lifeVars, sendVars, trapVars
<1>1. ASSUME NEW h \in Hart, Call(h) \/ Machine(h) \/ WakeUp(h)
      PROVE  Told(t)'
  <2>1. \A g \in Hart \ {h} : /\ pc'[g] = pc[g] /\ remote'[g] = remote[g]
                              /\ taken'[g] = taken[g] /\ exiting'[g] = exiting[g]
    BY <1>1, OthersKeep
  \* Most steps touch no bit and no line and are at no place that counts.
  <2>2. ASSUME IPI_HALT \in ipi_type[t] => IPI_HALT \in ipi_type'[t],
               msip[t] => msip'[t],
               taken'[h] = taken[h], exiting[h] => exiting'[h],
               pc[h] \notin {"take_bits", "ipi_send", "exit"}
        PROVE  Told(t)'
    BY <2>1, <2>2 DEF Told
  <2>3. CASE WakeUp(h)
    BY <2>2, <2>3 DEF WakeUp, Wfi, LookAtDone, ipiVars
  <2>4. CASE /\ UNCHANGED lifeVars
             /\ \/ Start(h) \/ Relocate(h) \/ RelocateDone(h) \/ BssZero(h) \/ BootHartDone(h)
                \/ WaitRelocate(h) \/ WaitBootHart(h) \/ SbiInit(h) \/ WaitForColdboot(h)
                \/ MarkAvailable(h)
    <3>1. UNCHANGED ipiVars /\ pc[h] \notin {"take_bits", "ipi_send", "exit"}
      BY <2>4 DEF Start, Relocate, RelocateDone, BssZero, BootHartDone, WaitRelocate,
                  WaitBootHart, SbiInit, WaitForColdboot, LookAtDone, MarkAvailable
    <3> QED
      BY <2>2, <2>4, <3>1 DEF ipiVars
  <2>5. CASE UNCHANGED lifeVars /\ WakeColdbootHarts(h)
    BY <2>2, <2>5 DEF WakeColdbootHarts
  \* Nobody has told a hart that comes up.
  <2>6. CASE UNCHANGED lifeVars /\ (ColdInit(h) \/ ClearOwnIpi(h) \/ WarmIpiInit(h))
    <3>1. /\ pc[h] \in {"cold_init", "woken", "ipi_init"} /\ UNCHANGED <<taken, exiting, remote>>
          /\ pc'[h] \notin {"take_bits", "ipi_send", "exit"}
          /\ \A g \in Hart \ {h} : ipi_type'[g] = ipi_type[g] /\ msip'[g] = msip[g]
      BY <2>6 DEF ColdInit, ClearOwnIpi, WarmIpiInit
    <3>2. ipi_type[h] = {}
      BY <3>1 DEF NothingIsWiped, ComingUp, BootLabel
    <3> QED
      BY <2>1, <3>1, <3>2 DEF Told
  <2>7. CASE WarmTlbInit(h) \/ SendManyReturn(h) \/ Sync(h) \/ Acknowledge(h) \/ TlbProcessed(h)
    <3>1. UNCHANGED <<ipiVars, taken, exiting>> /\ pc[h] \notin {"take_bits", "ipi_send", "exit"}
      BY <2>7 DEF WarmTlbInit, SendManyReturn, Sync, Acknowledge, TlbProcessed
    <3> QED
      BY <2>2, <3>1 DEF ipiVars
  <2>8. CASE RemoteFence(h) \/ Shutdown(h) \/ HaltAll(h) \/ NextTarget(h) \/ ProcessReturn(h)
    <3>1. UNCHANGED <<ipiVars, taken, exiting>> /\ pc[h] \notin {"take_bits", "ipi_send", "exit"}
      BY <2>8 DEF RemoteFence, Shutdown, HaltAll, NextTarget, ProcessReturn
    <3> QED
      BY <2>2, <3>1 DEF ipiVars
  <2>9. CASE SetBit(h)
    BY <2>2, <2>9 DEF SetBit, SetEventBit
  \* The line of whom it was sending to is up now.
  <2>10. CASE IpiSend(h)
    <3>1. /\ ipi_type' = ipi_type /\ msip' = [msip EXCEPT ![remote[h]] = TRUE]
          /\ UNCHANGED <<taken, exiting, remote>> /\ pc[h] = "ipi_send"
      BY <2>10 DEF IpiSend, RaiseMsip
    <3> QED
      BY <2>1, <3>1 DEF Told
  <2>11. CASE Trap(h) \/ IpiExit(h)
    <3>1. /\ ipi_type' = ipi_type /\ \A g \in Hart \ {h} : msip'[g] = msip[g]
          /\ UNCHANGED <<taken, exiting, remote>> /\ pc[h] \in {"super", "ipi_exit"}
          /\ pc'[h] = "take_bits"
      BY <2>11 DEF Trap, ClearMsip, IpiExit
    <3> QED
      BY <2>1, <3>1 DEF Told
  \* The halt bit is in hand now.
  <2>12. CASE TakeBits(h)
    <3>1. /\ \A g \in Hart \ {h} : ipi_type'[g] = ipi_type[g]
          /\ msip' = msip /\ taken'[h] = ipi_type[h]
          /\ UNCHANGED <<exiting, remote>> /\ pc[h] = "take_bits"
      BY <2>12 DEF TakeBits, TakeEventBits
    <3>2. taken[h] = {}
      BY <3>1 DEF InHand
    <3>3. CASE t = h
      <4>1. IPI_HALT \in ipi_type[h] \/ exiting[h]
        BY <3>1, <3>2, <3>3 DEF Told
      <4> QED
        BY <3>1, <3>3, <4>1 DEF Told
    <3>4. CASE t # h
      <4>1. \A g \in Hart : pc[g] = "ipi_send" => g # h
        BY <3>1
      <4> QED
        BY <2>1, <3>1, <3>4, <4>1 DEF Told
    <3> QED
      BY <3>3, <3>4
  <2>13. CASE ProcessHalt(h) \/ Exit(h)
    <3>1. /\ UNCHANGED <<ipi_type, msip, remote>>
          /\ pc[h] \in {"events", "exit"}
          /\ pc'[h] = "exit" \/ exiting'[h]
      BY <2>13 DEF ProcessHalt, Exit, UnmarkAvailable, ipiVars
    <3> QED
      BY <2>1, <3>1 DEF Told
  <2>14. CASE ProcessTlb(h)
    <3>1. /\ UNCHANGED ipiVars /\ UNCHANGED <<remote, exiting>>
          /\ pc[h] = "events" /\ (IPI_HALT \in taken[h] => IPI_HALT \in taken'[h])
      BY <2>14 DEF ProcessTlb, IPI_HALT, IPI_TLB
    <3> QED
      BY <2>1, <3>1 DEF Told, ipiVars
  <2> QED
    BY <1>1, <2>3, <2>4, <2>5, <2>6, <2>7, <2>8, <2>9, <2>10, <2>11, <2>12, <2>13, <2>14
    DEF Call, Machine, ComeUp, Boot
<1>2. CASE UNCHANGED vars
  BY <1>2 DEF vars, ipiVars, Told
<1> QED
  BY <1>1, <1>2 DEF Next

LEMMA InHandAlways == Spec => []InHand
<1>1. Init => InHand
  BY DEF Init, BootInit, InHand, At
<1> QED
  BY <1>1, InHandStep, TypeCorrect, PTL DEF Spec

\* From the moment a halt bit is set until its hart has left, it stays one that will be
\* looked at, whatever other harts send and wherever its own hart is.
THEOREM HaltsAreKept == Spec => HaltsStay
<1>1. TypeOK /\ NothingIsWiped /\ InHand /\ [Next]_vars => \A t \in Hart : Told(t) => Told(t)'
  BY ToldStep
<1> QED
  BY <1>1, TypeCorrect, InitWipesNothing, InHandAlways, PTL DEF Spec, HaltsStay

\* What HaltsArrive says of one sender.
Reaches(g) ==
  event[g] = IPI_HALT /\ pc[g] \in {"send_many", "set_bit", "ipi_send"} =>
    \A t \in hmask[g] \ targets[g] : Told(t) \/ (At(g, "set_bit") /\ remote[g] = t)

\* A shutdown that was not refused has told every hart it has visited.
THEOREM HaltsReach == Spec => []HaltsArrive
<1>1. Init => HaltsArrive
  BY DEF Init, BootInit, HaltsArrive
<1>2. TypeOK /\ NothingIsWiped /\ InHand /\ HaltsArrive /\ [Next]_vars => HaltsArrive'
  <2> SUFFICES ASSUME TypeOK, NothingIsWiped, InHand, HaltsArrive, [Next]_vars, NEW g \in Hart
               PROVE  Reaches(g)'
    BY DEF HaltsArrive, Reaches
  <2> USE DEF At, Goto, TypeOK
  <2>0. Reaches(g) /\ \A t \in Hart : Told(t) => Told(t)'
    BY ToldStep DEF HaltsArrive, Reaches
  \* A step that leaves the loop of g alone, or ends it, or is not in it.
  <2>1. ASSUME pc'[g] = pc[g], event'[g] = event[g], hmask'[g] = hmask[g],
               targets'[g] = targets[g], remote'[g] = remote[g]
        PROVE  Reaches(g)'
    BY <2>0, <2>1 DEF Reaches
  <2>2. ASSUME pc'[g] \notin {"send_many", "set_bit", "ipi_send"} \/ event'[g] # IPI_HALT
        PROVE  Reaches(g)'
    BY <2>2 DEF Reaches
  <2>3. ASSUME NEW h \in Hart \ {g}, Call(h) \/ Machine(h) \/ WakeUp(h)
        PROVE  Reaches(g)'
    BY <2>1, <2>3, OthersKeep
  <2>4. ASSUME ComeUp(g) \/ WarmTlbInit(g) \/ WakeUp(g)
        PROVE  Reaches(g)'
    <3>1. pc'[g] \notin {"send_many", "set_bit", "ipi_send"}
      BY <2>4 DEF ComeUp, WarmTlbInit, WakeUp, Boot, Start, Relocate, RelocateDone, BssZero, BootHartDone,
                  WaitRelocate, WaitBootHart, SbiInit, ColdInit, WakeColdbootHarts, WaitForColdboot,
                  Wfi, LookAtDone, ClearOwnIpi, WarmIpiInit, MarkAvailable
    <3> QED
      BY <2>2, <3>1
  <2>5. ASSUME RemoteFence(g)
        PROVE  Reaches(g)'
    <3>1. event'[g] = IPI_TLB
      BY <2>5 DEF RemoteFence, SendMany
    <3> QED
      BY <2>2, <3>1 DEF IPI_HALT, IPI_TLB
  <2>6. ASSUME \/ Shutdown(g) \/ SendManyReturn(g) \/ Trap(g) \/ TakeBits(g) \/ ProcessHalt(g)
               \/ ProcessTlb(g) \/ TlbProcessed(g) \/ ProcessReturn(g) \/ Exit(g) \/ IpiExit(g)
        PROVE  Reaches(g)'
    <3>1. pc'[g] \notin {"send_many", "set_bit", "ipi_send"}
      BY <2>6 DEF Shutdown, SendManyReturn, Trap, TakeBits, ProcessHalt, ProcessTlb, TlbProcessed,
                  ProcessReturn, Exit, IpiExit, ReturnTo
    <3> QED
      BY <2>2, <3>1
  \* The mask that was accepted is all still to be visited.
  <2>7. ASSUME HaltAll(g)
        PROVE  Reaches(g)'
    <3>1. \/ pc'[g] = "exit"
          \/ hmask'[g] = hmask[g] /\ targets'[g] = hmask[g]
      BY <2>7 DEF HaltAll, SendMany, ReturnTo
    <3> QED
      BY <3>1 DEF Reaches
  <2>8. ASSUME NextTarget(g)
        PROVE  Reaches(g)'
    <3>1. PICK n \in targets[g] :
            /\ targets' = [targets EXCEPT ![g] = @ \ {n}]
            /\ remote' = [remote EXCEPT ![g] = n]
            /\ event[g] = IPI_HALT => pc' = [pc EXCEPT ![g] = "set_bit"]
      BY <2>8 DEF NextTarget
    <3>2. pc[g] = "send_many" /\ event' = event /\ hmask' = hmask
      BY <2>8 DEF NextTarget
    <3>3. /\ targets'[g] = targets[g] \ {n} /\ remote'[g] = n
          /\ event[g] = IPI_HALT => pc'[g] = "set_bit"
      BY <3>1
    <3>4. event[g] = IPI_HALT => \A t \in hmask[g] \ targets[g] : Told(t)
      BY <2>0, <3>2 DEF Reaches
    <3>5. \A t \in hmask[g] \ targets[g] : t \in Hart
      OBVIOUS
    <3> QED
      BY <2>0, <3>2, <3>3, <3>4, <3>5 DEF Reaches
  \* The bit is set, and the line is about to come up.
  <2>9. ASSUME SetBit(g)
        PROVE  Reaches(g)'
    <3>1. /\ pc[g] = "set_bit" /\ pc'[g] = "ipi_send"
          /\ UNCHANGED <<event, hmask, targets, remote>>
          /\ ipi_type' = [ipi_type EXCEPT ![remote[g]] = @ \cup {event[g]}]
      BY <2>9 DEF SetBit, SetEventBit, lifeVars, sendVars
    <3>2. event[g] = IPI_HALT => IPI_HALT \in ipi_type'[remote[g]]
      BY <3>1 DEF IpiTypeOK
    <3>3. event[g] = IPI_HALT => Told(remote[g])'
      BY <3>1, <3>2 DEF Told
    <3>4. \A t \in hmask[g] \ targets[g] : t \in Hart
      OBVIOUS
    <3> QED
      BY <2>0, <3>1, <3>3, <3>4 DEF Reaches
  <2>10. ASSUME IpiSend(g)
         PROVE  Reaches(g)'
    <3>1. /\ pc[g] = "ipi_send" /\ UNCHANGED <<event, hmask, targets>>
      BY <2>10 DEF IpiSend, lifeVars, sendVars
    <3>2. \A t \in hmask[g] \ targets[g] : t \in Hart
      OBVIOUS
    <3> QED
      BY <2>0, <3>1, <3>2 DEF Reaches
  <2>11. ASSUME Sync(g) \/ Acknowledge(g)
         PROVE  Reaches(g)'
    <3>1. CASE Sync(g)
      <4>1. event'[g] = IPI_TLB
        BY <3>1 DEF Sync, InHand, sendVars
      <4> QED
        BY <2>2, <4>1 DEF IPI_HALT, IPI_TLB
    <3>2. CASE Acknowledge(g)
      BY <2>1, <3>2 DEF Acknowledge, sendVars
    <3> QED
      BY <2>11, <3>1, <3>2
  <2>12. CASE UNCHANGED vars
    BY <2>1, <2>12 DEF vars, lifeVars, sendVars
  <2> QED
    BY <2>3, <2>4, <2>5, <2>6, <2>7, <2>8, <2>9, <2>10, <2>11, <2>12 DEF Next, Call, Machine
<1> QED
  BY <1>1, <1>2, TypeCorrect, InitWipesNothing, InHandAlways, PTL DEF Spec
=============================================================================
