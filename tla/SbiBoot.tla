------------------------------- MODULE SbiBoot -------------------------------
(***************************************************************************)
(* How the harts of OpenSBI come up: firmware/fw_base.S, where one hart    *)
(* moves the firmware and prepares its memory, then sbi_init, where one    *)
(* hart makes the cold boot and the others sleep until it wakes them.      *)
(* A critical section of coldboot_lock is one action.  Memory nobody has   *)
(* written holds an arbitrary value: the image before it is copied and the *)
(* C statics (.bss) before they are zeroed.                                *)
(***************************************************************************)
EXTENDS SbiIpi, FiniteSets

CONSTANT
  Loads   \* how the firmware may have been loaded: [moved, preferred]

ASSUME LoadAssumption ==
  Loads \subseteq [moved : BOOLEAN, preferred : {{}} \cup {{h} : h \in Hart}]

VARIABLES
  pc,                    \* where each hart is
  moved,                 \* the image was loaded elsewhere than it is linked
  preferred,             \* fw_boot_hart: the hart asked for, {} for -1
  relocate_lottery,      \* _relocate_lottery # 0, in the image as loaded
  boot_status,           \* _boot_status in the image as loaded and at the link address
  copied,                \* the image is at its link address
  bss_zeroed,            \* _bss_zero has run
  coldboot_lottery,      \* .bss of sbi_init.c
  coldboot_done,         \* .bss of sbi_hart.c
  coldboot_wait_bitmap,  \* .bss of sbi_hart.c
  avail_hart_mask,       \* .bss of sbi_hart.c
  offsets,               \* init_count_offset, ipi_data_off, ... are allocated
  coldboot               \* the local of sbi_init, per hart

imageVars == <<moved, preferred, relocate_lottery, boot_status, copied>>
coldVars  == <<bss_zeroed, coldboot_lottery, coldboot_done, coldboot_wait_bitmap, offsets>>
bootVars  == <<imageVars, coldVars, avail_hart_mask, coldboot>>

RELOCATE_DONE  == 1   \* BOOT_STATUS_RELOCATE_DONE
BOOT_HART_DONE == 2   \* BOOT_STATUS_BOOT_HART_DONE

\* The copy of _boot_status that is addressed relative to the load address.
AtLoad == IF moved THEN "load" ELSE "link"

Goto(h, l) == pc' = [pc EXCEPT ![h] = l]

At(h, l) == pc[h] = l

BootInit ==
  /\ pc = [h \in Hart |-> "start"]
  /\ \E load \in Loads : moved = load.moved /\ preferred = load.preferred
  /\ relocate_lottery = FALSE
  /\ \E junk \in 0 .. BOOT_HART_DONE :
       boot_status = [load |-> 0, link |-> IF moved THEN junk ELSE 0]
  /\ copied = ~moved
  /\ bss_zeroed = FALSE
  /\ coldboot_lottery \in {0, 1}
  /\ coldboot_done \in {0, 1}
  /\ coldboot_wait_bitmap \in {{}, Hart}
  /\ avail_hart_mask \in {{}, Hart}
  /\ offsets \in BOOLEAN
  /\ coldboot = [h \in Hart |-> FALSE]

-----------------------------------------------------------------------------
(* firmware/fw_base.S *)

\* _start, _try_lottery: the preferred hart, or whoever comes first.
Start(h) ==
  /\ At(h, "start")
  /\ IF preferred \in {{}, {h}} /\ ~relocate_lottery
       THEN /\ relocate_lottery' = TRUE
            /\ Goto(h, "relocate")
       ELSE /\ Goto(h, IF moved THEN "wait_copy" ELSE "wait_boot")
            /\ UNCHANGED relocate_lottery
  /\ UNCHANGED <<ipiVars, moved, preferred, boot_status, copied, coldVars,
                 avail_hart_mask, coldboot>>

\* _relocate: the copy takes _boot_status along; "beq t0, t2" skips it.
Relocate(h) ==
  /\ At(h, "relocate")
  /\ copied' = TRUE
  /\ boot_status' = IF moved THEN [boot_status EXCEPT !.link = boot_status.load]
                             ELSE boot_status
  /\ Goto(h, "relocate_done")
  /\ UNCHANGED <<ipiVars, moved, preferred, relocate_lottery, coldVars,
                 avail_hart_mask, coldboot>>

RelocateDone(h) ==
  /\ At(h, "relocate_done")
  /\ boot_status' = [boot_status EXCEPT ![AtLoad] = RELOCATE_DONE]
  /\ Goto(h, "bss_zero")
  /\ UNCHANGED <<ipiVars, moved, preferred, relocate_lottery, copied, coldVars,
                 avail_hart_mask, coldboot>>

\* _scratch_init and _bss_zero.
BssZero(h) ==
  /\ At(h, "bss_zero")
  /\ bss_zeroed' = TRUE
  /\ coldboot_lottery' = 0
  /\ coldboot_done' = 0
  /\ coldboot_wait_bitmap' = {}
  /\ avail_hart_mask' = {}
  /\ offsets' = FALSE
  /\ Goto(h, "fdt_reloc")
  /\ UNCHANGED <<ipiVars, imageVars, coldboot>>

\* The device tree is moved, then "mark boot hart done".
BootHartDone(h) ==
  /\ At(h, "fdt_reloc")
  /\ boot_status' = [boot_status EXCEPT !.link = BOOT_HART_DONE]
  /\ Goto(h, "sbi_init")
  /\ UNCHANGED <<ipiVars, moved, preferred, relocate_lottery, copied, coldVars,
                 avail_hart_mask, coldboot>>

\* _wait_relocate_copy_done: "bgt t4, t5, 1b" leaves from status 1 upward.
WaitRelocate(h) ==
  /\ At(h, "wait_copy") /\ boot_status.load >= RELOCATE_DONE
  /\ Goto(h, "wait_boot")
  /\ UNCHANGED <<ipiVars, bootVars>>

\* Mutant: any status but 0 lets the waiting harts go.
WaitBootHartAny(h) ==
  /\ At(h, "wait_boot") /\ boot_status.link # 0
  /\ Goto(h, "sbi_init")
  /\ UNCHANGED <<ipiVars, bootVars>>

\* _wait_for_boot_hart, in the image at its link address.
WaitBootHart(h) ==
  /\ At(h, "wait_boot") /\ boot_status.link = BOOT_HART_DONE
  /\ Goto(h, "sbi_init")
  /\ UNCHANGED <<ipiVars, bootVars>>

-----------------------------------------------------------------------------
(* sbi_init *)

\* atomic_add_return(&coldboot_lottery, 1) == 1
SbiInit(h) ==
  /\ At(h, "sbi_init")
  /\ coldboot_lottery' = coldboot_lottery + 1
  /\ coldboot' = [coldboot EXCEPT ![h] = (coldboot_lottery = 0)]
  /\ Goto(h, IF coldboot_lottery = 0 THEN "cold_init" ELSE "wait_cold")
  /\ UNCHANGED <<ipiVars, imageVars, bss_zeroed, coldboot_done, coldboot_wait_bitmap,
                 avail_hart_mask, offsets>>

\* init_coldboot up to sbi_boot_prints: the offsets, the event table, this
\* hart's own data; clint_warm_ipi_init clears its line.
ColdInit(h) ==
  /\ At(h, "cold_init")
  /\ offsets' = TRUE
  /\ ipi_type' = [ipi_type EXCEPT ![h] = {}]
  /\ msip' = [msip EXCEPT ![h] = FALSE]
  /\ Goto(h, "wake")
  /\ UNCHANGED <<imageVars, bss_zeroed, coldboot_lottery, coldboot_done,
                 coldboot_wait_bitmap, avail_hart_mask, coldboot>>

\* Mutant: forgets the harts that sleep already.
WakeNobody(h) ==
  /\ At(h, "wake")
  /\ coldboot_done' = 1
  /\ Goto(h, "mark")
  /\ UNCHANGED <<ipiVars, imageVars, bss_zeroed, coldboot_lottery,
                 coldboot_wait_bitmap, avail_hart_mask, offsets, coldboot>>

\* sbi_hart_wake_coldboot_harts
WakeColdbootHarts(h) ==
  /\ At(h, "wake")
  /\ coldboot_done' = 1
  /\ msip' = [i \in Hart |-> msip[i] \/ (i # h /\ i \in coldboot_wait_bitmap)]
  /\ Goto(h, "mark")
  /\ UNCHANGED <<ipi_type, imageVars, bss_zeroed, coldboot_lottery,
                 coldboot_wait_bitmap, avail_hart_mask, offsets, coldboot>>

\* A hart with coldboot_lock looks at the flag: it leaves, or goes (back) to sleep.
LookAtDone(h) ==
  /\ coldboot_wait_bitmap' =
       IF coldboot_done = 1 THEN coldboot_wait_bitmap \ {h} ELSE coldboot_wait_bitmap \cup {h}
  /\ Goto(h, IF coldboot_done = 1 THEN "woken" ELSE "wfi")
  /\ UNCHANGED <<ipiVars, imageVars, bss_zeroed, coldboot_lottery, coldboot_done,
                 avail_hart_mask, offsets, coldboot>>

\* sbi_hart_wait_for_coldboot up to the first wfi
WaitForColdboot(h) == At(h, "wait_cold") /\ LookAtDone(h)

\* Mutant: wfi is taken for a wake-up.
WfiOnce(h) ==
  /\ At(h, "wfi")
  /\ coldboot_wait_bitmap' = coldboot_wait_bitmap \ {h}
  /\ Goto(h, "woken")
  /\ UNCHANGED <<ipiVars, imageVars, bss_zeroed, coldboot_lottery, coldboot_done,
                 avail_hart_mask, offsets, coldboot>>

\* wfi is a hint: it returns when the line is up, and may return at any time.
Wfi(h) == At(h, "wfi") /\ LookAtDone(h)

\* Mutant: the wake-up interrupt stays up.
KeepIpi(h) ==
  /\ At(h, "woken")
  /\ Goto(h, IF offsets THEN "ipi_init" ELSE "hung")
  /\ UNCHANGED <<ipiVars, bootVars>>

\* The end of sbi_hart_wait_for_coldboot, and "if (!init_count_offset)" of its caller.
ClearOwnIpi(h) ==
  /\ At(h, "woken")
  /\ msip' = [msip EXCEPT ![h] = FALSE]
  /\ Goto(h, IF offsets THEN "ipi_init" ELSE "hung")
  /\ UNCHANGED <<ipi_type, bootVars>>

\* sbi_ipi_init(scratch, FALSE): the event word and the line, MSIE is set.
WarmIpiInit(h) ==
  /\ At(h, "ipi_init")
  /\ ipi_type' = [ipi_type EXCEPT ![h] = {}]
  /\ msip' = [msip EXCEPT ![h] = FALSE]
  /\ Goto(h, "tlb_init")
  /\ UNCHANGED bootVars

\* sbi_hart_mark_available; sbi_hart_switch_mode enters the supervisor.
MarkAvailable(h) ==
  /\ At(h, "mark")
  /\ avail_hart_mask' = avail_hart_mask \cup {h}
  /\ Goto(h, "super")
  /\ UNCHANGED <<ipiVars, imageVars, coldVars, coldboot>>

\* sbi_hart_unmark_available, when a hart leaves for good.
UnmarkAvailable(h) ==
  /\ avail_hart_mask' = avail_hart_mask \ {h}
  /\ UNCHANGED <<ipiVars, imageVars, coldVars, coldboot>>

\* A hart that comes up; WarmTlbInit of the composing module lies before "mark".
Boot(h) ==
  \/ Start(h) \/ Relocate(h) \/ RelocateDone(h) \/ BssZero(h) \/ BootHartDone(h)
  \/ WaitRelocate(h) \/ WaitBootHart(h)
  \/ SbiInit(h) \/ ColdInit(h) \/ WakeColdbootHarts(h)
  \/ WaitForColdboot(h) \/ ClearOwnIpi(h) \/ WarmIpiInit(h) \/ MarkAvailable(h)

BootLabel == {"start", "relocate", "relocate_done", "bss_zero", "fdt_reloc",
              "wait_copy", "wait_boot", "sbi_init", "cold_init", "wake", "mark",
              "wait_cold", "wfi", "woken", "ipi_init", "tlb_init"}

BootTypeOK ==
  /\ moved \in BOOLEAN
  /\ preferred \in SUBSET Hart
  /\ relocate_lottery \in BOOLEAN
  /\ boot_status \in [{"load", "link"} -> 0 .. BOOT_HART_DONE]
  /\ copied \in BOOLEAN /\ bss_zeroed \in BOOLEAN /\ offsets \in BOOLEAN
  /\ coldboot_lottery \in Nat
  /\ coldboot_done \in {0, 1}
  /\ coldboot_wait_bitmap \in SUBSET Hart
  /\ avail_hart_mask \in SUBSET Hart
  /\ coldboot \in [Hart -> BOOLEAN]
=============================================================================
