# Verification of the D1 / C906 bare-metal code base

This directory holds TLA+ models of the concurrent and reactive parts of the
repository, TLC configurations that check them on small instances, and TLAPS proofs
for all instances. `src/` below is the repository's root.

## 1. The system

The repository holds three programs for the Allwinner D1 (one XuanTie C906 core):

| layer | where | what it is |
|---|---|---|
| OpenSBI | `src/opensbi` | the machine-mode monitor: serves ecalls and traps of a supervisor, on one or many harts |
| SDK and tutorials | `src/src` | a bare-metal program: start-up, one trap handler, drivers, and tutorials that are one `main` each |
| boot0 (SPL) | `src/spl` | the first-stage loader: DRAM set-up, then a package from MMC, NAND, NOR or USB |

They run one after the other and share no state. Inside OpenSBI the harts share
scratch areas; inside the SDK the program and its trap handler share registers.

### 1.1 OpenSBI

| component | state | operations | meets others through |
|---|---|---|---|
| remote TLB shootdown, `lib/sbi/sbi_tlb.c` | per hart: a fifo of 8 requests, a `tlb_sync` flag | `sbi_tlb_request`, `sbi_tlb_update`, `sbi_tlb_sync`, `sbi_tlb_process` | event callbacks of `sbi_ipi.c`, fifos of other harts, their flags |
| IPI, `lib/sbi/sbi_ipi.c` | per hart: `ipi_type` word; the table of event operations | `sbi_ipi_send_many`, `sbi_ipi_process`, `sbi_ipi_event_create` | CLINT msip line, trap of the target |
| fifo, `lib/sbi/sbi_fifo.c` | memory, `avail`, `tail`, lock | enqueue, dequeue, inplace_update, reset, avail | callers on any hart |
| spin lock, `lib/sbi/riscv_locks.c` | one word | lock, trylock, unlock | everything shared |
| boot and availability, `sbi_init.c`, `sbi_hart.c`, `firmware/fw_base.S` | lotteries, wait bitmap, wake-up flag, availability masks | cold boot, warm boot, wait, wake | msip; `sbi_ipi_send_many` reads the mask |
| halt, reboot, shutdown, `sbi_system.c`, `sbi_init.c` | availability mask | `sbi_exit`, `sbi_system_reboot`, `..._shutdown` | halt IPI |
| timer, `sbi_timer.c`, `lib/utils/sys/clint.c` | time delta, compare register, STIP, MTIE | event start, process | timer interrupt |
| scratch allocator, `sbi_scratch.c` | bump offset, lock | alloc, free | every component's init |
| ecall registry, `sbi_ecall*.c` | list of extensions | register, unregister, dispatch | all services |
| traps and emulation | none of its own | redirect, misaligned, CSR | supervisor CSRs |
| D1 platform, `platform/thead/c910` | saved register arrays | suspend, resume | power controller |

Hard here: every hart runs at once and waits in machine mode with interrupts off, so
a target that waits cannot take an interrupt and must serve its own fifo while it
waits; requests are rewritten in other harts' fifos; acknowledgements are a flag with
no name on it; bits and lines are set and cleared in two steps on both sides.

What makes it right: a fence that returned was obeyed by every target; everybody's
request is acknowledged once; no IPI is lost between bit and line; nobody waits for
ever; a fifo is a queue.

### 1.2 SDK

| component | state | operations |
|---|---|---|
| trap entry, `boot/trap.S`, `boot/interrupt.c` | stack frames, mepc, mstatus.MIE | save, dispatch, restore, mret |
| CLINT, `drivers/clint.c` | msip, mtimecmp, mie | init, start, clear, set |
| PLIC, `drivers/plint.c` | enable bits, claim/complete register | enable, the claim loop |
| devices, `drivers/uart.c`, `gpio.c`, `apps/main.c` | levels of their interrupt lines | getc, status read and clear |
| start-up and clocks, `boot/start.S`, `drivers/clk.c` | registers | sequences of writes |

Hard here: interrupts are switched on again inside the handler; claims are completed
before the device is served; level-triggered lines latch again.

What makes it right: each interrupted context is given back, the program finds the
interrupt system as it left it, and every device event is served.

### 1.3 boot0

One processor runs `main` of `nboot/main/boot0_main.c`; nothing is concurrent.

| component | state | operations |
|---|---|---|
| `main` | the bases of the images | checks, DRAM, heap, `load_package`, `load_image`, the jump |
| package search, `nboot/load_image_*` | the buffer at `CONFIG_BOOTPKG_BASE`, the place searched | one search per medium: MMC, raw NAND, SPI NAND, SPI NOR |
| items, `nboot/main/load_image.c` | the table of the package | copy an item, unpack a compressed one |
| decoders, gunzip, LZMA, LZ4 of `common/` | their allocations | allocate, decode, free |
| heap, `common/malloc.c` | a chain of blocks in address order | `malloc_init`, `malloc`, `free` |
| media drivers, DRAM training, FES | registers | not protocols of this program, see section 5 |

Hard here: which copy is used when blocks are bad, do not read or hold half of an
update; memory that still holds the last package; results nobody looks at; a heap
that reaches over the package it unpacks.

What makes it right: only a package that is whole is started, an intact copy is
found, the search ends, the image that is entered is complete, and the heap touches
nothing but itself.

`PROJECT.json` lists every component with its status and every hazard at its line.

## 2. Modules

    SbiTlbRange ----+
                    +--> SbiTlb --> MCSbiTlb            (three passing runs, two findings)
    SbiIpi ---------+       +-----> SbiTlbProofs --> SbiTlbAckProofs
      |                        +---------> SbiTlbFenceProofs
      +--> SbiBoot --> SbiLife --> MCSbiLife            (one passing run, one finding)
                          +------> SbiLifeProofs
    SbiFifoAbs <-- refined by -- SbiFifo --> MCSbiFifo
                                    +------> SbiFifoProofs
    SbiTimer --> MCSbiTimer
       +-------> SbiTimerProofs
    D1Irq --> MCD1Irq                                   (one passing run, one finding)
      +-----> D1IrqProofs
    Boot0Heap --> Boot0 --> MCBoot0
                    +-----> Boot0Proofs

The definitions marked `Mutant:` in a comment are wrong on purpose: `PROJECT.json`
says which property each of them breaks when it takes the place of the real one.

**SbiTlbRange** translates the pure part of `sbi_tlb.c`: the four kinds of fences, the
translations each removes (`Flushed`), the upgrade of a large range to "everything"
and the merge decisions of `sbi_tlb_update_cb`. Addresses are `0 .. AddrSpace - 1`
with wrap-around addition (`Plus`), as `unsigned long`. `FLUSH_ALL` is the all-ones
size. A translation is a page, tagged with an address space, or an instruction-cache
line set as a whole.

**SbiIpi** holds the per-hart event word and msip line, with one operator for each
atomic access of sender and receiver.

**SbiTlb** composes both: each hart has a program counter over the places of
`sbi_ipi_send_many`, `sbi_ipi_send`, `sbi_tlb_update`, `sbi_tlb_sync`,
`sbi_tlb_process_count` and `sbi_ipi_process`. One action is one access to shared
memory, or one critical section of a fifo. `calls` bounds the ecalls; `stale` is a
history variable: which translations a target owes a caller.

| code | in the model |
|---|---|
| `ipi_data->ipi_type`, CLINT msip | `ipi_type`, `msip` |
| `tlb_fifo`, `tlb_sync` of each scratch | `fifo`, `tlb_sync` |
| the locals `event`, `m`, `remote_hartid`, `tinfo` | `event`, `targets`, `remote`, `tinfo` |
| `deq_count`, the bits left in `shart_mask` | `deq_count`, `acks` |
| `while (sbi_fifo_enqueue(...) < 0) sbi_tlb_process_count(scratch, 1)` | `Enqueue`, and `Dequeue` with `caller = "enqueue"` |
| `sbi_tlb_sync` loop | `Sync`, and `Dequeue` with `caller = "sync"` |
| software-interrupt trap | `Trap`, `TakeBits`, `ProcessSmode`, `ProcessTlb`, `TrapReturn` |

**SbiFifo** translates `sbi_fifo.c` access by access under the lock of
`riscv_locks.c`; **SbiFifoAbs** is what its callers rely on, a bounded queue whose
operations take effect at one instant. `SbiFifo` implements it under the refinement
mapping `Contents`, `Answered`. This is what allows `SbiTlb` to treat fifo operations
as atomic. In `SbiTlb` the fifo is used with the callback of `sbi_tlb_update_cb`; in
`SbiFifo` the callback is a parameter.

**SbiBoot** has the harts from `_start` to the supervisor. `BootInit` is memory after a
reset: C statics hold junk, and if the image was loaded elsewhere than it is linked
(`moved`), so does its place. The status word `_boot_status` exists twice then, and the
assembly reads one copy relative to its pc and the other by its link address.

| code | in the model |
|---|---|
| `_try_lottery`, `_relocate`, `_bss_zero` of `fw_base.S` | `Start`, `Relocate`, `RelocateDone`, `BssZero`, `BootHartDone` |
| `_wait_relocate_copy_done`, `_wait_for_boot_hart` | `WaitRelocate`, `WaitBootHart` |
| `coldboot_lottery` in `sbi_init`, `init_coldboot` | `SbiInit`, `ColdInit`, `WakeColdbootHarts` |
| `sbi_hart_wait_for_coldboot` | `WaitForColdboot`, `Wfi`, `ClearOwnIpi` |
| `init_warmboot` | `WarmIpiInit`, `WarmTlbInit` (in SbiLife), `MarkAvailable` |

A critical section of `coldboot_lock` is one action; `wfi` may return at any time, as
the architecture allows.

**SbiLife** adds what harts do once they are up and how they leave: fences whose mask
is "all available", reboot and shutdown with both readings of the mask, the halt
event, `sbi_exit` with the events that `sbi_ipi_exit` drains. A fence is only the set
of those who wait (`requests`): SbiTlb has the rest of it, and the S-mode event.
`Stopped` counts a hart as stopped when it hangs, or waits in `sbi_tlb_sync` for a hart
that hangs: a halted target takes the requests in its fifo with it.

**SbiTimer** has the clock, the two halves of each compare register, MTIE, STIP and the
places of `sbi_timer_event_start`, `sbi_timer_process`, `sbi_timer_exit` and
`clint_time_rd32`/`wr32`; one action is one access to a register. `since`,
`next_event` and `asked` are history variables. `HasEventStop` says whether the
platform has the optional hook `timer_event_stop` (the D1 has not).

**Boot0Heap** is `malloc.c`: the chain between its sentinels, first fit, sizes that
wrap at 2^32. **Boot0** is `main` from the board checks to the jump. A medium is a
sequence of blocks; `whole` says which places in a block hold what was written there.
A part of a package that is not as written is `Nil` in the buffer, and the sum is
taken to notice it.

| code | in the model |
|---|---|
| the buffer at `CONFIG_BOOTPKG_BASE`: head with length and table, then the rest | `buffer.head`, `buffer.body` |
| `load_toc1_from_sdmmc` and its two start sectors | `SdmmcHead`, `SdmmcRest`, `Starts` |
| `load_toc1_from_rawnand`, `load_and_check_in_one_blk`, `load_in_many_blks` | `RawHead`, `RawSlot`, `RawPart` |
| `load_toc1_from_spinand`, `Spinand_Load_Boot1_Copy` | `SpiHead`, `SpiPart` |
| `load_toc1_from_spinor` | `NorHead`, `NorRest` |
| `load_image` | `CopyItem`, `GzInit`, `LzmaInit`, `Lz4`, `Unpacked`, `ItemsDone` |
| `gunzip`/`inflate`, `LzmaDecode`, what they free | `Inflate`, `LzmaDecode`, `Release` |
| the chain of `if`s after `load_image` | `Order`, `Target`, `Jump` |

**D1Irq** has one hart, its mstatus/mie/mepc, the frames on the stack, the CLINT
lines, a PLIC with level gateways and three devices, whose events come at any time,
also while a handler runs. `from` and `nested` are history variables: where each open
trap interrupted the program, and whether an interrupt was ever taken in the tail of a
handler, that is between `all_interrupt_enable` and `mret`.

## 3. Runs

| run | instance | asks |
|---|---|---|
| `tlb_merge` | 3 harts, two of which call twice against the third; 6 ranges; 3-entry fifo | does merging keep acknowledgements and translations? |
| `tlb_ring` | 3 harts, each calls once, 1-entry fifos | do harts that shoot at each other all return? |
| `tlb_pair` | 2 harts, two calls each, every mask, fences and supervisor IPIs | is an event ever silent or lost, and has the caller flushed too when it is in the mask? |
| `fifo_ring` | 2 harts, 3 slots, 3 entries | is the ring a queue? |
| `d1_irq` | 3 devices, UART of 3 bytes, timer, software interrupt, events at any time | does main only run whole, when do contexts come back, are events served? |
| `life` | 3 harts, two of which call once each; moved image with first come first served, image in place with hart 1 asked for | does every hart come up, once and in order, and does a shutdown stop them all? |
| `timer` | 2 harts, registers of 2 digits to the base 3, clock up to 5; 2 calls and 1 call | is a deadline ever early or forgotten, a reading torn? |
| `boot0` | 6 packages, media of 4 blocks of every kind, 3 states of memory, 3 heap sizes | what starts, and what does unpacking it touch? |
| `tlb_zero_range` | a flush-all asked for as (0, 0) and the first page | expected violation |
| `tlb_serve_two` | 3 harts, every mask | expected violation |
| `d1_nested` | UART only: does every `mret` return to where its trap came from? | expected violation |
| `life_late` | as `life`, shutdowns overlap | expected violation |

### Bounds, and why they are enough

- *Three harts* are the smallest number with two requesters that merge in one fifo,
  and with a cycle of waiters that is not a pair. *Two calls* let an acknowledgement
  of one call be mistaken for the next one's.
- *Fifo size*: 1 entry makes the full-fifo path common, 3 leaves room to merge into an
  entry behind another. `FifoBound` (proved) shows that with up to 9 harts the real
  fifo of 8 is never full: the retry loop is exercised only with the small one.
- *Addresses*: four pages of four bytes, limit of one page. The ranges of
  `MCSbiTlb` contain, overlap, miss, exceed the limit and differ in tag and kind.
- `MaxCalls` bounds the ecalls. It is also what makes `CallsReturn` true: neither the
  spin lock nor the enqueue retry is fair, and a hart could be overtaken for ever by
  others that call again and again.
- *Fifo ring*: 3 slots, so that a wrap happens with entries on both sides of it.
- *D1*: a UART of 3 bytes makes the early completion latch again while bytes remain.
  `MaxNest` (2) bounds the contexts on the stack and the open traps; two are what it
  takes to lose a context, and the proofs hold for any bound.
- *Life*: three harts give a winner of each lottery that need not be the same hart,
  a sleeper and a late one; a shutdown, a second one or a fence against it, and a
  bystander. Masks of fences are one hart or all available ones. The same instance with
  two calls of one hart (three in all) passes too and takes four times as long.
- *Timer*: with halves of three values the clock carries from the low half into the
  high one at 3 (`MaxTime` is 5), compare registers start at every combination of
  extreme halves, deadlines are 1 (soon past), 4 (beyond the carry) and `Never`. Two
  harts share the clock and nothing else.
- *Boot0*: package 1 fits a block twice (slots), 2 and 3 take two blocks, 4 and 5 have
  compressed items, 6 has OP-TEE. Four blocks hold two copies of the longest package
  or one with bad blocks around it. `NextBlock` (`uboot_next_block`) is 4, so the last
  block searched differs between raw and SPI NAND. Addresses are the D1's;
  `Word` is 2^30 in place of 2^32, which TLC's integers hold, and
  no size comes near either. Besides the 16 MB heap there are one in which the state of
  inflate just fits, and one a byte smaller. LZMA asks for its table with the default
  properties or the largest ones (6295148 bytes). Cards and flash are tried with
  memory empty, with a whole older package and with half of one. Every medium is also
  tried with heads of length 0 before, between and behind copies.

Harts are numbers (the scan visits them in order), so no symmetry is declared.
Deadlock is checked in `fifo_ring` and `d1_irq`; the shootdown runs stop when all
calls are used up, `life` when harts hang or wait for one that does, `timer` when the
clock stops, `boot0` at the jump or in FEL, and `d1_nested` when the hart runs wild.

### Fairness

- `WF(Machine(h))` in `SbiTlb`: a hart in machine mode, or with an interrupt pending
  while it runs supervisor code, goes on. Interrupts are off in machine mode and
  nothing there sleeps. Making a new call is not fair.
- `WF(Operation(p))` in `SbiFifo`: a hart that called goes on. No fairness between
  contenders for the lock: `LockReleased` says the lock is released, not that a given
  hart gets it, which this test-and-set lock does not promise.
- `WF(Machine(h))` in `SbiLife`, as in `SbiTlb`, and `WF(msip[h] /\ WakeUp(h))`: a hart
  in `wfi` goes on when its interrupt is pending; without one it may sleep for ever.
- `WF(Tick)` and `WF(Machine(h))` in `SbiTimer`: the clock runs, up to `MaxTime`, and a
  hart executes and takes its timer interrupt when it is enabled.
- `WF(Next)` in `Boot0`: one processor runs one program.
- `WF(Hart)` in `D1Irq`: the hart executes. Devices and the program's calls are not fair.

### What the runs show

- **Acknowledgements** (`OneAckEach`): a waiting hart's acknowledgement is at exactly
  one place: queued at its target, owed by it, or in its own flag; and nobody else has
  one. Hence the exchange in `sbi_tlb_entry_process` never spins on a flag
  that is still set, and no flag is left over.
- **Obedience** (`ShootdownComplete`): when the call returns, every target has dropped
  every translation, through merges, upgrades and early serving (`tlb_merge`), and so has
  the caller itself when its mask names it (`tlb_pair`).
- **No wake-up is lost** (`NoSilentEvent`, `NoLostWakeup`), although both sides work
  in two steps; and a hart that served only part of its fifo is called again.
- **No deadlock** (`CallsReturn`). The comment at `sbi_tlb.c:355-358` fears busy
  looping and deadlocks on a full fifo; serving the own fifo while waiting is enough.
- **Ranges** (`MergeKeepsRanges`) with requests whose size is not 0.
- **Every hart comes up** (`EveryoneBoots`), although waiting harts read two copies of
  one status word, one of which is junk until the image is there, and although a
  hart can get to wait before or after the wake-up: the flag, the bitmap and the
  line are handled under one lock. One hart makes the cold boot (`OneColdBoot`), nobody
  overtakes it (`WarmAfterCold`), and the unconditional clearing of line, event word,
  fifo and flag of a warm hart hits nothing (`NothingIsWiped`), because nobody names a
  hart before it is in the availability mask.
- **Shutdown** (`AllStop`): one that begins when all harts are up and no other has
  begun stops every hart, though fences are in flight, halted harts drop event bits and
  others begin a shutdown meanwhile. Overlapping ones do not: finding 4. A request that
  was not refused reaches everyone it names (`HaltsArrive`), and what has been sent is
  never lost (`HaltsStay`): finding 4 is the refusal, not the sending.
- **Timer**: the compare register passes through values nobody asked for, but the
  interrupt is taken in the supervisor only, when both halves are written
  (`NeverEarly`, `AwaitedOrSignalled`). The reading loop returns a time of the
  call (`ReadIsCurrent`): looking at the high half once more is enough.
- **Boot0**: what is started is whole (`PackageIntact`, `EnteredWhole`) and is what the
  medium holds, not what memory held (`BootsWhatIsStored`). On raw NAND the second
  holds only while every block reads: a failed read leaves the buffer as it is, and
  memory from before a reset can complete a package; its sum is right, its
  version may be older. The search finds an intact copy unless a read error (card) or
  a lack of blocks (raw NAND) ends it, and then `IntactCopyFound` says which places are
  given up. `main` ends (`Ends`) on every medium without a head of length 0. Such a head,
  with the right magic, passes the alignment test (`load_image_nand.c:62-67`); on the
  card there is none. `verify_addsum` then subtracts 4 from a word count of 0
  (`boot_utils.c:86`) and runs out of memory: the search of card, raw and SPI NAND goes
  `astray`, also when an intact copy lies behind. The NOR search goes on with the one
  sector it has. The heap reaches over the package buffer, but nothing the
  decoders ask for gets there (`PackageKept`).
- **The D1 handler**, with events at any time. Whenever main runs, it finds its stack, the
  claims and the masks as it left them (`MainIsWhole`), and the loop over the PLIC is
  never interrupted. One place can lose a context, the tail of the handler
  (`ContextUnlessNested`); after an interrupt there main never runs again
  (`NestingLosesMain`, finding 3). Nothing in the sources keeps interrupts away
  from the tail: the handlers print over a slow UART while bytes can arrive.
  Completing a claim before the device is served costs a spurious second claim, which the
  handlers tolerate because each tests or rereads its status (`TypeOK` fails without that
  test). Events are served (`EventServed`) with two exceptions, both real: sources of
  lower numbers that never fall silent keep the loop busy, and a hart that has run
  wild serves nothing.

### Findings

1. `tlb_zero_range`: a queued flush of everything in the form (0, 0) is replaced by a
   later range (0, one page): `__sbi_tlb_range_check` compares sums, and size 0 counts
   as nothing although `sbi_tlb_local_*` treat it as everything.
2. `tlb_serve_two`: `sbi_tlb_process_count(scratch, 1)` serves two entries, for the
   counter is incremented before it is compared with `>`; the note above
   `sbi_tlb_update_cb` says one.
3. `d1_nested`: `irq_handle_trap` sets MIE before the context is restored and `trap.S`
   saves neither mepc nor mstatus. An interrupt in the tail overwrites mepc, and the
   outer `mret` returns into its own tail. Main never runs again, whatever follows:
   theorem `NestingLosesMain`.
4. `life_late`: `sbi_system_reboot` and `sbi_system_shutdown` read the availability
   mask (`sbi_system.c:42`, `:57`) and `sbi_ipi_send_many` reads it again
   (`sbi_ipi.c:77`). If a hart has exited in between, `sbi_ipi.c:91` refuses the
   whole request; the result is ignored, the caller exits, and a third hart runs on.

## 4. Proofs

| theorem | module | says, for all constants |
|---|---|---|
| `TypeCorrect` | SbiTlbProofs | `Spec => []TypeOK` |
| `AcksCorrect` | SbiTlbAckProofs | `Spec => []OneAckEach` |
| `NoEventIsSilent`, `NoWakeupIsLost` | SbiTlbAckProofs | the two wake-up invariants |
| `FifoBound` | SbiTlbAckProofs | a fifo holds at most one entry per other hart (finitely many harts) |
| `FencesComplete` | SbiTlbFenceProofs | `Spec => []ShootdownComplete`, if `RequestsFit` |
| `MergingKeepsRanges` | SbiTlbFenceProofs | `Spec => MergeKeepsRanges`, if `RequestsFit` |
| `TypeCorrect`, `LockExcludes` | SbiFifoProofs | types, `MutualExclusion` |
| `EntriesAreWritten` | SbiFifoProofs | `Spec => []LiveSlotsWritten` |
| `RingIsAQueue` | SbiFifoProofs | `Spec => ImplementsQueue`: the ring refines `SbiFifoAbs` |
| `TypeCorrect`, `ColdBootIsOne`, `WarmComesAfterCold`, `InitWipesNothing` | SbiLifeProofs | types, `OneColdBoot`, `WarmAfterCold`, `NothingIsWiped` |
| `HaltsReach`, `HaltsAreKept` | SbiLifeProofs | `Spec => []HaltsArrive`, `Spec => HaltsStay` |
| `TypeCorrect`, `NoneIsEarly`, `DeadlinesKept`, `ReadCorrect` | SbiTimerProofs | types, `NeverEarly`, `AwaitedOrSignalled`, `ReadIsCurrent` |
| `HeapApart` | Boot0Proofs | `Spec => []BlocksApart`, for a heap of any size |
| `Types` | Boot0Proofs | `Spec => []TypeOK` |
| `PackagesIntact` | Boot0Proofs | `Spec => []PackageIntact`, for any packages and media |
| `BootsStored`, `CopiesFound` | Boot0Proofs | `BootsWhatIsStored`, `IntactCopyFound`: what the search finds, and what it may miss |
| `EntersWhole` | Boot0Proofs | `Spec => []EnteredWhole`, if `Bootable` |
| `PackagesKept` | Boot0Proofs | `Spec => []PackageKept`, if `DecodersFit` |
| `TypeCorrect`, `MainStaysWhole`, `ContextComesBack` | D1IrqProofs | types, `MainIsWhole` and `ContextUnlessNested`, for events at any time |
| `NestingLosesMain` | D1IrqProofs | `Spec => [](nested => [](pc # "main"))` |

Assumptions: `TlbAssumption`, `RangeAssumption`, `HartAssumption`, `RingAssumption`,
`LoadAssumption`, `LifeAssumption`, `TimerAssumption`, `HeapAssumption`,
`Boot0Assumption` and `D1Assumption`. They give the constants their types; those that
say more are: a callback answers one of its three values and leaves an entry
(`RingAssumption`), the clock stops before it reaches all ones (`TimerAssumption`), a
package is at least one block long, one that is a single block has room for at least
one copy in it, and its table names parts it has (`Boot0Assumption`). TLC evaluates
them in the runs.

Three theorems have a hypothesis of their own, which `MCSbiTlb` and `MCBoot0` assume of
their instances, so that TLC evaluates it too:

- `RequestsFit`: the requests that can be merged start at a page, do not end behind the
  address space and are not (0, 0), or are above the limit and become "everything".
  Each part is needed: `tlb_zero_range` breaks the last one, and the hazard at
  `sbi_tlb.c:261` has a pair of ranges for each of the others. The code checks none of
  them; a supervisor that flushes whole pages below the last one meets them.
- `Bootable`: every package brings at least one image to enter. Without one `main` jumps
  to U-Boot's base, which is then 0: the code does not check it.
- `DecodersFit`: in an empty heap the two blocks of inflate end below the package, and so
  does the table of LZMA. With the 8 MB between heap and package they do. What is
  proved from it is that the heap is empty whenever a decoder begins.

*Shootdown.* `TypeOK` contains `Control`, how the locals of a hart fit its program
counter. `OneAckEach` is inductive together with it: enqueueing and merging add the
requester's bit at one entry of the target's fifo, when it is waiting nowhere else;
dequeueing moves the bits of an entry to `acks`; an acknowledgement moves a bit to
`tlb_sync`; and `Sync` consumes it. `Dequeue` is the interesting step: positions shift
by one and the whole first entry changes place. `FifoBound` follows from it by
an injection from entries to requesters: each entry has a requester, none has two.
`NoLostWakeup` needs `NotForgotten` as well: a fifo that is left non-empty by a
partial turn still has a requester on its way, or its event.

*Fences.* `Fenced` is `TypeOK`, `Control` and three parts. `RangesFit`: what is queued or
about to be is in the form the merge compares, which needs that the upgrade to
"everything" comes before the enqueue. `Owed`: a translation that target t owes caller r is either
promised (t is still to be visited, and the request in hand removes it) or covered by
an entry of t that names r. `Idle`: outside `sbi_ipi_send_many` no target is left to
visit. A step of another hart touches what is owed to r only through the entries of t:
a merge rewrites one into a larger range (`MergeKeeps`, where the hypothesis is used),
a dequeue drops what the entry removes and shifts the rest. When the call returns,
nothing is promised (`Idle`) and nothing queued names r (`OneAckEach`), so nothing is owed.

*Fifo.* `RingInv` adds to types and exclusion what the counters are between the stores
of one operation (`Counters`: `tail` is past the end only at the wrap) and which slots
are written. Whoever is inside the lock is alone, so nobody else moves them.
`Remembered` says what a hart inside knows from its earlier reads: that the ring is
not full where it copies, not empty where it takes, which entries the callback has
already refused. From these each action is one step of the abstract queue or leaves
`Contents` and `Answered` as they are: an enqueue takes effect at its store to `avail`, a
dequeue too, which is why `Contents` starts one place further (`Oldest`) until `tail`
follows; an update at the entry it rewrites, or at the end of the scan.

*Boot.* `FirmwareInv` follows the one winner of the first lottery: until it marks
the boot hart done nobody else leaves the assembly code, so `.bss` is zeroed with
nobody in C, and the second lottery counts from 0 (`Drawn`). `FlagIsTrue`: once `.bss` is
zeroed, the flag is set only after the offsets are there. `NamedAreUp`: event words, masks,
requests and targets name only harts that have been let into the supervisor. `UpStep`
covers all steps of such harts at once: they leave the state of the boot alone.

*Halt.* `ToldStep` goes through all steps: a bit that was set is found by the next
`TakeBits` of its hart, because its line comes up after it (`Told`). It needs that no hart
has bits in hand when it takes new ones (`InHand`), and that the initialisation of a
late hart finds nothing to wipe (`NothingIsWiped`). `HaltsReach` then follows one sender
through its mask.

*Timer.* At every place of a hart the halves written so far are those of `writing`, and
in the supervisor the register is the deadline asked for; `Halves` is the arithmetic of
splitting and joining. For the reading: `hi` and `lo` belong to two times of the call in
order, and if `hi` is still current, the clock has not carried between them.

*Boot0, heap.* `MallocKeeps` and `FreeKeeps` are about the heap alone, whatever it is
asked; `HeapInv` lifts them to `main`. `HeldInv` says exactly what is in the heap at each
point of `load_image`: nothing, one block at the bottom, or the two of inflate; so each
decoder finds it as the first one did, and `PackagesKept` is arithmetic.

*Boot0, images.* `PackageInv` says that a package is `Verified` from `Loaded` on, and
nothing writes the buffer afterwards. `ImagesInv`: as long as no decoder failed, each item
that was passed has its image in place whole, and nothing else is; the chain of `if`s
after `load_image` then finds one, if there is one.

*Boot0, search.* `SearchInv` says that no place before the one in hand holds an intact copy
(`Passed`) and where the parts in the buffer come from (`AtFlashPart`): part p is the p-th block
that is not bad from the start of the copy on (`Rank`, a cardinality, with
lemmas on how it grows as the search advances). If the sum is right the parts are
those of one version, so the blocks read are a copy of it (`SumTells`, for
`BootsStored`); if it is not, there was none at this place (`SumMisses`), and the next place
may be tried (for `CopiesFound`). A block that did not read leaves a part of unknown origin in the
buffer, which is the exception both properties make (`UnreadMisses`).

*D1.* `IInv` has three parts beside the types. `Window`: interrupts are on outside the
handler and in its tail only, so these are the places a trap can interrupt, and
mepc holds one of them. `OneContext` splits on `nested`: until it is set, mepc is main's
and at most one frame, main's, is on the stack; once it is set, mepc holds a place in
the tail, and stays there, for a trap now finds pc in the tail, `mret` goes to mepc, and
neither leads to main. `ClaimShape`: a source is claimed only between claim and completion
by the one handler there is, and MEIP is masked only in the loop. Nothing is assumed about
when events come.

Only model-checked: everything temporal under fairness, which is beyond the prover
(`CallsReturn`, `SmodeDelivered`, `LockReleased`, `EveryoneBoots`, `AllStop`,
`DeadlineSignalled`, `Ends`, `EventServed`). Every invariant and every action property
that a passing run checks is a theorem.

## 5. Not modelled

Most of the repository is not this program's own logic: headers of OpenSSL, libfdt,
zlib and LZMA, boards other than the D1, register descriptions, a DRAM training binary,
and copies of the SDK in each tutorial. The models cover the parts in which several
actors, failures or orders meet. In particular:

- *Memory ordering*: the code uses barriers where the model has one order of accesses.
- *OpenSBI*: contents of translations beyond page, tag and kind; a caller's mask is
  taken as mapped. Registers of one hart only (PMP, delegation, FP, mode switch,
  redirection, emulation) and the console. Disabled harts: the D1's platform has none (of all boards only the FU540 has).
  The platform's own reset: what is modelled is the code after it, which runs when it did
  not work. The scratch allocator and the ecall registry: both are written by the cold
  boot alone, before another hart runs C (`OneColdBoot`), and only read afterwards.
- *Timer*: `sbi_timer_virt_value`, `get`/`set_delta` (the offset stays 0 unless a
  hypervisor CSR is emulated).
- *Suspend and resume* of the D1: what a power-down does to each register is not in the
  sources, so a model would assume what it shows.
- *SDK*: exceptions (the handler prints and returns to the same instruction), PLIC
  priorities (all 1), the halves of mtimecmp (written with interrupts off, so a
  transient value shows at most as a pending bit that the second write takes back);
  clocks, UART and GPIO set-up, sequences of register writes without a second actor.
- *Boot0*: `realloc`, which nothing calls, and the field `o_size` it reads. Where trees
  and logos go relative to U-Boot and the data handed to it. Decoding itself: a decoder
  succeeds or fails, allocates and frees. A read of a block fails always or never, and
  the sum notices any damaged part. A damaged length that is not 0 is a damaged head:
  it leads to a failed sum, a lack of blocks or a read error, which the model has
  (lengths 1 to 15 on a card do what 0 does). The SPI NAND copy has no bound although the comment at
  `spinand.c:244-250` speaks of one: blocks behind the store are `Foreign`, neither bad
  nor a package.
- *Drivers of boot0* (`mmc`, `mmc_bsp`, `nand_bsp`, SPI): command sequences of a card or
  chip whose behaviour is not in the sources. Boot0 takes from them what a read and a bad
  block test can answer.

## 6. Plan

Done: the shootdown, the fifo with its refinement, boot and shutdown, timer, boot0, the
D1 trap handler, and a theorem for each safety property that holds. What is left, in
order:

1. **MmcInit**: identification and the retries of `mmc.c` against a card that
   answers late or not at all, once the card's answers are described from the driver's use.
2. **SunxiIdle**: suspend and resume, with the power controller as an external component.
3. Placement of trees and logos in a package, which depends on the order of its items.
