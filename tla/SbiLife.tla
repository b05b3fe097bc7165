------------------------------- MODULE SbiLife -------------------------------
(***************************************************************************)
(* The life of the harts of OpenSBI: they come up (module SbiBoot), run    *)
(* supervisor code that asks for remote fences and for shutdown, and leave *)
(* through sbi_exit.  The mask of available harts changes meanwhile, and   *)
(* machine mode reads it where the code does.  A request to flush is only  *)
(* the name of its caller here: module SbiTlb has the ranges and the fifo. *)
(***************************************************************************)
EXTENDS SbiBoot

CONSTANTS
  U32Bits,      \* 32: width of current_hartid_mask in sbi_system.c
  FenceMasks,   \* the explicit hart masks of remote fences
  MaxCalls      \* bound: [Hart -> Nat], the fences, reboots and shutdowns of each hart

ASSUME LifeAssumption ==
  /\ U32Bits \in Nat
  /\ FenceMasks \subseteq SUBSET Hart
  /\ MaxCalls \in [Hart -> Nat]

VARIABLES
  event,      \* the event the hart is sending
  hmask,      \* the mask passed to sbi_ipi_send_many by reboot and shutdown
  targets,    \* the harts sbi_ipi_send_many has still to visit
  remote,     \* remote_hartid of the current sbi_ipi_send
  taken,      \* sbi_ipi_process: event bits taken and not yet handled
  exiting,    \* sbi_ipi_process was called by sbi_ipi_exit
  requests,   \* [Hart -> SUBSET Hart]: who waits for this hart to flush
  tlb_sync,   \* [Hart -> BOOLEAN]: set by the target that has flushed
  calls       \* [Hart -> Nat]: calls left

sendVars == <<event, hmask, targets, remote>>
trapVars == <<taken, exiting>>
tlbVars  == <<requests, tlb_sync>>
lifeVars == <<sendVars, trapVars, tlbVars, calls>>
vars     == <<ipiVars, pc, bootVars, lifeVars>>

Init ==
  /\ IpiInit
  /\ BootInit
  /\ event = [h \in Hart |-> IPI_TLB]
  /\ hmask = [h \in Hart |-> {}]
  /\ targets = [h \in Hart |-> {}]
  /\ remote = [h \in Hart |-> h]
  /\ taken = [h \in Hart |-> {}]
  /\ exiting = [h \in Hart |-> FALSE]
  /\ requests = [h \in Hart |-> {}]
  /\ tlb_sync = [h \in Hart |-> FALSE]
  /\ calls = MaxCalls

-----------------------------------------------------------------------------
(* Boot, with what belongs to the flush requests. *)

\* sbi_tlb_init(scratch, FALSE): the flag and the fifo of this hart.
WarmTlbInit(h) ==
  /\ At(h, "tlb_init")
  /\ requests' = [requests EXCEPT ![h] = {}]
  /\ tlb_sync' = [tlb_sync EXCEPT ![h] = FALSE]
  /\ Goto(h, "mark")
  /\ UNCHANGED <<ipiVars, bootVars, sendVars, trapVars, calls>>

ComeUp(h) == Boot(h) /\ UNCHANGED lifeVars

WakeUp(h) == Wfi(h) /\ UNCHANGED lifeVars

-----------------------------------------------------------------------------
(* sbi_ipi_send_many and sbi_ipi_send *)

\* Where the caller of sbi_ipi_send_many goes on.
ReturnTo(ev) == IF ev = IPI_HALT THEN "exit" ELSE "super"

\* The mask of available harts is read here; a mask with another hart is refused.
SendMany(h, ev, mask) ==
  /\ event' = [event EXCEPT ![h] = ev]
  /\ IF mask \subseteq avail_hart_mask
       THEN /\ targets' = [targets EXCEPT ![h] = mask]
            /\ Goto(h, "send_many")
       ELSE /\ Goto(h, ReturnTo(ev))
            /\ UNCHANGED targets

\* hbase = -1: every available hart; otherwise an explicit mask.
RemoteFence(h) ==
  /\ At(h, "super") /\ calls[h] > 0
  /\ calls' = [calls EXCEPT ![h] = @ - 1]
  /\ \E mask \in FenceMasks \cup {avail_hart_mask} : SendMany(h, IPI_TLB, mask)
  /\ UNCHANGED <<ipiVars, bootVars, hmask, remote, trapVars, tlbVars>>

\* ~current_hartid_mask: 32 bits, then widened with zeros.
OthersInU32(h) == {t \in Hart : t < U32Bits /\ t # h}

\* sbi_system_reboot, sbi_system_shutdown: the first reading of the mask.
Shutdown(h) ==
  /\ At(h, "super") /\ calls[h] > 0
  /\ calls' = [calls EXCEPT ![h] = @ - 1]
  /\ hmask' = [hmask EXCEPT ![h] = avail_hart_mask \cap OthersInU32(h)]
  /\ Goto(h, "halt_all")
  /\ UNCHANGED <<ipiVars, bootVars, event, targets, remote, trapVars, tlbVars>>

\* sbi_ipi_send_halt(hmask, 0): the second.
HaltAll(h) ==
  /\ At(h, "halt_all")
  /\ SendMany(h, IPI_HALT, hmask[h])
  /\ UNCHANGED <<ipiVars, bootVars, hmask, remote, trapVars, tlbVars, calls>>

\* The update hook: none for the halt event; the caller's own bit of a fence is
\* flushed at once; another hart gets a request.
NextTarget(h) ==
  /\ At(h, "send_many")
  /\ \E t \in targets[h] :
       /\ IsLeast(t, targets[h])
       /\ targets' = [targets EXCEPT ![h] = @ \ {t}]
       /\ remote' = [remote EXCEPT ![h] = t]
       /\ IF event[h] = IPI_HALT
            THEN Goto(h, "set_bit") /\ UNCHANGED requests
            ELSE IF t = h
              THEN UNCHANGED <<pc, requests>>
              ELSE /\ requests' = [requests EXCEPT ![t] = @ \cup {h}]
                   /\ Goto(h, "set_bit")
  /\ UNCHANGED <<ipiVars, bootVars, event, hmask, trapVars, tlb_sync, calls>>

SendManyReturn(h) ==
  /\ At(h, "send_many") /\ targets[h] = {}
  /\ Goto(h, ReturnTo(event[h]))
  /\ UNCHANGED <<ipiVars, bootVars, lifeVars>>

SetBit(h) ==
  /\ At(h, "set_bit")
  /\ SetEventBit(remote[h], event[h])
  /\ Goto(h, "ipi_send")
  /\ UNCHANGED <<bootVars, lifeVars>>

\* Mutant: raises the line of the sender.
IpiSendSelf(h) ==
  /\ At(h, "ipi_send")
  /\ RaiseMsip(h)
  /\ Goto(h, IF event[h] = IPI_TLB THEN "sync" ELSE "send_many")
  /\ UNCHANGED <<bootVars, lifeVars>>

IpiSend(h) ==
  /\ At(h, "ipi_send")
  /\ RaiseMsip(remote[h])
  /\ Goto(h, IF event[h] = IPI_TLB THEN "sync" ELSE "send_many")
  /\ UNCHANGED <<bootVars, lifeVars>>

\* sbi_tlb_sync
Sync(h) ==
  /\ At(h, "sync") /\ tlb_sync[h]
  /\ tlb_sync' = [tlb_sync EXCEPT ![h] = FALSE]
  /\ Goto(h, "send_many")
  /\ UNCHANGED <<ipiVars, bootVars, sendVars, trapVars, requests, calls>>

\* sbi_tlb_entry_process, from the event or from the wait in sbi_tlb_sync.
Acknowledge(h) ==
  /\ pc[h] \in {"sync", "tlb_process"}
  /\ \E r \in requests[h] :
       /\ ~tlb_sync[r]
       /\ tlb_sync' = [tlb_sync EXCEPT ![r] = TRUE]
       /\ requests' = [requests EXCEPT ![h] = @ \ {r}]
  /\ UNCHANGED <<ipiVars, pc, bootVars, sendVars, trapVars, calls>>

-----------------------------------------------------------------------------
(* sbi_ipi_process, in the trap and in sbi_ipi_exit *)

Trap(h) ==
  /\ At(h, "super")
  /\ ClearMsip(h)
  /\ Goto(h, "take_bits")
  /\ UNCHANGED <<bootVars, lifeVars>>

TakeBits(h) ==
  /\ At(h, "take_bits")
  /\ TakeEventBits(h)
  /\ taken' = [taken EXCEPT ![h] = ipi_type[h]]
  /\ Goto(h, "events")
  /\ UNCHANGED <<bootVars, sendVars, exiting, tlbVars, calls>>

\* sbi_ipi_process_halt does not return: the other bits it took are gone.
ProcessHalt(h) ==
  /\ At(h, "events") /\ IsLeast(IPI_HALT, taken[h])
  /\ taken' = [taken EXCEPT ![h] = {}]
  /\ Goto(h, "exit")
  /\ UNCHANGED <<ipiVars, bootVars, sendVars, exiting, tlbVars, calls>>

ProcessTlb(h) ==
  /\ At(h, "events") /\ IsLeast(IPI_TLB, taken[h])
  /\ taken' = [taken EXCEPT ![h] = @ \ {IPI_TLB}]
  /\ Goto(h, "tlb_process")
  /\ UNCHANGED <<ipiVars, bootVars, sendVars, exiting, tlbVars, calls>>

TlbProcessed(h) ==
  /\ At(h, "tlb_process") /\ requests[h] = {}
  /\ Goto(h, "events")
  /\ UNCHANGED <<ipiVars, bootVars, lifeVars>>

\* Mutant: the line is cleared when the events have been handled.
ProcessReturnClears(h) ==
  /\ At(h, "events") /\ taken[h] = {}
  /\ msip' = [msip EXCEPT ![h] = FALSE]
  /\ Goto(h, IF exiting[h] THEN "hung" ELSE "super")
  /\ UNCHANGED <<ipi_type, bootVars, lifeVars>>

\* Back to the supervisor, or to sbi_ipi_exit and from there to sbi_hart_hang.
ProcessReturn(h) ==
  /\ At(h, "events") /\ taken[h] = {}
  /\ Goto(h, IF exiting[h] THEN "hung" ELSE "super")
  /\ UNCHANGED <<ipiVars, bootVars, lifeVars>>

-----------------------------------------------------------------------------
(* sbi_exit *)

Exit(h) ==
  /\ At(h, "exit")
  /\ UnmarkAvailable(h)
  /\ exiting' = [exiting EXCEPT ![h] = TRUE]
  /\ Goto(h, "ipi_exit")
  /\ UNCHANGED <<sendVars, taken, tlbVars, calls>>

\* sbi_ipi_exit enters sbi_ipi_process, which clears the line whatever it is.
IpiExit(h) ==
  /\ At(h, "ipi_exit")
  /\ msip' = [msip EXCEPT ![h] = FALSE]
  /\ Goto(h, "take_bits")
  /\ UNCHANGED <<ipi_type, bootVars, lifeVars>>

-----------------------------------------------------------------------------
Call(h) == RemoteFence(h) \/ Shutdown(h)

\* What a hart does by itself.
Machine(h) ==
  \/ ComeUp(h) \/ WarmTlbInit(h)
  \/ HaltAll(h) \/ NextTarget(h) \/ SendManyReturn(h) \/ SetBit(h) \/ IpiSend(h)
  \/ Sync(h) \/ Acknowledge(h)
  \/ Trap(h) \/ TakeBits(h) \/ ProcessHalt(h) \/ ProcessTlb(h) \/ TlbProcessed(h)
  \/ ProcessReturn(h) \/ Exit(h) \/ IpiExit(h)

Next == \E h \in Hart : Call(h) \/ Machine(h) \/ WakeUp(h)

Spec == Init /\ [][Next]_vars

\* A hart goes on; from wfi it returns when its interrupt is pending.
FairSpec ==
  /\ Spec
  /\ \A h \in Hart : WF_vars(Machine(h)) /\ WF_vars(msip[h] /\ WakeUp(h))

-----------------------------------------------------------------------------
(* Properties *)

LifeLabel == {"super", "halt_all", "send_many", "set_bit", "ipi_send", "sync",
              "take_bits", "events", "tlb_process", "exit", "ipi_exit", "hung"}

\* Every variable has its type.
TypeOK ==
  /\ IpiTypeOK /\ BootTypeOK
  /\ pc \in [Hart -> BootLabel \cup LifeLabel]
  /\ event \in [Hart -> {IPI_HALT, IPI_TLB}]
  /\ hmask \in [Hart -> SUBSET Hart]
  /\ targets \in [Hart -> SUBSET Hart]
  /\ remote \in [Hart -> Hart]
  /\ taken \in [Hart -> SUBSET IpiEvent]
  /\ exiting \in [Hart -> BOOLEAN]
  /\ requests \in [Hart -> SUBSET Hart]
  /\ tlb_sync \in [Hart -> BOOLEAN]
  /\ calls \in [Hart -> Nat]

\* Harts that have not left the assembly code of fw_base.S.
InFirmware(h) == pc[h] \in {"start", "relocate", "relocate_done", "bss_zero",
                            "fdt_reloc", "wait_copy", "wait_boot"}

\* Waiting harts run on neither half-copied code nor junk statics, and one hart
\* makes the cold boot: whoever waits at the link address finds the image there,
\* whoever is in C finds .bss zeroed and for good, so the lottery has one winner.
OneColdBoot ==
  /\ \A h \in Hart : At(h, "wait_boot") => copied
  /\ \A h \in Hart : ~InFirmware(h) =>
       /\ copied /\ bss_zeroed
       /\ \A g \in Hart : ~At(g, "bss_zero")
  /\ \A g, h \in Hart : coldboot[g] /\ coldboot[h] => g = h

\* Harts that sbi_init has not yet let into the supervisor.
ComingUp(h) == pc[h] \in BootLabel

\* A warm hart goes past its wait only when the cold one has allocated
\* everything, so nobody hangs for a missing offset.
WarmAfterCold ==
  \A h \in Hart :
    /\ pc[h] \in {"woken", "ipi_init", "tlb_init"} => offsets
    /\ At(h, "hung") => exiting[h]

\* The initialisation of a hart wipes its event word, its line and its request
\* fifo: nobody may have put anything there.  The wake-up interrupt is the only
\* one it can have, and it is gone before the line is used for events.
NothingIsWiped ==
  \A h \in Hart : ComingUp(h) =>
    /\ ipi_type[h] = {} /\ requests[h] = {} /\ ~tlb_sync[h]
    /\ msip[h] => pc[h] \in {"wfi", "woken"}

\* Every hart comes up, whoever wins the two lotteries and however late it
\* gets to wait: nobody sleeps on after the wake-up.
EveryoneBoots == <>(\A h \in Hart : ~ComingUp(h))

\* A hart that will execute nothing any more: it hangs, or waits in sbi_tlb_sync
\* for a hart that hangs and has left its request unserved.
Stopped(h) ==
  \/ At(h, "hung")
  \/ At(h, "sync") /\ h \in requests[remote[h]] /\ At(remote[h], "hung")

BegunShutdown(h) == At(h, "halt_all") \/ event[h] = IPI_HALT

\* A shutdown that begins when all harts are up and nobody else has begun one stops
\* every hart, although the mask is read twice and others may begin theirs meanwhile.
AllStop ==
  (\E g \in Hart :
     /\ At(g, "halt_all") /\ hmask[g] = Hart \ {g}
     /\ \A k \in Hart \ {g} : ~BegunShutdown(k))
  ~> \A h \in Hart : Stopped(h)

\* The halt bit of t is set and its line is up or comes up, or t is about to take
\* its bits, or has taken this one, or is leaving.
Told(t) ==
  \/ /\ IPI_HALT \in ipi_type[t]
     /\ msip[t] \/ At(t, "take_bits") \/ \E g \in Hart : At(g, "ipi_send") /\ remote[g] = t
  \/ IPI_HALT \in taken[t]
  \/ At(t, "exit") \/ exiting[t]

\* A shutdown whose mask was accepted has told every hart it has visited, whatever
\* they were doing: in a trap, draining their events, leaving themselves.
HaltsArrive ==
  \A g \in Hart : event[g] = IPI_HALT /\ pc[g] \in {"send_many", "set_bit", "ipi_send"} =>
    \A t \in hmask[g] \ targets[g] : Told(t) \/ (At(g, "set_bit") /\ remote[g] = t)

\* A hart that has been told to halt never comes to be one that has not: no fence sent
\* meanwhile, and no line cleared between two steps of its senders, takes the halt back.
HaltsStay == [][\A t \in Hart : Told(t) => Told(t)']_vars

\* The comment of sbi_system_shutdown: "Send HALT IPI to every hart other than the
\* current hart".  Every hart that was available then stops.
HaltReachesAvailable ==
  \A g, h \in Hart : At(g, "halt_all") /\ h \in hmask[g] ~> Stopped(h)
=============================================================================
