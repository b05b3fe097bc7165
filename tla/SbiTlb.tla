------------------------------- MODULE SbiTlb --------------------------------
(***************************************************************************)
(* Remote TLB shootdown in OpenSBI (lib/sbi/sbi_tlb.c over sbi_ipi.c).     *)
(*                                                                         *)
(* Every hart may make a remote-fence call: for each target in ascending   *)
(* order it merges or enqueues its request in the target's fifo, raises an *)
(* IPI and waits for its own tlb_sync flag.  A hart that waits, for space  *)
(* or for the flag, serves its own fifo meanwhile; a hart that runs        *)
(* supervisor code serves it from the software-interrupt trap.             *)
(* Fifo operations are atomic here: module SbiFifo refines them.           *)
(***************************************************************************)
EXTENDS SbiTlbRange, SbiIpi, Sequences, FiniteSets

CONSTANTS
  FifoEntries,  \* SBI_TLB_FIFO_NUM_ENTRIES
  Requests,     \* the ranges callers ask for
  TlbMasks,     \* the hart masks of remote fences
  SmodeMasks,   \* the hart masks of supervisor IPIs
  MaxCalls      \* bound: [Hart -> Nat], the ecalls each hart makes in a behaviour

ASSUME TlbAssumption ==
  /\ FifoEntries \in Nat \ {0}
  /\ Requests \subseteq TlbInfo /\ Requests # {}
  /\ TlbMasks \subseteq SUBSET Hart /\ SmodeMasks \subseteq SUBSET Hart
  /\ MaxCalls \in [Hart -> Nat]

VARIABLES
  fifo,        \* [Hart -> Seq(Entry)]: the request fifo of each hart
  tlb_sync,    \* [Hart -> {0, 1}]: set by the target that served the request
  pc,          \* where the hart is
  event,       \* the event the hart is sending
  targets,     \* the harts sbi_ipi_send_many has still to visit
  remote,      \* remote_hartid of the current sbi_ipi_send
  tinfo,       \* the request being sent
  caller,      \* who runs the dequeue loop: "enqueue", "sync", "ipi" or "none"
  deq_count,   \* sbi_tlb_process_count: entries served in this call
  acks,        \* bits of shart_mask the hart has still to acknowledge
  pending,     \* sbi_ipi_process: event bits taken and not yet handled
  mip_ssip,    \* the supervisor software interrupt sbi_ipi_process_smode sets
  calls,       \* ecalls left
  stale        \* history: stale[r][t] = translations t must still drop for r

sendVars  == <<event, targets, remote, tinfo>>
serveVars == <<caller, deq_count, acks>>
trapVars  == <<pending, mip_ssip>>
vars == <<ipiVars, fifo, tlb_sync, pc, sendVars, serveVars, trapVars, calls, stale>>

Entry == [type : FlushType, start : Address, size : Address, asid : Asids,
          shart_mask : (SUBSET Hart) \ {{}}]

Request(r, h) ==
  [type |-> r.type, start |-> r.start, size |-> r.size, asid |-> r.asid,
   shart_mask |-> {h}]

Goto(h, l) == pc' = [pc EXCEPT ![h] = l]

\* sbi_tlb_local_flush(e) on hart h
LocalFlush(h, e) ==
  stale' = [r \in Hart |-> [stale[r] EXCEPT ![h] = @ \ Flushed(e)]]

\* Locals that are out of scope have these values.
NoTinfo(h) == Request(CHOOSE r \in Requests : TRUE, h)

Init ==
  /\ IpiInit
  /\ fifo = [h \in Hart |-> <<>>]
  /\ tlb_sync = [h \in Hart |-> 0]
  /\ pc = [h \in Hart |-> "run"]
  /\ event = [h \in Hart |-> IPI_SMODE]
  /\ targets = [h \in Hart |-> {}]
  /\ remote = [h \in Hart |-> h]
  /\ tinfo = [h \in Hart |-> NoTinfo(h)]
  /\ caller = [h \in Hart |-> "none"]
  /\ deq_count = [h \in Hart |-> 0]
  /\ acks = [h \in Hart |-> {}]
  /\ pending = [h \in Hart |-> {}]
  /\ mip_ssip = [h \in Hart |-> FALSE]
  /\ calls = MaxCalls
  /\ stale = [r \in Hart |-> [t \in Hart |-> {}]]

-----------------------------------------------------------------------------
(* The sending side: sbi_ipi_send_many and sbi_ipi_send.                   *)

\* An ecall enters sbi_ipi_send_many with an event and a mask of online harts.
CallSendMany(h, ev, T) ==
  /\ pc[h] = "run" /\ calls[h] > 0
  /\ calls' = [calls EXCEPT ![h] = @ - 1]
  /\ event' = [event EXCEPT ![h] = ev]
  /\ targets' = [targets EXCEPT ![h] = T]
  /\ Goto(h, "send_many")
  /\ UNCHANGED <<ipiVars, fifo, tlb_sync, remote, serveVars, trapVars>>

\* A remote fence: from here on every target owes the caller these translations.
TlbRequest(h) ==
  \E T \in TlbMasks, r \in Requests :
    /\ CallSendMany(h, IPI_TLB, T)
    /\ tinfo' = [tinfo EXCEPT ![h] = Request(r, h)]
    /\ stale' = [stale EXCEPT ![h] =
                   [t \in Hart |-> IF t \in T THEN Flushed(r) ELSE {}]]

SendSmode(h) ==
  \E T \in SmodeMasks :
    /\ CallSendMany(h, IPI_SMODE, T)
    /\ UNCHANGED <<tinfo, stale>>

\* The loop of sbi_ipi_send_many calls sbi_ipi_send for the next hart of the mask.
NextTarget(h, t) ==
  /\ pc[h] = "send_many"
  /\ IsLeast(t, targets[h])
  /\ targets' = [targets EXCEPT ![h] = @ \ {t}]
  /\ remote' = [remote EXCEPT ![h] = t]

\* The S-mode event has no update hook.
NextSmode(h) ==
  /\ event[h] = IPI_SMODE
  /\ \E t \in Hart : NextTarget(h, t)
  /\ Goto(h, "set_bit")
  /\ UNCHANGED <<ipiVars, fifo, tlb_sync, event, tinfo, serveVars, trapVars, calls, stale>>

SendManyReturn(h) ==
  /\ pc[h] = "send_many" /\ targets[h] = {}
  /\ event' = [event EXCEPT ![h] = IPI_SMODE]
  /\ remote' = [remote EXCEPT ![h] = h]
  /\ tinfo' = [tinfo EXCEPT ![h] = NoTinfo(h)]
  /\ Goto(h, "run")
  /\ UNCHANGED <<ipiVars, fifo, tlb_sync, targets, serveVars, trapVars, calls, stale>>

\* Mutant: the caller leaves itself out and does not flush either.
UpdateSelfUnflushed(h) ==
  /\ event[h] = IPI_TLB
  /\ NextTarget(h, h)
  /\ tinfo' = [tinfo EXCEPT ![h] = Upgrade(@)]
  /\ UNCHANGED <<ipiVars, fifo, tlb_sync, pc, event, serveVars, trapVars, calls, stale>>

\* sbi_tlb_update for the caller itself flushes and returns -1: no IPI, no sync.
UpdateSelf(h) ==
  LET next == Upgrade(tinfo[h])
  IN  /\ event[h] = IPI_TLB
      /\ NextTarget(h, h)
      /\ tinfo' = [tinfo EXCEPT ![h] = next]
      /\ LocalFlush(h, next)
      /\ UNCHANGED <<ipiVars, fifo, tlb_sync, pc, event, serveVars, trapVars, calls>>

\* The entries sbi_fifo_inplace_update would stop at.
MergePoints(q, next) == {i \in 1 .. Len(q) : UpdateCb(q[i], next) # "unchanged"}

\* sbi_tlb_update for another hart, with sbi_fifo_inplace_update under the
\* lock of the remote fifo.
UpdateRemote(h) ==
  LET next == Upgrade(tinfo[h])
  IN  /\ event[h] = IPI_TLB
      /\ tinfo' = [tinfo EXCEPT ![h] = next]
      /\ \E t \in Hart \ {h} :
           /\ NextTarget(h, t)
           /\ \/ /\ MergePoints(fifo[t], next) = {}
                 /\ Goto(h, "enqueue")
                 /\ UNCHANGED fifo
              \/ \E i \in MergePoints(fifo[t], next) :
                   /\ IsLeast(i, MergePoints(fifo[t], next))
                   /\ fifo' = [fifo EXCEPT ![t][i] = Merged(@, next)]
                   /\ Goto(h, "set_bit")
      /\ UNCHANGED <<ipiVars, tlb_sync, event, serveVars, trapVars, calls, stale>>

\* Mutant: the entry goes in whether or not there is room.
EnqueueUnchecked(h) ==
  /\ pc[h] = "enqueue"
  /\ fifo' = [fifo EXCEPT ![remote[h]] = Append(@, tinfo[h])]
  /\ Goto(h, "set_bit")
  /\ UNCHANGED <<ipiVars, tlb_sync, sendVars, serveVars, trapVars, calls, stale>>

\* sbi_fifo_enqueue; when it fails the caller serves its own fifo and retries.
Enqueue(h) ==
  /\ pc[h] = "enqueue"
  /\ LET t == remote[h]
     IN  IF Len(fifo[t]) < FifoEntries
           THEN /\ fifo' = [fifo EXCEPT ![t] = Append(@, tinfo[h])]
                /\ Goto(h, "set_bit")
                /\ UNCHANGED caller
           ELSE /\ caller' = [caller EXCEPT ![h] = "enqueue"]
                /\ Goto(h, "dequeue")
                /\ UNCHANGED fifo
  /\ UNCHANGED <<ipiVars, tlb_sync, sendVars, deq_count, acks, trapVars, calls, stale>>

SetBit(h) ==
  /\ pc[h] = "set_bit"
  /\ SetEventBit(remote[h], event[h])
  /\ Goto(h, "ipi_send")
  /\ UNCHANGED <<fifo, tlb_sync, sendVars, serveVars, trapVars, calls, stale>>

\* Mutant: no event waits for its sync hook.
IpiSendNoSync(h) ==
  /\ pc[h] = "ipi_send"
  /\ RaiseMsip(remote[h])
  /\ Goto(h, "send_many")
  /\ UNCHANGED <<fifo, tlb_sync, sendVars, serveVars, trapVars, calls, stale>>

IpiSend(h) ==
  /\ pc[h] = "ipi_send"
  /\ RaiseMsip(remote[h])
  /\ Goto(h, IF event[h] = IPI_TLB THEN "sync" ELSE "send_many")
  /\ UNCHANGED <<fifo, tlb_sync, sendVars, serveVars, trapVars, calls, stale>>

\* Mutant: returns whether or not the flag was set.
SyncImpatient(h) ==
  /\ pc[h] = "sync"
  /\ tlb_sync' = [tlb_sync EXCEPT ![h] = 0]
  /\ Goto(h, "send_many")
  /\ UNCHANGED <<ipiVars, fifo, sendVars, serveVars, trapVars, calls, stale>>

\* Mutant: waits without serving the own fifo.
SyncSpins(h) ==
  /\ pc[h] = "sync" /\ tlb_sync[h] = 1
  /\ tlb_sync' = [tlb_sync EXCEPT ![h] = 0]
  /\ Goto(h, "send_many")
  /\ UNCHANGED <<ipiVars, fifo, sendVars, serveVars, trapVars, calls, stale>>

\* sbi_tlb_sync: take the flag, or serve the own fifo before looking again.
Sync(h) ==
  /\ pc[h] = "sync"
  /\ IF tlb_sync[h] = 1
       THEN /\ tlb_sync' = [tlb_sync EXCEPT ![h] = 0]
            /\ Goto(h, "send_many")
            /\ UNCHANGED caller
       ELSE /\ caller' = [caller EXCEPT ![h] = "sync"]
            /\ Goto(h, "dequeue")
            /\ UNCHANGED tlb_sync
  /\ UNCHANGED <<ipiVars, fifo, sendVars, deq_count, acks, trapVars, calls, stale>>

-----------------------------------------------------------------------------
(* The serving side: sbi_tlb_process, sbi_tlb_process_count.               *)

\* Mutant: the handler of the interrupt stops after one entry, too.
LoopEndsForAll(h) == deq_count[h] + 1 >= 1

\* The loop of sbi_tlb_process_count breaks when "deq_count > count", count = 1.
LoopEnds(h) == caller[h] # "ipi" /\ deq_count[h] + 1 > 1

\* Where the dequeue loop returns to.
ReturnPoint(h) == IF caller[h] = "ipi" THEN "events" ELSE caller[h]

LeaveLoop(h) ==
  /\ Goto(h, ReturnPoint(h))
  /\ caller' = [caller EXCEPT ![h] = "none"]
  /\ deq_count' = [deq_count EXCEPT ![h] = 0]

\* sbi_fifo_dequeue and the local flush of the entry it copied out.
Dequeue(h) ==
  /\ pc[h] = "dequeue" /\ fifo[h] # <<>>
  /\ fifo' = [fifo EXCEPT ![h] = Tail(@)]
  /\ acks' = [acks EXCEPT ![h] = Head(fifo[h]).shart_mask]
  /\ LocalFlush(h, Head(fifo[h]))
  /\ Goto(h, "ack")
  /\ UNCHANGED <<ipiVars, tlb_sync, sendVars, caller, deq_count, trapVars, calls>>

DequeueEmpty(h) ==
  /\ pc[h] = "dequeue" /\ fifo[h] = <<>>
  /\ LeaveLoop(h)
  /\ UNCHANGED <<ipiVars, fifo, tlb_sync, sendVars, acks, trapVars, calls, stale>>

\* "while (atomic_raw_xchg_ulong(rtlb_sync, 1))": a flag still set holds h here.
Ack(h) ==
  /\ pc[h] = "ack"
  /\ \E r \in acks[h] :
       /\ IsLeast(r, acks[h])
       /\ tlb_sync[r] = 0
       /\ tlb_sync' = [tlb_sync EXCEPT ![r] = 1]
       /\ acks' = [acks EXCEPT ![h] = @ \ {r}]
       /\ IF acks[h] # {r}
            THEN UNCHANGED <<pc, caller, deq_count>>
            ELSE IF LoopEnds(h)
              THEN LeaveLoop(h)
              ELSE /\ Goto(h, "dequeue")
                   /\ deq_count' = [deq_count EXCEPT
                                      ![h] = IF caller[h] = "ipi" THEN 0 ELSE @ + 1]
                   /\ UNCHANGED caller
  /\ UNCHANGED <<ipiVars, fifo, sendVars, trapVars, calls, stale>>

-----------------------------------------------------------------------------
(* The software-interrupt trap: sbi_ipi_process.                           *)

\* Machine mode runs with interrupts off: only supervisor code is interrupted.
Trap(h) ==
  /\ pc[h] = "run"
  /\ ClearMsip(h)
  /\ Goto(h, "take_bits")
  /\ UNCHANGED <<fifo, tlb_sync, sendVars, serveVars, trapVars, calls, stale>>

\* Mutant: the scan of the event bits starts at bit 1.
TakeBitsFromOne(h) ==
  /\ pc[h] = "take_bits"
  /\ TakeEventBits(h)
  /\ pending' = [pending EXCEPT ![h] = ipi_type[h] \ {IPI_SMODE}]
  /\ Goto(h, "events")
  /\ UNCHANGED <<fifo, tlb_sync, sendVars, serveVars, mip_ssip, calls, stale>>

TakeBits(h) ==
  /\ pc[h] = "take_bits"
  /\ TakeEventBits(h)
  /\ pending' = [pending EXCEPT ![h] = ipi_type[h]]
  /\ Goto(h, "events")
  /\ UNCHANGED <<fifo, tlb_sync, sendVars, serveVars, mip_ssip, calls, stale>>

\* The process hook of the lowest bit taken.
ProcessSmode(h) ==
  /\ pc[h] = "events" /\ IsLeast(IPI_SMODE, pending[h])
  /\ pending' = [pending EXCEPT ![h] = @ \ {IPI_SMODE}]
  /\ mip_ssip' = [mip_ssip EXCEPT ![h] = TRUE]
  /\ UNCHANGED <<ipiVars, fifo, tlb_sync, pc, sendVars, serveVars, calls, stale>>

ProcessTlb(h) ==
  /\ pc[h] = "events" /\ IsLeast(IPI_TLB, pending[h])
  /\ pending' = [pending EXCEPT ![h] = @ \ {IPI_TLB}]
  /\ caller' = [caller EXCEPT ![h] = "ipi"]
  /\ Goto(h, "dequeue")
  /\ UNCHANGED <<ipiVars, fifo, tlb_sync, sendVars, deq_count, acks, mip_ssip, calls, stale>>

\* Mutant: the line is cleared when the events have been handled.
TrapReturnClears(h) ==
  /\ pc[h] = "events" /\ pending[h] = {}
  /\ msip' = [msip EXCEPT ![h] = FALSE]
  /\ Goto(h, "run")
  /\ UNCHANGED <<ipi_type, fifo, tlb_sync, sendVars, serveVars, trapVars, calls, stale>>

TrapReturn(h) ==
  /\ pc[h] = "events" /\ pending[h] = {}
  /\ Goto(h, "run")
  /\ UNCHANGED <<ipiVars, fifo, tlb_sync, sendVars, serveVars, trapVars, calls, stale>>

\* Supervisor code sees its software interrupt and clears it.
ClearSmode(h) ==
  /\ pc[h] = "run" /\ mip_ssip[h]
  /\ mip_ssip' = [mip_ssip EXCEPT ![h] = FALSE]
  /\ UNCHANGED <<ipiVars, fifo, tlb_sync, pc, sendVars, serveVars, pending, calls, stale>>

-----------------------------------------------------------------------------
Call(h) == TlbRequest(h) \/ SendSmode(h)

\* What machine mode does by itself once entered; a hart never pauses in it.
Machine(h) ==
  \/ NextSmode(h) \/ SendManyReturn(h)
  \/ UpdateSelf(h) \/ UpdateRemote(h) \/ Enqueue(h)
  \/ SetBit(h) \/ IpiSend(h) \/ Sync(h)
  \/ Dequeue(h) \/ DequeueEmpty(h) \/ Ack(h)
  \/ Trap(h) \/ TakeBits(h) \/ ProcessSmode(h) \/ ProcessTlb(h) \/ TrapReturn(h)

Next == \E h \in Hart : Call(h) \/ Machine(h) \/ ClearSmode(h)

Spec == Init /\ [][Next]_vars

FairSpec == Spec /\ \A h \in Hart : WF_vars(Machine(h))

-----------------------------------------------------------------------------
(* Properties *)

PcLabel == {"run", "send_many", "enqueue", "set_bit", "ipi_send", "sync",
            "dequeue", "ack", "take_bits", "events"}

\* Every variable has its type; a fifo never holds more than its entries.
TypeOK ==
  /\ IpiTypeOK
  /\ fifo \in [Hart -> Seq(Entry)]
  /\ \A h \in Hart : Len(fifo[h]) <= FifoEntries
  /\ tlb_sync \in [Hart -> {0, 1}]
  /\ pc \in [Hart -> PcLabel]
  /\ event \in [Hart -> {IPI_SMODE, IPI_TLB}]
  /\ targets \in [Hart -> SUBSET Hart]
  /\ remote \in [Hart -> Hart]
  /\ tinfo \in [Hart -> Entry]
  /\ caller \in [Hart -> {"enqueue", "sync", "ipi", "none"}]
  /\ deq_count \in [Hart -> {0, 1}]
  /\ acks \in [Hart -> SUBSET Hart]
  /\ pending \in [Hart -> SUBSET IpiEvent]
  /\ mip_ssip \in [Hart -> BOOLEAN]
  /\ calls \in [Hart -> Nat]
  /\ stale \in [Hart -> [Hart -> SUBSET Translation]]

\* How the locals of a hart fit together (the strengthening the proofs need).
Control ==
  \A h \in Hart :
    /\ tinfo[h].shart_mask = {h}
    /\ caller[h] # "none" <=> pc[h] \in {"dequeue", "ack"}
    /\ acks[h] # {} <=> pc[h] = "ack"
    /\ \/ pc[h] \in {"enqueue", "sync"}
       \/ caller[h] \in {"enqueue", "sync"}
       \/ pc[h] \in {"set_bit", "ipi_send"} /\ event[h] = IPI_TLB
       => event[h] = IPI_TLB /\ remote[h] # h
    /\ pending[h] # {} => pc[h] = "events" \/ caller[h] = "ipi"

\* Harts whose request is queued at the current remote and not yet consumed.
Waiting(r) ==
  /\ event[r] = IPI_TLB
  /\ \/ pc[r] \in {"set_bit", "ipi_send", "sync"}
     \/ pc[r] \in {"dequeue", "ack"} /\ caller[r] = "sync"

\* Where hart r's acknowledgement currently is: queued at position i of t's fifo,
\* or about to be given by t.
Position        == 1 .. FifoEntries
Queued(r, t, i) == i <= Len(fifo[t]) /\ r \in fifo[t][i].shart_mask
Serving(r, t)   == pc[t] = "ack" /\ r \in acks[t]

\* A waiting hart's acknowledgement is in exactly one place, and only there: at
\* one entry of its remote's fifo, or owed by its remote, or in its own flag; a
\* hart that does not wait has none.  So no flag is ever set twice (the xchg of
\* sbi_tlb_entry_process never spins) and none is left over for a later call.
QueuedOnce(r) ==
  \A t \in Hart, i \in Position :
    Queued(r, t, i) =>
      /\ Waiting(r) /\ t = remote[r]
      /\ tlb_sync[r] = 0 /\ ~Serving(r, t)
      /\ \A j \in Position : Queued(r, t, j) => j = i
ServedOnce(r)   == \A t \in Hart :
                     Serving(r, t) => Waiting(r) /\ t = remote[r] /\ tlb_sync[r] = 0
FlagIsFresh(r)  == tlb_sync[r] = 1 => Waiting(r)
NotForgotten(r) == Waiting(r) =>
                     \/ tlb_sync[r] = 1
                     \/ Serving(r, remote[r])
                     \/ \E i \in Position : Queued(r, remote[r], i)

OneAckEach ==
  \A r \in Hart : QueuedOnce(r) /\ ServedOnce(r) /\ FlagIsFresh(r) /\ NotForgotten(r)

\* The ranges that sbi_tlb_update_cb can compare: whole pages (the local flush
\* steps from the start), an end that does not wrap, and not (0, 0), which
\* means everything but compares as nothing.
Mergeable == {"VMA", "VMA_ASID"}
PlainRange(e) ==
  /\ e.start % PageSize = 0
  /\ e.start + e.size < AddrSpace
  /\ ~Everything(e)
Fits(e) == e.type \in Mergeable => e.size > FlushLimit \/ PlainRange(e)
RequestsFit == \A r \in Requests : Fits(r)

\* When sbi_tlb_request returns, every target has dropped every translation of
\* the range, whatever merging, upgrading and serving went on in between.
ShootdownComplete ==
  \A r \in Hart : pc[r] = "run" => \A t \in Hart : stale[r][t] = {}

\* Nobody's request is forgotten: while a fifo is not empty its hart is draining
\* it from the trap, or holds the event, or will take it, or one of the
\* requesters has still to raise it.
NoLostWakeup ==
  \A t \in Hart :
    fifo[t] # <<>> =>
      \/ caller[t] = "ipi"
      \/ IPI_TLB \in pending[t]
      \/ IPI_TLB \in ipi_type[t]
      \/ \E r \in Hart : pc[r] = "set_bit" /\ remote[r] = t /\ event[r] = IPI_TLB

\* An event bit never waits without an interrupt to announce it: the line is
\* up, or the hart has taken the trap and not yet read the word, or the sender
\* has still to write the line.
NoSilentEvent ==
  \A t \in Hart :
    ipi_type[t] # {} =>
      \/ msip[t]
      \/ pc[t] = "take_bits"
      \/ \E r \in Hart : pc[r] = "ipi_send" /\ remote[r] = t

\* The comments of sbi_tlb_update expect a full fifo and busy looping.  A
\* requester has at most one entry in flight, so no fifo outgrows the other
\* harts, and the default of 8 entries is never full with up to 9 harts.
FifoWithinPeers ==
  \A t \in Hart : Len(fifo[t]) <= Cardinality(Hart \ {t})

\* What the comment of sbi_tlb_update_cb promises: merging a request, by
\* skipping it or by rewriting the entry, drops no translation of either.
MergeKeepsRanges ==
  [][\A h, t \in Hart : \A i \in 1 .. Len(fifo[t]) :
       (/\ pc[h] = "send_many" /\ pc'[h] = "set_bit" /\ remote'[h] = t
        /\ fifo'[t][i] # fifo[t][i])
       => Flushed(fifo[t][i]) \cup Flushed(tinfo[h]) \subseteq Flushed(fifo'[t][i])]_vars

\* The note above sbi_tlb_update_cb: "try to dequeue 1 element before continuing
\* the while loop".  A hart that waits serves at most one entry per turn.
ServesOnePerTurn ==
  [][\A h \in Hart :
       pc[h] = "dequeue" /\ pc'[h] = "ack" /\ caller[h] # "ipi" => deq_count[h] = 0]_vars

\* Every ecall that entered machine mode returns, even when harts shoot at each
\* other with full fifos.
CallsReturn == \A h \in Hart : pc[h] # "run" ~> pc[h] = "run"

\* A supervisor IPI, once its bit is set, reaches the supervisor.
SmodeDelivered == \A h \in Hart : IPI_SMODE \in ipi_type[h] ~> mip_ssip[h]
=============================================================================
