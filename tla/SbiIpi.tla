------------------------------- MODULE SbiIpi --------------------------------
(***************************************************************************)
(* The inter-processor-interrupt mechanism of lib/sbi/sbi_ipi.c: a word of *)
(* event bits per hart in its scratch area, and the hart's machine         *)
(* software-interrupt line (CLINT msip).  The steps below are the atomic   *)
(* accesses of the sender and of the receiver; modules that compose harts  *)
(* order them as sbi_ipi_send and sbi_ipi_process do.                      *)
(***************************************************************************)
EXTENDS Naturals

CONSTANT Hart   \* hart identifiers: the numbers sbi_ipi_send_many scans upward

ASSUME HartAssumption == Hart \subseteq Nat

VARIABLES
  ipi_type,   \* [Hart -> SUBSET IpiEvent]: ipi_data->ipi_type, the event bits
  msip        \* [Hart -> BOOLEAN]: the pending software interrupt

ipiVars == <<ipi_type, msip>>

\* Event numbers, in the order sbi_ipi_init and sbi_tlb_init create them.
IPI_SMODE == 0
IPI_HALT  == 1
IPI_TLB   == 2
IpiEvent  == {IPI_SMODE, IPI_HALT, IPI_TLB}

\* The scans "for (i = 0, m = mask; m; i++, m >>= 1)" visit the lowest bit first.
IsLeast(x, S) == x \in S /\ \A y \in S : x <= y

IpiTypeOK ==
  /\ ipi_type \in [Hart -> SUBSET IpiEvent]
  /\ msip \in [Hart -> BOOLEAN]

IpiInit ==
  /\ ipi_type = [h \in Hart |-> {}]
  /\ msip = [h \in Hart |-> FALSE]

\* Mutant: events counted from one.
SetEventBitFromOne(t, ev) ==
  /\ ipi_type' = [ipi_type EXCEPT ![t] = @ \cup {ev + 1}]
  /\ UNCHANGED msip

\* Mutant: the word is stored, not the bit set in it.
StoreEvent(t, ev) ==
  /\ ipi_type' = [ipi_type EXCEPT ![t] = {ev}]
  /\ UNCHANGED msip

\* Sender: atomic_raw_set_bit(event, &ipi_data->ipi_type)
SetEventBit(t, ev) ==
  /\ ipi_type' = [ipi_type EXCEPT ![t] = @ \cup {ev}]
  /\ UNCHANGED msip

\* Sender: sbi_platform_ipi_send, after the write barrier
RaiseMsip(t) ==
  /\ msip' = [msip EXCEPT ![t] = TRUE]
  /\ UNCHANGED ipi_type

\* Receiver: sbi_platform_ipi_clear, the first thing sbi_ipi_process does
ClearMsip(h) ==
  /\ msip[h]
  /\ msip' = [msip EXCEPT ![h] = FALSE]
  /\ UNCHANGED ipi_type

\* Receiver: atomic_raw_xchg_ulong(&ipi_data->ipi_type, 0)
TakeEventBits(h) ==
  /\ ipi_type' = [ipi_type EXCEPT ![h] = {}]
  /\ UNCHANGED msip
=============================================================================
