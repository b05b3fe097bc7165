----------------------------- MODULE SbiTlbRange -----------------------------
(***************************************************************************)
(* The data of a remote fence: what one struct sbi_tlb_info makes a hart   *)
(* forget, and how sbi_tlb_update_cb folds a new request into a queued     *)
(* one.  Addresses are unsigned longs: every sum wraps at AddrSpace.       *)
(***************************************************************************)
EXTENDS Naturals

CONSTANTS
  AddrSpace,   \* 2^XLEN: the number of values of an unsigned long
  PageSize,    \* PAGE_SIZE
  FlushLimit,  \* tlb_range_flush_limit, the platform's bound on a ranged flush
  Asids        \* the address-space (or VM) identifiers in use

ASSUME RangeAssumption ==
  /\ AddrSpace \in Nat /\ PageSize \in Nat /\ FlushLimit \in Nat
  /\ 0 < PageSize /\ PageSize < AddrSpace /\ FlushLimit < AddrSpace - 1

Address  == 0 .. AddrSpace - 1
FLUSH_ALL == AddrSpace - 1
Page     == {a \div PageSize : a \in Address}

\* enum sbi_tlb_info_types, with the translation structure each type fences and
\* whether the fence is confined to one identifier.
Fences ==
  [VMA  |-> "satp",  VMA_ASID  |-> "satp",  GVMA |-> "hgatp", GVMA_VMID |-> "hgatp",
   VVMA |-> "vsatp", VVMA_ASID |-> "vsatp", ITLB |-> "icache"]
FlushType == DOMAIN Fences
Tagged    == {"VMA_ASID", "GVMA_VMID", "VVMA_ASID"}

\* What a caller asks for; a queued entry adds shart_mask, the harts to acknowledge.
TlbInfo == [type : FlushType, start : Address, size : Address, asid : Asids]

-----------------------------------------------------------------------------
Plus(a, b) == (a + b) % AddrSpace
End(e)     == Plus(e.start, e.size)

Everything(e) == e.start = 0 /\ e.size = 0

\* The pages the loop "for (i = 0; i < size; i += PAGE_SIZE)" visits.
PagesOf(e) ==
  IF Everything(e) \/ e.size = FLUSH_ALL
    THEN Page
    ELSE {Plus(e.start, k * PageSize) \div PageSize :
             k \in {n \in Page : n * PageSize < e.size}}

\* The translations a hart drops when it runs sbi_tlb_local_flush on e.
Flushed(e) ==
  {Fences[e.type]}
    \X (IF e.type \in Tagged /\ ~Everything(e) THEN {e.asid} ELSE Asids)
    \X (IF e.type = "ITLB" THEN Page ELSE PagesOf(e))

Translation == {Fences[t] : t \in FlushType} \X Asids \X Page

-----------------------------------------------------------------------------
\* A range too big for page-by-page fences is upgraded to a full flush.
Upgrade(e) ==
  IF e.size > FlushLimit THEN [e EXCEPT !.start = 0, !.size = FLUSH_ALL] ELSE e

\* Mutant: the two ends compared the wrong way round.
RangeCheckSwapped(curr, next) ==
  IF next.start <= curr.start /\ End(next) > End(curr) THEN "updated"
  ELSE IF next.start <= curr.start /\ End(next) <= End(curr) THEN "skip"
  ELSE "unchanged"

RangeCheck(curr, next) ==
  IF next.start <= curr.start /\ End(next) > End(curr) THEN "updated"
  ELSE IF next.start >= curr.start /\ End(next) <= End(curr) THEN "skip"
  ELSE "unchanged"

UpdateCb(curr, next) ==
  IF \/ next.type = "VMA_ASID" /\ curr.type = "VMA_ASID" /\ next.asid = curr.asid
     \/ next.type = "VMA" /\ curr.type = "VMA"
    THEN RangeCheck(curr, next)
    ELSE "unchanged"

\* Mutant: the mask of the queued entry does not learn the new requester.
MergedForgetsRequester(curr, next) ==
  IF RangeCheck(curr, next) = "updated"
    THEN [curr EXCEPT !.start = next.start, !.size = next.size]
    ELSE curr

\* The queued entry after the callback returned "updated" or "skip".
Merged(curr, next) ==
  LET both == curr.shart_mask \cup next.shart_mask
  IN  IF RangeCheck(curr, next) = "updated"
        THEN [curr EXCEPT !.start = next.start, !.size = next.size, !.shart_mask = both]
        ELSE [curr EXCEPT !.shart_mask = both]
=============================================================================
