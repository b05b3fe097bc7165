------------------------------ MODULE MCSbiTlb -------------------------------
(***************************************************************************)
(* Instances of SbiTlb for TLC: 4-bit addresses in 4-byte pages.           *)
(***************************************************************************)
EXTENDS SbiTlb

Ask(t, s, n, a) == [type |-> t, start |-> s, size |-> n, asid |-> a]

\* Two pages, a range over the limit that covers both (upgraded to everything), a
\* tagged page, a tagged range over the limit and an instruction-cache fence.
MergeRequests ==
  {Ask("VMA", 4, 4, 0), Ask("VMA", 8, 4, 0), Ask("VMA", 4, 8, 0),
   Ask("VMA_ASID", 4, 4, 1), Ask("VMA_ASID", 0, 15, 1), Ask("ITLB", 0, 0, 0)}

\* One that merges with its like and one that never merges.
RingRequests == {Ask("VMA", 4, 4, 0), Ask("ITLB", 0, 0, 0)}

\* Everything, in the form start = size = 0, and the first page.
WrapRequests == {Ask("VMA", 0, 0, 0), Ask("VMA", 0, 4, 0)}

\* Only the last set breaks the hypothesis of the theorems on complete fences.
ASSUME FencesApply == Requests # WrapRequests => RequestsFit

EveryMask  == SUBSET Hart
NoMask     == {}
OnceEach   == [h \in Hart |-> 1]
TwiceEach  == [h \in Hart |-> 2]
TwoCallers == [h \in Hart |-> IF h = 2 THEN 0 ELSE 2]
ServerOnly == {{2}}
OneOfTwo   == {{0}, {1}}
=============================================================================
