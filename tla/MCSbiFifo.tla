------------------------------ MODULE MCSbiFifo ------------------------------
(***************************************************************************)
(* An instance of SbiFifo for TLC.  Entries have a key and a weight; as in *)
(* sbi_tlb_update_cb an entry with the same key absorbs a lighter request  *)
(* and is replaced by a heavier one.                                       *)
(***************************************************************************)
EXTENDS SbiFifo

Item(k, w) == [key |-> k, weight |-> w]
MCData == {Item("a", 1), Item("a", 2), Item("b", 1)}

MCCallback(in, entry) ==
  IF entry = Zero \/ in.key # entry.key THEN "unchanged"
  ELSE IF in.weight > entry.weight THEN "updated" ELSE "skip"

MCRewrite(in, entry) == IF MCCallback(in, entry) = "updated" THEN in ELSE entry
=============================================================================
