------------------------------ MODULE MCSbiLife -------------------------------
(***************************************************************************)
(* Instances of SbiLife for TLC.                                           *)
(***************************************************************************)
EXTENDS SbiLife

\* Somewhere else, first come first served; in place, with a hart that is asked for.
Moved   == [moved |-> TRUE, preferred |-> {}]
InPlace == [moved |-> FALSE, preferred |-> {1}]
BothLoads == {Moved, InPlace}
HartTwo == {{2}}
NoMask  == {}
TwoCallers  == [h \in Hart |-> IF h = 2 THEN 0 ELSE 1]
=============================================================================
