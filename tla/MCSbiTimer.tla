------------------------------ MODULE MCSbiTimer -----------------------------
(***************************************************************************)
(* An instance of SbiTimer for TLC: registers of two digits to the base    *)
(* three, a clock that carries into the high one.                    *)
(***************************************************************************)
EXTENDS SbiTimer

\* Soon passed, beyond a carry, switched off.
SomeDeadlines == {1, 4, Never}
TwoCallers == [h \in Hart |-> IF h = 0 THEN 2 ELSE 1]
=============================================================================
