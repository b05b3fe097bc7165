------------------------------- MODULE MCD1Irq -------------------------------
(***************************************************************************)
(* Instances of D1Irq for TLC.                                             *)
(***************************************************************************)
EXTENDS D1Irq

AllSources == {UART, WDOG, GPIO}
UartOnly   == {UART}
=============================================================================
