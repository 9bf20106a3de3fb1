----------------------------- MODULE MCInterrupts ---------------------------
(***************************************************************************)
(* The module that TLC runs for Interrupts; its constants are numbers.     *)
(***************************************************************************)
EXTENDS Interrupts
=============================================================================
