------------------------------ MODULE MCKeyboard ----------------------------
(***************************************************************************)
(* The module that TLC runs for Keyboard; its constants are numbers.       *)
(***************************************************************************)
EXTENDS Keyboard
=============================================================================
