--------------------------------- MODULE MCVmm --------------------------------
(***************************************************************************)
(* The tables the boot loader leaves for Vmm.                            *)
(***************************************************************************)
EXTENDS Vmm

\* The boot loader's tables in the two copied slots.
LoaderTables == [s \in CopiedSlots |-> 10 + s]
=============================================================================
