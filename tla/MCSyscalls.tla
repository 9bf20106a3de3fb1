------------------------------ MODULE MCSyscalls ----------------------------
(***************************************************************************)
(* Names and contents for Syscalls.                                        *)
(***************************************************************************)
EXTENDS Syscalls, TLC

\* Every name fits 8.3.
AllShort == [n \in Names |-> n]

\* No data, and files of part of a cluster and of a whole one.
FileData == {<<>>, <<1>>, <<2, 2>>}
=============================================================================
