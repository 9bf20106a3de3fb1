------------------------------- MODULE MCFat12 ------------------------------
(***************************************************************************)
(* Files and contents for Fat12.                                           *)
(***************************************************************************)
EXTENDS Fat12

\* Every name fits 8.3.
AllShort == [n \in Names |-> n]

\* Nothing, and files of one, two and three clusters whose last is partly filled.
SomeContents == {<<>>, <<1>>, <<1, 2, 3>>, <<3, 2, 1, 2, 3>>}
=============================================================================
