---------------------------- MODULE MCFrameAllocator --------------------------
(***************************************************************************)
(* Small memory maps for FrameAllocator: three-bit words, so that five or  *)
(* six of them, a partly filled last word and a hole are within reach.     *)
(***************************************************************************)
EXTENDS FrameAllocator

Region(u, b, n) == [usable |-> u, base |-> b, length |-> n]

\* Low memory, a hole, a second usable region whose end is not the end of a word,
\* and a device region above the highest usable address.
MapWithHole ==
  <<Region(TRUE, 1, 5), Region(FALSE, 6, 2), Region(TRUE, 8, 6), Region(FALSE, 14, 4)>>

=============================================================================
