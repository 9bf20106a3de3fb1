------------------------------- MODULE BlockPool ------------------------------
(***************************************************************************)
(* What a heap promises: "at least size bytes" for a request that          *)
(* succeeds, in memory that is mapped, overlaps no block still in use, and *)
(* holds none of the heap's own headers for as long as it is in use.       *)
(* Freeing a block gives back exactly that block.  When a request may fail *)
(* is left open, and so is where the headers are.                          *)
(***************************************************************************)
EXTENDS Naturals

CONSTANTS
  Sizes,    \* the sizes that are asked for
  NULL      \* the result of a request that failed

VARIABLES
  data,     \* the addresses that are mapped and belong to no header
  live,     \* the blocks in use: start address -> size asked for
  ret       \* the result of the latest request

blockVars == <<data, live, ret>>

Extent(p, size) == p .. p + size - 1

\* The heap may move its headers in any step, but never into a block in use.
Kept == \A p \in DOMAIN live : Extent(p, live[p]) \subseteq data

Init == live = [p \in {} |-> 0] /\ ret = NULL

Alloc(size) ==
  \/ \E p \in data' \ DOMAIN live :
       /\ size # 0
       /\ \A q \in DOMAIN live : Extent(p, size) \cap Extent(q, live[q]) = {}
       /\ live' = [q \in DOMAIN live \cup {p} |-> IF q = p THEN size ELSE live[q]]
       /\ ret' = p
  \/ ret' = NULL /\ UNCHANGED <<data, live>>

Free(p) ==
  /\ live' = [q \in DOMAIN live \ {p} |-> live[q]]
  /\ UNCHANGED ret

Next ==
  /\ (\E size \in Sizes : Alloc(size)) \/ (\E p \in DOMAIN live : Free(p))
  /\ Kept'

Spec == Init /\ [][Next]_blockVars
=============================================================================
