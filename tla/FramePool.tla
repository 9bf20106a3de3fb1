------------------------------ MODULE FramePool ------------------------------
(***************************************************************************)
(* What the physical frame allocator promises its callers: a pool of       *)
(* frames, each of which is either free or held by exactly one caller.     *)
(* Which free frame a call receives is left open.                          *)
(***************************************************************************)
EXTENDS Naturals

CONSTANTS
  Pool,     \* the frames the machine offers for allocation
  NULL      \* what an allocation that found no frame returns

VARIABLES
  free,     \* frames nobody holds
  held,     \* frames handed out and not yet given back
  ret       \* the result of the latest allocation

poolVars == <<free, held, ret>>

Init ==
  /\ free = Pool
  /\ held = {}
  /\ ret = NULL

\* An allocation fails only when the pool is exhausted.
Alloc ==
  \/ \E f \in free :
       /\ free' = free \ {f}
       /\ held' = held \cup {f}
       /\ ret' = f
  \/ /\ free = {}
     /\ ret' = NULL
     /\ UNCHANGED <<free, held>>

\* Callers give back what they hold.
Free ==
  \E f \in held :
    /\ free' = free \cup {f}
    /\ held' = held \ {f}
    /\ UNCHANGED ret

Next == Alloc \/ Free

Spec == Init /\ [][Next]_poolVars

\* No frame is lost, invented, or both free and held.
Conservation ==
  /\ free \cup held = Pool
  /\ free \cap held = {}
=============================================================================
