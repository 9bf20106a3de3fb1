-------------------------------- MODULE MCHeap -------------------------------
(***************************************************************************)
(* The module that TLC runs for Heap: size classes, in units of a few      *)
(* bytes, and what callers ask for.  Either there is a single page, cut    *)
(* into small blocks, or there are several and a request fills one.  With  *)
(* requests of any size (Spec, HeapTwoPages.cfg, HeapLarge.cfg) the heap   *)
(* does not keep its promises.                                             *)
(***************************************************************************)
EXTENDS Heap

\* Three classes, with requests in each of them.
OnePageThresholds == <<4, 8>>

\* Two classes: less than half a page, and the rest.
PagesThresholds == <<6>>

SinglePage == heap.frames = 0 /\ heap.cursor = HEAP_VIRT_BASE + Page
Requests == {size \in Sizes : SinglePage <=> size < Page \div 2}

MCInit ==
  \/ Init
  \/ heap = [heap_init EXCEPT !.frames = 0] /\ live = [p \in {} |-> 0] /\ ret = NULL

MCNext ==
  \/ \E size \in Requests : kmalloc(size)
  \/ \E ptr \in DOMAIN live \cup {NULL} : kfree(ptr)

MCSpec == MCInit /\ [][MCNext]_vars
=============================================================================
