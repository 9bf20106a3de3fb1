--------------------------------- MODULE Heap --------------------------------
(***************************************************************************)
(* The kernel heap, kernel/src/x86_64/allocator/heap.c.  Addresses and     *)
(* sizes count an abstract unit.  A header at address a describes the      *)
(* block whose data starts at a + Header; nodes maps the addresses of the  *)
(* headers in use to their contents.  The fields next and prev serve two   *)
(* lists at once, as in the code: the global list all_nodes and the free   *)
(* list of the node's bucket.                                              *)
(*                                                                         *)
(* The C functions that change the lists are operators from one heap to    *)
(* the next one, so that a caller composes them in the order of its calls. *)
(***************************************************************************)
EXTENDS Integers, Sequences, FiniteSets, FiniteSetsExt

CONSTANTS
  Header,       \* sizeof(struct linked_list_node)
  Alignment,    \* requests are rounded up to a multiple of it
  Page,         \* the page size
  Thresholds,   \* upper ends of all buckets but the last, which has none
  Frames,       \* how many frames frame_alloc can still supply
  Sizes         \* the sizes callers ask for

ASSUME HeapAssumption ==
  /\ {Header, Alignment, Page, Frames} \subseteq Nat \ {0}
  /\ Header % Alignment = 0 /\ Page % Alignment = 0
  /\ Header + Alignment <= Page
  /\ Thresholds \in Seq(Nat)
  /\ \A i, j \in DOMAIN Thresholds : i < j => Thresholds[i] < Thresholds[j]
  /\ Sizes \subseteq Nat

VARIABLES
  heap,       \* headers, list ends, mapping cursor and frames left
  live,       \* data address -> size asked for: the callers' view
  ret         \* what the latest kmalloc returned

vars == <<heap, live, ret>>

NULL == 0
HEAP_VIRT_BASE == Page
Buckets == 1 .. Len(Thresholds) + 1

NODE_DATA(node) == node + Header
NODE_FROM_DATA(ptr) == ptr - Header

bucket_for_size(size) ==
  Min({b \in Buckets : b \in DOMAIN Thresholds => size < Thresholds[b]})

\* f with the value v at x, new or not.
With(f, x, v) == [y \in DOMAIN f \cup {x} |-> IF y = x THEN v ELSE f[y]]

\* The assignments to the fields of a node, of a bucket's list and of all_nodes.
SetNext(h, node, v) == [h EXCEPT !.nodes[node].next = v]
SetPrev(h, node, v) == [h EXCEPT !.nodes[node].prev = v]
SetSize(h, node, v) == [h EXCEPT !.nodes[node].size = v]
SetUsed(h, node, v) == [h EXCEPT !.nodes[node].used = v]
SetFirst(h, b, v) == [h EXCEPT !.free_lists[b].first = v]
SetLast(h, b, v) == [h EXCEPT !.free_lists[b].last = v]
SetTail(h, v) == [h EXCEPT !.all_nodes.last = v]

FreeHeader(next, prev, size) == [next |-> next, prev |-> prev, size |-> size, used |-> FALSE]

\* A header is written at node, or forgotten when its block is merged.
Headed(h, node, header) == [h EXCEPT !.nodes = With(@, node, header)]
Unheaded(h, node) == [h EXCEPT !.nodes = [n \in DOMAIN @ \ {node} |-> @[n]]]

-----------------------------------------------------------------------------
free_list_insert(h, node) ==
  LET b     == bucket_for_size(h.nodes[node].size)
      first == h.free_lists[b].first
      h1    == IF first # NULL THEN SetPrev(h, first, node) ELSE SetLast(h, b, node)
  IN  SetPrev(SetNext(SetFirst(h1, b, node), node, first), node, NULL)

\* The neighbours in the list are linked to each other.
Unlinked(h, node) ==
  LET b    == bucket_for_size(h.nodes[node].size)
      prev == h.nodes[node].prev
      next == h.nodes[node].next
      h1   == IF prev # NULL THEN SetNext(h, prev, next) ELSE SetFirst(h, b, next)
      after == h1.nodes[node].next
  IN  IF after # NULL THEN SetPrev(h1, after, prev) ELSE SetLast(h1, b, prev)

free_list_remove_KeepsLinks(h, node) == Unlinked(h, node)    \* mutant
free_list_remove(h, node) == SetPrev(SetNext(Unlinked(h, node), node, NULL), node, NULL)

all_nodes_append(h, node) ==
  LET last == h.all_nodes.last
      h1   == IF last # NULL THEN SetNext(h, last, node) ELSE [h EXCEPT !.all_nodes.first = node]
  IN  SetTail(SetNext(SetPrev(h1, node, last), node, NULL), node)

\* One turn of expand_heap: a frame is mapped at the cursor and becomes a free node.
MapPage(h) ==
  LET virt == h.cursor
      h1   == [h EXCEPT !.frames = @ - 1, !.cursor = @ + Page]
  IN  free_list_insert(all_nodes_append(Headed(h1, virt, FreeHeader(NULL, NULL, Page - Header)), virt),
                       virt)

\* Pages are mapped one by one until enough are, or no frame is left.
expand_heap(h, size) ==
  LET frames_needed == (size + Header + Page - 1) \div Page
      mapped[i \in 0 .. frames_needed] ==
        IF i = 0 THEN h
        ELSE LET h1 == mapped[i - 1] IN IF h1.frames = 0 THEN h1 ELSE MapPage(h1)
  IN  mapped[frames_needed]

heap_init ==
  expand_heap([nodes |-> [n \in {} |-> NULL],
               free_lists |-> [b \in Buckets |-> [first |-> NULL, last |-> NULL]],
               all_nodes |-> [first |-> NULL, last |-> NULL],
               cursor |-> HEAP_VIRT_BASE,
               frames |-> Frames], 0)

-----------------------------------------------------------------------------
\* The nodes a walk along a free list meets.  A walk longer than the number of
\* nodes is in a cycle and has met all it ever will.
Walk(h, b) ==
  LET at[k \in 0 .. Cardinality(DOMAIN h.nodes)] ==
        IF k = 0 THEN h.free_lists[b].first
        ELSE LET node == at[k - 1] IN IF node = NULL THEN NULL ELSE h.nodes[node].next
  IN  at

Fits(h, b, size) ==
  {k \in DOMAIN Walk(h, b) : Walk(h, b)[k] # NULL /\ h.nodes[Walk(h, b)[k]].size >= size}
Cyclic(h, b) == Walk(h, b)[Cardinality(DOMAIN h.nodes)] # NULL

\* The buckets where the search of kmalloc stops, for good or for ever.
Stops_SkipsExact(h, size) ==                    \* mutant: starts one bucket too high
  {b \in Buckets : b > bucket_for_size(size) /\ (Fits(h, b, size) # {} \/ Cyclic(h, b))}
Stops(h, size) ==
  {b \in Buckets : b >= bucket_for_size(size) /\ (Fits(h, b, size) # {} \/ Cyclic(h, b))}

RoundUp(size) == ((size + Alignment - 1) \div Alignment) * Alignment

MinSplit == Header + Alignment

SplitAt_InsideData(node, size) == node + size   \* mutant: counted from the header
SplitAt(node, size) == NODE_DATA(node) + size

\* The block found is split when the rest can hold a header and some data.  The
\* node has left its list, so that next is NULL unless the list is broken.
Split(h, node, size) ==
  LET remaining == h.nodes[node].size - size
      split     == SplitAt(node, size)
      next      == h.nodes[node].next
      h1        == Headed(h, split, FreeHeader(next, node, remaining - Header))
      h2        == IF next # NULL THEN SetPrev(h1, next, split) ELSE SetTail(h1, split)
  IN  free_list_insert(SetNext(SetSize(h2, node, size), node, split), split)

Take_ResizesFirst(h, node, size) ==             \* mutant: resized while still listed
  LET h1 == free_list_remove(SetSize(h, node, size), node)
  IN  SetUsed(IF h.nodes[node].size - size >= MinSplit
              THEN Split(SetSize(h1, node, h.nodes[node].size), node, size)
              ELSE free_list_remove(h, node), node, TRUE)
Take(h, node, size) ==
  LET h1 == free_list_remove(h, node)
  IN  SetUsed(IF h.nodes[node].size - size >= MinSplit THEN Split(h1, node, size) ELSE h1,
              node, TRUE)

Return(node, size) ==
  /\ ret' = NODE_DATA(node)
  /\ live' = With(live, NODE_DATA(node), size)

\* A search that enters a cycle never returns: the call takes no step at all.
kmalloc(request) ==
  LET size  == RoundUp(request)
      stops == Stops(heap, size)
      fits  == Fits(heap, Min(stops), size)
  IN
  \/ /\ request = 0
     /\ ret' = NULL
     /\ UNCHANGED <<heap, live>>
  \/ /\ request # 0 /\ stops # {} /\ fits # {}
     /\ LET node == Walk(heap, Min(stops))[Min(fits)]
        IN  heap' = Take(heap, node, size) /\ Return(node, request)
  \/ /\ request # 0 /\ stops = {} /\ heap.frames # 0
     /\ LET head == heap.cursor
        IN  /\ heap' = SetUsed(free_list_remove(expand_heap(heap, size), head), head, TRUE)
            /\ Return(head, request)
  \/ /\ request # 0 /\ stops = {} /\ heap.frames = 0
     /\ ret' = NULL
     /\ UNCHANGED <<heap, live>>

\* node takes over the block of the node after it in memory.
Joined(h, node, next, size) ==
  LET after == h.nodes[next].next
      h1    == SetNext(SetSize(h, node, size), node, after)
      h2    == IF after # NULL THEN SetPrev(h1, after, node) ELSE SetTail(h1, node)
  IN  Unheaded(h2, next)
Absorb_LosesHeader(h, node, next) ==            \* mutant: the header is not added
  Joined(h, node, next, h.nodes[node].size + h.nodes[next].size)
Absorb(h, node, next) ==
  Joined(h, node, next, h.nodes[node].size + Header + h.nodes[next].size)

\* The neighbours kfree merges with: prev first, then the next of the result.
MergeNext(h, node) ==
  LET next == h.nodes[node].next
  IN  IF next # NULL /\ ~ h.nodes[next].used
      THEN Absorb(free_list_remove(h, next), node, next)
      ELSE h

kfree(ptr) ==
  LET node  == NODE_FROM_DATA(ptr)
      h1    == SetUsed(heap, node, FALSE)
      prev  == h1.nodes[node].prev
      merge == prev # NULL /\ ~ h1.nodes[prev].used
      h2    == IF merge THEN Absorb(free_list_remove(h1, prev), prev, node) ELSE h1
      kept  == IF merge THEN prev ELSE node
  IN
  \/ ptr = NULL /\ UNCHANGED vars
  \/ /\ ptr # NULL
     /\ heap' = free_list_insert(MergeNext(h2, kept), kept)
     /\ live' = [p \in DOMAIN live \ {ptr} |-> live[p]]
     /\ UNCHANGED ret

Init ==
  /\ heap = heap_init
  /\ live = [p \in {} |-> 0]
  /\ ret = NULL

Next ==
  \/ \E size \in Sizes : kmalloc(size)
  \/ \E ptr \in DOMAIN live \cup {NULL} : kfree(ptr)

Spec == Init /\ [][Next]_vars

-----------------------------------------------------------------------------
Nodes == DOMAIN heap.nodes
After(node) == NODE_DATA(node) + heap.nodes[node].size
FreeNodes(b) ==
  {n \in Nodes : ~ heap.nodes[n].used /\ bucket_for_size(heap.nodes[n].size) = b}

TypeOK ==
  /\ Nodes \subseteq HEAP_VIRT_BASE .. heap.cursor - 1
  /\ \A n \in Nodes :
       /\ n % Alignment = 0
       /\ heap.nodes[n].size \in Alignment .. heap.cursor
       /\ heap.nodes[n].used \in BOOLEAN
       /\ {heap.nodes[n].next, heap.nodes[n].prev} \subseteq Nodes \cup {NULL}
  /\ heap.frames \in 0 .. Frames
  /\ \A p \in DOMAIN live : live[p] \in Sizes

\* The headers and their blocks tile the mapped memory: splitting and merging
\* neither lose a byte nor let two blocks share one.
Tiling ==
  /\ TypeOK
  /\ HEAP_VIRT_BASE \in Nodes
  /\ \A n \in Nodes :
       /\ After(n) \in Nodes \cup {heap.cursor}
       /\ ~ \E m \in Nodes : n < m /\ m < After(n)

\* "One doubly-linked free list per size bucket": the list of a bucket visits every
\* free node of that size class once and no used one, and prev undoes next.
FreeListsExact ==
  \A b \in Buckets :
    LET at == Walk(heap, b)
        on == {k \in DOMAIN at : at[k] # NULL}
    IN  /\ ~ Cyclic(heap, b)
        /\ {at[k] : k \in on} = FreeNodes(b)
        /\ Cardinality(on) = Cardinality(FreeNodes(b))
        /\ \A k \in on : heap.nodes[at[k]].prev = IF k = 0 THEN NULL ELSE at[k - 1]
        /\ heap.free_lists[b].last = IF on = {} THEN NULL ELSE at[Max(on)]

\* The next pointer of a used node is what kfree merges with: it must lead to the
\* block that follows in memory or nowhere, never to a node elsewhere.
UsedNextAdjacent ==
  \A n \in Nodes : heap.nodes[n].used => heap.nodes[n].next \in {NULL, After(n)}

\* The search misses nothing: whenever some free block is large enough, kmalloc
\* stops at a bucket that holds one, whatever bucket the rounding of the size and
\* the sizes of the blocks put them in.
SearchComplete ==
  \A size \in Sizes \ {0} :
    (\E n \in Nodes : ~ heap.nodes[n].used /\ heap.nodes[n].size >= RoundUp(size))
      => \E b \in Stops(heap, RoundUp(size)) : Fits(heap, b, RoundUp(size)) # {}

\* The heap implements a pool of disjoint blocks: a caller gets "a block of at least
\* size bytes", and memory in use is never handed out again and never written over by
\* a header.  A request for more than a page breaks this, as each page that
\* expand_heap maps for it gets a header of its own.
Headers == UNION {n .. NODE_DATA(n) - 1 : n \in Nodes}
Blocks == INSTANCE BlockPool WITH data <- (HEAP_VIRT_BASE .. heap.cursor - 1) \ Headers
ImplementsBlocks == Blocks!Spec
=============================================================================
