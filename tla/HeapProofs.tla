------------------------------- MODULE HeapProofs -----------------------------
(***************************************************************************)
(* The heap's lists and blocks, for every page size, header, alignment,    *)
(* table of size classes and set of requests, as long as the heap has the  *)
(* one page it starts with.  (With a second page FreeListsExact fails: the *)
(* run of HeapTwoPages.cfg.)  The inductive invariant says of each bucket  *)
(* that some enumeration of its free nodes is what its list links, and of  *)
(* the used nodes that prev is empty and next leads nowhere but to the     *)
(* block that follows.                                                     *)
(***************************************************************************)
EXTENDS Heap, NatLemmas, FiniteSetTheorems, FunctionTheorems

-----------------------------------------------------------------------------
(* The heaps with headers at the addresses of D.                           *)

NodeType == [next : Int, prev : Int, size : Int, used : BOOLEAN]
ListType == [first : Int, last : Int]
HeapOver(D) == [nodes : [D -> NodeType], free_lists : [Buckets -> ListType],
                all_nodes : ListType, cursor : Int, frames : Int]

\* What no assignment to a node or a list changes.
SameEnds(h, r) == r.cursor = h.cursor /\ r.frames = h.frames
SameLists(h, r) == r.free_lists = h.free_lists /\ SameEnds(h, r)
SameNodes(h, r) == r.nodes = h.nodes /\ SameEnds(h, r)

LEMMA NodeAssigned ==
  ASSUME NEW D, NEW N \in [D -> NodeType], NEW x \in D, NEW v \in Int
  PROVE  /\ [N EXCEPT ![x].next = v] \in [D -> NodeType]
         /\ [N EXCEPT ![x].prev = v] \in [D -> NodeType]
         /\ [N EXCEPT ![x].size = v] \in [D -> NodeType]
  BY DEF NodeType

LEMMA NodesAssigned ==
  ASSUME NEW D, NEW h \in HeapOver(D), NEW N \in [D -> NodeType]
  PROVE  [h EXCEPT !.nodes = N] \in HeapOver(D) /\ [h EXCEPT !.nodes = N].nodes = N
         /\ SameLists(h, [h EXCEPT !.nodes = N])
  BY DEF HeapOver, SameLists, SameEnds

LEMMA NextSet ==
  ASSUME NEW D, NEW h \in HeapOver(D), NEW x \in D, NEW v \in Int
  PROVE  /\ SetNext(h, x, v) \in HeapOver(D) /\ SameLists(h, SetNext(h, x, v))
         /\ SetNext(h, x, v).nodes = [h.nodes EXCEPT ![x].next = v]
<1> DEFINE N == [h.nodes EXCEPT ![x].next = v]
<1>1. h.nodes \in [D -> NodeType]
  BY DEF HeapOver
<1>2. N \in [D -> NodeType]
  BY ONLY <1>1, x \in D, v \in Int, NodeAssigned
<1>3. SetNext(h, x, v) = [h EXCEPT !.nodes = N]
  BY DEF SetNext
<1> HIDE DEF N
<1>4. /\ [h EXCEPT !.nodes = N] \in HeapOver(D) /\ [h EXCEPT !.nodes = N].nodes = N
      /\ SameLists(h, [h EXCEPT !.nodes = N])
  BY ONLY <1>2, h \in HeapOver(D), NodesAssigned
<1> QED  BY ONLY <1>3, <1>4 DEF N

LEMMA PrevSet ==
  ASSUME NEW D, NEW h \in HeapOver(D), NEW x \in D, NEW v \in Int
  PROVE  /\ SetPrev(h, x, v) \in HeapOver(D) /\ SameLists(h, SetPrev(h, x, v))
         /\ SetPrev(h, x, v).nodes = [h.nodes EXCEPT ![x].prev = v]
<1> DEFINE N == [h.nodes EXCEPT ![x].prev = v]
<1>1. h.nodes \in [D -> NodeType]
  BY DEF HeapOver
<1>2. N \in [D -> NodeType]
  BY ONLY <1>1, x \in D, v \in Int, NodeAssigned
<1>3. SetPrev(h, x, v) = [h EXCEPT !.nodes = N]
  BY DEF SetPrev
<1> HIDE DEF N
<1>4. /\ [h EXCEPT !.nodes = N] \in HeapOver(D) /\ [h EXCEPT !.nodes = N].nodes = N
      /\ SameLists(h, [h EXCEPT !.nodes = N])
  BY ONLY <1>2, h \in HeapOver(D), NodesAssigned
<1> QED  BY ONLY <1>3, <1>4 DEF N

LEMMA SizeSet ==
  ASSUME NEW D, NEW h \in HeapOver(D), NEW x \in D, NEW v \in Int
  PROVE  /\ SetSize(h, x, v) \in HeapOver(D) /\ SameLists(h, SetSize(h, x, v))
         /\ SetSize(h, x, v).nodes = [h.nodes EXCEPT ![x].size = v]
<1> DEFINE N == [h.nodes EXCEPT ![x].size = v]
<1>1. h.nodes \in [D -> NodeType]
  BY DEF HeapOver
<1>2. N \in [D -> NodeType]
  BY ONLY <1>1, x \in D, v \in Int, NodeAssigned
<1>3. SetSize(h, x, v) = [h EXCEPT !.nodes = N]
  BY DEF SetSize
<1> HIDE DEF N
<1>4. /\ [h EXCEPT !.nodes = N] \in HeapOver(D) /\ [h EXCEPT !.nodes = N].nodes = N
      /\ SameLists(h, [h EXCEPT !.nodes = N])
  BY ONLY <1>2, h \in HeapOver(D), NodesAssigned
<1> QED  BY ONLY <1>3, <1>4 DEF N

LEMMA FirstSet ==
  ASSUME NEW D, NEW h \in HeapOver(D), NEW b \in Buckets, NEW v \in Int
  PROVE  /\ SetFirst(h, b, v) \in HeapOver(D) /\ SameNodes(h, SetFirst(h, b, v))
         /\ SetFirst(h, b, v).free_lists = [h.free_lists EXCEPT ![b].first = v]
  BY DEF SetFirst, HeapOver, ListType, SameNodes, SameEnds

LEMMA LastSet ==
  ASSUME NEW D, NEW h \in HeapOver(D), NEW b \in Buckets, NEW v \in Int
  PROVE  /\ SetLast(h, b, v) \in HeapOver(D) /\ SameNodes(h, SetLast(h, b, v))
         /\ SetLast(h, b, v).free_lists = [h.free_lists EXCEPT ![b].last = v]
  BY DEF SetLast, HeapOver, ListType, SameNodes, SameEnds

LEMMA TailSet ==
  ASSUME NEW D, NEW h \in HeapOver(D), NEW v \in Int
  PROVE  /\ SetTail(h, v) \in HeapOver(D) /\ SameNodes(h, SetTail(h, v))
         /\ SameLists(h, SetTail(h, v))
  BY DEF SetTail, HeapOver, ListType, SameNodes, SameLists, SameEnds

\* The same, field by field.
LEMMA NextField ==
  ASSUME NEW D, NEW h \in HeapOver(D), NEW x \in D, NEW v \in Int, NEW m \in D
  PROVE  LET r == SetNext(h, x, v)
         IN  /\ r.nodes[m].next = (IF m = x THEN v ELSE h.nodes[m].next)
             /\ r.nodes[m].prev = h.nodes[m].prev /\ r.nodes[m].size = h.nodes[m].size
             /\ r.nodes[m].used = h.nodes[m].used
<1>1. h.nodes \in [D -> NodeType] /\ h.nodes[x] \in NodeType
  BY DEF HeapOver
<1>2. SetNext(h, x, v).nodes = [h.nodes EXCEPT ![x].next = v]
  BY NextSet
<1>3. [h.nodes EXCEPT ![x].next = v][m] = IF m = x THEN [h.nodes[x] EXCEPT !.next = v] ELSE h.nodes[m]
  BY <1>1
<1>4. LET e == [h.nodes[x] EXCEPT !.next = v]
      IN  /\ e.next = v /\ e.prev = h.nodes[x].prev /\ e.size = h.nodes[x].size
          /\ e.used = h.nodes[x].used
  BY <1>1 DEF NodeType
<1> QED  BY ONLY <1>2, <1>3, <1>4, Zenon

LEMMA PrevField ==
  ASSUME NEW D, NEW h \in HeapOver(D), NEW x \in D, NEW v \in Int, NEW m \in D
  PROVE  LET r == SetPrev(h, x, v)
         IN  /\ r.nodes[m].prev = (IF m = x THEN v ELSE h.nodes[m].prev)
             /\ r.nodes[m].next = h.nodes[m].next /\ r.nodes[m].size = h.nodes[m].size
             /\ r.nodes[m].used = h.nodes[m].used
<1>1. h.nodes \in [D -> NodeType] /\ h.nodes[x] \in NodeType
  BY DEF HeapOver
<1>2. SetPrev(h, x, v).nodes = [h.nodes EXCEPT ![x].prev = v]
  BY PrevSet
<1>3. [h.nodes EXCEPT ![x].prev = v][m] = IF m = x THEN [h.nodes[x] EXCEPT !.prev = v] ELSE h.nodes[m]
  BY <1>1
<1>4. LET e == [h.nodes[x] EXCEPT !.prev = v]
      IN  /\ e.prev = v /\ e.next = h.nodes[x].next /\ e.size = h.nodes[x].size
          /\ e.used = h.nodes[x].used
  BY <1>1 DEF NodeType
<1> QED  BY ONLY <1>2, <1>3, <1>4, Zenon

LEMMA SizeField ==
  ASSUME NEW D, NEW h \in HeapOver(D), NEW x \in D, NEW v \in Int, NEW m \in D
  PROVE  LET r == SetSize(h, x, v)
         IN  /\ r.nodes[m].size = (IF m = x THEN v ELSE h.nodes[m].size)
             /\ r.nodes[m].next = h.nodes[m].next /\ r.nodes[m].prev = h.nodes[m].prev
             /\ r.nodes[m].used = h.nodes[m].used
<1>1. h.nodes \in [D -> NodeType] /\ h.nodes[x] \in NodeType
  BY DEF HeapOver
<1>2. SetSize(h, x, v).nodes = [h.nodes EXCEPT ![x].size = v]
  BY SizeSet
<1>3. [h.nodes EXCEPT ![x].size = v][m] = IF m = x THEN [h.nodes[x] EXCEPT !.size = v] ELSE h.nodes[m]
  BY <1>1
<1>4. LET e == [h.nodes[x] EXCEPT !.size = v]
      IN  /\ e.size = v /\ e.next = h.nodes[x].next /\ e.prev = h.nodes[x].prev
          /\ e.used = h.nodes[x].used
  BY <1>1 DEF NodeType
<1> QED  BY ONLY <1>2, <1>3, <1>4, Zenon

\* From h to r, x becomes used, or free, and nothing else changes.
Marked(D, h, x, r) ==
  /\ r \in HeapOver(D) /\ SameLists(h, r)
  /\ \A m \in D :
       /\ r.nodes[m].used <=> (m = x \/ h.nodes[m].used)
       /\ r.nodes[m].next = h.nodes[m].next /\ r.nodes[m].prev = h.nodes[m].prev
       /\ r.nodes[m].size = h.nodes[m].size
Cleared(D, h, x, r) ==
  /\ r \in HeapOver(D) /\ SameLists(h, r)
  /\ \A m \in D :
       /\ r.nodes[m].used <=> (m # x /\ h.nodes[m].used)
       /\ r.nodes[m].next = h.nodes[m].next /\ r.nodes[m].prev = h.nodes[m].prev
       /\ r.nodes[m].size = h.nodes[m].size

LEMMA UsedOn ==
  ASSUME NEW D, NEW h \in HeapOver(D), NEW x \in D
  PROVE  Marked(D, h, x, SetUsed(h, x, TRUE))
<1> DEFINE N == [h.nodes EXCEPT ![x].used = TRUE]
<1>1. h.nodes \in [D -> NodeType] /\ h.nodes[x] \in NodeType
  BY DEF HeapOver
<1>2. N \in [D -> NodeType]
  BY <1>1 DEF NodeType
<1>3. \A m \in D : N[m] = IF m = x THEN [h.nodes[x] EXCEPT !.used = TRUE] ELSE h.nodes[m]
  BY <1>1
<1>4. SetUsed(h, x, TRUE) = [h EXCEPT !.nodes = N]
  BY DEF SetUsed
<1>5. LET e == [h.nodes[x] EXCEPT !.used = TRUE]
      IN  /\ e.used = TRUE /\ e.next = h.nodes[x].next /\ e.prev = h.nodes[x].prev
          /\ e.size = h.nodes[x].size
  BY <1>1, Zenon DEF NodeType
<1> HIDE DEF N
<1>6. /\ [h EXCEPT !.nodes = N] \in HeapOver(D) /\ [h EXCEPT !.nodes = N].nodes = N
      /\ SameLists(h, [h EXCEPT !.nodes = N])
  BY ONLY <1>2, h \in HeapOver(D), NodesAssigned
<1>7. \A m \in D :
        /\ N[m].used <=> (m = x \/ h.nodes[m].used)
        /\ N[m].next = h.nodes[m].next /\ N[m].prev = h.nodes[m].prev
        /\ N[m].size = h.nodes[m].size
  BY ONLY <1>3, <1>5, Zenon
<1> DEFINE r == SetUsed(h, x, TRUE)
<1>8. r \in HeapOver(D) /\ SameLists(h, r) /\ r.nodes = N
  BY ONLY <1>4, <1>6
<1> HIDE DEF r
<1>9. Marked(D, h, x, r)
  BY ONLY <1>7, <1>8 DEF Marked
<1> QED  BY ONLY <1>9 DEF r

LEMMA UsedOff ==
  ASSUME NEW D, NEW h \in HeapOver(D), NEW x \in D
  PROVE  Cleared(D, h, x, SetUsed(h, x, FALSE))
<1> DEFINE N == [h.nodes EXCEPT ![x].used = FALSE]
<1>1. h.nodes \in [D -> NodeType] /\ h.nodes[x] \in NodeType
  BY DEF HeapOver
<1>2. N \in [D -> NodeType]
  BY <1>1 DEF NodeType
<1>3. \A m \in D : N[m] = IF m = x THEN [h.nodes[x] EXCEPT !.used = FALSE] ELSE h.nodes[m]
  BY <1>1
<1>4. SetUsed(h, x, FALSE) = [h EXCEPT !.nodes = N]
  BY DEF SetUsed
<1>5. LET e == [h.nodes[x] EXCEPT !.used = FALSE]
      IN  /\ e.used = FALSE /\ e.next = h.nodes[x].next /\ e.prev = h.nodes[x].prev
          /\ e.size = h.nodes[x].size
  BY <1>1, Zenon DEF NodeType
<1> HIDE DEF N
<1>6. /\ [h EXCEPT !.nodes = N] \in HeapOver(D) /\ [h EXCEPT !.nodes = N].nodes = N
      /\ SameLists(h, [h EXCEPT !.nodes = N])
  BY ONLY <1>2, h \in HeapOver(D), NodesAssigned
<1>7. \A m \in D :
        /\ N[m].used <=> (m # x /\ h.nodes[m].used)
        /\ N[m].next = h.nodes[m].next /\ N[m].prev = h.nodes[m].prev
        /\ N[m].size = h.nodes[m].size
  BY ONLY <1>3, <1>5, Zenon
<1> DEFINE r == SetUsed(h, x, FALSE)
<1>8. r \in HeapOver(D) /\ SameLists(h, r) /\ r.nodes = N
  BY ONLY <1>4, <1>6
<1> HIDE DEF r
<1>9. Cleared(D, h, x, r)
  BY ONLY <1>7, <1>8 DEF Cleared
<1> QED  BY ONLY <1>9 DEF r

LEMMA ListField ==
  ASSUME NEW D, NEW h \in HeapOver(D), NEW b \in Buckets, NEW v \in Int, NEW c \in Buckets
  PROVE  /\ SetFirst(h, b, v).free_lists[c].first = (IF c = b THEN v ELSE h.free_lists[c].first)
         /\ SetFirst(h, b, v).free_lists[c].last = h.free_lists[c].last
         /\ SetLast(h, b, v).free_lists[c].last = (IF c = b THEN v ELSE h.free_lists[c].last)
         /\ SetLast(h, b, v).free_lists[c].first = h.free_lists[c].first
<1>1. h.free_lists \in [Buckets -> ListType]
  BY DEF HeapOver
<1>2. SetFirst(h, b, v).free_lists = [h.free_lists EXCEPT ![b].first = v]
  BY FirstSet
<1>3. SetLast(h, b, v).free_lists = [h.free_lists EXCEPT ![b].last = v]
  BY LastSet
<1> QED  BY <1>1, <1>2, <1>3 DEF ListType

-----------------------------------------------------------------------------
(* What inserting into a list and removing from it does to each field.     *)

LEMMA BucketType ==
  ASSUME NEW size \in Int
  PROVE  /\ bucket_for_size(size) \in Buckets
         /\ \A b \in Buckets : (b \in DOMAIN Thresholds => size < Thresholds[b])
              => bucket_for_size(size) <= b
         /\ bucket_for_size(size) \in DOMAIN Thresholds => size < Thresholds[bucket_for_size(size)]
<1> DEFINE S == {b \in Buckets : b \in DOMAIN Thresholds => size < Thresholds[b]}
<1>1. Len(Thresholds) \in Nat /\ DOMAIN Thresholds = 1 .. Len(Thresholds)
  BY HeapAssumption
<1>2. Len(Thresholds) + 1 \in S
  BY <1>1 DEF Buckets
<1>3. S \in SUBSET Nat
  BY <1>1 DEF Buckets
<1>4. \E m \in S : \A n \in S : m <= n
  BY <1>2, <1>3, LeastNat
<1>5. Min(S) \in S /\ \A n \in S : Min(S) <= n
  BY <1>4 DEF Min
<1>6. bucket_for_size(size) = Min(S)
  BY DEF bucket_for_size
<1> QED  BY <1>5, <1>6

\* A heap whose links lead to headers; no header is at address 0.
Linked(D, h) ==
  /\ D \in SUBSET Int /\ NULL \notin D /\ h \in HeapOver(D)

LEMMA InsertEffect ==
  ASSUME NEW D, NEW h, Linked(D, h), NEW node \in D, NEW b, b = bucket_for_size(h.nodes[node].size),
         NEW first, first = h.free_lists[b].first, first \in (D \cup {NULL}) \ {node}
  PROVE  LET r == free_list_insert(h, node)
         IN  /\ Linked(D, r) /\ SameEnds(h, r)
             /\ \A m \in D :
                  /\ r.nodes[m].size = h.nodes[m].size /\ r.nodes[m].used = h.nodes[m].used
                  /\ r.nodes[m].next = IF m = node THEN first ELSE h.nodes[m].next
                  /\ r.nodes[m].prev = IF m = node THEN NULL ELSE IF m = first THEN node
                                      ELSE h.nodes[m].prev
             /\ \A c \in Buckets :
                  /\ r.free_lists[c].first = IF c = b THEN node ELSE h.free_lists[c].first
                  /\ r.free_lists[c].last = IF c = b /\ first = NULL THEN node ELSE h.free_lists[c].last
<1> DEFINE h1 == IF first # NULL THEN SetPrev(h, first, node) ELSE SetLast(h, b, node)
           h2 == SetFirst(h1, b, node)
           h3 == SetNext(h2, node, first)
           h4 == SetPrev(h3, node, NULL)
<1>1. free_list_insert(h, node) = h4
  BY DEF free_list_insert
<1> HIDE DEF h1, h2, h3, h4
<1>2. /\ D \in SUBSET Int /\ NULL \notin D /\ h \in HeapOver(D) /\ node \in Int /\ first \in Int
      /\ NULL \in Int /\ b \in Buckets
  <2>1. D \in SUBSET Int /\ NULL \notin D /\ h \in HeapOver(D)
    BY DEF Linked
  <2>2. h.nodes[node].size \in Int
    BY <2>1 DEF HeapOver, NodeType
  <2> QED  BY <2>1, <2>2, BucketType DEF NULL
<1>3. /\ h1 \in HeapOver(D) /\ SameEnds(h, h1)
      /\ \A m \in D : /\ h1.nodes[m].size = h.nodes[m].size /\ h1.nodes[m].used = h.nodes[m].used
                      /\ h1.nodes[m].next = h.nodes[m].next
                      /\ h1.nodes[m].prev = IF m = first THEN node ELSE h.nodes[m].prev
      /\ \A c \in Buckets :
           /\ h1.free_lists[c].first = h.free_lists[c].first
           /\ h1.free_lists[c].last = IF c = b /\ first = NULL THEN node ELSE h.free_lists[c].last
  <2>1. CASE first # NULL
    <3>1. h1 = SetPrev(h, first, node) /\ first \in D
      BY <2>1 DEF h1
    <3>2. h1 \in HeapOver(D) /\ SameLists(h, h1)
      BY ONLY <1>2, <3>1, PrevSet, node \in D
    <3>3. \A m \in D : /\ h1.nodes[m].size = h.nodes[m].size /\ h1.nodes[m].used = h.nodes[m].used
                       /\ h1.nodes[m].next = h.nodes[m].next
                       /\ h1.nodes[m].prev = IF m = first THEN node ELSE h.nodes[m].prev
      BY ONLY <1>2, <3>1, PrevField
    <3> QED  BY <2>1, <3>2, <3>3 DEF SameLists
  <2>2. CASE first = NULL
    <3>1. h1 = SetLast(h, b, node)
      BY <2>2 DEF h1
    <3>2. h1 \in HeapOver(D) /\ SameNodes(h, h1)
      BY ONLY <1>2, <3>1, LastSet
    <3>3. \A c \in Buckets :
           /\ h1.free_lists[c].first = h.free_lists[c].first
           /\ h1.free_lists[c].last = IF c = b THEN node ELSE h.free_lists[c].last
      BY ONLY <1>2, <3>1, ListField
    <3> QED  BY <1>2, <2>2, <3>2, <3>3 DEF SameNodes
  <2> QED  BY <2>1, <2>2
<1>4. h2 \in HeapOver(D) /\ SameNodes(h1, h2)
  BY ONLY <1>2, <1>3, FirstSet DEF h2
<1>5. \A c \in Buckets : /\ h2.free_lists[c].first = IF c = b THEN node ELSE h1.free_lists[c].first
                         /\ h2.free_lists[c].last = h1.free_lists[c].last
  BY ONLY <1>2, <1>3, ListField DEF h2
<1>6. h3 \in HeapOver(D) /\ SameLists(h2, h3)
  BY ONLY <1>2, <1>4, NextSet, node \in D DEF h3
<1>7. \A m \in D : /\ h3.nodes[m].next = IF m = node THEN first ELSE h2.nodes[m].next
                   /\ h3.nodes[m].prev = h2.nodes[m].prev /\ h3.nodes[m].size = h2.nodes[m].size
                   /\ h3.nodes[m].used = h2.nodes[m].used
  BY ONLY <1>2, <1>4, NextField, node \in D DEF h3
<1>8. h4 \in HeapOver(D) /\ SameLists(h3, h4)
  BY ONLY <1>2, <1>6, PrevSet, node \in D DEF h4
<1>9. \A m \in D : /\ h4.nodes[m].prev = IF m = node THEN NULL ELSE h3.nodes[m].prev
                   /\ h4.nodes[m].next = h3.nodes[m].next /\ h4.nodes[m].size = h3.nodes[m].size
                   /\ h4.nodes[m].used = h3.nodes[m].used
  BY ONLY <1>2, <1>6, PrevField, node \in D DEF h4
<1>10. Linked(D, h4) /\ SameEnds(h, h4)
  BY <1>2, <1>3, <1>4, <1>6, <1>8 DEF Linked, SameNodes, SameLists, SameEnds
<1>11. \A m \in D :
         /\ h4.nodes[m].size = h.nodes[m].size /\ h4.nodes[m].used = h.nodes[m].used
         /\ h4.nodes[m].next = IF m = node THEN first ELSE h.nodes[m].next
         /\ h4.nodes[m].prev = IF m = node THEN NULL ELSE IF m = first THEN node ELSE h.nodes[m].prev
  BY <1>3, <1>4, <1>7, <1>9 DEF SameNodes
<1>12. \A c \in Buckets :
         /\ h4.free_lists[c].first = IF c = b THEN node ELSE h.free_lists[c].first
         /\ h4.free_lists[c].last = IF c = b /\ first = NULL THEN node ELSE h.free_lists[c].last
  BY <1>3, <1>5, <1>6, <1>8 DEF SameLists
<1> QED  BY ONLY <1>1, <1>10, <1>11, <1>12

LEMMA RemoveEffect ==
  ASSUME NEW D, NEW h, Linked(D, h), NEW node \in D, NEW b, b = bucket_for_size(h.nodes[node].size),
         NEW prev, prev = h.nodes[node].prev, prev \in (D \cup {NULL}) \ {node},
         NEW next, next = h.nodes[node].next, next \in (D \cup {NULL}) \ {node}
  PROVE  LET r == free_list_remove(h, node)
         IN  /\ Linked(D, r) /\ SameEnds(h, r)
             /\ \A m \in D :
                  /\ r.nodes[m].size = h.nodes[m].size /\ r.nodes[m].used = h.nodes[m].used
                  /\ r.nodes[m].next = IF m = node THEN NULL ELSE IF m = prev THEN next
                                      ELSE h.nodes[m].next
                  /\ r.nodes[m].prev = IF m = node THEN NULL ELSE IF m = next THEN prev
                                      ELSE h.nodes[m].prev
             /\ \A c \in Buckets :
                  /\ r.free_lists[c].first = IF c = b /\ prev = NULL THEN next ELSE h.free_lists[c].first
                  /\ r.free_lists[c].last = IF c = b /\ next = NULL THEN prev ELSE h.free_lists[c].last
<1> DEFINE h1 == IF prev # NULL THEN SetNext(h, prev, next) ELSE SetFirst(h, b, next)
           after == h1.nodes[node].next
           h2 == IF after # NULL THEN SetPrev(h1, after, prev) ELSE SetLast(h1, b, prev)
           h3 == SetNext(h2, node, NULL)
           h4 == SetPrev(h3, node, NULL)
<1>1. free_list_remove(h, node) = h4
  BY DEF free_list_remove, Unlinked
<1> HIDE DEF h1, after, h2, h3, h4
<1>2. /\ D \in SUBSET Int /\ NULL \notin D /\ h \in HeapOver(D) /\ prev \in Int /\ next \in Int
      /\ NULL \in Int /\ b \in Buckets
  <2>1. D \in SUBSET Int /\ NULL \notin D /\ h \in HeapOver(D)
    BY DEF Linked
  <2>2. h.nodes[node].size \in Int
    BY <2>1 DEF HeapOver, NodeType
  <2> QED  BY <2>1, <2>2, BucketType DEF NULL
<1>3. /\ h1 \in HeapOver(D) /\ SameEnds(h, h1)
      /\ \A m \in D : /\ h1.nodes[m].size = h.nodes[m].size /\ h1.nodes[m].used = h.nodes[m].used
                      /\ h1.nodes[m].next = IF m = prev THEN next ELSE h.nodes[m].next
                      /\ h1.nodes[m].prev = h.nodes[m].prev
      /\ \A c \in Buckets :
           /\ h1.free_lists[c].first = IF c = b /\ prev = NULL THEN next ELSE h.free_lists[c].first
           /\ h1.free_lists[c].last = h.free_lists[c].last
  <2>1. CASE prev # NULL
    <3>1. h1 = SetNext(h, prev, next) /\ prev \in D
      BY <2>1 DEF h1
    <3>2. h1 \in HeapOver(D) /\ SameLists(h, h1)
      BY ONLY <1>2, <3>1, NextSet
    <3>3. \A m \in D : /\ h1.nodes[m].size = h.nodes[m].size /\ h1.nodes[m].used = h.nodes[m].used
                       /\ h1.nodes[m].next = IF m = prev THEN next ELSE h.nodes[m].next
                       /\ h1.nodes[m].prev = h.nodes[m].prev
      BY ONLY <1>2, <3>1, NextField
    <3> QED  BY <2>1, <3>2, <3>3 DEF SameLists
  <2>2. CASE prev = NULL
    <3>1. h1 = SetFirst(h, b, next)
      BY <2>2 DEF h1
    <3>2. h1 \in HeapOver(D) /\ SameNodes(h, h1)
      BY ONLY <1>2, <3>1, FirstSet
    <3>3. \A c \in Buckets :
           /\ h1.free_lists[c].first = IF c = b THEN next ELSE h.free_lists[c].first
           /\ h1.free_lists[c].last = h.free_lists[c].last
      BY ONLY <1>2, <3>1, ListField
    <3> QED  BY <1>2, <2>2, <3>2, <3>3 DEF SameNodes
  <2> QED  BY <2>1, <2>2
<1>4. after = next
  BY <1>3 DEF after
<1>5. /\ h2 \in HeapOver(D) /\ SameEnds(h1, h2)
      /\ \A m \in D : /\ h2.nodes[m].size = h1.nodes[m].size /\ h2.nodes[m].used = h1.nodes[m].used
                      /\ h2.nodes[m].next = h1.nodes[m].next
                      /\ h2.nodes[m].prev = IF m = next THEN prev ELSE h1.nodes[m].prev
      /\ \A c \in Buckets :
           /\ h2.free_lists[c].first = h1.free_lists[c].first
           /\ h2.free_lists[c].last = IF c = b /\ next = NULL THEN prev ELSE h1.free_lists[c].last
  <2>1. CASE next # NULL
    <3>1. h2 = SetPrev(h1, next, prev) /\ next \in D
      BY <1>4, <2>1 DEF h2
    <3>2. h2 \in HeapOver(D) /\ SameLists(h1, h2)
      BY ONLY <1>2, <1>3, <3>1, PrevSet
    <3>3. \A m \in D : /\ h2.nodes[m].size = h1.nodes[m].size /\ h2.nodes[m].used = h1.nodes[m].used
                       /\ h2.nodes[m].next = h1.nodes[m].next
                       /\ h2.nodes[m].prev = IF m = next THEN prev ELSE h1.nodes[m].prev
      BY ONLY <1>2, <1>3, <3>1, PrevField
    <3> QED  BY <2>1, <3>2, <3>3 DEF SameLists
  <2>2. CASE next = NULL
    <3>1. h2 = SetLast(h1, b, prev)
      BY <1>4, <2>2 DEF h2
    <3>2. h2 \in HeapOver(D) /\ SameNodes(h1, h2)
      BY ONLY <1>2, <1>3, <3>1, LastSet
    <3>3. \A c \in Buckets :
           /\ h2.free_lists[c].first = h1.free_lists[c].first
           /\ h2.free_lists[c].last = IF c = b THEN prev ELSE h1.free_lists[c].last
      BY ONLY <1>2, <1>3, <3>1, ListField
    <3> QED  BY <1>2, <2>2, <3>2, <3>3 DEF SameNodes
  <2> QED  BY <2>1, <2>2
<1>6. h3 \in HeapOver(D) /\ SameLists(h2, h3)
  BY ONLY <1>2, <1>5, NextSet, node \in D DEF h3
<1>7. \A m \in D : /\ h3.nodes[m].next = IF m = node THEN NULL ELSE h2.nodes[m].next
                   /\ h3.nodes[m].prev = h2.nodes[m].prev /\ h3.nodes[m].size = h2.nodes[m].size
                   /\ h3.nodes[m].used = h2.nodes[m].used
  BY ONLY <1>2, <1>5, NextField, node \in D DEF h3
<1>8. h4 \in HeapOver(D) /\ SameLists(h3, h4)
  BY ONLY <1>2, <1>6, PrevSet, node \in D DEF h4
<1>9. \A m \in D : /\ h4.nodes[m].prev = IF m = node THEN NULL ELSE h3.nodes[m].prev
                   /\ h4.nodes[m].next = h3.nodes[m].next /\ h4.nodes[m].size = h3.nodes[m].size
                   /\ h4.nodes[m].used = h3.nodes[m].used
  BY ONLY <1>2, <1>6, PrevField, node \in D DEF h4
<1>10. Linked(D, h4) /\ SameEnds(h, h4)
  BY <1>2, <1>3, <1>5, <1>6, <1>8 DEF Linked, SameLists, SameEnds
<1>11. \A m \in D :
         /\ h4.nodes[m].size = h.nodes[m].size /\ h4.nodes[m].used = h.nodes[m].used
         /\ h4.nodes[m].next = IF m = node THEN NULL ELSE IF m = prev THEN next ELSE h.nodes[m].next
         /\ h4.nodes[m].prev = IF m = node THEN NULL ELSE IF m = next THEN prev ELSE h.nodes[m].prev
  BY <1>3, <1>5, <1>7, <1>9
<1>12. \A c \in Buckets :
         /\ h4.free_lists[c].first = IF c = b /\ prev = NULL THEN next ELSE h.free_lists[c].first
         /\ h4.free_lists[c].last = IF c = b /\ next = NULL THEN prev ELSE h.free_lists[c].last
  BY <1>3, <1>5, <1>6, <1>8 DEF SameLists
<1> QED  BY ONLY <1>1, <1>10, <1>11, <1>12

-----------------------------------------------------------------------------
(* The lists of the buckets.                                               *)

BucketOf(h, n) == bucket_for_size(h.nodes[n].size)

\* The nodes q[1], ..., q[m], each once, are those of F in bucket b, and its list
\* links them in that order.
IsList(h, F, b, m, q) ==
  /\ \A i, j \in 1 .. m : q[i] = q[j] => i = j
  /\ \A i \in 1 .. m : BucketOf(h, q[i]) = b
  /\ \A n \in F : BucketOf(h, n) = b => \E i \in 1 .. m : q[i] = n
  /\ h.free_lists[b].first = IF m = 0 THEN NULL ELSE q[1]
  /\ h.free_lists[b].last = IF m = 0 THEN NULL ELSE q[m]
  /\ \A i \in 1 .. m : /\ h.nodes[q[i]].next = IF i = m THEN NULL ELSE q[i + 1]
                      /\ h.nodes[q[i]].prev = IF i = 1 THEN NULL ELSE q[i - 1]

Lists(h, F) == \A b \in Buckets : \E m \in Nat : \E q \in [1 .. m -> F] : IsList(h, F, b, m, q)

\* What lists do not tell apart.
LEMMA ListsFrame ==
  ASSUME NEW h, NEW r, NEW F, Lists(h, F), r.free_lists = h.free_lists,
         \A n \in F : /\ r.nodes[n].next = h.nodes[n].next /\ r.nodes[n].prev = h.nodes[n].prev
                     /\ r.nodes[n].size = h.nodes[n].size
  PROVE  Lists(r, F)
<1> SUFFICES ASSUME NEW b \in Buckets
             PROVE  \E m \in Nat : \E q \in [1 .. m -> F] : IsList(r, F, b, m, q)
  BY DEF Lists
<1>1. PICK m \in Nat : \E q \in [1 .. m -> F] : IsList(h, F, b, m, q)
  BY DEF Lists
<1>2. PICK q \in [1 .. m -> F] : IsList(h, F, b, m, q)
  BY <1>1
<1>3. \A i \in 1 .. m : q[i] \in F
  BY <1>2
<1>4. \A n \in F : BucketOf(r, n) = BucketOf(h, n)
  BY DEF BucketOf
<1>5. IsList(r, F, b, m, q)
  BY <1>2, <1>3, <1>4 DEF IsList
<1> QED  BY <1>5

\* Where the links of a listed node, and the ends of a list, lead to.
LEMMA ListsLead ==
  ASSUME NEW D, NEW h, Linked(D, h), NEW F \in SUBSET D, Lists(h, F)
  PROVE  /\ \A b \in Buckets : {h.free_lists[b].first, h.free_lists[b].last} \subseteq F \cup {NULL}
         /\ \A n \in F : {h.nodes[n].next, h.nodes[n].prev} \subseteq (F \cup {NULL}) \ {n}
<1>1. ASSUME NEW b \in Buckets
      PROVE  {h.free_lists[b].first, h.free_lists[b].last} \subseteq F \cup {NULL}
  BY DEF Lists, IsList
<1>2. ASSUME NEW n \in F
      PROVE  {h.nodes[n].next, h.nodes[n].prev} \subseteq (F \cup {NULL}) \ {n}
  <2>1. BucketOf(h, n) \in Buckets
    BY BucketType DEF BucketOf, Linked, HeapOver, NodeType
  <2>2. PICK m \in Nat : \E q \in [1 .. m -> F] : IsList(h, F, BucketOf(h, n), m, q)
    BY <2>1 DEF Lists
  <2>3. PICK q \in [1 .. m -> F] : IsList(h, F, BucketOf(h, n), m, q)
    BY <2>2
  <2>4. PICK i \in 1 .. m : q[i] = n
    BY <2>3 DEF IsList
  <2>5. /\ h.nodes[n].next = IF i = m THEN NULL ELSE q[i + 1]
        /\ h.nodes[n].prev = IF i = 1 THEN NULL ELSE q[i - 1]
    BY <2>3, <2>4 DEF IsList
  <2>6. n # NULL
    BY DEF Linked
  <2>7. h.nodes[n].next \in (F \cup {NULL}) \ {n}
    <3>1. CASE i = m
      BY <2>5, <2>6, <3>1
    <3>2. CASE i # m
      <4>1. i + 1 \in 1 .. m
        BY <3>2
      <4>2. q[i + 1] \in F /\ q[i + 1] # n
        BY <2>3, <2>4, <4>1 DEF IsList
      <4> QED  BY <2>5, <3>2, <4>2
    <3> QED  BY <3>1, <3>2
  <2>8. h.nodes[n].prev \in (F \cup {NULL}) \ {n}
    <3>1. CASE i = 1
      BY <2>5, <2>6, <3>1
    <3>2. CASE i # 1
      <4>1. i - 1 \in 1 .. m
        BY <3>2
      <4>2. q[i - 1] \in F /\ q[i - 1] # n
        BY <2>3, <2>4, <4>1 DEF IsList
      <4> QED  BY <2>5, <3>2, <4>2
    <3> QED  BY <3>1, <3>2
  <2> QED  BY <2>7, <2>8
<1> QED  BY <1>1, <1>2

\* The nodes outside of the lists, and what the nodes in them describe.
Untouched(D, F, h, r) ==
  /\ Linked(D, r) /\ SameEnds(h, r)
  /\ \A m \in D : r.nodes[m].size = h.nodes[m].size /\ r.nodes[m].used = h.nodes[m].used
  /\ \A m \in D \ F : r.nodes[m].next = h.nodes[m].next /\ r.nodes[m].prev = h.nodes[m].prev

LEMMA InsertLists ==
  ASSUME NEW D, NEW h, Linked(D, h), NEW F \in SUBSET D, Lists(h, F), NEW node \in D \ F
  PROVE  /\ Lists(free_list_insert(h, node), F \cup {node})
         /\ Untouched(D, F \cup {node}, h, free_list_insert(h, node))
<1> DEFINE b0    == bucket_for_size(h.nodes[node].size)
           first == h.free_lists[b0].first
           r     == free_list_insert(h, node)
<1>1. b0 \in Buckets /\ NULL \notin D
  BY BucketType DEF Linked, HeapOver, NodeType
<1>2. first \in F \cup {NULL} /\ first \in (D \cup {NULL}) \ {node}
  <2>1. first \in F \cup {NULL}
    BY <1>1, ListsLead
  <2> QED  BY <1>1, <2>1
<1> HIDE DEF b0, first, r
<1>3. /\ Linked(D, r) /\ SameEnds(h, r)
      /\ \A m \in D :
           /\ r.nodes[m].size = h.nodes[m].size /\ r.nodes[m].used = h.nodes[m].used
           /\ r.nodes[m].next = IF m = node THEN first ELSE h.nodes[m].next
           /\ r.nodes[m].prev = IF m = node THEN NULL ELSE IF m = first THEN node ELSE h.nodes[m].prev
      /\ \A c \in Buckets :
           /\ r.free_lists[c].first = IF c = b0 THEN node ELSE h.free_lists[c].first
           /\ r.free_lists[c].last = IF c = b0 /\ first = NULL THEN node ELSE h.free_lists[c].last
  <2>1. Linked(D, h) /\ node \in D /\ b0 = bucket_for_size(h.nodes[node].size) /\ first = h.free_lists[b0].first
    BY DEF b0, first
  <2> QED  BY ONLY <1>2, <2>1, InsertEffect DEF r
<1>4. Untouched(D, F \cup {node}, h, r)
  BY <1>2, <1>3 DEF Untouched, Linked
<1>5. \A n \in D : BucketOf(r, n) = BucketOf(h, n)
  BY <1>3 DEF BucketOf
<1>6. BucketOf(h, node) = b0
  BY DEF BucketOf, b0
<1>7. ASSUME NEW b \in Buckets
      PROVE  \E m \in Nat : \E q \in [1 .. m -> F \cup {node}] : IsList(r, F \cup {node}, b, m, q)
  <2>1. PICK m \in Nat : \E q \in [1 .. m -> F] : IsList(h, F, b, m, q)
    BY DEF Lists
  <2>2. PICK q \in [1 .. m -> F] : IsList(h, F, b, m, q)
    BY <2>1
  <2>3. \A i \in 1 .. m : q[i] \in F /\ q[i] \in D /\ q[i] # node /\ BucketOf(h, q[i]) = b /\ q[i] # NULL
    BY <1>1, <2>2 DEF IsList
  <2>4. CASE b = b0
    <3> DEFINE q1 == [i \in 1 .. m + 1 |-> IF i = 1 THEN node ELSE q[i - 1]]
    <3>1. first = IF m = 0 THEN NULL ELSE q[1]
      BY <2>2, <2>4 DEF IsList, first
    <3>2. q1 \in [1 .. m + 1 -> F \cup {node}]
      BY <2>3
    <3>3. /\ q1[1] = node
          /\ \A i \in 1 .. m + 1 : i # 1 => i - 1 \in 1 .. m /\ q1[i] = q[i - 1]
      OBVIOUS
    <3> HIDE DEF q1
    <3>4. \A i, j \in 1 .. m + 1 : q1[i] = q1[j] => i = j
      <4> TAKE i, j \in 1 .. m + 1
      <4> HAVE q1[i] = q1[j]
      <4>1. CASE i = 1 \/ j = 1
        BY <2>3, <3>3, <4>1
      <4>2. CASE i # 1 /\ j # 1
        <5>1. q[i - 1] = q[j - 1] /\ i - 1 \in 1 .. m /\ j - 1 \in 1 .. m
          BY <3>3, <4>2
        <5>2. i - 1 = j - 1
          BY <2>2, <5>1 DEF IsList
        <5> QED  BY <5>2
      <4> QED  BY <4>1, <4>2
    <3>5. \A i \in 1 .. m + 1 : BucketOf(r, q1[i]) = b
      BY <1>5, <1>6, <2>3, <2>4, <3>3
    <3>6. \A n \in F \cup {node} : BucketOf(r, n) = b => \E i \in 1 .. m + 1 : q1[i] = n
      <4> TAKE n \in F \cup {node}
      <4> HAVE BucketOf(r, n) = b
      <4>1. CASE n = node
        BY <3>3, <4>1
      <4>2. CASE n # node
        <5>1. PICK i \in 1 .. m : q[i] = n
          BY <1>5, <2>2, <4>2 DEF IsList
        <5>2. i + 1 \in 1 .. m + 1 /\ q1[i + 1] = n
          BY <3>3, <5>1
        <5> QED  BY <5>2
      <4> QED  BY <4>1, <4>2
    <3>7. r.free_lists[b].first = q1[1] /\ r.free_lists[b].last = q1[m + 1]
      BY <1>3, <2>2, <2>3, <2>4, <3>1, <3>3 DEF IsList
    <3>8. \A i \in 1 .. m + 1 :
            /\ r.nodes[q1[i]].next = IF i = m + 1 THEN NULL ELSE q1[i + 1]
            /\ r.nodes[q1[i]].prev = IF i = 1 THEN NULL ELSE q1[i - 1]
      <4> TAKE i \in 1 .. m + 1
      <4>1. CASE i = 1
        BY <1>3, <2>3, <3>1, <3>3, <4>1
      <4>2. CASE i # 1
        <5>1. i - 1 \in 1 .. m /\ q1[i] = q[i - 1] /\ q1[i] # node /\ q1[i] \in D
          BY <2>3, <3>3, <4>2
        <5>2. r.nodes[q1[i]].next = IF i = m + 1 THEN NULL ELSE q1[i + 1]
          <6>1. h.nodes[q[i - 1]].next = IF i - 1 = m THEN NULL ELSE q[(i - 1) + 1]
            BY <2>2, <5>1 DEF IsList
          <6>2. i # m + 1 => q1[i + 1] = q[i]
            BY <3>3, <4>2
          <6> QED  BY <1>3, <5>1, <6>1, <6>2
        <5>3. r.nodes[q1[i]].prev = q1[i - 1]
          <6>1. CASE i = 2
            BY <1>3, <3>1, <3>3, <5>1, <6>1
          <6>2. CASE i # 2
            <7>1. q[i - 1] # q[1]
              BY <2>2, <5>1, <6>2 DEF IsList
            <7>2. h.nodes[q[i - 1]].prev = q[(i - 1) - 1]
              BY <2>2, <5>1, <6>2 DEF IsList
            <7>3. q1[i - 1] = q[(i - 1) - 1]
              BY <3>3, <4>2, <6>2
            <7>4. q1[i] # first
              BY <3>1, <5>1, <7>1
            <7> QED  BY <1>3, <5>1, <7>2, <7>3, <7>4
          <6> QED  BY <6>1, <6>2
        <5> QED  BY <4>2, <5>2, <5>3
      <4> QED  BY <4>1, <4>2
    <3>9. IsList(r, F \cup {node}, b, m + 1, q1)
      BY <3>4, <3>5, <3>6, <3>7, <3>8 DEF IsList
    <3> QED  BY <3>2, <3>9
  <2>5. CASE b # b0
    <3>1. \A i \in 1 .. m : q[i] # first
      <4>1. first # NULL => BucketOf(h, first) = b0
        <5>1. PICK m0 \in Nat : \E p \in [1 .. m0 -> F] : IsList(h, F, b0, m0, p)
          BY <1>1 DEF Lists
        <5>2. PICK p \in [1 .. m0 -> F] : IsList(h, F, b0, m0, p)
          BY <5>1
        <5> QED  BY <5>2 DEF IsList, first
      <4> QED  BY <2>3, <2>5, <4>1
    <3>2. q \in [1 .. m -> F \cup {node}]
      OBVIOUS
    <3>3. \A n \in F \cup {node} : BucketOf(r, n) = b => \E i \in 1 .. m : q[i] = n
      BY <1>5, <1>6, <2>2, <2>5 DEF IsList
    <3>4. IsList(r, F \cup {node}, b, m, q)
      BY <1>3, <1>5, <2>2, <2>3, <2>5, <3>1, <3>3 DEF IsList
    <3> QED  BY <3>2, <3>4
  <2> QED  BY <2>4, <2>5
<1> QED  BY <1>4, <1>7 DEF Lists, r

LEMMA RemoveLists ==
  ASSUME NEW D, NEW h, Linked(D, h), NEW F \in SUBSET D, Lists(h, F), NEW node \in F
  PROVE  LET r == free_list_remove(h, node)
         IN  /\ Lists(r, F \ {node}) /\ Untouched(D, F, h, r)
             /\ r.nodes[node].next = NULL /\ r.nodes[node].prev = NULL
<1> DEFINE b0   == bucket_for_size(h.nodes[node].size)
           prev == h.nodes[node].prev
           next == h.nodes[node].next
           r    == free_list_remove(h, node)
<1>1. b0 \in Buckets /\ NULL \notin D
  BY BucketType DEF Linked, HeapOver, NodeType
<1>2. {next, prev} \subseteq (F \cup {NULL}) \ {node}
  BY ListsLead
<1> HIDE DEF b0, prev, next, r
<1>3. /\ Linked(D, r) /\ SameEnds(h, r)
      /\ \A m \in D :
           /\ r.nodes[m].size = h.nodes[m].size /\ r.nodes[m].used = h.nodes[m].used
           /\ r.nodes[m].next = IF m = node THEN NULL ELSE IF m = prev THEN next ELSE h.nodes[m].next
           /\ r.nodes[m].prev = IF m = node THEN NULL ELSE IF m = next THEN prev ELSE h.nodes[m].prev
      /\ \A c \in Buckets :
           /\ r.free_lists[c].first = IF c = b0 /\ prev = NULL THEN next ELSE h.free_lists[c].first
           /\ r.free_lists[c].last = IF c = b0 /\ next = NULL THEN prev ELSE h.free_lists[c].last
  <2>1. /\ Linked(D, h) /\ node \in D /\ b0 = bucket_for_size(h.nodes[node].size)
        /\ prev = h.nodes[node].prev /\ prev \in (D \cup {NULL}) \ {node}
        /\ next = h.nodes[node].next /\ next \in (D \cup {NULL}) \ {node}
    BY <1>2 DEF b0, prev, next
  <2> QED  BY ONLY <2>1, RemoveEffect DEF r
<1>4. Untouched(D, F, h, r)
  BY <1>2, <1>3 DEF Untouched, Linked
<1>5. \A n \in D : BucketOf(r, n) = BucketOf(h, n)
  BY <1>3 DEF BucketOf
<1>6. BucketOf(h, node) = b0
  BY DEF BucketOf, b0
<1>7. PICK m0 \in Nat : \E p \in [1 .. m0 -> F] : IsList(h, F, b0, m0, p)
  BY <1>1 DEF Lists
<1>8. PICK p \in [1 .. m0 -> F] : IsList(h, F, b0, m0, p)
  BY <1>7
<1>9. PICK k \in 1 .. m0 : p[k] = node
  BY <1>6, <1>8 DEF IsList
<1>10. /\ next = IF k = m0 THEN NULL ELSE p[k + 1]
       /\ prev = IF k = 1 THEN NULL ELSE p[k - 1]
  BY <1>8, <1>9 DEF IsList, next, prev
<1>11. \A i \in 1 .. m0 : p[i] \in F /\ p[i] \in D /\ p[i] # NULL /\ BucketOf(h, p[i]) = b0
                         /\ (p[i] = node => i = k)
  BY <1>1, <1>8, <1>9 DEF IsList
<1>12. /\ next = NULL <=> k = m0
       /\ prev = NULL <=> k = 1
  BY <1>10, <1>11
<1>13. ASSUME NEW b \in Buckets, b # b0
       PROVE  \E m \in Nat : \E q \in [1 .. m -> F \ {node}] : IsList(r, F \ {node}, b, m, q)
  <2>1. PICK m \in Nat : \E q \in [1 .. m -> F] : IsList(h, F, b, m, q)
    BY DEF Lists
  <2>2. PICK q \in [1 .. m -> F] : IsList(h, F, b, m, q)
    BY <2>1
  <2>3. \A i \in 1 .. m : /\ q[i] \in F /\ q[i] \in D /\ BucketOf(h, q[i]) = b
                         /\ q[i] \notin {node, prev, next}
    <3>1. \A i \in 1 .. m : q[i] \in F /\ q[i] \in D /\ BucketOf(h, q[i]) = b /\ q[i] # NULL
      BY <1>1, <2>2 DEF IsList
    <3>2. (next # NULL => BucketOf(h, next) = b0) /\ (prev # NULL => BucketOf(h, prev) = b0)
      BY <1>10, <1>11, <1>12
    <3> QED  BY <1>6, <1>13, <3>1, <3>2
  <2>4. q \in [1 .. m -> F \ {node}]
    BY <2>3
  <2>5. \A n \in F \ {node} : BucketOf(r, n) = b => \E i \in 1 .. m : q[i] = n
    BY <1>5, <2>2 DEF IsList
  <2>6. \A i \in 1 .. m : /\ BucketOf(r, q[i]) = b
                         /\ r.nodes[q[i]].next = h.nodes[q[i]].next
                         /\ r.nodes[q[i]].prev = h.nodes[q[i]].prev
    BY <1>3, <1>5, <2>3
  <2>7. /\ r.free_lists[b].first = h.free_lists[b].first
        /\ r.free_lists[b].last = h.free_lists[b].last
    BY <1>3, <1>13
  <2>8. IsList(r, F \ {node}, b, m, q)
    BY <2>2, <2>5, <2>6, <2>7 DEF IsList
  <2> QED  BY <2>4, <2>8
<1>14. \E m \in Nat : \E q \in [1 .. m -> F \ {node}] : IsList(r, F \ {node}, b0, m, q)
  <2> DEFINE q == [i \in 1 .. m0 - 1 |-> IF i < k THEN p[i] ELSE p[i + 1]]
  <2>1. \A i \in 1 .. m0 - 1 : i \in 1 .. m0 /\ i + 1 \in 1 .. m0
    OBVIOUS
  <2>2. \A i \in 1 .. m0 - 1 : q[i] = IF i < k THEN p[i] ELSE p[i + 1]
    OBVIOUS
  <2>3. q \in [1 .. m0 - 1 -> F \ {node}]
    <3>1. \A i \in 1 .. m0 - 1 : (IF i < k THEN p[i] ELSE p[i + 1]) \in F \ {node}
      BY <1>11, <2>1
    <3> QED  BY <3>1
  <2> HIDE DEF q
  <2>4. \A i, j \in 1 .. m0 - 1 : q[i] = q[j] => i = j
    <3> TAKE i, j \in 1 .. m0 - 1
    <3> HAVE q[i] = q[j]
    <3> DEFINE i1 == IF i < k THEN i ELSE i + 1
               j1 == IF j < k THEN j ELSE j + 1
    <3>1. i1 \in 1 .. m0 /\ j1 \in 1 .. m0 /\ p[i1] = p[j1]
      BY <2>1, <2>2
    <3>2. i1 = j1
      BY <1>8, <3>1 DEF IsList
    <3> QED  BY <3>2
  <2>5. \A i \in 1 .. m0 - 1 : BucketOf(r, q[i]) = b0
    BY <1>5, <1>11, <2>1, <2>2
  <2>6. \A n \in F \ {node} : BucketOf(r, n) = b0 => \E i \in 1 .. m0 - 1 : q[i] = n
    <3> TAKE n \in F \ {node}
    <3> HAVE BucketOf(r, n) = b0
    <3>1. PICK i \in 1 .. m0 : p[i] = n
      BY <1>5, <1>8 DEF IsList
    <3>2. CASE i < k
      BY <2>2, <3>1, <3>2
    <3>3. CASE i > k
      <4>1. i - 1 \in 1 .. m0 - 1 /\ q[i - 1] = p[(i - 1) + 1]
        BY <2>2, <3>3
      <4> QED  BY <3>1, <4>1
    <3> QED  BY <1>9, <3>1, <3>2, <3>3
  <2>7. r.free_lists[b0].first = IF m0 - 1 = 0 THEN NULL ELSE q[1]
    <3>1. CASE k = 1
      <4>1. r.free_lists[b0].first = next
        BY <1>1, <1>3, <1>12, <3>1
      <4> QED  BY <1>10, <2>2, <3>1, <4>1
    <3>2. CASE k # 1
      <4>1. r.free_lists[b0].first = p[1]
        BY <1>1, <1>3, <1>8, <1>12, <3>2 DEF IsList
      <4> QED  BY <2>2, <3>2, <4>1
    <3> QED  BY <3>1, <3>2
  <2>8. r.free_lists[b0].last = IF m0 - 1 = 0 THEN NULL ELSE q[m0 - 1]
    <3>1. CASE k = m0
      <4>1. r.free_lists[b0].last = prev
        BY <1>1, <1>3, <1>12, <3>1
      <4> QED  BY <1>10, <2>2, <3>1, <4>1
    <3>2. CASE k # m0
      <4>1. r.free_lists[b0].last = p[m0]
        BY <1>1, <1>3, <1>8, <1>12, <3>2 DEF IsList
      <4>2. q[m0 - 1] = p[(m0 - 1) + 1]
        BY <2>2, <3>2
      <4> QED  BY <3>2, <4>1, <4>2
    <3> QED  BY <3>1, <3>2
  <2>9. \A i \in 1 .. m0 - 1 : r.nodes[q[i]].next = IF i = m0 - 1 THEN NULL ELSE q[i + 1]
    <3> TAKE i \in 1 .. m0 - 1
    <3>1. CASE i < k - 1
      <4>1. q[i] = p[i] /\ q[i + 1] = p[i + 1] /\ i # m0 - 1 /\ i # k
        BY <2>2, <3>1
      <4>2. p[i] # prev
        BY <1>8, <1>10, <1>12, <3>1 DEF IsList
      <4>3. h.nodes[p[i]].next = p[i + 1]
        <5>1. i \in 1 .. m0 /\ i # m0
          BY <3>1
        <5> QED  BY <1>8, <5>1 DEF IsList
      <4> QED  BY <1>3, <1>11, <2>1, <4>1, <4>2, <4>3
    <3>2. CASE i = k - 1
      <4>1. q[i] = prev /\ prev \in D /\ prev # node
        BY <1>10, <1>11, <2>1, <2>2, <3>2
      <4>2. r.nodes[q[i]].next = next
        BY <1>3, <4>1
      <4>3. i # m0 - 1 => q[i + 1] = p[k + 1]
        BY <2>2, <3>2
      <4> QED  BY <1>10, <3>2, <4>2, <4>3
    <3>3. CASE i >= k
      <4>1. q[i] = p[i + 1] /\ i + 1 \in 1 .. m0
        BY <2>1, <2>2, <3>3
      <4>2. p[i + 1] # prev /\ p[i + 1] # node /\ p[i + 1] \in D
        BY <1>8, <1>10, <1>11, <1>12, <3>3, <4>1 DEF IsList
      <4>3. h.nodes[p[i + 1]].next = IF i + 1 = m0 THEN NULL ELSE p[(i + 1) + 1]
        BY <1>8, <4>1 DEF IsList
      <4>4. i # m0 - 1 => q[i + 1] = p[(i + 1) + 1]
        BY <2>2, <3>3
      <4> QED  BY <1>3, <4>1, <4>2, <4>3, <4>4, SMTT(30)
    <3> QED  BY <3>1, <3>2, <3>3
  <2>10. \A i \in 1 .. m0 - 1 : r.nodes[q[i]].prev = IF i = 1 THEN NULL ELSE q[i - 1]
    <3> TAKE i \in 1 .. m0 - 1
    <3>1. CASE i < k
      <4>1. q[i] = p[i] /\ i \in 1 .. m0 /\ i # k /\ (i # 1 => q[i - 1] = p[i - 1])
        BY <2>2, <3>1
      <4>2. p[i] # next /\ p[i] # node /\ p[i] \in D
        BY <1>8, <1>10, <1>11, <1>12, <3>1, <4>1 DEF IsList
      <4>3. h.nodes[p[i]].prev = IF i = 1 THEN NULL ELSE p[i - 1]
        BY <1>8, <4>1 DEF IsList
      <4> QED  BY <1>3, <4>1, <4>2, <4>3
    <3>2. CASE i = k
      <4>1. q[i] = next /\ next \in D /\ next # node
        BY <1>10, <1>11, <2>1, <2>2, <3>2
      <4>2. r.nodes[q[i]].prev = prev
        BY <1>3, <4>1
      <4>3. i # 1 => q[i - 1] = p[k - 1]
        BY <2>2, <3>2
      <4> QED  BY <1>10, <3>2, <4>2, <4>3
    <3>3. CASE i > k
      <4>1. q[i] = p[i + 1] /\ i + 1 \in 1 .. m0 /\ q[i - 1] = p[(i - 1) + 1] /\ i # 1
        BY <2>1, <2>2, <3>3
      <4>2. p[i + 1] # next /\ p[i + 1] # node /\ p[i + 1] \in D
        BY <1>8, <1>10, <1>11, <1>12, <3>3, <4>1 DEF IsList
      <4>3. h.nodes[p[i + 1]].prev = p[(i + 1) - 1]
        BY <1>8, <3>3, <4>1 DEF IsList
      <4> QED  BY <1>3, <4>1, <4>2, <4>3
    <3> QED  BY <3>1, <3>2, <3>3
  <2>11. IsList(r, F \ {node}, b0, m0 - 1, q)
    BY <2>4, <2>5, <2>6, <2>7, <2>8, <2>9, <2>10 DEF IsList
  <2>12. m0 - 1 \in Nat
    BY <1>9
  <2> QED  BY <2>3, <2>11, <2>12
<1>15. Lists(r, F \ {node})
  BY <1>13, <1>14 DEF Lists
<1>16. r.nodes[node].next = NULL /\ r.nodes[node].prev = NULL
  BY <1>3
<1> QED  BY <1>4, <1>15, <1>16 DEF r

-----------------------------------------------------------------------------
(* The walk of the search along a list, and what it finds.                 *)

LEMMA WalkMeets ==
  ASSUME NEW h, NEW N \in Nat, Cardinality(DOMAIN h.nodes) = N, NEW F, NULL \notin F,
         NEW b, NEW m \in Nat, NEW q \in [1 .. m -> F], IsList(h, F, b, m, q)
  PROVE  /\ DOMAIN Walk(h, b) = 0 .. N
         /\ \A k \in 0 .. N : Walk(h, b)[k] = IF k < m THEN q[k + 1] ELSE NULL
<1> DEFINE G(g, k) == IF k = 0 THEN h.free_lists[b].first
                      ELSE LET node == g[k - 1] IN IF node = NULL THEN NULL ELSE h.nodes[node].next
           f == [k \in 0 .. N |-> IF k < m THEN q[k + 1] ELSE NULL]
           W == CHOOSE g : g = [k \in 0 .. N |-> G(g, k)]
<1>1. f = [k \in 0 .. N |-> G(f, k)]
  <2> SUFFICES ASSUME NEW k \in 0 .. N PROVE f[k] = G(f, k)
    OBVIOUS
  <2>1. CASE k = 0
    BY <2>1 DEF IsList
  <2>2. CASE k # 0
    <3>1. k - 1 \in 0 .. N /\ f[k - 1] = IF k - 1 < m THEN q[(k - 1) + 1] ELSE NULL
      BY <2>2
    <3>2. CASE k - 1 < m
      <4>1. k \in 1 .. m /\ f[k - 1] = q[k]
        BY <2>2, <3>1, <3>2
      <4>2. h.nodes[q[k]].next = IF k = m THEN NULL ELSE q[k + 1]
        BY <4>1 DEF IsList
      <4>3. q[k] # NULL
        BY <4>1
      <4> QED  BY <2>2, <4>1, <4>2, <4>3
    <3>3. CASE ~ (k - 1 < m)
      BY <2>2, <3>1, <3>3
    <3> QED  BY <3>2, <3>3
  <2> QED  BY <2>1, <2>2
<1> HIDE DEF f, G
<1>2. W = [k \in 0 .. N |-> G(W, k)]
  BY <1>1
<1>3. Walk(h, b) = W
  BY DEF Walk, G
<1> HIDE DEF W
<1> DEFINE S == {k \in Nat : k <= N => W[k] = f[k]}
<1>4. 0 \in S
  BY <1>1, <1>2 DEF G
<1>5. ASSUME NEW k \in S PROVE k + 1 \in S
  <2> SUFFICES ASSUME k + 1 <= N PROVE W[k + 1] = f[k + 1]
    OBVIOUS
  <2>1. k + 1 \in 0 .. N /\ k \in Nat /\ (k + 1) - 1 = k /\ k + 1 # 0 /\ W[k] = f[k]
    OBVIOUS
  <2>2. W[k + 1] = G(W, k + 1) /\ f[k + 1] = G(f, k + 1)
    BY <1>1, <1>2, <2>1
  <2> QED  BY <2>1, <2>2 DEF G
<1> HIDE DEF S
<1>6. S = Nat
  BY <1>4, <1>5, SetInduction DEF S
<1>7. \A k \in 0 .. N : W[k] = f[k]
  BY <1>6 DEF S
<1> QED  BY <1>2, <1>3, <1>7 DEF f

\* A list has no more nodes than there are.
LEMMA ListShort ==
  ASSUME NEW D, IsFiniteSet(D), NEW F \in SUBSET D, NEW h, NEW b, NEW m \in Nat,
         NEW q \in [1 .. m -> F], IsList(h, F, b, m, q)
  PROVE  Cardinality(D) \in Nat /\ m <= Cardinality(D)
<1>1. q \in Injection(1 .. m, D)
  BY DEF IsList, Injection, IsInjective
<1>2. Cardinality(1 .. m) <= Cardinality(D)
  BY <1>1, FS_Injection
<1>3. Cardinality(1 .. m) = m
  BY FS_Interval
<1>4. Cardinality(D) \in Nat
  BY FS_CardinalityType
<1> QED  BY <1>2, <1>3, <1>4

-----------------------------------------------------------------------------
(* A sound heap: its blocks tile the memory, its lists hold the free nodes *)
(* and the links of a used node are out of the lists.                      *)

FreeOf(D, h) == {n \in D : ~ h.nodes[n].used}
End(h, n) == n + Header + h.nodes[n].size

Tiles(D, h) ==
  /\ HEAP_VIRT_BASE \in D /\ h.cursor \in Nat
  /\ \A n \in D :
       /\ n \in HEAP_VIRT_BASE .. h.cursor - 1 /\ n % Alignment = 0
       /\ h.nodes[n].size >= Alignment
       /\ End(h, n) \in D \cup {h.cursor}
       /\ \A m \in D : n < m => End(h, n) <= m

UsedLinks(D, h) ==
  \A n \in D : h.nodes[n].used =>
    h.nodes[n].prev = NULL /\ h.nodes[n].next \in (D \cap {End(h, n)}) \cup {NULL}

Sound(D, h) ==
  /\ Linked(D, h) /\ Tiles(D, h) /\ UsedLinks(D, h) /\ Lists(h, FreeOf(D, h))
  /\ h.frames \in 0 .. Frames

LEMMA Constants ==
  /\ Header \in Nat \ {0} /\ Alignment \in Nat \ {0} /\ Page \in Nat \ {0} /\ Frames \in Nat \ {0}
  /\ Header + Alignment <= Page /\ HEAP_VIRT_BASE = Page /\ Sizes \subseteq Nat
<1>1. {Header, Alignment, Page, Frames} \subseteq Nat \ {0} /\ Header + Alignment <= Page
  BY HeapAssumption
<1> QED  BY <1>1, HeapAssumption DEF HEAP_VIRT_BASE

LEMMA SoundFinite ==
  ASSUME NEW D, NEW h, Sound(D, h)
  PROVE  IsFiniteSet(D) /\ D = DOMAIN h.nodes /\ D \subseteq Nat \ {0}
<1>1. D \subseteq Nat \ {0}
  <2> SUFFICES ASSUME NEW n \in D PROVE n \in Nat \ {0}
    OBVIOUS
  <2>1. n \in HEAP_VIRT_BASE .. h.cursor - 1 /\ h.cursor \in Nat
    BY DEF Sound, Tiles
  <2> QED  BY ONLY <2>1, Constants
<1>2. D \in SUBSET Nat /\ h.cursor \in Nat /\ \A n \in D : n <= h.cursor
  BY <1>1 DEF Sound, Tiles
<1>3. IsFiniteSet(D)
  BY ONLY <1>2, FS_BoundedSetOfNaturals
<1>4. D = DOMAIN h.nodes
  BY DEF Sound, Linked, HeapOver
<1> QED  BY <1>1, <1>3, <1>4

\* The walk along a list of a sound heap.
LEMMA SoundWalk ==
  ASSUME NEW D, NEW h, Sound(D, h), NEW b \in Buckets
  PROVE  \E m \in Nat : \E q \in [1 .. m -> FreeOf(D, h)] :
           /\ IsList(h, FreeOf(D, h), b, m, q)
           /\ Cardinality(D) \in Nat /\ m <= Cardinality(D)
           /\ DOMAIN Walk(h, b) = 0 .. Cardinality(D)
           /\ \A k \in 0 .. Cardinality(D) : Walk(h, b)[k] = IF k < m THEN q[k + 1] ELSE NULL
<1> DEFINE F == FreeOf(D, h)
<1>1. F \in SUBSET D /\ NULL \notin F /\ IsFiniteSet(D) /\ D = DOMAIN h.nodes
  BY SoundFinite DEF FreeOf, NULL
<1>2. Lists(h, F)
  BY DEF Sound
<1> HIDE DEF F
<1>3. PICK m \in Nat : \E q \in [1 .. m -> F] : IsList(h, F, b, m, q)
  BY <1>2 DEF Lists
<1>4. PICK q \in [1 .. m -> F] : IsList(h, F, b, m, q)
  BY <1>3
<1>5. Cardinality(D) \in Nat /\ m <= Cardinality(D)
  BY <1>1, <1>4, ListShort
<1>6. /\ DOMAIN Walk(h, b) = 0 .. Cardinality(D)
      /\ \A k \in 0 .. Cardinality(D) : Walk(h, b)[k] = IF k < m THEN q[k + 1] ELSE NULL
  BY <1>1, <1>4, <1>5, WalkMeets, SMTT(30)
<1>7. \E qq \in [1 .. m -> F] :
           /\ IsList(h, F, b, m, qq)
           /\ Cardinality(D) \in Nat /\ m <= Cardinality(D)
           /\ DOMAIN Walk(h, b) = 0 .. Cardinality(D)
           /\ \A k \in 0 .. Cardinality(D) : Walk(h, b)[k] = IF k < m THEN qq[k + 1] ELSE NULL
  BY <1>4, <1>5, <1>6
<1> QED  BY <1>7 DEF F

\* A search stops only at a bucket whose list is not broken, and finds a free node.
LEMMA SearchFinds ==
  ASSUME NEW D, NEW h, Sound(D, h), NEW b \in Buckets, NEW size \in Nat
  PROVE  /\ ~ Cyclic(h, b)
         /\ \A k \in Fits(h, b, size) :
              Walk(h, b)[k] \in FreeOf(D, h) /\ h.nodes[Walk(h, b)[k]].size >= size
         /\ Fits(h, b, size) \subseteq Nat
         /\ (\E n \in FreeOf(D, h) : BucketOf(h, n) = b /\ h.nodes[n].size >= size)
              => Fits(h, b, size) # {}
<1> DEFINE F == FreeOf(D, h)
           N == Cardinality(D)
<1>1. PICK m \in Nat : \E q \in [1 .. m -> F] :
           /\ IsList(h, F, b, m, q) /\ N \in Nat /\ m <= N /\ DOMAIN Walk(h, b) = 0 .. N
           /\ \A k \in 0 .. N : Walk(h, b)[k] = IF k < m THEN q[k + 1] ELSE NULL
  BY SoundWalk
<1>2. PICK q \in [1 .. m -> F] :
           /\ IsList(h, F, b, m, q) /\ N \in Nat /\ m <= N /\ DOMAIN Walk(h, b) = 0 .. N
           /\ \A k \in 0 .. N : Walk(h, b)[k] = IF k < m THEN q[k + 1] ELSE NULL
  BY <1>1
<1>3. NULL \notin F /\ D = DOMAIN h.nodes
  BY SoundFinite DEF FreeOf, NULL
<1> HIDE DEF F
<1>4. ~ Cyclic(h, b)
  BY <1>2, <1>3 DEF Cyclic
<1>5. ASSUME NEW k \in Fits(h, b, size)
      PROVE  Walk(h, b)[k] \in F /\ h.nodes[Walk(h, b)[k]].size >= size /\ k \in Nat
  <2>1. k \in 0 .. N /\ Walk(h, b)[k] # NULL /\ h.nodes[Walk(h, b)[k]].size >= size
    BY <1>2 DEF Fits
  <2>2. k < m /\ k + 1 \in 1 .. m
    BY <1>2, <2>1
  <2> QED  BY <1>2, <2>1, <2>2
<1>6. ASSUME NEW n \in F, BucketOf(h, n) = b, h.nodes[n].size >= size
      PROVE  Fits(h, b, size) # {}
  <2>1. PICK i \in 1 .. m : q[i] = n
    BY <1>2, <1>6 DEF IsList
  <2>2. i - 1 \in 0 .. N /\ i - 1 < m /\ (i - 1) + 1 = i
    BY <1>2, <2>1
  <2>3. Walk(h, b)[i - 1] = n /\ i - 1 \in DOMAIN Walk(h, b)
    BY <1>2, <2>1, <2>2
  <2> QED  BY <1>3, <1>6, <2>3 DEF Fits
<1> QED  BY <1>4, <1>5, <1>6 DEF F

-----------------------------------------------------------------------------
(* Taking a block.                                                         *)

LEMMA MultiplesAdd ==
  ASSUME NEW A \in Nat \ {0}, NEW x \in Nat, NEW y \in Nat, (x % A) = 0, (y % A) = 0
  PROVE  ((x + y) % A) = 0
<1>1. x = A * (x \div A) /\ y = A * (y \div A) /\ x \div A \in Nat /\ y \div A \in Nat
  BY SMT
<1>2. PICK k \in Nat : x + y = A * k
  <2>1. (x \div A) + (y \div A) \in Nat /\ x + y = A * ((x \div A) + (y \div A))
    BY ONLY <1>1, A \in Nat, SMT
  <2> QED  BY <2>1
<1>3. ((A * k) % A) = 0
  BY SMT
<1> QED  BY ONLY <1>2, <1>3

LEMMA RoundUpIs ==
  ASSUME NEW x \in Nat, x # 0
  PROVE  RoundUp(x) \in Nat /\ RoundUp(x) >= x /\ RoundUp(x) >= Alignment
         /\ (RoundUp(x) % Alignment) = 0
<1> DEFINE k == (x + Alignment - 1) \div Alignment
<1>1. Alignment \in Nat \ {0}
  BY Constants
<1>2. k \in Nat /\ k * Alignment <= x + Alignment - 1 /\ x + Alignment - 1 < k * Alignment + Alignment
  <2>1. x + Alignment - 1 \in Nat
    BY <1>1
  <2> QED  BY ONLY <1>1, <2>1, DivBracket
<1>3. RoundUp(x) = k * Alignment
  BY DEF RoundUp
<1> HIDE DEF k
<1>4. k * Alignment \in Nat /\ k * Alignment >= x
  BY ONLY <1>1, <1>2, x \in Nat, SMT
<1>5. k # 0
  BY <1>1, <1>2
<1>6. k * Alignment >= Alignment
  BY ONLY <1>1, <1>2, <1>5, SMT
<1>7. ((k * Alignment) % Alignment) = 0
  BY ONLY <1>1, <1>2, SMT
<1> QED  BY <1>3, <1>4, <1>6, <1>7

\* From h to r a header is written at x.
Written(D, h, x, rec, r) ==
  /\ r \in HeapOver(D \cup {x}) /\ SameLists(h, r)
  /\ r.nodes[x] = rec /\ \A m \in D : m # x => r.nodes[m] = h.nodes[m]

LEMMA HeadedIs ==
  ASSUME NEW D, NEW h \in HeapOver(D), NEW x \in Int, NEW rec \in NodeType
  PROVE  Written(D, h, x, rec, Headed(h, x, rec))
<1> DEFINE N == With(h.nodes, x, rec)
<1>1. /\ N \in [D \cup {x} -> NodeType] /\ N[x] = rec
      /\ \A m \in D : m # x => N[m] = h.nodes[m]
  BY DEF With, HeapOver
<1>2. Headed(h, x, rec) = [h EXCEPT !.nodes = N]
  BY DEF Headed
<1> HIDE DEF N
<1> QED  BY <1>1, <1>2 DEF Written, HeapOver, SameLists, SameEnds

UsedOf(D, h) == {n \in D : h.nodes[n].used}

\* From h to r the node is handed out with at least size units; E are r's headers.
HandsOut(D, h, E, r, node, size) ==
  /\ Sound(E, r) /\ SameEnds(h, r) /\ node \in E
  /\ UsedOf(E, r) = UsedOf(D, h) \cup {node}
  /\ \A n \in UsedOf(D, h) : r.nodes[n].size = h.nodes[n].size
  /\ r.nodes[node].size >= size

\* Without its list, a node has no links.
LEMMA Removed ==
  ASSUME NEW D, NEW h, Sound(D, h), NEW node \in FreeOf(D, h)
  PROVE  LET r == free_list_remove(h, node)
         IN  /\ Lists(r, FreeOf(D, h) \ {node}) /\ Untouched(D, FreeOf(D, h), h, r)
             /\ r.nodes[node].next = NULL /\ r.nodes[node].prev = NULL
<1>1. /\ Linked(D, h) /\ FreeOf(D, h) \in SUBSET D /\ Lists(h, FreeOf(D, h))
  BY DEF Sound, FreeOf
<1> QED  BY ONLY <1>1, node \in FreeOf(D, h), RemoveLists

LEMMA TakeWhole ==
  ASSUME NEW D, NEW h, Sound(D, h), NEW node \in FreeOf(D, h), NEW size \in Nat,
         h.nodes[node].size >= size
  PROVE  HandsOut(D, h, D, SetUsed(free_list_remove(h, node), node, TRUE), node, size)
<1> DEFINE F  == FreeOf(D, h)
           h1 == free_list_remove(h, node)
           r  == SetUsed(h1, node, TRUE)
<1>1. node \in D /\ F \in SUBSET D /\ ~ h.nodes[node].used
  BY DEF FreeOf
<1>2. /\ Lists(h1, F \ {node}) /\ Untouched(D, F, h, h1)
      /\ h1.nodes[node].next = NULL /\ h1.nodes[node].prev = NULL
  BY Removed
<1> HIDE DEF h1, r
<1>3. Linked(D, h1) /\ h1 \in HeapOver(D)
  BY <1>2 DEF Untouched, Linked
<1>4. Marked(D, h1, node, r)
  BY ONLY <1>1, <1>3, UsedOn DEF r
<1>5. /\ r \in HeapOver(D) /\ SameLists(h1, r)
      /\ \A m \in D :
           /\ r.nodes[m].used <=> (m = node \/ h1.nodes[m].used)
           /\ r.nodes[m].next = h1.nodes[m].next /\ r.nodes[m].prev = h1.nodes[m].prev
           /\ r.nodes[m].size = h1.nodes[m].size
  BY ONLY <1>4, Zenon DEF Marked
<1>6. Linked(D, r) /\ SameEnds(h, r)
  BY <1>2, <1>3, <1>5 DEF Linked, Untouched, SameLists, SameEnds
<1>7. \A m \in D : r.nodes[m].size = h.nodes[m].size /\ End(r, m) = End(h, m)
  BY <1>2, <1>5 DEF Untouched, End
<1>8. \A m \in D : r.nodes[m].used <=> (m = node \/ h.nodes[m].used)
  BY <1>2, <1>5 DEF Untouched
<1>9. Tiles(D, r)
  BY <1>6, <1>7 DEF Sound, Tiles, SameEnds
<1>10. UsedLinks(D, r)
  <2> SUFFICES ASSUME NEW n \in D, r.nodes[n].used
               PROVE  r.nodes[n].prev = NULL /\ r.nodes[n].next \in (D \cap {End(r, n)}) \cup {NULL}
    BY DEF UsedLinks
  <2>1. CASE n = node
    BY <1>1, <1>2, <1>5, <2>1
  <2>2. CASE n # node
    <3>1. h.nodes[n].used /\ n \in D \ F
      BY <1>8, <2>2 DEF FreeOf
    <3>2. r.nodes[n].prev = h.nodes[n].prev /\ r.nodes[n].next = h.nodes[n].next
      BY <1>2, <1>5, <3>1 DEF Untouched
    <3> QED  BY <1>7, <3>1, <3>2 DEF Sound, UsedLinks
  <2> QED  BY <2>1, <2>2
<1>11. FreeOf(D, r) = F \ {node}
  BY <1>8 DEF FreeOf
<1>12. Lists(r, F \ {node})
  <2>1. \A n \in F \ {node} : /\ r.nodes[n].next = h1.nodes[n].next /\ r.nodes[n].prev = h1.nodes[n].prev
                              /\ r.nodes[n].size = h1.nodes[n].size
    BY <1>1, <1>5
  <2>2. r.free_lists = h1.free_lists
    BY <1>5 DEF SameLists
  <2> QED  BY ONLY <1>2, <2>1, <2>2, ListsFrame
<1>13. Sound(D, r)
  BY <1>6, <1>9, <1>10, <1>11, <1>12 DEF Sound, SameEnds
<1>14. UsedOf(D, r) = UsedOf(D, h) \cup {node}
  BY <1>1, <1>8 DEF UsedOf
<1>15. \A n \in UsedOf(D, h) : r.nodes[n].size = h.nodes[n].size
  BY <1>7 DEF UsedOf
<1>16. r.nodes[node].size >= size
  BY <1>1, <1>7
<1> QED  BY <1>1, <1>6, <1>13, <1>14, <1>15, <1>16 DEF HandsOut, r, h1

\* From h to g a header is written at split, where the data of node then end.
Cut(D, h, node, size, split, g) ==
  /\ Linked(D \cup {split}, g) /\ SameLists(h, g)
  /\ g.nodes[split].size = h.nodes[node].size - size - Header /\ ~ g.nodes[split].used
  /\ \A m \in D :
       /\ g.nodes[m].size = IF m = node THEN size ELSE h.nodes[m].size
       /\ g.nodes[m].next = IF m = node THEN split ELSE h.nodes[m].next
       /\ g.nodes[m].prev = h.nodes[m].prev
       /\ g.nodes[m].used = h.nodes[m].used

LEMMA SplitCuts ==
  ASSUME NEW D, NEW h, Linked(D, h), NEW node \in D, NEW size \in Nat, h.nodes[node].next = NULL,
         NEW split, split = SplitAt(node, size), split \notin D, split # NULL
  PROVE  \E g : Cut(D, h, node, size, split, g) /\ Split(h, node, size) = free_list_insert(g, split)
<1> DEFINE E   == D \cup {split}
           rec == FreeHeader(NULL, node, h.nodes[node].size - size - Header)
           g1  == Headed(h, split, rec)
           g2  == SetTail(g1, split)
           g3  == SetSize(g2, node, size)
           g4  == SetNext(g3, node, split)
<1>1. D \in SUBSET Int /\ NULL \notin D /\ h \in HeapOver(D) /\ node \in Int
  BY DEF Linked
<1>2. Header \in Nat /\ split \in Int /\ E \in SUBSET Int /\ NULL \notin E /\ node \in E /\ split \in E
      /\ node # split /\ size \in Int
  BY <1>1, Constants DEF SplitAt, NODE_DATA
<1>3. h.nodes[node].size \in Int
  BY <1>1 DEF HeapOver, NodeType
<1>4. /\ rec \in NodeType /\ rec.used = FALSE
      /\ rec.size = h.nodes[node].size - size - Header
  BY <1>1, <1>2, <1>3 DEF FreeHeader, NodeType, NULL
<1>5. Split(h, node, size) = free_list_insert(g4, split)
  BY DEF Split
<1> HIDE DEF rec, g1, g2, g3, g4, E
<1>6. /\ g1 \in HeapOver(E) /\ SameLists(h, g1) /\ g1.nodes[split] = rec
      /\ \A m \in D : m # split => g1.nodes[m] = h.nodes[m]
  <2>1. split \in Int /\ rec \in NodeType /\ h \in HeapOver(D)
    BY <1>1, <1>2, <1>4
  <2>2. Written(D, h, split, rec, g1)
    BY ONLY <2>1, HeadedIs DEF g1
  <2> QED  BY ONLY <2>2, Zenon DEF Written, E
<1>7. g2 \in HeapOver(E) /\ SameNodes(g1, g2) /\ SameLists(g1, g2)
  BY ONLY <1>2, <1>6, TailSet DEF g2
<1>8. /\ g3 \in HeapOver(E) /\ SameLists(g2, g3)
      /\ \A m \in E : /\ g3.nodes[m].size = (IF m = node THEN size ELSE g2.nodes[m].size)
                      /\ g3.nodes[m].next = g2.nodes[m].next /\ g3.nodes[m].prev = g2.nodes[m].prev
                      /\ g3.nodes[m].used = g2.nodes[m].used
  <2>1. g3 \in HeapOver(E) /\ SameLists(g2, g3)
    BY ONLY <1>2, <1>7, SizeSet DEF g3
  <2>2. \A m \in E : /\ g3.nodes[m].size = (IF m = node THEN size ELSE g2.nodes[m].size)
                      /\ g3.nodes[m].next = g2.nodes[m].next /\ g3.nodes[m].prev = g2.nodes[m].prev
                      /\ g3.nodes[m].used = g2.nodes[m].used
    BY ONLY <1>2, <1>7, SizeField DEF g3
  <2> QED  BY <2>1, <2>2
<1>9. /\ g4 \in HeapOver(E) /\ SameLists(g3, g4)
      /\ \A m \in E : /\ g4.nodes[m].next = (IF m = node THEN split ELSE g3.nodes[m].next)
                      /\ g4.nodes[m].prev = g3.nodes[m].prev /\ g4.nodes[m].size = g3.nodes[m].size
                      /\ g4.nodes[m].used = g3.nodes[m].used
  <2>1. g4 \in HeapOver(E) /\ SameLists(g3, g4)
    BY ONLY <1>2, <1>8, NextSet DEF g4
  <2>2. \A m \in E : /\ g4.nodes[m].next = (IF m = node THEN split ELSE g3.nodes[m].next)
                      /\ g4.nodes[m].prev = g3.nodes[m].prev /\ g4.nodes[m].size = g3.nodes[m].size
                      /\ g4.nodes[m].used = g3.nodes[m].used
    BY ONLY <1>2, <1>8, NextField DEF g4
  <2> QED  BY <2>1, <2>2
<1>10. Linked(E, g4) /\ SameLists(h, g4)
  BY <1>2, <1>6, <1>7, <1>8, <1>9 DEF Linked, SameLists, SameEnds
<1>11. g4.nodes[split].size = h.nodes[node].size - size - Header /\ ~ g4.nodes[split].used
  BY <1>2, <1>4, <1>6, <1>7, <1>8, <1>9 DEF SameNodes
<1>12. ASSUME NEW m \in D
       PROVE  /\ g4.nodes[m].size = IF m = node THEN size ELSE h.nodes[m].size
              /\ g4.nodes[m].next = IF m = node THEN split ELSE h.nodes[m].next
              /\ g4.nodes[m].prev = h.nodes[m].prev
              /\ g4.nodes[m].used = h.nodes[m].used
  <2>1. m \in E /\ m # split
    BY DEF E
  <2>2. g2.nodes[m] = h.nodes[m]
    BY <1>6, <1>7, <2>1 DEF SameNodes
  <2> QED  BY ONLY <1>8, <1>9, <2>1, <2>2
<1>13. Cut(D, h, node, size, split, g4)
  BY <1>10, <1>11, <1>12 DEF Cut, E
<1> QED  BY <1>5, <1>13

LEMMA TakeSplit ==
  ASSUME NEW D, NEW h, Sound(D, h), NEW node \in FreeOf(D, h), NEW size \in Nat,
         (size % Alignment) = 0, size >= Alignment, h.nodes[node].size - size >= MinSplit
  PROVE  \E E : HandsOut(D, h, E, SetUsed(Split(free_list_remove(h, node), node, size), node, TRUE),
                         node, size)
<1> DEFINE F     == FreeOf(D, h)
           h1    == free_list_remove(h, node)
           split == SplitAt(node, size)
           E     == D \cup {split}
           h2    == Split(h1, node, size)
           r     == SetUsed(h2, node, TRUE)
           F1    == (F \ {node}) \cup {split}
<1>1. node \in D /\ F \in SUBSET D /\ ~ h.nodes[node].used
  BY DEF FreeOf
<1>2. /\ Lists(h1, F \ {node}) /\ Untouched(D, F, h, h1)
      /\ h1.nodes[node].next = NULL /\ h1.nodes[node].prev = NULL
  BY Removed
<1>3. Header \in Nat /\ Alignment \in Nat \ {0} /\ (Header % Alignment) = 0
  BY Constants, HeapAssumption
<1>4. /\ node \in Nat /\ (node % Alignment) = 0 /\ h.nodes[node].size \in Int
      /\ \A m \in D : node < m => End(h, node) <= m
  BY <1>1, SoundFinite DEF Sound, Tiles, Linked, HeapOver, NodeType
<1>5. split = node + Header + size
  BY DEF SplitAt, NODE_DATA
<1>6. split \in Nat /\ End(h, node) \in Int /\ node < split /\ split + Header + Alignment <= End(h, node)
  BY <1>3, <1>4, <1>5 DEF MinSplit, End
<1>7. (split % Alignment) = 0
  <2>1. node + Header \in Nat
    BY <1>3, <1>4
  <2>2. ((node + Header) % Alignment) = 0
    BY ONLY <1>3, <1>4, MultiplesAdd, Zenon
  <2>3. ((node + Header + size) % Alignment) = 0
    BY ONLY <1>3, <2>1, <2>2, (size % Alignment) = 0, size \in Nat, MultiplesAdd, Zenon
  <2> QED  BY <1>5, <2>3
<1>8. split \notin D /\ split # NULL
  BY <1>3, <1>4, <1>6 DEF NULL
<1> HIDE DEF h1, h2, r, split
<1>9. Linked(D, h1) /\ \A m \in D : h1.nodes[m].size = h.nodes[m].size /\ h1.nodes[m].used = h.nodes[m].used
  BY <1>2 DEF Untouched
<1>10. PICK g : Cut(D, h1, node, size, split, g) /\ h2 = free_list_insert(g, split)
  BY <1>1, <1>2, <1>8, <1>9, SplitCuts DEF h2, split
<1>11. Linked(E, g) /\ SameLists(h1, g)
  BY <1>10 DEF Cut
<1>12. Lists(g, F \ {node})
  <2>1. \A n \in F \ {node} : /\ g.nodes[n].next = h1.nodes[n].next /\ g.nodes[n].prev = h1.nodes[n].prev
                              /\ g.nodes[n].size = h1.nodes[n].size
    BY <1>1, <1>10 DEF Cut
  <2>2. g.free_lists = h1.free_lists
    BY <1>11 DEF SameLists
  <2> QED  BY ONLY <1>2, <2>1, <2>2, ListsFrame
<1>13. Lists(h2, F1) /\ Untouched(E, F1, g, h2)
  <2>1. F \ {node} \in SUBSET E /\ split \in E \ (F \ {node})
    BY <1>1, <1>8
  <2> QED  BY ONLY <1>10, <1>11, <1>12, <2>1, InsertLists
<1>14. /\ Linked(E, h2) /\ SameEnds(g, h2) /\ h2 \in HeapOver(E)
       /\ \A m \in E : h2.nodes[m].size = g.nodes[m].size /\ h2.nodes[m].used = g.nodes[m].used
       /\ \A m \in E \ F1 : h2.nodes[m].next = g.nodes[m].next /\ h2.nodes[m].prev = g.nodes[m].prev
  BY <1>13 DEF Untouched, Linked
<1>15. Marked(E, h2, node, r)
  BY <1>1, <1>14, UsedOn DEF r
<1>16. /\ r \in HeapOver(E) /\ SameLists(h2, r)
       /\ \A m \in E :
            /\ r.nodes[m].used <=> (m = node \/ h2.nodes[m].used)
            /\ r.nodes[m].next = h2.nodes[m].next /\ r.nodes[m].prev = h2.nodes[m].prev
            /\ r.nodes[m].size = h2.nodes[m].size
  BY ONLY <1>15, Zenon DEF Marked
<1>17. Linked(E, r) /\ SameEnds(h, r)
  BY <1>2, <1>11, <1>14, <1>16 DEF Linked, Untouched, SameLists, SameEnds
<1>18. /\ r.nodes[split].size = h.nodes[node].size - size - Header
       /\ \A m \in D : r.nodes[m].size = IF m = node THEN size ELSE h.nodes[m].size
  BY <1>1, <1>9, <1>10, <1>14, <1>16 DEF Cut
<1>19. /\ ~ r.nodes[split].used
       /\ \A m \in D : r.nodes[m].used <=> (m = node \/ h.nodes[m].used)
  BY <1>1, <1>8, <1>9, <1>10, <1>14, <1>16 DEF Cut
<1>20. /\ End(r, split) = End(h, node) /\ End(r, node) = split
       /\ \A m \in D \ {node} : End(r, m) = End(h, m)
  BY <1>1, <1>3, <1>4, <1>5, <1>18 DEF End
<1>21. Tiles(E, r)
  <2>1. HEAP_VIRT_BASE \in E /\ r.cursor = h.cursor /\ h.cursor \in Nat
    BY <1>17 DEF Sound, Tiles, SameEnds
  <2>2. /\ \A n \in D : n \in HEAP_VIRT_BASE .. h.cursor - 1 /\ (n % Alignment) = 0
                      /\ h.nodes[n].size >= Alignment /\ End(h, n) \in D \cup {h.cursor}
                      /\ \A m \in D : n < m => End(h, n) <= m
        /\ \A n \in D : n \in Nat /\ End(h, n) \in Int /\ n < End(h, n)
    <3>1. \A n \in D : n \in Nat /\ h.nodes[n].size \in Int
      BY SoundFinite DEF Sound, Linked, HeapOver, NodeType
    <3>2. \A n \in D : n \in HEAP_VIRT_BASE .. h.cursor - 1 /\ (n % Alignment) = 0
                      /\ h.nodes[n].size >= Alignment /\ End(h, n) \in D \cup {h.cursor}
                      /\ \A m \in D : n < m => End(h, n) <= m
      BY DEF Sound, Tiles
    <3> QED  BY <1>3, <3>1, <3>2 DEF End
  <2>3. HEAP_VIRT_BASE \in Nat
    BY Constants
  <2>4. End(h, node) <= h.cursor
    BY <1>1, <2>1, <2>2
  <2>5. \A m \in D : m < split => m <= node
    BY <1>1, <1>3, <1>4, <1>6, <2>2
  <2>6. \A n \in E : n \in HEAP_VIRT_BASE .. r.cursor - 1 /\ (n % Alignment) = 0
    <3>1. \A n \in D : n \in HEAP_VIRT_BASE .. r.cursor - 1 /\ (n % Alignment) = 0
      BY <2>1, <2>2
    <3>2. split \in HEAP_VIRT_BASE .. r.cursor - 1 /\ (split % Alignment) = 0
      BY <1>1, <1>3, <1>6, <1>7, <2>1, <2>2, <2>3, <2>4
    <3> QED  BY ONLY <3>1, <3>2
  <2>7. \A n \in E : r.nodes[n].size >= Alignment
    BY <1>1, <1>3, <1>4, <1>18, <2>2 DEF MinSplit
  <2>8. \A n \in E : End(r, n) \in E \cup {r.cursor}
    BY <1>1, <1>20, <2>1, <2>2
  <2>9. ASSUME NEW n \in E, NEW m \in E, n < m PROVE End(r, n) <= m
    <3>1. CASE n = node
      BY <1>4, <1>6, <1>20, <2>2, <2>5, <2>9, <3>1
    <3>2. CASE n = split
      <4>1. m \in D
        BY <1>6, <2>9, <3>2
      <4>2. node < m
        BY <1>4, <1>6, <2>2, <2>9, <3>2, <4>1
      <4> QED  BY <1>4, <1>20, <3>2, <4>1, <4>2
    <3>3. CASE n \in D \ {node}
      <4>1. End(r, n) = End(h, n)
        BY <1>20, <3>3
      <4>2. CASE m \in D
        BY <2>2, <2>9, <3>3, <4>1, <4>2
      <4>3. CASE m = split
        <5>1. n < node
          BY <1>4, <2>2, <2>5, <2>9, <3>3, <4>3
        <5>2. End(h, n) <= node /\ End(h, n) \in Int
          BY <1>1, <2>2, <3>3, <5>1
        <5> QED  BY ONLY <1>4, <1>6, <4>1, <4>3, <5>2
      <4> QED  BY <4>2, <4>3
    <3> QED  BY <3>1, <3>2, <3>3
  <2> QED  BY <2>1, <2>6, <2>7, <2>8, <2>9 DEF Tiles
<1>22. UsedLinks(E, r)
  <2> SUFFICES ASSUME NEW n \in E, r.nodes[n].used
               PROVE  r.nodes[n].prev = NULL /\ r.nodes[n].next \in (E \cap {End(r, n)}) \cup {NULL}
    BY DEF UsedLinks
  <2>1. n \in D /\ n \notin F1 /\ n \in E \ F1
    BY <1>1, <1>8, <1>19 DEF FreeOf
  <2>2. r.nodes[n].next = g.nodes[n].next /\ r.nodes[n].prev = g.nodes[n].prev
    BY <1>14, <1>16, <2>1
  <2>3. /\ g.nodes[n].next = IF n = node THEN split ELSE h1.nodes[n].next
        /\ g.nodes[n].prev = h1.nodes[n].prev
    BY <1>10, <2>1 DEF Cut
  <2>4. CASE n = node
    BY <1>2, <1>20, <2>2, <2>3, <2>4
  <2>5. CASE n # node
    <3>1. h.nodes[n].used /\ n \in D \ F
      BY <1>19, <2>1, <2>5 DEF FreeOf
    <3>2. r.nodes[n].prev = h.nodes[n].prev /\ r.nodes[n].next = h.nodes[n].next
      BY <1>2, <2>2, <2>3, <2>5, <3>1 DEF Untouched
    <3>3. h.nodes[n].prev = NULL /\ h.nodes[n].next \in (D \cap {End(h, n)}) \cup {NULL}
      BY <3>1 DEF Sound, UsedLinks
    <3>4. End(r, n) = End(h, n)
      BY <1>20, <2>5, <3>1
    <3> QED  BY ONLY <3>2, <3>3, <3>4
  <2> QED  BY <2>4, <2>5
<1>23. FreeOf(E, r) = F1
  BY <1>1, <1>8, <1>19 DEF FreeOf
<1>24. Lists(r, F1)
  <2>1. \A n \in F1 : /\ r.nodes[n].next = h2.nodes[n].next /\ r.nodes[n].prev = h2.nodes[n].prev
                      /\ r.nodes[n].size = h2.nodes[n].size
    BY <1>1, <1>16
  <2>2. r.free_lists = h2.free_lists
    BY <1>16 DEF SameLists
  <2> QED  BY ONLY <1>13, <2>1, <2>2, ListsFrame
<1>25. Sound(E, r)
  BY <1>17, <1>21, <1>22, <1>23, <1>24 DEF Sound, SameEnds
<1>26. UsedOf(E, r) = UsedOf(D, h) \cup {node}
  BY <1>1, <1>8, <1>19 DEF UsedOf
<1>27. \A n \in UsedOf(D, h) : r.nodes[n].size = h.nodes[n].size
  BY <1>1, <1>18 DEF UsedOf
<1>28. r.nodes[node].size >= size
  BY <1>1, <1>18
<1>29. HandsOut(D, h, E, r, node, size)
  BY <1>1, <1>17, <1>25, <1>26, <1>27, <1>28 DEF HandsOut
<1> QED  BY <1>29 DEF r, h2, h1

LEMMA TakeHandsOut ==
  ASSUME NEW D, NEW h, Sound(D, h), NEW node \in FreeOf(D, h), NEW size \in Nat,
         (size % Alignment) = 0, size >= Alignment, h.nodes[node].size >= size
  PROVE  \E E : HandsOut(D, h, E, Take(h, node, size), node, size)
<1>1. CASE h.nodes[node].size - size >= MinSplit
  BY <1>1, TakeSplit DEF Take
<1>2. CASE ~ (h.nodes[node].size - size >= MinSplit)
  BY <1>2, TakeWhole DEF Take
<1> QED  BY <1>1, <1>2

-----------------------------------------------------------------------------
(* Giving a block back.                                                    *)

\* From h to r a header is forgotten.
Forgotten(D, h, x, r) ==
  /\ r \in HeapOver(D \ {x}) /\ SameLists(h, r)
  /\ \A m \in D \ {x} : r.nodes[m] = h.nodes[m]

LEMMA UnheadedIs ==
  ASSUME NEW D, NEW h \in HeapOver(D), NEW x
  PROVE  Forgotten(D, h, x, Unheaded(h, x))
<1> DEFINE N == [n \in DOMAIN h.nodes \ {x} |-> h.nodes[n]]
<1>1. N \in [D \ {x} -> NodeType] /\ \A m \in D \ {x} : N[m] = h.nodes[m]
  BY DEF HeapOver
<1>2. Unheaded(h, x) = [h EXCEPT !.nodes = N]
  BY DEF Unheaded
<1> HIDE DEF N
<1> QED  BY <1>1, <1>2 DEF Forgotten, HeapOver, SameLists, SameEnds

\* From h to g the block of node takes over that of next, with its header.
Swallowed(D, h, node, next, g) ==
  /\ Linked(D \ {next}, g) /\ SameLists(h, g)
  /\ \A m \in D \ {next} :
       /\ g.nodes[m].size = IF m = node THEN h.nodes[node].size + Header + h.nodes[next].size
                           ELSE h.nodes[m].size
       /\ m # node => g.nodes[m].next = h.nodes[m].next
       /\ g.nodes[m].prev = h.nodes[m].prev
       /\ g.nodes[m].used = h.nodes[m].used

LEMMA AbsorbSwallows ==
  ASSUME NEW D, NEW h, Linked(D, h), NEW node \in D, NEW next \in D, node # next,
         h.nodes[next].next = NULL
  PROVE  Swallowed(D, h, node, next, Absorb(h, node, next))
<1> DEFINE size == h.nodes[node].size + Header + h.nodes[next].size
           g1   == SetSize(h, node, size)
           g2   == SetNext(g1, node, NULL)
           g3   == SetTail(g2, node)
           g4   == Unheaded(g3, next)
<1>1. D \in SUBSET Int /\ NULL \notin D /\ h \in HeapOver(D) /\ node \in Int /\ NULL \in Int
  BY DEF Linked, NULL
<1>2. size \in Int
  BY <1>1, Constants DEF HeapOver, NodeType
<1>3. Absorb(h, node, next) = g4
  BY DEF Absorb, Joined
<1> HIDE DEF size, g1, g2, g3, g4
<1>4. /\ g1 \in HeapOver(D) /\ SameLists(h, g1)
      /\ \A m \in D : /\ g1.nodes[m].size = (IF m = node THEN size ELSE h.nodes[m].size)
                      /\ g1.nodes[m].next = h.nodes[m].next /\ g1.nodes[m].prev = h.nodes[m].prev
                      /\ g1.nodes[m].used = h.nodes[m].used
  <2>1. g1 \in HeapOver(D) /\ SameLists(h, g1)
    BY ONLY <1>1, <1>2, node \in D, SizeSet DEF g1
  <2>2. \A m \in D : /\ g1.nodes[m].size = (IF m = node THEN size ELSE h.nodes[m].size)
                     /\ g1.nodes[m].next = h.nodes[m].next /\ g1.nodes[m].prev = h.nodes[m].prev
                     /\ g1.nodes[m].used = h.nodes[m].used
    BY ONLY <1>1, <1>2, node \in D, SizeField DEF g1
  <2> QED  BY <2>1, <2>2
<1>5. /\ g2 \in HeapOver(D) /\ SameLists(g1, g2)
      /\ \A m \in D : /\ g2.nodes[m].next = (IF m = node THEN NULL ELSE g1.nodes[m].next)
                      /\ g2.nodes[m].prev = g1.nodes[m].prev /\ g2.nodes[m].size = g1.nodes[m].size
                      /\ g2.nodes[m].used = g1.nodes[m].used
  <2>1. g2 \in HeapOver(D) /\ SameLists(g1, g2)
    BY ONLY <1>1, <1>4, node \in D, NextSet DEF g2
  <2>2. \A m \in D : /\ g2.nodes[m].next = (IF m = node THEN NULL ELSE g1.nodes[m].next)
                     /\ g2.nodes[m].prev = g1.nodes[m].prev /\ g2.nodes[m].size = g1.nodes[m].size
                     /\ g2.nodes[m].used = g1.nodes[m].used
    BY ONLY <1>1, <1>4, node \in D, NextField DEF g2
  <2> QED  BY <2>1, <2>2
<1>6. g3 \in HeapOver(D) /\ SameNodes(g2, g3) /\ SameLists(g2, g3)
  BY ONLY <1>1, <1>5, TailSet DEF g3
<1>7. /\ g4 \in HeapOver(D \ {next}) /\ SameLists(g3, g4)
      /\ \A m \in D \ {next} : g4.nodes[m] = g3.nodes[m]
  <2>1. Forgotten(D, g3, next, g4)
    BY ONLY <1>6, UnheadedIs DEF g4
  <2> QED  BY ONLY <2>1, Zenon DEF Forgotten
<1>8. Linked(D \ {next}, g4) /\ SameLists(h, g4)
  BY <1>1, <1>4, <1>5, <1>6, <1>7 DEF Linked, SameLists, SameEnds
<1>9. ASSUME NEW m \in D \ {next}
      PROVE  /\ g4.nodes[m].size = (IF m = node THEN size ELSE h.nodes[m].size)
             /\ m # node => g4.nodes[m].next = h.nodes[m].next
             /\ g4.nodes[m].prev = h.nodes[m].prev
             /\ g4.nodes[m].used = h.nodes[m].used
  <2>1. g4.nodes[m] = g2.nodes[m] /\ m \in D
    BY <1>6, <1>7 DEF SameNodes
  <2> QED  BY ONLY <1>4, <1>5, <2>1
<1> QED  BY <1>3, <1>8, <1>9 DEF Swallowed, size

\* From h to r the block of node is given back; E are r's headers.
TakesBack(D, h, E, r, node) ==
  /\ Sound(E, r) /\ SameEnds(h, r)
  /\ UsedOf(E, r) = UsedOf(D, h) \ {node}
  /\ \A n \in UsedOf(E, r) : r.nodes[n].size = h.nodes[n].size

\* The state kfree starts from: node is no longer in use and in no list.
LEMMA Released ==
  ASSUME NEW D, NEW h, Sound(D, h), NEW node \in UsedOf(D, h)
  PROVE  LET r == SetUsed(h, node, FALSE)
         IN  /\ Linked(D, r) /\ SameEnds(h, r) /\ Lists(r, FreeOf(D, h))
             /\ node \in D /\ node \notin FreeOf(D, h) /\ FreeOf(D, h) \in SUBSET D
             /\ Cleared(D, h, node, r)
<1> DEFINE F == FreeOf(D, h)
           r == SetUsed(h, node, FALSE)
<1>1. node \in D /\ node \notin F /\ F \in SUBSET D /\ Linked(D, h) /\ h \in HeapOver(D) /\ Lists(h, F)
  BY DEF FreeOf, UsedOf, Sound, Linked
<1> HIDE DEF r, F
<1>2. Cleared(D, h, node, r)
  BY ONLY <1>1, UsedOff DEF r
<1>3. r \in HeapOver(D) /\ SameLists(h, r)
  BY <1>2 DEF Cleared
<1>4. Linked(D, r) /\ SameEnds(h, r) /\ r.free_lists = h.free_lists
  BY <1>1, <1>3 DEF Linked, SameLists
<1>5. \A n \in F : /\ r.nodes[n].next = h.nodes[n].next /\ r.nodes[n].prev = h.nodes[n].prev
                  /\ r.nodes[n].size = h.nodes[n].size
  BY <1>1, <1>2 DEF Cleared
<1>6. Lists(r, F)
  BY ONLY <1>1, <1>4, <1>5, ListsFrame
<1> QED  BY <1>1, <1>2, <1>4, <1>6 DEF r, F

LEMMA FreeAlone ==
  ASSUME NEW D, NEW h, Sound(D, h), NEW node \in UsedOf(D, h)
  PROVE  TakesBack(D, h, D, free_list_insert(SetUsed(h, node, FALSE), node), node)
<1> DEFINE F  == FreeOf(D, h)
           h1 == SetUsed(h, node, FALSE)
           r  == free_list_insert(h1, node)
<1>1. /\ Linked(D, h1) /\ SameEnds(h, h1) /\ Lists(h1, F) /\ Cleared(D, h, node, h1)
      /\ node \in D \ F /\ F \in SUBSET D
  BY Released
<1> HIDE DEF h1, r
<1>2. Lists(r, F \cup {node}) /\ Untouched(D, F \cup {node}, h1, r)
  BY ONLY <1>1, InsertLists DEF r
<1>3. \A m \in D : /\ r.nodes[m].size = h.nodes[m].size /\ End(r, m) = End(h, m)
                   /\ r.nodes[m].used <=> (m # node /\ h.nodes[m].used)
  BY <1>1, <1>2 DEF Cleared, Untouched, End
<1>4. Linked(D, r) /\ SameEnds(h, r)
  BY <1>1, <1>2 DEF Untouched, SameEnds
<1>5. Tiles(D, r)
  BY <1>3, <1>4 DEF Sound, Tiles, SameEnds
<1>6. FreeOf(D, r) = F \cup {node} /\ UsedOf(D, r) = UsedOf(D, h) \ {node}
  BY <1>1, <1>3 DEF FreeOf, UsedOf
<1>7. UsedLinks(D, r)
  <2> SUFFICES ASSUME NEW n \in D, r.nodes[n].used
               PROVE  r.nodes[n].prev = NULL /\ r.nodes[n].next \in (D \cap {End(r, n)}) \cup {NULL}
    BY DEF UsedLinks
  <2>1. h.nodes[n].used /\ n \in D \ (F \cup {node})
    BY <1>3 DEF FreeOf
  <2>2. r.nodes[n].prev = h.nodes[n].prev /\ r.nodes[n].next = h.nodes[n].next
    BY <1>1, <1>2, <2>1 DEF Untouched, Cleared
  <2> QED  BY <1>3, <2>1, <2>2 DEF Sound, UsedLinks
<1>8. Sound(D, r)
  BY <1>2, <1>4, <1>5, <1>6, <1>7 DEF Sound, SameEnds
<1>9. TakesBack(D, h, D, r, node)
  BY <1>3, <1>4, <1>6, <1>8 DEF TakesBack, UsedOf
<1> QED  BY <1>9 DEF r, h1

LEMMA FreeMerged ==
  ASSUME NEW D, NEW h, Sound(D, h), NEW node \in UsedOf(D, h), NEW next \in FreeOf(D, h),
         next = End(h, node)
  PROVE  TakesBack(D, h, D \ {next},
                   free_list_insert(Absorb(free_list_remove(SetUsed(h, node, FALSE), next), node, next),
                                    node), node)
<1> DEFINE F  == FreeOf(D, h)
           h1 == SetUsed(h, node, FALSE)
           h2 == free_list_remove(h1, next)
           h3 == Absorb(h2, node, next)
           r  == free_list_insert(h3, node)
           E  == D \ {next}
           F1 == (F \ {next}) \cup {node}
<1>1. /\ Linked(D, h1) /\ SameEnds(h, h1) /\ Lists(h1, F) /\ Cleared(D, h, node, h1)
      /\ node \in D /\ node \notin F /\ F \in SUBSET D
  BY Released
<1>2. next \in D /\ next # node /\ next \in F
  BY <1>1 DEF FreeOf
<1> HIDE DEF h1, h2, h3, r
<1>3. /\ Lists(h2, F \ {next}) /\ Untouched(D, F, h1, h2) /\ h2.nodes[next].next = NULL
  BY ONLY <1>1, <1>2, RemoveLists DEF h2
<1>4. Linked(D, h2) /\ SameEnds(h1, h2)
  BY <1>3 DEF Untouched
<1>5. Swallowed(D, h2, node, next, h3)
  BY ONLY <1>1, <1>2, <1>3, <1>4, AbsorbSwallows DEF h3
<1>6. Linked(E, h3) /\ SameLists(h2, h3)
  BY <1>5 DEF Swallowed
<1>7. Lists(h3, F \ {next})
  <2>1. \A n \in F \ {next} : /\ h3.nodes[n].next = h2.nodes[n].next /\ h3.nodes[n].prev = h2.nodes[n].prev
                              /\ h3.nodes[n].size = h2.nodes[n].size
    BY <1>1, <1>5 DEF Swallowed
  <2>2. h3.free_lists = h2.free_lists
    BY <1>6 DEF SameLists
  <2> QED  BY ONLY <1>3, <2>1, <2>2, ListsFrame
<1>8. Lists(r, F1) /\ Untouched(E, F1, h3, r)
  <2>1. F \ {next} \in SUBSET E /\ node \in E \ (F \ {next})
    BY <1>1, <1>2
  <2> QED  BY ONLY <1>6, <1>7, <2>1, InsertLists DEF r
<1>9. Linked(E, r) /\ SameEnds(h, r)
  BY <1>1, <1>4, <1>6, <1>8 DEF Untouched, SameLists, SameEnds
<1>10. \A m \in E : /\ r.nodes[m].size = (IF m = node THEN h.nodes[node].size + Header + h.nodes[next].size
                                          ELSE h.nodes[m].size)
                    /\ r.nodes[m].used <=> (m # node /\ h.nodes[m].used)
  <2>1. \A m \in D : h2.nodes[m].size = h.nodes[m].size /\ (h2.nodes[m].used <=> (m # node /\ h.nodes[m].used))
    BY <1>1, <1>3 DEF Untouched, Cleared
  <2> QED  BY <1>1, <1>2, <1>5, <1>8, <2>1 DEF Untouched, Swallowed
<1>11. /\ \A m \in D : m \in Nat /\ h.nodes[m].size \in Int /\ End(h, m) \in Int /\ m < End(h, m)
       /\ \A n, m \in D : n < m => End(h, n) <= m
       /\ Header \in Nat
  <2>1. \A m \in D : m \in Nat /\ h.nodes[m].size \in Int
    BY SoundFinite DEF Sound, Linked, HeapOver, NodeType
  <2>2. \A m \in D : h.nodes[m].size >= Alignment /\ \A n \in D : m < n => End(h, m) <= n
    BY DEF Sound, Tiles
  <2>3. Header \in Nat /\ Alignment \in Nat \ {0}
    BY Constants
  <2> QED  BY <2>1, <2>2, <2>3 DEF End
<1>12. \A m \in D \ {node} : End(h, m) # next
  BY <1>1, <1>2, <1>11
<1>13. End(r, node) = End(h, next) /\ \A m \in E \ {node} : End(r, m) = End(h, m)
  BY <1>1, <1>2, <1>10, <1>11 DEF End
<1>14. Tiles(E, r)
  <2>1. /\ HEAP_VIRT_BASE \in D /\ r.cursor = h.cursor /\ h.cursor \in Nat
        /\ \A n \in D : /\ n \in HEAP_VIRT_BASE .. h.cursor - 1 /\ (n % Alignment) = 0
                        /\ h.nodes[n].size >= Alignment /\ End(h, n) \in D \cup {h.cursor}
    BY <1>9 DEF Sound, Tiles, SameEnds
  <2>2. HEAP_VIRT_BASE # next /\ next # h.cursor
    BY <1>1, <1>2, <1>11, <2>1, Constants
  <2>3. \A n \in E : r.nodes[n].size >= Alignment
    BY <1>1, <1>2, <1>10, <1>11, <2>1, Constants
  <2>4. \A n \in E : End(r, n) \in E \cup {r.cursor}
    <3>1. End(h, next) # next
      BY <1>2, <1>11
    <3> QED  BY <1>2, <1>12, <1>13, <2>1, <3>1
  <2>5. ASSUME NEW n \in E, NEW m \in E, n < m PROVE End(r, n) <= m
    <3>1. CASE n = node
      <4>1. next <= m /\ m # next
        BY <1>1, <1>11, <2>5, <3>1
      <4>2. next < m
        BY <1>2, <1>11, <4>1
      <4> QED  BY <1>2, <1>11, <1>13, <3>1, <4>2
    <3>2. CASE n # node
      BY <1>11, <1>13, <2>5, <3>2
    <3> QED  BY <3>1, <3>2
  <2> QED  BY <2>1, <2>2, <2>3, <2>4, <2>5 DEF Tiles
<1>15. FreeOf(E, r) = F1 /\ UsedOf(E, r) = UsedOf(D, h) \ {node}
  BY <1>1, <1>2, <1>10 DEF FreeOf, UsedOf
<1>16. UsedLinks(E, r)
  <2> SUFFICES ASSUME NEW n \in E, r.nodes[n].used
               PROVE  r.nodes[n].prev = NULL /\ r.nodes[n].next \in (E \cap {End(r, n)}) \cup {NULL}
    BY DEF UsedLinks
  <2>1. h.nodes[n].used /\ n # node /\ n \in D \ F /\ n \in E \ F1
    BY <1>10 DEF FreeOf
  <2>2. r.nodes[n].prev = h3.nodes[n].prev /\ r.nodes[n].next = h3.nodes[n].next
    BY <1>8, <2>1 DEF Untouched
  <2>3. h3.nodes[n].prev = h2.nodes[n].prev /\ h3.nodes[n].next = h2.nodes[n].next
    BY <1>5, <2>1 DEF Swallowed
  <2>4. h2.nodes[n].prev = h.nodes[n].prev /\ h2.nodes[n].next = h.nodes[n].next
    BY <1>1, <1>3, <2>1 DEF Untouched, Cleared
  <2>5. h.nodes[n].prev = NULL /\ h.nodes[n].next \in (D \cap {End(h, n)}) \cup {NULL}
    BY <2>1 DEF Sound, UsedLinks
  <2>6. End(r, n) = End(h, n) /\ End(h, n) # next
    BY <1>12, <1>13, <2>1
  <2> QED  BY <2>2, <2>3, <2>4, <2>5, <2>6
<1>17. Sound(E, r)
  BY <1>8, <1>9, <1>14, <1>15, <1>16 DEF Sound, SameEnds
<1>18. TakesBack(D, h, E, r, node)
  BY <1>9, <1>10, <1>15, <1>17 DEF TakesBack, UsedOf
<1> QED  BY <1>18 DEF r, h3, h2, h1

\* What kfree makes of the heap: a used node has no prev, so that only the next one
\* is ever merged.
LEMMA GivesBack ==
  ASSUME NEW D, NEW h, Sound(D, h), NEW node \in UsedOf(D, h)
  PROVE  LET h1 == SetUsed(h, node, FALSE)
         IN  /\ h1.nodes[node].prev = NULL
             /\ \E E : TakesBack(D, h, E, free_list_insert(MergeNext(h1, node), node), node)
<1> DEFINE h1   == SetUsed(h, node, FALSE)
           next == h1.nodes[node].next
<1>1. Cleared(D, h, node, h1) /\ node \in D
  BY Released
<1>2. h.nodes[node].prev = NULL /\ h.nodes[node].next \in (D \cap {End(h, node)}) \cup {NULL}
  BY DEF UsedOf, Sound, UsedLinks
<1> HIDE DEF h1
<1>3. h1.nodes[node].prev = NULL /\ next = h.nodes[node].next
  BY <1>1, <1>2 DEF Cleared
<1>4. CASE next # NULL /\ ~ h1.nodes[next].used
  <2>1. next \in D /\ next = End(h, node)
    BY <1>2, <1>3, <1>4
  <2>2. node # next
    <3>1. h.nodes[node].size \in Int /\ h.nodes[node].size >= Alignment /\ node \in Int
      BY <1>1 DEF Sound, Tiles, Linked, HeapOver, NodeType
    <3> QED  BY <2>1, <3>1, Constants DEF End
  <2>3. next \in FreeOf(D, h)
    BY <1>1, <1>4, <2>1, <2>2 DEF Cleared, FreeOf
  <2>4. MergeNext(h1, node) = Absorb(free_list_remove(h1, next), node, next)
    BY <1>4 DEF MergeNext
  <2>5. TakesBack(D, h, D \ {next}, free_list_insert(MergeNext(h1, node), node), node)
    BY <2>1, <2>3, <2>4, FreeMerged DEF h1
  <2> QED  BY <1>3, <2>5 DEF h1
<1>5. CASE ~ (next # NULL /\ ~ h1.nodes[next].used)
  <2>1. MergeNext(h1, node) = h1
    BY <1>5 DEF MergeNext
  <2>2. TakesBack(D, h, D, free_list_insert(MergeNext(h1, node), node), node)
    BY <2>1, FreeAlone DEF h1
  <2> QED  BY <1>3, <2>2 DEF h1
<1> QED  BY <1>4, <1>5

-----------------------------------------------------------------------------
(* The growth of the heap.  Only the mapping cursor is followed: with more *)
(* than one page the lists may be broken.                                  *)

Cursor(h, c) == "cursor" \in DOMAIN h /\ h.cursor = c

LEMMA SettersKeepCursor ==
  ASSUME NEW h, NEW c, Cursor(h, c), NEW x, NEW v
  PROVE  /\ Cursor(SetNext(h, x, v), c) /\ Cursor(SetPrev(h, x, v), c) /\ Cursor(SetUsed(h, x, v), c)
         /\ Cursor(SetFirst(h, x, v), c) /\ Cursor(SetLast(h, x, v), c) /\ Cursor(SetTail(h, v), c)
         /\ Cursor(Headed(h, x, v), c) /\ Cursor([h EXCEPT !.all_nodes.first = v], c)
         /\ Cursor(SetSize(h, x, v), c) /\ Cursor(Unheaded(h, x), c)
  BY DEF Cursor, SetNext, SetPrev, SetSize, SetUsed, SetFirst, SetLast, SetTail, Headed, Unheaded

LEMMA InsertKeepsCursor ==
  ASSUME NEW h, NEW c, Cursor(h, c), NEW x
  PROVE  Cursor(free_list_insert(h, x), c)
<1> DEFINE b     == bucket_for_size(h.nodes[x].size)
           first == h.free_lists[b].first
           h1    == IF first # NULL THEN SetPrev(h, first, x) ELSE SetLast(h, b, x)
           h2    == SetFirst(h1, b, x)
           h3    == SetNext(h2, x, first)
<1>1. free_list_insert(h, x) = SetPrev(h3, x, NULL)
  BY DEF free_list_insert
<1> HIDE DEF b, first
<1>2. Cursor(h1, c)
  BY SettersKeepCursor
<1> HIDE DEF h1
<1>3. Cursor(h2, c)
  BY ONLY <1>2, SettersKeepCursor DEF h2
<1> HIDE DEF h2
<1>4. Cursor(h3, c)
  BY ONLY <1>3, SettersKeepCursor DEF h3
<1> HIDE DEF h3
<1>5. Cursor(SetPrev(h3, x, NULL), c)
  BY ONLY <1>4, SettersKeepCursor
<1> QED  BY ONLY <1>1, <1>5

LEMMA RemoveKeepsCursor ==
  ASSUME NEW h, NEW c, Cursor(h, c), NEW x
  PROVE  Cursor(free_list_remove(h, x), c)
<1> DEFINE b     == bucket_for_size(h.nodes[x].size)
           prev  == h.nodes[x].prev
           next  == h.nodes[x].next
           h1    == IF prev # NULL THEN SetNext(h, prev, next) ELSE SetFirst(h, b, next)
           after == h1.nodes[x].next
           h2    == IF after # NULL THEN SetPrev(h1, after, prev) ELSE SetLast(h1, b, prev)
           h3    == SetNext(h2, x, NULL)
<1>1. free_list_remove(h, x) = SetPrev(h3, x, NULL)
  BY DEF free_list_remove, Unlinked
<1> HIDE DEF b, prev, next
<1>2. Cursor(h1, c)
  BY SettersKeepCursor
<1> HIDE DEF h1, after
<1>3. Cursor(h2, c)
  BY <1>2, SettersKeepCursor
<1> HIDE DEF h2
<1>4. Cursor(h3, c)
  BY ONLY <1>3, SettersKeepCursor DEF h3
<1> HIDE DEF h3
<1>5. Cursor(SetPrev(h3, x, NULL), c)
  BY ONLY <1>4, SettersKeepCursor
<1> QED  BY ONLY <1>1, <1>5

LEMMA AppendKeepsCursor ==
  ASSUME NEW h, NEW c, Cursor(h, c), NEW x
  PROVE  Cursor(all_nodes_append(h, x), c)
<1> DEFINE last == h.all_nodes.last
           h1   == IF last # NULL THEN SetNext(h, last, x) ELSE [h EXCEPT !.all_nodes.first = x]
           h2   == SetPrev(h1, x, last)
           h3   == SetNext(h2, x, NULL)
<1>1. all_nodes_append(h, x) = SetTail(h3, x)
  BY DEF all_nodes_append
<1> HIDE DEF last
<1>2. Cursor(h1, c)
  BY SettersKeepCursor
<1> HIDE DEF h1
<1>3. Cursor(h2, c)
  BY ONLY <1>2, SettersKeepCursor DEF h2
<1> HIDE DEF h2
<1>4. Cursor(h3, c)
  BY ONLY <1>3, SettersKeepCursor DEF h3
<1> HIDE DEF h3
<1> QED  BY ONLY <1>1, <1>4, SettersKeepCursor

LEMMA MapPageCursor ==
  ASSUME NEW h, NEW c \in Nat, Cursor(h, c)
  PROVE  Cursor(MapPage(h), c + Page)
<1> DEFINE h1  == [h EXCEPT !.frames = @ - 1, !.cursor = @ + Page]
           rec == FreeHeader(NULL, NULL, Page - Header)
           h2  == Headed(h1, h.cursor, rec)
           h3  == all_nodes_append(h2, h.cursor)
<1>1. MapPage(h) = free_list_insert(h3, h.cursor)
  BY DEF MapPage
<1>2. Cursor(h1, c + Page)
  BY DEF Cursor
<1> HIDE DEF h1, rec
<1>3. Cursor(h2, c + Page)
  BY ONLY <1>2, SettersKeepCursor DEF h2
<1> HIDE DEF h2
<1>4. Cursor(h3, c + Page)
  BY ONLY <1>3, AppendKeepsCursor DEF h3
<1> HIDE DEF h3
<1> QED  BY ONLY <1>1, <1>4, InsertKeepsCursor

\* The pages mapped one by one.
Grown(h) == IF h.frames = 0 THEN h ELSE MapPage(h)
Growth(g, h, n) == g = [i \in 0 .. n |-> IF i = 0 THEN h ELSE Grown(g[i - 1])]
PagesFor(size) == (size + Header + Page - 1) \div Page

LEMMA PagesForPositive ==
  ASSUME NEW size \in Nat
  PROVE  PagesFor(size) \in Nat \ {0} /\ PagesFor(0) = 1
<1>1. Header \in Nat \ {0} /\ Page \in Nat \ {0} /\ Header < Page
  BY Constants
<1>2. size + Header + Page - 1 \in Nat /\ size + Header + Page - 1 >= Page
  BY <1>1
<1>3. (size + Header + Page - 1) \div Page \in Nat
      /\ size + Header + Page - 1 < ((size + Header + Page - 1) \div Page) * Page + Page
  BY ONLY <1>1, <1>2, DivBracket
<1>4. PagesFor(size) \in Nat \ {0}
  BY <1>1, <1>2, <1>3 DEF PagesFor
<1>5. (0 + Header + Page - 1) \div Page = 1
  BY ONLY <1>1, SMT
<1> QED  BY <1>4, <1>5 DEF PagesFor

LEMMA ExpandIs ==
  ASSUME NEW h, NEW size \in Nat
  PROVE  \E g : Growth(g, h, PagesFor(size)) /\ expand_heap(h, size) = g[PagesFor(size)]
<1> DEFINE n       == PagesFor(size)
           F(i, g) == IF i = 0 THEN h ELSE Grown(g[i - 1])
           S       == {j \in Nat : \E g : g = [i \in 0 .. j |-> F(i, g)]}
<1>1. 0 \in S
  <2> DEFINE e == [i \in 0 .. 0 |-> h]
  <2>1. e = [i \in 0 .. 0 |-> F(i, e)]
    OBVIOUS
  <2> HIDE DEF e
  <2> QED  BY <2>1
<1>2. ASSUME NEW j \in S PROVE j + 1 \in S
  <2>1. PICK g : g = [i \in 0 .. j |-> F(i, g)]
    OBVIOUS
  <2> DEFINE e == [i \in 0 .. j + 1 |-> IF i = j + 1 THEN Grown(g[j]) ELSE g[i]]
  <2>2. e = [i \in 0 .. j + 1 |-> F(i, e)]
    <3> SUFFICES ASSUME NEW i \in 0 .. j + 1 PROVE e[i] = F(i, e)
      OBVIOUS
    <3>1. CASE i = j + 1
      BY <3>1
    <3>2. CASE i \in 0 .. j
      BY <2>1, <3>2
    <3> QED  BY <3>1, <3>2
  <2> HIDE DEF e, F
  <2>3. \E d : d = [i \in 0 .. j + 1 |-> F(i, d)]
    BY <2>2
  <2> QED  BY <2>3
<1> HIDE DEF S
<1>3. S = Nat
  BY <1>1, <1>2, SetInduction DEF S
<1>4. n \in Nat
  BY PagesForPositive
<1>5. \E g : g = [i \in 0 .. n |-> F(i, g)]
  BY <1>3, <1>4 DEF S
<1> DEFINE mapped == CHOOSE g : g = [i \in 0 .. n |-> F(i, g)]
<1>6. mapped = [i \in 0 .. n |-> F(i, mapped)]
  BY <1>5
<1>7. expand_heap(h, size) = mapped[n]
  BY DEF expand_heap, PagesFor, Grown
<1> QED  BY <1>6, <1>7 DEF Growth

\* With a frame left, the heap has grown by at least a page.
LEMMA ExpandGrows ==
  ASSUME NEW h, NEW c \in Nat, Cursor(h, c), h.frames # 0, NEW size \in Nat
  PROVE  \E d \in Nat : d >= c + Page /\ Cursor(expand_heap(h, size), d)
<1> DEFINE n == PagesFor(size)
<1>1. PICK g : Growth(g, h, n) /\ expand_heap(h, size) = g[n]
  BY ExpandIs
<1>2. n \in Nat \ {0} /\ Page \in Nat
  BY PagesForPositive, Constants
<1> HIDE DEF n
<1>3. \A i \in 0 .. n : g[i] = IF i = 0 THEN h ELSE Grown(g[i - 1])
  BY <1>1 DEF Growth
<1> DEFINE S == {i \in Nat : i + 1 <= n => \E d \in Nat : d >= c + Page /\ Cursor(g[i + 1], d)}
<1>4. 0 \in S
  <2>1. g[0] = h /\ g[1] = MapPage(h)
    BY <1>2, <1>3 DEF Grown
  <2>2. Cursor(g[1], c + Page) /\ c + Page \in Nat
    BY <1>2, <2>1, MapPageCursor
  <2>3. \E d \in Nat : d >= c + Page /\ Cursor(g[1], d)
    BY <2>2
  <2> QED  BY <2>3
<1>5. ASSUME NEW i \in S PROVE i + 1 \in S
  <2> SUFFICES ASSUME i + 1 + 1 <= n
               PROVE  \E d \in Nat : d >= c + Page /\ Cursor(g[i + 1 + 1], d)
    OBVIOUS
  <2>1. PICK d \in Nat : d >= c + Page /\ Cursor(g[i + 1], d)
    BY <1>2
  <2>2. g[i + 1 + 1] = Grown(g[i + 1])
    BY <1>2, <1>3
  <2>3. CASE g[i + 1].frames = 0
    BY <2>1, <2>2, <2>3 DEF Grown
  <2>4. CASE g[i + 1].frames # 0
    <3>1. Cursor(g[i + 1 + 1], d + Page)
      BY ONLY <2>1, <2>2, <2>4, MapPageCursor DEF Grown
    <3>2. d + Page \in Nat /\ d + Page >= c + Page
      BY <1>2, <2>1
    <3> QED  BY <3>1, <3>2
  <2> QED  BY <2>3, <2>4
<1> HIDE DEF S
<1>6. S = Nat
  BY <1>4, <1>5, SetInduction DEF S
<1>7. n - 1 \in S /\ (n - 1) + 1 = n
  BY <1>2, <1>6
<1>8. \E d \in Nat : d >= c + Page /\ Cursor(g[n], d)
  BY <1>2, <1>7 DEF S
<1> QED  BY <1>1, <1>8

-----------------------------------------------------------------------------
(* The heap that heap_init makes.                                          *)

LEMMA AppendFirst ==
  ASSUME NEW D, NEW h, Linked(D, h), NEW node \in D, h.all_nodes.last = NULL
  PROVE  LET r == all_nodes_append(h, node)
         IN  /\ Linked(D, r) /\ SameLists(h, r)
             /\ \A m \in D : r.nodes[m].size = h.nodes[m].size /\ r.nodes[m].used = h.nodes[m].used
<1> DEFINE h1 == [h EXCEPT !.all_nodes.first = node]
           h2 == SetPrev(h1, node, NULL)
           h3 == SetNext(h2, node, NULL)
           r  == SetTail(h3, node)
<1>1. all_nodes_append(h, node) = r
  BY DEF all_nodes_append
<1>2. h \in HeapOver(D) /\ D \in SUBSET Int /\ NULL \notin D /\ node \in Int /\ NULL \in Int
  BY DEF Linked, NULL
<1>3. h1 \in HeapOver(D) /\ SameLists(h, h1) /\ h1.nodes = h.nodes
  BY <1>2 DEF HeapOver, ListType, SameLists, SameEnds
<1> HIDE DEF h1, h2, h3, r
<1>4. h2 \in HeapOver(D) /\ SameLists(h1, h2)
  BY ONLY <1>2, <1>3, node \in D, PrevSet DEF h2
<1>5. \A m \in D : h2.nodes[m].size = h1.nodes[m].size /\ h2.nodes[m].used = h1.nodes[m].used
  BY ONLY <1>2, <1>3, node \in D, PrevField DEF h2
<1>6. h3 \in HeapOver(D) /\ SameLists(h2, h3)
  BY ONLY <1>2, <1>4, node \in D, NextSet DEF h3
<1>7. \A m \in D : h3.nodes[m].size = h2.nodes[m].size /\ h3.nodes[m].used = h2.nodes[m].used
  BY ONLY <1>2, <1>4, node \in D, NextField DEF h3
<1>8. r \in HeapOver(D) /\ SameNodes(h3, r) /\ SameLists(h3, r)
  BY ONLY <1>2, <1>6, TailSet DEF r
<1>9. Linked(D, r) /\ SameLists(h, r)
  BY <1>2, <1>3, <1>4, <1>6, <1>8 DEF Linked, SameLists, SameEnds
<1>10. \A m \in D : r.nodes[m].size = h.nodes[m].size /\ r.nodes[m].used = h.nodes[m].used
  BY <1>3, <1>5, <1>7, <1>8 DEF SameNodes
<1> QED  BY <1>1, <1>9, <1>10

LEMMA InitSound ==
  /\ Sound({HEAP_VIRT_BASE}, heap_init) /\ UsedOf({HEAP_VIRT_BASE}, heap_init) = {}
  /\ Cursor(heap_init, HEAP_VIRT_BASE + Page) /\ heap_init.frames = Frames - 1
<1> DEFINE h0   == [nodes |-> [n \in {} |-> NULL],
                    free_lists |-> [b \in Buckets |-> [first |-> NULL, last |-> NULL]],
                    all_nodes |-> [first |-> NULL, last |-> NULL],
                    cursor |-> HEAP_VIRT_BASE,
                    frames |-> Frames]
           base == HEAP_VIRT_BASE
           D    == {base}
           rec  == FreeHeader(NULL, NULL, Page - Header)
           h1   == [h0 EXCEPT !.frames = @ - 1, !.cursor = @ + Page]
           h2   == Headed(h1, base, rec)
           h3   == all_nodes_append(h2, base)
           r    == free_list_insert(h3, base)
<1>1. /\ Header \in Nat \ {0} /\ Alignment \in Nat \ {0} /\ Page \in Nat \ {0} /\ Frames \in Nat \ {0}
      /\ Header + Alignment <= Page /\ base = Page
  BY Constants
<1>2. heap_init = r
  <2>1. heap_init = expand_heap(h0, 0)
    BY DEF heap_init
  <2>2. MapPage(h0) = r
    BY DEF MapPage
  <2>3. h0.frames # 0
    BY <1>1
  <2> HIDE DEF h0, r
  <2>4. PICK g : Growth(g, h0, PagesFor(0)) /\ expand_heap(h0, 0) = g[PagesFor(0)]
    BY ExpandIs
  <2>5. PagesFor(0) = 1
    BY PagesForPositive
  <2>6. g[1] = Grown(g[0]) /\ g[0] = h0
    BY <2>4, <2>5 DEF Growth
  <2> QED  BY <2>1, <2>2, <2>3, <2>4, <2>5, <2>6 DEF Grown
<1>3. /\ h1 \in HeapOver({}) /\ h1.cursor = base + Page /\ h1.frames = Frames - 1
      /\ h1.all_nodes.last = NULL
      /\ \A b \in Buckets : h1.free_lists[b].first = NULL /\ h1.free_lists[b].last = NULL
  <2>1. /\ h0.cursor = base /\ h0.frames = Frames /\ h0.all_nodes.last = NULL
        /\ \A b \in Buckets : h0.free_lists[b].first = NULL /\ h0.free_lists[b].last = NULL
    OBVIOUS
  <2>2. h0 \in HeapOver({})
    <3>1. [n \in {} |-> NULL] \in [{} -> NodeType]
      OBVIOUS
    <3>2. [first |-> NULL, last |-> NULL] \in ListType
      BY DEF ListType, NULL
    <3>3. base \in Int /\ Frames \in Int
      BY <1>1
    <3> QED  BY ONLY <3>1, <3>2, <3>3 DEF HeapOver
  <2> HIDE DEF h0
  <2>3. h1 \in HeapOver({}) /\ h1.cursor = h0.cursor + Page /\ h1.frames = h0.frames - 1
        /\ h1.all_nodes = h0.all_nodes /\ h1.free_lists = h0.free_lists
    <3> DEFINE e == [h0 EXCEPT !.frames = @ - 1]
    <3>1. /\ e \in HeapOver({}) /\ e.frames = h0.frames - 1 /\ e.cursor = h0.cursor
          /\ e.all_nodes = h0.all_nodes /\ e.free_lists = h0.free_lists
      BY <2>2 DEF HeapOver
    <3>2. h1 = [e EXCEPT !.cursor = @ + Page]
      BY <2>2 DEF HeapOver
    <3> HIDE DEF e, h1
    <3>3. e.cursor + Page \in Int
      BY <1>1, <3>1 DEF HeapOver
    <3> QED  BY ONLY <3>1, <3>2, <3>3 DEF HeapOver
  <2> QED  BY <2>1, <2>3
<1>4. rec \in NodeType /\ rec.used = FALSE /\ rec.size = Page - Header
  BY <1>1 DEF FreeHeader, NodeType, NULL
<1>5. h2.all_nodes = h1.all_nodes
  BY <1>3 DEF Headed, HeapOver
<1> HIDE DEF h0, h1, h2, h3, r, rec
<1>6. h2 \in HeapOver(D) /\ SameLists(h1, h2) /\ h2.nodes[base] = rec
  <2>1. Written({}, h1, base, rec, h2)
    BY ONLY <1>1, <1>3, <1>4, HeadedIs DEF h2
  <2>2. {} \cup {base} = D
    OBVIOUS
  <2> QED  BY ONLY <2>1, <2>2, Zenon DEF Written
<1>7. Linked(D, h2)
  BY <1>1, <1>6 DEF Linked, NULL
<1>8. /\ Linked(D, h3) /\ SameLists(h2, h3)
      /\ h3.nodes[base].size = h2.nodes[base].size /\ h3.nodes[base].used = h2.nodes[base].used
  BY <1>3, <1>5, <1>7, AppendFirst DEF h3
<1>9. \A b \in Buckets : h3.free_lists[b].first = NULL /\ h3.free_lists[b].last = NULL
  BY <1>3, <1>6, <1>8 DEF SameLists
<1>10. Lists(h3, {})
  <2> SUFFICES ASSUME NEW b \in Buckets
               PROVE  \E m \in Nat : \E q \in [1 .. m -> {}] : IsList(h3, {}, b, m, q)
    BY DEF Lists
  <2> DEFINE q == [i \in 1 .. 0 |-> NULL]
  <2>1. q \in [1 .. 0 -> {}]
    OBVIOUS
  <2>2. IsList(h3, {}, b, 0, q)
    BY <1>9 DEF IsList
  <2> QED  BY <2>1, <2>2
<1>11. Lists(r, {} \cup {base}) /\ Untouched(D, {} \cup {base}, h3, r)
  BY <1>8, <1>10, InsertLists DEF r
<1>12. /\ Linked(D, r) /\ r.cursor = base + Page /\ r.frames = Frames - 1
       /\ r.nodes[base].size = Page - Header /\ ~ r.nodes[base].used
  BY <1>3, <1>4, <1>6, <1>8, <1>11 DEF Untouched, SameLists, SameEnds
<1>13. FreeOf(D, r) = {} \cup {base} /\ UsedOf(D, r) = {}
  BY <1>12 DEF FreeOf, UsedOf
<1>14. Tiles(D, r)
  <2>1. (base % Alignment) = 0
    BY <1>1, HeapAssumption
  <2>2. End(r, base) = r.cursor
    BY <1>1, <1>12 DEF End
  <2> QED  BY <1>1, <1>12, <2>1, <2>2 DEF Tiles
<1>15. UsedLinks(D, r)
  BY <1>12 DEF UsedLinks
<1>16. Sound(D, r)
  BY <1>1, <1>11, <1>12, <1>13, <1>14, <1>15 DEF Sound
<1>17. "cursor" \in DOMAIN r
  BY <1>12 DEF Linked, HeapOver
<1> QED  BY <1>2, <1>12, <1>13, <1>16, <1>17 DEF Cursor

-----------------------------------------------------------------------------
(* The inductive invariant.                                                *)

OnePage == heap.cursor = HEAP_VIRT_BASE + Page

\* The callers hold the used nodes' blocks, each at least as long as they asked for.
Held(D, h, l) ==
  /\ DOMAIN l = {NODE_DATA(n) : n \in UsedOf(D, h)}
  /\ \A n \in UsedOf(D, h) :
       l[NODE_DATA(n)] \in Sizes \ {0} /\ l[NODE_DATA(n)] <= h.nodes[n].size

IInv ==
  /\ \E c \in Nat : Cursor(heap, c) /\ c >= HEAP_VIRT_BASE + Page
  /\ OnePage => /\ \E D : Sound(D, heap) /\ Held(D, heap, live)
                /\ heap.frames = Frames - 1

LEMMA InitIInv == Init => IInv
<1> SUFFICES ASSUME Init PROVE IInv
  OBVIOUS
<1>1. heap = heap_init /\ live = [p \in {} |-> 0]
  BY DEF Init
<1>2. Held({HEAP_VIRT_BASE}, heap, live)
  BY <1>1, InitSound DEF Held
<1>3. HEAP_VIRT_BASE + Page \in Nat /\ HEAP_VIRT_BASE + Page >= HEAP_VIRT_BASE + Page
  BY Constants
<1> QED  BY <1>1, <1>2, <1>3, InitSound DEF IInv

\* A block handed out.
LEMMA HeldMore ==
  ASSUME NEW D, NEW h, NEW l, Sound(D, h), Held(D, h, l), NEW E, NEW r, NEW node \in FreeOf(D, h),
         NEW size \in Nat, NEW asked \in Sizes \ {0}, asked <= size,
         HandsOut(D, h, E, r, node, size)
  PROVE  Held(E, r, With(l, NODE_DATA(node), asked)) /\ NODE_DATA(node) \notin DOMAIN l
<1> DEFINE l1 == With(l, NODE_DATA(node), asked)
<1>1. \A n \in D : n \in Nat
  BY SoundFinite
<1>2. node \in D /\ node \notin UsedOf(D, h) /\ UsedOf(D, h) \in SUBSET D
  BY DEF FreeOf, UsedOf
<1>3. /\ UsedOf(E, r) = UsedOf(D, h) \cup {node}
      /\ \A n \in UsedOf(D, h) : r.nodes[n].size = h.nodes[n].size
      /\ r.nodes[node].size >= size /\ r.nodes[node].size \in Int
  BY DEF HandsOut, Sound, Linked, HeapOver, NodeType
<1>4. Header \in Nat /\ asked \in Nat
  BY Constants
<1>5. DOMAIN l1 = DOMAIN l \cup {NODE_DATA(node)}
  BY DEF With
<1>6. DOMAIN l1 = {NODE_DATA(n) : n \in UsedOf(E, r)}
  BY <1>3, <1>5 DEF Held
<1>7. NODE_DATA(node) \notin DOMAIN l
  BY <1>1, <1>2, <1>4 DEF Held, NODE_DATA
<1>8. ASSUME NEW n \in UsedOf(E, r)
      PROVE  l1[NODE_DATA(n)] \in Sizes \ {0} /\ l1[NODE_DATA(n)] <= r.nodes[n].size
  <2>1. CASE n = node
    <3>1. l1[NODE_DATA(n)] = asked
      BY <2>1 DEF With
    <3> HIDE DEF l1
    <3>2. asked <= r.nodes[node].size
      BY <1>3, <1>4
    <3> QED  BY ONLY <2>1, <3>1, <3>2, asked \in Sizes \ {0}
  <2>2. CASE n # node
    <3>1. n \in UsedOf(D, h)
      BY <1>3, <2>2
    <3>2. NODE_DATA(n) \in DOMAIN l /\ NODE_DATA(n) # NODE_DATA(node)
      BY <1>7, <3>1 DEF Held
    <3>3. l1[NODE_DATA(n)] = l[NODE_DATA(n)]
      BY <3>2 DEF With
    <3> QED  BY <1>3, <3>1, <3>3 DEF Held
  <2> QED  BY <2>1, <2>2
<1> QED  BY <1>6, <1>7, <1>8 DEF Held

\* A block given back.
LEMMA HeldLess ==
  ASSUME NEW D, NEW h, NEW l, Sound(D, h), Held(D, h, l), NEW E, NEW r, NEW node \in UsedOf(D, h),
         TakesBack(D, h, E, r, node)
  PROVE  Held(E, r, [p \in DOMAIN l \ {NODE_DATA(node)} |-> l[p]])
<1> DEFINE l1 == [p \in DOMAIN l \ {NODE_DATA(node)} |-> l[p]]
<1>1. \A n \in D : n \in Nat
  BY SoundFinite
<1>2. node \in D /\ UsedOf(D, h) \in SUBSET D
  BY DEF UsedOf
<1>3. UsedOf(E, r) = UsedOf(D, h) \ {node} /\ \A n \in UsedOf(E, r) : r.nodes[n].size = h.nodes[n].size
  BY DEF TakesBack
<1>4. Header \in Nat
  BY Constants
<1>5. \A n \in D \ {node} : NODE_DATA(n) # NODE_DATA(node)
  BY <1>1, <1>2, <1>4 DEF NODE_DATA
<1>6. DOMAIN l1 = {NODE_DATA(n) : n \in UsedOf(E, r)}
  BY <1>2, <1>3, <1>5 DEF Held
<1>7. \A n \in UsedOf(E, r) : l1[NODE_DATA(n)] = l[NODE_DATA(n)]
  BY <1>6
<1> QED  BY <1>3, <1>6, <1>7 DEF Held

-----------------------------------------------------------------------------
(* The steps.                                                              *)

LEMMA TakeKeepsCursor ==
  ASSUME NEW h, NEW c, Cursor(h, c), NEW node, NEW size
  PROVE  Cursor(Take(h, node, size), c)
<1> DEFINE h1    == free_list_remove(h, node)
           split == SplitAt(node, size)
           next  == h1.nodes[node].next
           rec   == FreeHeader(next, node, h1.nodes[node].size - size - Header)
           g1    == Headed(h1, split, rec)
           g2    == IF next # NULL THEN SetPrev(g1, next, split) ELSE SetTail(g1, split)
           g3    == SetSize(g2, node, size)
           g4    == SetNext(g3, node, split)
           g5    == free_list_insert(g4, split)
<1>1. Cursor(h1, c)
  BY RemoveKeepsCursor
<1>2. Split(h1, node, size) = g5
  BY DEF Split
<1> HIDE DEF h1, split, next, rec
<1>3. Cursor(g1, c)
  BY ONLY <1>1, SettersKeepCursor DEF g1
<1> HIDE DEF g1
<1>4. Cursor(g2, c)
  BY <1>3, SettersKeepCursor
<1> HIDE DEF g2
<1>5. Cursor(g3, c)
  BY ONLY <1>4, SettersKeepCursor DEF g3
<1> HIDE DEF g3
<1>6. Cursor(g4, c)
  BY ONLY <1>5, SettersKeepCursor DEF g4
<1> HIDE DEF g4
<1>7. Cursor(g5, c)
  BY ONLY <1>6, InsertKeepsCursor DEF g5
<1>8. Cursor(SetUsed(h1, node, TRUE), c) /\ Cursor(SetUsed(Split(h1, node, size), node, TRUE), c)
  BY ONLY <1>1, <1>2, <1>7, SettersKeepCursor
<1>9. \/ Take(h, node, size) = SetUsed(h1, node, TRUE)
      \/ Take(h, node, size) = SetUsed(Split(h1, node, size), node, TRUE)
  BY DEF Take, h1
<1> QED  BY ONLY <1>8, <1>9

LEMMA AbsorbKeepsCursor ==
  ASSUME NEW h, NEW c, Cursor(h, c), NEW node, NEW next
  PROVE  Cursor(Absorb(h, node, next), c)
<1> DEFINE size  == h.nodes[node].size + Header + h.nodes[next].size
           after == h.nodes[next].next
           g1    == SetSize(h, node, size)
           g2    == SetNext(g1, node, after)
           g3    == IF after # NULL THEN SetPrev(g2, after, node) ELSE SetTail(g2, node)
<1>1. Absorb(h, node, next) = Unheaded(g3, next)
  BY DEF Absorb, Joined
<1> HIDE DEF size, after
<1>2. Cursor(g1, c)
  BY SettersKeepCursor
<1> HIDE DEF g1
<1>3. Cursor(g2, c)
  BY ONLY <1>2, SettersKeepCursor DEF g2
<1> HIDE DEF g2
<1>4. Cursor(g3, c)
  BY <1>3, SettersKeepCursor
<1> HIDE DEF g3
<1>5. Cursor(Unheaded(g3, next), c)
  BY ONLY <1>4, SettersKeepCursor
<1> QED  BY ONLY <1>1, <1>5

LEMMA MergeKeepsCursor ==
  ASSUME NEW h, NEW c, Cursor(h, c), NEW node
  PROVE  Cursor(MergeNext(h, node), c)
<1> DEFINE next == h.nodes[node].next
           h1   == free_list_remove(h, next)
<1>1. Cursor(h1, c)
  BY RemoveKeepsCursor
<1>2. MergeNext(h, node) = h \/ MergeNext(h, node) = Absorb(h1, node, next)
  BY DEF MergeNext
<1> HIDE DEF h1, next
<1>3. Cursor(Absorb(h1, node, next), c)
  BY ONLY <1>1, AbsorbKeepsCursor
<1> QED  BY ONLY <1>2, <1>3, Cursor(h, c)

LEMMA KfreeKeepsCursor ==
  ASSUME NEW c, Cursor(heap, c), NEW ptr, kfree(ptr)
  PROVE  Cursor(heap', c)
<1> DEFINE node  == NODE_FROM_DATA(ptr)
           h1    == SetUsed(heap, node, FALSE)
           prev  == h1.nodes[node].prev
           merge == prev # NULL /\ ~ h1.nodes[prev].used
           g     == Absorb(free_list_remove(h1, prev), prev, node)
           h2    == IF merge THEN g ELSE h1
           kept  == IF merge THEN prev ELSE node
<1>1. heap' = heap \/ heap' = free_list_insert(MergeNext(h2, kept), kept)
  BY DEF kfree, vars
<1>2. Cursor(h1, c)
  BY SettersKeepCursor
<1> HIDE DEF node, h1
<1>3. Cursor(free_list_remove(h1, prev), c)
  BY ONLY <1>2, RemoveKeepsCursor
<1>4. Cursor(g, c)
  BY ONLY <1>3, AbsorbKeepsCursor DEF g
<1> HIDE DEF g, kept, merge
<1>5. Cursor(h2, c)
  BY <1>2, <1>4
<1> HIDE DEF h2
<1>6. Cursor(MergeNext(h2, kept), c)
  BY ONLY <1>5, MergeKeepsCursor
<1>7. Cursor(free_list_insert(MergeNext(h2, kept), kept), c)
  BY ONLY <1>6, InsertKeepsCursor
<1> QED  BY ONLY <1>1, <1>7, Cursor(heap, c)

LEMMA RoundUpNat ==
  ASSUME NEW x \in Nat
  PROVE  RoundUp(x) \in Nat
<1>1. Alignment \in Nat \ {0} /\ x + Alignment - 1 \in Nat
  BY Constants
<1>2. (x + Alignment - 1) \div Alignment \in Nat
  BY ONLY <1>1, DivBracket
<1>3. \A k \in Nat : k * Alignment \in Nat
  BY <1>1
<1> QED  BY <1>2, <1>3 DEF RoundUp

LEMMA MinOf ==
  ASSUME NEW S \in SUBSET Nat, S # {}
  PROVE  Min(S) \in S
<1>1. \E m \in S : \A n \in S : m <= n
  BY LeastNat
<1> QED  BY <1>1 DEF Min

\* What a call of kmalloc does to a heap of one page: nothing, or it hands out a
\* free block, or it maps another page.
Grew(request) ==
  LET size == RoundUp(request)
      head == heap.cursor
  IN  heap' = SetUsed(free_list_remove(expand_heap(heap, size), head), head, TRUE)

LEMMA KmallocTakes ==
  ASSUME NEW D, Sound(D, heap), NEW request \in Sizes, kmalloc(request)
  PROVE  \/ UNCHANGED <<heap, live>> /\ ret' = NULL
         \/ /\ request # 0 /\ request <= RoundUp(request) /\ RoundUp(request) \in Nat
            /\ \E node \in FreeOf(D, heap) :
                 /\ \E E : HandsOut(D, heap, E, heap', node, RoundUp(request))
                 /\ Return(node, request)
         \/ heap.frames # 0 /\ Grew(request)
<1> DEFINE size  == RoundUp(request)
           stops == Stops(heap, size)
           b     == Min(stops)
           fits  == Fits(heap, b, size)
           node  == Walk(heap, b)[Min(fits)]
<1>1. request = 0 => UNCHANGED <<heap, live>> /\ ret' = NULL
  BY DEF kmalloc
<1>2. CASE request # 0 /\ stops # {} /\ fits # {}
  <2>1. heap' = Take(heap, node, size) /\ Return(node, request)
    BY <1>2 DEF kmalloc
  <2>2. request \in Nat
    BY Constants
  <2>3. size \in Nat /\ size >= request /\ size >= Alignment /\ (size % Alignment) = 0
    BY <1>2, <2>2, RoundUpIs
  <2>4. stops \in SUBSET Nat /\ stops \subseteq Buckets
    BY HeapAssumption DEF Stops, Buckets
  <2> HIDE DEF size
  <2>5. b \in Buckets
    BY <1>2, <2>4, MinOf
  <2> HIDE DEF b
  <2>6. /\ \A k \in fits : Walk(heap, b)[k] \in FreeOf(D, heap) /\ heap.nodes[Walk(heap, b)[k]].size >= size
        /\ fits \subseteq Nat
    BY <2>3, <2>5, SearchFinds
  <2>7. Min(fits) \in fits
    BY <1>2, <2>6, MinOf
  <2>8. node \in FreeOf(D, heap) /\ heap.nodes[node].size >= size
    BY <2>6, <2>7
  <2> HIDE DEF node
  <2>9. \E E : HandsOut(D, heap, E, heap', node, size)
    BY <2>1, <2>3, <2>8, TakeHandsOut
  <2>10. request <= size
    BY <2>2, <2>3
  <2> QED  BY <1>2, <2>1, <2>3, <2>8, <2>9, <2>10 DEF size
<1>3. CASE ~ (request # 0 /\ stops # {} /\ fits # {})
  BY <1>1, <1>3 DEF kmalloc, Grew
<1> QED  BY <1>2, <1>3

\* What a call of kfree does to it: nothing, or it takes back a used block.
LEMMA KfreeTakesBack ==
  ASSUME NEW D, Sound(D, heap), Held(D, heap, live), NEW ptr \in DOMAIN live \cup {NULL}, kfree(ptr)
  PROVE  \/ UNCHANGED vars
         \/ /\ UNCHANGED ret
            /\ \E node \in UsedOf(D, heap) :
                 /\ \E E : TakesBack(D, heap, E, heap', node)
                 /\ ptr = NODE_DATA(node)
                 /\ live' = [p \in DOMAIN live \ {ptr} |-> live[p]]
<1>1. CASE ptr = NULL
  <2>1. NULL \notin DOMAIN live
    <3> SUFFICES ASSUME NEW n \in UsedOf(D, heap) PROVE NODE_DATA(n) # NULL
      BY DEF Held
    <3>1. n \in Nat \ {0}
      BY SoundFinite DEF UsedOf
    <3> QED  BY <3>1, Constants DEF NODE_DATA, NULL
  <2> QED  BY <1>1 DEF kfree
<1>2. CASE ptr # NULL
  <2>1. PICK node \in UsedOf(D, heap) : ptr = NODE_DATA(node)
    BY <1>2 DEF Held
  <2>2. node \in Nat
    BY SoundFinite DEF UsedOf
  <2>3. NODE_FROM_DATA(ptr) = node
    BY <2>1, <2>2, Constants DEF NODE_DATA, NODE_FROM_DATA
  <2> DEFINE h1 == SetUsed(heap, node, FALSE)
  <2>4. /\ h1.nodes[node].prev = NULL
        /\ \E E : TakesBack(D, heap, E, free_list_insert(MergeNext(h1, node), node), node)
    BY GivesBack
  <2> HIDE DEF h1
  <2>5. /\ heap' = free_list_insert(MergeNext(h1, node), node)
        /\ live' = [p \in DOMAIN live \ {ptr} |-> live[p]] /\ UNCHANGED ret
    BY <1>2, <2>3, <2>4 DEF kfree, h1
  <2> QED  BY <2>1, <2>4, <2>5
<1> QED  BY <1>1, <1>2

LEMMA KmallocIInv ==
  ASSUME IInv, NEW request \in Sizes, kmalloc(request)
  PROVE  IInv'
<1>1. PICK c \in Nat : Cursor(heap, c) /\ c >= HEAP_VIRT_BASE + Page
  BY DEF IInv
<1>2. (\E d \in Nat : d >= c + Page /\ Cursor(heap', d))
      \/ (Cursor(heap', c) /\ (heap.frames # 0 => ~ Grew(request)))
  <2>1. CASE heap.frames # 0 /\ Grew(request)
    <3> DEFINE head == heap.cursor
               g    == expand_heap(heap, RoundUp(request))
    <3>1. RoundUp(request) \in Nat
      BY RoundUpNat, Constants
    <3>2. PICK d \in Nat : d >= c + Page /\ Cursor(g, d)
      BY <1>1, <2>1, <3>1, ExpandGrows
    <3> HIDE DEF g
    <3>3. Cursor(free_list_remove(g, head), d)
      BY <3>2, RemoveKeepsCursor
    <3>4. Cursor(SetUsed(free_list_remove(g, head), head, TRUE), d)
      BY <3>3, SettersKeepCursor
    <3>5. heap' = SetUsed(free_list_remove(g, head), head, TRUE)
      BY <2>1 DEF Grew, g
    <3> QED  BY <3>2, <3>4, <3>5
  <2>2. CASE ~ (heap.frames # 0 /\ Grew(request))
    <3>1. heap' = heap \/ \E node, size : heap' = Take(heap, node, size)
      BY <2>2 DEF kmalloc, Grew
    <3>2. Cursor(heap', c)
      BY <1>1, <3>1, TakeKeepsCursor
    <3> QED  BY <2>2, <3>2
  <2> QED  BY <2>1, <2>2
<1>3. CASE \E d \in Nat : d >= c + Page /\ Cursor(heap', d)
  <2>1. PICK d \in Nat : d >= c + Page /\ Cursor(heap', d)
    BY <1>3
  <2>2. ~ OnePage' /\ d >= HEAP_VIRT_BASE + Page
    BY <1>1, <2>1, Constants DEF OnePage, Cursor
  <2> QED  BY <2>1, <2>2 DEF IInv
<1>4. CASE Cursor(heap', c) /\ (heap.frames # 0 => ~ Grew(request))
  <2> SUFFICES ASSUME OnePage'
               PROVE  (\E D : Sound(D, heap') /\ Held(D, heap', live')) /\ heap'.frames = Frames - 1
    BY <1>1, <1>4 DEF IInv
  <2>1. OnePage
    BY <1>1, <1>4 DEF OnePage, Cursor
  <2>2. PICK D : Sound(D, heap) /\ Held(D, heap, live)
    BY <2>1 DEF IInv
  <2>3. heap.frames = Frames - 1
    BY <2>1 DEF IInv
  <2>4. CASE UNCHANGED <<heap, live>>
    BY <2>2, <2>3, <2>4
  <2>5. CASE /\ request # 0 /\ request <= RoundUp(request) /\ RoundUp(request) \in Nat
             /\ \E node \in FreeOf(D, heap) :
                  /\ \E E : HandsOut(D, heap, E, heap', node, RoundUp(request))
                  /\ Return(node, request)
    <3>1. PICK node \in FreeOf(D, heap) :
                  /\ \E E : HandsOut(D, heap, E, heap', node, RoundUp(request))
                  /\ Return(node, request)
      BY <2>5
    <3>2. PICK E : HandsOut(D, heap, E, heap', node, RoundUp(request))
      BY <3>1
    <3>3. live' = With(live, NODE_DATA(node), request)
      BY <3>1 DEF Return
    <3>4. Held(E, heap', live')
      BY <2>2, <2>5, <3>2, <3>3, HeldMore
    <3> QED  BY <2>3, <3>2, <3>4 DEF HandsOut, SameEnds
  <2> QED  BY <1>4, <2>2, <2>4, <2>5, KmallocTakes
<1> QED  BY <1>2, <1>3, <1>4

LEMMA KfreeIInv ==
  ASSUME IInv, NEW ptr \in DOMAIN live \cup {NULL}, kfree(ptr)
  PROVE  IInv'
<1>1. PICK c \in Nat : Cursor(heap, c) /\ c >= HEAP_VIRT_BASE + Page
  BY DEF IInv
<1>2. Cursor(heap', c)
  BY <1>1, KfreeKeepsCursor
<1> SUFFICES ASSUME OnePage'
             PROVE  (\E D : Sound(D, heap') /\ Held(D, heap', live')) /\ heap'.frames = Frames - 1
  BY <1>1, <1>2 DEF IInv
<1>3. OnePage
  BY <1>1, <1>2 DEF OnePage, Cursor
<1>4. PICK D : Sound(D, heap) /\ Held(D, heap, live)
  BY <1>3 DEF IInv
<1>5. heap.frames = Frames - 1
  BY <1>3 DEF IInv
<1>6. CASE UNCHANGED vars
  BY <1>4, <1>5, <1>6 DEF vars
<1>7. CASE \E node \in UsedOf(D, heap) :
             /\ \E E : TakesBack(D, heap, E, heap', node)
             /\ ptr = NODE_DATA(node)
             /\ live' = [p \in DOMAIN live \ {ptr} |-> live[p]]
  <2>1. PICK node \in UsedOf(D, heap) :
             /\ \E E : TakesBack(D, heap, E, heap', node)
             /\ ptr = NODE_DATA(node)
             /\ live' = [p \in DOMAIN live \ {ptr} |-> live[p]]
    BY <1>7
  <2>2. PICK E : TakesBack(D, heap, E, heap', node)
    BY <2>1
  <2>3. Held(E, heap', [p \in DOMAIN live \ {NODE_DATA(node)} |-> live[p]])
    BY ONLY <1>4, <2>1, <2>2, HeldLess
  <2>4. live' = [p \in DOMAIN live \ {NODE_DATA(node)} |-> live[p]]
    BY <2>1
  <2> QED  BY <1>5, <2>2, <2>3, <2>4 DEF TakesBack, SameEnds
<1> QED  BY <1>4, <1>6, <1>7, KfreeTakesBack

LEMMA NextIInv == IInv /\ [Next]_vars => IInv'
<1> SUFFICES ASSUME IInv, [Next]_vars PROVE IInv'
  OBVIOUS
<1>1. CASE \E size \in Sizes : kmalloc(size)
  BY <1>1, KmallocIInv
<1>2. CASE \E ptr \in DOMAIN live \cup {NULL} : kfree(ptr)
  BY <1>2, KfreeIInv
<1>3. CASE UNCHANGED vars
  BY <1>3 DEF IInv, OnePage, vars
<1> QED  BY <1>1, <1>2, <1>3 DEF Next

-----------------------------------------------------------------------------
(* What holds as long as the heap has one page.                            *)

THEOREM Invariance == Spec => []IInv
<1> QED  BY InitIInv, NextIInv, PTL DEF Spec

\* A free list that hands out memory never breaks: splitting, handing out, taking back
\* and merging leave the headers and their blocks a partition of the mapped page.
THEOREM BlocksTile == Spec => [](OnePage => Tiling)
<1>1. IInv => (OnePage => Tiling)
  <2> SUFFICES ASSUME IInv, OnePage PROVE Tiling
    OBVIOUS
  <2>1. PICK D : Sound(D, heap) /\ Held(D, heap, live)
    BY DEF IInv
  <2>2. Nodes = D /\ D \subseteq Nat \ {0}
    BY <2>1, SoundFinite DEF Nodes
  <2>3. /\ Linked(D, heap) /\ Tiles(D, heap) /\ UsedLinks(D, heap) /\ heap.frames \in 0 .. Frames
        /\ FreeOf(D, heap) \in SUBSET D /\ Lists(heap, FreeOf(D, heap))
    BY <2>1 DEF Sound, FreeOf
  <2>4. \A n \in D : heap.nodes[n] \in NodeType
    BY <2>3 DEF Linked, HeapOver
  <2>5. \A n \in FreeOf(D, heap) : {heap.nodes[n].next, heap.nodes[n].prev} \subseteq D \cup {NULL}
    <3>1. \A n \in FreeOf(D, heap) :
            {heap.nodes[n].next, heap.nodes[n].prev} \subseteq (FreeOf(D, heap) \cup {NULL}) \ {n}
      BY ONLY <2>3, ListsLead
    <3> QED  BY <2>3, <3>1
  <2>6. \A n \in D : {heap.nodes[n].next, heap.nodes[n].prev} \subseteq D \cup {NULL}
    BY <2>3, <2>5 DEF FreeOf, UsedLinks
  <2>7. \A n \in D : /\ n \in HEAP_VIRT_BASE .. heap.cursor - 1 /\ (n % Alignment) = 0
                     /\ heap.nodes[n].size >= Alignment
                     /\ End(heap, n) \in D \cup {heap.cursor}
                     /\ \A m \in D : n < m => End(heap, n) <= m
    BY <2>3 DEF Tiles
  <2>8. heap.cursor \in Nat /\ HEAP_VIRT_BASE \in D
    BY <2>3 DEF Tiles
  <2>9. \A n \in D : n \in Nat /\ heap.nodes[n].size \in Int /\ After(n) = End(heap, n) /\ End(heap, n) \in Int
    BY <2>2, <2>4, Constants DEF After, NODE_DATA, End, NodeType
  <2>10. \A n \in D : heap.nodes[n].size \in Alignment .. heap.cursor
    BY <2>7, <2>8, <2>9, Constants DEF End
  <2>11. \A p \in DOMAIN live : live[p] \in Sizes
    BY <2>1 DEF Held
  <2>12. TypeOK
    BY <2>2, <2>3, <2>4, <2>6, <2>7, <2>10, <2>11 DEF TypeOK, NodeType
  <2>13. \A n \in D : ~ \E m \in D : n < m /\ m < After(n)
    BY <2>7, <2>9
  <2> QED  BY <2>2, <2>7, <2>8, <2>9, <2>12, <2>13 DEF Tiling
<1> QED  BY <1>1, Invariance, PTL

\* The list of each size class visits every free node of the class once and no used one,
\* and its prev pointers undo its next pointers.
THEOREM ListsExact == Spec => [](OnePage => FreeListsExact)
<1>1. IInv => (OnePage => FreeListsExact)
  <2> SUFFICES ASSUME IInv, OnePage, NEW b \in Buckets
               PROVE  LET at == Walk(heap, b)
                          on == {k \in DOMAIN at : at[k] # NULL}
                      IN  /\ ~ Cyclic(heap, b)
                          /\ {at[k] : k \in on} = FreeNodes(b)
                          /\ Cardinality(on) = Cardinality(FreeNodes(b))
                          /\ \A k \in on : heap.nodes[at[k]].prev = IF k = 0 THEN NULL ELSE at[k - 1]
                          /\ heap.free_lists[b].last = IF on = {} THEN NULL ELSE at[Max(on)]
    BY DEF FreeListsExact
  <2> DEFINE at == Walk(heap, b)
             on == {k \in DOMAIN at : at[k] # NULL}
  <2>1. PICK D : Sound(D, heap)
    BY DEF IInv
  <2> DEFINE F == FreeOf(D, heap)
             N == Cardinality(D)
  <2>2. Nodes = D /\ NULL \notin F
    BY <2>1, SoundFinite DEF Nodes, FreeOf, NULL
  <2>3. PICK m \in Nat : \E q \in [1 .. m -> F] :
           /\ IsList(heap, F, b, m, q) /\ N \in Nat /\ m <= N /\ DOMAIN at = 0 .. N
           /\ \A k \in 0 .. N : at[k] = IF k < m THEN q[k + 1] ELSE NULL
    BY <2>1, SoundWalk
  <2>4. PICK q \in [1 .. m -> F] :
           /\ IsList(heap, F, b, m, q) /\ N \in Nat /\ m <= N /\ DOMAIN at = 0 .. N
           /\ \A k \in 0 .. N : at[k] = IF k < m THEN q[k + 1] ELSE NULL
    BY <2>3
  <2>5. ~ Cyclic(heap, b)
    BY <2>1, SearchFinds
  <2>6. FreeNodes(b) = {n \in F : BucketOf(heap, n) = b}
    BY <2>2 DEF FreeNodes, FreeOf, BucketOf
  <2> HIDE DEF F, at, N
  <2>7. on = 0 .. m - 1
    BY <2>2, <2>4
  <2>8. \A k \in on : at[k] = q[k + 1] /\ k + 1 \in 1 .. m
    BY <2>4, <2>7
  <2>9. {at[k] : k \in on} = FreeNodes(b)
    <3>1. \A k \in on : at[k] \in FreeNodes(b)
      BY <2>4, <2>6, <2>8 DEF IsList
    <3>2. ASSUME NEW n \in FreeNodes(b) PROVE \E k \in on : at[k] = n
      <4>1. PICK i \in 1 .. m : q[i] = n
        BY <2>4, <2>6, <3>2 DEF IsList
      <4>2. i - 1 \in on /\ (i - 1) + 1 = i
        BY <2>7, <4>1
      <4> QED  BY <2>8, <4>1, <4>2
    <3> QED  BY <3>1, <3>2
  <2>10. Cardinality(on) = Cardinality(FreeNodes(b))
    <3> DEFINE f == [k \in on |-> at[k]]
    <3>1. \A j, k \in on : at[j] = at[k] => j = k
      BY <2>4, <2>7, <2>8 DEF IsList
    <3>2. f \in Bijection(on, FreeNodes(b))
      BY <2>9, <3>1 DEF Bijection, Injection, IsInjective, Surjection
    <3>3. IsFiniteSet(on)
      <4>1. IsFiniteSet(0 .. m - 1)
        BY FS_Interval
      <4> QED  BY ONLY <2>7, <4>1
    <3> QED  BY <3>2, <3>3, FS_Bijection DEF ExistsBijection
  <2>11. \A k \in on : heap.nodes[at[k]].prev = IF k = 0 THEN NULL ELSE at[k - 1]
    <3> TAKE k \in on
    <3>1. heap.nodes[q[k + 1]].prev = IF k + 1 = 1 THEN NULL ELSE q[(k + 1) - 1]
      BY <2>4, <2>8 DEF IsList
    <3>2. k # 0 => k - 1 \in on /\ (k - 1) + 1 = k /\ (k + 1) - 1 = k
      BY <2>7
    <3>3. k + 1 = 1 <=> k = 0
      BY <2>7
    <3> QED  BY <2>8, <3>1, <3>2, <3>3
  <2>12. heap.free_lists[b].last = IF on = {} THEN NULL ELSE at[Max(on)]
    <3>1. CASE m = 0
      BY <2>4, <2>7, <3>1 DEF IsList
    <3>2. CASE m # 0
      <4>1. m - 1 \in on /\ \A k \in on : m - 1 >= k
        BY <2>7, <3>2
      <4>2. Max(on) = m - 1
        BY <2>7, <4>1 DEF Max
      <4>3. at[m - 1] = q[m]
        BY <2>4, <3>2
      <4> QED  BY <2>4, <3>2, <4>1, <4>2, <4>3 DEF IsList
    <3> QED  BY <3>1, <3>2
  <2> QED  BY <2>5, <2>9, <2>10, <2>11, <2>12 DEF at
<1> QED  BY <1>1, Invariance, PTL

\* The next pointer of a used node leads to the block that follows or nowhere.
THEOREM LinksAdjacent == Spec => [](OnePage => UsedNextAdjacent)
<1>1. IInv => (OnePage => UsedNextAdjacent)
  <2> SUFFICES ASSUME IInv, OnePage, NEW n \in Nodes, heap.nodes[n].used
               PROVE  heap.nodes[n].next \in {NULL, After(n)}
    BY DEF UsedNextAdjacent
  <2>1. PICK D : Sound(D, heap)
    BY DEF IInv
  <2>2. n \in D
    BY <2>1, SoundFinite DEF Nodes
  <2> QED  BY <2>1, <2>2 DEF Sound, UsedLinks, End, After, NODE_DATA
<1> QED  BY <1>1, Invariance, PTL

\* The search finds a block whenever some free block is large enough.
THEOREM SearchMissesNothing == Spec => [](OnePage => SearchComplete)
<1>1. IInv => (OnePage => SearchComplete)
  <2> SUFFICES ASSUME IInv, OnePage, NEW size \in Sizes \ {0},
                      NEW n \in Nodes, ~ heap.nodes[n].used, heap.nodes[n].size >= RoundUp(size)
               PROVE  \E b \in Stops(heap, RoundUp(size)) : Fits(heap, b, RoundUp(size)) # {}
    BY DEF SearchComplete
  <2>1. PICK D : Sound(D, heap)
    BY DEF IInv
  <2>2. n \in FreeOf(D, heap)
    BY <2>1, SoundFinite DEF Nodes, FreeOf
  <2> DEFINE s == RoundUp(size)
             b == BucketOf(heap, n)
  <2>3. s \in Nat
    BY Constants, RoundUpNat
  <2>4. heap.nodes[n].size \in Int
    BY <2>1, <2>2 DEF FreeOf, Sound, Linked, HeapOver, NodeType
  <2> HIDE DEF s
  <2>5. b \in Buckets /\ (b \in DOMAIN Thresholds => heap.nodes[n].size < Thresholds[b])
    BY <2>4, BucketType DEF BucketOf
  <2>6. b \in DOMAIN Thresholds => s < Thresholds[b]
    <3>1. b \in DOMAIN Thresholds => Thresholds[b] \in Nat
      BY HeapAssumption
    <3> QED  BY <2>3, <2>4, <2>5, <3>1 DEF s
  <2> HIDE DEF b
  <2>7. bucket_for_size(s) <= b
    BY <2>3, <2>5, <2>6, BucketType
  <2>8. Fits(heap, b, s) # {}
    <3>1. \E k \in FreeOf(D, heap) : BucketOf(heap, k) = b /\ heap.nodes[k].size >= s
      BY <2>2 DEF b, s
    <3> QED  BY <2>1, <2>3, <2>5, <3>1, SearchFinds
  <2>9. b >= bucket_for_size(s)
    BY <2>3, <2>5, <2>7, BucketType, HeapAssumption DEF Buckets
  <2>10. b \in Stops(heap, s)
    BY <2>5, <2>8, <2>9 DEF Stops
  <2> QED  BY <2>8, <2>10 DEF s
<1> QED  BY <1>1, Invariance, PTL

\* kfree looks at prev for a free block to merge with, but the prev of a node in use is
\* always empty: two free blocks that meet stay apart when the second is freed last.
NoBackwardMerge == \A n \in Nodes : heap.nodes[n].used => heap.nodes[n].prev = NULL

THEOREM NeverMergedBackwards == Spec => [](OnePage => NoBackwardMerge)
<1>1. IInv => (OnePage => NoBackwardMerge)
  <2> SUFFICES ASSUME IInv, OnePage, NEW n \in Nodes, heap.nodes[n].used
               PROVE  heap.nodes[n].prev = NULL
    BY DEF NoBackwardMerge
  <2>1. PICK D : Sound(D, heap)
    BY DEF IInv
  <2>2. n \in D
    BY <2>1, SoundFinite DEF Nodes
  <2> QED  BY <2>1, <2>2 DEF Sound, UsedLinks
<1> QED  BY <1>1, Invariance, PTL

-----------------------------------------------------------------------------
(* The pool of blocks that callers see.                                    *)

\* Every block in use lies between its own header and the next one.
LEMMA HeldKept ==
  ASSUME IInv, OnePage
  PROVE  Blocks!Kept
<1>1. PICK D : Sound(D, heap) /\ Held(D, heap, live)
  BY DEF IInv
<1>2. Nodes = D
  BY <1>1, SoundFinite DEF Nodes
<1>3. Header \in Nat \ {0} /\ Alignment \in Nat \ {0} /\ HEAP_VIRT_BASE \in Nat
  BY Constants
<1>4. \A n \in D : n \in Nat /\ heap.nodes[n].size \in Int
  BY <1>1, SoundFinite DEF Sound, Linked, HeapOver, NodeType
<1>5. \A n \in D : /\ n \in HEAP_VIRT_BASE .. heap.cursor - 1 /\ heap.nodes[n].size >= Alignment
                   /\ End(heap, n) \in D \cup {heap.cursor}
                   /\ \A m \in D : n < m => End(heap, n) <= m
  BY <1>1 DEF Sound, Tiles
<1>6. heap.cursor \in Nat
  BY <1>1 DEF Sound, Tiles
<1>7. SUFFICES ASSUME NEW q \in DOMAIN live, NEW a \in Blocks!Extent(q, live[q])
               PROVE  a \in HEAP_VIRT_BASE .. heap.cursor - 1 /\ a \notin Headers
  BY DEF Blocks!Kept
<1>8. PICK n \in UsedOf(D, heap) : q = NODE_DATA(n)
  BY <1>1 DEF Held
<1>9. n \in D /\ live[q] \in Nat /\ live[q] <= heap.nodes[n].size /\ q = n + Header
  BY <1>1, <1>8, Constants DEF Held, UsedOf, NODE_DATA
<1>10. a \in Nat /\ n + Header <= a /\ a < End(heap, n)
  BY <1>3, <1>4, <1>7, <1>9 DEF Blocks!Extent, End
<1>11. End(heap, n) <= heap.cursor
  BY <1>3, <1>4, <1>5, <1>6, <1>9 DEF End
<1>12. ASSUME NEW m \in D PROVE a \notin m .. NODE_DATA(m) - 1
  <2>1. CASE m = n
    BY <1>3, <1>4, <1>9, <1>10, <2>1 DEF NODE_DATA
  <2>2. CASE m < n
    <3>1. End(heap, m) <= n
      BY <1>5, <1>9, <2>2
    <3> QED  BY <1>3, <1>4, <1>5, <1>9, <1>10, <3>1 DEF End, NODE_DATA
  <2>3. CASE n < m
    <3>1. End(heap, n) <= m
      BY <1>5, <1>9, <2>3
    <3> QED  BY <1>3, <1>4, <1>9, <1>10, <3>1 DEF End, NODE_DATA
  <2> QED  BY <1>4, <1>9, <2>1, <2>2, <2>3
<1>13. a \notin Headers
  <2> SUFFICES ASSUME a \in Headers PROVE FALSE
    OBVIOUS
  <2>1. PICK m \in Nodes : a \in m .. NODE_DATA(m) - 1
    BY DEF Headers
  <2> QED  BY <1>2, <1>12, <2>1
<1> QED
  BY <1>3, <1>4, <1>5, <1>6, <1>9, <1>10, <1>11, <1>13

LEMMA KmallocAllocs ==
  ASSUME Frames = 1, IInv, OnePage, NEW request \in Sizes, kmalloc(request)
  PROVE  OnePage' /\ Blocks!Alloc(request)
<1>1. PICK D : Sound(D, heap) /\ Held(D, heap, live)
  BY DEF IInv
<1>2. heap.frames = 0
  BY DEF IInv
<1>3. CASE UNCHANGED <<heap, live>> /\ ret' = NULL
  BY <1>3 DEF OnePage, Blocks!Alloc, Headers, Nodes
<1>4. CASE /\ request # 0 /\ request <= RoundUp(request) /\ RoundUp(request) \in Nat
           /\ \E node \in FreeOf(D, heap) :
                /\ \E E : HandsOut(D, heap, E, heap', node, RoundUp(request))
                /\ Return(node, request)
  <2>1. PICK node \in FreeOf(D, heap) :
                /\ \E E : HandsOut(D, heap, E, heap', node, RoundUp(request))
                /\ Return(node, request)
    BY <1>4
  <2>2. PICK E : HandsOut(D, heap, E, heap', node, RoundUp(request))
    BY <2>1
  <2> DEFINE p    == NODE_DATA(node)
             data == (HEAP_VIRT_BASE .. heap.cursor - 1) \ Headers
  <2>3. /\ Sound(E, heap') /\ node \in E /\ heap'.cursor = heap.cursor
        /\ UsedOf(E, heap') = UsedOf(D, heap) \cup {node} /\ heap'.nodes[node].size >= RoundUp(request)
    BY <2>2 DEF HandsOut, SameEnds
  <2>4. OnePage'
    BY <2>3 DEF OnePage
  <2>5. live' = With(live, p, request) /\ ret' = p
    BY <2>1 DEF Return
  <2>6. Held(E, heap', live') /\ p \notin DOMAIN live
    BY <1>1, <1>4, <2>1, <2>2, <2>5, HeldMore
  <2>7. /\ \A n \in E : /\ n \in Nat /\ heap'.nodes[n].size \in Int /\ End(heap', n) \in Int
                        /\ HEAP_VIRT_BASE <= n /\ End(heap', n) <= heap'.cursor
                        /\ \A m \in E : n < m => End(heap', n) <= m
        /\ Header \in Nat \ {0} /\ Page \in Nat /\ HEAP_VIRT_BASE = Page /\ heap'.cursor = Page + Page
    <3>1. \A n \in E : n \in Nat /\ heap'.nodes[n].size \in Int
      BY <2>3, SoundFinite DEF Sound, Linked, HeapOver, NodeType
    <3>2. Header \in Nat \ {0} /\ Alignment \in Nat \ {0} /\ Page \in Nat /\ HEAP_VIRT_BASE = Page
      BY Constants
    <3>3. heap'.cursor = Page + Page
      BY <2>3, <3>2 DEF OnePage
    <3>4. \A n \in E : /\ n \in HEAP_VIRT_BASE .. heap'.cursor - 1 /\ heap'.nodes[n].size >= Alignment
                       /\ End(heap', n) \in E \cup {heap'.cursor}
                       /\ \A m \in E : n < m => End(heap', n) <= m
      BY <2>3 DEF Sound, Tiles
    <3> QED  BY <3>1, <3>2, <3>3, <3>4 DEF End
  <2>8. request \in Nat \ {0}
    BY <1>4, Constants
  <2>9. p + request <= End(heap', node) /\ p \in Nat /\ p = node + Header
    BY <1>4, <2>3, <2>7, <2>8 DEF End, NODE_DATA
  <2>10. p \in data' \ DOMAIN live
    <3>1. Blocks!Kept'
      BY <2>4, KmallocIInv, HeldKept, PTL
    <3>2. p \in DOMAIN live' /\ live'[p] = request
      BY <2>5 DEF With
    <3>3. p \in Blocks!Extent(p, live'[p])
      BY <2>8, <2>9, <3>2 DEF Blocks!Extent
    <3> QED  BY <2>6, <3>1, <3>2, <3>3 DEF Blocks!Kept
  <2>11. ASSUME NEW q \in DOMAIN live
         PROVE  Blocks!Extent(p, request) \cap Blocks!Extent(q, live[q]) = {}
    <3>1. PICK n \in UsedOf(D, heap) : q = NODE_DATA(n)
      BY <1>1 DEF Held
    <3>2. n \in UsedOf(E, heap') /\ n \in E
      BY <2>3, <3>1 DEF UsedOf
    <3>3. live'[q] = live[q]
      BY <2>5, <2>6, <2>11 DEF With
    <3>4. live[q] \in Nat /\ live[q] <= heap'.nodes[n].size
      BY <2>6, <3>1, <3>2, <3>3, Constants DEF Held
    <3>5. q = n + Header /\ q + live[q] <= End(heap', n)
      BY <2>7, <3>1, <3>2, <3>4 DEF NODE_DATA, End
    <3>6. n # node
      BY <2>6, <2>11, <3>1
    <3>7. CASE n < node
      <4>1. End(heap', n) <= node
        BY <2>3, <2>7, <3>2, <3>7
      <4>2. q + live[q] <= p
        BY <2>3, <2>7, <2>9, <3>2, <3>4, <3>5, <4>1
      <4> QED  BY <2>7, <2>8, <2>9, <3>2, <3>4, <3>5, <4>2 DEF Blocks!Extent
    <3>8. CASE node < n
      <4>1. End(heap', node) <= n
        BY <2>3, <2>7, <3>2, <3>8
      <4>2. p + request <= q
        BY <2>3, <2>7, <2>8, <2>9, <3>2, <3>5, <4>1
      <4> QED  BY <2>7, <2>8, <2>9, <3>2, <3>4, <3>5, <4>2 DEF Blocks!Extent
    <3> QED  BY <2>3, <2>7, <3>2, <3>6, <3>7, <3>8
  <2>12. live' = [q \in DOMAIN live \cup {p} |-> IF q = p THEN request ELSE live[q]]
    BY <2>5 DEF With
  <2> HIDE DEF p
  <2>13. Blocks!Alloc(request)
    BY <2>5, <2>8, <2>10, <2>11, <2>12 DEF Blocks!Alloc
  <2> QED  BY <2>4, <2>13
<1> QED  BY <1>1, <1>2, <1>3, <1>4, KmallocTakes

LEMMA KfreeFrees ==
  ASSUME IInv, OnePage, NEW ptr \in DOMAIN live \cup {NULL}, kfree(ptr)
  PROVE  OnePage' /\ (UNCHANGED vars \/ \E p \in DOMAIN live : Blocks!Free(p))
<1>1. PICK D : Sound(D, heap) /\ Held(D, heap, live)
  BY DEF IInv
<1>2. CASE UNCHANGED vars
  BY <1>2 DEF vars, OnePage
<1>3. CASE /\ UNCHANGED ret
           /\ \E node \in UsedOf(D, heap) :
                /\ \E E : TakesBack(D, heap, E, heap', node)
                /\ ptr = NODE_DATA(node)
                /\ live' = [p \in DOMAIN live \ {ptr} |-> live[p]]
  <2>1. PICK node \in UsedOf(D, heap) :
                /\ \E E : TakesBack(D, heap, E, heap', node)
                /\ ptr = NODE_DATA(node)
                /\ live' = [p \in DOMAIN live \ {ptr} |-> live[p]]
    BY <1>3
  <2>2. OnePage'
    BY <2>1 DEF TakesBack, SameEnds, OnePage
  <2>3. ptr \in DOMAIN live
    BY <1>1, <2>1 DEF Held
  <2>4. Blocks!Free(ptr)
    BY <1>3, <2>1 DEF Blocks!Free
  <2> QED  BY <2>2, <2>3, <2>4
<1> QED  BY <1>1, <1>2, <1>3, KfreeTakesBack

\* With the one frame that heap_init maps, the heap is a pool of disjoint blocks: a block
\* has the size asked for, lies inside the heap's page, and is neither handed out again
\* nor written over by a header while it is in use.
THEOREM Implementation ==
  ASSUME Frames = 1
  PROVE  Spec => ImplementsBlocks
<1>1. Init => IInv /\ OnePage /\ Blocks!Init
  <2> SUFFICES ASSUME Init PROVE IInv /\ OnePage /\ Blocks!Init
    OBVIOUS
  <2>1. OnePage
    BY InitSound DEF Init, OnePage, Cursor
  <2> QED  BY <2>1, InitIInv DEF Init, Blocks!Init
<1>2. IInv /\ OnePage /\ [Next]_vars => IInv' /\ OnePage' /\ [Blocks!Next]_Blocks!blockVars
  <2> SUFFICES ASSUME IInv, OnePage, [Next]_vars
               PROVE  OnePage' /\ [Blocks!Next]_Blocks!blockVars
    BY NextIInv
  <2>1. CASE \E size \in Sizes : kmalloc(size)
    <3>1. OnePage' /\ \E size \in Sizes : Blocks!Alloc(size)
      BY <2>1, KmallocAllocs
    <3>2. Blocks!Kept'
      BY <3>1, NextIInv, HeldKept, PTL
    <3> QED  BY <3>1, <3>2 DEF Blocks!Next
  <2>2. CASE \E ptr \in DOMAIN live \cup {NULL} : kfree(ptr)
    <3>1. OnePage' /\ (UNCHANGED vars \/ \E p \in DOMAIN live : Blocks!Free(p))
      BY <2>2, KfreeFrees
    <3>2. Blocks!Kept'
      BY <3>1, NextIInv, HeldKept, PTL
    <3>3. CASE UNCHANGED vars
      BY <3>1, <3>3 DEF vars, Blocks!blockVars, Headers, Nodes
    <3> QED  BY <3>1, <3>2, <3>3 DEF Blocks!Next
  <2>3. CASE UNCHANGED vars
    BY <2>3 DEF vars, OnePage, Blocks!blockVars, Headers, Nodes
  <2> QED  BY <2>1, <2>2, <2>3 DEF Next
<1> QED  BY <1>1, <1>2, PTL DEF Spec, ImplementsBlocks, Blocks!Spec
=============================================================================
