------------------------------- MODULE VmmProofs ------------------------------
(***************************************************************************)
(* The page tables are correct for every fan-out, set of copied slots,     *)
(* pool of frames and order of calls.  The inductive invariant gives each  *)
(* frame a level: 0 for a PML4, 1 to 3 for the tables below, 4 for a frame *)
(* that is free.  An entry leads to the next level and to a table of its   *)
(* own, but for the copied slots.  Everything else follows: an entry that  *)
(* map_page or unmap_page sets is on the walk of one page, in one address  *)
(* space or in all of them.                                                *)
(***************************************************************************)
EXTENDS Vmm, FiniteSetTheorems, NatLemmas

Slots == 0 .. Fan - 1

\* The tables m with the free frames f are four levels of tables under the PML4s rs.
\* Every entry of the levels above the last leads one level down or nowhere.
LinksDown(m, level) ==
  \A t \in Frames, i \in Slots :
    level[t] \in 0 .. 2 /\ m[t][i] # 0 => m[t][i] \in Frames /\ level[m[t][i]] = level[t] + 1

\* No two entries lead to the same table, but for a copied slot of two PML4s.
OneParent(m, level) ==
  \A t, u \in Frames, i, j \in Slots :
    level[t] \in 0 .. 2 /\ level[u] \in 0 .. 2 /\ m[t][i] # 0 /\ m[t][i] = m[u][j]
      => i = j /\ (t = u \/ (level[t] = 0 /\ level[u] = 0 /\ i \in CopiedSlots))

\* Some entry leads to each table.
SomeParent(m, level) ==
  \A t \in Frames : level[t] \in 1 .. 3 =>
    \E u \in Frames, i \in Slots : level[u] = level[t] - 1 /\ m[u][i] = t

Levelled(m, f, rs, level) ==
  /\ m \in [Frames -> [Slots -> Nat]]
  /\ level \in [Frames -> 0 .. 4]
  /\ f \subseteq PoolFrames /\ f = {t \in Frames : level[t] = 4}
  /\ rs = {t \in Frames : level[t] = 0}
  /\ LinksDown(m, level) /\ OneParent(m, level) /\ SomeParent(m, level)
  /\ \A t \in Frames, i \in Slots : level[t] = 3 => m[t][i] \notin Frames
  /\ \A r \in rs, s \in CopiedSlots : m[r][s] = BootTable[s]

\* What a page is mapped to in each address space.
SameView(m, n, rs) == \A r \in rs, v \in Virt : vmm_get_phys(n, r, v) = vmm_get_phys(m, r, v)

\* The view of page v of space r is p, in all spaces when the slot is a copied one.
Hits(u, w, r, v) == w = v /\ (u = r \/ Index(v, 3) \in CopiedSlots)
Updated(m, n, rs, r, v, p) ==
  \A u \in rs, w \in Virt :
    vmm_get_phys(n, u, w) = IF Hits(u, w, r, v) THEN p ELSE vmm_get_phys(m, u, w)

-----------------------------------------------------------------------------
(* Numbers.                                                                *)

LEMMA SlotsType == 0 \in Slots /\ Fan \in Nat /\ Fan > 1 /\ CopiedSlots \subseteq Slots
BY VmmAssumption DEF Slots

LEMMA IndexType ==
  ASSUME NEW virt \in Virt, NEW level \in 0 .. 3
  PROVE  Index(virt, level) \in Slots
<1>1. virt \in Nat /\ Fan \in Nat \ {0}
  BY VmmAssumption
<1>2. \A a \in Nat : a \div Fan \in Nat /\ a % Fan \in Slots
  BY <1>1 DEF Slots
<1>3. Shifted(virt, level) \in Nat
  BY <1>1, <1>2 DEF Shifted
<1> QED  BY <1>2, <1>3 DEF Index

\* The four indices of a page determine it.
LEMMA IndicesDetermine ==
  ASSUME NEW v \in Virt, NEW w \in Virt, \A level \in 0 .. 3 : Index(v, level) = Index(w, level)
  PROVE  v = w
<1> DEFINE q(a) == a \div Fan
<1>1. /\ Fan \in Nat \ {0} /\ v \in Nat /\ w \in Nat
      /\ v < Fan * Fan * Fan * Fan /\ w < Fan * Fan * Fan * Fan
  <2>1. Fan * Fan * Fan * Fan \in Nat
    BY VmmAssumption
  <2> QED  BY <2>1, VmmAssumption
<1>2. \A a \in Nat : q(a) \in Nat /\ a = q(a) * Fan + (a % Fan)
  BY <1>1
<1>3. \A a \in Nat, n \in Nat : a < n * Fan => q(a) < n
  BY <1>1
<1>4. \A a, b \in Nat : q(a) = q(b) /\ (a % Fan) = (b % Fan) => a = b
  BY <1>2
<1>5. /\ (v % Fan) = (w % Fan) /\ (q(v) % Fan) = (q(w) % Fan)
      /\ (q(q(v)) % Fan) = (q(q(w)) % Fan) /\ (q(q(q(v))) % Fan) = (q(q(q(w))) % Fan)
  BY 0 \in 0 .. 3, 1 \in 0 .. 3, 2 \in 0 .. 3, 3 \in 0 .. 3 DEF Index, Shifted
<1>6. q(q(q(q(v)))) = q(q(q(q(w))))
  <2>1. Fan \in Nat /\ Fan * Fan \in Nat /\ Fan * Fan * Fan \in Nat
    BY <1>1
  <2>2. ASSUME NEW a \in Nat, a < Fan * Fan * Fan * Fan
        PROVE  q(q(q(q(a)))) = 0
    <3> HIDE DEF q
    <3>1. q(a) < Fan * Fan * Fan
      BY <1>3, <2>1, <2>2
    <3>2. q(q(a)) < Fan * Fan
      BY <1>2, <1>3, <2>1, <3>1
    <3>3. q(q(q(a))) < 1 * Fan
      BY <1>2, <1>3, <2>1, <3>2
    <3>4. q(q(q(q(a)))) < 1
      BY <1>2, <1>3, <3>3
    <3> QED  BY <1>2, <3>4
  <2> QED  BY <1>1, <2>2
<1> HIDE DEF q
<1> QED  BY <1>1, <1>2, <1>4, <1>5, <1>6

-----------------------------------------------------------------------------
(* One level of a walk.                                                    *)

\* frame_alloc gives a free frame.
LEMMA MinType ==
  ASSUME NEW f \in SUBSET Nat, f # {}
  PROVE  Min(f) \in f
BY LeastNat DEF Min

\* Table n, cleared, linked at entry i of table t.
Linked(m, t, i, n) == [Cleared(m, n) EXCEPT ![t][i] = n]

LEMMA LinkedType ==
  ASSUME NEW m \in [Frames -> [Slots -> Nat]], NEW t \in Frames, NEW i \in Slots,
         NEW n \in Frames, n # t
  PROVE  /\ Linked(m, t, i, n) \in [Frames -> [Slots -> Nat]]
         /\ Linked(m, t, i, n)[t][i] = n
         /\ \A j \in Slots : Linked(m, t, i, n)[n][j] = 0
         /\ \A u \in Frames, j \in Slots : u # n /\ ~ (u = t /\ j = i) => Linked(m, t, i, n)[u][j] = m[u][j]
BY VmmAssumption DEF Linked, Cleared, Slots

\* A free frame linked at an empty entry becomes a table of the next level; no
\* page is mapped or unmapped.
LEMMA LinkPreserves ==
  ASSUME NEW m, NEW f, NEW rs, NEW level, Levelled(m, f, rs, level),
         NEW l \in 0 .. 2, NEW t \in Frames, level[t] = l, NEW i \in Slots, m[t][i] = 0,
         NEW n \in f
  PROVE  /\ Levelled(Linked(m, t, i, n), f \ {n}, rs, [level EXCEPT ![n] = l + 1])
         /\ SameView(m, Linked(m, t, i, n), rs)
<1> DEFINE M == Linked(m, t, i, n)
           L == [level EXCEPT ![n] = l + 1]
<1>1. /\ m \in [Frames -> [Slots -> Nat]] /\ level \in [Frames -> 0 .. 4]
      /\ f \subseteq PoolFrames /\ f = {u \in Frames : level[u] = 4}
      /\ rs = {u \in Frames : level[u] = 0}
      /\ LinksDown(m, level) /\ OneParent(m, level) /\ SomeParent(m, level)
      /\ \A u \in Frames, j \in Slots : level[u] = 3 => m[u][j] \notin Frames
      /\ \A r \in rs, s \in CopiedSlots : m[r][s] = BootTable[s]
  BY DEF Levelled
<1>2. n \in Frames /\ level[n] = 4 /\ n # t /\ n # 0 /\ 0 \notin Frames
  BY <1>1, VmmAssumption
<1>3. /\ M \in [Frames -> [Slots -> Nat]]
      /\ M[t][i] = n
      /\ \A j \in Slots : M[n][j] = 0
      /\ \A u \in Frames, j \in Slots : u # n /\ ~ (u = t /\ j = i) => M[u][j] = m[u][j]
  BY <1>1, <1>2, LinkedType
<1>4. /\ L \in [Frames -> 0 .. 4] /\ L[n] = l + 1 /\ L[t] = l
      /\ \A u \in Frames : u # n => L[u] = level[u]
  BY <1>1, <1>2
<1>5. \A u \in Frames, j \in Slots : level[u] \in 0 .. 2 => m[u][j] # n
  BY <1>1, <1>2 DEF LinksDown
<1> HIDE DEF M, L
<1>6. f \ {n} \subseteq PoolFrames /\ f \ {n} = {u \in Frames : L[u] = 4}
  BY <1>1, <1>2, <1>4
<1>7. rs = {u \in Frames : L[u] = 0}
  BY <1>1, <1>2, <1>4
<1>8. LinksDown(M, L)
  BY <1>1, <1>2, <1>3, <1>4, SMTT(30) DEF LinksDown
<1>9. OneParent(M, L)
  <2> SUFFICES ASSUME NEW a \in Frames, NEW b \in Frames, NEW j \in Slots, NEW k \in Slots,
                      L[a] \in 0 .. 2, L[b] \in 0 .. 2, M[a][j] # 0, M[a][j] = M[b][k]
               PROVE  j = k /\ (a = b \/ (L[a] = 0 /\ L[b] = 0 /\ j \in CopiedSlots))
    BY DEF OneParent
  <2>1. a # n /\ b # n
    BY <1>3
  <2>2. level[a] = L[a] /\ level[b] = L[b]
    BY <1>4, <2>1
  <2>3. CASE M[a][j] = n
    <3>1. m[a][j] # n /\ m[b][k] # n
      BY <1>5, <2>2
    <3>2. a = t /\ j = i
      BY <1>3, <2>1, <2>3, <3>1
    <3>3. b = t /\ k = i
      BY <1>3, <2>1, <2>3, <3>1
    <3> QED  BY <3>2, <3>3
  <2>4. CASE M[a][j] # n
    BY <1>1, <1>3, <2>1, <2>2, <2>4 DEF OneParent
  <2> QED  BY <2>3, <2>4
<1>10. SomeParent(M, L)
  <2> SUFFICES ASSUME NEW a \in Frames, L[a] \in 1 .. 3
               PROVE  \E u \in Frames, j \in Slots : L[u] = L[a] - 1 /\ M[u][j] = a
    BY DEF SomeParent
  <2>1. CASE a = n
    BY <1>3, <1>4, <2>1
  <2>2. CASE a # n
    <3>1. PICK u \in Frames, j \in Slots : level[u] = level[a] - 1 /\ m[u][j] = a
      BY <1>1, <1>4, <2>2 DEF SomeParent
    <3>2. u # n /\ ~ (u = t /\ j = i)
      BY <1>1, <1>2, <1>4, <2>2, <3>1
    <3> QED  BY <1>3, <1>4, <2>2, <3>1, <3>2
  <2> QED  BY <2>1, <2>2
<1>11. \A u \in Frames, j \in Slots : L[u] = 3 => M[u][j] \notin Frames
  BY <1>1, <1>2, <1>3, <1>4
<1>12. \A r \in rs, s \in CopiedSlots : M[r][s] = BootTable[s]
  <2> SUFFICES ASSUME NEW r \in rs, NEW s \in CopiedSlots PROVE M[r][s] = BootTable[s]
    OBVIOUS
  <2>1. r \in Frames /\ r # n /\ s \in Slots /\ m[r][s] = BootTable[s]
    BY <1>1, <1>2, SlotsType
  <2>2. BootTable[s] \in Frames
    BY DEF Frames, BootFrames
  <2> QED  BY <1>2, <1>3, <2>1, <2>2
<1>13. SameView(m, M, rs)
  <2> SUFFICES ASSUME NEW r \in rs, NEW v \in Virt
               PROVE  vmm_get_phys(M, r, v) = vmm_get_phys(m, r, v)
    BY DEF SameView
  <2>1. /\ Index(v, 3) \in Slots /\ Index(v, 2) \in Slots
        /\ Index(v, 1) \in Slots /\ Index(v, 0) \in Slots
    BY IndexType
  <2> DEFINE a == m[r][Index(v, 3)]
             b == m[a][Index(v, 2)]
             c == m[b][Index(v, 1)]
             A == M[r][Index(v, 3)]
             B == M[A][Index(v, 2)]
             C == M[B][Index(v, 1)]
  <2>2. /\ vmm_get_phys(m, r, v) = IF a = 0 \/ b = 0 \/ c = 0 THEN 0 ELSE m[c][Index(v, 0)]
        /\ vmm_get_phys(M, r, v) = IF A = 0 \/ B = 0 \/ C = 0 THEN 0 ELSE M[C][Index(v, 0)]
    BY Zenon DEF vmm_get_phys, PageTable
  <2>3. r \in Frames /\ level[r] = 0 /\ r # n
    BY <1>1, <1>2
  <2>4. a # 0 => a \in Frames /\ level[a] = 1 /\ a # n
    BY <1>1, <1>2, <2>1, <2>3 DEF LinksDown
  <2>5. a # 0 /\ b # 0 => b \in Frames /\ level[b] = 2 /\ b # n
    BY <1>1, <1>2, <2>1, <2>4 DEF LinksDown
  <2>6. a # 0 /\ b # 0 /\ c # 0 => c \in Frames /\ level[c] = 3 /\ c # n /\ c # t
    <3>1. c # 0 /\ a # 0 /\ b # 0 => c \in Frames /\ level[c] = level[b] + 1
      <4> HIDE DEF a, b
      <4> QED  BY <1>1, <2>1, <2>5 DEF LinksDown
    <3> HIDE DEF a, b, c
    <3> QED  BY <1>2, <2>5, <3>1
  <2>7. A = a \/ (a = 0 /\ A = n)
    BY <1>3, <2>1, <2>3
  <2>8. a # 0 => B = b \/ (b = 0 /\ B = n)
    BY <1>3, <2>1, <2>4, <2>7
  <2>9. a # 0 /\ b # 0 => C = c \/ (c = 0 /\ C = n)
    BY <1>3, <2>1, <2>4, <2>5, <2>7, <2>8
  <2>10. a # 0 /\ b # 0 /\ c # 0 => M[C][Index(v, 0)] = m[c][Index(v, 0)]
    <3>1. a # 0 /\ b # 0 /\ c # 0 => C = c /\ c \in Frames /\ c # n /\ c # t
      BY <2>6, <2>9
    <3> HIDE DEF a, b, c, C
    <3> QED  BY <1>3, <2>1, <3>1
  <2>11. A = n => B = 0
    BY <1>3, <2>1
  <2>12. B = n => C = 0
    BY <1>3, <2>1
  <2>13. C = n => M[C][Index(v, 0)] = 0
    BY <1>3, <2>1
  <2> HIDE DEF a, b, c, A, B, C
  <2>14. CASE a = 0
    BY <2>2, <2>7, <2>11, <2>14
  <2>15. CASE a # 0 /\ b = 0
    BY <2>2, <2>4, <2>7, <2>8, <2>12, <2>15
  <2>16. CASE a # 0 /\ b # 0 /\ c = 0
    BY <2>2, <2>4, <2>7, <2>8, <2>9, <2>13, <2>16
  <2>17. CASE a # 0 /\ b # 0 /\ c # 0
    BY <1>2, <2>2, <2>4, <2>5, <2>6, <2>7, <2>8, <2>9, <2>10, <2>17
  <2> QED  BY <2>14, <2>15, <2>16, <2>17
<1> QED
  BY <1>3, <1>4, <1>6, <1>7, <1>8, <1>9, <1>10, <1>11, <1>12, <1>13 DEF Levelled, M, L

-----------------------------------------------------------------------------
(* Mapping and unmapping one page.                                         *)

\* A walk that does not stop goes down one level at a time.
WayDown(m, level, r, v) ==
  LET a == m[r][Index(v, 3)]
      b == m[a][Index(v, 2)]
      c == m[b][Index(v, 1)]
  IN  /\ r \in Frames /\ level[r] = 0
      /\ a # 0 => a \in Frames /\ level[a] = 1
      /\ a # 0 /\ b # 0 => b \in Frames /\ level[b] = 2
      /\ a # 0 /\ b # 0 /\ c # 0 => c \in Frames /\ level[c] = 3

LEMMA WalkLevels ==
  ASSUME NEW m, NEW f, NEW rs, NEW level, Levelled(m, f, rs, level),
         NEW r \in rs, NEW v \in Virt
  PROVE  WayDown(m, level, r, v)
<1>1. rs = {u \in Frames : level[u] = 0} /\ LinksDown(m, level)
  BY DEF Levelled
<1>2. /\ Index(v, 3) \in Slots /\ Index(v, 2) \in Slots
      /\ Index(v, 1) \in Slots /\ Index(v, 0) \in Slots
  BY IndexType
<1> DEFINE a == m[r][Index(v, 3)]
           b == m[a][Index(v, 2)]
           c == m[b][Index(v, 1)]
<1>3. r \in Frames /\ level[r] = 0
  BY <1>1
<1>4. a # 0 => a \in Frames /\ level[a] = 1
  BY <1>1, <1>2, <1>3 DEF LinksDown
<1>5. a # 0 /\ b # 0 => b \in Frames /\ level[b] = 2
  BY <1>1, <1>2, <1>4 DEF LinksDown
<1>6. a # 0 /\ b # 0 /\ c # 0 => c \in Frames /\ level[c] = 3
  BY <1>1, <1>2, <1>5 DEF LinksDown
<1> QED  BY <1>3, <1>4, <1>5, <1>6, Zenon DEF WayDown

\* Walks that end in the same page table came the same way.
LEMMA WalksMeet ==
  ASSUME NEW m, NEW f, NEW rs, NEW level, Levelled(m, f, rs, level),
         NEW r \in rs, NEW u \in rs, NEW v \in Virt, NEW w \in Virt,
         PageTable(m, r, v) # 0, PageTable(m, u, w) = PageTable(m, r, v)
  PROVE  /\ Index(w, 1) = Index(v, 1) /\ Index(w, 2) = Index(v, 2) /\ Index(w, 3) = Index(v, 3)
         /\ u = r \/ Index(v, 3) \in CopiedSlots
<1>1. OneParent(m, level)
  BY DEF Levelled
<1>2. \A x \in Virt : /\ Index(x, 3) \in Slots /\ Index(x, 2) \in Slots
                      /\ Index(x, 1) \in Slots /\ Index(x, 0) \in Slots
  BY IndexType
<1> DEFINE a == m[r][Index(v, 3)]
           b == m[a][Index(v, 2)]
           c == m[b][Index(v, 1)]
           A == m[u][Index(w, 3)]
           B == m[A][Index(w, 2)]
           C == m[B][Index(w, 1)]
<1>3. a # 0 /\ b # 0 /\ c # 0 /\ A # 0 /\ B # 0 /\ C = c
  BY Zenon DEF vmm_get_phys, PageTable
<1>4. /\ r \in Frames /\ level[r] = 0 /\ a \in Frames /\ level[a] = 1
      /\ b \in Frames /\ level[b] = 2
  <2>1. /\ r \in Frames /\ level[r] = 0
        /\ a # 0 => a \in Frames /\ level[a] = 1
        /\ a # 0 /\ b # 0 => b \in Frames /\ level[b] = 2
    <3>1. WayDown(m, level, r, v)
      BY WalkLevels
    <3> QED  BY <3>1, Zenon DEF WayDown
  <2> QED  BY <1>3, <2>1
<1>5. /\ u \in Frames /\ level[u] = 0 /\ A \in Frames /\ level[A] = 1
      /\ B \in Frames /\ level[B] = 2
  <2>1. /\ u \in Frames /\ level[u] = 0
        /\ A # 0 => A \in Frames /\ level[A] = 1
        /\ A # 0 /\ B # 0 => B \in Frames /\ level[B] = 2
    <3>1. WayDown(m, level, u, w)
      BY WalkLevels
    <3> QED  BY <3>1, Zenon DEF WayDown
  <2> QED  BY <1>3, <2>1
<1> HIDE DEF a, b, A, B
<1>6. Index(w, 1) = Index(v, 1) /\ B = b
  BY <1>1, <1>2, <1>3, <1>4, <1>5 DEF OneParent
<1>7. Index(w, 2) = Index(v, 2) /\ A = a
  BY <1>1, <1>2, <1>3, <1>4, <1>5, <1>6 DEF OneParent, b, B
<1>8. Index(w, 3) = Index(v, 3) /\ (u = r \/ Index(v, 3) \in CopiedSlots)
  BY <1>1, <1>2, <1>3, <1>4, <1>5, <1>7 DEF OneParent, a, A
<1> QED  BY <1>6, <1>7, <1>8

\* An entry of a page table is the translation of one page.
LEMMA SetEntryUpdates ==
  ASSUME NEW m, NEW f, NEW rs, NEW level, Levelled(m, f, rs, level),
         NEW r \in rs, NEW v \in Virt, PageTable(m, r, v) # 0, NEW p \in Nat \ Frames
  PROVE  LET M == SetEntry(m, PageTable(m, r, v), Index(v, 0), p)
         IN  Levelled(M, f, rs, level) /\ Updated(m, M, rs, r, v, p)
<1> DEFINE pt == PageTable(m, r, v)
           M == SetEntry(m, pt, Index(v, 0), p)
<1>1. /\ m \in [Frames -> [Slots -> Nat]] /\ level \in [Frames -> 0 .. 4]
      /\ f \subseteq PoolFrames /\ f = {t \in Frames : level[t] = 4}
      /\ rs = {t \in Frames : level[t] = 0}
      /\ LinksDown(m, level) /\ OneParent(m, level) /\ SomeParent(m, level)
      /\ \A t \in Frames, i \in Slots : level[t] = 3 => m[t][i] \notin Frames
      /\ \A x \in rs, s \in CopiedSlots : m[x][s] = BootTable[s]
  BY DEF Levelled
<1>2. \A x \in Virt : /\ Index(x, 3) \in Slots /\ Index(x, 2) \in Slots
                      /\ Index(x, 1) \in Slots /\ Index(x, 0) \in Slots
  BY IndexType
<1>3. pt \in Frames /\ level[pt] = 3
  <2>1. WayDown(m, level, r, v)
    BY WalkLevels
  <2> QED  BY <2>1, Zenon DEF WayDown, PageTable
<1>4. /\ M \in [Frames -> [Slots -> Nat]]
      /\ M[pt][Index(v, 0)] = p
      /\ \A t \in Frames, i \in Slots : ~ (t = pt /\ i = Index(v, 0)) => M[t][i] = m[t][i]
  BY <1>1, <1>2, <1>3 DEF SetEntry
<1>5. \A t \in Frames, i \in Slots : level[t] # 3 => M[t][i] = m[t][i]
  BY <1>3, <1>4
<1> HIDE DEF M, pt
<1>6. LinksDown(M, level)
  BY <1>1, <1>5 DEF LinksDown
<1>7. OneParent(M, level)
  BY <1>1, <1>5 DEF OneParent
<1>8. SomeParent(M, level)
  BY <1>1, <1>5 DEF SomeParent
<1>9. \A t \in Frames, i \in Slots : level[t] = 3 => M[t][i] \notin Frames
  BY <1>1, <1>4
<1>10. \A x \in rs, s \in CopiedSlots : M[x][s] = BootTable[s]
  BY <1>1, <1>5, SlotsType
<1>11. Updated(m, M, rs, r, v, p)
  <2> SUFFICES ASSUME NEW u \in rs, NEW w \in Virt
               PROVE  vmm_get_phys(M, u, w) = IF Hits(u, w, r, v) THEN p ELSE vmm_get_phys(m, u, w)
    BY DEF Updated
  <2> DEFINE a == m[u][Index(w, 3)]
             b == m[a][Index(w, 2)]
             c == m[b][Index(w, 1)]
  <2>1. /\ u \in Frames /\ level[u] = 0
        /\ a # 0 => a \in Frames /\ level[a] = 1
        /\ a # 0 /\ b # 0 => b \in Frames /\ level[b] = 2
        /\ a # 0 /\ b # 0 /\ c # 0 => c \in Frames /\ level[c] = 3
    <3>1. WayDown(m, level, u, w)
      BY WalkLevels
    <3> QED  BY <3>1, Zenon DEF WayDown
  <2>2. M[u][Index(w, 3)] = a
    BY <1>2, <1>5, <2>1
  <2>3. a # 0 => M[a][Index(w, 2)] = b
    BY <1>2, <1>5, <2>1
  <2>4. a # 0 /\ b # 0 => M[b][Index(w, 1)] = c
    BY <1>2, <1>5, <2>1
  <2>5. PageTable(m, u, w) = IF a = 0 \/ b = 0 THEN 0 ELSE c
    BY Zenon DEF vmm_get_phys, PageTable
  <2>6. vmm_get_phys(m, u, w) = IF a = 0 \/ b = 0 \/ c = 0 THEN 0 ELSE m[c][Index(w, 0)]
    BY Zenon DEF vmm_get_phys, PageTable
  <2>7. vmm_get_phys(M, u, w) = IF a = 0 \/ b = 0 \/ c = 0 THEN 0 ELSE M[c][Index(w, 0)]
    BY <2>2, <2>3, <2>4, Zenon DEF vmm_get_phys, PageTable
  <2>8. CASE Hits(u, w, r, v)
    <3>1. PageTable(m, u, w) = pt
      <4>1. m[u][Index(v, 3)] = m[r][Index(v, 3)]
        BY <1>1, <2>8 DEF Hits
      <4> QED  BY <2>8, <4>1 DEF Hits, PageTable, pt
    <3>2. c = pt /\ a # 0 /\ b # 0 /\ c # 0
      BY <2>5, <3>1 DEF pt
    <3> QED  BY <1>4, <2>7, <2>8, <3>2 DEF Hits
  <2>9. CASE ~ Hits(u, w, r, v) /\ (a = 0 \/ b = 0 \/ c = 0)
    BY <2>6, <2>7, <2>9
  <2>10. CASE ~ Hits(u, w, r, v) /\ a # 0 /\ b # 0 /\ c # 0
    <3>1. ~ (c = pt /\ Index(w, 0) = Index(v, 0))
      <4> SUFFICES ASSUME c = pt, Index(w, 0) = Index(v, 0) PROVE FALSE
        OBVIOUS
      <4>1. PageTable(m, u, w) = PageTable(m, r, v)
        BY <2>5, <2>10 DEF pt
      <4>2. /\ Index(w, 1) = Index(v, 1) /\ Index(w, 2) = Index(v, 2) /\ Index(w, 3) = Index(v, 3)
            /\ u = r \/ Index(v, 3) \in CopiedSlots
        BY <4>1, WalksMeet
      <4>3. \A l \in 0 .. 3 : Index(w, l) = Index(v, l)
        <5>1. \A l \in 0 .. 3 : l = 0 \/ l = 1 \/ l = 2 \/ l = 3
          OBVIOUS
        <5> QED  BY <4>2, <5>1
      <4>4. w = v
        BY <4>3, IndicesDetermine
      <4> QED  BY <2>10, <4>2, <4>4 DEF Hits
    <3>2. M[c][Index(w, 0)] = m[c][Index(w, 0)]
      <4>1. c \in Frames /\ Index(w, 0) \in Slots
        BY <1>2, <2>1, <2>10
      <4> HIDE DEF c
      <4> QED  BY <1>4, <3>1, <4>1
    <3> QED  BY <2>6, <2>7, <2>10, <3>2
  <2> QED  BY <2>8, <2>9, <2>10
<1> QED
  BY <1>1, <1>4, <1>6, <1>7, <1>8, <1>9, <1>10, <1>11 DEF Levelled, M, pt

\* What a level of the walk leaves of [mem, free, table], from table t of level l.
Down(m, f, rs, l, t, i, d) ==
  /\ d = [mem |-> d.mem, free |-> d.free, table |-> d.table]
  /\ d.free \subseteq f /\ IsFiniteSet(d.free) /\ Cardinality(d.free) >= Cardinality(f) - 1
  /\ SameView(m, d.mem, rs)
  /\ t # 0 /\ d.table = 0 => f = {}
  /\ t = 0 => d.table = 0
  /\ t # 0 /\ d.table # 0 => d.mem[t][i] = d.table
  /\ \A u \in Frames, j \in Slots : m[u][j] # 0 /\ u \notin f => d.mem[u][j] = m[u][j]
  /\ d.table \in Frames \cup {0}
  /\ \E lev : Levelled(d.mem, d.free, rs, lev) /\ (d.table # 0 => lev[d.table] = l + 1)

\* A level of the walk finds a table, or makes it, or fails for want of a frame.
LEMMA DescendPreserves ==
  ASSUME NEW m, NEW f, NEW rs, NEW level, Levelled(m, f, rs, level), IsFiniteSet(f),
         NEW l \in 0 .. 2, NEW t \in Frames \cup {0}, t # 0 => level[t] = l, NEW i \in Slots
  PROVE  Down(m, f, rs, l, t, i, Descend([mem |-> m, free |-> f, table |-> t], i))
<1> DEFINE s == [mem |-> m, free |-> f, table |-> t]
           d == Descend(s, i)
<1>1. SameView(m, m, rs)
  BY DEF SameView
<1>2. /\ m \in [Frames -> [Slots -> Nat]] /\ f \subseteq Frames /\ 0 \notin Frames /\ Frames \subseteq Nat
      /\ LinksDown(m, level) /\ f = {u \in Frames : level[u] = 4}
  BY VmmAssumption DEF Levelled
<1>3. Cardinality(f) \in Nat
  BY FS_CardinalityType
<1>0. /\ s.mem = m /\ s.free = f /\ s.table = t
      /\ \A x : [s EXCEPT !.table = x] = [mem |-> m, free |-> f, table |-> x]
  OBVIOUS
<1> HIDE DEF s
<1>4. CASE t = 0
  <2>1. d = [mem |-> m, free |-> f, table |-> 0]
    BY <1>0, <1>4 DEF Descend
  <2> HIDE DEF d
  <2>2. d.mem = m /\ d.free = f /\ d.table = 0
    BY <2>1
  <2>3. Down(m, f, rs, l, t, i, d)
    BY <1>1, <1>3, <1>4, <2>1, <2>2 DEF Down
  <2> QED  BY <2>3 DEF d, s
<1>5. CASE t # 0 /\ m[t][i] # 0
  <2>1. d = [mem |-> m, free |-> f, table |-> m[t][i]]
    BY <1>0, <1>5 DEF Descend
  <2>2. m[t][i] \in Frames /\ level[m[t][i]] = l + 1
    BY <1>2, <1>5 DEF LinksDown
  <2> HIDE DEF d
  <2>3. d.mem = m /\ d.free = f /\ d.table = m[t][i]
    BY <2>1
  <2>4. Down(m, f, rs, l, t, i, d)
    BY <1>1, <1>3, <1>5, <2>1, <2>2, <2>3 DEF Down
  <2> QED  BY <2>4 DEF d, s
<1>6. CASE t # 0 /\ m[t][i] = 0 /\ f = {}
  <2>1. d = [mem |-> m, free |-> f, table |-> 0]
    BY <1>0, <1>6 DEF Descend, Exhausted
  <2> HIDE DEF d
  <2>2. d.mem = m /\ d.free = f /\ d.table = 0
    BY <2>1
  <2>3. Down(m, f, rs, l, t, i, d)
    BY <1>1, <1>3, <1>6, <2>1, <2>2 DEF Down
  <2> QED  BY <2>3 DEF d, s
<1>7. CASE t # 0 /\ m[t][i] = 0 /\ f # {}
  <2>1. PICK n \in Frames : n = Min(f) /\ n \in f
    BY <1>2, <1>7, MinType
  <2> DEFINE M == Linked(m, t, i, n)
             L == [level EXCEPT ![n] = l + 1]
  <2>2. d = [mem |-> M, free |-> f \ {n}, table |-> n]
    BY <1>0, <1>7, <2>1 DEF Descend, Linked
  <2>3. n # 0 /\ t \in Frames /\ n # t /\ level[t] = l
    BY <1>2, <1>7, <2>1
  <2>4. Levelled(M, f \ {n}, rs, L) /\ SameView(m, M, rs)
    BY <1>7, <2>1, <2>3, LinkPreserves
  <2>5. IsFiniteSet(f \ {n}) /\ Cardinality(f \ {n}) = Cardinality(f) - 1
    BY <2>1, FS_RemoveElement
  <2>6. /\ M \in [Frames -> [Slots -> Nat]]
        /\ M[t][i] = n
        /\ \A j \in Slots : M[n][j] = 0
        /\ \A u \in Frames, j \in Slots : u # n /\ ~ (u = t /\ j = i) => M[u][j] = m[u][j]
    <3>1. m \in [Frames -> [Slots -> Nat]] /\ t \in Frames /\ i \in Slots /\ n \in Frames /\ n # t
      BY <1>2, <2>1, <2>3
    <3> QED  BY ONLY <3>1, LinkedType
  <2>7. L[n] = l + 1
    BY <2>1 DEF Levelled
  <2> HIDE DEF d, M, L
  <2>8. \A u \in Frames, j \in Slots : m[u][j] # 0 /\ u \notin f => M[u][j] = m[u][j]
    BY <1>7, <2>1, <2>3, <2>6
  <2>9. d.mem = M /\ d.free = f \ {n} /\ d.table = n
    BY <2>2
  <2>10. \E lev : Levelled(d.mem, d.free, rs, lev) /\ (d.table # 0 => lev[d.table] = l + 1)
    BY <2>4, <2>7, <2>9
  <2>11. Down(m, f, rs, l, t, i, d)
    <3>1. d = [mem |-> d.mem, free |-> d.free, table |-> d.table]
      BY <2>2, <2>9
    <3>2. d.free \subseteq f /\ IsFiniteSet(d.free) /\ Cardinality(d.free) >= Cardinality(f) - 1
      BY <1>3, <2>5, <2>9
    <3>3. \A u \in Frames, j \in Slots : m[u][j] # 0 /\ u \notin f => d.mem[u][j] = m[u][j]
      BY <2>8, <2>9
    <3> QED  BY <1>7, <2>1, <2>3, <2>4, <2>6, <2>9, <2>10, <3>1, <3>2, <3>3 DEF Down
  <2> QED  BY <2>11 DEF d, s
<1> QED  BY <1>4, <1>5, <1>6, <1>7

\* What a call keeps of [mem, free, tlb].
Sound(s, rs) ==
  /\ s = [mem |-> s.mem, free |-> s.free, tlb |-> s.tlb]
  /\ IsFiniteSet(s.free)
  /\ \E level : Levelled(s.mem, s.free, rs, level)

\* What it does to the translation of a page.
Effect(s, d, rs, r, v, p) ==
  \/ SameView(s.mem, d.mem, rs) /\ d.tlb = s.tlb
  \/ Updated(s.mem, d.mem, rs, r, v, p) /\ d.tlb = Invalidate(s.tlb, v)

\* map_page maps the page or, for want of a frame, leaves every page as it was.
LEMMA MappedEffect ==
  ASSUME NEW s, NEW rs, Sound(s, rs), NEW r \in rs, NEW v \in Virt, NEW p \in Nat \ Frames
  PROVE  LET d == Mapped(s, r, v, p)
         IN  /\ Sound(d, rs)
             /\ Effect(s, d, rs, r, v, p)
             /\ Cardinality(s.free) >= 3 => Updated(s.mem, d.mem, rs, r, v, p)
<1> DEFINE d0 == [mem |-> s.mem, free |-> s.free, table |-> r]
           d1 == Descend(d0, Index(v, 3))
           d2 == Descend(d1, Index(v, 2))
           d3 == Descend(d2, Index(v, 1))
           d == Mapped(s, r, v, p)
<1>1. PICK level : Levelled(s.mem, s.free, rs, level)
  BY DEF Sound
<1>2. r \in Frames /\ level[r] = 0 /\ 0 \notin Frames /\ r # 0
  BY <1>1, VmmAssumption DEF Levelled
<1>3. /\ Index(v, 3) \in Slots /\ Index(v, 2) \in Slots
      /\ Index(v, 1) \in Slots /\ Index(v, 0) \in Slots
  BY IndexType
<1>4. IsFiniteSet(s.free)
  BY DEF Sound
<1>5. Down(s.mem, s.free, rs, 0, r, Index(v, 3), d1)
  BY <1>1, <1>2, <1>3, <1>4, 0 \in 0 .. 2, DescendPreserves
<1> HIDE DEF d1
<1>6. PICK lev1 : Levelled(d1.mem, d1.free, rs, lev1) /\ (d1.table # 0 => lev1[d1.table] = 1)
  BY <1>5 DEF Down
<1>7. Down(d1.mem, d1.free, rs, 1, d1.table, Index(v, 2), d2)
  <2>1. d1 = [mem |-> d1.mem, free |-> d1.free, table |-> d1.table]
        /\ IsFiniteSet(d1.free) /\ d1.table \in Frames \cup {0}
    BY <1>5 DEF Down
  <2>2. Down(d1.mem, d1.free, rs, 1, d1.table, Index(v, 2),
             Descend([mem |-> d1.mem, free |-> d1.free, table |-> d1.table], Index(v, 2)))
    BY <1>3, <1>6, <2>1, 1 \in 0 .. 2, DescendPreserves
  <2> QED  BY <2>1, <2>2
<1> HIDE DEF d2
<1>8. PICK lev2 : Levelled(d2.mem, d2.free, rs, lev2) /\ (d2.table # 0 => lev2[d2.table] = 2)
  BY <1>7 DEF Down
<1>9. Down(d2.mem, d2.free, rs, 2, d2.table, Index(v, 1), d3)
  <2>1. d2 = [mem |-> d2.mem, free |-> d2.free, table |-> d2.table]
        /\ IsFiniteSet(d2.free) /\ d2.table \in Frames \cup {0}
    BY <1>7 DEF Down
  <2>2. Down(d2.mem, d2.free, rs, 2, d2.table, Index(v, 1),
             Descend([mem |-> d2.mem, free |-> d2.free, table |-> d2.table], Index(v, 1)))
    BY <1>3, <1>8, <2>1, 2 \in 0 .. 2, DescendPreserves
  <2> QED  BY <2>1, <2>2
<1>10. d = IF d3.table = 0
           THEN [mem |-> d3.mem, free |-> d3.free, tlb |-> s.tlb]
           ELSE [mem |-> SetEntry(d3.mem, d3.table, Index(v, 0), p),
                 free |-> d3.free, tlb |-> Invalidate(s.tlb, v)]
  BY DEF Mapped, d1, d2
<1> HIDE DEF d3, d
<1>11. SameView(s.mem, d3.mem, rs)
  BY <1>5, <1>7, <1>9 DEF Down, SameView
<1>12. CASE d3.table = 0
  <2>1. Cardinality(s.free) < 3
    <3>1. Cardinality({}) = 0
      BY FS_EmptySet
    <3>2. /\ Cardinality(s.free) \in Nat /\ Cardinality(d1.free) \in Nat /\ Cardinality(d2.free) \in Nat
      BY <1>4, <1>5, <1>7, FS_CardinalityType DEF Down
    <3>3. s.free = {} \/ d1.free = {} \/ d2.free = {}
      BY <1>2, <1>5, <1>7, <1>9, <1>12 DEF Down
    <3>4. /\ Cardinality(d1.free) >= Cardinality(s.free) - 1
          /\ Cardinality(d2.free) >= Cardinality(d1.free) - 1
      BY <1>5, <1>7 DEF Down
    <3>5. Cardinality(d2.free) = 0 \/ Cardinality(d1.free) = 0 \/ Cardinality(s.free) = 0
      BY <3>1, <3>3
    <3> HIDE DEF d0
    <3> QED  BY <3>2, <3>4, <3>5
  <2>2. Sound(d, rs)
    BY <1>9, <1>10, <1>12 DEF Sound, Down
  <2>3. Effect(s, d, rs, r, v, p)
    BY <1>10, <1>11, <1>12 DEF Effect
  <2>4. Cardinality(s.free) \in Nat
    BY <1>4, FS_CardinalityType
  <2> QED  BY <2>1, <2>2, <2>3, <2>4 DEF d
<1>13. CASE d3.table # 0
  <2>1. d1.table \in Frames /\ d2.table \in Frames
    BY <1>2, <1>5, <1>7, <1>9, <1>13 DEF Down
  <2>2. r \notin d1.free /\ d1.table \notin d2.free /\ r \notin d2.free
    BY <1>1, <1>2, <1>5, <1>6, <1>7, <2>1 DEF Levelled, Down
  <2>3. d3.mem[r][Index(v, 3)] = d1.table
    BY <1>2, <1>3, <1>5, <1>7, <1>9, <2>1, <2>2 DEF Down
  <2>4. d3.mem[d1.table][Index(v, 2)] = d2.table
    BY <1>2, <1>3, <1>7, <1>9, <2>1, <2>2 DEF Down
  <2>5. PageTable(d3.mem, r, v) = d3.table
    BY <1>2, <1>9, <1>13, <2>1, <2>3, <2>4 DEF PageTable, Down
  <2>6. PICK lev : Levelled(d3.mem, d3.free, rs, lev)
    BY <1>9 DEF Down
  <2>7. /\ Levelled(SetEntry(d3.mem, d3.table, Index(v, 0), p), d3.free, rs, lev)
        /\ Updated(d3.mem, SetEntry(d3.mem, d3.table, Index(v, 0), p), rs, r, v, p)
    BY <1>13, <2>5, <2>6, SetEntryUpdates
  <2>8. Updated(s.mem, d.mem, rs, r, v, p)
    BY <1>10, <1>11, <1>13, <2>7 DEF Updated, SameView
  <2>9. Sound(d, rs)
    BY <1>9, <1>10, <1>13, <2>7 DEF Sound, Down
  <2> QED  BY <1>10, <1>13, <2>8, <2>9 DEF Effect, d
<1> QED  BY <1>12, <1>13 DEF d

\* unmap_page unmaps the page; when it has no page table it was not mapped.
LEMMA UnmappedEffect ==
  ASSUME NEW s, NEW rs, Sound(s, rs), NEW r \in rs, NEW v \in Virt
  PROVE  LET d == Unmapped(s, r, v)
         IN  /\ Sound(d, rs)
             /\ Effect(s, d, rs, r, v, 0)
             /\ Updated(s.mem, d.mem, rs, r, v, 0)
<1> DEFINE pt == PageTable(s.mem, r, v)
           d == Unmapped(s, r, v)
<1>1. PICK level : Levelled(s.mem, s.free, rs, level)
  BY DEF Sound
<1>2. s = [mem |-> s.mem, free |-> s.free, tlb |-> s.tlb] /\ IsFiniteSet(s.free)
  BY DEF Sound
<1>3. CASE pt = 0
  <2>1. d = s
    BY <1>3 DEF Unmapped
  <2>2. SameView(s.mem, s.mem, rs)
    BY DEF SameView
  <2>3. Updated(s.mem, s.mem, rs, r, v, 0)
    <3> SUFFICES ASSUME NEW u \in rs, NEW w \in Virt, Hits(u, w, r, v)
                 PROVE  vmm_get_phys(s.mem, u, w) = 0
      BY DEF Updated
    <3>1. s.mem[u][Index(v, 3)] = s.mem[r][Index(v, 3)]
      BY <1>1 DEF Hits, Levelled
    <3>2. PageTable(s.mem, u, w) = 0
      BY <1>3, <3>1 DEF Hits, PageTable
    <3> QED  BY <3>2 DEF vmm_get_phys
  <2> QED  BY <2>1, <2>2, <2>3 DEF Effect
<1>4. CASE pt # 0
  <2> DEFINE M == SetEntry(s.mem, pt, Index(v, 0), 0)
  <2>1. d = [mem |-> M, free |-> s.free, tlb |-> Invalidate(s.tlb, v)]
    BY <1>2, <1>4 DEF Unmapped, Unset, SetEntry
  <2>2. 0 \in Nat \ Frames
    BY VmmAssumption
  <2>3. Levelled(M, s.free, rs, level) /\ Updated(s.mem, M, rs, r, v, 0)
    BY <1>1, <1>4, <2>2, SetEntryUpdates
  <2> HIDE DEF d, M, pt
  <2>4. d.mem = M /\ d.free = s.free /\ d.tlb = Invalidate(s.tlb, v)
    BY <2>1
  <2>5. Sound(d, rs)
    BY <1>2, <2>1, <2>3, <2>4 DEF Sound
  <2>6. Effect(s, d, rs, r, v, 0) /\ Updated(s.mem, d.mem, rs, r, v, 0)
    BY <2>3, <2>4 DEF Effect
  <2> QED  BY <2>5, <2>6 DEF d
<1> QED  BY <1>3, <1>4

-----------------------------------------------------------------------------
(* Ranges.                                                                 *)

\* What a range leaves of the state s: the pages of new, in one space or in all of
\* them, and no stale translation for the root c in use.
Coherent(s, c) ==
  /\ s.tlb \subseteq Virt \X (Nat \ {0})
  /\ \A t \in s.tlb : vmm_get_phys(s.mem, c, t[1]) = t[2]
UpdatedBy(m, n, rs, r, new) ==
  \A u \in rs, w \in Virt :
    vmm_get_phys(n, u, w) =
      IF w \in DOMAIN new /\ (u = r \/ Index(w, 3) \in CopiedSlots)
      THEN new[w] ELSE vmm_get_phys(m, u, w)

\* A change of one page leaves no stale translation.
LEMMA EffectCoherent ==
  ASSUME NEW s, NEW d, NEW rs, NEW r, NEW v, NEW p, Effect(s, d, rs, r, v, p),
         NEW c \in rs, Coherent(s, c)
  PROVE  Coherent(d, c) /\ d.tlb \subseteq s.tlb
BY DEF Effect, Coherent, SameView, Updated, Hits, Invalidate

\* The states a range goes through, one per page.
MapStates(done, r, v, p, n) ==
  done = [k \in 0 .. n |-> IF k = 0 THEN State ELSE Mapped(done[k - 1], r, v + k - 1, p + k - 1)]
UnmapStates(done, r, v, n) ==
  done = [k \in 0 .. n |-> IF k = 0 THEN State ELSE Unmapped(done[k - 1], r, v + k - 1)]

LEMMA MapRangeStates ==
  ASSUME NEW r, NEW v \in Nat, NEW p \in Nat, NEW n \in Nat, vmm_map_range(r, v, p, n)
  PROVE  \E done : MapStates(done, r, v, p, n) /\ Becomes(done[n])
<1> DEFINE F(k, g) == IF k = 0 THEN State ELSE Mapped(g[k - 1], r, v + k - 1, p + k - 1)
           S == {j \in Nat : \E g : g = [k \in 0 .. j |-> F(k, g)]}
<1>1. 0 \in S
  <2> DEFINE h == [k \in 0 .. 0 |-> State]
  <2>1. h = [k \in 0 .. 0 |-> F(k, h)]
    OBVIOUS
  <2> HIDE DEF h
  <2> QED  BY <2>1
<1>2. ASSUME NEW j \in S PROVE j + 1 \in S
  <2>1. PICK g : g = [k \in 0 .. j |-> F(k, g)]
    OBVIOUS
  <2> DEFINE h == [k \in 0 .. j + 1 |-> IF k = j + 1 THEN Mapped(g[j], r, v + j, p + j) ELSE g[k]]
  <2>2. h = [k \in 0 .. j + 1 |-> F(k, h)]
    <3> SUFFICES ASSUME NEW k \in 0 .. j + 1 PROVE h[k] = F(k, h)
      OBVIOUS
    <3>1. CASE k = j + 1
      BY <3>1
    <3>2. CASE k \in 0 .. j
      BY <2>1, <3>2
    <3> QED  BY <3>1, <3>2
  <2> HIDE DEF h, F
  <2>3. \E e : e = [k \in 0 .. j + 1 |-> F(k, e)]
    BY <2>2
  <2> QED  BY <2>3
<1> HIDE DEF S
<1>3. S = Nat
  BY <1>1, <1>2, SetInduction DEF S
<1>4. \E g : g = [k \in 0 .. n |-> F(k, g)]
  BY <1>3 DEF S
<1> DEFINE done == CHOOSE g : g = [k \in 0 .. n |-> F(k, g)]
<1>5. done = [k \in 0 .. n |-> F(k, done)]
  BY <1>4
<1>6. Becomes(done[n])
  BY DEF vmm_map_range
<1> QED  BY <1>5, <1>6 DEF MapStates

LEMMA UnmapRangeStates ==
  ASSUME NEW r, NEW v \in Nat, NEW n \in Nat, vmm_unmap_range(r, v, n)
  PROVE  \E done : UnmapStates(done, r, v, n) /\ Becomes(done[n])
<1> DEFINE F(k, g) == IF k = 0 THEN State ELSE Unmapped(g[k - 1], r, v + k - 1)
           S == {j \in Nat : \E g : g = [k \in 0 .. j |-> F(k, g)]}
<1>1. 0 \in S
  <2> DEFINE h == [k \in 0 .. 0 |-> State]
  <2>1. h = [k \in 0 .. 0 |-> F(k, h)]
    OBVIOUS
  <2> HIDE DEF h
  <2> QED  BY <2>1
<1>2. ASSUME NEW j \in S PROVE j + 1 \in S
  <2>1. PICK g : g = [k \in 0 .. j |-> F(k, g)]
    OBVIOUS
  <2> DEFINE h == [k \in 0 .. j + 1 |-> IF k = j + 1 THEN Unmapped(g[j], r, v + j) ELSE g[k]]
  <2>2. h = [k \in 0 .. j + 1 |-> F(k, h)]
    <3> SUFFICES ASSUME NEW k \in 0 .. j + 1 PROVE h[k] = F(k, h)
      OBVIOUS
    <3>1. CASE k = j + 1
      BY <3>1
    <3>2. CASE k \in 0 .. j
      BY <2>1, <3>2
    <3> QED  BY <3>1, <3>2
  <2> HIDE DEF h, F
  <2>3. \E e : e = [k \in 0 .. j + 1 |-> F(k, e)]
    BY <2>2
  <2> QED  BY <2>3
<1> HIDE DEF S
<1>3. S = Nat
  BY <1>1, <1>2, SetInduction DEF S
<1>4. \E g : g = [k \in 0 .. n |-> F(k, g)]
  BY <1>3 DEF S
<1> DEFINE done == CHOOSE g : g = [k \in 0 .. n |-> F(k, g)]
<1>5. done = [k \in 0 .. n |-> F(k, done)]
  BY <1>4
<1>6. Becomes(done[n])
  BY DEF vmm_unmap_range
<1> QED  BY <1>5, <1>6 DEF UnmapStates

\* The pages of a range at some offsets mapped, and a range unmapped.
Assigned(v, p, offsets) == [w \in {v + k : k \in offsets} |-> p + (w - v)]
Zeroed(v, n) == [w \in v .. v + n - 1 |-> 0]

LEMMA AssignedExtends ==
  ASSUME NEW m, NEW m1, NEW m2, NEW rs, NEW r, NEW v \in Nat, NEW p \in Nat, NEW k \in Nat,
         NEW offsets \in SUBSET Nat,
         UpdatedBy(m, m1, rs, r, Assigned(v, p, offsets)), Updated(m1, m2, rs, r, v + k, p + k)
  PROVE  UpdatedBy(m, m2, rs, r, Assigned(v, p, offsets \cup {k}))
<1> DEFINE old == Assigned(v, p, offsets)
           new == Assigned(v, p, offsets \cup {k})
<1>1. \A w : w \in DOMAIN new <=> w \in DOMAIN old \/ w = v + k
  BY DEF Assigned
<1>2. \A w : w \in DOMAIN old => new[w] = old[w]
  BY DEF Assigned
<1>3. new[v + k] = p + k
  BY DEF Assigned
<1> HIDE DEF old, new
<1> SUFFICES ASSUME NEW u \in rs, NEW w \in Virt
             PROVE  vmm_get_phys(m2, u, w) =
                      IF w \in DOMAIN new /\ (u = r \/ Index(w, 3) \in CopiedSlots)
                      THEN new[w] ELSE vmm_get_phys(m, u, w)
  BY DEF UpdatedBy, new
<1>4. vmm_get_phys(m1, u, w) =
        IF w \in DOMAIN old /\ (u = r \/ Index(w, 3) \in CopiedSlots)
        THEN old[w] ELSE vmm_get_phys(m, u, w)
  BY DEF UpdatedBy, old
<1>5. vmm_get_phys(m2, u, w) =
        IF w = v + k /\ (u = r \/ Index(w, 3) \in CopiedSlots)
        THEN p + k ELSE vmm_get_phys(m1, u, w)
  BY DEF Updated, Hits
<1>6. CASE w = v + k
  BY <1>1, <1>3, <1>4, <1>5, <1>6
<1>7. CASE w # v + k
  BY <1>1, <1>2, <1>4, <1>5, <1>7
<1> QED  BY <1>6, <1>7

LEMMA ZeroedExtends ==
  ASSUME NEW m, NEW m1, NEW m2, NEW rs, NEW r, NEW v \in Nat, NEW k \in Nat,
         UpdatedBy(m, m1, rs, r, Zeroed(v, k)), Updated(m1, m2, rs, r, v + k, 0)
  PROVE  UpdatedBy(m, m2, rs, r, Zeroed(v, k + 1))
<1> DEFINE old == Zeroed(v, k)
           new == Zeroed(v, k + 1)
<1>1. \A w : w \in DOMAIN new <=> w \in DOMAIN old \/ w = v + k
  BY DEF Zeroed
<1>2. \A w : (w \in DOMAIN old => old[w] = 0) /\ (w \in DOMAIN new => new[w] = 0)
  BY DEF Zeroed
<1> HIDE DEF old, new
<1> SUFFICES ASSUME NEW u \in rs, NEW w \in Virt
             PROVE  vmm_get_phys(m2, u, w) =
                      IF w \in DOMAIN new /\ (u = r \/ Index(w, 3) \in CopiedSlots)
                      THEN new[w] ELSE vmm_get_phys(m, u, w)
  BY DEF UpdatedBy, new
<1>4. vmm_get_phys(m1, u, w) =
        IF w \in DOMAIN old /\ (u = r \/ Index(w, 3) \in CopiedSlots)
        THEN old[w] ELSE vmm_get_phys(m, u, w)
  BY DEF UpdatedBy, old
<1>5. vmm_get_phys(m2, u, w) =
        IF w = v + k /\ (u = r \/ Index(w, 3) \in CopiedSlots)
        THEN 0 ELSE vmm_get_phys(m1, u, w)
  BY DEF Updated, Hits
<1>6. CASE w = v + k
  BY <1>1, <1>2, <1>4, <1>5, <1>6
<1>7. CASE w # v + k
  BY <1>1, <1>2, <1>4, <1>5, <1>7
<1> QED  BY <1>6, <1>7

\* A range maps the pages for which there were frames, and touches no other.
LEMMA MapRangeEffect ==
  ASSUME Sound(State, roots), cr3 \in roots, Coherent(State, cr3),
         NEW r \in roots, NEW v \in Virt, NEW p \in Phys, NEW n \in Lengths,
         v .. v + n - 1 \subseteq Virt, vmm_map_range(r, v, p, n)
  PROVE  /\ \E d : /\ Sound(d, roots) /\ Coherent(d, cr3) /\ Becomes(d)
         /\ \E offsets \in SUBSET (0 .. n - 1) :
              UpdatedBy(mem, mem', roots, r, Assigned(v, p, offsets))
<1>1. v \in Nat /\ p \in Nat /\ n \in Nat
  BY VmmAssumption
<1>2. \A k \in 0 .. n - 1 : v + k \in Virt /\ p + k \in Nat \ Frames
  <2> SUFFICES ASSUME NEW k \in 0 .. n - 1 PROVE v + k \in Virt /\ p + k \in Nat \ Frames
    OBVIOUS
  <2>1. v + k \in v .. v + n - 1 /\ p + k \in p .. p + n - 1 /\ p + k \in Nat
    BY <1>1
  <2>2. Frames \cap p .. p + n - 1 = {}
    BY VmmAssumption
  <2> QED  BY <2>1, <2>2
<1>3. PICK done : MapStates(done, r, v, p, n) /\ Becomes(done[n])
  BY <1>1, MapRangeStates
<1> DEFINE Good(k) == /\ Sound(done[k], roots) /\ Coherent(done[k], cr3)
                      /\ \E offsets \in SUBSET (0 .. k - 1) :
                           UpdatedBy(mem, done[k].mem, roots, r, Assigned(v, p, offsets))
           S == {k \in Nat : k <= n => Good(k)}
<1>4. 0 \in S
  <2>1. done[0] = State
    BY <1>1, <1>3 DEF MapStates
  <2>2. UpdatedBy(mem, mem, roots, r, Assigned(v, p, {}))
    BY DEF UpdatedBy, Assigned
  <2>3. State.mem = mem
    BY DEF State
  <2>4. Good(0)
    BY <2>1, <2>2, <2>3
  <2> QED  BY <2>4
<1>5. ASSUME NEW k \in S PROVE k + 1 \in S
  <2> SUFFICES ASSUME k + 1 <= n PROVE Good(k + 1)
    OBVIOUS
  <2>1. Good(k) /\ k \in 0 .. n - 1 /\ k \in Nat
    BY <1>1
  <2>2. done[k + 1] = Mapped(done[k], r, v + k, p + k)
    <3>1. k + 1 \in 0 .. n /\ k + 1 # 0 /\ (k + 1) - 1 = k /\ v + (k + 1) - 1 = v + k /\ p + (k + 1) - 1 = p + k
      BY <1>1, <2>1
    <3>2. done[k + 1] = Mapped(done[(k + 1) - 1], r, v + (k + 1) - 1, p + (k + 1) - 1)
      BY <1>3, <3>1 DEF MapStates
    <3> QED  BY <3>1, <3>2
  <2>3. v + k \in Virt /\ p + k \in Nat \ Frames
    BY <1>2, <2>1
  <2>4. Sound(done[k + 1], roots) /\ Effect(done[k], done[k + 1], roots, r, v + k, p + k)
    BY <2>1, <2>2, <2>3, MappedEffect
  <2>5. Coherent(done[k + 1], cr3)
    BY <2>1, <2>4, EffectCoherent
  <2>6. PICK offsets \in SUBSET (0 .. k - 1) :
          UpdatedBy(mem, done[k].mem, roots, r, Assigned(v, p, offsets))
    BY <2>1
  <2>7. CASE SameView(done[k].mem, done[k + 1].mem, roots)
    <3>1. UpdatedBy(mem, done[k + 1].mem, roots, r, Assigned(v, p, offsets))
      BY <2>6, <2>7 DEF UpdatedBy, SameView
    <3>2. offsets \in SUBSET (0 .. (k + 1) - 1)
      BY <2>1
    <3> QED  BY <2>4, <2>5, <3>1, <3>2
  <2>8. CASE Updated(done[k].mem, done[k + 1].mem, roots, r, v + k, p + k)
    <3>1. UpdatedBy(mem, done[k + 1].mem, roots, r, Assigned(v, p, offsets \cup {k}))
      BY <1>1, <2>1, <2>6, <2>8, offsets \in SUBSET Nat, AssignedExtends
    <3>2. offsets \cup {k} \in SUBSET (0 .. (k + 1) - 1)
      BY <2>1
    <3> QED  BY <2>4, <2>5, <3>1, <3>2
  <2> QED  BY <2>4, <2>7, <2>8 DEF Effect
<1> HIDE DEF S, Good
<1>6. S = Nat
  BY <1>4, <1>5, SetInduction DEF S
<1>7. Good(n)
  BY <1>1, <1>6 DEF S
<1>8. mem' = done[n].mem
  BY <1>3 DEF Becomes
<1> QED  BY <1>3, <1>7, <1>8 DEF Good

\* Unmapping a range unmaps all of it.
LEMMA UnmapRangeEffect ==
  ASSUME Sound(State, roots), cr3 \in roots, Coherent(State, cr3),
         NEW r \in roots, NEW v \in Virt, NEW n \in Lengths,
         v .. v + n - 1 \subseteq Virt, vmm_unmap_range(r, v, n)
  PROVE  /\ \E d : /\ Sound(d, roots) /\ Coherent(d, cr3) /\ Becomes(d)
         /\ UpdatedBy(mem, mem', roots, r, Zeroed(v, n))
<1>1. v \in Nat /\ n \in Nat
  BY VmmAssumption
<1>3. PICK done : UnmapStates(done, r, v, n) /\ Becomes(done[n])
  BY <1>1, UnmapRangeStates
<1> DEFINE Good(k) == /\ Sound(done[k], roots) /\ Coherent(done[k], cr3)
                      /\ UpdatedBy(mem, done[k].mem, roots, r, Zeroed(v, k))
           S == {k \in Nat : k <= n => Good(k)}
<1>4. 0 \in S
  <2>1. done[0] = State
    BY <1>1, <1>3 DEF UnmapStates
  <2>2. UpdatedBy(mem, mem, roots, r, Zeroed(v, 0))
    BY <1>1 DEF UpdatedBy, Zeroed
  <2>3. State.mem = mem
    BY DEF State
  <2>4. Good(0)
    BY <2>1, <2>2, <2>3
  <2> QED  BY <2>4
<1>5. ASSUME NEW k \in S PROVE k + 1 \in S
  <2> SUFFICES ASSUME k + 1 <= n PROVE Good(k + 1)
    OBVIOUS
  <2>1. Good(k) /\ k \in 0 .. n - 1 /\ k \in Nat
    BY <1>1
  <2>2. done[k + 1] = Unmapped(done[k], r, v + k)
    <3>1. k + 1 \in 0 .. n /\ k + 1 # 0 /\ (k + 1) - 1 = k /\ v + (k + 1) - 1 = v + k
      BY <1>1, <2>1
    <3>2. done[k + 1] = Unmapped(done[(k + 1) - 1], r, v + (k + 1) - 1)
      BY <1>3, <3>1 DEF UnmapStates
    <3> QED  BY <3>1, <3>2
  <2>3. v + k \in Virt
    BY <1>1, <2>1
  <2>4. /\ Sound(done[k + 1], roots)
        /\ Effect(done[k], done[k + 1], roots, r, v + k, 0)
        /\ Updated(done[k].mem, done[k + 1].mem, roots, r, v + k, 0)
    BY <2>1, <2>2, <2>3, UnmappedEffect
  <2>5. Coherent(done[k + 1], cr3)
    BY <2>1, <2>4, EffectCoherent
  <2>6. UpdatedBy(mem, done[k + 1].mem, roots, r, Zeroed(v, k + 1))
    BY <1>1, <2>1, <2>4, ZeroedExtends
  <2> QED  BY <2>4, <2>5, <2>6
<1> HIDE DEF S, Good
<1>6. S = Nat
  BY <1>4, <1>5, SetInduction DEF S
<1>7. Good(n)
  BY <1>1, <1>6 DEF S
<1>8. mem' = done[n].mem
  BY <1>3 DEF Becomes
<1> QED  BY <1>3, <1>7, <1>8 DEF Good

-----------------------------------------------------------------------------
(* The invariant.                                                          *)

IInv ==
  /\ Sound(State, roots)
  /\ Boot \in roots /\ cr3 \in roots
  /\ Coherent(State, cr3)

LEMMA InitInvariant == Init => IInv
<1> SUFFICES ASSUME Init PROVE IInv
  OBVIOUS
<1> DEFINE level == [t \in Frames |-> IF t = Boot THEN 0 ELSE IF t \in PoolFrames THEN 4 ELSE 1]
<1>1. /\ mem = [t \in Frames |-> [i \in Slots |->
                  IF t = Boot /\ i \in CopiedSlots THEN BootTable[i]
                  ELSE IF t \in PoolFrames THEN Boot ELSE 0]]
      /\ free = PoolFrames /\ roots = {Boot} /\ cr3 = Boot /\ tlb = {}
  BY DEF Init, Slots
<1>2. /\ Frames \subseteq Nat \ {0} /\ Boot \in Frames /\ Boot \notin PoolFrames /\ PoolFrames \subseteq Frames
      /\ \A s \in CopiedSlots : BootTable[s] \in Frames \ (PoolFrames \cup {Boot})
      /\ \A t \in Frames : t = Boot \/ t \in PoolFrames \/ \E s \in CopiedSlots : t = BootTable[s]
      /\ \A s, t \in CopiedSlots : BootTable[s] = BootTable[t] => s = t
      /\ CopiedSlots \subseteq Slots
  BY VmmAssumption DEF Frames, BootFrames, Slots
<1>3. mem \in [Frames -> [Slots -> Nat]] /\ level \in [Frames -> 0 .. 4]
  <2>1. Boot \in Nat /\ \A i \in CopiedSlots : BootTable[i] \in Nat
    BY <1>2
  <2>2. \A t \in Frames, i \in Slots :
          (IF t = Boot /\ i \in CopiedSlots THEN BootTable[i]
           ELSE IF t \in PoolFrames THEN Boot ELSE 0) \in Nat
    BY <2>1
  <2>3. mem \in [Frames -> [Slots -> Nat]]
    BY <1>1, <2>2
  <2> QED  BY <2>3
<1>4. /\ level[Boot] = 0
      /\ \A t \in PoolFrames : level[t] = 4
      /\ \A t \in Frames \ (PoolFrames \cup {Boot}) : level[t] = 1
  BY <1>2
<1>5. /\ \A i \in Slots : mem[Boot][i] = IF i \in CopiedSlots THEN BootTable[i] ELSE 0
      /\ \A t \in Frames \ (PoolFrames \cup {Boot}), i \in Slots : mem[t][i] = 0
  BY <1>1, <1>2
<1> HIDE DEF level
<1>6. \A t \in Frames : level[t] \in 0 .. 2 => t = Boot \/ t \in Frames \ (PoolFrames \cup {Boot})
  BY <1>4
<1>7. LinksDown(mem, level)
  <2> SUFFICES ASSUME NEW t \in Frames, NEW i \in Slots, level[t] \in 0 .. 2, mem[t][i] # 0
               PROVE  mem[t][i] \in Frames /\ level[mem[t][i]] = level[t] + 1
    BY DEF LinksDown
  <2>1. t = Boot /\ i \in CopiedSlots /\ mem[t][i] = BootTable[i]
    BY <1>5, <1>6
  <2>2. BootTable[i] \in Frames \ (PoolFrames \cup {Boot})
    BY <1>2, <2>1
  <2> QED  BY <1>4, <2>1, <2>2
<1>8. OneParent(mem, level)
  <2> SUFFICES ASSUME NEW t \in Frames, NEW u \in Frames, NEW i \in Slots, NEW j \in Slots,
                      level[t] \in 0 .. 2, level[u] \in 0 .. 2,
                      mem[t][i] # 0, mem[t][i] = mem[u][j]
               PROVE  i = j /\ t = u
    BY DEF OneParent
  <2>1. t = Boot /\ i \in CopiedSlots /\ mem[t][i] = BootTable[i]
    BY <1>5, <1>6
  <2>2. u = Boot /\ j \in CopiedSlots /\ mem[u][j] = BootTable[j]
    BY <1>5, <1>6
  <2> QED  BY <1>2, <2>1, <2>2
<1>9. SomeParent(mem, level)
  <2> SUFFICES ASSUME NEW t \in Frames, level[t] \in 1 .. 3
               PROVE  \E u \in Frames, i \in Slots : level[u] = level[t] - 1 /\ mem[u][i] = t
    BY DEF SomeParent
  <2>1. t # Boot /\ t \notin PoolFrames
    BY <1>4
  <2>2. PICK s \in CopiedSlots : t = BootTable[s]
    BY <1>2, <2>1
  <2>3. level[t] = 1 /\ mem[Boot][s] = t /\ s \in Slots
    BY <1>2, <1>4, <1>5, <2>1, <2>2
  <2> QED  BY <1>2, <1>4, <2>3
<1>10. Levelled(mem, free, roots, level)
  <2>1. free = {t \in Frames : level[t] = 4} /\ roots = {t \in Frames : level[t] = 0}
    <3>1. \A t \in Frames : (level[t] = 4 <=> t \in PoolFrames) /\ (level[t] = 0 <=> t = Boot)
      BY <1>2, <1>4
    <3>2. PoolFrames = {t \in Frames : level[t] = 4}
      BY <1>2, <3>1
    <3>3. {Boot} = {t \in Frames : level[t] = 0}
      <4>1. Boot \in {t \in Frames : level[t] = 0}
        BY <1>2, <3>1
      <4>2. \A t \in {u \in Frames : level[u] = 0} : t = Boot
        BY <3>1
      <4> QED  BY <4>1, <4>2
    <3> QED  BY <1>1, <3>2, <3>3
  <2>2. \A t \in Frames : level[t] # 3
    BY <1>2, <1>4
  <2>3. \A r \in roots, s \in CopiedSlots : mem[r][s] = BootTable[s]
    BY <1>1, <1>2, <1>5
  <2> QED  BY <1>1, <1>3, <1>7, <1>8, <1>9, <2>1, <2>2, <2>3 DEF Levelled
<1>11. State.mem = mem /\ State.free = free /\ State.tlb = tlb
  BY DEF State
<1>12. Sound(State, roots)
  BY <1>1, <1>10, <1>11, VmmAssumption DEF Sound, State
<1> QED  BY <1>1, <1>11, <1>12 DEF IInv, Coherent

\* The functions that the four page operations write: page -> frame, 0 for none.
Written(new) ==
  \E v \in Virt, n \in Lengths \cup {1} :
    \/ new = Zeroed(v, n)
    \/ \E p \in Phys, offsets \in SUBSET (0 .. n - 1) : new = Assigned(v, p, offsets)

LEMMA BecomesKeeps ==
  ASSUME IInv, NEW d, Sound(d, roots), Coherent(d, cr3), Becomes(d)
  PROVE  IInv' /\ UNCHANGED <<roots, cr3>>
<1>1. State' = [mem |-> mem', free |-> free', tlb |-> tlb'] /\ UNCHANGED <<roots, cr3>>
  BY DEF State, Becomes
<1>2. State' = d
  BY <1>1 DEF Becomes, Sound
<1>3. Sound(State', roots') /\ Coherent(State', cr3') /\ Boot \in roots' /\ cr3' \in roots'
  BY <1>1, <1>2 DEF IInv
<1> QED  BY <1>1, <1>3 DEF IInv, Sound, Coherent

\* Every page operation keeps the invariant and writes such a function.
LEMMA PageOperations ==
  ASSUME IInv, NEW r \in roots, NEW v \in Virt,
         \/ unmap_page(r, v)
         \/ \E phys \in Phys : map_page(r, v, phys)
         \/ \E length \in Lengths :
              /\ v .. v + length - 1 \subseteq Virt
              /\ \/ vmm_unmap_range(r, v, length)
                 \/ \E phys \in Phys : vmm_map_range(r, v, phys, length)
  PROVE  /\ IInv' /\ UNCHANGED <<roots, cr3>>
         /\ \E new : Written(new) /\ UpdatedBy(mem, mem', roots, r, new)
<1>1. Sound(State, roots) /\ cr3 \in roots /\ Coherent(State, cr3) /\ State.mem = mem
  BY DEF IInv, State
<1>2. v \in Nat /\ Phys \subseteq Nat \ Frames
  BY VmmAssumption
<1>3. CASE unmap_page(r, v)
  <2> DEFINE d == Unmapped(State, r, v)
  <2>1. Sound(d, roots) /\ Effect(State, d, roots, r, v, 0) /\ Updated(mem, d.mem, roots, r, v, 0)
    BY <1>1, UnmappedEffect
  <2>2. Becomes(d)
    BY <1>3 DEF unmap_page
  <2> HIDE DEF d
  <2>3. Coherent(d, cr3)
    BY <1>1, <2>1, EffectCoherent
  <2>4. IInv' /\ UNCHANGED <<roots, cr3>>
    BY <2>1, <2>2, <2>3, BecomesKeeps
  <2>5. \A w : w \in DOMAIN Zeroed(v, 1) <=> w = v
    BY <1>2 DEF Zeroed
  <2>6. Zeroed(v, 1)[v] = 0
    BY <1>2 DEF Zeroed
  <2>7. UpdatedBy(mem, mem', roots, r, Zeroed(v, 1))
    BY <2>1, <2>2, <2>5, <2>6 DEF UpdatedBy, Updated, Hits, Becomes
  <2>8. Written(Zeroed(v, 1))
    BY DEF Written
  <2> QED  BY <2>4, <2>7, <2>8
<1>4. ASSUME NEW phys \in Phys, map_page(r, v, phys)
      PROVE  /\ IInv' /\ UNCHANGED <<roots, cr3>>
             /\ \E new : Written(new) /\ UpdatedBy(mem, mem', roots, r, new)
  <2> DEFINE d == Mapped(State, r, v, phys)
  <2>1. Sound(d, roots) /\ Effect(State, d, roots, r, v, phys)
    BY <1>1, <1>2, MappedEffect
  <2>2. Becomes(d)
    BY <1>4 DEF map_page
  <2> HIDE DEF d
  <2>3. Coherent(d, cr3)
    BY <1>1, <2>1, EffectCoherent
  <2>4. IInv' /\ UNCHANGED <<roots, cr3>>
    BY <2>1, <2>2, <2>3, BecomesKeeps
  <2>5. CASE SameView(mem, d.mem, roots)
    <3>1. UpdatedBy(mem, mem', roots, r, Assigned(v, phys, {}))
      BY <2>2, <2>5 DEF SameView, UpdatedBy, Becomes, Assigned
    <3>2. Written(Assigned(v, phys, {}))
      BY DEF Written
    <3> QED  BY <2>4, <3>1, <3>2
  <2>6. CASE Updated(mem, d.mem, roots, r, v, phys)
    <3>1. \A w : w \in DOMAIN Assigned(v, phys, {0}) <=> w = v
      BY <1>2 DEF Assigned
    <3>2. Assigned(v, phys, {0})[v] = phys
      BY <1>2 DEF Assigned
    <3>3. UpdatedBy(mem, mem', roots, r, Assigned(v, phys, {0}))
      BY <2>2, <2>6, <3>1, <3>2 DEF UpdatedBy, Updated, Hits, Becomes
    <3>4. Written(Assigned(v, phys, {0}))
      <4>1. {0} \in SUBSET (0 .. 1 - 1) /\ 1 \in Lengths \cup {1}
        OBVIOUS
      <4> QED  BY <4>1 DEF Written
    <3> QED  BY <2>4, <3>3, <3>4
  <2> QED  BY <1>1, <2>1, <2>5, <2>6 DEF Effect
<1>5. ASSUME NEW length \in Lengths, v .. v + length - 1 \subseteq Virt, vmm_unmap_range(r, v, length)
      PROVE  /\ IInv' /\ UNCHANGED <<roots, cr3>>
             /\ \E new : Written(new) /\ UpdatedBy(mem, mem', roots, r, new)
  <2>1. PICK d : Sound(d, roots) /\ Coherent(d, cr3) /\ Becomes(d)
    BY <1>1, <1>5, UnmapRangeEffect
  <2>2. UpdatedBy(mem, mem', roots, r, Zeroed(v, length))
    BY <1>1, <1>5, UnmapRangeEffect
  <2>3. IInv' /\ UNCHANGED <<roots, cr3>>
    BY <2>1, BecomesKeeps
  <2> QED  BY <2>2, <2>3 DEF Written
<1>6. ASSUME NEW length \in Lengths, v .. v + length - 1 \subseteq Virt,
             NEW phys \in Phys, vmm_map_range(r, v, phys, length)
      PROVE  /\ IInv' /\ UNCHANGED <<roots, cr3>>
             /\ \E new : Written(new) /\ UpdatedBy(mem, mem', roots, r, new)
  <2>1. PICK d : Sound(d, roots) /\ Coherent(d, cr3) /\ Becomes(d)
    BY <1>1, <1>6, MapRangeEffect
  <2>2. PICK offsets \in SUBSET (0 .. length - 1) :
          UpdatedBy(mem, mem', roots, r, Assigned(v, phys, offsets))
    BY <1>1, <1>6, MapRangeEffect
  <2>3. IInv' /\ UNCHANGED <<roots, cr3>>
    BY <2>1, BecomesKeeps
  <2>4. Written(Assigned(v, phys, offsets))
    BY DEF Written
  <2> QED  BY <2>2, <2>3, <2>4
<1> QED  BY <1>3, <1>4, <1>5, <1>6

\* A new PML4 has no pages of its own and all of the kernel's.
LEMMA CreateKeeps ==
  ASSUME IInv, vmm_create_pml4
  PROVE  \E n \in free :
    /\ IInv' /\ n \notin roots /\ roots' = roots \cup {n} /\ UNCHANGED cr3
    /\ SameView(mem, mem', roots)
    /\ \A w \in Virt : vmm_get_phys(mem', n, w) =
         IF Index(w, 3) \in CopiedSlots THEN vmm_get_phys(mem, Boot, w) ELSE 0
<1>1. PICK level : Levelled(mem, free, roots, level)
  BY DEF IInv, Sound, State
<1>2. /\ IsFiniteSet(free) /\ Boot \in roots /\ cr3 \in roots
      /\ tlb \subseteq Virt \X (Nat \ {0}) /\ \A t \in tlb : vmm_get_phys(mem, cr3, t[1]) = t[2]
  BY DEF IInv, Sound, State, Coherent
<1>3. /\ mem \in [Frames -> [Slots -> Nat]] /\ level \in [Frames -> 0 .. 4]
      /\ free \subseteq PoolFrames /\ free = {t \in Frames : level[t] = 4}
      /\ roots = {t \in Frames : level[t] = 0}
      /\ LinksDown(mem, level) /\ OneParent(mem, level) /\ SomeParent(mem, level)
      /\ \A t \in Frames, i \in Slots : level[t] = 3 => mem[t][i] \notin Frames
      /\ \A r \in roots, s \in CopiedSlots : mem[r][s] = BootTable[s]
  BY <1>1 DEF Levelled
<1>4. PICK n \in free :
        /\ free' = free \ {n} /\ roots' = roots \cup {n} /\ UNCHANGED <<cr3, tlb>>
        /\ mem' = [Cleared(mem, n) EXCEPT ![n] =
             [i \in Slots |-> IF i \in CopiedSlots THEN mem[cr3][i] ELSE Cleared(mem, n)[n][i]]]
  <2>1. Min(free) \in free
    BY <1>3, VmmAssumption, MinType DEF vmm_create_pml4
  <2> QED  BY <2>1 DEF vmm_create_pml4, Copied, Slots
<1>5. n \in Frames /\ level[n] = 4 /\ n \notin roots /\ 0 \notin Frames /\ CopiedSlots \subseteq Slots
  BY <1>3, VmmAssumption, SlotsType
<1>6. \A i \in CopiedSlots : mem[cr3][i] = BootTable[i] /\ BootTable[i] \in Frames
  BY <1>2, <1>3 DEF Frames, BootFrames
<1>7. /\ mem' \in [Frames -> [Slots -> Nat]]
      /\ \A i \in Slots : mem'[n][i] = IF i \in CopiedSlots THEN BootTable[i] ELSE 0
      /\ \A t \in Frames \ {n} : mem'[t] = mem[t]
  <2>1. Cleared(mem, n) = [mem EXCEPT ![n] = [i \in Slots |-> 0]]
    BY DEF Cleared, Slots
  <2>2. mem' = [mem EXCEPT ![n] = [i \in Slots |-> IF i \in CopiedSlots THEN mem[cr3][i] ELSE 0]]
    <3>1. Cleared(mem, n)[n] = [i \in Slots |-> 0]
      BY <1>3, <1>5, <2>1
    <3>2. [i \in Slots |-> IF i \in CopiedSlots THEN mem[cr3][i] ELSE Cleared(mem, n)[n][i]]
            = [i \in Slots |-> IF i \in CopiedSlots THEN mem[cr3][i] ELSE 0]
      BY <3>1
    <3> DEFINE row == [i \in Slots |-> IF i \in CopiedSlots THEN mem[cr3][i] ELSE 0]
    <3> HIDE DEF row
    <3>3. [Cleared(mem, n) EXCEPT ![n] = row] = [mem EXCEPT ![n] = row]
      BY <1>3, <1>5, <2>1
    <3> QED  BY <1>4, <3>2, <3>3 DEF row
  <2>3. \A i \in Slots : (IF i \in CopiedSlots THEN mem[cr3][i] ELSE 0) \in Nat
    BY <1>6, VmmAssumption
  <2> QED  BY <1>3, <1>5, <1>6, <2>2, <2>3
<1> DEFINE L == [level EXCEPT ![n] = 0]
<1>8. L \in [Frames -> 0 .. 4] /\ L[n] = 0 /\ \A t \in Frames \ {n} : L[t] = level[t]
  BY <1>3, <1>5
<1> HIDE DEF L
<1>9. \A t \in Frames, i \in Slots : level[t] \in 0 .. 2 => mem[t][i] # n
  BY <1>3, <1>5 DEF LinksDown
\* The new table's entries are those of the table in use, in the copied slots.
<1>10. \A i \in Slots : mem'[n][i] # 0 => i \in CopiedSlots /\ mem'[n][i] = mem[cr3][i]
  BY <1>5, <1>6, <1>7
<1>11. cr3 \in Frames /\ level[cr3] = 0 /\ cr3 # n
  BY <1>2, <1>3, <1>5
<1>12. LinksDown(mem', L)
  <2> SUFFICES ASSUME NEW t \in Frames, NEW i \in Slots, L[t] \in 0 .. 2, mem'[t][i] # 0
               PROVE  mem'[t][i] \in Frames /\ L[mem'[t][i]] = L[t] + 1
    BY DEF LinksDown
  <2>1. CASE t = n
    <3>1. mem[cr3][i] # 0 /\ mem'[t][i] = mem[cr3][i]
      BY <1>10, <2>1
    <3>2. mem[cr3][i] \in Frames /\ level[mem[cr3][i]] = 1 /\ mem[cr3][i] # n
      BY <1>3, <1>9, <1>11, <3>1 DEF LinksDown
    <3> QED  BY <1>8, <2>1, <3>1, <3>2
  <2>2. CASE t # n
    <3>1. mem'[t][i] = mem[t][i] /\ L[t] = level[t]
      BY <1>7, <1>8, <2>2
    <3>2. mem[t][i] \in Frames /\ level[mem[t][i]] = level[t] + 1 /\ mem[t][i] # n
      BY <1>3, <1>9, <3>1 DEF LinksDown
    <3> QED  BY <1>8, <3>1, <3>2
  <2> QED  BY <2>1, <2>2
<1>13. OneParent(mem', L)
  <2> DEFINE old(t) == IF t = n THEN cr3 ELSE t
  <2>1. \A t \in Frames, i \in Slots : mem'[t][i] # 0 =>
          old(t) \in Frames /\ mem[old(t)][i] = mem'[t][i] /\ level[old(t)] = L[t]
    BY <1>7, <1>8, <1>10, <1>11
  <2> SUFFICES ASSUME NEW t \in Frames, NEW u \in Frames, NEW i \in Slots, NEW j \in Slots,
                      L[t] \in 0 .. 2, L[u] \in 0 .. 2, mem'[t][i] # 0, mem'[t][i] = mem'[u][j]
               PROVE  i = j /\ (t = u \/ (L[t] = 0 /\ L[u] = 0 /\ i \in CopiedSlots))
    BY DEF OneParent
  <2>2. /\ old(t) \in Frames /\ mem[old(t)][i] = mem'[t][i] /\ level[old(t)] = L[t]
        /\ old(u) \in Frames /\ mem[old(u)][j] = mem'[t][i] /\ level[old(u)] = L[u]
    BY <2>1
  <2> HIDE DEF old
  <2>3. i = j /\ (old(t) = old(u) \/ (L[t] = 0 /\ L[u] = 0 /\ i \in CopiedSlots))
    BY <1>3, <2>2 DEF OneParent
  <2>4. CASE t # n /\ u # n
    BY <2>3, <2>4 DEF old
  <2>5. CASE t = n \/ u = n
    <3>1. i \in CopiedSlots
      BY <1>10, <2>3, <2>5
    <3> QED  BY <1>8, <1>11, <2>2, <2>3, <2>5, <3>1 DEF old
  <2> QED  BY <2>4, <2>5
<1>14. SomeParent(mem', L)
  <2> SUFFICES ASSUME NEW t \in Frames, L[t] \in 1 .. 3
               PROVE  \E u \in Frames, i \in Slots : L[u] = L[t] - 1 /\ mem'[u][i] = t
    BY DEF SomeParent
  <2>1. t # n /\ level[t] = L[t]
    BY <1>8
  <2>2. PICK u \in Frames, i \in Slots : level[u] = level[t] - 1 /\ mem[u][i] = t
    BY <1>3, <2>1 DEF SomeParent
  <2>3. u # n
    BY <1>3, <1>5, <2>1, <2>2
  <2> QED  BY <1>7, <1>8, <2>1, <2>2, <2>3
<1>15. Levelled(mem', free', roots', L)
  <2>1. free' \subseteq PoolFrames
    BY <1>3, <1>4
  <2>2. free' = {t \in Frames : L[t] = 4}
    BY <1>3, <1>4, <1>5, <1>8
  <2>3. roots' = {t \in Frames : L[t] = 0}
    BY <1>3, <1>4, <1>5, <1>8
  <2>4. \A t \in Frames, i \in Slots : L[t] = 3 => mem'[t][i] \notin Frames
    BY <1>3, <1>7, <1>8
  <2>5. \A r \in roots', s \in CopiedSlots : mem'[r][s] = BootTable[s]
    BY <1>3, <1>4, <1>5, <1>7
  <2> QED  BY <1>7, <1>8, <1>12, <1>13, <1>14, <2>1, <2>2, <2>3, <2>4, <2>5 DEF Levelled
\* No walk meets the new table but one that starts there.
<1>16. \A r \in roots, w \in Virt :
         /\ mem'[r][Index(w, 3)] = mem[r][Index(w, 3)]
         /\ vmm_get_phys(mem', r, w) = vmm_get_phys(mem, r, w)
  <2> SUFFICES ASSUME NEW r \in roots, NEW w \in Virt
               PROVE  /\ mem'[r][Index(w, 3)] = mem[r][Index(w, 3)]
                      /\ vmm_get_phys(mem', r, w) = vmm_get_phys(mem, r, w)
    OBVIOUS
  <2> DEFINE a == mem[r][Index(w, 3)]
             b == mem[a][Index(w, 2)]
             c == mem[b][Index(w, 1)]
  <2>1. /\ r \in Frames /\ level[r] = 0
        /\ a # 0 => a \in Frames /\ level[a] = 1
        /\ a # 0 /\ b # 0 => b \in Frames /\ level[b] = 2
        /\ a # 0 /\ b # 0 /\ c # 0 => c \in Frames /\ level[c] = 3
    <3>1. WayDown(mem, level, r, w)
      BY <1>1, WalkLevels
    <3> QED  BY <3>1, Zenon DEF WayDown
  <2>2. mem'[r] = mem[r]
    BY <1>5, <1>7, <2>1
  <2>3. a # 0 => mem'[a] = mem[a]
    BY <1>5, <1>7, <2>1
  <2>4. a # 0 /\ b # 0 => mem'[b] = mem[b]
    BY <1>5, <1>7, <2>1
  <2>5. a # 0 /\ b # 0 /\ c # 0 => mem'[c] = mem[c]
    <3> HIDE DEF a, b, c
    <3> QED  BY <1>5, <1>7, <2>1
  <2>6. vmm_get_phys(mem, r, w) = IF a = 0 \/ b = 0 \/ c = 0 THEN 0 ELSE mem[c][Index(w, 0)]
    BY Zenon DEF vmm_get_phys, PageTable
  <2>7. vmm_get_phys(mem', r, w) = IF a = 0 \/ b = 0 \/ c = 0 THEN 0 ELSE mem'[c][Index(w, 0)]
    BY <2>2, <2>3, <2>4, Zenon DEF vmm_get_phys, PageTable
  <2>8. a # 0 /\ b # 0 /\ c # 0 => mem'[c][Index(w, 0)] = mem[c][Index(w, 0)]
    BY <2>5
  <2> HIDE DEF a, b, c
  <2>9. vmm_get_phys(mem', r, w) = vmm_get_phys(mem, r, w)
    BY <2>6, <2>7, <2>8
  <2> QED  BY <2>2, <2>9
<1>17. SameView(mem, mem', roots)
  BY <1>16 DEF SameView
<1>18. \A w \in Virt : vmm_get_phys(mem', n, w) =
         IF Index(w, 3) \in CopiedSlots THEN vmm_get_phys(mem, Boot, w) ELSE 0
  <2> SUFFICES ASSUME NEW w \in Virt
               PROVE  vmm_get_phys(mem', n, w) =
                        IF Index(w, 3) \in CopiedSlots THEN vmm_get_phys(mem, Boot, w) ELSE 0
    OBVIOUS
  <2>1. Index(w, 3) \in Slots
    BY IndexType
  <2>2. CASE Index(w, 3) \in CopiedSlots
    <3>1. mem'[n][Index(w, 3)] = BootTable[Index(w, 3)]
      BY <1>7, <2>1, <2>2
    <3>2. mem'[Boot][Index(w, 3)] = BootTable[Index(w, 3)]
      BY <1>2, <1>3, <1>16, <2>2
    <3>3. vmm_get_phys(mem', n, w) = vmm_get_phys(mem', Boot, w)
      BY <3>1, <3>2 DEF vmm_get_phys, PageTable
    <3> QED  BY <1>2, <1>16, <2>2, <3>3
  <2>3. CASE Index(w, 3) \notin CopiedSlots
    <3>1. mem'[n][Index(w, 3)] = 0
      BY <1>7, <2>1, <2>3
    <3> QED  BY <2>3, <3>1 DEF vmm_get_phys, PageTable
  <2> QED  BY <2>2, <2>3
<1>19. IInv'
  <2>1. IsFiniteSet(free')
    BY <1>2, <1>4, FS_RemoveElement
  <2>2. Sound(State', roots')
    BY <1>15, <2>1 DEF Sound, State
  <2>3. Coherent(State', cr3')
    BY <1>2, <1>4, <1>16 DEF Coherent, State
  <2>4. Boot \in roots' /\ cr3' \in roots'
    BY <1>2, <1>4
  <2> QED  BY <2>2, <2>3, <2>4 DEF IInv, Sound, Coherent
<1> QED  BY <1>4, <1>5, <1>17, <1>18, <1>19

\* Changing address spaces empties the translation buffer.
LEMMA SwitchKeeps ==
  ASSUME IInv, NEW r \in roots, vmm_switch(r)
  PROVE  IInv' /\ UNCHANGED <<mem, roots>> /\ cr3' \in roots
<1>1. /\ UNCHANGED <<mem, free, roots>> /\ cr3' = r /\ tlb' = {}
  BY DEF vmm_switch
<1>2. IsFiniteSet(free) /\ Boot \in roots /\ \E level : Levelled(mem, free, roots, level)
  BY DEF IInv, Sound, State
<1> QED  BY <1>1, <1>2 DEF IInv, Sound, State, Coherent

\* The processor reads the tables and nothing else.
LEMMA AccessKeeps ==
  ASSUME IInv, NEW v \in Virt, Access(v)
  PROVE  IInv' /\ UNCHANGED <<mem, roots, cr3>>
<1> DEFINE e == <<v, vmm_get_phys(mem, cr3, v)>>
<1>1. /\ UNCHANGED <<mem, free, roots, cr3>> /\ vmm_get_phys(mem, cr3, v) # 0
      /\ tlb' = tlb \cup {e}
  BY DEF Access
<1>2. /\ IsFiniteSet(free) /\ Boot \in roots /\ cr3 \in roots
      /\ tlb \subseteq Virt \X (Nat \ {0}) /\ \A t \in tlb : vmm_get_phys(mem, cr3, t[1]) = t[2]
  BY DEF IInv, Sound, State, Coherent
<1>3. PICK level : Levelled(mem, free, roots, level)
  BY DEF IInv, Sound, State
<1>4. vmm_get_phys(mem, cr3, v) \in Nat
  <2> DEFINE a == mem[cr3][Index(v, 3)]
             b == mem[a][Index(v, 2)]
             c == mem[b][Index(v, 1)]
  <2>1. /\ cr3 \in Frames /\ level[cr3] = 0
        /\ a # 0 => a \in Frames /\ level[a] = 1
        /\ a # 0 /\ b # 0 => b \in Frames /\ level[b] = 2
        /\ a # 0 /\ b # 0 /\ c # 0 => c \in Frames /\ level[c] = 3
    <3>1. WayDown(mem, level, cr3, v)
      BY <1>2, <1>3, WalkLevels
    <3> QED  BY <3>1, Zenon DEF WayDown
  <2>2. vmm_get_phys(mem, cr3, v) = IF a = 0 \/ b = 0 \/ c = 0 THEN 0 ELSE mem[c][Index(v, 0)]
    BY Zenon DEF vmm_get_phys, PageTable
  <2>3. mem \in [Frames -> [Slots -> Nat]] /\ Index(v, 0) \in Slots
    BY <1>3, IndexType DEF Levelled
  <2> HIDE DEF a, b, c
  <2> QED  BY <2>1, <2>2, <2>3
<1>5. e \in Virt \X (Nat \ {0}) /\ e[1] = v /\ e[2] = vmm_get_phys(mem, cr3, v)
  BY <1>1, <1>4
<1> HIDE DEF e
<1>6. tlb' \subseteq Virt \X (Nat \ {0}) /\ \A t \in tlb' : vmm_get_phys(mem, cr3, t[1]) = t[2]
  BY <1>1, <1>2, <1>5
<1> QED  BY <1>1, <1>2, <1>3, <1>6 DEF IInv, Sound, State, Coherent

LEMMA NextInvariant == IInv /\ [Next]_vars => IInv'
<1> SUFFICES ASSUME IInv, [Next]_vars PROVE IInv'
  OBVIOUS
<1>1. ASSUME NEW r \in roots, NEW v \in Virt,
             \/ unmap_page(r, v)
             \/ \E phys \in Phys : map_page(r, v, phys)
             \/ \E length \in Lengths :
                  /\ v .. v + length - 1 \subseteq Virt
                  /\ \/ vmm_unmap_range(r, v, length)
                     \/ \E phys \in Phys : vmm_map_range(r, v, phys, length)
      PROVE  IInv'
  BY <1>1, PageOperations
<1>2. CASE vmm_create_pml4
  BY <1>2, CreateKeeps
<1>3. ASSUME NEW r \in roots, vmm_switch(r) PROVE IInv'
  BY <1>3, SwitchKeeps
<1>4. ASSUME NEW v \in Virt, Access(v) PROVE IInv'
  BY <1>4, AccessKeeps
<1>5. CASE UNCHANGED vars
  BY <1>5 DEF IInv, Sound, State, Coherent, vars
<1> QED  BY <1>1, <1>2, <1>3, <1>4, <1>5 DEF Next

THEOREM Invariant == Spec => []IInv
BY InitInvariant, NextInvariant, PTL DEF Spec

-----------------------------------------------------------------------------
(* What follows from it.                                                   *)

\* The sets of tables that the properties name are the levels.
LEMMA LevelsAre ==
  ASSUME NEW level, Levelled(mem, free, roots, level)
  PROVE  /\ roots = {t \in Frames : level[t] = 0}
         /\ Pdpts = {t \in Frames : level[t] = 1}
         /\ Pds = {t \in Frames : level[t] = 2}
         /\ Pts = {t \in Frames : level[t] = 3}
<1>1. /\ level \in [Frames -> 0 .. 4] /\ roots = {t \in Frames : level[t] = 0}
      /\ LinksDown(mem, level) /\ SomeParent(mem, level) /\ 0 \notin Frames
  BY VmmAssumption DEF Levelled
<1>2. ASSUME NEW l \in 0 .. 2, NEW tables, tables = {t \in Frames : level[t] = l}
      PROVE  Targets(tables) = {t \in Frames : level[t] = l + 1}
  <2>1. ASSUME NEW t \in Targets(tables) PROVE t \in Frames /\ level[t] = l + 1
    <3>1. PICK u \in tables, i \in Slots : t = mem[u][i] /\ t # 0
      BY <2>1 DEF Targets, Slots
    <3> QED  BY <1>1, <1>2, <3>1 DEF LinksDown
  <2>2. ASSUME NEW t \in Frames, level[t] = l + 1 PROVE t \in Targets(tables)
    <3>1. PICK u \in Frames, i \in Slots : level[u] = level[t] - 1 /\ mem[u][i] = t
      BY <1>1, <2>2 DEF SomeParent
    <3> QED  BY <1>1, <1>2, <2>2, <3>1 DEF Targets, Slots
  <2> QED  BY <2>1, <2>2
<1>3. Pdpts = {t \in Frames : level[t] = 1}
  BY <1>1, <1>2, 0 \in 0 .. 2, 0 + 1 = 1 DEF Pdpts
<1>4. Pds = {t \in Frames : level[t] = 2}
  BY <1>2, <1>3, 1 \in 0 .. 2, 1 + 1 = 2 DEF Pds
<1>5. Pts = {t \in Frames : level[t] = 3}
  BY <1>2, <1>4, 2 \in 0 .. 2, 2 + 1 = 3 DEF Pts
<1> QED  BY <1>1, <1>3, <1>4, <1>5

\* Each level of a walk holds what belongs there, whatever calls were made.
THEOREM TypeCorrect == Spec => []TypeOK
<1>1. IInv => TypeOK
  <2> SUFFICES ASSUME IInv PROVE TypeOK
    OBVIOUS
  <2>1. PICK level : Levelled(mem, free, roots, level)
    BY DEF IInv, Sound, State
  <2>2. /\ mem \in [Frames -> [Slots -> Nat]] /\ free \subseteq PoolFrames
        /\ \A t \in Frames, i \in Slots : level[t] = 3 => mem[t][i] \notin Frames
    BY <2>1 DEF Levelled
  <2>3. /\ roots \subseteq Frames /\ Pdpts \subseteq Frames /\ Pds \subseteq Frames
        /\ Pts = {t \in Frames : level[t] = 3}
    BY <2>1, LevelsAre
  <2>4. Targets(Pts) \subseteq Nat \ Frames
    <3> SUFFICES ASSUME NEW e \in Targets(Pts) PROVE e \in Nat \ Frames
      OBVIOUS
    <3>1. PICK t \in Pts, i \in Slots : e = mem[t][i]
      BY DEF Targets, Slots
    <3> QED  BY <2>2, <2>3, <3>1
  <2>5. cr3 \in roots /\ tlb \subseteq Virt \X (Nat \ {0})
    BY DEF IInv, Coherent, State
  <2> QED  BY <2>2, <2>3, <2>4, <2>5 DEF TypeOK
<1> QED  BY <1>1, Invariant, PTL

\* No table is lost, shared by accident or free while in use.
THEOREM Ownership == Spec => []TablesOwned
<1>1. IInv => TablesOwned
  <2> SUFFICES ASSUME IInv PROVE TablesOwned
    OBVIOUS
  <2>1. PICK level : Levelled(mem, free, roots, level)
    BY DEF IInv, Sound, State
  <2>2. /\ level \in [Frames -> 0 .. 4] /\ free \subseteq PoolFrames /\ free = {t \in Frames : level[t] = 4}
        /\ LinksDown(mem, level) /\ OneParent(mem, level) /\ SomeParent(mem, level)
        /\ \A r \in roots, s \in CopiedSlots : mem[r][s] = BootTable[s]
    BY <2>1 DEF Levelled
  <2>3. /\ roots = {t \in Frames : level[t] = 0} /\ Pdpts = {t \in Frames : level[t] = 1}
        /\ Pds = {t \in Frames : level[t] = 2} /\ Pts = {t \in Frames : level[t] = 3}
    BY <2>1, LevelsAre
  <2> DEFINE used == roots \cup Pdpts \cup Pds \cup Pts
  <2>4. used = Frames \ free
    BY <2>2, <2>3
  <2>5. used = BootFrames \cup (PoolFrames \ free)
    BY <2>2, <2>4, VmmAssumption DEF Frames
  <2>6. \A f, u, i : <<u, i>> \in Parents(f) <=> u \in Frames /\ level[u] \in 0 .. 2 /\ i \in Slots /\ mem[u][i] = f
    BY <2>2, <2>3 DEF Parents, Slots
  <2>7. \A f : \A e \in Parents(f) : e = <<e[1], e[2]>>
    BY DEF Parents
  <2>8. \A r \in roots : Parents(r) = {}
    <3> SUFFICES ASSUME NEW r \in roots, NEW e \in Parents(r) PROVE FALSE
      OBVIOUS
    <3>1. e[1] \in Frames /\ level[e[1]] \in 0 .. 2 /\ e[2] \in Slots /\ mem[e[1]][e[2]] = r
      BY <2>6, <2>7
    <3>2. level[r] = 0 /\ r # 0
      BY <2>3, VmmAssumption
    <3> QED  BY <2>2, <3>1, <3>2 DEF LinksDown
  <2>9. ASSUME NEW f \in used \ roots
        PROVE  Cardinality(Parents(f)) = 1 \/ \E s \in CopiedSlots : Parents(f) = roots \X {s}
    <3>1. f \in Frames /\ level[f] \in 1 .. 3 /\ f # 0
      BY <2>2, <2>3, <2>4, VmmAssumption
    <3>2. PICK u \in Frames, i \in Slots : level[u] = level[f] - 1 /\ mem[u][i] = f
      BY <2>2, <3>1 DEF SomeParent
    <3>3. level[u] \in 0 .. 2 /\ <<u, i>> \in Parents(f)
      BY <2>6, <3>1, <3>2
    <3>4. ASSUME NEW e \in Parents(f)
          PROVE  e[2] = i /\ (e[1] = u \/ (level[e[1]] = 0 /\ level[u] = 0 /\ i \in CopiedSlots))
      <4>1. e[1] \in Frames /\ level[e[1]] \in 0 .. 2 /\ e[2] \in Slots /\ mem[e[1]][e[2]] = f
        BY <2>6, <2>7
      <4> QED  BY <2>2, <3>1, <3>2, <3>3, <4>1 DEF OneParent
    <3>5. CASE level[u] = 0 /\ i \in CopiedSlots
      <4>1. \A e \in Parents(f) : e \in roots \X {i}
        BY <2>3, <2>6, <2>7, <3>4, <3>5
      <4>2. \A r \in roots : <<r, i>> \in Parents(f)
        BY <2>2, <2>3, <2>6, <3>2, <3>5
      <4>3. Parents(f) = roots \X {i}
        BY <4>1, <4>2
      <4> QED  BY <3>5, <4>3
    <3>6. CASE ~ (level[u] = 0 /\ i \in CopiedSlots)
      <4>1. Parents(f) = {<<u, i>>}
        BY <2>7, <3>3, <3>4, <3>6
      <4> QED  BY <4>1, FS_Singleton
    <3> QED  BY <3>5, <3>6
  <2> QED  BY <2>5, <2>8, <2>9 DEF TablesOwned
<1> QED  BY <1>1, Invariant, PTL

\* Every address space has the boot loader's kernel tables.
THEOREM SharedSlots == Spec => []SharedSlotsAgree
<1>1. IInv => SharedSlotsAgree
  BY DEF IInv, Sound, State, Levelled, SharedSlotsAgree
<1> QED  BY <1>1, Invariant, PTL

\* invlpg of the changed page, and mov cr3, are enough: no stale translation.
THEOREM Coherence == Spec => []TlbCoherent
<1>1. IInv => TlbCoherent
  BY DEF IInv, Coherent, State, TlbCoherent
<1> QED  BY <1>1, Invariant, PTL

\* With three frames left map_page maps.
THEOREM Served == Spec => MapServed
<1>1. ASSUME IInv, NEW r \in roots, NEW v \in Virt, NEW p \in Phys,
             map_page(r, v, p), Cardinality(free) >= 3
      PROVE  vmm_get_phys(mem', r, v) = p
  <2>1. Sound(State, roots) /\ State.mem = mem /\ State.free = free /\ p \in Nat \ Frames
    BY <1>1, VmmAssumption DEF IInv, State
  <2>2. Updated(mem, Mapped(State, r, v, p).mem, roots, r, v, p)
    BY <1>1, <2>1, MappedEffect
  <2> QED  BY <1>1, <2>2 DEF Updated, Hits, map_page, Becomes
<1>2. IInv /\ [Next]_vars =>
        [\A pml4 \in roots, virt \in Virt, phys \in Phys :
           map_page(pml4, virt, phys) /\ Cardinality(free) >= 3
             => vmm_get_phys(mem', pml4, virt) = phys]_vars
  BY <1>1
<1> QED  BY <1>2, Invariant, PTL DEF MapServed, Spec

-----------------------------------------------------------------------------
(* The page tables implement address spaces.                               *)

\* The boot loader maps no page of ours.
LEMMA InitRefines == Init => AS!Init
<1> SUFFICES ASSUME Init PROVE AS!Init
  OBVIOUS
<1>1. ASSUME NEW v \in Virt PROVE vmm_get_phys(mem, Boot, v) = 0
  <2>1. Index(v, 3) \in 0 .. Fan - 1 /\ Index(v, 2) \in 0 .. Fan - 1
    BY IndexType DEF Slots
  <2>2. Boot \in Frames /\ Boot \notin PoolFrames
    BY VmmAssumption DEF Frames, BootFrames
  <2>3. mem[Boot][Index(v, 3)] = IF Index(v, 3) \in CopiedSlots THEN BootTable[Index(v, 3)] ELSE 0
    BY <2>1, <2>2 DEF Init
  <2>4. ASSUME Index(v, 3) \in CopiedSlots
        PROVE  mem[BootTable[Index(v, 3)]][Index(v, 2)] = 0
    <3>1. BootTable[Index(v, 3)] \in BootFrames /\ BootTable[Index(v, 3)] # Boot
      BY <2>4, VmmAssumption DEF BootFrames
    <3>2. BootTable[Index(v, 3)] \in Frames /\ BootTable[Index(v, 3)] \notin PoolFrames
      BY <3>1, VmmAssumption DEF Frames
    <3> QED  BY <2>1, <3>1, <3>2 DEF Init
  <2> QED  BY <2>3, <2>4 DEF vmm_get_phys, PageTable
<1>2. View(Boot, KernelVirt) = [v \in KernelVirt |-> 0]
  BY <1>1 DEF View, KernelVirt
<1>3. View(Boot, UserVirt) = [v \in UserVirt |-> 0]
  BY <1>1 DEF View, UserVirt
<1>4. roots = {Boot} /\ cr3 = Boot /\ Boot \in Frames
  BY VmmAssumption DEF Init, Frames, BootFrames
<1>5. [r \in roots |-> View(r, UserVirt)] = [t \in {Boot} |-> [v \in UserVirt |-> 0]]
  BY <1>3, <1>4
<1> QED  BY <1>2, <1>4, <1>5 DEF AS!Init, AS!Nothing

\* A page operation changes the pages it names, in the space it is given or in the
\* common part.
LEMMA UpdateRefines ==
  ASSUME IInv, NEW r \in roots, NEW new, UpdatedBy(mem, mem', roots, r, new), UNCHANGED <<roots, cr3>>
  PROVE  AS!Update(r, new)
<1>1. Boot \in roots
  BY DEF IInv
<1>2. \A u \in roots, w \in Virt :
        vmm_get_phys(mem', u, w) =
          IF w \in DOMAIN new /\ (u = r \/ Index(w, 3) \in CopiedSlots)
          THEN new[w] ELSE vmm_get_phys(mem, u, w)
  BY DEF UpdatedBy
<1>3. View(Boot, KernelVirt)' = [v \in KernelVirt |->
        IF v \in DOMAIN new THEN new[v] ELSE View(Boot, KernelVirt)[v]]
  BY <1>1, <1>2 DEF View, KernelVirt
<1>4. ASSUME NEW u \in roots, u # r PROVE View(u, UserVirt)' = View(u, UserVirt)
  BY <1>2, <1>4 DEF View, UserVirt, KernelVirt
<1>5. View(r, UserVirt)' = [v \in UserVirt |->
        IF v \in DOMAIN new THEN new[v] ELSE View(r, UserVirt)[v]]
  BY <1>2 DEF View, UserVirt, KernelVirt
<1> DEFINE user == [u \in roots |-> View(u, UserVirt)]
<1>6. user' = [user EXCEPT ![r] = [v \in UserVirt |->
        IF v \in DOMAIN new THEN new[v] ELSE user[r][v]]]
  <2>1. user' = [u \in roots |-> View(u, UserVirt)']
    OBVIOUS
  <2>2. user[r] = View(r, UserVirt)
    OBVIOUS
  <2> QED  BY <1>4, <1>5, <2>1, <2>2
<1> QED  BY <1>3, <1>6 DEF AS!Update

LEMMA NextRefines == IInv /\ [Next]_vars => [AS!Next]_(AS!vars)
<1> SUFFICES ASSUME IInv, [Next]_vars PROVE [AS!Next]_(AS!vars)
  OBVIOUS
<1> DEFINE user == [u \in roots |-> View(u, UserVirt)]
<1>1. ASSUME NEW r \in roots, NEW v \in Virt,
             \/ unmap_page(r, v)
             \/ \E phys \in Phys : map_page(r, v, phys)
             \/ \E length \in Lengths :
                  /\ v .. v + length - 1 \subseteq Virt
                  /\ \/ vmm_unmap_range(r, v, length)
                     \/ \E phys \in Phys : vmm_map_range(r, v, phys, length)
      PROVE  AS!Next
  <2>1. UNCHANGED <<roots, cr3>> /\ \E new : Written(new) /\ UpdatedBy(mem, mem', roots, r, new)
    BY <1>1, PageOperations
  <2>2. PICK new : Written(new) /\ UpdatedBy(mem, mem', roots, r, new)
    BY <2>1
  <2>3. AS!Update(r, new)
    BY <2>1, <2>2, UpdateRefines
  <2>4. Virt = KernelVirt \cup UserVirt /\ r \in DOMAIN user
    BY DEF KernelVirt, UserVirt
  <2> HIDE DEF user
  <2>5. PICK w \in Virt, n \in Lengths \cup {1} :
          \/ new = Zeroed(w, n)
          \/ \E p \in Phys, offsets \in SUBSET (0 .. n - 1) : new = Assigned(w, p, offsets)
    BY <2>2 DEF Written
  <2>6. CASE new = Zeroed(w, n)
    <3>1. AS!Unmap(r, w, n)
      BY <2>3, <2>6 DEF AS!Unmap, Zeroed
    <3> QED  BY <2>4, <3>1 DEF AS!Next, user
  <2>7. ASSUME NEW p \in Phys, NEW offsets \in SUBSET (0 .. n - 1), new = Assigned(w, p, offsets)
        PROVE  AS!Next
    <3>1. AS!Map(r, w, p, n)
      BY <2>3, <2>7 DEF AS!Map, Assigned
    <3> QED  BY <2>4, <3>1 DEF AS!Next, user
  <2> QED  BY <2>5, <2>6, <2>7
<1>2. CASE vmm_create_pml4
  <2>1. PICK n \in free :
          /\ IInv' /\ n \notin roots /\ roots' = roots \cup {n} /\ UNCHANGED cr3
          /\ SameView(mem, mem', roots)
          /\ \A w \in Virt : vmm_get_phys(mem', n, w) =
               IF Index(w, 3) \in CopiedSlots THEN vmm_get_phys(mem, Boot, w) ELSE 0
    BY <1>2, CreateKeeps
  <2>2. n \in Frames /\ Boot \in roots
    BY DEF IInv, Sound, Levelled, State
  <2>3. \A u \in roots, w \in Virt : vmm_get_phys(mem', u, w) = vmm_get_phys(mem, u, w)
    BY <2>1 DEF SameView
  <2>4. View(Boot, KernelVirt)' = View(Boot, KernelVirt)
    BY <2>2, <2>3 DEF View, KernelVirt
  <2>5. \A u \in roots : View(u, UserVirt)' = View(u, UserVirt)
    BY <2>3 DEF View, UserVirt
  <2>6. View(n, UserVirt)' = [v \in UserVirt |-> 0]
    BY <2>1 DEF View, UserVirt, KernelVirt
  <2>7. user' = [t \in roots \cup {n} |-> IF t = n THEN [v \in UserVirt |-> 0] ELSE user[t]]
    <3>1. user' = [u \in roots \cup {n} |-> View(u, UserVirt)']
      BY <2>1
    <3>2. \A t \in roots \cup {n} :
            View(t, UserVirt)' = IF t = n THEN [v \in UserVirt |-> 0] ELSE user[t]
      BY <2>1, <2>5, <2>6
    <3> QED  BY <3>1, <3>2
  <2>8. AS!Create
    <3>1. DOMAIN user = roots /\ n \in Frames \ roots
      BY <2>1, <2>2
    <3> QED  BY <2>1, <2>4, <2>7, <3>1 DEF AS!Create, AS!Nothing
  <2> QED  BY <2>8 DEF AS!Next
<1>3. ASSUME NEW r \in roots, vmm_switch(r) PROVE AS!Next
  <2>1. UNCHANGED <<mem, roots>> /\ cr3' \in roots
    BY <1>3, SwitchKeeps
  <2>2. View(Boot, KernelVirt)' = View(Boot, KernelVirt) /\ user' = user
    BY <2>1 DEF View, KernelVirt, UserVirt
  <2>3. AS!Switch
    BY <2>1, <2>2 DEF AS!Switch
  <2> QED  BY <2>3 DEF AS!Next
<1>4. ASSUME UNCHANGED <<mem, roots, cr3>> PROVE UNCHANGED AS!vars
  BY <1>4 DEF AS!vars, View, KernelVirt, UserVirt
<1>5. ASSUME NEW v \in Virt, Access(v) PROVE UNCHANGED AS!vars
  BY <1>4, <1>5, AccessKeeps
<1>6. CASE UNCHANGED vars
  BY <1>4, <1>6 DEF vars
<1> HIDE DEF user
<1> QED  BY <1>1, <1>2, <1>3, <1>5, <1>6 DEF Next

\* vmm.c gives each address space its own pages and all of them the kernel's, and a
\* call changes no other page than those it names.
THEOREM Refinement == Spec => ImplementsSpaces
BY InitRefines, Invariant, NextRefines, PTL DEF Spec, ImplementsSpaces, AS!Spec
=============================================================================
