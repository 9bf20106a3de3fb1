----------------------------------- MODULE Vmm --------------------------------
(***************************************************************************)
(* The page tables, kernel/src/x86_64/allocator/vmm.c.  A virtual address  *)
(* is a page number, whose digits in base Fan (512) are the indices of the *)
(* four levels; a physical address is a frame number.  An entry is the     *)
(* frame it points to, or 0 when its present bit is clear; the other flags *)
(* are left out.  The processor is part of the model: it fills its         *)
(* translation buffer from the current tables whenever it likes.           *)
(***************************************************************************)
EXTENDS Integers, FiniteSets, FiniteSetsExt

CONSTANTS
  Fan,           \* entries of a table
  CopiedSlots,   \* PML4 slots that vmm_create_pml4 copies (256 and 511)
  Boot,          \* the PML4 the boot loader made
  BootTable,     \* copied slot -> the table the boot loader put there
  PoolFrames,    \* the frames frame_alloc can hand out
  Virt,          \* virtual pages that callers map
  Phys,          \* physical pages that callers map
  Lengths        \* pages of a range

BootFrames == {Boot} \cup {BootTable[s] : s \in CopiedSlots}
Frames == BootFrames \cup PoolFrames

ASSUME VmmAssumption ==
  /\ Fan \in Nat \ {0, 1} /\ CopiedSlots \subseteq 0 .. Fan - 1
  /\ Frames \cup Phys \subseteq Nat \ {0}
  /\ BootFrames \cap PoolFrames = {} /\ Frames \cap Phys = {}
  /\ \A s, t \in CopiedSlots : BootTable[s] # Boot /\ (BootTable[s] = BootTable[t] => s = t)
  /\ Virt \subseteq 0 .. Fan * Fan * Fan * Fan - 1
  /\ IsFiniteSet(PoolFrames) /\ Lengths \subseteq Nat
  /\ \A phys \in Phys, length \in Lengths : Frames \cap phys .. phys + length - 1 = {}

VARIABLES
  mem,      \* frame -> index -> entry, for every frame that may hold a table
  free,     \* what frame_alloc has left
  roots,    \* the PML4s
  cr3,      \* the one in use
  tlb       \* the processor's translations: <<virtual page, physical page>>

vars == <<mem, free, roots, cr3, tlb>>

\* The page number without the indices of the levels below.
Shifted(virt, level) ==
  CASE level = 0 -> virt
    [] level = 1 -> virt \div Fan
    [] level = 2 -> (virt \div Fan) \div Fan
    [] level = 3 -> ((virt \div Fan) \div Fan) \div Fan
Index(virt, level) == Shifted(virt, level) % Fan

\* frame_alloc returns the lowest frame (FrameAllocator, AllocatesLowest); alloc_table
\* clears it.
Cleared(m, frame) == [m EXCEPT ![frame] = [i \in 0 .. Fan - 1 |-> 0]]

\* One level of the walk of map_page, from s.table: an absent table is allocated
\* and linked, and table 0 stands for the early return when there is none.
Exhausted_Ignored(s) == s                       \* mutant: no return
Exhausted(s) == [s EXCEPT !.table = 0]
Descend(s, index) ==
  IF s.table = 0 \/ s.mem[s.table][index] # 0
  THEN [s EXCEPT !.table = IF s.table = 0 THEN 0 ELSE s.mem[s.table][index]]
  ELSE IF s.free = {} THEN Exhausted(s)
  ELSE LET new == Min(s.free)
       IN  [mem |-> [Cleared(s.mem, new) EXCEPT ![s.table][index] = new],
            free |-> s.free \ {new}, table |-> new]

\* invlpg
Invalidate_Never(buffer, virt) == buffer        \* mutant
Invalidate(buffer, virt) == {t \in buffer : t[1] # virt}

SetEntry_KeepsOld(m, table, index, phys) ==     \* mutant: a mapped page stays
  [m EXCEPT ![table][index] = IF @ = 0 THEN phys ELSE @]
SetEntry(m, table, index, phys) == [m EXCEPT ![table][index] = phys]

\* What map_page makes of [mem, free, tlb].
Mapped(s, pml4, virt, phys) ==
  LET start == [mem |-> s.mem, free |-> s.free, table |-> pml4]
      walk  == Descend(Descend(Descend(start, Index(virt, 3)), Index(virt, 2)), Index(virt, 1))
  IN  IF walk.table = 0
      THEN [mem |-> walk.mem, free |-> walk.free, tlb |-> s.tlb]
      ELSE [mem |-> SetEntry(walk.mem, walk.table, Index(virt, 0), phys),
            free |-> walk.free, tlb |-> Invalidate(s.tlb, virt)]

\* The page table of a page, or 0.
PageTable(m, pml4, virt) ==
  LET pdpt == m[pml4][Index(virt, 3)]
      pd   == m[pdpt][Index(virt, 2)]
  IN  IF pdpt = 0 THEN 0 ELSE IF pd = 0 THEN 0 ELSE m[pd][Index(virt, 1)]

vmm_get_phys(m, pml4, virt) ==
  LET pt == PageTable(m, pml4, virt) IN IF pt = 0 THEN 0 ELSE m[pt][Index(virt, 0)]

\* What unmap_page makes of it.
Unset(m, pt, virt) == [m EXCEPT ![pt][Index(virt, 0)] = 0]
Unmapped(s, pml4, virt) ==
  LET pt == PageTable(s.mem, pml4, virt)
  IN  IF pt = 0 THEN s
      ELSE [s EXCEPT !.mem = Unset(s.mem, pt, virt), !.tlb = Invalidate(s.tlb, virt)]

State == [mem |-> mem, free |-> free, tlb |-> tlb]
Becomes(s) == mem' = s.mem /\ free' = s.free /\ tlb' = s.tlb /\ UNCHANGED <<roots, cr3>>

map_page(pml4, virt, phys) == Becomes(Mapped(State, pml4, virt, phys))
unmap_page(pml4, virt) == Becomes(Unmapped(State, pml4, virt))

\* The ranges go on behind a page that failed.
vmm_map_range_OneFrame(pml4, virt, phys, length) ==     \* mutant: phys does not advance
  LET done[k \in 0 .. length] ==
        IF k = 0 THEN State ELSE LET s == done[k - 1] IN Mapped(s, pml4, virt + k - 1, phys)
  IN  Becomes(done[length])
vmm_map_range(pml4, virt, phys, length) ==
  LET done[k \in 0 .. length] ==
        IF k = 0 THEN State
        ELSE LET s == done[k - 1] IN Mapped(s, pml4, virt + k - 1, phys + k - 1)
  IN  Becomes(done[length])

vmm_unmap_range(pml4, virt, length) ==
  LET done[k \in 0 .. length] ==
        IF k = 0 THEN State ELSE LET s == done[k - 1] IN Unmapped(s, pml4, virt + k - 1)
  IN  Becomes(done[length])

Copied_High == {Max(CopiedSlots)}               \* mutant: only the kernel's own
Copied_All == 0 .. Fan - 1                      \* mutant: the user's slots as well
Copied == CopiedSlots
vmm_create_pml4 ==
  /\ free # {}
  /\ LET new == Min(free)
         m   == Cleared(mem, new)
     IN  /\ mem' = [m EXCEPT ![new] = [i \in 0 .. Fan - 1 |-> IF i \in Copied THEN mem[cr3][i] ELSE @[i]]]
         /\ free' = free \ {new}
         /\ roots' = roots \cup {new}
  /\ UNCHANGED <<cr3, tlb>>

\* Loading cr3 empties the translation buffer.
vmm_switch(pml4) ==
  /\ cr3' = pml4
  /\ tlb' = {}
  /\ UNCHANGED <<mem, free, roots>>

\* The processor uses a page.
Access(virt) ==
  /\ vmm_get_phys(mem, cr3, virt) # 0
  /\ tlb' = tlb \cup {<<virt, vmm_get_phys(mem, cr3, virt)>>}
  /\ UNCHANGED <<mem, free, roots, cr3>>

\* A frame that is not in use yet holds anything, here links to a boot table.
Init ==
  /\ mem = [f \in Frames |-> [i \in 0 .. Fan - 1 |->
              IF f = Boot /\ i \in CopiedSlots THEN BootTable[i]
              ELSE IF f \in PoolFrames THEN Boot ELSE 0]]
  /\ free = PoolFrames
  /\ roots = {Boot}
  /\ cr3 = Boot
  /\ tlb = {}

Next ==
  \/ \E pml4 \in roots, virt \in Virt :
       \/ unmap_page(pml4, virt)
       \/ \E phys \in Phys : map_page(pml4, virt, phys)
       \/ \E length \in Lengths :
            /\ virt .. virt + length - 1 \subseteq Virt
            /\ \/ vmm_unmap_range(pml4, virt, length)
               \/ \E phys \in Phys : vmm_map_range(pml4, virt, phys, length)
  \/ vmm_create_pml4
  \/ \E pml4 \in roots : vmm_switch(pml4)
  \/ \E virt \in Virt : Access(virt)

Spec == Init /\ [][Next]_vars

-----------------------------------------------------------------------------
\* The tables of each level: the PML4s, then what their entries point to.
Targets(tables) == {mem[t][i] : t \in tables, i \in 0 .. Fan - 1} \ {0}
Pdpts == Targets(roots)
Pds == Targets(Pdpts)
Pts == Targets(Pds)

\* Every level of a walk holds what belongs there: tables above, pages below.
TypeOK ==
  /\ DOMAIN mem = Frames /\ free \subseteq PoolFrames /\ cr3 \in roots
  /\ roots \cup Pdpts \subseteq Frames /\ Pds \subseteq Frames /\ Pts \subseteq Frames
  /\ Targets(Pts) \subseteq Nat \ Frames
  /\ tlb \subseteq Virt \X (Nat \ {0})

\* Each table hangs on one entry of one table, but for the slots that all PML4s
\* share; none is free; and a walk that failed half way lost no frame.
Parents(f) == {e \in (roots \cup Pdpts \cup Pds) \X (0 .. Fan - 1) : mem[e[1]][e[2]] = f}
TablesOwned ==
  LET used == roots \cup Pdpts \cup Pds \cup Pts
  IN  /\ used = BootFrames \cup (PoolFrames \ free)
      /\ \A r \in roots : Parents(r) = {}
      /\ \A f \in used \ roots :
           \/ Cardinality(Parents(f)) = 1
           \/ \E s \in CopiedSlots : Parents(f) = roots \X {s}

\* What the code maps in a shared slot, it maps in every address space: the slots
\* were filled before the first copy and their entries never change.
SharedSlotsAgree == \A r \in roots, s \in CopiedSlots : mem[r][s] = BootTable[s]

\* The processor never holds a translation that the current tables no longer have,
\* whichever PML4 the change went through.
TlbCoherent == \A t \in tlb : vmm_get_phys(mem, cr3, t[1]) = t[2]

\* map_page fails only for want of a frame for one of its three tables.
MapServed ==
  [][\A pml4 \in roots, virt \in Virt, phys \in Phys :
       map_page(pml4, virt, phys) /\ Cardinality(free) >= 3
         => vmm_get_phys(mem', pml4, virt) = phys]_vars

\* The page tables implement address spaces with a common kernel part.
KernelVirt == {v \in Virt : Index(v, 3) \in CopiedSlots}
UserVirt == Virt \ KernelVirt
View(pml4, pages) == [v \in pages |-> vmm_get_phys(mem, pml4, v)]
AS == INSTANCE AddressSpaces WITH
  Spaces <- Frames,
  kernel <- View(Boot, KernelVirt),
  user <- [r \in roots |-> View(r, UserVirt)],
  current <- cr3,
  Lengths <- Lengths \cup {1}
ImplementsSpaces == AS!Spec
=============================================================================
