------------------------- MODULE FrameAllocatorProofs -------------------------
(***************************************************************************)
(* The frame allocator is correct for every memory map, word width and     *)
(* reserved prefix.  The inductive invariant is TypeOK, the soundness of   *)
(* the search hint and the accounting of the bits: the hint alone makes    *)
(* the first pass of the search complete, and the accounting says that a   *)
(* clear bit is usable memory nobody holds.                                *)
(***************************************************************************)
EXTENDS FrameAllocator, NatLemmas

Handed == UsableFrames \ 0 .. Reserved - 1

\* The end of memory is the end of a usable region, and no usable region passes it.
LEMMA MemoryEnd ==
  /\ total_frames \in Nat \ {0}
  /\ \A i \in UsableRegions : Top(i) \in Nat /\ Top(i) <= total_frames
<1> DEFINE Tops == {Top(i) : i \in UsableRegions}
<1>1. \A i \in DOMAIN MemMap :
        /\ MemMap[i].base \in Nat
        /\ MemMap[i].length \in Nat \ {0}
        /\ Top(i) \in Nat \ {0}
  <2> DEFINE Region == [usable : BOOLEAN, base : Nat, length : Nat \ {0}]
  <2>1. MemMap \in Seq(Region)
    BY MemMapAssumption
  <2>2. ASSUME NEW i \in DOMAIN MemMap
        PROVE  MemMap[i] \in Region
    <3> HIDE DEF Region
    <3> QED BY <2>1
  <2>3. ASSUME NEW i \in DOMAIN MemMap
        PROVE  /\ MemMap[i].base \in Nat
               /\ MemMap[i].length \in Nat \ {0}
               /\ Top(i) \in Nat \ {0}
    <3>1. MemMap[i].base \in Nat /\ MemMap[i].length \in Nat \ {0}
      BY <2>2
    <3>2. \A b \in Nat, l \in Nat \ {0} : b + l \in Nat \ {0}
      OBVIOUS
    <3> QED BY <3>1, <3>2 DEF Top
  <2> QED BY <2>3
<1>2. Tops \in SUBSET Nat /\ Tops # {}
  BY <1>1, MemMapAssumption DEF UsableRegions
<1>3. \E b \in Nat : \A t \in Tops : t <= b
  <2> DEFINE f == [i \in 1 .. Len(MemMap) |-> Top(i)]
  <2>1. DOMAIN MemMap = 1 .. Len(MemMap) /\ Len(MemMap) \in Nat
    BY MemMapAssumption
  <2>2. f \in [1 .. Len(MemMap) -> Nat]
    BY <1>1, <2>1
  <2>3. PICK b \in Nat : \A i \in 1 .. Len(MemMap) : f[i] <= b
    <3> HIDE DEF f
    <3> QED BY <2>1, <2>2, BoundOfFamily
  <2> QED BY <2>1, <2>3 DEF UsableRegions
<1>4. \E m \in Tops : \A t \in Tops : t <= m
  <2> HIDE DEF Tops
  <2> QED BY <1>2, <1>3, GreatestNat
<1>5. /\ total_frames \in Tops
      /\ \A i \in UsableRegions : Top(i) <= total_frames
  BY <1>4 DEF total_frames, highest_addr
<1> QED BY <1>1, <1>2, <1>5 DEF UsableRegions

\* The bitmap covers memory, and usable frames are frames of memory.
LEMMA Coverage ==
  /\ words \in Nat
  /\ total_frames <= words * WordBits
  /\ Bits \in SUBSET Nat
  /\ UsableFrames \in SUBSET Bits
  /\ \A f \in UsableFrames : f < total_frames
  /\ 0 .. Reserved - 1 \in SUBSET Bits
<1>1. words \in Nat /\ total_frames < words * WordBits + 1
  <2>1. total_frames + WordBits - 1 \in Nat
    BY MemoryEnd, ConstantsAssumption
  <2> QED BY <2>1, MemoryEnd, ConstantsAssumption, DivBracket DEF words
<1>2. words * WordBits \in Nat
  BY <1>1, ConstantsAssumption
<1>3. \A f \in UsableFrames : f \in Nat /\ f < total_frames
  BY MemoryEnd DEF UsableFrames
<1>4. Bits \in SUBSET Nat
  BY <1>2 DEF Bits
<1>5. total_frames <= words * WordBits
  BY <1>1, <1>2, MemoryEnd
<1>6. UsableFrames \in SUBSET Bits
  BY <1>2, <1>3, <1>5, MemoryEnd DEF Bits
<1>7. 0 .. Reserved - 1 \in SUBSET Bits
  BY <1>2, ReservedAssumption, ConstantsAssumption DEF Bits
<1> QED BY <1>1, <1>3, <1>4, <1>5, <1>6, <1>7

\* The word of a frame that has a bit is a word of the bitmap.
LEMMA WordOfBit ==
  /\ \A f \in Bits : f \in Nat /\ BITMAP_WORD(f) \in 0 .. words - 1
  /\ \A f, g \in Bits : f <= g => BITMAP_WORD(f) <= BITMAP_WORD(g)
<1>1. ASSUME NEW f \in Bits
      PROVE  f \in Nat /\ BITMAP_WORD(f) \in 0 .. words - 1
  <2>1. f \in Nat /\ f < words * WordBits /\ words \in Nat
    BY Coverage, ConstantsAssumption DEF Bits
  <2> QED BY <2>1, ConstantsAssumption, DivBracket, DivBelow DEF BITMAP_WORD
<1>2. ASSUME NEW f \in Bits, NEW g \in Bits, f <= g
      PROVE  BITMAP_WORD(f) <= BITMAP_WORD(g)
  BY <1>1, <1>2, ConstantsAssumption, DivMonotone DEF BITMAP_WORD
<1> QED BY <1>1, <1>2

IInv == TypeOK /\ HintSound /\ HeldMarked

\* What the search returns when the hint is sound: the lowest clear bit, found in
\* the first pass; and something whenever a bit is clear.
LEMMA Search ==
  ASSUME IInv
  PROVE  /\ \A f \in Found : f \in Clear /\ \A g \in Clear : f <= g
         /\ Found = {} => Clear = {}
<1>1. Clear \in SUBSET Bits /\ Clear \in SUBSET Nat /\ \A f \in Clear : f < total_frames
  BY Coverage DEF IInv, HeldMarked, Clear
<1>2. \A f \in Clear : BITMAP_WORD(f) \in last_free_word .. words - 1
  BY <1>1, WordOfBit, Coverage DEF IInv, TypeOK, HintSound
<1>3. \A f \in Clear : BITMAP_WORD(f) \notin 0 .. last_free_word - 1
  BY <1>2, Coverage DEF IInv, TypeOK
<1>4. Scan(0, last_free_word) = {}
  BY <1>3 DEF Scan
<1>5. Scan(last_free_word, words) = {f \in Clear : \A g \in Clear : f <= g}
  BY <1>1, <1>2 DEF Scan
<1>6. Clear # {} => Scan(last_free_word, words) # {}
  BY <1>1, <1>5, LeastNat
<1> QED BY <1>4, <1>5, <1>6 DEF Found

LEMMA InitIInv == Init => IInv
<1> SUFFICES ASSUME Init PROVE IInv
  OBVIOUS
<1>1. Clear = Handed
  BY Coverage DEF Init, Clear, Handed
<1>2. TypeOK
  <2>1. 0 \in Bits
    BY Coverage, ConstantsAssumption
  <2> QED BY <2>1, Coverage DEF Init, TypeOK, NULL
<1>3. HintSound
  BY <1>1, WordOfBit, Coverage DEF Init, HintSound, Handed
<1>4. HeldMarked
  BY <1>1 DEF Init, HeldMarked, Handed
<1> QED BY <1>2, <1>3, <1>4 DEF IInv

LEMMA NextIInv == IInv /\ [Next]_vars => IInv'
<1> SUFFICES ASSUME IInv, [Next]_vars PROVE IInv'
  OBVIOUS
<1>1. CASE frame_alloc
  <2>1. ASSUME NEW f \in Found,
               bit_map' = bit_map \cup {f}, last_free_word' = BITMAP_WORD(f),
               held' = held \cup {f}, ret' = f
        PROVE  IInv'
    <3>1. f \in Clear /\ f \in Bits /\ \A g \in Clear : f <= g
      BY Search DEF Clear
    <3>2. Clear' = Clear \ {f}
      BY <2>1, <3>1 DEF Clear
    <3>3. TypeOK'
      BY <2>1, <3>1, WordOfBit, Coverage DEF IInv, TypeOK
    <3>4. HintSound'
      BY <2>1, <3>1, <3>2, WordOfBit DEF HintSound, Clear, BITMAP_WORD
    <3>5. HeldMarked'
      BY <2>1, <3>1, <3>2 DEF IInv, HeldMarked
    <3> QED BY <3>3, <3>4, <3>5 DEF IInv
  <2>2. ASSUME ret' = NULL, UNCHANGED <<bit_map, last_free_word, held>>
        PROVE  IInv'
    <3>1. 0 \in Bits
      BY Coverage, ConstantsAssumption
    <3> QED BY <2>2, <3>1 DEF IInv, TypeOK, HintSound, HeldMarked, Clear, NULL
  <2> QED BY <1>1, <2>1, <2>2 DEF frame_alloc
<1>2. ASSUME NEW frame \in held, frame_free(frame) PROVE IInv'
  <2>1. frame \in Bits /\ BITMAP_WORD(frame) \in 0 .. words - 1
    BY WordOfBit DEF IInv, TypeOK
  <2>2. Clear' = Clear \cup {frame} /\ held' = held \ {frame}
    BY <1>2, <2>1 DEF frame_free, Clear
  <2>3. TypeOK'
    BY <1>2, <2>1, Coverage DEF frame_free, IInv, TypeOK
  <2>4. HintSound'
    <3>1. last_free_word' <= last_free_word /\ last_free_word' <= BITMAP_WORD(frame)
      BY <1>2, <2>1, Coverage DEF frame_free, IInv, TypeOK
    <3>2. last_free_word' \in Nat /\ last_free_word \in Nat
      BY <2>3, Coverage DEF IInv, TypeOK
    <3>3. \A g \in Clear : BITMAP_WORD(g) \in Nat /\ last_free_word <= BITMAP_WORD(g)
      BY WordOfBit, Coverage DEF IInv, HintSound, Clear
    <3> QED BY <2>1, <2>2, <3>1, <3>2, <3>3 DEF HintSound, BITMAP_WORD
  <2>5. HeldMarked'
    BY <1>2, <2>2 DEF IInv, HeldMarked
  <2> QED BY <2>3, <2>4, <2>5 DEF IInv
<1>3. CASE UNCHANGED vars
  BY <1>3 DEF vars, IInv, TypeOK, HintSound, HeldMarked, Clear
<1> QED BY <1>1, <1>2, <1>3 DEF Next

LEMMA Invariance == Spec => []IInv
  BY InitIInv, NextIInv, PTL DEF Spec

\* The state stays well typed: the hint is a word index, never a frame number.
THEOREM TypeCorrect == Spec => []TypeOK
<1>1. IInv => TypeOK
  BY DEF IInv
<1> QED BY <1>1, Invariance, PTL

\* No clear bit lies below the cached word, whatever sequence of frame_alloc and
\* frame_free moved it.
THEOREM HintIsSound == Spec => []HintSound
<1>1. IInv => HintSound
  BY DEF IInv
<1> QED BY <1>1, Invariance, PTL

\* A held frame keeps its bit, and only usable, unreserved memory circulates.
THEOREM HeldStayMarked == Spec => []HeldMarked
<1>1. IInv => HeldMarked
  BY DEF IInv
<1> QED BY <1>1, Invariance, PTL

\* frame_alloc returns the lowest free frame of the machine.
THEOREM AllocatesLowest == Spec => LowestFirst
<1>1. IInv /\ [Next]_vars => [\A f \in held' \ held : \A g \in Clear : f <= g]_vars
  <2> SUFFICES ASSUME IInv, Next, NEW f \in held' \ held PROVE \A g \in Clear : f <= g
    BY DEF vars
  <2>1. CASE frame_alloc
    BY <2>1, Search DEF frame_alloc
  <2>2. CASE \E frame \in held : frame_free(frame)
    BY <2>2 DEF frame_free
  <2> QED BY <2>1, <2>2 DEF Next
<1> QED BY <1>1, Invariance, PTL DEF Spec, LowestFirst

\* The bitmap allocator implements the pool: a call fails only when nothing is
\* free, no frame has two holders, and what is freed can be had again.
THEOREM Refinement == Spec => ImplementsPool
<1>1. Init => Pool!Init
  BY Coverage DEF Init, Pool!Init, Clear
<1>2. IInv /\ [Next]_vars => [Pool!Next]_(Pool!poolVars)
  <2> SUFFICES ASSUME IInv, [Next]_vars PROVE [Pool!Next]_(Pool!poolVars)
    OBVIOUS
  <2>1. CASE frame_alloc
    <3>1. ASSUME NEW f \in Found,
                 bit_map' = bit_map \cup {f}, held' = held \cup {f}, ret' = f
          PROVE  Pool!Alloc
      <4>1. f \in Clear /\ Clear' = Clear \ {f}
        BY <3>1, Search DEF Clear
      <4> QED BY <3>1, <4>1 DEF Pool!Alloc
    <3>2. ASSUME Found = {}, ret' = NULL, UNCHANGED <<bit_map, last_free_word, held>>
          PROVE  Pool!Alloc
      <4>1. Clear = {} /\ Clear' = Clear
        BY <3>2, Search DEF Clear
      <4> QED BY <3>2, <4>1 DEF Pool!Alloc
    <3> QED BY <2>1, <3>1, <3>2 DEF frame_alloc, Pool!Next
  <2>2. ASSUME NEW frame \in held, frame_free(frame) PROVE Pool!Free
    <3>1. Clear' = Clear \cup {frame}
      BY <2>2 DEF frame_free, IInv, TypeOK, Clear
    <3> QED BY <2>2, <3>1 DEF frame_free, Pool!Free
  <2>3. CASE UNCHANGED vars
    BY <2>3 DEF vars, Clear, Pool!poolVars
  <2> QED BY <2>1, <2>2, <2>3 DEF Next, Pool!Next
<1> QED BY <1>1, <1>2, Invariance, PTL DEF Spec, ImplementsPool, Pool!Spec
=============================================================================
