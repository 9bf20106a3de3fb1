---------------------------- MODULE FrameAllocator ---------------------------
(***************************************************************************)
(* The physical frame allocator, kernel/src/x86_64/allocator/              *)
(* frame_allocator.c.  An address is counted in 4 KiB frames, so frame f   *)
(* stands for the physical address f * 4096 and 0 is the failure value.    *)
(* The bitmap is the set of frames whose bit is 1 (used); a 64-bit word of *)
(* it is the set of the frames with the same quotient by WordBits.         *)
(***************************************************************************)
EXTENDS Integers, Sequences

CONSTANTS
  MemMap,         \* the boot loader's map: <<[usable, base, length], ...>>, in frames
  WordBits,       \* bits of one bitmap word (64)
  Reserved        \* frames kept back at the bottom of memory (16 MiB / 4096)

UsableRegions == {i \in DOMAIN MemMap : MemMap[i].usable}
Top(i) == MemMap[i].base + MemMap[i].length

ASSUME ConstantsAssumption ==
  /\ WordBits \in Nat \ {0}
  /\ Reserved \in Nat \ {0}

ASSUME MemMapAssumption ==
  /\ MemMap \in Seq([usable : BOOLEAN, base : Nat, length : Nat \ {0}])
  /\ UsableRegions # {}

highest_addr ==
  CHOOSE t \in {Top(i) : i \in UsableRegions} : \A i \in UsableRegions : Top(i) <= t
total_frames == highest_addr

words_Truncated == total_frames \div WordBits      \* mutant: drops a part-filled last word
words == (total_frames + WordBits - 1) \div WordBits
BITMAP_WORD(frame) == frame \div WordBits
Bits == 0 .. words * WordBits - 1        \* the frames that have a bit

\* The loop that reserves low memory stays inside the bitmap.
ASSUME ReservedAssumption == Reserved <= words * WordBits

UsableFrames ==
  {f \in 0 .. total_frames - 1 : \E i \in UsableRegions : MemMap[i].base <= f /\ f < Top(i)}

VARIABLES
  bit_map,          \* the frames whose bit is 1
  last_free_word,   \* the word where the next scan starts
  held,             \* frames handed out and not yet freed: the callers' view
  ret               \* what the latest frame_alloc returned

vars == <<bit_map, last_free_word, held, ret>>

Clear == Bits \ bit_map
NULL == 0

\* frame_allocator_init: all ones, then the usable regions cleared, then the
\* reserved prefix set.
Init ==
  /\ bit_map = (Bits \ UsableFrames) \cup 0 .. Reserved - 1
  /\ last_free_word = 0
  /\ held = {}
  /\ ret = NULL

\* One pass of the search, over the words lo .. hi - 1: the lowest clear bit of
\* the first word that has one, unless it lies past the end of memory.
Scan(lo, hi) ==
  {f \in Clear :
     /\ f < total_frames
     /\ BITMAP_WORD(f) \in lo .. hi - 1
     /\ \A g \in Clear : BITMAP_WORD(g) \in lo .. hi - 1 => f <= g}

Found_ShortFirstPass ==                             \* mutant: off by one at the end
  IF Scan(last_free_word, words - 1) # {}
  THEN Scan(last_free_word, words - 1)
  ELSE Scan(0, last_free_word)

\* The second pass runs only when the first one found nothing.
Found ==
  IF Scan(last_free_word, words) # {}
  THEN Scan(last_free_word, words)
  ELSE Scan(0, last_free_word)

frame_alloc_HintInFrames ==                         \* mutant: caches the frame, not its word
  \/ \E f \in Found :
       /\ bit_map' = bit_map \cup {f}
       /\ last_free_word' = f
       /\ held' = held \cup {f}
       /\ ret' = f
  \/ Found = {} /\ ret' = NULL /\ UNCHANGED <<bit_map, last_free_word, held>>

frame_alloc ==
  \/ \E f \in Found :
       /\ bit_map' = bit_map \cup {f}
       /\ last_free_word' = BITMAP_WORD(f)
       /\ held' = held \cup {f}
       /\ ret' = f
  \/ /\ Found = {}
     /\ ret' = NULL
     /\ UNCHANGED <<bit_map, last_free_word, held>>

frame_free_KeepsHint(frame) ==                      \* mutant: no roll-back of the hint
  /\ frame \in held
  /\ frame < total_frames
  /\ bit_map' = bit_map \ {frame}
  /\ held' = held \ {frame}
  /\ UNCHANGED <<last_free_word, ret>>

\* frame_free, by a caller that holds the frame.
frame_free(frame) ==
  /\ frame \in held
  /\ frame < total_frames
  /\ bit_map' = bit_map \ {frame}
  /\ last_free_word' = IF BITMAP_WORD(frame) < last_free_word
                       THEN BITMAP_WORD(frame) ELSE last_free_word
  /\ held' = held \ {frame}
  /\ UNCHANGED ret

Next == frame_alloc \/ \E frame \in held : frame_free(frame)

Spec == Init /\ [][Next]_vars

-----------------------------------------------------------------------------
TypeOK ==
  /\ bit_map \in SUBSET Bits
  /\ last_free_word \in 0 .. words
  /\ held \in SUBSET Bits
  /\ ret \in Bits

\* Every word below the cached hint is full: frame_free always rolls the hint
\* back far enough, so starting a search at the hint misses no free frame.
HintSound == \A f \in Clear : last_free_word <= BITMAP_WORD(f)

\* A frame somebody holds has its bit set, so no search can find it again; the
\* bits of unusable and reserved frames are never cleared, so what is clear or
\* held is memory the boot loader gave the kernel.
HeldMarked ==
  /\ held \cap Clear = {}
  /\ held \cup Clear = UsableFrames \ 0 .. Reserved - 1

\* frame_alloc always returns the lowest free frame of the machine, whatever
\* sequence of calls moved the hint: the low frames are used up before higher
\* ones.
LowestFirst == [][\A f \in held' \ held : \A g \in Clear : f <= g]_vars

\* The allocator implements a pool of frames: a call fails only when no frame is
\* free, a frame has at most one holder, and a freed frame can be had again.
Pool == INSTANCE FramePool WITH Pool <- UsableFrames \ 0 .. Reserved - 1, free <- Clear
ImplementsPool == Pool!Spec
=============================================================================
