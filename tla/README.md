# Formal models of the eucalypt-dos kernel

This directory holds TLA+ models of the kernel under `src/kernel/src`, TLC
configurations that check them on small instances, and TLAPS proofs of the
results that hold for every value of the constants.

Contents: [inventory](#inventory), [parts and interaction](#how-the-parts-interact),
[modules](#modules-and-the-code-they-model), [runs](#runs), [bounds](#bounds),
[fairness](#fairness), [proofs](#proofs), [known limits](#known-limits-of-the-code),
[not modelled](#not-modelled), [plan](#plan).

## Inventory

All paths are under `src/kernel/src`.

| Part | Source | State | Operations | What is hard |
|---|---|---|---|---|
| Frame allocator | `x86_64/allocator/frame_allocator.c` | bitmap, cached search hint | init, `frame_alloc`, `frame_free` | the hint is a cached position; part-filled last word; holes |
| Heap | `x86_64/allocator/heap.c` | address-ordered node list, free list per size class, mapping cursor | `heap_init`, `kmalloc`, `kfree` | both lists use the same `next` and `prev`; sizes change while nodes are listed |
| Page tables | `x86_64/allocator/vmm.c` | PML4 trees, the processor's translations | create, switch, map, unmap, ranges, translate | tables shared between trees; running out of frames half way; stale translations |
| RAM disk | `ramdisk/ramdisk.c` | sectors | read, write of a sector | accesses past the end are dropped |
| FAT12 | `ramdisk/fat12.c` | FAT copies, root directory, data, descriptor table | find, create, read, write; open, close, read, seek, tell | 12-bit packing; full disk; chains freed before they are rewritten |
| System calls | `x86_64/interrupts/syscall_handler.c`, `128_handler.asm` | none of its own | `int 0x80` dispatch | results that do not reach the caller |
| Interrupts | `x86_64/idt/`, `interrupts/pic.c`, `timer.c` | requests, masks, lines in service, gates, tick counter | boot order, delivery, end of interrupt, `timer_wait` | devices interrupt between any two instructions |
| Keyboard | `interrupts/keyboard.c` | modifiers; the controller's buffers | `init_keyboard`, `keyboard_handler` | polling code and interrupt handler take bytes from each other; timeouts, retries |
| Boot | `main.c` | order of initialisation | `kmain` | interrupts are on before the last steps |
| Strings | `string.c` | none | copies, comparisons, `int_to_str` | |
| Terminal | `flanterm/flanterm.c`, `flanterm/fb.c` | the parser's place in a sequence, attributes, margins, cursor; grid of painted characters, queue and map of changed ones | `flanterm_write`, flush, full refresh, autoflush | sequences split over writes; a queue that holds one item a cell; wrapping, margins and scrolling; attributes kept twice |
| GDT, serial log, port I/O | `gdt.c`, `serial.c`, `commands.c` | hardware tables | | |

## How the parts interact

`kmain` initialises everything in a fixed order and ends in a loop of `hlt`;
afterwards the kernel runs only in interrupt handlers. The frame allocator
serves the heap (`expand_heap`) and the page tables (`alloc_table`); the heap maps
its frames with `map_page`; the file system takes all its buffers from the heap
and its sectors from the RAM disk; the system calls reach the file system and the
descriptor table, and `SYSCALL_WRITE` and the keyboard's handler write to the
terminal, which uses nothing but its own memory. There is one processor and every
gate is an interrupt gate (`idt.c:179`), so a system call or an IRQ handler runs to
its end without being interleaved with another. That is why a call of the
allocators, the page tables, the terminal or the file system is **one step** in the
models, and why interleaving matters exactly where the models have it: between the
instructions of `kmain`, `timer_wait` and `init_keyboard` on one side, and devices
and handlers on the other. `Interrupts` checks the fact the atomicity rests on: its `TypeOK` says that
interrupts are disabled while a handler runs, so that handlers are never nested.

The models are composed where one uses the other's state: `Syscalls` EXTENDS
`Fat12`. Elsewhere a component stands for its user's environment by its abstract
promise: a frame allocator that hands out the lowest free frame (proved of
`FrameAllocator`) is `Min(free)` in `Vmm` and a count of frames in `Heap`.

## Modules and the code they model

| Module | Abstract specification | Code | State in the model |
|---|---|---|---|
| `FrameAllocator` | `FramePool` | `frame_allocator.c` | `bit_map`: frames whose bit is 1; `last_free_word`: the hint; `held`: history of what callers hold |
| `Heap` | `BlockPool` | `heap.c` | `heap.nodes`: headers by address with `next`, `prev`, `size`, `used`; list ends; cursor; frames left. `live`: what callers hold |
| `Fat12` | `FileStore` | `ramdisk.c`, `fat12.c` | `disk`: sectors, the FAT as base-`Nibble` digits so that packing is the code's |
| `Syscalls` (EXTENDS `Fat12`) | | descriptor part of `fat12.c`, `syscall_handler.c` | `fd_table`; `written`: history of acknowledged writes |
| `Vmm` | `AddressSpaces` | `vmm.c` | `mem`: table frame -> index -> entry; `tlb`: what the processor has cached |
| `Interrupts` | | `idt.c`, `stubs.asm`, `pic.c`, `timer.c`, order of `main.c` | `irr`, `imr`, `isr` of both controllers, gates, flag IF, place of `kmain` |
| `Keyboard` | | `keyboard.c` | place in `init_keyboard` as a program of polls and port accesses; the controller's buffers; modifiers |
| `Unicode` | | decoding, glyphs and widths in `flanterm.c` | none: operators on numbers |
| `Framebuffer` | | `fb.c` | none of its own: operators on the context |
| `Terminal` (EXTENDS both) | `Screen` | `flanterm.c` | `ctx`: both context structures as one record, with `picture`, what each cell shows |
| `TerminalCommands` (EXTENDS `Terminal`) | | who writes | `asked`: history, the latest command |
| `FrameAllocatorProofs`, `InterruptsProofs`, `VmmProofs`, `KeyboardProofs`, `HeapProofs`, `FileProofs` (`Fat12` and `Syscalls`), `TerminalProofs` | | | theorems of these components |
| `NatLemmas` | | | least and greatest elements, division, induction over sets of numbers: lemmas the proofs cite |
| `MC*` | | | values of constants for TLC, and the sessions a run is made of (`MCFiles`, `MCHeap`, `MCTerminal`) |

How state and actions correspond to the code:

* **C functions are operators, calls are actions.** In `Heap` and `Fat12` a helper
  (`free_list_remove`, `write_fat_entry`) is an operator from one heap or disk to
  the next; the action of a call composes them in the order of the calls. A loop
  over data is a recursive function over the number of turns.
* **`frame_alloc`** is modelled by what its two passes find (`Scan`, `Found`): the
  lowest clear bit of the first word that has one, from the hint to the end and
  then from the start to the hint, cut off at the end of memory.
* **`kmalloc`** scans buckets from the fitting one up and takes the first node
  that fits (`Stops`, `Fits`); a scan that meets a cycle never returns, which is
  the absence of a step. `kfree` merges with its neighbours over the very
  pointers that the free lists share.
* **`write_file`** is one step: it frees the old chain, allocates clusters one by
  one, links, fills, and updates the first entry of that name. `Garbage` is the
  byte behind a sector buffer, which the code reads and writes when an entry lies
  across two sectors.
* **`map_page`** walks and allocates level by level (`Descend`); when frames run
  out it returns with the tables it has linked so far. `Access` is the processor
  filling its translation buffer whenever it likes; `mov cr3` empties the buffer,
  `invlpg` drops one page.
* **Boot**: `NextStep` is the order of `kmain` and `idt_init`; devices may raise
  their lines from the first instruction on. `PIC_remap` models the ignored low
  bits of the vector offset, which is why the offset 47 works. `hlt` is separate
  from the test before it.
* **`init_keyboard`** is a sequence of polls and port accesses (`Program`); the
  handler runs between any two of them once the controller has raised line 1.
* **`flanterm_write`** feeds its bytes one by one to `flanterm_putchar`, an
  operator on the context, and flushes. `esc_values` holds the values of the
  sequence so far, `number` the one whose digits come in, and `filler` what the code
  has put in the places behind them. The queue is a sequence of cells and
  characters, `map` the place of each cell in it (0 for NULL); `PaintQueue` paints as
  the code does, the first item of a cell that still waits. A cell of `picture` is a
  character in two colours, for the pixels that `plot_char` draws. Colours are the
  entry of a palette, a value, or a default, so that equal colours of two palettes
  stay different.
* **Commands**: `TerminalCommands` turns a command (a character, a control sequence
  with its values, another escape) into its bytes. The properties compare what the
  bytes did with a description of the command that is written on the text of the
  screen alone, and knows nothing of bytes, queue or wrapping loops.

Environment (marked external in the project file): the 8259 pair, the 8042
controller, the keyboard, the user, and address translation of the processor,
modelled from how the code uses them.

## Runs

| Run | Module, configuration | Question | Result |
|---|---|---|---|
| `frame_allocator` | `MCFrameAllocator` | Does the cached hint ever hide a free frame, and is the allocator a pool that fails only when empty? | holds |
| `heap` | `Heap` | Do the two lists that share their pointers stay intact, are blocks disjoint, is the search complete? | holds for requests within a page: in one page cut into small blocks, and over three pages with requests that fill one each |
| `heap_two_pages` | `HeapTwoPages` | Are the bucket lists exact when small and large requests mix? | violated: `all_nodes_append` links into a node that sits in a free list |
| `heap_large` | `HeapLarge` | Is a request for more than a page served? | violated: the caller gets the block of the first page alone, and the headers of the next pages lie where it writes |
| `files` | `Files` | Is the disk a store that loses no cluster, full disk and full directory included? Do calls read back what was acknowledged, and are descriptors snapshots? | holds |
| `fat12_straddle` | `Fat12Straddle` | Does a file read back whole when a FAT entry lies across two sectors? | violated |
| `syscalls_directory_full` | `SyscallsFull` | Is an acknowledged write read back with one file more than the directory holds? | violated: a write that stored nothing is answered with `SYSCALL_OK` |
| `vmm` | `Vmm` | Does every operation change only the pages it names, in every address space, up to exhaustion? | holds |
| `interrupts` | `Interrupts` | Does every interrupt reach its own handler, are timer and keyboard never held back, does `timer_wait` return? | holds |
| `keyboard` | `Keyboard` | Does the polling initialisation end with the interface enabled although the handler steals its bytes and the waits give up? | holds, but for an `ENABLE` that is itself sent over |
| `terminal` | `Terminal` | Does the picture show the text after each flush, and does each command change what it should and nothing else? | holds, but for the cases listed under known limits |
| `terminal_unknown_final` | `TerminalUnknown` | Does every whole sequence end where its final byte is? | violated: a control sequence with an unknown final byte stays open and leaves scrolling off |

The five violations are disagreements between the code and a comment beside it;
`PROJECT.json` quotes the comment of each.

What the properties say:

* `HintSound`, `LowestFirst`, `HeldMarked`, `ImplementsPool`: a search started at
  the hint misses nothing; usable frames above the reserved prefix are clear or
  held and never both; a call fails only on an empty pool.
* `Tiling`, `FreeListsExact`, `UsedNextAdjacent`, `SearchComplete`,
  `ImplementsBlocks`: the blocks tile the memory; each list is exactly the free nodes
  of its size class; the pointer `kfree` merges over is right; a request is served
  whenever some block fits; and what a caller holds is as long as it asked for, apart
  from every other block, and never holds a header.
* `ChainsDisjoint`, `NoLeak`, `NamesUnique`, `ImplementsStore`: no cluster in two
  chains, none lost, no name twice, the store reads back what was written as far as it
  fits.
* `PositionInside`, `ReadBack`, `DescriptorsAreSnapshots`: the
  unsigned subtraction of `read_file_fd` never wraps; an acknowledged write is
  read back; a descriptor keeps the data it was opened with.
* `TablesOwned`, `SharedSlotsAgree`, `TlbCoherent`, `MapServed`,
  `ImplementsSpaces`: each table hangs on one entry but for the shared slots; no
  stale translation, whichever tree the change went through; mapping fails only
  for want of frames.
* `DispatchedAsItself`, `DevicesNotHeldBack`, `TimerServed`, `WaitEnds`: no
  interrupt before there are gates, or through the vector of another line; lines
  without a handler, which are never acknowledged, hold back neither the timer nor
  the keyboard; a tick between the test and `hlt` delays `timer_wait` by one tick
  but does not lose it.
* `ModifiersTrack`, `InitEnds`, `InterfaceEnabled`, `BufferDrains`: the modifiers
  follow the keys whatever initialisation bytes the handler was given; the
  initialisation ends; the interface is enabled then, unless the controller has taken
  `DISABLE` and was too slow for `ENABLE`; no byte stays in the controller.
* `QueueTracksMap`, `ImplementsScreen`: no cell waits twice, so that the queue, which
  has one place a cell and no check, never runs over; after each flush the picture is
  the text with one cursor on it, although only what changed is painted.
* `KnownSequencesLeaveNoTrace`, `PrintsExactly`, `MovesExactly`, `EditsExactly`,
  `PaletteFollowsSgr`: a whole sequence restores scrolling and the parser, if its final
  byte is one the parser knows (`SequencesLeaveNoTrace`, which is violated, says so of
  every one); characters, movements and edits do what is described of them, from every
  cell, behind the last column, inside and outside of the margins; in insert mode an
  ASCII character makes room for itself, while one in UTF-8 overwrites; the two colours
  in use are always those of the attributes.

## Bounds

Every bound is a constant of a module and has its value in a `.cfg`.

* Frames: 10 frames to hand out, words of 3 bits, a hole in the map, a last word
  that is part filled. Every case of the two passes (hint before, in and after
  the word of a free frame; nothing found; a clear bit past the end) occurs. The
  proofs cover every other size.
* Heap: pages of 20 units, headers of 2, three size classes (split, no split, merge
  with either side, no block found); either a single page and small requests, or three
  pages and requests that fill one, for growth and for merging over the border of two.
  Mixed, they are one violation (`heap_two_pages`); requests for more than a page, for
  which the loop of `expand_heap` turns again, are the other (`heap_large`). So frames
  that run out in the middle of an expansion occur in no passing run.
* Files (`MCFiles`): four clusters, three directory entries, one for the label and one
  of the others deleted before. A run is one of two sessions. Either files are written
  under three names, of zero to three clusters, so that disk and directory fill up,
  files grow and shrink, and both parities of entries occur. Or every call is made on
  two of the names, with files of at most a cluster and two descriptors, and arguments
  one past either end; after a call its answer is taken (`Take`), so that states that
  differ in the latest answer alone meet again. Base-3 digits keep FAT values small; the
  packing is the same in every base. All four clusters are on the disk. The names are
  symmetric: nothing depends on which is which.
* Page tables: three entries a table, so that neighbouring pages share their
  last table and the third user page lies in a shared slot; six frames, which
  run out in the middle of a walk.
* Interrupts: timer, keyboard and one device without a handler on each controller;
  `MaxTicks` stops the tick counter, which only `timer_wait` reads.
* Terminal: a screen of four columns and three rows, so that there is a row above, in
  and below a region of two; tab stops every 2 (8 in the code); six values a sequence
  (16), with sequences of seven and eight to exceed them, given in digits and
  empty. A run is a session of one
  kind with a budget: each edit or movement with each value 0 to 3, 9 or none, from
  every cell, three regions, with and without insert mode, and a sequence with an unknown final
  byte among them; three commands out of a mixture, that sequence included; five bytes in any order of the fifteen the parser tells apart; three
  attribute sequences in any order; one character for each end of an interval of the
  width table; four line drawing selections; five writes and flushes in any order
  while flushing is delayed. Values stay below 2^31 and the parts of a colour below
  256, so that no number wraps.
* Keyboard: two attempts (10 in the code), two polls before a wait gives up
  (100000), four key events.

## Fairness

Safety runs assume none. `Interrupts` assumes that the processor takes an
interrupt it can take and ends each handler (`WF`), that the timer, which is
periodic, raises its line again (`WF`), and that the interrupted code gets its next step
eventually (`SF`): interrupts come every few milliseconds and handlers are short.
`Keyboard` assumes that the processor executes `init_keyboard` and takes the
interrupt, and that controller and keyboard do their next step some time (`WF`).
Nothing is assumed about *when* the keyboard answers or the controller takes a byte, so
every wait may run into its limit, and a byte may be sent over one that was not taken.

## Proofs

`tlapm` checks all proofs to the last leaf. Assumptions are the named `ASSUME`s of
the modules, which TLC evaluates on each run.

**`FrameAllocatorProofs`**, for every memory map, word width and reserved prefix:
`TypeCorrect`, `HintIsSound`, `HeldStayMarked`, `AllocatesLowest`, `Refinement`. The
inductive invariant is `TypeOK`, `HintSound` and `HeldMarked` together. The
hint is what makes the first pass complete: no clear bit lies below it, so the
second pass (from the start to the hint) finds nothing the first one missed, and
the lowest clear bit of the first non-full word is the lowest clear bit of all.
That the search stops at the end of memory needs `MemoryEnd`, that no usable
region passes `total_frames`. The refinement maps `free` to the clear bits; a call
that fails maps to a failure of an empty pool because an empty search means no
clear bit.

**`InterruptsProofs`**, for every set of lines that contains the timer and the
keyboard: `TypeCorrect`, `Dispatch`, `NotHeldBack`. None of the three is inductive by
itself: that an interrupt finds gates depends on where the boot is. The
strengthening `Inv` has three parts: `Booted` (what has been set up at each place of
`kmain`), `Quiet` (interrupts are enabled only past `sti`, and never while a
handler runs) and `Served` (the timer or the keyboard is in service only while its
own handler runs). The step that matters is the end of interrupt: it is
non-specific, so it ends the service of the line of highest priority, which is the
right one exactly because neither of the two lines can be in service behind it
(`EndOfFirst`).

**`VmmProofs`**, for every number of entries a table and every pool of frames
(`VmmAssumption`): `TypeCorrect`, `Ownership`, `SharedSlots`, `Coherence`, `Served`,
`Refinement`. Why no table hangs on two entries cannot be seen from one step: a walk
follows entries through four levels and must not come back to a table it has been
at. The inductive invariant therefore gives each frame a level: an entry of a
table of level *n* leads to a table of level *n* + 1 that no other entry leads to, but
for the shared slots of level 0, which lead to the same table in every space.
With the levels, two walks that end in the same table took the same indices below the
shared slots; so a change of one page changes the translation of that page only, in
exactly the spaces that share its slot, and `invlpg` of this page is enough.

**`KeyboardProofs`**, for every number of attempts, polls and key events: `Modifiers`,
that is `ModifiersTrack`, and `Listening`, that is `InterfaceEnabled`. The modifiers
are compared with the user's keys while bytes are still on their way, so the invariant
looks at those bytes: once the handler has taken what waits, in the order in which it
waits, it is where the user is. What makes this inductive is that the bytes of the
initialisation that the handler may take instead of the polling code (an
acknowledgement, a result of a self test) neither press shift nor touch the Caps Lock.
`InterfaceEnabled` is a leads-to, but it holds for a reason of safety and needs no
fairness: the interface is enabled *at* the end of `init_keyboard`, or the controller
has taken `DISABLE` and `ENABLE` was sent over. That is the only way: `kb_wait_write`
gives up after its polls without telling its caller, so any byte may be overwritten by
the next, and `lost` is the history of those that were. The invariant (`Listens`) follows
the two commands through the program: `DISABLE` may still come only while it waits in
the input buffer, and when the reset is sent over `ENABLE`, that byte is in `lost`. An
overwritten `DISABLE` does no harm.

**`HeapProofs`**, for every page, header, alignment, thresholds of the size classes and
sizes of the requests, in a heap of one page: `Invariance`, `BlocksTile`, `ListsExact`,
`LinksAdjacent`, `SearchMissesNothing`, `NeverMergedBackwards`, `Implementation`. All but
the last have the form `Spec => [](OnePage => ...)` and leave the number of frames
free; `OnePage` says that the heap has not grown beyond its first page. This is where the
code is right: with a second page and mixed requests `FreeListsExact` fails (run
`heap_two_pages`), because `all_nodes_append` links through a pointer that a free list
uses. `Implementation`, the refinement of `BlockPool`, assumes the whole of it, one
frame. The inductive invariant has four parts:

* the headers tile the page: the next header lies where a block ends;
* some enumeration of the free nodes of each size class is what its list links,
  forwards and backwards, ends included (`IsList`); unlinking and pushing change it by one
  element;
* a used node has an empty `prev`, and its `next` is the header that follows or empty;
* callers hold exactly the blocks of the used nodes.

The third part is why the two lists can share their pointers at all: `kfree` reads
`next` before it lists the node, and what it reads is a neighbour or nothing. It also
settles the other branch: `NeverMergedBackwards` states that the test of
`heap.c:265` never succeeds, so of the two neighbours a freed block is only ever merged
with the one behind it, although the comment at line 250 speaks of adjacent free blocks.
The refinement maps `data` to the mapped memory without the headers, so that a step
may write headers and remove them, but not inside a block in use; that they never are is
`HeldKept`, from the tiling: a used node's block has no header in it, and a split puts
the new one behind what was asked for.
`SearchMissesNothing` needs that no list has a cycle (an enumeration has none) and that a
bucket's nodes lie between its thresholds, so that each scan ends and no bucket
that is skipped could have served.

**`FileProofs`**, first of the file system, for every geometry of the disk, packing base and set of files
within `Limits` (on the real geometry that leaves files of 339 clusters together, and no
full disk): `Invariance`, `OneEntryPerName`, `NoClusterShared`, `NothingLeaks`. The
proofs look at the disk twice. Below are bytes: `EvenRead`, `EvenWrite`, `OddRead` and
`OddWrite` say for every base that an entry of one and a half bytes is read back as it
was written and that its neighbour keeps its value, which lifts the packed sectors to
`Table`, a function from clusters to values, and `Root`, one from positions to entries.
Above are chains: the invariant `IInv` says that some choice of a chain for each
position and of a content for each file explains the disk (`Sound`). The chains are
what the table links, from the first cluster of an entry to an end mark; they
share no cluster; what is in none is marked free; and the clusters of a file hold its
content piece by piece, as far as the disk has them. `write_file` is followed through it
in the order of the code: freeing a chain makes it empty (`free_cluster_chain`), each
turn of the writing loop makes it longer by the lowest free cluster, and a turn that
finds none ends it where it is, which is why a full disk, where `Limits` allows one,
breaks none of this.
`Limits` asks for three things:

* callers use names that `format_name` keeps and that are not the marks of an unused,
  a deleted or a label entry;
* the FAT has at most as many entries as 12 bits number below the reserved values,
  for `write_fat_entry` cuts off what is larger;
* `Fits`: no FAT entry lies across two sectors, or all files together never reach the
  first that does. This is needed: with sectors of 5 bytes, files of two clusters and two
  values behind the buffer, TLC finds two files that share a cluster (what run
  `fat12_straddle` shows of the contents). With sectors of 512 bytes cluster 341 is the
  first, so the theorems speak of the real disk as long as its files take no more than
  339 clusters together, counted at the largest each may have. Such files never fill it.
  A full disk is within the theorems only where each entry lies in one sector, as with a
  FAT of one sector.

Then of the system calls: `CallsWriteFiles`, `PositionsInside`, `ReadsBack`, `Snapshots`.
That the calls change the disk by `write_file` alone makes the invariant of the file
system theirs. `PositionsInside` needs no more than `Limits`. `ReadsBack` and `Snapshots` add the history: each
acknowledged write is the content that the invariant gives the file, and every chain is
whole and on the disk. This is false of a full directory (run
`syscalls_directory_full`) and of a full disk, so both assume `Room` on top of `Limits`: an entry for every
name beside the label, and as many clusters on the disk as there are names, times the
clusters of the largest file. That this is enough is a counting argument (`Crowded`):
allocation takes the lowest free cluster, so a chain that ends early or leaves the
disk means that all clusters of the disk are in chains, which then have more
places than `Room` leaves them. `Room` without `Limits` is not enough: a file of 400
clusters has room on the real disk and does not read back from cluster 341 on. The calls
of run `files` keep within `Room`: two files of at most a cluster.

Last, `StoreKept`, the refinement of `FileStore`, within `Limits` and `Backed`, on a
full directory as well, and on a full disk where these two allow one. What a file reads as is what its chain holds of its content (`ReadableIs`), cut off
at a whole cluster if the disk was full. Whether it had to be cut off is decided by
counting. The store numbers the clusters in use file by file, the disk links them;
`Census` maps the one to the other, injectively, so that there are never more than the FAT
has, and onto all of them when none is free. Since the file just written brings its own
on top of the others' (`Share`), one that was cut off got exactly what the others leave, and a
whole one no more. This needs that no written cluster lies behind the end of the disk,
where a write is dropped: `Backed` asks that the disk has every cluster of the FAT, as in
the run `files`, or that there is room for every name on what it has, and then no
file is cut off. The real geometry is of the second kind twice over: the first straddling
entry bounds its files by `Limits`, and its FAT is larger than the disk, so that what the
theorem says of it is that its few files are kept whole. A refused write changes nothing and is a stutter of the store.

**`TerminalProofs`**, for every size of the screen, tab width, bound on a sequence's
values, and every text of bytes 1 to 255 cut into calls anywhere: `TypeCorrect`,
`QueueBounded`, `TerminalIsScreen`, the last being the refinement of `Screen`. (In the
theorems `Buffers` is any set of texts; the run leaves it empty and writes the bytes of
commands by the same action, `flanterm_write`.) The invariant `Drawn` says of the context that

* its numbers and colours are in range, those that `ESC 7` and `ESC [ s` saved included,
  and the region has two lines if the screen has (`Good`);
* each item of the queue is the one its cell leads to, and a cell that is mapped leads
  to an item of its own (`Queued`);
* the picture shows the grid everywhere but at the cursor's old place (`Painted`).

`Queued` is what makes the queue fit: its items are an injection into the cells. It is
also why painting the *first* item of a waiting cell is painting its only one, which
is false after a full refresh of a screen where something waits, hence `Settled` in
`Next`. The second half of the argument is that text never touches what is painted. It is
carried from the inside out: a push, the loops of scrolling, clearing, inserting and
deleting (`LoopDraws`: a loop draws when each of its turns does, by `SetInduction` over
the turns), every movement and edit (`Draws`), every attribute and every control sequence
with any values (`ObeyedActs`), the parser's step on any byte at any point of a
sequence or character (`ByteActs`), any text (`TextActs`). Two steps are not obvious. `L`
scrolls with the cursor's row for the top margin, so the region may have one line while
it does, and the invariant of drawing (`Sane`) must be weaker than the invariant between
sequences (`Good`). And a flush is right because the two corrections it makes, the
cursor drawn before the queue and the old place repainted after it, never hit the same
cell unless the cursor has not moved (`CellInjective`), so that what was wrong in the
picture, the old cursor, is always repainted (`FlushRefreshes`).

**`NatLemmas`** has what the others share. `SetInduction` is induction for a *set* of
numbers, which the backends can instantiate where they cannot instantiate the library's
induction over predicates; with it the recursive functions of `Heap` and the ranges
of `Vmm` are unrolled for every length.

Only model-checked: the five properties of whole sequences of the terminal
(`KnownSequencesLeaveNoTrace`, `PrintsExactly`, `MovesExactly`, `EditsExactly`,
`PaletteFollowsSgr`), which follow the bytes of a command, decimal numbers among them,
through the parser and loops over cells to what they compute: inductions over data;
the heap beyond its first page (`heap`, a run over three); and what needs fairness
(`TimerServed`, `WaitEnds`, `InitEnds`, `BufferDrains`), which is out of this prover's
reach, as is `ENABLED`.

## Known limits of the code

The five violations above, and what follows: behaviour met while modelling that no run
reports. Some of it contradicts a comment, which is then quoted; some promises nothing
else; some is out of reach of today's callers. The guards of the properties and the
bounds of the runs keep clear of it, as said.

* The frames of the bitmap are reserved by the prefix of 16 MiB alone
  (`frame_allocator.c:86`, "Reserve the first 16 MiB for the kernel and the bitmap
  itself"). When the first usable region starts above it, where the bitmap is put, its
  frames are clear and are handed out. `Init` alone decides it, so it has no run.
* A request for more than a page also leaves a cycle in a free list, besides what run
  `heap_large` shows: `free_list_insert` links the same `next` field that line 91 of
  `heap.c` has linked (150), and a later search that nothing on the cycle satisfies never
  returns. When frames run out in the middle of such a request it succeeds with fewer
  pages (131). `read_file` asks for the size of the file (`fat12.c:207`), so any file
  larger than a page gets there.
* A used node has no `prev`, so a block and then its right neighbour, freed in that
  order, are not merged (`heap.c:265`; `NeverMergedBackwards`).
* A file that a full disk cuts off keeps its full size, and the end of what
  `read_file` returns is memory nobody wrote (`fat12.c:242`).
* `allocate_cluster` is bounded by the FAT, not by the disk (`fat12.c:120`): data
  written past the end of the disk is dropped. The runs have disks with every cluster of
  their FATs.
* `open_file` keeps a buffer of its own until `close_file` frees it (`fat12.c:307`,
  `324`). In the model it is a value, so that a buffer freed too early or shared is not
  something it could show.
* A name longer than 8.3 is stored cut and looked up whole (`fat12.c:45`), and a name
  of full length makes `parse_name` write 13 bytes to an array of 12 (`fat12.c:156`).
* The file system uses what `kmalloc` returns unchecked (`fat12.c:84`).
* `frame_free` does not check that the frame was allocated (`frame_allocator.c:139`);
  it has no caller.
* `PIC_remap` masks nothing although its comment says "Mask all interrupts
  initially" (`pic.c:42`), and a line without a handler is never acknowledged
  (`idt.c:153`): it is served once, and the lines below it on its controller
  never again. Timer and keyboard have the two highest priorities and are safe.
* `vmm_create_pml4` copies slots 256 and 511; the heap lies in slot 288
  (`heap.c:32`), which a second address space would not see. It has no caller yet.
* `kb_wait_write` gives up without telling its caller (`keyboard.c:38`), and the next
  byte is sent over the one that was not taken. For a controller that takes `DISABLE`
  and then needs more than 100000 polls for the next byte, "Re-enable keyboard interface"
  (`keyboard.c:79`) is without effect and the keyboard stays disabled.
* Both shift keys share one flag; releasing either clears it (`keyboard.c:113`).

Of the terminal (lines of `flanterm/flanterm.c`), which the guards of its properties
name or the byte session reaches:

* A final byte it does not know leaves the sequence open (run
  `terminal_unknown_final`): the text up to and including the next byte of 0x40 to 0x7E
  is lost, and `scroll_enabled` stays off until `ESC c` (819).
* ESC within a control sequence does not do what the comment says, "Got ESC in the
  middle of an escape sequence, start a new one" (578): what follows is read as more of
  the old one.
* Insert mode makes room for an ASCII character only: one of several bytes is written
  over what is there (1277 to 1289 return before 1375). `PrintsExactly` describes it so.
* `CAN` does not clear `dec_private` (1254); `escape_offset` counts on after an OSC that
  an escape broke off (489), so that `ESC [ ?` is not recognised then.
* Line or column 0 is the last one (636, 642); a step down from the line below the
  region moves up into it (614); `@` of 0 erases the rest of the line (735), `P` of more
  than there are erases to the left of the cursor as well (748), `L` below the region
  clears the line (672).
* With the cursor behind the last column, `K`, `J`, `X` and `P` erase in the next line
  (705, 751, 769).
* `raw_putchar` limits the row by the number of columns (`fb.c:979`), so that text that
  runs below a region that ends above the last line leaves the screen, and on a screen
  with more columns than rows the row is limited by nothing else (`TypeOK`).
* The parts of a colour by value are put together unmasked (368), so that a part
  above 255 changes the one before it; a value of a sequence is a `uint32_t` that wraps
  (525). In the model values have no width, and the three parts are kept apart.
* A reset keeps the colours of the text while it forgets reversal (83, 894); `ESC 8`
  without `ESC 7` selects black on black (831); 22 and 25 in reverse video set both
  colours to the default background (209, 227); colours by value are not remembered
  and lost with the next 1 or 22 (352).
* UTF-8 bytes inside a sequence are printed at once (1265).
* `full_refresh` right after a write that was not flushed takes the cursor's cell out of
  the map and leaves it in the queue (931), and with the cursor moved but not painted it
  paints a cursor that no flush erases. The kernel calls it at the start only; the model
  has it on a settled screen (`Settled`).

## Not modelled

Exceptions (they print and halt), the GDT (loaded once), the serial log and port
functions (no state), build files. The functions of `string.c` have no state: copies and
comparisons appear as operations on sequences where they are used. `IRQ_set_mask`,
`get_timer_ticks` and the multi-sector helpers of the RAM disk have no caller.
Page flags other than the present bit, attributes and times of directory
entries, and heap exhaustion inside the file system are left out of the models.
Of the terminal: pixels, that is the geometry of the frame buffer, the font, scaling,
rotation and the canvas (`fb.c:473` to `644`, `1065` to `1281`), the bump allocator that
serves the initialisation once, callbacks (the kernel sets none) and `deinit` (no
caller).

## Plan

Done: the modules above, in the order frames, heap, FAT12, system calls, page
tables, interrupts, keyboard, terminal; proofs of the frame allocator, the
interrupts, the page tables, the keyboard, the heap, FAT12, the system calls and the
terminal.

Next, in this order:

1. `Kmem`: frames, page tables and heap composed, `expand_heap` calling
   `frame_alloc` and `map_page`, with the address spaces that share the heap or do
   not; the failures of each layer seen by the one above.
2. The geometry of the frame buffer: every pixel of every cell inside it, no pixel in
   two cells, for each scale and rotation.
3. Proofs: the heap with any number of pages when every request takes a whole page,
   which run `heap` checks on three; of a single movement or edit of the terminal,
   from the values on, what it does to the text (`Obeyed` alone, without the parser).
4. An abstract specification of the descriptors (files as sequences, snapshots at
   open) that `Syscalls` implements.
