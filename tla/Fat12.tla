--------------------------------- MODULE Fat12 -------------------------------
(***************************************************************************)
(* The FAT12 file system on the RAM disk, kernel/src/ramdisk/fat12.c and   *)
(* ramdisk.c.  The disk is an array of sectors: a boot sector, copies of   *)
(* the FAT, the root directory, the data.  A FAT sector is an array of     *)
(* bytes whose digits are base Nibble (16 in the code), so that the packing*)
(* of two 12-bit entries into three bytes is the code's; a root sector is  *)
(* an array of entries and a data sector an array of data units.           *)
(*                                                                         *)
(* Every call runs to its end with interrupts disabled, so that each       *)
(* operation is one step; the C functions are operators on the disk.       *)
(***************************************************************************)
EXTENDS Integers, Sequences, FiniteSets, FiniteSetsExt, SequencesExt

CONSTANTS
  Nibble,             \* the values of half a FAT byte
  SectorBytes,        \* FAT bytes in a sector
  SectorUnits,        \* data units in a sector
  EntriesPerSector,   \* root entries in a sector
  FatSectors,         \* sectors of one FAT
  NumFats,            \* copies of the FAT
  RootSectors,        \* sectors of the root directory
  DataSectors,        \* sectors of data the disk really has
  SectorsPerCluster,
  Names,              \* the file names callers use
  Short,              \* the name that format_name stores and parse_name reads back
  Contents,           \* what callers write
  Garbage             \* bytes that may follow a sector buffer in the heap

ASSUME GeometryAssumption ==
  /\ {SectorBytes, SectorUnits, EntriesPerSector, FatSectors, NumFats, RootSectors,
      DataSectors, SectorsPerCluster} \subseteq Nat \ {0}
  /\ Nibble \in Nat /\ Nibble >= 3
  /\ IsFiniteSet(Names) /\ Contents \subseteq Seq(Nat)
  /\ Short \in [Names -> Names] /\ \A n \in Names : Short[Short[n]] = Short[n]

VARIABLE disk

fat_start_sector == 1
root_dir_start_sector == fat_start_sector + NumFats * FatSectors
data_start_sector == root_dir_start_sector + RootSectors
DiskSectors == 0 .. data_start_sector + DataSectors - 1

UNINIT == -1                                \* heap memory nobody wrote
END == "end"                                \* name[0] = 0x00: no entry from here on
DELETED == "deleted"                        \* name[0] = 0xE5
LABEL == "label"                            \* the volume label, an entry like any other
ByteValues == Nibble * Nibble
EntryValues == Nibble * Nibble * Nibble
LAST == EntryValues - 1                     \* 0xFFF
IsCluster(c) == 2 <= c /\ c < EntryValues - 8

-----------------------------------------------------------------------------
\* A sector past the end of the RAM disk: a read leaves the caller's buffer as it
\* was, a write is dropped.
read_ramdisk_sector(d, sector, buffer) == IF sector \in DOMAIN d THEN d[sector] ELSE buffer
write_ramdisk_sector(d, sector, data) ==
  IF sector \in DOMAIN d THEN [d EXCEPT ![sector] = data] ELSE d

\* The 16 bits at an offset of a sector buffer; the byte after the buffer is heap
\* memory, here the byte g.
Word(buffer, e, g) ==
  buffer[e] + ByteValues * (IF e + 1 < SectorBytes THEN buffer[e + 1] ELSE g)

fat_offset(cluster) == cluster + cluster \div 2
FatSector(cluster) == fat_start_sector + fat_offset(cluster) \div SectorBytes
FatBuffer(d, cluster) ==
  read_ramdisk_sector(d, FatSector(cluster), [i \in 0 .. SectorBytes - 1 |-> 0])

read_fat_entry(d, cluster, g) ==
  LET word == Word(FatBuffer(d, cluster), fat_offset(cluster) % SectorBytes, g)
  IN  IF cluster % 2 = 1 THEN word \div Nibble ELSE word % EntryValues

\* The new 16 bits: the neighbour's digit in them is kept.
Merged(cluster, current, value) ==
  IF cluster % 2 = 1
  THEN (current % Nibble) + value * Nibble
  ELSE (current \div EntryValues) * EntryValues + value

\* Every copy of the FAT gets the new sector.
WriteCopies(d, sector, buffer) ==
  LET written[i \in 0 .. NumFats] ==
        IF i = 0 THEN d
        ELSE write_ramdisk_sector(written[i - 1], sector + FatSectors * (i - 1), buffer)
  IN  written[NumFats]

\* A byte written past the end of the buffer does not reach the disk.
write_fat_entry(d, cluster, value, g) ==
  LET buffer == FatBuffer(d, cluster)
      e      == fat_offset(cluster) % SectorBytes
      word   == Merged(cluster, Word(buffer, e, g), value)
      b1     == [buffer EXCEPT ![e] = word % ByteValues]
      b2     == IF e + 1 < SectorBytes THEN [b1 EXCEPT ![e + 1] = word \div ByteValues] ELSE b1
  IN  WriteCopies(d, FatSector(cluster), b2)

FatCapacity == (FatSectors * SectorBytes * 2) \div 3
FreeClusters(d, g) == {c \in 2 .. FatCapacity - 1 : read_fat_entry(d, c, g) = 0}

\* allocate_cluster: the lowest free cluster, marked as the end of a chain.
Mark_Skipped(d, cluster, g) == d                \* mutant: not marked until it is linked
Mark(d, cluster, g) == write_fat_entry(d, cluster, LAST, g)

\* free_cluster_chain: each turn frees a cluster, so that a cycle ends as well.
free_cluster_chain(d, start, g) ==
  LET freed[k \in 0 .. FatCapacity] ==
        IF k = 0 THEN [disk |-> d, cluster |-> start]
        ELSE LET s == freed[k - 1]
             IN  IF IsCluster(s.cluster)
                 THEN [disk |-> write_fat_entry(s.disk, s.cluster, 0, g),
                       cluster |-> read_fat_entry(s.disk, s.cluster, g)]
                 ELSE s
  IN  freed[FatCapacity].disk

cluster_to_sector(cluster) == data_start_sector + (cluster - 2) * SectorsPerCluster

-----------------------------------------------------------------------------
Positions == 0 .. RootSectors * EntriesPerSector - 1
Entry(d, p) == d[root_dir_start_sector + p \div EntriesPerSector][p % EntriesPerSector]
SetEntry(d, p, entry) ==
  [d EXCEPT ![root_dir_start_sector + p \div EntriesPerSector][p % EntriesPerSector] = entry]

\* find_file: the positions it can return, none past the end mark.
Found_FirstSector(d, filename) ==               \* mutant: one sector of the root directory
  {p \in Positions : p < EntriesPerSector /\ Entry(d, p).name = filename}
Found(d, filename) ==
  {p \in Positions : Entry(d, p).name = filename /\ \A q \in 0 .. p : Entry(d, q).name # END}

\* create_file takes the first entry that is not in use.
Vacant(d) == {p \in Positions : Entry(d, p).name \in {END, DELETED}}
NewEntry(filename) == [name |-> Short[filename], first |-> 0, size |-> 0]

ClusterUnits == SectorsPerCluster * SectorUnits
Turns(size) == (size + ClusterUnits - 1) \div ClusterUnits      \* of a loop over clusters
Zeros == [i \in 1 .. ClusterUnits |-> 0]

\* The cluster buffer with the k-th piece of the data, and the sectors it fills.
Piece_FromStart(content, k) ==                  \* mutant: the first piece again
  SubSeq(SubSeq(content, 1, Min({ClusterUnits, Len(content)})) \o Zeros, 1, ClusterUnits)
Piece(content, k) ==
  SubSeq(SubSeq(content, (k - 1) * ClusterUnits + 1, Min({k * ClusterUnits, Len(content)})) \o Zeros,
         1, ClusterUnits)
WriteCluster(d, cluster, piece) ==
  LET written[i \in 0 .. SectorsPerCluster] ==
        IF i = 0 THEN d
        ELSE write_ramdisk_sector(written[i - 1], cluster_to_sector(cluster) + i - 1,
                                  SubSeq(piece, (i - 1) * SectorUnits + 1, i * SectorUnits))
  IN  written[SectorsPerCluster]

\* The loop of write_file: a turn allocates a cluster, links it behind the one
\* before and fills it; it ends with the data or with the last free cluster.
WriteChain(d, content, g) ==
  LET chain[k \in 0 .. Turns(Len(content))] ==
        IF k = 0 THEN [disk |-> d, first |-> 0, prev |-> 0]
        ELSE
          LET s    == chain[k - 1]
              free == FreeClusters(s.disk, g)
              c    == Min(free)
              d1   == Mark(s.disk, c, g)
              d2   == IF s.prev # 0 THEN write_fat_entry(d1, s.prev, c, g) ELSE d1
          IN  IF free = {} THEN s
              ELSE [disk |-> WriteCluster(d2, c, Piece(content, k)),
                    first |-> IF s.first = 0 THEN c ELSE s.first, prev |-> c]
  IN  chain[Turns(Len(content))]

\* The old chain of a file that exists is freed before the new one is allocated.
Reclaim_Nothing(d, entry, g) == d               \* mutant
Reclaim(d, entry, g) == IF entry.first # 0 THEN free_cluster_chain(d, entry.first, g) ELSE d

\* The first entry with the stored name is the one that is updated.
UpdateEntry(d, entry) ==
  LET same == {p \in Positions : Entry(d, p).name = entry.name}
  IN  IF same = {} THEN d ELSE SetEntry(d, Min(same), entry)

write_file(filename, content) ==
  \E g \in Garbage :
    LET found == Found(disk, filename)
        old   == Entry(disk, Min(found))
        fresh == NewEntry(filename)
        d0    == IF found # {} THEN Reclaim(disk, old, g) ELSE SetEntry(disk, Min(Vacant(disk)), fresh)
        chain == WriteChain(d0, content, g)
        file  == [name |-> IF found # {} THEN old.name ELSE fresh.name,
                  first |-> chain.first, size |-> Len(content)]
    IN  IF found = {} /\ Vacant(disk) = {}
        THEN UNCHANGED disk
        ELSE disk' = UpdateEntry(chain.disk, file)

\* The values a walk along a chain meets: clusters, then one that is none.
Walk(d, first, turns, g) ==
  LET after == [c \in 0 .. LAST |-> IF IsCluster(c) THEN read_fat_entry(d, c, g) ELSE 0]
      at[k \in 1 .. turns] == IF k = 1 THEN first ELSE after[at[k - 1]]
  IN  at

\* read_file: what the buffer it returns holds.  Whatever the chain does not cover
\* stays as kmalloc left it.
ReadCluster(d, cluster) ==
  [u \in 1 .. ClusterUnits |->
     LET sector == cluster_to_sector(cluster) + (u - 1) \div SectorUnits
         buffer == read_ramdisk_sector(d, sector, [i \in 1 .. SectorUnits |-> UNINIT])
     IN  buffer[1 + ((u - 1) % SectorUnits)]]

read_file(d, entry, g) ==
  LET walk  == Walk(d, entry.first, Turns(entry.size), g)
      units == [c \in 0 .. LAST |->
                  IF IsCluster(c) THEN ReadCluster(d, c) ELSE [u \in 1 .. ClusterUnits |-> UNINIT]]
  IN  [i \in 1 .. entry.size |->
         units[walk[1 + ((i - 1) \div ClusterUnits)]][1 + ((i - 1) % ClusterUnits)]]

\* A disk as mkfs.fat makes it: the volume label is the first root entry, here
\* followed by an entry that has been deleted again.
Init ==
  disk = [s \in DiskSectors |->
    CASE s < fat_start_sector -> 0
      [] s \in fat_start_sector .. root_dir_start_sector - 1 ->
           [i \in 0 .. SectorBytes - 1 |->
              IF (s - fat_start_sector) % FatSectors = 0 /\ i < 3 THEN ByteValues - 1 ELSE 0]
      [] s \in root_dir_start_sector .. data_start_sector - 1 ->
           [j \in 0 .. EntriesPerSector - 1 |->
              LET p == (s - root_dir_start_sector) * EntriesPerSector + j
              IN  [name |-> IF p = 0 THEN LABEL ELSE IF p = 1 THEN DELETED ELSE END,
                   first |-> 0, size |-> 0]]
      [] OTHER -> [i \in 1 .. SectorUnits |-> 0]]

Next == \E filename \in Names, content \in Contents : write_file(filename, content)

Spec == Init /\ [][Next]_disk

-----------------------------------------------------------------------------
Used(p) == Entry(disk, p).name \notin {END, DELETED}
UsedPositions == {p \in Positions : Used(p)}

\* The clusters of a file.
ChainOf(p) ==
  LET walk == Walk(disk, Entry(disk, p).first, FatCapacity, 0)
  IN  SubSeq(walk, 1, Cardinality({k \in 1 .. FatCapacity : IsCluster(walk[k])}))

\* The chains of the files end, and no cluster is in two of them or twice in one.
ChainsDisjoint ==
  /\ \A p \in UsedPositions : IsInjective(ChainOf(p))
  /\ \A p, q \in UsedPositions : p # q => Range(ChainOf(p)) \cap Range(ChainOf(q)) = {}

\* A cluster that is not free belongs to a file: overwriting a file gives back all
\* it had.
NoLeak ==
  2 .. FatCapacity - 1 \subseteq
    FreeClusters(disk, 0) \cup UNION {Range(ChainOf(p)) : p \in UsedPositions}

\* A name is in the directory once.
NamesUnique ==
  \A p, q \in UsedPositions : Entry(disk, p).name = Entry(disk, q).name => p = q

\* "Reads an entire file into memory": what read_file returns is data that was
\* written, all of it, and never memory that nobody wrote.
ReadsEntirely == \A p \in UsedPositions : UNINIT \notin Range(read_file(disk, Entry(disk, p), 0))

\* The disk implements a store that keeps each file's data, as far as it fits, and
\* loses no cluster and no directory entry.  A file that was cut off reads up to what
\* nobody wrote.
Readable(d, filename) ==
  LET data == read_file(d, Entry(d, Min(Found(d, filename))), 0)
      lost == {i \in 1 .. Len(data) : data[i] = UNINIT}
  IN  IF lost = {} THEN data ELSE SubSeq(data, 1, Min(lost) - 1)
Files(d) == [n \in {m \in Names : Found(d, m) # {}} |-> Readable(d, n)]
Store == INSTANCE FileStore WITH
  MaxFiles <- Cardinality(Positions) - 1,
  Capacity <- Cardinality(2 .. FatCapacity - 1),
  store <- Files(disk)
ImplementsStore == Store!Spec
=============================================================================
