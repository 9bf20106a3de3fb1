------------------------------ MODULE FileProofs ------------------------------
(***************************************************************************)
(* Proofs about Fat12 and about Syscalls, which extends it.  The packed    *)
(* bytes of the FAT are read as a function on clusters (Table) and the     *)
(* sectors of the root directory as a function on positions (Root);        *)
(* write_fat_entry assigns to the first, SetEntry to the second, and each  *)
(* leaves the other alone.  The inductive invariant says that a chain of   *)
(* clusters can be chosen for every position and a content for every file  *)
(* such that the table links each chain, no cluster is in two places, what *)
(* is in no chain is free, and the clusters of a file hold its content, as *)
(* far as the disk has them.  It holds of the system calls as well, which  *)
(* change the disk by write_file alone.  The refinement of FileStore rests *)
(* on it, and on counting the clusters in the chains.                      *)
(***************************************************************************)
EXTENDS Syscalls, NatLemmas, FiniteSetTheorems, FunctionTheorems

-----------------------------------------------------------------------------
(* Numbers: two entries in three bytes.                                    *)

LEMMA QuotientUnique ==
  ASSUME NEW b \in Nat \ {0}, NEW q \in Nat, NEW r \in 0 .. b - 1, NEW a \in Nat, a = q * b + r
  PROVE  (a \div b) = q /\ (a % b) = r
<1> DEFINE p == a \div b
<1>1. p \in Nat /\ p * b <= a /\ a < p * b + b
  BY DivBracket
<1> HIDE DEF p
<1>2. ~ (p < q)
  <2> SUFFICES ASSUME p < q PROVE FALSE
    OBVIOUS
  <2>1. (p + 1) * b <= q * b
    BY <1>1
  <2> QED  BY <1>1, <2>1
<1>3. ~ (q < p)
  <2> SUFFICES ASSUME q < p PROVE FALSE
    OBVIOUS
  <2>1. (q + 1) * b <= p * b
    BY <1>1
  <2> QED  BY <1>1, <2>1
<1>4. p = q
  BY <1>1, <1>2, <1>3
<1>5. (a % b) = a - (a \div b) * b
  BY SMT
<1>6. (a \div b) = q
  BY <1>4 DEF p
<1> QED  BY <1>5, <1>6

LEMMA Quotient ==
  ASSUME NEW b \in Nat \ {0}, NEW a \in Nat
  PROVE  /\ (a \div b) \in Nat /\ (a % b) \in 0 .. b - 1
         /\ a = (a \div b) * b + (a % b)
BY SMT

\* A number below a product has a quotient below the other factor.
LEMMA QuotientBelow ==
  ASSUME NEW b \in Nat \ {0}, NEW n \in Nat, NEW a \in 0 .. n * b - 1
  PROVE  (a \div b) \in 0 .. n - 1
<1>1. n * b \in Nat /\ a \in Nat /\ a < n * b
  OBVIOUS
<1>2. (a \div b) < n
  BY <1>1, DivBelow
<1>3. (a \div b) \in Nat
  BY Quotient
<1> QED  BY <1>2, <1>3

LEMMA Split ==
  ASSUME NEW b \in Nat \ {0}, NEW n \in Nat, NEW a \in 0 .. n * b - 1
  PROVE  /\ (a \div b) \in 0 .. n - 1 /\ (a % b) \in 0 .. b - 1
         /\ a = (a \div b) * b + (a % b)
<1>1. a \in Nat
  OBVIOUS
<1>2. (a \div b) \in 0 .. n - 1
  BY QuotientBelow
<1> QED  BY ONLY <1>1, <1>2, b \in Nat \ {0}, Quotient

LEMMA Join ==
  ASSUME NEW b \in Nat \ {0}, NEW n \in Nat, NEW q \in 0 .. n - 1, NEW r \in 0 .. b - 1
  PROVE  q * b + r \in 0 .. n * b - 1
<1>1. q * b \in Nat /\ n * b \in Nat /\ (q + 1) * b <= n * b /\ (q + 1) * b = q * b + b
  BY SMT
<1> QED  BY <1>1

\* A word w of two bytes b and c; a byte has p values, a digit n, an entry t.
Packed(n, p, t, b, c, w) ==
  /\ n \in Nat \ {0} /\ p = n * n /\ t = n * p
  /\ b \in 0 .. p - 1 /\ c \in 0 .. p - 1 /\ w = b + p * c

\* A word with a new entry v, above or below the digit that is kept.
UpperKept(n, p, t, y, v, m) ==
  /\ n \in Nat \ {0} /\ p = n * n /\ t = n * p
  /\ y \in 0 .. n - 1 /\ v \in 0 .. t - 1 /\ m = y * t + v
LowerKept(n, p, t, x, v, m) ==
  /\ n \in Nat \ {0} /\ p = n * n /\ t = n * p
  /\ x \in 0 .. n - 1 /\ v \in 0 .. t - 1 /\ m = x + v * n

\* The entry of an even cluster: the first byte and the lower digit of the second.
\* Writing it leaves the upper digit.
LEMMA EvenRead ==
  ASSUME NEW n, NEW p, NEW t, NEW b, NEW c, NEW w, Packed(n, p, t, b, c, w)
  PROVE  /\ (w % t) = b + p * (c % n) /\ (w % t) \in 0 .. t - 1
         /\ (w \div t) = (c \div n)
<1> DEFINE x == c % n
           y == c \div n
<1>0. /\ n \in Nat \ {0} /\ n \in Nat /\ p = n * n /\ t = n * p
      /\ b \in 0 .. p - 1 /\ c \in 0 .. p - 1 /\ w = b + p * c
  BY DEF Packed
<1>1. p \in Nat \ {0} /\ t \in Nat \ {0} /\ t = p * n
  BY <1>0, SMT
<1>2. x \in 0 .. n - 1 /\ y \in 0 .. n - 1 /\ c = y * n + x
  BY ONLY <1>0, n \in Nat \ {0}, n \in Nat, p = n * n, c \in 0 .. p - 1, Split
<1> HIDE DEF x, y
<1>3. x * p + b \in 0 .. t - 1
  BY ONLY <1>0, <1>1, <1>2, t = n * p, n \in Nat, b \in 0 .. p - 1, Join
<1>4. w = y * t + (x * p + b) /\ w \in Nat
  <2>1. p * (y * n + x) = y * t + x * p
    BY <1>0, <1>1, <1>2, SMT
  <2>2. y * t \in Nat /\ x * p \in Nat
    BY <1>0, <1>1, <1>2, SMT
  <2> QED  BY <1>0, <1>1, <1>2, <2>1, <2>2
<1>5. (w \div t) = y /\ (w % t) = x * p + b
  BY ONLY <1>0, <1>1, <1>2, <1>3, <1>4, QuotientUnique, 0 .. n - 1 \subseteq Nat
<1>6. x * p = p * x /\ x * p \in Int
  BY <1>0, <1>1, <1>2, SMT
<1>7. (w % t) = b + p * x /\ (w % t) \in 0 .. t - 1 /\ (w \div t) = y
  BY <1>0, <1>3, <1>5, <1>6
<1> QED  BY <1>0, <1>7 DEF x, y

LEMMA EvenWrite ==
  ASSUME NEW n, NEW p, NEW t, NEW y, NEW v, NEW m, UpperKept(n, p, t, y, v, m)
  PROVE  /\ (m % p) \in 0 .. p - 1 /\ (m \div p) \in 0 .. p - 1
         /\ (m % p) + p * ((m \div p) % n) = v
         /\ ((m \div p) \div n) = y
<1> DEFINE i == v % p
           j == v \div p
           q == y * n + j
<1>0. /\ n \in Nat \ {0} /\ p = n * n /\ t = n * p
      /\ y \in 0 .. n - 1 /\ v \in 0 .. t - 1 /\ m = y * t + v
  BY DEF UpperKept
<1>1. p \in Nat \ {0} /\ t \in Nat \ {0} /\ n \in Nat
  BY <1>0, SMT
<1>2. i \in 0 .. p - 1 /\ j \in 0 .. n - 1 /\ v = j * p + i
  <2>1. n \in Nat /\ p \in Nat \ {0} /\ v \in 0 .. n * p - 1
    BY <1>0, <1>1
  <2> QED  BY ONLY <2>1, Split
<1> HIDE DEF i, j
<1>3. q \in 0 .. p - 1
  BY ONLY <1>0, <1>1, <1>2, y \in 0 .. n - 1, n \in Nat \ {0}, p = n * n, Join
<1>4. m = q * p + i /\ m \in Nat
  <2>1. (y * n + j) * p = y * t + j * p
    BY <1>0, <1>1, <1>2, SMT
  <2>2. y * t \in Nat /\ j * p \in Nat
    BY <1>0, <1>1, <1>2, SMT
  <2> QED  BY <1>0, <1>2, <2>1, <2>2
<1>5. (q \div n) = y /\ (q % n) = j
  <2>1. q \in Nat /\ y \in Nat
    BY <1>0, <1>3
  <2> QED  BY ONLY <1>0, <1>2, <2>1, n \in Nat \ {0}, QuotientUnique
<1> HIDE DEF q
<1>6. (m \div p) = q /\ (m % p) = i
  <2>1. p \in Nat \ {0} /\ q \in Nat /\ i \in 0 .. p - 1 /\ m \in Nat /\ m = q * p + i
    BY <1>1, <1>2, <1>3, <1>4
  <2> QED  BY ONLY <2>1, QuotientUnique
<1>7. j * p = p * j /\ p * j \in Int
  BY <1>0, <1>1, <1>2, SMT
<1>8. i + p * j = v
  BY <1>2, <1>7
<1> QED  BY <1>2, <1>3, <1>5, <1>6, <1>8

\* The entry of an odd cluster: the upper digit of the first byte and the second one.
\* Writing it leaves the lower digit.
LEMMA OddRead ==
  ASSUME NEW n, NEW p, NEW t, NEW b, NEW c, NEW w, Packed(n, p, t, b, c, w)
  PROVE  /\ (w \div n) = (b \div n) + n * c /\ (w \div n) \in 0 .. t - 1
         /\ (w % n) = (b % n)
<1> DEFINE x == b % n
           y == b \div n
<1>0. /\ n \in Nat \ {0} /\ n \in Nat /\ p = n * n /\ t = n * p
      /\ b \in 0 .. p - 1 /\ c \in 0 .. p - 1 /\ w = b + p * c
  BY DEF Packed
<1>1. p \in Nat \ {0} /\ t = p * n
  BY <1>0, SMT
<1>2. x \in 0 .. n - 1 /\ y \in 0 .. n - 1 /\ b = y * n + x
  BY ONLY <1>0, n \in Nat \ {0}, n \in Nat, p = n * n, b \in 0 .. p - 1, Split
<1> HIDE DEF x, y
<1>3. w = (y + n * c) * n + x /\ w \in Nat /\ y + n * c \in Nat
  <2>1. (y + n * c) * n = y * n + p * c
    BY <1>0, <1>2, SMT
  <2>2. n * c \in Nat /\ p * c \in Nat /\ y * n \in Nat
    BY <1>0, <1>1, <1>2, SMT
  <2> QED  BY <1>0, <1>2, <2>1, <2>2
<1>4. (w \div n) = y + n * c /\ (w % n) = x
  <2> DEFINE q == y + n * c
  <2>1. w = q * n + x /\ w \in Nat /\ q \in Nat
    BY <1>0, <1>3
  <2> HIDE DEF q
  <2>2. (w \div n) = q /\ (w % n) = x
    BY ONLY <1>0, <1>2, <2>1, n \in Nat \ {0}, QuotientUnique
  <2> QED  BY <1>0, <2>2 DEF q
<1>5. y + n * c \in 0 .. t - 1
  <2>1. c * n + y \in 0 .. p * n - 1
    BY ONLY <1>0, <1>1, <1>2, p \in Nat, n \in Nat \ {0}, c \in 0 .. p - 1, Join
  <2>2. c * n = n * c /\ n * c \in Int
    BY <1>0, SMT
  <2> QED  BY <1>0, <1>1, <1>2, <2>1, <2>2
<1>6. (w \div n) = y + n * c /\ (w \div n) \in 0 .. t - 1 /\ (w % n) = x
  BY <1>0, <1>4, <1>5
<1> QED  BY <1>0, <1>6 DEF x, y

LEMMA OddWrite ==
  ASSUME NEW n, NEW p, NEW t, NEW x, NEW v, NEW m, LowerKept(n, p, t, x, v, m)
  PROVE  /\ (m % p) \in 0 .. p - 1 /\ (m \div p) \in 0 .. p - 1
         /\ ((m % p) \div n) + n * (m \div p) = v
         /\ ((m % p) % n) = x
<1> DEFINE i == v % n
           j == v \div n
           r == i * n + x
<1>0. /\ n \in Nat \ {0} /\ p = n * n /\ t = n * p
      /\ x \in 0 .. n - 1 /\ v \in 0 .. t - 1 /\ m = x + v * n
  BY DEF LowerKept
<1>1. p \in Nat \ {0} /\ t = p * n /\ p \in Nat
  BY <1>0, SMT
<1>2. i \in 0 .. n - 1 /\ j \in 0 .. p - 1 /\ v = j * n + i
  <2>1. n \in Nat \ {0} /\ p \in Nat /\ v \in 0 .. p * n - 1
    BY <1>0, <1>1
  <2> QED  BY ONLY <2>1, Split
<1> HIDE DEF i, j
<1>3. r \in 0 .. p - 1
  BY ONLY <1>0, <1>1, <1>2, x \in 0 .. n - 1, n \in Nat \ {0}, n \in Nat, p = n * n, Join
<1>4. m = j * p + r /\ m \in Nat
  <2>1. (j * n + i) * n = j * p + i * n
    BY <1>0, <1>2, SMT
  <2>2. j * p \in Nat
    BY <1>0, <1>1, <1>2, SMT
  <2> QED  BY <1>0, <1>2, <1>3, <2>1, <2>2
<1>5. (r \div n) = i /\ (r % n) = x
  <2>1. r \in Nat /\ i \in Nat
    BY <1>0, <1>2, <1>3
  <2> QED  BY ONLY <1>0, <2>1, n \in Nat \ {0}, x \in 0 .. n - 1, QuotientUnique
<1> HIDE DEF r
<1>6. (m \div p) = j /\ (m % p) = r
  <2>1. p \in Nat \ {0} /\ j \in Nat /\ r \in 0 .. p - 1 /\ m \in Nat /\ m = j * p + r
    BY <1>1, <1>2, <1>3, <1>4
  <2> QED  BY ONLY <2>1, QuotientUnique
<1>7. j * n = n * j /\ n * j \in Int
  BY <1>0, <1>2, SMT
<1>8. i + n * j = v
  BY <1>2, <1>7
<1> QED  BY <1>2, <1>3, <1>5, <1>6, <1>8

-----------------------------------------------------------------------------
(* The first copy of the FAT as a row of bytes, and its entries as numbers. *)

FatBytes == FatSectors * SectorBytes
FatByte(d, i) == d[fat_start_sector + (i \div SectorBytes)][i % SectorBytes]

AllClusters == 2 .. FatCapacity - 1
Straddles(c) == (fat_offset(c) % SectorBytes) + 1 >= SectorBytes

\* The clusters before the first one whose entry lies across two sectors.
Clusters == {c \in AllClusters : \A b \in 2 .. c : ~ Straddles(b)}

Value(d, c) ==
  LET o == fat_offset(c)
  IN  IF c % 2 = 1 THEN (FatByte(d, o) \div Nibble) + Nibble * FatByte(d, o + 1)
      ELSE FatByte(d, o) + ByteValues * (FatByte(d, o + 1) % Nibble)

IsDisk(d) == d = [s \in DiskSectors |-> d[s]]

FatTyped(d) ==
  /\ IsDisk(d)
  /\ \A s \in 1 .. FatSectors : d[s] \in [0 .. SectorBytes - 1 -> 0 .. ByteValues - 1]

LEMMA Sizes ==
  /\ SectorBytes \in Nat \ {0} /\ FatSectors \in Nat \ {0} /\ NumFats \in Nat \ {0}
  /\ RootSectors \in Nat \ {0} /\ DataSectors \in Nat \ {0} /\ SectorsPerCluster \in Nat \ {0}
  /\ EntriesPerSector \in Nat \ {0} /\ SectorUnits \in Nat \ {0}
  /\ Nibble \in Nat \ {0} /\ Nibble >= 3
<1>1. {SectorBytes, SectorUnits, EntriesPerSector, FatSectors, NumFats, RootSectors,
      DataSectors, SectorsPerCluster} \subseteq Nat \ {0}
  BY GeometryAssumption
<1>2. /\ SectorBytes \in Nat \ {0} /\ FatSectors \in Nat \ {0} /\ NumFats \in Nat \ {0}
      /\ RootSectors \in Nat \ {0} /\ DataSectors \in Nat \ {0} /\ SectorsPerCluster \in Nat \ {0}
      /\ EntriesPerSector \in Nat \ {0} /\ SectorUnits \in Nat \ {0}
  BY ONLY <1>1, Zenon
<1>3. Nibble \in Nat /\ Nibble >= 3
  BY GeometryAssumption
<1>4. Nibble \in Nat \ {0}
  BY <1>3
<1> QED  BY <1>2, <1>3, <1>4

LEMMA Regions ==
  /\ root_dir_start_sector \in Nat /\ data_start_sector \in Nat
  /\ FatSectors < root_dir_start_sector /\ root_dir_start_sector < data_start_sector
  /\ root_dir_start_sector = 1 + NumFats * FatSectors
  /\ data_start_sector = root_dir_start_sector + RootSectors
  /\ DiskSectors = 0 .. data_start_sector + DataSectors - 1
  /\ 1 .. FatSectors \subseteq DiskSectors
<1>1. NumFats * FatSectors \in Nat /\ FatSectors <= NumFats * FatSectors
  BY Sizes, SMT
<1>2. root_dir_start_sector = 1 + NumFats * FatSectors
  BY DEF root_dir_start_sector, fat_start_sector
<1>3. data_start_sector = root_dir_start_sector + RootSectors
  BY DEF data_start_sector
<1>4. DiskSectors = 0 .. data_start_sector + DataSectors - 1
  BY DEF DiskSectors
<1> QED  BY <1>1, <1>2, <1>3, <1>4, Sizes

\* The two bytes of an entry lie in the FAT.
LEMMA OffsetType ==
  ASSUME NEW c \in AllClusters
  PROVE  /\ fat_offset(c) \in Nat /\ fat_offset(c) + 1 < FatBytes /\ FatBytes \in Nat
         /\ (c % 2) = 1 => 2 * fat_offset(c) + 1 = 3 * c
         /\ (c % 2) # 1 => 2 * fat_offset(c) = 3 * c
<1>1. FatBytes \in Nat /\ FatCapacity = (FatBytes * 2) \div 3
  BY Sizes DEF FatBytes, FatCapacity
<1>2. 3 * FatCapacity <= 2 * FatBytes /\ FatCapacity \in Nat
  BY <1>1
<1>3. c \in Nat /\ c + 1 <= FatCapacity
  BY <1>2 DEF AllClusters
<1>4. fat_offset(c) = c + (c \div 2)
  BY DEF fat_offset
<1> QED  BY <1>1, <1>2, <1>3, <1>4

LEMMA ByteAt ==
  ASSUME NEW i \in 0 .. FatBytes - 1
  PROVE  /\ fat_start_sector + (i \div SectorBytes) \in 1 .. FatSectors
         /\ (i % SectorBytes) \in 0 .. SectorBytes - 1
         /\ i = (i \div SectorBytes) * SectorBytes + (i % SectorBytes)
<1>1. SectorBytes \in Nat \ {0} /\ FatSectors \in Nat
  BY Sizes
<1>2. i \in 0 .. FatSectors * SectorBytes - 1
  BY DEF FatBytes
<1>3. /\ (i \div SectorBytes) \in 0 .. FatSectors - 1
      /\ (i % SectorBytes) \in 0 .. SectorBytes - 1
      /\ i = (i \div SectorBytes) * SectorBytes + (i % SectorBytes)
  BY ONLY <1>1, <1>2, Split
<1> QED  BY <1>1, <1>3 DEF fat_start_sector

LEMMA FatByteType ==
  ASSUME NEW d, FatTyped(d), NEW i \in 0 .. FatBytes - 1
  PROVE  FatByte(d, i) \in 0 .. ByteValues - 1
BY ByteAt DEF FatTyped, FatByte

\* Two bytes in one sector.
LEMMA Neighbours ==
  ASSUME NEW i \in 0 .. FatBytes - 1, (i % SectorBytes) + 1 < SectorBytes
  PROVE  /\ ((i + 1) \div SectorBytes) = (i \div SectorBytes)
         /\ ((i + 1) % SectorBytes) = (i % SectorBytes) + 1
<1> DEFINE q == i \div SectorBytes
           r == i % SectorBytes
<1>1. SectorBytes \in Nat \ {0} /\ q \in Nat /\ r \in 0 .. SectorBytes - 1 /\ i = q * SectorBytes + r
  <2>1. SectorBytes \in Nat \ {0} /\ i \in Nat
    BY Sizes
  <2> QED  BY ONLY <2>1, Quotient
<1> HIDE DEF q, r
<1>2. r + 1 < SectorBytes
  BY DEF r
<1>3. r + 1 \in 0 .. SectorBytes - 1 /\ i + 1 = q * SectorBytes + (r + 1) /\ i + 1 \in Nat
  <2>1. q * SectorBytes \in Nat
    BY <1>1, SMT
  <2> QED  BY <1>1, <1>2, <2>1
<1>4. ((i + 1) \div SectorBytes) = q /\ ((i + 1) % SectorBytes) = r + 1
  <2> DEFINE j == i + 1
             t == r + 1
  <2>1. t \in 0 .. SectorBytes - 1 /\ j = q * SectorBytes + t /\ j \in Nat
    BY <1>3
  <2> HIDE DEF j, t
  <2>2. (j \div SectorBytes) = q /\ (j % SectorBytes) = t
    BY ONLY <1>1, <2>1, QuotientUnique
  <2> QED  BY <2>2 DEF j, t
<1> QED  BY <1>4 DEF q, r

LEMMA SameByte ==
  ASSUME NEW i \in 0 .. FatBytes - 1, NEW k \in 0 .. FatBytes - 1,
         (i \div SectorBytes) = (k \div SectorBytes), (i % SectorBytes) = (k % SectorBytes)
  PROVE  i = k
BY ByteAt

LEMMA Radices ==
  /\ Nibble \in Nat \ {0} /\ ByteValues = Nibble * Nibble /\ EntryValues = Nibble * ByteValues
  /\ ByteValues \in Nat \ {0} /\ EntryValues \in Nat \ {0} /\ LAST = EntryValues - 1
<1>1. ByteValues = Nibble * Nibble /\ EntryValues = Nibble * Nibble * Nibble /\ LAST = EntryValues - 1
  BY DEF ByteValues, EntryValues, LAST
<1>2. Nibble \in Nat \ {0}
  BY Sizes
<1> QED  BY <1>1, <1>2, SMT

\* What the bytes of an entry say.
LEMMA ValueOf ==
  ASSUME NEW d, FatTyped(d), NEW c \in AllClusters,
         NEW w, w = FatByte(d, fat_offset(c)) + ByteValues * FatByte(d, fat_offset(c) + 1)
  PROVE  /\ Value(d, c) = IF c % 2 = 1 THEN w \div Nibble ELSE w % EntryValues
         /\ Value(d, c) \in 0 .. LAST
<1> DEFINE x == FatByte(d, fat_offset(c))
           y == FatByte(d, fat_offset(c) + 1)
<1>1. fat_offset(c) \in 0 .. FatBytes - 1 /\ fat_offset(c) + 1 \in 0 .. FatBytes - 1
  BY OffsetType
<1>2. x \in 0 .. ByteValues - 1 /\ y \in 0 .. ByteValues - 1
  BY <1>1, FatByteType
<1>3. Value(d, c) = IF c % 2 = 1 THEN (x \div Nibble) + Nibble * y ELSE x + ByteValues * (y % Nibble)
  BY DEF Value
<1>4. w = x + ByteValues * y
  OBVIOUS
<1> HIDE DEF x, y
<1>0. Packed(Nibble, ByteValues, EntryValues, x, y, w)
  BY <1>2, <1>4, Radices DEF Packed
<1>5. (w \div Nibble) = (x \div Nibble) + Nibble * y /\ (w \div Nibble) \in 0 .. EntryValues - 1
  BY ONLY <1>0, OddRead
<1>6. (w % EntryValues) = x + ByteValues * (y % Nibble) /\ (w % EntryValues) \in 0 .. EntryValues - 1
  BY ONLY <1>0, EvenRead
<1> QED  BY <1>3, <1>5, <1>6, Radices

LEMMA ValueType ==
  ASSUME NEW d, FatTyped(d), NEW c \in AllClusters
  PROVE  Value(d, c) \in 0 .. LAST
BY ValueOf

\* Reading an entry that does not lie across two sectors.
LEMMA ReadEntry ==
  ASSUME NEW d, FatTyped(d), NEW c \in Clusters, NEW g
  PROVE  read_fat_entry(d, c, g) = Value(d, c) /\ Value(d, c) \in 0 .. LAST
<1> DEFINE o == fat_offset(c)
           w == FatByte(d, o) + ByteValues * FatByte(d, o + 1)
<1>1. c \in AllClusters /\ ~ Straddles(c) /\ c \in Nat
  BY DEF Clusters, AllClusters
<1>2. o \in 0 .. FatBytes - 1
  BY <1>1, OffsetType
<1>3. FatBuffer(d, c) = d[fat_start_sector + (o \div SectorBytes)]
  <2>1. FatSector(c) \in 1 .. FatSectors
    BY <1>2, ByteAt DEF FatSector
  <2>2. FatSector(c) \in DOMAIN d
    BY <2>1, Regions DEF FatTyped, IsDisk
  <2> QED  BY <2>2 DEF FatBuffer, read_ramdisk_sector, FatSector
<1>4. Word(FatBuffer(d, c), o % SectorBytes, g) = w
  <2>1. (o % SectorBytes) + 1 < SectorBytes
    BY <1>1, <1>2, ByteAt, Sizes DEF Straddles
  <2>2. /\ ((o + 1) \div SectorBytes) = (o \div SectorBytes)
        /\ ((o + 1) % SectorBytes) = (o % SectorBytes) + 1
    BY <1>2, <2>1, Neighbours
  <2> QED  BY <1>3, <2>1, <2>2 DEF Word, FatByte
<1>5. read_fat_entry(d, c, g) = IF c % 2 = 1 THEN w \div Nibble ELSE w % EntryValues
  BY <1>4 DEF read_fat_entry
<1> QED  BY <1>1, <1>5, ValueOf

\* Behind those clusters an entry that is zero is read as zero, if nothing but
\* zero follows the buffer.
LEMMA ReadBeyond ==
  ASSUME NEW d, FatTyped(d), NEW c \in AllClusters, Value(d, c) = 0
  PROVE  read_fat_entry(d, c, 0) = 0
<1> DEFINE o == fat_offset(c)
           x == FatByte(d, o)
           y == FatByte(d, o + 1)
           w == Word(FatBuffer(d, c), o % SectorBytes, 0)
<1>1. c \in Nat
  BY DEF AllClusters
<1>2. o \in 0 .. FatBytes - 1 /\ o + 1 \in 0 .. FatBytes - 1
  BY OffsetType
<1>3. x \in 0 .. ByteValues - 1 /\ y \in 0 .. ByteValues - 1
  BY <1>2, FatByteType
<1>4. FatBuffer(d, c) = d[fat_start_sector + (o \div SectorBytes)]
  <2>1. FatSector(c) \in 1 .. FatSectors
    BY <1>2, ByteAt DEF FatSector
  <2>2. FatSector(c) \in DOMAIN d
    BY <2>1, Regions DEF FatTyped, IsDisk
  <2> QED  BY <2>2 DEF FatBuffer, read_ramdisk_sector, FatSector
<1>5. w = x + ByteValues * y \/ w = x + ByteValues * 0
  <2>1. CASE (o % SectorBytes) + 1 < SectorBytes
    <3>1. /\ ((o + 1) \div SectorBytes) = (o \div SectorBytes)
          /\ ((o + 1) % SectorBytes) = (o % SectorBytes) + 1
      BY <1>2, <2>1, Neighbours
    <3> QED  BY <1>4, <2>1, <3>1 DEF Word, FatByte
  <2>2. CASE ~ ((o % SectorBytes) + 1 < SectorBytes)
    BY <1>4, <2>2 DEF Word, FatByte
  <2> QED  BY <2>1, <2>2
<1>6. read_fat_entry(d, c, 0) = IF c % 2 = 1 THEN w \div Nibble ELSE w % EntryValues
  BY DEF read_fat_entry
<1>7. IF c % 2 = 1 THEN (x \div Nibble) + Nibble * y = 0 ELSE x + ByteValues * (y % Nibble) = 0
  BY DEF Value
<1> HIDE DEF w, x, y, o
<1>8. 0 \in 0 .. ByteValues - 1 /\ (0 % Nibble) = 0
  BY Radices
<1>9. (x \div Nibble) \in Nat /\ (y % Nibble) \in Nat /\ x \in Nat /\ y \in Nat
  BY <1>3, Radices, Quotient
<1>10. CASE c % 2 = 1
  <2>1. (x \div Nibble) = 0 /\ y = 0
    <3>1. Nibble * y \in Nat /\ (y > 0 => Nibble * y > 0)
      BY <1>9, Radices, SMT
    <3> QED  BY <1>7, <1>9, <1>10, <3>1
  <2>2. w = x + ByteValues * 0
    BY <1>5, <2>1
  <2>3. (w \div Nibble) = (x \div Nibble) + Nibble * 0
    <3>1. Packed(Nibble, ByteValues, EntryValues, x, 0, w)
      BY <1>3, <1>8, <2>2, Radices DEF Packed
    <3> QED  BY ONLY <3>1, OddRead
  <2> QED  BY <1>6, <1>10, <2>1, <2>3, Radices
<1>11. CASE c % 2 # 1
  <2>1. x = 0 /\ (y % Nibble) = 0
    <3> DEFINE z == y % Nibble
    <3>1. z \in Nat /\ x + ByteValues * z = 0
      BY <1>7, <1>9, <1>11
    <3> HIDE DEF z
    <3>2. ByteValues * z \in Nat /\ (z > 0 => ByteValues * z > 0)
      BY <3>1, Radices, SMT
    <3>3. x = 0 /\ z = 0
      BY <1>9, <3>1, <3>2
    <3> QED  BY <3>3 DEF z
  <2>2. (w % EntryValues) = 0
    <3>1. CASE w = x + ByteValues * y
      <4>1. (w % EntryValues) = x + ByteValues * (y % Nibble)
        <5>1. Packed(Nibble, ByteValues, EntryValues, x, y, w)
          BY <1>3, <3>1, Radices DEF Packed
        <5> QED  BY ONLY <5>1, EvenRead
      <4> QED  BY <2>1, <4>1, Radices
    <3>2. CASE w = x + ByteValues * 0
      <4>1. (w % EntryValues) = x + ByteValues * (0 % Nibble)
        <5>1. Packed(Nibble, ByteValues, EntryValues, x, 0, w)
          BY <1>3, <1>8, <3>2, Radices DEF Packed
        <5> QED  BY ONLY <5>1, EvenRead
      <4> QED  BY <1>8, <2>1, <4>1, Radices
    <3> QED  BY <1>5, <3>1, <3>2
  <2> QED  BY <1>6, <1>11, <2>2
<1> QED  BY <1>10, <1>11

-----------------------------------------------------------------------------
(* Writing an entry: into every copy of the FAT, and nowhere else.         *)

\* The directory and the data are the same.
SameBehind(d, r) == \A s \in DiskSectors : s >= root_dir_start_sector => r[s] = d[s]

Copied(d, r, sector, buffer) ==
  /\ IsDisk(r) /\ r[sector] = buffer /\ SameBehind(d, r)
  /\ \A s \in 1 .. FatSectors : s # sector => r[s] = d[s]

\* A copy lies behind the first one and before the root directory.
LEMMA CopySector ==
  ASSUME NEW sector \in 1 .. FatSectors, NEW j \in 1 .. NumFats
  PROVE  /\ sector + FatSectors * (j - 1) \in DiskSectors
         /\ sector + FatSectors * (j - 1) < root_dir_start_sector
         /\ j # 1 => sector + FatSectors * (j - 1) > FatSectors
         /\ j = 1 => sector + FatSectors * (j - 1) = sector
<1> DEFINE x == FatSectors * (j - 1)
<1>1. x \in Nat /\ x + FatSectors <= NumFats * FatSectors
  <2>1. FatSectors \in Nat \ {0} /\ NumFats \in Nat \ {0}
    BY Sizes
  <2>2. j - 1 \in Nat /\ (j - 1) + 1 <= NumFats
    BY <2>1
  <2>3. FatSectors * (j - 1) + FatSectors = FatSectors * j /\ FatSectors * j <= FatSectors * NumFats
    BY <2>1, <2>2, SMT
  <2>4. FatSectors * NumFats = NumFats * FatSectors /\ x \in Nat
    BY <2>1, <2>2, SMT
  <2> QED  BY <2>3, <2>4
<1>2. j # 1 => x >= FatSectors
  BY Sizes, SMT
<1>3. j = 1 => x = 0
  BY Sizes, SMT
<1> HIDE DEF x
<1>4. /\ sector + x \in DiskSectors
      /\ sector + x < root_dir_start_sector
      /\ j # 1 => sector + x > FatSectors
      /\ j = 1 => sector + x = sector
  BY <1>1, <1>2, <1>3, Regions, Sizes
<1> QED  BY <1>4 DEF x

LEMMA CopiesWritten ==
  ASSUME NEW d, IsDisk(d), NEW sector \in 1 .. FatSectors, NEW buffer
  PROVE  Copied(d, WriteCopies(d, sector, buffer), sector, buffer)
<1> DEFINE at(j) == sector + FatSectors * (j - 1)
           G(f, i) == IF i = 0 THEN d ELSE write_ramdisk_sector(f[i - 1], sector + FatSectors * (i - 1), buffer)
           W == CHOOSE f : f = [i \in 0 .. NumFats |-> G(f, i)]
           h == [i \in 0 .. NumFats |->
                   [s \in DiskSectors |-> IF \E j \in 1 .. i : s = at(j) THEN buffer ELSE d[s]]]
<1>0. NumFats \in Nat \ {0}
  BY Sizes
<1>1. \A j \in 1 .. NumFats : /\ at(j) \in DiskSectors /\ at(j) < root_dir_start_sector
                              /\ j # 1 => at(j) > FatSectors
                              /\ j = 1 => at(j) = sector
  BY CopySector
<1>2. \A f, i : i # 0 => G(f, i) = write_ramdisk_sector(f[i - 1], at(i), buffer)
  OBVIOUS
<1> HIDE DEF at, G
<1>3. h = [i \in 0 .. NumFats |-> G(h, i)]
  <2>1. h = [i \in 0 .. NumFats |-> h[i]]
    OBVIOUS
  <2>2. h[0] = G(h, 0)
    <3>1. h[0] = [s \in DiskSectors |-> IF \E j \in 1 .. 0 : s = at(j) THEN buffer ELSE d[s]]
      BY <1>0
    <3>2. h[0] = [s \in DiskSectors |-> d[s]]
      BY <3>1
    <3> HIDE DEF h
    <3> QED  BY <3>2 DEF G, IsDisk
  <2>3. ASSUME NEW i \in 1 .. NumFats PROVE h[i] = G(h, i)
    <3>1. i - 1 \in 0 .. NumFats /\ i \in 0 .. NumFats /\ i # 0
      BY <1>0
    <3> DEFINE a == h[i - 1]
    <3>2. a = [s \in DiskSectors |-> IF \E j \in 1 .. i - 1 : s = at(j) THEN buffer ELSE d[s]]
      BY <3>1
    <3>3. h[i] = [s \in DiskSectors |-> IF \E j \in 1 .. i : s = at(j) THEN buffer ELSE d[s]]
      BY <3>1
    <3> HIDE DEF h
    <3>4. at(i) \in DiskSectors
      BY <1>1
    <3>5. G(h, i) = write_ramdisk_sector(a, at(i), buffer)
      BY <1>2, <3>1
    <3> HIDE DEF a
    <3>6. G(h, i) = [a EXCEPT ![at(i)] = buffer]
      BY <3>2, <3>4, <3>5 DEF write_ramdisk_sector
    <3>7. \A s \in DiskSectors : (\E j \in 1 .. i : s = at(j)) <=> (s = at(i) \/ \E j \in 1 .. i - 1 : s = at(j))
      <4>1. \A j \in 1 .. i : j = i \/ j \in 1 .. i - 1
        BY <3>1
      <4>2. i \in 1 .. i /\ \A j \in 1 .. i - 1 : j \in 1 .. i
        BY <3>1
      <4> QED  BY <4>1, <4>2
    <3>8. [a EXCEPT ![at(i)] = buffer] = [s \in DiskSectors |-> IF \E j \in 1 .. i : s = at(j) THEN buffer ELSE d[s]]
      BY <3>2, <3>4, <3>7
    <3> QED  BY <3>3, <3>6, <3>8
  <2> HIDE DEF h
  <2>4. \A i \in 0 .. NumFats : h[i] = G(h, i)
    <3>1. \A i \in 0 .. NumFats : i = 0 \/ i \in 1 .. NumFats
      BY <1>0
    <3> QED  BY <2>2, <2>3, <3>1
  <2> QED  BY <2>1, <2>4
<1> HIDE DEF h
<1>4. W = [i \in 0 .. NumFats |-> G(W, i)]
  BY <1>3
<1>5. WriteCopies(d, sector, buffer) = W[NumFats]
  BY DEF WriteCopies, G
<1> HIDE DEF W
<1> DEFINE S == {k \in Nat : k <= NumFats => W[k] = h[k]}
<1>6. 0 \in S
  <2>0. 0 \in 0 .. NumFats
    BY <1>0
  <2>1. W[0] = G(W, 0) /\ h[0] = G(h, 0)
    BY ONLY <1>3, <1>4, <2>0
  <2> QED  BY <2>1 DEF G
<1>7. ASSUME NEW k \in S PROVE k + 1 \in S
  <2> SUFFICES ASSUME k + 1 <= NumFats PROVE W[k + 1] = h[k + 1]
    OBVIOUS
  <2>1. k + 1 \in 0 .. NumFats /\ (k + 1) - 1 = k /\ k + 1 # 0 /\ W[k] = h[k]
    BY <1>0
  <2>2. W[k + 1] = G(W, k + 1) /\ h[k + 1] = G(h, k + 1)
    BY <1>3, <1>4, <2>1
  <2> QED  BY <1>2, <2>1, <2>2
<1> HIDE DEF S
<1>8. S = Nat
  BY <1>6, <1>7, SetInduction DEF S
<1>9. WriteCopies(d, sector, buffer) = h[NumFats]
  BY <1>0, <1>5, <1>8 DEF S
<1>10. h[NumFats] = [s \in DiskSectors |-> IF \E j \in 1 .. NumFats : s = at(j) THEN buffer ELSE d[s]]
  BY <1>0 DEF h
<1> DEFINE r == h[NumFats]
<1>11. IsDisk(r)
  BY <1>10 DEF IsDisk
<1>12. r[sector] = buffer
  <2>1. 1 \in 1 .. NumFats /\ at(1) = sector /\ sector \in DiskSectors
    BY <1>0, <1>1
  <2> QED  BY <1>10, <2>1
<1>13. SameBehind(d, r)
  <2> SUFFICES ASSUME NEW s \in DiskSectors, s >= root_dir_start_sector PROVE r[s] = d[s]
    BY DEF SameBehind
  <2>1. ~ (s < root_dir_start_sector)
    BY Regions, Sizes
  <2>2. ~ \E j \in 1 .. NumFats : s = at(j)
    BY <1>1, <2>1
  <2> QED  BY <1>10, <2>1, <2>2
<1>14. ASSUME NEW s \in 1 .. FatSectors, s # sector PROVE r[s] = d[s]
  <2>1. s \in DiskSectors /\ ~ (s > FatSectors)
    BY Regions, Sizes
  <2>2. ~ \E j \in 1 .. NumFats : s = at(j)
    BY <1>1, <1>14, <2>1
  <2> QED  BY <1>10, <2>1, <2>2
<1> QED  BY <1>9, <1>11, <1>12, <1>13, <1>14 DEF Copied

\* What the two bytes of an entry become.
NewWord(d, c, v) ==
  LET w == FatByte(d, fat_offset(c)) + ByteValues * FatByte(d, fat_offset(c) + 1)
  IN  Merged(c, w, v)

LEMMA WrittenBytes ==
  ASSUME NEW d, FatTyped(d), NEW c \in Clusters, NEW v, NEW g,
         NEW m, m = NewWord(d, c, v),
         (m % ByteValues) \in 0 .. ByteValues - 1, (m \div ByteValues) \in 0 .. ByteValues - 1,
         NEW r, r = write_fat_entry(d, c, v, g)
  PROVE  /\ FatTyped(r) /\ SameBehind(d, r)
         /\ FatByte(r, fat_offset(c)) = (m % ByteValues)
         /\ FatByte(r, fat_offset(c) + 1) = (m \div ByteValues)
         /\ \A i \in 0 .. FatBytes - 1 :
              i # fat_offset(c) /\ i # fat_offset(c) + 1 => FatByte(r, i) = FatByte(d, i)
<1> DEFINE o == fat_offset(c)
           q == o \div SectorBytes
           e == o % SectorBytes
           sector == fat_start_sector + q
           old == d[sector]
           lo == m % ByteValues
           hi == m \div ByteValues
           buffer == [[old EXCEPT ![e] = lo] EXCEPT ![e + 1] = hi]
<1>1. c \in AllClusters /\ ~ Straddles(c)
  BY DEF Clusters, AllClusters
<1>2. o \in 0 .. FatBytes - 1 /\ o + 1 \in 0 .. FatBytes - 1
  BY <1>1, OffsetType
<1>3. sector \in 1 .. FatSectors /\ e \in 0 .. SectorBytes - 1
  BY <1>2, ByteAt
<1>4. e + 1 < SectorBytes /\ e + 1 \in 0 .. SectorBytes - 1
  BY <1>1, <1>3, Sizes DEF Straddles
<1>5. ((o + 1) \div SectorBytes) = q /\ ((o + 1) % SectorBytes) = e + 1
  BY <1>2, <1>4, Neighbours
<1>6. FatBuffer(d, c) = old
  <2>1. FatSector(c) = sector
    BY DEF FatSector
  <2>2. sector \in DOMAIN d
    BY <1>3, Regions DEF FatTyped, IsDisk
  <2> QED  BY <2>1, <2>2 DEF FatBuffer, read_ramdisk_sector
<1>7. Word(old, e, g) = FatByte(d, o) + ByteValues * FatByte(d, o + 1)
  BY <1>4, <1>5 DEF Word, FatByte
<1>8. r = WriteCopies(d, sector, buffer)
  <2>1. FatSector(c) = sector
    BY DEF FatSector
  <2>2. m = Merged(c, Word(old, e, g), v)
    BY <1>7 DEF NewWord
  <2> QED  BY ONLY <1>4, <1>6, <2>1, <2>2, r = write_fat_entry(d, c, v, g), Zenon DEF write_fat_entry
<1>9. old \in [0 .. SectorBytes - 1 -> 0 .. ByteValues - 1]
  BY <1>3 DEF FatTyped
<1>10. lo \in 0 .. ByteValues - 1 /\ hi \in 0 .. ByteValues - 1
  OBVIOUS
<1>11. IsDisk(d)
  BY DEF FatTyped
<1> HIDE DEF o, q, e, lo, hi
<1>12. /\ buffer \in [0 .. SectorBytes - 1 -> 0 .. ByteValues - 1]
       /\ buffer[e] = lo /\ buffer[e + 1] = hi
       /\ \A j \in 0 .. SectorBytes - 1 : j # e /\ j # e + 1 => buffer[j] = old[j]
  <2> DEFINE b1 == [old EXCEPT ![e] = lo]
  <2> HIDE DEF old, sector
  <2>1. b1 \in [0 .. SectorBytes - 1 -> 0 .. ByteValues - 1] /\ b1[e] = lo
    BY <1>3, <1>9, <1>10
  <2>2. \A j \in 0 .. SectorBytes - 1 : j # e => b1[j] = old[j]
    BY <1>9
  <2> HIDE DEF b1
  <2>3. buffer = [b1 EXCEPT ![e + 1] = hi]
    BY DEF b1
  <2>4. e # e + 1
    BY <1>3
  <2> HIDE DEF buffer
  <2> QED  BY <1>3, <1>4, <1>10, <2>1, <2>2, <2>3, <2>4
<1> HIDE DEF sector, old, buffer
<1>13. Copied(d, r, sector, buffer)
  BY <1>3, <1>8, <1>11, CopiesWritten
<1>14. IsDisk(r) /\ r[sector] = buffer /\ SameBehind(d, r)
  BY <1>13 DEF Copied
<1>15. \A s \in 1 .. FatSectors : s # sector => r[s] = d[s]
  BY <1>13 DEF Copied
<1>16. FatTyped(r)
  BY <1>12, <1>14, <1>15 DEF FatTyped
<1>17. FatByte(r, o) = lo
  BY <1>12, <1>14 DEF FatByte, sector, q, e
<1>18. FatByte(r, o + 1) = hi
  BY <1>5, <1>12, <1>14 DEF FatByte, sector
<1>19. ASSUME NEW i \in 0 .. FatBytes - 1, i # o, i # o + 1 PROVE FatByte(r, i) = FatByte(d, i)
  <2> DEFINE s == fat_start_sector + (i \div SectorBytes)
             j == i % SectorBytes
  <2>1. s \in 1 .. FatSectors /\ j \in 0 .. SectorBytes - 1
    BY ByteAt
  <2>2. CASE s # sector
    BY <1>15, <2>1, <2>2 DEF FatByte
  <2>3. CASE s = sector
    <3>1. (i \div SectorBytes) = q
      <4>1. (i \div SectorBytes) \in Int /\ q \in Int
        BY <1>2, Sizes DEF q
      <4> QED  BY <2>3, <4>1 DEF sector, fat_start_sector
    <3>2. j # e
      BY <1>2, <1>19, <3>1, SameByte DEF q, e
    <3>3. j # e + 1
      BY <1>2, <1>5, <1>19, <3>1, SameByte
    <3>4. buffer[j] = old[j]
      BY <1>12, <2>1, <3>2, <3>3
    <3>5. FatByte(r, i) = r[sector][j] /\ FatByte(d, i) = d[sector][j]
      BY <2>3 DEF FatByte
    <3> QED  BY <1>14, <3>4, <3>5 DEF old
  <2> QED  BY <2>2, <2>3
<1> QED  BY <1>14, <1>16, <1>17, <1>18, <1>19 DEF o, lo, hi

\* Writing an entry changes that entry of the FAT, no other, and not the directory,
\* though two entries share a byte.
LEMMA WriteEntry ==
  ASSUME NEW d, FatTyped(d), NEW c \in Clusters, NEW v \in 0 .. LAST, NEW g,
         NEW r, r = write_fat_entry(d, c, v, g)
  PROVE  /\ FatTyped(r) /\ SameBehind(d, r)
         /\ Value(r, c) = v
         /\ \A k \in AllClusters \ {c} : Value(r, k) = Value(d, k)
<1> DEFINE o == fat_offset(c)
           x == FatByte(d, o)
           y == FatByte(d, o + 1)
           w == x + ByteValues * y
           m == NewWord(d, c, v)
           lo == m % ByteValues
           hi == m \div ByteValues
<1>1. c \in AllClusters
  BY DEF Clusters
<1>2. o \in 0 .. FatBytes - 1 /\ o + 1 \in 0 .. FatBytes - 1
  BY <1>1, OffsetType
<1>3. x \in 0 .. ByteValues - 1 /\ y \in 0 .. ByteValues - 1
  BY <1>2, FatByteType
<1>4. m = IF c % 2 = 1 THEN (w % Nibble) + v * Nibble ELSE (w \div EntryValues) * EntryValues + v
  BY DEF NewWord, Merged
<1> HIDE DEF x, y, m
<1>5. Packed(Nibble, ByteValues, EntryValues, x, y, w)
  BY <1>3, Radices DEF Packed
<1> HIDE DEF w
<1>6. v \in 0 .. EntryValues - 1
  BY Radices
<1>7. CASE c % 2 = 1
  <2> DEFINE z == x % Nibble
  <2>1. (w % Nibble) = z
    BY ONLY <1>5, OddRead
  <2>2. z \in 0 .. Nibble - 1
    BY <1>3, Radices
  <2>3. m = z + v * Nibble
    BY <1>4, <1>7, <2>1
  <2> HIDE DEF z
  <2>4. /\ lo \in 0 .. ByteValues - 1 /\ hi \in 0 .. ByteValues - 1
        /\ (lo \div Nibble) + Nibble * hi = v /\ (lo % Nibble) = z
    <3>1. LowerKept(Nibble, ByteValues, EntryValues, z, v, m)
      BY <1>6, <2>2, <2>3, Radices DEF LowerKept
    <3> QED  BY ONLY <3>1, OddWrite
  <2>5. /\ FatTyped(r) /\ SameBehind(d, r) /\ FatByte(r, o) = lo /\ FatByte(r, o + 1) = hi
        /\ \A i \in 0 .. FatBytes - 1 : i # o /\ i # o + 1 => FatByte(r, i) = FatByte(d, i)
    BY ONLY <2>4, FatTyped(d), c \in Clusters, r = write_fat_entry(d, c, v, g), WrittenBytes DEF m
  <2>6. Value(r, c) = (lo \div Nibble) + Nibble * hi
    BY <1>7, <2>5 DEF Value
  <2>7. ASSUME NEW k \in AllClusters \ {c} PROVE Value(r, k) = Value(d, k)
    <3> DEFINE j == fat_offset(k)
    <3>1. j \in 0 .. FatBytes - 1 /\ j + 1 \in 0 .. FatBytes - 1
      BY OffsetType
    <3>2. 2 * o + 1 = 3 * c /\ c \in Nat /\ k \in Nat /\ FatBytes \in Nat
      BY <1>1, <1>7, OffsetType DEF AllClusters
    <3>3. CASE k % 2 = 1
      <4>1. 2 * j + 1 = 3 * k
        BY <3>3, OffsetType
      <4> HIDE DEF j, o
      <4>2. j # o /\ j # o + 1 /\ j + 1 # o
        BY <1>2, <3>1, <3>2, <4>1
      <4>3. FatByte(r, j) = FatByte(d, j) /\ FatByte(r, j + 1) = FatByte(d, j + 1)
        BY <1>2, <2>5, <3>1, <4>2
      <4> QED  BY <4>3 DEF Value, j
    <3>4. CASE k % 2 # 1
      <4>1. 2 * j = 3 * k
        BY <3>4, OffsetType
      <4> HIDE DEF j, o
      <4>2. j # o /\ j # o + 1 /\ j + 1 # o + 1
        BY <1>2, <3>1, <3>2, <4>1
      <4>3. FatByte(r, j) = FatByte(d, j)
        BY <1>2, <2>5, <3>1, <4>2
      <4>4. (FatByte(r, j + 1) % Nibble) = (FatByte(d, j + 1) % Nibble)
        <5>1. CASE j + 1 = o
          BY <2>4, <2>5, <5>1 DEF z, x
        <5>2. CASE j + 1 # o
          <6>1. FatByte(r, j + 1) = FatByte(d, j + 1)
            BY <2>5, <3>1, <4>2, <5>2
          <6> QED  BY <6>1
        <5> QED  BY <5>1, <5>2
      <4> QED  BY <3>4, <4>3, <4>4 DEF Value, j
    <3> QED  BY <3>3, <3>4
  <2> QED  BY <2>4, <2>5, <2>6, <2>7
<1>8. CASE c % 2 # 1
  <2> DEFINE z == y \div Nibble
  <2>1. (w \div EntryValues) = z
    BY ONLY <1>5, EvenRead
  <2>2. z \in 0 .. Nibble - 1
    BY <1>3, Radices, QuotientBelow, Nibble \in Nat
  <2>3. m = z * EntryValues + v
    BY <1>4, <1>8, <2>1
  <2> HIDE DEF z
  <2>4. /\ lo \in 0 .. ByteValues - 1 /\ hi \in 0 .. ByteValues - 1
        /\ lo + ByteValues * (hi % Nibble) = v /\ (hi \div Nibble) = z
    <3>1. UpperKept(Nibble, ByteValues, EntryValues, z, v, m)
      BY <1>6, <2>2, <2>3, Radices DEF UpperKept
    <3> QED  BY ONLY <3>1, EvenWrite
  <2>5. /\ FatTyped(r) /\ SameBehind(d, r) /\ FatByte(r, o) = lo /\ FatByte(r, o + 1) = hi
        /\ \A i \in 0 .. FatBytes - 1 : i # o /\ i # o + 1 => FatByte(r, i) = FatByte(d, i)
    BY ONLY <2>4, FatTyped(d), c \in Clusters, r = write_fat_entry(d, c, v, g), WrittenBytes DEF m
  <2>6. Value(r, c) = lo + ByteValues * (hi % Nibble)
    BY <1>8, <2>5 DEF Value
  <2>7. ASSUME NEW k \in AllClusters \ {c} PROVE Value(r, k) = Value(d, k)
    <3> DEFINE j == fat_offset(k)
    <3>1. j \in 0 .. FatBytes - 1 /\ j + 1 \in 0 .. FatBytes - 1
      BY OffsetType
    <3>2. 2 * o = 3 * c /\ c \in Nat /\ k \in Nat /\ FatBytes \in Nat
      BY <1>1, <1>8, OffsetType DEF AllClusters
    <3>3. CASE k % 2 = 1
      <4>1. 2 * j + 1 = 3 * k
        BY <3>3, OffsetType
      <4> HIDE DEF j, o
      <4>2. j # o /\ j + 1 # o /\ j + 1 # o + 1
        BY <1>2, <3>1, <3>2, <4>1
      <4>3. FatByte(r, j + 1) = FatByte(d, j + 1)
        BY <1>2, <2>5, <3>1, <4>2
      <4>4. (FatByte(r, j) \div Nibble) = (FatByte(d, j) \div Nibble)
        <5>1. CASE j = o + 1
          BY <2>4, <2>5, <5>1 DEF z, y
        <5>2. CASE j # o + 1
          <6>1. FatByte(r, j) = FatByte(d, j)
            BY <2>5, <3>1, <4>2, <5>2
          <6> QED  BY <6>1
        <5> QED  BY <5>1, <5>2
      <4> QED  BY <3>3, <4>3, <4>4 DEF Value, j
    <3>4. CASE k % 2 # 1
      <4>1. 2 * j = 3 * k
        BY <3>4, OffsetType
      <4> HIDE DEF j, o
      <4>2. j # o /\ j # o + 1 /\ j + 1 # o
        BY <1>2, <3>1, <3>2, <4>1
      <4>3. FatByte(r, j) = FatByte(d, j) /\ FatByte(r, j + 1) = FatByte(d, j + 1)
        BY <1>2, <2>5, <3>1, <4>2
      <4> QED  BY <4>3 DEF Value, j
    <3> QED  BY <3>3, <3>4
  <2> QED  BY <2>4, <2>5, <2>6, <2>7
<1> QED  BY <1>7, <1>8

-----------------------------------------------------------------------------
(* The disk as its FAT, a function on clusters, and its root directory, a  *)
(* function on positions.                                                  *)

Records == [name : Names \cup {END, DELETED, LABEL}, first : Nat, size : Nat]

DiskTyped(d) ==
  /\ FatTyped(d)
  /\ \A s \in root_dir_start_sector .. data_start_sector - 1 :
       d[s] \in [0 .. EntriesPerSector - 1 -> Records]
  /\ \A s \in DiskSectors : s >= data_start_sector => d[s] \in [1 .. SectorUnits -> Int]

SameData(d, r) == \A s \in DiskSectors : s >= data_start_sector => r[s] = d[s]

Table(d) == [c \in AllClusters |-> Value(d, c)]
Root(d) == [p \in Positions |-> Entry(d, p)]

LEMMA PositionAt ==
  ASSUME NEW p \in Positions
  PROVE  /\ root_dir_start_sector + p \div EntriesPerSector
              \in root_dir_start_sector .. data_start_sector - 1
         /\ (p % EntriesPerSector) \in 0 .. EntriesPerSector - 1
         /\ p = (p \div EntriesPerSector) * EntriesPerSector + (p % EntriesPerSector)
<1>1. EntriesPerSector \in Nat \ {0} /\ RootSectors \in Nat
  BY Sizes
<1>2. p \in 0 .. RootSectors * EntriesPerSector - 1
  BY DEF Positions
<1>3. /\ (p \div EntriesPerSector) \in 0 .. RootSectors - 1
      /\ (p % EntriesPerSector) \in 0 .. EntriesPerSector - 1
      /\ p = (p \div EntriesPerSector) * EntriesPerSector + (p % EntriesPerSector)
  BY ONLY <1>1, <1>2, Split
<1> DEFINE q == p \div EntriesPerSector
<1>4. q \in 0 .. RootSectors - 1
  BY <1>3
<1> HIDE DEF q
<1>5. root_dir_start_sector + q \in root_dir_start_sector .. data_start_sector - 1
  BY <1>1, <1>4, Regions
<1> QED  BY <1>3, <1>5 DEF q

LEMMA EntryType ==
  ASSUME NEW d, DiskTyped(d), NEW p \in Positions
  PROVE  Root(d)[p] = Entry(d, p) /\ Entry(d, p) \in Records
BY PositionAt DEF DiskTyped, Root, Entry

\* A sector of the directory, and one behind it.
LEMMA Behind ==
  /\ \A s \in root_dir_start_sector .. data_start_sector - 1 :
       s \in DiskSectors /\ s >= root_dir_start_sector /\ ~ (s >= data_start_sector)
  /\ \A s \in DiskSectors : s >= data_start_sector => s >= root_dir_start_sector
BY Regions, Sizes

LEMMA SameBehindSame ==
  ASSUME NEW d, DiskTyped(d), NEW r, FatTyped(r), SameBehind(d, r)
  PROVE  DiskTyped(r) /\ Root(r) = Root(d) /\ SameData(d, r)
<1>1. \A s \in root_dir_start_sector .. data_start_sector - 1 : r[s] = d[s]
  BY Behind DEF SameBehind
<1>2. \A p \in Positions : Entry(r, p) = Entry(d, p)
  BY <1>1, PositionAt DEF Entry
<1>3. Root(r) = Root(d)
  BY <1>2 DEF Root
<1>4. SameData(d, r)
  BY Behind DEF SameBehind, SameData
<1> QED  BY <1>1, <1>3, <1>4 DEF DiskTyped, SameData

LEMMA SameFatSame ==
  ASSUME NEW d, FatTyped(d), NEW r, IsDisk(r), \A s \in 1 .. FatSectors : r[s] = d[s]
  PROVE  FatTyped(r) /\ Table(r) = Table(d)
<1>1. ASSUME NEW c \in AllClusters PROVE Value(r, c) = Value(d, c)
  <2> DEFINE o == fat_offset(c)
  <2>1. o \in 0 .. FatBytes - 1 /\ o + 1 \in 0 .. FatBytes - 1
    BY OffsetType
  <2>2. \A i \in 0 .. FatBytes - 1 : FatByte(r, i) = FatByte(d, i)
    BY ByteAt DEF FatByte
  <2> HIDE DEF o
  <2>3. FatByte(r, o) = FatByte(d, o) /\ FatByte(r, o + 1) = FatByte(d, o + 1)
    BY <2>1, <2>2
  <2> QED  BY <2>3 DEF Value, o
<1>2. Table(r) = Table(d)
  BY <1>1 DEF Table
<1> QED  BY <1>2 DEF FatTyped

LEMMA TableType ==
  ASSUME NEW d, DiskTyped(d)
  PROVE  Table(d) \in [AllClusters -> 0 .. LAST]
BY ValueType DEF Table, DiskTyped

\* A cluster whose entry is read is looked up.
LEMMA Lookup ==
  ASSUME NEW d, DiskTyped(d), NEW c \in Clusters, NEW g
  PROVE  read_fat_entry(d, c, g) = Table(d)[c]
BY ReadEntry DEF Table, DiskTyped, Clusters

\* write_fat_entry assigns.
Assigned(f, c, v) == [f EXCEPT ![c] = v]

LEMMA Assign ==
  ASSUME NEW d, DiskTyped(d), NEW c \in Clusters, NEW v \in 0 .. LAST, NEW g,
         NEW r, r = write_fat_entry(d, c, v, g)
  PROVE  DiskTyped(r) /\ Table(r) = Assigned(Table(d), c, v) /\ Root(r) = Root(d) /\ SameData(d, r)
<1>1. /\ FatTyped(r) /\ SameBehind(d, r) /\ Value(r, c) = v
      /\ \A k \in AllClusters \ {c} : Value(r, k) = Value(d, k)
  BY WriteEntry DEF DiskTyped
<1>2. DiskTyped(r) /\ Root(r) = Root(d) /\ SameData(d, r)
  BY <1>1, SameBehindSame
<1>3. c \in AllClusters
  BY DEF Clusters
<1>4. Table(r) = Assigned(Table(d), c, v)
  BY <1>1, <1>3 DEF Table, Assigned
<1> QED  BY <1>2, <1>4

\* Data goes behind the directory.
LEMMA DataBehind ==
  ASSUME NEW d, DiskTyped(d), NEW s \in Nat, s >= data_start_sector,
         NEW x \in [1 .. SectorUnits -> Int],
         NEW r, r = write_ramdisk_sector(d, s, x)
  PROVE  /\ DiskTyped(r) /\ Table(r) = Table(d) /\ Root(r) = Root(d)
         /\ \A k \in DiskSectors : r[k] = IF k = s THEN x ELSE d[k]
<1>1. FatTyped(d) /\ IsDisk(d)
  BY DEF DiskTyped, FatTyped
<1>2. IF s \in DiskSectors THEN r = [d EXCEPT ![s] = x] ELSE r = d
  BY <1>1 DEF write_ramdisk_sector, IsDisk
<1>3. IsDisk(r)
  BY <1>1, <1>2 DEF IsDisk
<1>4. \A k \in DiskSectors : r[k] = IF k = s THEN x ELSE d[k]
  BY <1>1, <1>2 DEF IsDisk
<1>5. \A k \in 1 .. FatSectors : k \in DiskSectors /\ k # s
  BY Regions, Sizes
<1>6. \A k \in root_dir_start_sector .. data_start_sector - 1 : k \in DiskSectors /\ k # s
  BY Regions, Sizes
<1>7. FatTyped(r) /\ Table(r) = Table(d)
  BY <1>1, <1>3, <1>4, <1>5, SameFatSame
<1>8. \A k \in root_dir_start_sector .. data_start_sector - 1 : r[k] = d[k]
  BY <1>4, <1>6
<1>9. Root(r) = Root(d)
  <2>1. \A p \in Positions : Entry(r, p) = Entry(d, p)
    BY <1>8, PositionAt DEF Entry
  <2> QED  BY <2>1 DEF Root
<1>10. ASSUME NEW k \in DiskSectors, k >= data_start_sector PROVE r[k] \in [1 .. SectorUnits -> Int]
  BY <1>4, <1>10 DEF DiskTyped
<1> QED  BY <1>4, <1>7, <1>8, <1>9, <1>10 DEF DiskTyped

\* The entry of the directory at a position is replaced.
LEMMA Replace ==
  ASSUME NEW d, DiskTyped(d), NEW p \in Positions, NEW x \in Records,
         NEW r, r = SetEntry(d, p, x)
  PROVE  /\ DiskTyped(r) /\ Table(r) = Table(d) /\ Root(r) = [Root(d) EXCEPT ![p] = x]
         /\ SameData(d, r)
<1> DEFINE s == root_dir_start_sector + p \div EntriesPerSector
           j == p % EntriesPerSector
           sector == [d[s] EXCEPT ![j] = x]
<1>1. s \in root_dir_start_sector .. data_start_sector - 1 /\ j \in 0 .. EntriesPerSector - 1
  BY PositionAt
<1>2. FatTyped(d) /\ IsDisk(d)
  BY DEF DiskTyped, FatTyped
<1>3. d[s] \in [0 .. EntriesPerSector - 1 -> Records]
  BY <1>1 DEF DiskTyped
<1>4. r = [d EXCEPT ![s] = sector]
  BY DEF SetEntry
<1>5. s \in DiskSectors
  BY <1>1, Regions, Sizes
<1>6. ASSUME NEW q \in Positions PROVE Entry(r, q) = IF q = p THEN x ELSE Entry(d, q)
  <2> DEFINE t == root_dir_start_sector + q \div EntriesPerSector
             k == q % EntriesPerSector
  <2>1. t \in root_dir_start_sector .. data_start_sector - 1 /\ k \in 0 .. EntriesPerSector - 1
    BY PositionAt
  <2>2. t = s /\ k = j => q = p
    <3>1. /\ p = (p \div EntriesPerSector) * EntriesPerSector + j
          /\ q = (q \div EntriesPerSector) * EntriesPerSector + k
      BY PositionAt
    <3>2. t = s => (q \div EntriesPerSector) = (p \div EntriesPerSector)
      <4>1. p \in Nat /\ q \in Nat
        BY DEF Positions
      <4>2. (p \div EntriesPerSector) \in Nat /\ (q \div EntriesPerSector) \in Nat
        <5>1. EntriesPerSector \in Nat \ {0}
          BY Sizes
        <5> QED  BY ONLY <4>1, <5>1, DivBracket
      <4> QED  BY <4>2, Regions
    <3> QED  BY <3>1, <3>2
  <2>3. Entry(r, q) = r[t][k] /\ Entry(d, q) = d[t][k] /\ (q = p => t = s /\ k = j)
    BY DEF Entry
  <2>4. t \in DiskSectors
    BY <2>1, Regions, Sizes
  <2> HIDE DEF s, j, t, k
  <2>5. t # s => r[t] = d[t]
    BY <1>2, <1>4, <2>4 DEF IsDisk
  <2>6. r[s] = sector
    BY <1>2, <1>4, <1>5 DEF IsDisk
  <2>7. sector[j] = x /\ (k # j => sector[k] = d[s][k])
    <3> DEFINE v == d[s]
    <3>1. v \in [0 .. EntriesPerSector - 1 -> Records] /\ j \in 0 .. EntriesPerSector - 1
          /\ k \in 0 .. EntriesPerSector - 1
      BY <1>1, <1>3, <2>1
    <3> HIDE DEF v
    <3>2. [v EXCEPT ![j] = x][j] = x /\ (k # j => [v EXCEPT ![j] = x][k] = v[k])
      BY ONLY <3>1
    <3> QED  BY <3>2 DEF v
  <2> QED  BY <2>2, <2>3, <2>5, <2>6, <2>7
<1> HIDE DEF s, j
<1>7. IsDisk(r)
  BY <1>2, <1>4, <1>5 DEF IsDisk
<1>8. \A k \in DiskSectors : r[k] = IF k = s THEN sector ELSE d[k]
  BY <1>2, <1>4 DEF IsDisk
<1>9. \A k \in 1 .. FatSectors : r[k] = d[k]
  BY <1>1, <1>8, Regions, Sizes
<1>10. FatTyped(r) /\ Table(r) = Table(d)
  BY <1>2, <1>7, <1>9, SameFatSame
<1>11. sector \in [0 .. EntriesPerSector - 1 -> Records]
  BY <1>1, <1>3
<1>12. ASSUME NEW k \in root_dir_start_sector .. data_start_sector - 1
       PROVE  r[k] \in [0 .. EntriesPerSector - 1 -> Records]
  <2>1. k \in DiskSectors
    BY Regions, Sizes
  <2>2. d[k] \in [0 .. EntriesPerSector - 1 -> Records]
    BY DEF DiskTyped
  <2> HIDE DEF sector
  <2> QED  BY <1>8, <1>11, <2>1, <2>2
<1>13. SameData(d, r)
  BY <1>1, <1>8, Behind DEF SameData
<1>14. DiskTyped(r)
  BY <1>10, <1>12, <1>13 DEF DiskTyped, SameData
<1>15. Root(r) = [Root(d) EXCEPT ![p] = x]
  BY <1>6 DEF Root
<1> QED  BY <1>10, <1>13, <1>14, <1>15

-----------------------------------------------------------------------------
(* The data of a cluster.                                                  *)

\* The RAM disk has all sectors of the cluster.
OnDisk(c) == \A i \in 0 .. SectorsPerCluster - 1 : cluster_to_sector(c) + i \in DiskSectors

\* What a cluster holds; one behind the end of the disk holds nothing.
Filled(d, c, piece) == OnDisk(c) => ReadCluster(d, c) = piece

LEMMA UnitsType == ClusterUnits \in Nat \ {0} /\ ClusterUnits = SectorsPerCluster * SectorUnits
BY Sizes, SMT DEF ClusterUnits

\* A unit of a cluster in its sector.
LEMMA UnitAt ==
  ASSUME NEW u \in 1 .. ClusterUnits
  PROVE  /\ ((u - 1) \div SectorUnits) \in 0 .. SectorsPerCluster - 1
         /\ ((u - 1) % SectorUnits) \in 0 .. SectorUnits - 1
         /\ u = ((u - 1) \div SectorUnits) * SectorUnits + ((u - 1) % SectorUnits) + 1
<1> DEFINE a == u - 1
<1>1. SectorUnits \in Nat \ {0} /\ SectorsPerCluster \in Nat /\ u \in Nat
  BY Sizes, UnitsType
<1>2. a \in 0 .. SectorsPerCluster * SectorUnits - 1 /\ u = a + 1
  BY UnitsType
<1> HIDE DEF a
<1>3. /\ (a \div SectorUnits) \in 0 .. SectorsPerCluster - 1
      /\ (a % SectorUnits) \in 0 .. SectorUnits - 1
      /\ a = (a \div SectorUnits) * SectorUnits + (a % SectorUnits)
  BY ONLY <1>1, <1>2, Split
<1> DEFINE q == a \div SectorUnits
           m == a % SectorUnits
<1>4. q * SectorUnits \in Int
  BY <1>1, <1>3
<1> HIDE DEF q, m
<1>5. u = q * SectorUnits + m + 1
  BY <1>1, <1>2, <1>3, <1>4 DEF q, m
<1> QED  BY <1>3, <1>5 DEF q, m, a

\* Clusters lie behind the directory and have no sector in common.
LEMMA SectorOf ==
  ASSUME NEW c \in Clusters
  PROVE  /\ cluster_to_sector(c) \in Nat /\ cluster_to_sector(c) >= data_start_sector
         /\ \A b \in Clusters : \A i, j \in 0 .. SectorsPerCluster - 1 :
              cluster_to_sector(c) + i = cluster_to_sector(b) + j => c = b /\ i = j
<1>0. SectorsPerCluster \in Nat \ {0} /\ data_start_sector \in Nat
  BY Sizes, Regions
<1>1. \A b \in Clusters : b - 2 \in Nat /\ b \in Nat
  BY DEF Clusters, AllClusters
<1>2. ASSUME NEW b \in Clusters
      PROVE  /\ (b - 2) * SectorsPerCluster \in Nat
             /\ cluster_to_sector(b) = data_start_sector + (b - 2) * SectorsPerCluster
  <2> DEFINE y == b - 2
  <2>1. y \in Nat
    BY <1>1
  <2>2. cluster_to_sector(b) = data_start_sector + y * SectorsPerCluster
    BY DEF cluster_to_sector
  <2> HIDE DEF y
  <2>3. y * SectorsPerCluster \in Nat
    BY <1>0, <2>1, SMT
  <2> QED  BY <2>2, <2>3 DEF y
<1>3. ASSUME NEW b \in Clusters, NEW i \in 0 .. SectorsPerCluster - 1, NEW j \in 0 .. SectorsPerCluster - 1,
             cluster_to_sector(c) + i = cluster_to_sector(b) + j
      PROVE  c = b /\ i = j
  <2> DEFINE x == c - 2
             y == b - 2
             k == x * SectorsPerCluster
             l == y * SectorsPerCluster
  <2>1. x \in Nat /\ y \in Nat /\ c = x + 2 /\ b = y + 2
    BY <1>1
  <2>2. k \in Nat /\ l \in Nat /\ k + i = l + j
    <3>1. k \in Nat /\ l \in Nat /\ data_start_sector + k + i = data_start_sector + l + j
      BY <1>2, <1>3
    <3> HIDE DEF k, l
    <3> QED  BY <1>0, <3>1
  <2> DEFINE a == k + i
  <2>3. a \in Nat /\ a = x * SectorsPerCluster + i /\ a = y * SectorsPerCluster + j
    BY <1>0, <2>2
  <2> HIDE DEF x, y, k, l, a
  <2>4. (a \div SectorsPerCluster) = x /\ (a % SectorsPerCluster) = i
    BY <1>0, <2>1, <2>3, QuotientUnique
  <2>5. (a \div SectorsPerCluster) = y /\ (a % SectorsPerCluster) = j
    BY <1>0, <2>1, <2>3, QuotientUnique
  <2> QED  BY <2>1, <2>4, <2>5
<1>4. cluster_to_sector(c) \in Nat /\ cluster_to_sector(c) >= data_start_sector
  <2> DEFINE k == (c - 2) * SectorsPerCluster
  <2>1. k \in Nat /\ cluster_to_sector(c) = data_start_sector + k
    BY <1>2
  <2> HIDE DEF k
  <2> QED  BY <1>0, <2>1
<1> QED  BY <1>3, <1>4

\* What a cluster holds depends on its sectors.
LEMMA SameCluster ==
  ASSUME NEW d, IsDisk(d), NEW r, IsDisk(r), NEW c,
         \A i \in 0 .. SectorsPerCluster - 1 : cluster_to_sector(c) + i \in DiskSectors =>
            r[cluster_to_sector(c) + i] = d[cluster_to_sector(c) + i]
  PROVE  ReadCluster(r, c) = ReadCluster(d, c)
<1> DEFINE Sector(u) == cluster_to_sector(c) + (u - 1) \div SectorUnits
           Empty == [i \in 1 .. SectorUnits |-> UNINIT]
<1>1. ASSUME NEW u \in 1 .. ClusterUnits
      PROVE  read_ramdisk_sector(r, Sector(u), Empty) = read_ramdisk_sector(d, Sector(u), Empty)
  <2>1. Sector(u) \in DiskSectors => r[Sector(u)] = d[Sector(u)]
    BY UnitAt
  <2>2. DOMAIN r = DiskSectors /\ DOMAIN d = DiskSectors
    BY DEF IsDisk
  <2> HIDE DEF Sector, Empty
  <2> QED  BY <2>1, <2>2 DEF read_ramdisk_sector
<1>2. ReadCluster(r, c) = [u \in 1 .. ClusterUnits |->
                             read_ramdisk_sector(r, Sector(u), Empty)[1 + ((u - 1) % SectorUnits)]]
  BY DEF ReadCluster
<1>3. ReadCluster(d, c) = [u \in 1 .. ClusterUnits |->
                             read_ramdisk_sector(d, Sector(u), Empty)[1 + ((u - 1) % SectorUnits)]]
  BY DEF ReadCluster
<1> HIDE DEF Sector, Empty
<1> QED  BY <1>1, <1>2, <1>3

LEMMA SameDataSame ==
  ASSUME NEW d, DiskTyped(d), NEW r, DiskTyped(r), SameData(d, r), NEW c \in Clusters
  PROVE  ReadCluster(r, c) = ReadCluster(d, c)
<1>1. \A i \in 0 .. SectorsPerCluster - 1 : cluster_to_sector(c) + i >= data_start_sector
  BY SectorOf, Regions, Sizes
<1>2. IsDisk(d) /\ IsDisk(r)
  BY DEF DiskTyped, FatTyped
<1> QED  BY <1>1, <1>2, SameCluster DEF SameData

\* The sector-sized parts of what a cluster is filled with.
Part(piece, j) == SubSeq(piece, (j - 1) * SectorUnits + 1, j * SectorUnits)

LEMMA PartIs ==
  ASSUME NEW piece \in [1 .. ClusterUnits -> Int], NEW j \in 1 .. SectorsPerCluster
  PROVE  /\ Part(piece, j) \in [1 .. SectorUnits -> Int]
         /\ \A m \in 1 .. SectorUnits : Part(piece, j)[m] = piece[(j - 1) * SectorUnits + m]
<1> DEFINE a == (j - 1) * SectorUnits
           b == j * SectorUnits
<1>1. SectorUnits \in Nat \ {0} /\ SectorsPerCluster \in Nat \ {0}
  BY Sizes
<1>2. a \in Nat /\ b = a + SectorUnits /\ b <= SectorsPerCluster * SectorUnits
      /\ SectorsPerCluster * SectorUnits \in Nat
  BY <1>1, SMT
<1>3. ClusterUnits = SectorsPerCluster * SectorUnits
  BY UnitsType
<1> HIDE DEF a, b
<1>4. \A m \in 1 .. SectorUnits : a + m \in 1 .. ClusterUnits
  BY <1>1, <1>2, <1>3
<1>5. SubSeq(piece, a + 1, b) = [m \in 1 .. SectorUnits |-> piece[a + m]]
  BY <1>1, <1>2
<1>6. Part(piece, j) = [m \in 1 .. SectorUnits |-> piece[a + m]]
  BY <1>5 DEF Part, a, b
<1> QED  BY <1>4, <1>6 DEF a

\* A cluster is filled; directory, table and the other clusters stay.
LEMMA ClusterFilled ==
  ASSUME NEW d, DiskTyped(d), NEW c \in Clusters, NEW piece \in [1 .. ClusterUnits -> Int],
         NEW r, r = WriteCluster(d, c, piece)
  PROVE  /\ DiskTyped(r) /\ Table(r) = Table(d) /\ Root(r) = Root(d)
         /\ Filled(r, c, piece)
         /\ \A b \in Clusters \ {c} : ReadCluster(r, b) = ReadCluster(d, b)
<1> DEFINE at(i) == cluster_to_sector(c) + i - 1
           Turn(x, i) == write_ramdisk_sector(x, at(i), Part(piece, i))
           G(f, i) == IF i = 0 THEN d ELSE Turn(f[i - 1], i)
           W == CHOOSE f : f = [i \in 0 .. SectorsPerCluster |-> G(f, i)]
           Same(x, n) == /\ DiskTyped(x) /\ Table(x) = Table(d) /\ Root(x) = Root(d)
                         /\ \A i \in 1 .. n : at(i) \in DiskSectors => x[at(i)] = Part(piece, i)
                         /\ \A s \in DiskSectors : (\A i \in 1 .. n : s # at(i)) => x[s] = d[s]
           Built == {n \in Nat : \E f : f = [i \in 0 .. n |-> G(f, i)]}
           Kept == {n \in Nat : n <= SectorsPerCluster => Same(W[n], n)}
<1>1. r = W[SectorsPerCluster]
  BY Zenon DEF WriteCluster, Part
<1>2. SectorsPerCluster \in Nat
  BY Sizes
<1>3. cluster_to_sector(c) \in Nat /\ cluster_to_sector(c) >= data_start_sector
  BY SectorOf
<1>4. ASSUME NEW n \in Nat, n + 1 <= SectorsPerCluster, NEW x, Same(x, n)
      PROVE  Same(Turn(x, n + 1), n + 1)
  <2> DEFINE s == at(n + 1)
             y == Turn(x, n + 1)
             u == Part(piece, n + 1)
  <2>1. s \in Nat /\ s >= data_start_sector
    BY <1>3, Regions
  <2>2. u \in [1 .. SectorUnits -> Int]
    BY <1>2, <1>4, PartIs
  <2>3. /\ DiskTyped(y) /\ Table(y) = Table(x) /\ Root(y) = Root(x)
        /\ \A k \in DiskSectors : y[k] = IF k = s THEN u ELSE x[k]
    <3> HIDE DEF s, u
    <3>1. y = write_ramdisk_sector(x, s, u)
      BY DEF s, u
    <3> HIDE DEF y
    <3> QED  BY <1>4, <2>1, <2>2, <3>1, DataBehind
  <2>4. \A i \in 1 .. n + 1 : i = n + 1 \/ (i \in 1 .. n /\ at(i) # s)
    BY <1>3
  <2>5. \A i \in 1 .. n : i \in 1 .. n + 1
    OBVIOUS
  <2>6. n + 1 \in 1 .. n + 1
    OBVIOUS
  <2> HIDE DEF y, u
  <2>7. ASSUME NEW i \in 1 .. n + 1, at(i) \in DiskSectors PROVE y[at(i)] = Part(piece, i)
    <3>1. CASE i = n + 1
      <4> HIDE DEF at
      <4> QED  BY <2>3, <2>7, <3>1 DEF u
    <3>2. CASE i \in 1 .. n /\ at(i) # s
      <4> HIDE DEF at
      <4>1. y[at(i)] = x[at(i)]
        BY <2>3, <2>7, <3>2
      <4> QED  BY <1>4, <2>7, <3>2, <4>1
    <3> QED  BY <2>4, <3>1, <3>2
  <2>8. ASSUME NEW k \in DiskSectors, \A i \in 1 .. n + 1 : k # at(i) PROVE y[k] = d[k]
    <3> HIDE DEF at
    <3>1. k # s /\ \A i \in 1 .. n : k # at(i)
      BY <2>5, <2>6, <2>8
    <3> QED  BY <1>4, <2>3, <3>1
  <2>9. Same(y, n + 1)
    <3> HIDE DEF at, s
    <3> QED  BY <1>4, <2>3, <2>7, <2>8
  <2> QED  BY <2>9 DEF y
<1> HIDE DEF Turn
<1>5. 0 \in Built
  <2>1. [i \in 0 .. 0 |-> d] = [i \in 0 .. 0 |-> G([k \in 0 .. 0 |-> d], i)]
    OBVIOUS
  <2> QED  BY <2>1
<1>6. ASSUME NEW n \in Built PROVE n + 1 \in Built
  <2>1. PICK f : f = [i \in 0 .. n |-> G(f, i)]
    OBVIOUS
  <2> DEFINE h == [i \in 0 .. n + 1 |-> IF i = n + 1 THEN Turn(f[n], i) ELSE f[i]]
  <2>2. ASSUME NEW i \in 0 .. n + 1 PROVE h[i] = G(h, i)
    <3>1. CASE i = n + 1
      BY <3>1
    <3>2. CASE i # n + 1
      <4>1. i \in 0 .. n /\ (i # 0 => i - 1 \in 0 .. n /\ i - 1 \in 0 .. n + 1 /\ i - 1 # n + 1)
        BY <3>2
      <4>2. h[i] = f[i] /\ (i # 0 => h[i - 1] = f[i - 1])
        BY <3>2, <4>1
      <4>3. f[i] = G(f, i)
        BY <2>1, <4>1
      <4> QED  BY <4>2, <4>3
    <3> QED  BY <3>1, <3>2
  <2>3. h = [i \in 0 .. n + 1 |-> h[i]]
    OBVIOUS
  <2> HIDE DEF h, G
  <2>4. h = [i \in 0 .. n + 1 |-> G(h, i)]
    BY <2>2, <2>3
  <2> QED  BY <2>4
<1> HIDE DEF Built
<1>7. Built = Nat
  BY <1>5, <1>6, SetInduction DEF Built
<1>8. \A i \in 0 .. SectorsPerCluster : W[i] = G(W, i)
  <2>1. \E f : f = [i \in 0 .. SectorsPerCluster |-> G(f, i)]
    BY <1>2, <1>7 DEF Built
  <2>2. W = [i \in 0 .. SectorsPerCluster |-> G(W, i)]
    BY <2>1
  <2> HIDE DEF W, G
  <2> QED  BY <2>2
<1> HIDE DEF W
<1>9. Same(d, 0)
  <2> HIDE DEF at
  <2> QED  OBVIOUS
<1> HIDE DEF Same
<1>10. 0 \in Kept
  BY <1>2, <1>8, <1>9
<1>11. ASSUME NEW n \in Kept PROVE n + 1 \in Kept
  <2> SUFFICES ASSUME n + 1 <= SectorsPerCluster PROVE Same(W[n + 1], n + 1)
    OBVIOUS
  <2>1. W[n + 1] = Turn(W[n], n + 1) /\ Same(W[n], n)
    BY <1>2, <1>8
  <2> QED  BY <1>4, <2>1
<1> HIDE DEF Kept
<1>12. Kept = Nat
  BY <1>10, <1>11, SetInduction DEF Kept
<1>13. Same(r, SectorsPerCluster)
  BY <1>1, <1>2, <1>12 DEF Kept
<1>14. DiskTyped(r) /\ Table(r) = Table(d) /\ Root(r) = Root(d) /\ IsDisk(r) /\ IsDisk(d)
  BY <1>13 DEF Same, DiskTyped, FatTyped
<1>15. ASSUME NEW b \in Clusters \ {c} PROVE ReadCluster(r, b) = ReadCluster(d, b)
  <2>1. ASSUME NEW i \in 0 .. SectorsPerCluster - 1, NEW j \in 1 .. SectorsPerCluster
        PROVE  cluster_to_sector(b) + i # at(j)
    <3>1. j - 1 \in 0 .. SectorsPerCluster - 1
      BY <1>2
    <3>2. cluster_to_sector(c) + (j - 1) # cluster_to_sector(b) + i
      BY <3>1, SectorOf
    <3> QED  BY <1>2, <1>3, <3>2
  <2>2. \A i \in 0 .. SectorsPerCluster - 1 : cluster_to_sector(b) + i \in DiskSectors =>
            r[cluster_to_sector(b) + i] = d[cluster_to_sector(b) + i]
    <3> HIDE DEF at
    <3> QED  BY <1>13, <2>1 DEF Same
  <2> QED  BY <1>14, <2>2, SameCluster
<1>16. ASSUME OnDisk(c) PROVE ReadCluster(r, c) = piece
  <2> DEFINE Empty == [i \in 1 .. SectorUnits |-> UNINIT]
             Sector(u) == cluster_to_sector(c) + (u - 1) \div SectorUnits
  <2>1. ASSUME NEW u \in 1 .. ClusterUnits
        PROVE  read_ramdisk_sector(r, Sector(u), Empty)[1 + ((u - 1) % SectorUnits)] = piece[u]
    <3> DEFINE q == (u - 1) \div SectorUnits
               m == (u - 1) % SectorUnits
    <3>1. /\ q \in 0 .. SectorsPerCluster - 1 /\ m \in 0 .. SectorUnits - 1
          /\ u = q * SectorUnits + m + 1
      BY UnitAt
    <3>2. q * SectorUnits \in Nat /\ SectorUnits \in Nat
      BY <3>1, Sizes, SMT
    <3>3. Sector(u) = cluster_to_sector(c) + q
      OBVIOUS
    <3> HIDE DEF q, m
    <3>4. q + 1 \in 1 .. SectorsPerCluster /\ (q + 1) - 1 = q /\ at(q + 1) = cluster_to_sector(c) + q
      BY <1>2, <1>3, <3>1
    <3>5. Sector(u) \in DiskSectors
      BY <1>16, <3>1, <3>3 DEF OnDisk
    <3>6. r[Sector(u)] = Part(piece, q + 1)
      <4>1. at(q + 1) \in DiskSectors
        BY <3>3, <3>4, <3>5
      <4>2. r[at(q + 1)] = Part(piece, q + 1)
        BY <1>13, <3>4, <4>1 DEF Same
      <4> QED  BY <3>3, <3>4, <4>2
    <3>7. read_ramdisk_sector(r, Sector(u), Empty) = Part(piece, q + 1)
      <4> HIDE DEF Sector, Empty
      <4> QED  BY <1>14, <3>5, <3>6 DEF read_ramdisk_sector, IsDisk
    <3>8. 1 + m \in 1 .. SectorUnits /\ q * SectorUnits + (1 + m) = u
      BY <3>1, <3>2
    <3>9. Part(piece, q + 1)[1 + m] = piece[q * SectorUnits + (1 + m)]
      BY <3>4, <3>8, PartIs
    <3> QED  BY <3>7, <3>8, <3>9 DEF m
  <2>2. ReadCluster(r, c) = [u \in 1 .. ClusterUnits |->
                               read_ramdisk_sector(r, Sector(u), Empty)[1 + ((u - 1) % SectorUnits)]]
    BY DEF ReadCluster
  <2> HIDE DEF Sector, Empty
  <2>3. ReadCluster(r, c) = [u \in 1 .. ClusterUnits |-> piece[u]]
    BY <2>1, <2>2
  <2> QED  BY <2>3
<1> QED  BY <1>14, <1>15, <1>16 DEF Filled

-----------------------------------------------------------------------------
(* The chains of the files, as sequences of clusters, one for each position*)
(* of the directory.                                                       *)

\* The sequence s is what following the table f from first meets.
IsChain(f, first, s) ==
  IF s = <<>> THEN first = 0
  ELSE /\ first = s[1] /\ f[s[Len(s)]] = LAST
       /\ \A i \in 1 .. Len(s) - 1 : f[s[i]] = s[i + 1]

Firsts(e) == [p \in Positions |-> IF e[p].name \in {END, DELETED} THEN 0 ELSE e[p].first]

\* No cluster is in two places, and what is in no chain is free.
Chains(f, h, E) ==
  /\ f \in [AllClusters -> 0 .. LAST]
  /\ h \in [Positions -> Nat]
  /\ E \in [Positions -> Seq(Clusters)]
  /\ \A p \in Positions : IsChain(f, h[p], E[p])
  /\ \A p, q \in Positions : \A i \in 1 .. Len(E[p]), j \in 1 .. Len(E[q]) :
       E[p][i] = E[q][j] => p = q /\ i = j
  /\ \A c \in Clusters : f[c] # 0 => \E p \in Positions : \E i \in 1 .. Len(E[p]) : E[p][i] = c
  /\ \A c \in AllClusters \ Clusters : f[c] = 0

LEMMA LastPositive == LAST \in Nat /\ LAST > 0
<1>1. Nibble * Nibble \in Nat /\ Nibble * Nibble >= 2
  BY Sizes, SMT
<1>2. Nibble * (Nibble * Nibble) >= 2 /\ Nibble * (Nibble * Nibble) \in Nat
  <2> DEFINE n == Nibble * Nibble
  <2>1. n \in Nat /\ n >= 2
    BY <1>1
  <2> HIDE DEF n
  <2>2. Nibble * n >= 2 /\ Nibble * n \in Nat
    BY <2>1, Sizes, SMT
  <2> QED  BY <2>2 DEF n
<1>3. EntryValues >= 2 /\ EntryValues \in Nat
  BY <1>2, Radices
<1> QED  BY <1>3, Radices

LEMMA ClusterType ==
  ASSUME NEW c \in Clusters
  PROVE  c \in AllClusters /\ c \in Nat /\ c >= 2
BY DEF Clusters, AllClusters

\* The entry of a cluster in a chain is not zero.
LEMMA InUse ==
  ASSUME NEW f, NEW h, NEW E, Chains(f, h, E), NEW p \in Positions, NEW i \in 1 .. Len(E[p])
  PROVE  E[p][i] \in Clusters /\ f[E[p][i]] # 0
<1> DEFINE s == E[p]
<1>1. s \in Seq(Clusters) /\ IsChain(f, h[p], s) /\ i \in 1 .. Len(s)
  BY DEF Chains
<1> HIDE DEF s
<1>2. s[i] \in Clusters /\ Len(s) \in Nat /\ s # <<>>
  BY <1>1
<1>3. CASE i = Len(s)
  BY <1>1, <1>2, <1>3, LastPositive DEF IsChain, s
<1>4. CASE i # Len(s)
  <2>1. i \in 1 .. Len(s) - 1 /\ i + 1 \in 1 .. Len(s)
    BY <1>1, <1>2, <1>4
  <2>2. f[s[i]] = s[i + 1] /\ s[i + 1] \in Clusters
    BY <1>1, <1>2, <2>1 DEF IsChain
  <2> QED  BY <1>2, <2>2, ClusterType DEF s
<1> QED  BY <1>3, <1>4

\* A chain is no longer than the table, as it meets no cluster twice.
LEMMA ChainLength ==
  ASSUME NEW f, NEW h, NEW E, Chains(f, h, E), NEW p \in Positions
  PROVE  Len(E[p]) \in Nat /\ (E[p] # <<>> => Len(E[p]) < FatCapacity)
<1> DEFINE s == E[p]
           n == Len(s)
<1>1. s \in Seq(Clusters) /\ \A i, j \in 1 .. n : s[i] = s[j] => i = j
  BY DEF Chains
<1> HIDE DEF s
<1>2. n \in Nat /\ s \in [1 .. n -> Clusters]
  BY <1>1
<1> SUFFICES ASSUME s # <<>> PROVE n < FatCapacity
  BY <1>2 DEF s
<1>3. FatCapacity \in Nat
  BY Sizes, SMT DEF FatCapacity
<1>4. s[1] \in AllClusters
  <2>1. n # 0
    BY <1>1
  <2> QED  BY <1>2, <2>1, ClusterType
<1>5. FatCapacity > 2
  BY <1>3, <1>4 DEF AllClusters
<1>6. IsFiniteSet(AllClusters) /\ Cardinality(AllClusters) = FatCapacity - 2
  <2>1. FatCapacity - 1 \in Int /\ 2 \in Int
    BY <1>3
  <2>2. IsFiniteSet(2 .. FatCapacity - 1)
        /\ Cardinality(2 .. FatCapacity - 1) = IF 2 > FatCapacity - 1 THEN 0 ELSE (FatCapacity - 1) - 2 + 1
    BY ONLY <2>1, FS_Interval
  <2> QED  BY <1>3, <1>5, <2>2 DEF AllClusters
<1> HIDE DEF n
<1>7. s \in Injection(1 .. n, AllClusters)
  <2>1. s \in [1 .. n -> AllClusters]
    BY <1>2, ClusterType
  <2> QED  BY <1>1, <2>1 DEF Injection, IsInjective
<1>8. Cardinality(1 .. n) <= Cardinality(AllClusters)
  BY <1>6, <1>7, FS_Injection
<1>9. Cardinality(1 .. n) = n
  <2>1. Cardinality(1 .. n) = IF 1 > n THEN 0 ELSE n - 1 + 1
    BY <1>2, FS_Interval, 1 \in Int, n \in Int
  <2> QED  BY <1>2, <2>1
<1> QED  BY <1>2, <1>3, <1>6, <1>8, <1>9

-----------------------------------------------------------------------------
(* A chain that grows by a free cluster.                                   *)

Grown(f, s, c) ==
  IF s = <<>> THEN [f EXCEPT ![c] = LAST] ELSE [f EXCEPT ![c] = LAST, ![s[Len(s)]] = c]

LEMMA ChainGrows ==
  ASSUME NEW f, NEW h, NEW E, Chains(f, h, E), NEW p \in Positions,
         NEW c \in Clusters, f[c] = 0, LAST >= FatCapacity
  PROVE  Chains(Grown(f, E[p], c), [h EXCEPT ![p] = IF E[p] = <<>> THEN c ELSE h[p]],
                [E EXCEPT ![p] = Append(E[p], c)])
<1> DEFINE s == E[p]
           n == Len(s)
           t == Append(s, c)
           k == Grown(f, s, c)
           g == [h EXCEPT ![p] = IF E[p] = <<>> THEN c ELSE h[p]]
           D == [E EXCEPT ![p] = t]
<1>1. /\ f \in [AllClusters -> 0 .. LAST] /\ h \in [Positions -> Nat]
      /\ E \in [Positions -> Seq(Clusters)]
      /\ \A q \in Positions : IsChain(f, h[q], E[q])
      /\ \A c1 \in AllClusters \ Clusters : f[c1] = 0
  BY DEF Chains
<1>2. \A q, q1 \in Positions : \A i \in 1 .. Len(E[q]), j \in 1 .. Len(E[q1]) :
        E[q][i] = E[q1][j] => q = q1 /\ i = j
  BY DEF Chains
<1>3. \A c1 \in Clusters : f[c1] # 0 => \E q \in Positions : \E i \in 1 .. Len(E[q]) : E[q][i] = c1
  BY DEF Chains
<1>4. \A q \in Positions : \A i \in 1 .. Len(E[q]) : E[q][i] \in Clusters /\ E[q][i] # c
  BY InUse
<1>5. c \in AllClusters /\ c \in Nat /\ c < FatCapacity /\ c \in 0 .. LAST /\ LAST \in 0 .. LAST
  <2>1. FatCapacity \in Nat
    BY Sizes, SMT DEF FatCapacity
  <2> QED  BY <2>1, ClusterType, LastPositive DEF AllClusters
<1>6. /\ s \in Seq(Clusters) /\ n \in Nat /\ t \in Seq(Clusters) /\ Len(t) = n + 1
      /\ t[n + 1] = c /\ t # <<>>
      /\ \A i \in 1 .. n : t[i] = s[i] /\ s[i] \in Clusters /\ s[i] # c
      /\ (s = <<>> <=> n = 0)
  <2>1. s \in Seq(Clusters) /\ \A i \in 1 .. n : s[i] \in Clusters /\ s[i] # c
    BY <1>1, <1>4
  <2> HIDE DEF s
  <2>2. n \in Nat /\ (s = <<>> <=> n = 0)
    BY <2>1
  <2>3. t \in Seq(Clusters) /\ Len(t) = n + 1 /\ t[n + 1] = c
    BY <2>1
  <2>4. \A i \in 1 .. n : t[i] = s[i]
    BY <2>1
  <2>5. t # <<>>
    BY <2>2, <2>3
  <2> QED  BY <2>1, <2>2, <2>3, <2>4, <2>5
<1>7. IsChain(f, h[p], s)
  BY <1>1
<1>8. /\ g \in [Positions -> Nat] /\ g[p] = IF s = <<>> THEN c ELSE h[p]
      /\ \A q \in Positions : q # p => g[q] = h[q]
  BY <1>1, <1>5
<1>9. /\ D \in [Positions -> Seq(Clusters)] /\ D[p] = t
      /\ \A q \in Positions : q # p => D[q] = E[q]
  BY <1>1, <1>6
<1>10. /\ k \in [AllClusters -> 0 .. LAST] /\ k[c] = LAST
       /\ (s # <<>> => k[s[n]] = c)
       /\ \A c1 \in AllClusters : c1 # c /\ (s # <<>> => c1 # s[n]) => k[c1] = f[c1]
  <2>1. CASE s = <<>>
    BY <1>1, <1>5, <2>1 DEF Grown
  <2>2. CASE s # <<>>
    <3> DEFINE b == s[n]
    <3>1. b \in AllClusters /\ b # c
      BY <1>6, <2>2, ClusterType
    <3>2. k = [f EXCEPT ![c] = LAST, ![b] = c]
      BY <2>2 DEF Grown
    <3> HIDE DEF b, k, s
    <3>3. /\ k \in [AllClusters -> 0 .. LAST] /\ k[c] = LAST /\ k[b] = c
          /\ \A c1 \in AllClusters : c1 # c /\ c1 # b => k[c1] = f[c1]
      BY <1>1, <1>5, <3>1, <3>2
    <3> QED  BY <2>2, <3>3 DEF b
  <2> QED  BY <2>1, <2>2
<1>11. \A q \in Positions : q # p => \A i \in 1 .. Len(E[q]) : k[E[q][i]] = f[E[q][i]]
  <2> SUFFICES ASSUME NEW q \in Positions, q # p, NEW i \in 1 .. Len(E[q])
               PROVE  k[E[q][i]] = f[E[q][i]]
    OBVIOUS
  <2>1. E[q][i] \in Clusters /\ E[q][i] # c /\ E[q][i] \in AllClusters
    BY <1>4, ClusterType
  <2>2. s # <<>> => E[q][i] # s[n]
    <3> SUFFICES ASSUME s # <<>>, E[q][i] = s[n] PROVE FALSE
      OBVIOUS
    <3>1. n \in 1 .. Len(E[p])
      BY <1>6
    <3> QED  BY <1>2, <3>1
  <2> QED  BY <1>10, <2>1, <2>2
<1>12. \A q \in Positions : IsChain(k, g[q], D[q])
  <2>1. ASSUME NEW q \in Positions, q # p PROVE IsChain(k, g[q], D[q])
    <3> DEFINE u == E[q]
    <3>1. u \in Seq(Clusters) /\ IsChain(f, h[q], u) /\ \A i \in 1 .. Len(u) : k[u[i]] = f[u[i]]
      BY <1>1, <1>11, <2>1
    <3>2. g[q] = h[q] /\ D[q] = u
      BY <1>8, <1>9, <2>1
    <3> HIDE DEF u, k, g, D
    <3>3. IsChain(k, h[q], u)
      BY <3>1 DEF IsChain
    <3> QED  BY <3>2, <3>3
  <2>2. IsChain(k, g[p], t)
    <3>1. g[p] = t[1]
      <4>1. CASE s = <<>>
        BY <1>6, <1>8, <4>1
      <4>2. CASE s # <<>>
        BY <1>6, <1>7, <1>8, <4>2 DEF IsChain
      <4> QED  BY <4>1, <4>2
    <3>2. k[t[Len(t)]] = LAST
      BY <1>6, <1>10
    <3>3. ASSUME NEW i \in 1 .. Len(t) - 1 PROVE k[t[i]] = t[i + 1]
      <4>1. i \in 1 .. n /\ t[i] = s[i] /\ s[i] \in Clusters /\ s[i] # c /\ s[i] \in AllClusters
        BY <1>6, <3>3, ClusterType
      <4>2. CASE i = n
        BY <1>6, <1>10, <4>1, <4>2
      <4>3. CASE i # n
        <5>1. i \in 1 .. n - 1 /\ i + 1 \in 1 .. n /\ n \in 1 .. Len(E[p]) /\ s # <<>>
          BY <1>6, <4>1, <4>3
        <5>2. f[s[i]] = s[i + 1] /\ t[i + 1] = s[i + 1]
          BY <1>6, <1>7, <5>1 DEF IsChain
        <5>3. s[i] # s[n]
          BY <1>2, <4>1, <4>3, <5>1
        <5>4. k[s[i]] = f[s[i]]
          BY <1>10, <4>1, <5>3
        <5> QED  BY <4>1, <5>2, <5>4
      <4> QED  BY <4>2, <4>3
    <3> QED  BY <1>6, <3>1, <3>2, <3>3 DEF IsChain
  <2> QED  BY <1>9, <2>1, <2>2
<1>13. \A q, q1 \in Positions : \A i \in 1 .. Len(D[q]), j \in 1 .. Len(D[q1]) :
         D[q][i] = D[q1][j] => q = q1 /\ i = j
  <2> DEFINE Fresh(q, i) == q = p /\ i = n + 1
  <2>1. \A q \in Positions : \A i \in 1 .. Len(D[q]) :
          \/ Fresh(q, i) /\ D[q][i] = c
          \/ ~ Fresh(q, i) /\ i \in 1 .. Len(E[q]) /\ D[q][i] = E[q][i] /\ D[q][i] # c
    <3> SUFFICES ASSUME NEW q \in Positions, NEW i \in 1 .. Len(D[q])
                 PROVE  \/ Fresh(q, i) /\ D[q][i] = c
                        \/ ~ Fresh(q, i) /\ i \in 1 .. Len(E[q]) /\ D[q][i] = E[q][i] /\ D[q][i] # c
      OBVIOUS
    <3>1. CASE q # p
      BY <1>4, <1>9, <3>1
    <3>2. CASE q = p
      <4>1. i \in 1 .. n + 1 /\ D[q][i] = t[i]
        BY <1>6, <1>9, <3>2
      <4>2. i = n + 1 \/ i \in 1 .. n
        BY <1>6, <4>1
      <4> QED  BY <1>6, <3>2, <4>1, <4>2
    <3> QED  BY <3>1, <3>2
  <2> HIDE DEF D
  <2> QED  BY <1>2, <2>1
<1>14. \A c1 \in Clusters : k[c1] # 0 => \E q \in Positions : \E i \in 1 .. Len(D[q]) : D[q][i] = c1
  <2> SUFFICES ASSUME NEW c1 \in Clusters, k[c1] # 0
               PROVE  \E q \in Positions : \E i \in 1 .. Len(D[q]) : D[q][i] = c1
    OBVIOUS
  <2>1. \A i \in 1 .. n : i \in 1 .. Len(t) /\ t[i] = s[i]
    BY <1>6
  <2>2. CASE c1 = c
    <3>1. n + 1 \in 1 .. Len(D[p]) /\ D[p][n + 1] = c
      BY <1>6, <1>9
    <3> QED  BY <2>2, <3>1
  <2>3. CASE c1 # c /\ f[c1] # 0
    <3>0. PICK q \in Positions : \E i \in 1 .. Len(E[q]) : E[q][i] = c1
      BY <1>3, <2>3
    <3>1. PICK i \in 1 .. Len(E[q]) : E[q][i] = c1
      BY <3>0
    <3>2. i \in 1 .. Len(D[q]) /\ D[q][i] = c1
      <4>1. CASE q = p
        BY <1>9, <2>1, <3>1, <4>1
      <4>2. CASE q # p
        BY <1>9, <3>1, <4>2
      <4> QED  BY <4>1, <4>2
    <3> QED  BY <3>2
  <2>4. CASE c1 # c /\ f[c1] = 0
    <3>1. s # <<>> /\ c1 = s[n]
      BY <1>10, <2>4, ClusterType
    <3>2. n \in 1 .. Len(D[p]) /\ D[p][n] = c1
      BY <1>6, <1>9, <2>1, <3>1
    <3> QED  BY <3>2
  <2> QED  BY <2>2, <2>3, <2>4
<1>15. \A c1 \in AllClusters \ Clusters : k[c1] = 0
  <2> SUFFICES ASSUME NEW c1 \in AllClusters \ Clusters PROVE k[c1] = 0
    OBVIOUS
  <2>1. c1 # c /\ (s # <<>> => c1 # s[n])
    BY <1>6
  <2> QED  BY <1>1, <1>10, <2>1
<1> HIDE DEF k, g, D, t
<1>16. Chains(k, g, D)
  BY <1>8, <1>9, <1>10, <1>12, <1>13, <1>14, <1>15 DEF Chains
<1> QED  BY <1>16 DEF k, g, D, t

-----------------------------------------------------------------------------
(* A chain that is freed.                                                  *)

Cleared(f, s, k) == [c \in AllClusters |-> IF \E i \in 1 .. k : s[i] = c THEN 0 ELSE f[c]]

LEMMA ChainFreed ==
  ASSUME NEW f, NEW h, NEW E, Chains(f, h, E), NEW p \in Positions
  PROVE  Chains(Cleared(f, E[p], Len(E[p])), [h EXCEPT ![p] = 0], [E EXCEPT ![p] = <<>>])
<1> DEFINE s == E[p]
           k == Cleared(f, s, Len(s))
           g == [h EXCEPT ![p] = 0]
           D == [E EXCEPT ![p] = <<>>]
<1>1. /\ f \in [AllClusters -> 0 .. LAST] /\ h \in [Positions -> Nat]
      /\ E \in [Positions -> Seq(Clusters)]
      /\ \A q \in Positions : IsChain(f, h[q], E[q])
      /\ \A c1 \in AllClusters \ Clusters : f[c1] = 0
  BY DEF Chains
<1>2. \A q, q1 \in Positions : \A i \in 1 .. Len(E[q]), j \in 1 .. Len(E[q1]) :
        E[q][i] = E[q1][j] => q = q1 /\ i = j
  BY DEF Chains
<1>3. \A c1 \in Clusters : f[c1] # 0 => \E q \in Positions : \E i \in 1 .. Len(E[q]) : E[q][i] = c1
  BY DEF Chains
<1>4. /\ g \in [Positions -> Nat] /\ g[p] = 0
      /\ \A q \in Positions : q # p => g[q] = h[q]
  BY <1>1
<1>5. /\ D \in [Positions -> Seq(Clusters)] /\ D[p] = <<>>
      /\ \A q \in Positions : q # p => D[q] = E[q]
  BY <1>1
<1>6. k \in [AllClusters -> 0 .. LAST]
  <2>1. 0 \in 0 .. LAST
    BY LastPositive
  <2> QED  BY <1>1, <2>1 DEF Cleared
<1>7. \A c \in AllClusters : k[c] = IF \E i \in 1 .. Len(s) : s[i] = c THEN 0 ELSE f[c]
  BY DEF Cleared
<1>8. \A q \in Positions : IsChain(k, g[q], D[q])
  <2>1. ASSUME NEW q \in Positions, q # p PROVE IsChain(k, g[q], D[q])
    <3> DEFINE u == E[q]
    <3>1. u \in Seq(Clusters) /\ IsChain(f, h[q], u)
      BY <1>1
    <3>2. \A i \in 1 .. Len(u) : k[u[i]] = f[u[i]]
      <4> SUFFICES ASSUME NEW i \in 1 .. Len(u) PROVE k[u[i]] = f[u[i]]
        OBVIOUS
      <4>1. u[i] \in AllClusters
        BY InUse, ClusterType
      <4>2. ~ \E j \in 1 .. Len(s) : s[j] = u[i]
        BY <1>2, <2>1
      <4> QED  BY <1>7, <4>1, <4>2
    <3>3. g[q] = h[q] /\ D[q] = u
      BY <1>4, <1>5, <2>1
    <3> HIDE DEF u, k, g, D
    <3>4. IsChain(k, h[q], u)
      BY <3>1, <3>2 DEF IsChain
    <3> QED  BY <3>3, <3>4
  <2>2. IsChain(k, g[p], D[p])
    BY <1>4, <1>5 DEF IsChain
  <2> QED  BY <2>1, <2>2
<1>9. \A q \in Positions : \A i \in 1 .. Len(D[q]) :
        q # p /\ i \in 1 .. Len(E[q]) /\ D[q][i] = E[q][i]
  BY <1>5
<1>10. \A c1 \in Clusters : k[c1] # 0 => \E q \in Positions : \E i \in 1 .. Len(D[q]) : D[q][i] = c1
  <2> SUFFICES ASSUME NEW c1 \in Clusters, k[c1] # 0
               PROVE  \E q \in Positions : \E i \in 1 .. Len(D[q]) : D[q][i] = c1
    OBVIOUS
  <2>1. f[c1] # 0 /\ ~ \E i \in 1 .. Len(s) : s[i] = c1
    BY <1>7, ClusterType
  <2>2. PICK q \in Positions : \E i \in 1 .. Len(E[q]) : E[q][i] = c1
    BY <1>3, <2>1
  <2>3. q # p
    BY <2>1, <2>2
  <2>4. D[q] = E[q]
    BY <1>5, <2>3
  <2> QED  BY <2>2, <2>4
<1>11. \A c1 \in AllClusters \ Clusters : k[c1] = 0
  BY <1>1, <1>7
<1> HIDE DEF k, g, D, s
<1>12. \A q, q1 \in Positions : \A i \in 1 .. Len(D[q]), j \in 1 .. Len(D[q1]) :
         D[q][i] = D[q1][j] => q = q1 /\ i = j
  BY <1>2, <1>9
<1>13. Chains(k, g, D)
  BY <1>4, <1>5, <1>6, <1>8, <1>10, <1>11, <1>12 DEF Chains
<1> QED  BY <1>13 DEF k, g, D, s

\* free_cluster_chain clears the entries of the chain, whose clusters it reads
\* before it clears them.
LEMMA FreeChain ==
  ASSUME NEW d, DiskTyped(d), NEW h, NEW E, Chains(Table(d), h, E),
         FatCapacity <= EntryValues - 8,
         NEW p \in Positions, E[p] # <<>>, NEW g,
         NEW r, r = free_cluster_chain(d, h[p], g)
  PROVE  /\ DiskTyped(r) /\ Root(r) = Root(d) /\ Table(r) = Cleared(Table(d), E[p], Len(E[p]))
         /\ SameData(d, r)
<1> DEFINE f == Table(d)
           s == E[p]
           n == Len(s)
           Turn(x) == IF IsCluster(x.cluster)
                      THEN [disk |-> write_fat_entry(x.disk, x.cluster, 0, g),
                            cluster |-> read_fat_entry(x.disk, x.cluster, g)]
                      ELSE x
           start == [disk |-> d, cluster |-> h[p]]
           G(w, k) == IF k = 0 THEN start ELSE Turn(w[k - 1])
           W == CHOOSE w : w = [k \in 0 .. FatCapacity |-> G(w, k)]
           At(x, j) == /\ DiskTyped(x.disk) /\ Root(x.disk) = Root(d) /\ SameData(d, x.disk)
                       /\ Table(x.disk) = Cleared(f, s, j)
                       /\ x.cluster = IF j = n THEN LAST ELSE s[j + 1]
           Built == {m \in Nat : \E w : w = [k \in 0 .. m |-> G(w, k)]}
           Kept == {k \in Nat : k <= FatCapacity => \E j \in 0 .. n : At(W[k], j) /\ (j = k \/ j = n)}
<1>1. r = W[FatCapacity].disk
  BY Zenon DEF free_cluster_chain
<1>2. n \in Nat /\ n < FatCapacity /\ n # 0 /\ FatCapacity \in Nat
  <2>1. n \in Nat /\ n < FatCapacity
    BY ChainLength
  <2>2. s \in Seq(Clusters)
    BY DEF Chains
  <2>3. FatCapacity \in Nat
    BY Sizes, SMT DEF FatCapacity
  <2> QED  BY <2>1, <2>2, <2>3
<1>3. f \in [AllClusters -> 0 .. LAST] /\ IsChain(f, h[p], s)
  BY DEF Chains
<1>4. \A i \in 1 .. n : s[i] \in Clusters /\ s[i] \in AllClusters
  BY InUse, ClusterType
<1>5. \A i, j \in 1 .. n : s[i] = s[j] => i = j
  BY DEF Chains
<1> HIDE DEF s, f
<1>6. At(start, 0)
  <2>1. Cleared(f, s, 0) = f
    BY <1>3 DEF Cleared
  <2>2. h[p] = s[1]
    BY <1>3 DEF IsChain, s
  <2>3. SameData(d, d)
    BY DEF SameData
  <2> QED  BY <1>2, <2>1, <2>2, <2>3 DEF f
<1>7. ASSUME NEW x, NEW j \in 0 .. n, At(x, j), j # n PROVE At(Turn(x), j + 1)
  <2> DEFINE c == s[j + 1]
             y == write_fat_entry(x.disk, c, 0, g)
             z == read_fat_entry(x.disk, c, g)
  <2>1. j + 1 \in 1 .. n /\ c \in Clusters /\ c \in AllClusters /\ x.cluster = c
    BY <1>2, <1>4, <1>7
  <2>2. IsCluster(c)
    <3> HIDE DEF c, n
    <3>1. FatCapacity <= EntryValues - 8 /\ FatCapacity \in Nat
      BY <1>2
    <3>2. EntryValues \in Nat
      BY Radices
    <3>3. c \in 2 .. FatCapacity - 1
      BY <2>1 DEF AllClusters
    <3> QED  BY ONLY <3>1, <3>2, <3>3 DEF IsCluster
  <2>3. Turn(x) = [disk |-> y, cluster |-> z]
    BY <2>1, <2>2
  <2>4. /\ DiskTyped(y) /\ Root(y) = Root(d) /\ Table(y) = Assigned(Cleared(f, s, j), c, 0)
        /\ SameData(d, y)
    <3>1. 0 \in 0 .. LAST
      BY LastPositive
    <3>2. /\ DiskTyped(y) /\ Root(y) = Root(d) /\ Table(y) = Assigned(Cleared(f, s, j), c, 0)
          /\ SameData(x.disk, y)
      BY <1>7, <2>1, <3>1, Assign
    <3> HIDE DEF y
    <3>3. SameData(d, y)
      BY <1>7, <3>2 DEF SameData
    <3> QED  BY <3>2, <3>3
  <2>5. z = Cleared(f, s, j)[c]
    BY <1>7, <2>1, Lookup
  <2>6. Assigned(Cleared(f, s, j), c, 0) = Cleared(f, s, j + 1)
    <3>1. \A i \in 1 .. j + 1 : i = j + 1 \/ i \in 1 .. j
      OBVIOUS
    <3>2. \A i \in 1 .. j : i \in 1 .. j + 1
      OBVIOUS
    <3>3. j + 1 \in 1 .. j + 1
      OBVIOUS
    <3> QED  BY <2>1, <3>1, <3>2, <3>3 DEF Cleared, Assigned
  <2>7. z = f[c]
    <3>1. ~ \E i \in 1 .. j : s[i] = c
      <4>1. \A i \in 1 .. j : i \in 1 .. n /\ i # j + 1
        BY <1>2, <2>1
      <4> QED  BY <1>5, <2>1, <4>1
    <3> QED  BY <2>1, <2>5, <3>1 DEF Cleared
  <2>8. f[c] = IF j + 1 = n THEN LAST ELSE s[(j + 1) + 1]
    <3>1. s # <<>>
      BY DEF s
    <3>2. CASE j + 1 = n
      BY <1>3, <3>1, <3>2 DEF IsChain
    <3>3. CASE j + 1 # n
      <4>1. j + 1 \in 1 .. n - 1
        BY <1>2, <2>1, <3>3
      <4> QED  BY <1>3, <3>1, <3>3, <4>1 DEF IsChain
    <3> QED  BY <3>2, <3>3
  <2> DEFINE t == Turn(x)
  <2>9. t.disk = y /\ t.cluster = z
    BY <2>3
  <2> HIDE DEF y, z, c, t
  <2>10. /\ DiskTyped(t.disk) /\ Root(t.disk) = Root(d) /\ Table(t.disk) = Cleared(f, s, j + 1)
         /\ SameData(d, t.disk)
    BY <2>4, <2>6, <2>9
  <2>11. t.cluster = IF j + 1 = n THEN LAST ELSE s[(j + 1) + 1]
    BY <2>7, <2>8, <2>9
  <2>12. At(t, j + 1)
    BY ONLY <2>10, <2>11
  <2> QED  BY ONLY <2>12 DEF t
<1>8. ASSUME NEW x, At(x, n) PROVE Turn(x) = x
  <2>1. ~ IsCluster(LAST)
    BY Radices DEF IsCluster
  <2> QED  BY <1>8, <2>1
<1> HIDE DEF Turn, start
<1>9. 0 \in Built
  <2>1. [k \in 0 .. 0 |-> start] = [i \in 0 .. 0 |-> G([k \in 0 .. 0 |-> start], i)]
    OBVIOUS
  <2> QED  BY <2>1
<1>10. ASSUME NEW m \in Built PROVE m + 1 \in Built
  <2>1. PICK w : w = [i \in 0 .. m |-> G(w, i)]
    OBVIOUS
  <2> DEFINE v == [i \in 0 .. m + 1 |-> IF i = m + 1 THEN Turn(w[m]) ELSE w[i]]
  <2>2. ASSUME NEW i \in 0 .. m + 1 PROVE v[i] = G(v, i)
    <3>1. CASE i = m + 1
      BY <3>1
    <3>2. CASE i # m + 1
      <4>1. i \in 0 .. m /\ (i # 0 => i - 1 \in 0 .. m /\ i - 1 \in 0 .. m + 1 /\ i - 1 # m + 1)
        BY <3>2
      <4>2. v[i] = w[i] /\ (i # 0 => v[i - 1] = w[i - 1])
        BY <3>2, <4>1
      <4>3. w[i] = G(w, i)
        BY <2>1, <4>1
      <4> QED  BY <4>2, <4>3
    <3> QED  BY <3>1, <3>2
  <2>3. v = [i \in 0 .. m + 1 |-> v[i]]
    OBVIOUS
  <2> HIDE DEF v, G
  <2>4. v = [i \in 0 .. m + 1 |-> G(v, i)]
    BY <2>2, <2>3
  <2> QED  BY <2>4
<1> HIDE DEF Built
<1>11. Built = Nat
  BY <1>9, <1>10, SetInduction DEF Built
<1>12. \A k \in 0 .. FatCapacity : W[k] = G(W, k)
  <2>1. \E w : w = [k \in 0 .. FatCapacity |-> G(w, k)]
    BY <1>2, <1>11 DEF Built
  <2>2. W = [k \in 0 .. FatCapacity |-> G(W, k)]
    BY <2>1
  <2> HIDE DEF W, G
  <2> QED  BY <2>2
<1> HIDE DEF W, At
<1>13. 0 \in Kept
  BY <1>2, <1>6, <1>12
<1>14. ASSUME NEW k \in Kept PROVE k + 1 \in Kept
  <2> SUFFICES ASSUME k + 1 <= FatCapacity
               PROVE  \E j \in 0 .. n : At(W[k + 1], j) /\ (j = k + 1 \/ j = n)
    OBVIOUS
  <2>1. PICK j \in 0 .. n : At(W[k], j) /\ (j = k \/ j = n)
    BY <1>2
  <2>2. W[k + 1] = Turn(W[k])
    BY <1>2, <1>12
  <2>3. CASE j = n
    BY <1>2, <1>8, <2>1, <2>2, <2>3
  <2>4. CASE j # n
    <3>1. At(W[k + 1], j + 1) /\ j + 1 \in 0 .. n /\ j + 1 = k + 1
      BY <1>2, <1>7, <2>1, <2>2, <2>4
    <3> QED  BY <3>1
  <2> QED  BY <2>3, <2>4
<1> HIDE DEF Kept
<1>15. Kept = Nat
  BY <1>13, <1>14, SetInduction DEF Kept
<1>16. PICK j \in 0 .. n : At(W[FatCapacity], j) /\ (j = FatCapacity \/ j = n)
  BY <1>2, <1>15 DEF Kept
<1>17. At(W[FatCapacity], n)
  BY <1>2, <1>16
<1> QED  BY <1>1, <1>17 DEF At, f, s

-----------------------------------------------------------------------------
(* The chain that a write builds.                                          *)

\* The clusters that data takes.
Needs(content) == Turns(Len(content))

LEMMA NeedsType ==
  ASSUME NEW content \in Contents
  PROVE  content \in Seq(Int) /\ Len(content) \in Nat /\ Needs(content) \in Nat
<1>1. content \in Seq(Int)
  <2>1. content \in Seq(Nat)
    BY GeometryAssumption
  <2> QED  BY <2>1
<1>2. Len(content) \in Nat
  BY <1>1
<1>3. ClusterUnits \in Nat \ {0}
  BY UnitsType
<1>4. Len(content) + ClusterUnits - 1 \in Nat
  BY <1>2, <1>3
<1>5. Needs(content) \in Nat
  BY ONLY <1>3, <1>4, DivBracket DEF Needs, Turns
<1> QED  BY <1>1, <1>2, <1>5

\* A turn of the loop finds data, and leaves none behind a full cluster.
LEMMA TurnAt ==
  ASSUME NEW n \in Nat, NEW b \in Nat \ {0}, NEW k \in 1 .. (n + b - 1) \div b
  PROVE  (k - 1) * b \in Nat /\ (k - 1) * b < n /\ k * b = (k - 1) * b + b
<1> DEFINE t == (n + b - 1) \div b
<1>1. n + b - 1 \in Nat
  OBVIOUS
<1>2. t \in Nat /\ t * b <= n + b - 1
  BY <1>1, DivBracket
<1>3. k \in 1 .. t
  OBVIOUS
<1> HIDE DEF t
<1>4. k * b <= t * b /\ k * b = (k - 1) * b + b /\ (k - 1) * b \in Nat /\ t * b \in Nat
  BY <1>2, <1>3, SMT
<1> QED  BY <1>2, <1>4

LEMMA MinOf ==
  ASSUME NEW S \in SUBSET Nat, S # {}
  PROVE  Min(S) \in S /\ \A x \in S : Min(S) <= x
<1>1. \E m \in S : \A x \in S : m <= x
  BY LeastNat
<1> QED  BY <1>1 DEF Min

\* The data that goes into the k-th cluster, filled up with zeros.
LEMMA PieceIs ==
  ASSUME NEW content \in Contents, NEW k \in 1 .. Needs(content)
  PROVE  /\ Piece(content, k) \in [1 .. ClusterUnits -> Int]
         /\ \A u \in 1 .. ClusterUnits :
              Piece(content, k)[u] = IF (k - 1) * ClusterUnits + u <= Len(content)
                                     THEN content[(k - 1) * ClusterUnits + u] ELSE 0
<1> DEFINE n == Len(content)
           c == ClusterUnits
           a == (k - 1) * c
           e == k * c
           b == Min({e, n})
           x == SubSeq(content, a + 1, b)
           y == x \o Zeros
           z == SubSeq(y, 1, c)
<1>1. c \in Nat \ {0} /\ content \in Seq(Int) /\ n \in Nat /\ k \in Nat
  BY NeedsType, UnitsType
<1>2. a \in Nat /\ a < n /\ e = a + c
  <2>1. k \in 1 .. (n + c - 1) \div c
    BY DEF Needs, Turns
  <2> QED  BY ONLY <1>1, <2>1, TurnAt
<1>3. Piece(content, k) = z
  BY DEF Piece
<1> HIDE DEF a, e, c
<1>4. b \in Nat /\ b <= n /\ b <= a + c /\ (b = n \/ b = a + c)
  <2>1. {e, n} \in SUBSET Nat /\ {e, n} # {}
    BY <1>1, <1>2
  <2>2. b \in {e, n} /\ \A v \in {e, n} : b <= v
    BY ONLY <2>1, MinOf
  <2> QED  BY <1>1, <1>2, <2>2
<1> HIDE DEF b
<1>5. x \in Seq(Int) /\ Len(x) = b - a /\ \A i \in 1 .. b - a : x[i] = content[a + i]
  <2>1. a + 1 \in 1 .. n + 1 /\ b \in a .. n
    BY <1>1, <1>2, <1>4
  <2>2. \A i \in (a + 1) .. b : content[i] \in Int
    BY <1>1, <1>2, <1>4
  <2>3. x = [i \in 1 .. b - a |-> content[a + i]]
    BY <1>1, <1>2, <1>4
  <2>4. x \in [1 .. b - a -> Int]
    <3>1. \A i \in 1 .. b - a : a + i \in (a + 1) .. b
      BY <1>2, <1>4
    <3> QED  BY <2>2, <2>3, <3>1
  <2> QED  BY <1>1, <1>2, <1>4, <2>3, <2>4
<1> HIDE DEF x, n
<1>6. Zeros \in Seq(Int) /\ Len(Zeros) = c /\ \A i \in 1 .. c : Zeros[i] = 0
  <2>1. Zeros = [i \in 1 .. c |-> 0]
    BY DEF Zeros, c
  <2>2. Zeros \in [1 .. c -> Int]
    BY <2>1
  <2> QED  BY <1>1, <2>1, <2>2
<1> DEFINE zeros == Zeros
<1>7. zeros \in Seq(Int) /\ Len(zeros) = c /\ \A i \in 1 .. c : zeros[i] = 0
  BY <1>6
<1> HIDE DEF zeros
<1>8. y \in Seq(Int) /\ Len(y) = b - a + c
      /\ \A i \in 1 .. c : y[i] = IF i <= b - a THEN content[a + i] ELSE 0
  <2>1. y = x \o zeros
    BY DEF zeros
  <2> HIDE DEF y
  <2>2. y \in Seq(Int) /\ Len(y) = b - a + c
    <3>1. x \in Seq(Int) /\ zeros \in Seq(Int)
      BY <1>5, <1>7
    <3>2. x \o zeros \in Seq(Int) /\ Len(x \o zeros) = Len(x) + Len(zeros)
      BY ONLY <3>1
    <3> QED  BY <1>1, <1>2, <1>4, <1>5, <1>7, <2>1, <3>2
  <2>3. ASSUME NEW i \in 1 .. c PROVE y[i] = IF i <= b - a THEN content[a + i] ELSE 0
    <3>1. CASE i <= b - a
      <4>1. i \in 1 .. b - a
        BY <1>1, <1>2, <1>4, <3>1
      <4>2. y[i] = x[i]
        BY <1>5, <1>7, <2>1, <4>1
      <4> QED  BY <1>5, <3>1, <4>1, <4>2
    <3>2. CASE ~ (i <= b - a)
      <4>1. i - (b - a) \in 1 .. c /\ i \in b - a + 1 .. b - a + c
        BY <1>1, <1>2, <1>4, <3>2
      <4>2. y[i] = zeros[i - (b - a)]
        BY <1>5, <1>7, <2>1, <4>1
      <4> QED  BY <1>7, <3>2, <4>1, <4>2
    <3> QED  BY <3>1, <3>2
  <2> QED  BY <2>2, <2>3
<1> HIDE DEF y
<1>9. z = [i \in 1 .. c |-> y[i]]
  BY <1>1
<1>10. \A i \in 1 .. c : y[i] \in Int
  BY <1>1, <1>2, <1>4, <1>8
<1>11. \A i \in 1 .. c : (i <= b - a) <=> (a + i <= n)
  BY <1>1, <1>2, <1>4
<1>12. z \in [1 .. c -> Int] /\ \A i \in 1 .. c : z[i] = IF a + i <= n THEN content[a + i] ELSE 0
  <2> HIDE DEF z
  <2> QED  BY <1>8, <1>9, <1>10, <1>11
<1> QED  BY <1>3, <1>12 DEF a, n, c

\* With a chain at p that is still shorter than t, a cluster whose entry lies in one
\* sector is free; or every entry lies in one sector.
Spare(E, p, t) ==
  \/ Clusters = AllClusters
  \/ \A s \in Seq(Clusters) : Len(s) < t =>
       \E c \in Clusters : /\ \A i \in 1 .. Len(s) : s[i] # c
                           /\ \A q \in Positions \ {p} : \A i \in 1 .. Len(E[q]) : E[q][i] # c

\* allocate_cluster finds a cluster that is in no chain and whose entry it can write.
LEMMA Allocation ==
  ASSUME NEW d, DiskTyped(d), NEW h, NEW E, Chains(Table(d), h, E), NEW p \in Positions,
         NEW t \in Nat, Len(E[p]) < t, Spare(E, p, t), NEW g,
         FreeClusters(d, g) # {}, NEW c, c = Min(FreeClusters(d, g))
  PROVE  /\ c \in Clusters /\ Table(d)[c] = 0
         /\ \A b \in Clusters : b < c => Table(d)[b] # 0
<1> DEFINE free == FreeClusters(d, g)
<1>1. free \subseteq AllClusters /\ free \in SUBSET Nat
  BY DEF FreeClusters, AllClusters
<1>2. c \in free /\ \A x \in free : c <= x
  <2> HIDE DEF free
  <2>1. free # {} /\ c = Min(free)
    BY DEF free
  <2> QED  BY <1>1, <2>1, MinOf
<1>3. c \in Clusters
  <2>1. CASE Clusters = AllClusters
    BY <1>1, <1>2, <2>1
  <2>2. CASE \A s \in Seq(Clusters) : Len(s) < t =>
               \E c1 \in Clusters : /\ \A i \in 1 .. Len(s) : s[i] # c1
                                    /\ \A q \in Positions \ {p} : \A i \in 1 .. Len(E[q]) : E[q][i] # c1
    <3>1. E[p] \in Seq(Clusters)
      BY DEF Chains
    <3>2. PICK b \in Clusters : /\ \A i \in 1 .. Len(E[p]) : E[p][i] # b
                                /\ \A q \in Positions \ {p} : \A i \in 1 .. Len(E[q]) : E[q][i] # b
      BY <2>2, <3>1
    <3>3. ~ \E q \in Positions : \E i \in 1 .. Len(E[q]) : E[q][i] = b
      BY <3>2
    <3>4. Table(d)[b] = 0
      BY <3>3 DEF Chains
    <3>5. b \in free
      BY <3>4, Lookup, ClusterType DEF FreeClusters, AllClusters
    <3>6. c <= b /\ c \in AllClusters /\ b \in AllClusters
      BY <1>1, <1>2, <3>5
    <3>7. \A a \in 2 .. c : a \in 2 .. b
      BY <3>6 DEF AllClusters
    <3> QED  BY <3>6, <3>7 DEF Clusters
  <2> QED  BY <2>1, <2>2 DEF Spare
<1>4. read_fat_entry(d, c, g) = 0
  BY <1>2 DEF FreeClusters
<1>5. ASSUME NEW b \in Clusters, b < c, Table(d)[b] = 0 PROVE FALSE
  <2>1. b \in free
    BY <1>5, Lookup, ClusterType DEF FreeClusters, AllClusters
  <2>2. c <= b /\ b \in Nat /\ c \in Nat
    BY <1>1, <1>2, <2>1
  <2> QED  BY <1>5, <2>2
<1> QED  BY <1>3, <1>4, <1>5, Lookup

\* No cluster is free, or none below the clusters of a chain.
AllTaken(f) == \A c \in Clusters : f[c] # 0
TakenBelow(f, s) == \A i \in 1 .. Len(s) : \A b \in Clusters : b < s[i] => f[b] # 0

\* The disk r has a chain s with the data at p and is otherwise as d: what was in use
\* keeps its data, and the chain ends early only when no cluster is left.
Chained(d, r, h, E, p, first, content, s) ==
  /\ s \in Seq(Clusters) /\ Len(s) <= Needs(content)
  /\ Chains(Table(r), [h EXCEPT ![p] = first], [E EXCEPT ![p] = s])
  /\ \A i \in 1 .. Len(s) : Filled(r, s[i], Piece(content, i))
  /\ \A c \in Clusters : Table(d)[c] # 0 => ReadCluster(r, c) = ReadCluster(d, c)
  /\ TakenBelow(Table(r), s)
  /\ Len(s) < Needs(content) => AllTaken(Table(r))

LEMMA GrownTaken ==
  ASSUME NEW f \in [AllClusters -> Nat], NEW s \in Seq(Clusters), NEW c \in Clusters
  PROVE  \A b \in Clusters : f[b] # 0 \/ b = c => Grown(f, s, c)[b] # 0
<1>1. c # 0 /\ LAST # 0
  BY ClusterType, LastPositive
<1>2. s # <<>> => s[Len(s)] \in Clusters
  OBVIOUS
<1>3. Clusters \subseteq AllClusters
  BY DEF Clusters
<1> QED  BY <1>1, <1>2, <1>3 DEF Grown

LEMMA ChainWritten ==
  ASSUME NEW d, DiskTyped(d), NEW h, NEW E, Chains(Table(d), h, E),
         LAST >= FatCapacity,
         NEW p \in Positions, E[p] = <<>>, h[p] = 0,
         NEW content \in Contents, Spare(E, p, Needs(content)),
         NEW g, NEW r, r = WriteChain(d, content, g)
  PROVE  /\ DiskTyped(r.disk) /\ Root(r.disk) = Root(d)
         /\ \E s : Chained(d, r.disk, h, E, p, r.first, content, s)
<1> DEFINE turns == Needs(content)
           First(x, c) == IF x.first = 0 THEN c ELSE x.first
           Linked(x, c) ==
             LET d1 == Mark(x.disk, c, g)
             IN  IF x.prev # 0 THEN write_fat_entry(d1, x.prev, c, g) ELSE d1
           Turn(x, k) ==
             LET free == FreeClusters(x.disk, g)
                 c    == Min(free)
             IN  IF free = {} THEN x
                 ELSE [disk |-> WriteCluster(Linked(x, c), c, Piece(content, k)),
                       first |-> First(x, c), prev |-> c]
           start == [disk |-> d, first |-> 0, prev |-> 0]
           G(w, k) == IF k = 0 THEN start ELSE Turn(w[k - 1], k)
           W == CHOOSE w : w = [k \in 0 .. turns |-> G(w, k)]
           H(x) == [h EXCEPT ![p] = x.first]
           D(s) == [E EXCEPT ![p] = s]
           At(x, s, k) == /\ DiskTyped(x.disk) /\ Root(x.disk) = Root(d)
                          /\ s \in Seq(Clusters) /\ Len(s) <= k
                          /\ Chains(Table(x.disk), H(x), D(s))
                          /\ x.prev = IF s = <<>> THEN 0 ELSE s[Len(s)]
                          /\ \A i \in 1 .. Len(s) : Filled(x.disk, s[i], Piece(content, i))
                          /\ \A b \in Clusters : Table(d)[b] # 0 =>
                               /\ Table(x.disk)[b] # 0
                               /\ ReadCluster(x.disk, b) = ReadCluster(d, b)
                          /\ TakenBelow(Table(x.disk), s)
                          /\ Len(s) < k => AllTaken(Table(x.disk))
           Built == {m \in Nat : \E w : w = [k \in 0 .. m |-> G(w, k)]}
           Kept == {k \in Nat : k <= turns => \E s : At(W[k], s, k)}
<1>1. turns \in Nat
  BY NeedsType
<1>2. r = W[turns]
  BY Zenon DEF WriteChain, Needs
<1>3. h \in [Positions -> Nat] /\ E \in [Positions -> Seq(Clusters)]
  BY DEF Chains
<1>4. At(start, <<>>, 0)
  <2>1. H(start) = h /\ D(<<>>) = E
    BY <1>3
  <2>2. <<>> \in Seq(Clusters) /\ Len(<<>>) = 0
    OBVIOUS
  <2>3. TakenBelow(Table(d), <<>>) /\ \A i \in 1 .. Len(<<>>) : Filled(d, <<>>[i], Piece(content, i))
    BY <2>2 DEF TakenBelow
  <2> HIDE DEF H, D
  <2> QED  BY <2>1, <2>2, <2>3
<1>5. ASSUME NEW x, NEW s, NEW k \in Nat, At(x, s, k), k + 1 <= turns
      PROVE  \E t : At(Turn(x, k + 1), t, k + 1)
  <2> DEFINE free == FreeClusters(x.disk, g)
             c == Min(free)
  <2>1. CASE free = {}
    <3>1. Len(s) <= k + 1
      BY <1>5
    <3>2. AllTaken(Table(x.disk))
      <4>1. ASSUME NEW b \in Clusters, Table(x.disk)[b] = 0 PROVE FALSE
        <5>1. b \in free
          BY <1>5, <4>1, Lookup, ClusterType DEF FreeClusters, AllClusters
        <5> QED  BY <2>1, <5>1
      <4> QED  BY <4>1 DEF AllTaken
    <3>4. At(x, s, k + 1)
      BY ONLY <1>5, <3>1, <3>2
    <3>3. Turn(x, k + 1) = x
      BY <2>1
    <3> QED  BY <3>3, <3>4
  <2>2. CASE free # {}
    <3> DEFINE f == Table(x.disk)
               d1 == Mark(x.disk, c, g)
               d2 == Linked(x, c)
               d3 == WriteCluster(d2, c, Piece(content, k + 1))
               y == Turn(x, k + 1)
    <3>1. y = [disk |-> d3, first |-> First(x, c), prev |-> c]
      BY <2>2
    <3>2. y.disk = d3 /\ y.first = First(x, c) /\ y.prev = c
      BY <3>1
    <3>3. D(s)[p] = s /\ H(x)[p] = x.first /\ s \in Seq(Clusters) /\ Len(s) \in Nat
      BY <1>3, <1>5
    <3>4. Spare(D(s), p, turns)
      <4>1. \A q \in Positions \ {p} : D(s)[q] = E[q]
        BY <1>3
      <4> QED  BY <4>1 DEF Spare
    <3>5. c \in Clusters /\ f[c] = 0 /\ \A b \in Clusters : b < c => f[b] # 0
      <4>1. Len(D(s)[p]) < turns
        BY <1>1, <1>5, <3>3
      <4>2. free # {}
        BY <2>2
      <4> DEFINE DS == D(s)
                 HX == H(x)
      <4>3. Chains(Table(x.disk), HX, DS) /\ DiskTyped(x.disk) /\ Len(DS[p]) < turns /\ Spare(DS, p, turns)
        BY <1>5, <3>4, <4>1
      <4> HIDE DEF DS, HX, turns
      <4> QED  BY <1>1, <4>2, <4>3, Allocation
    <3> HIDE DEF c
    <3>6. /\ DiskTyped(d1) /\ Table(d1) = Assigned(f, c, LAST) /\ Root(d1) = Root(d)
          /\ SameData(x.disk, d1)
      <4>1. LAST \in 0 .. LAST
        BY LastPositive
      <4> QED  BY <1>5, <3>5, <4>1, Assign DEF Mark
    <3>7. /\ DiskTyped(d2) /\ Table(d2) = Grown(f, s, c) /\ Root(d2) = Root(d)
          /\ SameData(x.disk, d2)
      <4>1. CASE s = <<>>
        <5>1. d2 = d1
          BY <1>5, <4>1
        <5> HIDE DEF d1, d2
        <5> QED  BY <3>6, <4>1, <5>1 DEF Grown, Assigned
      <4>2. CASE s # <<>>
        <5> DEFINE b == s[Len(s)]
        <5>1. b \in Clusters /\ x.prev = b /\ b # 0
          BY <1>5, <3>3, <4>2, ClusterType
        <5>2. d2 = write_fat_entry(d1, b, c, g)
          BY <5>1
        <5>3. c \in 0 .. LAST
          <6>1. FatCapacity \in Nat
            BY Sizes, SMT DEF FatCapacity
          <6> QED  BY <3>5, <6>1, ClusterType, LastPositive DEF AllClusters
        <5> HIDE DEF b, d1, d2
        <5>4. /\ DiskTyped(d2) /\ Table(d2) = Assigned(Table(d1), b, c) /\ Root(d2) = Root(d)
              /\ SameData(x.disk, d2)
          <6>1. DiskTyped(d1) /\ b \in Clusters /\ c \in 0 .. LAST /\ d2 = write_fat_entry(d1, b, c, g)
            BY ONLY <3>6, <5>1, <5>2, <5>3
          <6>3. /\ DiskTyped(d2) /\ Table(d2) = Assigned(Table(d1), b, c) /\ Root(d2) = Root(d1)
                /\ SameData(d1, d2)
            BY ONLY <6>1, Assign
          <6>4. SameData(x.disk, d2)
            BY ONLY <3>6, <6>3 DEF SameData
          <6> QED  BY ONLY <3>6, <6>3, <6>4
        <5>5. Assigned(Assigned(f, c, LAST), b, c) = Grown(f, s, c)
          BY <4>2 DEF Grown, Assigned, b
        <5> QED  BY <3>6, <5>4, <5>5
      <4> QED  BY <4>1, <4>2
    <3> DEFINE piece == Piece(content, k + 1)
    <3>8. /\ DiskTyped(d3) /\ Table(d3) = Grown(f, s, c) /\ Root(d3) = Root(d)
          /\ Filled(d3, c, piece)
          /\ \A b \in Clusters \ {c} : ReadCluster(d3, b) = ReadCluster(x.disk, b)
      <4> HIDE DEF d2
      <4>1. piece \in [1 .. ClusterUnits -> Int]
        <5>1. k + 1 \in 1 .. Needs(content)
          BY <1>1, <1>5
        <5> QED  BY <5>1, PieceIs
      <4> HIDE DEF piece
      <4>2. /\ DiskTyped(d3) /\ Table(d3) = Table(d2) /\ Root(d3) = Root(d2)
            /\ Filled(d3, c, piece)
            /\ \A b \in Clusters \ {c} : ReadCluster(d3, b) = ReadCluster(d2, b)
        <5> HIDE DEF d3
        <5>1. d3 = WriteCluster(d2, c, piece)
          BY DEF d3, piece
        <5> QED  BY <3>5, <3>7, <4>1, <5>1, ClusterFilled
      <4>3. \A b \in Clusters : ReadCluster(d2, b) = ReadCluster(x.disk, b)
        BY <1>5, <3>7, SameDataSame
      <4> HIDE DEF d3
      <4> QED  BY <3>7, <4>2, <4>3
    <3>9. Chains(Grown(f, s, c), [H(x) EXCEPT ![p] = IF s = <<>> THEN c ELSE H(x)[p]],
                 [D(s) EXCEPT ![p] = Append(s, c)])
      <4> DEFINE DS == D(s)
                 HX == H(x)
      <4>1. Chains(f, HX, DS) /\ DS[p] = s
        BY <1>5, <3>3
      <4> HIDE DEF DS, HX, f
      <4>2. Chains(Grown(f, DS[p], c), [HX EXCEPT ![p] = IF DS[p] = <<>> THEN c ELSE HX[p]],
                   [DS EXCEPT ![p] = Append(DS[p], c)])
        BY <3>5, <4>1, ChainGrows
      <4>3. Chains(Grown(f, s, c), [HX EXCEPT ![p] = IF s = <<>> THEN c ELSE HX[p]],
                   [DS EXCEPT ![p] = Append(s, c)])
        BY ONLY <4>1, <4>2
      <4> QED  BY ONLY <4>3 DEF DS, HX
    <3>10. First(x, c) = IF s = <<>> THEN c ELSE H(x)[p]
      <4>1. IsChain(f, x.first, s)
        BY <1>5, <3>3 DEF Chains
      <4>2. CASE s = <<>>
        BY <4>1, <4>2 DEF IsChain
      <4>3. CASE s # <<>>
        <5>1. s[1] \in Clusters
          BY <3>3, <4>3
        <5>2. x.first # 0
          BY <4>1, <4>3, <5>1, ClusterType DEF IsChain
        <5> QED  BY <3>3, <4>3, <5>2
      <4> QED  BY <4>2, <4>3
    <3>11. [H(x) EXCEPT ![p] = First(x, c)] = H(y)
      BY <1>3, <3>2
    <3>12. [D(s) EXCEPT ![p] = Append(s, c)] = D(Append(s, c))
      BY <1>3
    <3>13. /\ Append(s, c) \in Seq(Clusters) /\ Len(Append(s, c)) <= k + 1
           /\ Append(s, c) # <<>> /\ Append(s, c)[Len(Append(s, c))] = c
      <4>1. Len(s) <= k /\ k \in Nat
        BY <1>5
      <4>2. s \in Seq(Clusters) /\ Len(s) \in Nat /\ c \in Clusters
        BY <3>3, <3>5
      <4>3. Append(s, c) \in Seq(Clusters) /\ Len(Append(s, c)) = Len(s) + 1
        BY ONLY <4>2
      <4>4. Append(s, c)[Len(s) + 1] = c
        BY ONLY <4>2
      <4>5. Append(s, c) # <<>>
        BY ONLY <4>2, <4>3
      <4> QED  BY ONLY <4>1, <4>2, <4>3, <4>4, <4>5
    <3>14. Len(s) = k /\ Len(Append(s, c)) = k + 1
      <4>1. ~ AllTaken(f)
        BY <3>5 DEF AllTaken
      <4>2. Len(s) <= k /\ ~ (Len(s) < k)
        BY <1>5, <4>1
      <4> QED  BY <3>3, <3>5, <4>2
    <3> HIDE DEF H, D, y, First, d1, d2, d3
    <3>15. \A i \in 1 .. k : Append(s, c)[i] = s[i] /\ s[i] \in Clusters /\ s[i] # c /\ f[s[i]] # 0
      <4> DEFINE DS == D(s)
                 HX == H(x)
      <4>1. Chains(f, HX, DS) /\ DS[p] = s
        BY <1>5, <3>3
      <4> HIDE DEF DS, HX, f
      <4>2. \A i \in 1 .. Len(s) : s[i] \in Clusters /\ f[s[i]] # 0
        BY <4>1, InUse
      <4>3. \A i \in 1 .. k : Append(s, c)[i] = s[i]
        BY <3>3, <3>5, <3>14
      <4> QED  BY <3>5, <3>14, <4>2, <4>3
    <3>16. Append(s, c)[k + 1] = c
      BY <3>13, <3>14
    <3> DEFINE u == Append(s, c)
    <3>17. \A b \in Clusters : f[b] # 0 \/ b = c => Table(d3)[b] # 0
      <4>1. f \in [AllClusters -> Nat]
        <5>1. f \in [AllClusters -> 0 .. LAST]
          BY <1>5, TableType
        <5> QED  BY <5>1
      <4> HIDE DEF f
      <4> QED  BY <3>3, <3>5, <3>8, <4>1, GrownTaken
    <3> HIDE DEF f, u
    <3>18. \A i \in 1 .. Len(u) : Filled(y.disk, u[i], Piece(content, i))
      <4> SUFFICES ASSUME NEW i \in 1 .. k + 1 PROVE Filled(d3, u[i], Piece(content, i))
        BY <3>2, <3>14 DEF u
      <4>1. CASE i = k + 1
        BY <3>8, <3>16, <4>1 DEF u, piece
      <4>2. CASE i # k + 1
        <5>1. i \in 1 .. k
          BY <4>2
        <5>2. u[i] = s[i] /\ s[i] \in Clusters \ {c}
          BY <3>15, <5>1 DEF u
        <5>3. Filled(x.disk, s[i], Piece(content, i))
          BY <1>5, <3>14, <5>1
        <5> QED  BY <3>8, <5>2, <5>3 DEF Filled
      <4> QED  BY <4>1, <4>2
    <3>19. \A b \in Clusters : Table(d)[b] # 0 =>
             Table(y.disk)[b] # 0 /\ ReadCluster(y.disk, b) = ReadCluster(d, b)
      <4> SUFFICES ASSUME NEW b \in Clusters, Table(d)[b] # 0
                   PROVE  Table(d3)[b] # 0 /\ ReadCluster(d3, b) = ReadCluster(d, b)
        BY <3>2
      <4>1. f[b] # 0 /\ ReadCluster(x.disk, b) = ReadCluster(d, b)
        BY <1>5 DEF f
      <4>2. b # c
        BY <3>5, <4>1
      <4> QED  BY <3>8, <3>17, <4>1, <4>2
    <3>20. TakenBelow(Table(y.disk), u)
      <4> SUFFICES ASSUME NEW i \in 1 .. k + 1, NEW b \in Clusters, b < u[i] PROVE Table(d3)[b] # 0
        BY <3>2, <3>14 DEF TakenBelow, u
      <4>1. CASE i = k + 1
        BY <3>5, <3>16, <3>17, <4>1 DEF u
      <4>2. CASE i # k + 1
        <5>1. i \in 1 .. k
          BY <4>2
        <5>2. u[i] = s[i]
          BY <3>15, <5>1 DEF u
        <5>3. f[b] # 0
          BY <1>5, <3>14, <5>1, <5>2 DEF TakenBelow, f
        <5> QED  BY <3>17, <5>3
      <4> QED  BY <4>1, <4>2
    <3>21. Chains(Table(d3), H(y), D(u))
      BY <3>8, <3>9, <3>10, <3>11, <3>12 DEF u
    <3>22. u \in Seq(Clusters) /\ Len(u) = k + 1 /\ u # <<>> /\ u[Len(u)] = c
      BY <3>13, <3>14 DEF u
    <3>23. At(y, u, k + 1)
      BY <3>2, <3>8, <3>18, <3>19, <3>20, <3>21, <3>22
    <3> QED  BY <3>23 DEF y
  <2> QED  BY <2>1, <2>2
<1> HIDE DEF Turn, start
<1>6. 0 \in Built
  <2>1. [k \in 0 .. 0 |-> start] = [i \in 0 .. 0 |-> G([k \in 0 .. 0 |-> start], i)]
    OBVIOUS
  <2> QED  BY <2>1
<1>7. ASSUME NEW m \in Built PROVE m + 1 \in Built
  <2>1. PICK w : w = [i \in 0 .. m |-> G(w, i)]
    OBVIOUS
  <2> DEFINE v == [i \in 0 .. m + 1 |-> IF i = m + 1 THEN Turn(w[m], i) ELSE w[i]]
  <2>2. ASSUME NEW i \in 0 .. m + 1 PROVE v[i] = G(v, i)
    <3>1. CASE i = m + 1
      BY <3>1
    <3>2. CASE i # m + 1
      <4>1. i \in 0 .. m /\ (i # 0 => i - 1 \in 0 .. m /\ i - 1 \in 0 .. m + 1 /\ i - 1 # m + 1)
        BY <3>2
      <4>2. v[i] = w[i] /\ (i # 0 => v[i - 1] = w[i - 1])
        BY <3>2, <4>1
      <4>3. w[i] = G(w, i)
        BY <2>1, <4>1
      <4> QED  BY <4>2, <4>3
    <3> QED  BY <3>1, <3>2
  <2>3. v = [i \in 0 .. m + 1 |-> v[i]]
    OBVIOUS
  <2> HIDE DEF v, G
  <2>4. v = [i \in 0 .. m + 1 |-> G(v, i)]
    BY <2>2, <2>3
  <2> QED  BY <2>4
<1> HIDE DEF Built
<1>8. Built = Nat
  BY <1>6, <1>7, SetInduction DEF Built
<1> HIDE DEF turns
<1>9. \A k \in 0 .. turns : W[k] = G(W, k)
  <2>1. \E w : w = [k \in 0 .. turns |-> G(w, k)]
    BY <1>1, <1>8 DEF Built
  <2>2. W = [k \in 0 .. turns |-> G(W, k)]
    BY <2>1
  <2> HIDE DEF W, G
  <2> QED  BY <2>2
<1> HIDE DEF W, At
<1>10. 0 \in Kept
  BY <1>1, <1>4, <1>9
<1>11. ASSUME NEW k \in Kept PROVE k + 1 \in Kept
  <2> SUFFICES ASSUME k + 1 <= turns PROVE \E s : At(W[k + 1], s, k + 1)
    OBVIOUS
  <2>1. PICK s : At(W[k], s, k)
    BY <1>1
  <2>2. W[k + 1] = Turn(W[k], k + 1)
    BY <1>1, <1>9
  <2> QED  BY <1>5, <2>1, <2>2
<1> HIDE DEF Kept
<1>12. Kept = Nat
  BY <1>10, <1>11, SetInduction DEF Kept
<1>13. PICK s : At(r, s, turns)
  BY <1>1, <1>2, <1>12 DEF Kept
<1> QED  BY <1>13 DEF At, Chained, turns

-----------------------------------------------------------------------------
(* The directory.                                                          *)

\* Nothing but unused entries follows the end mark, no name is there twice, and the
\* label stays.
Directory(e) ==
  /\ e \in [Positions -> Records]
  /\ \A p, q \in Positions : e[p].name = END /\ p < q => e[q].name = END
  /\ \A p, q \in Positions : e[p].name = e[q].name /\ e[p].name \notin {END, DELETED} => p = q
  /\ \E p \in Positions : e[p].name = LABEL

\* The names that callers use are none of the marks.
Plain == Names \cap {END, DELETED, LABEL} = {}

\* The most clusters a file takes are m, and G has that many for every name.
Enough(G, m) ==
  /\ \A content \in Contents : Needs(content) <= m
  /\ Cardinality(Names) * m <= Cardinality(G)

Fits == Clusters = AllClusters \/ \E m \in Nat : Enough(Clusters, m)

\* A chain belongs to a name and is no longer than the data needs.
Sized(e, E) ==
  \A q \in Positions :
    E[q] # <<>> => e[q].name \in Names /\ \E content \in Contents : Len(E[q]) <= Needs(content)

\* find_file meets the entry with the name, wherever it is.
LEMMA FoundIs ==
  ASSUME NEW d, DiskTyped(d), Directory(Root(d)), Plain, NEW filename \in Names
  PROVE  Found(d, filename) = {p \in Positions : Root(d)[p].name = filename}
<1>1. \A p \in Positions : Root(d)[p] = Entry(d, p)
  BY EntryType
<1>2. filename # END
  BY DEF Plain
<1>3. ASSUME NEW p \in Positions, Entry(d, p).name = filename, NEW q \in 0 .. p
      PROVE  Entry(d, q).name # END
  <2> DEFINE n == RootSectors * EntriesPerSector
  <2>0. n \in Nat /\ Positions = 0 .. n - 1
    BY Sizes, SMT DEF Positions
  <2> HIDE DEF n
  <2>1. q \in Positions /\ (q = p \/ q < p)
    BY <2>0
  <2> QED  BY <1>1, <1>2, <1>3, <2>1 DEF Directory
<1> QED  BY <1>1, <1>3 DEF Found

LEMMA MinOfOne ==
  ASSUME NEW p \in Nat
  PROVE  Min({p}) = p
BY MinOf, {p} \in SUBSET Nat, {p} # {}

\* A name that is in the directory is there once.
LEMMA FoundOnce ==
  ASSUME NEW e, Directory(e), Plain, NEW filename \in Names, NEW p \in Positions,
         e[p].name = filename
  PROVE  {q \in Positions : e[q].name = filename} = {p}
<1>1. filename \notin {END, DELETED}
  BY DEF Plain
<1> QED  BY <1>1 DEF Directory

\* Chains that belong to names, none longer than m.
Within(e, D, m) ==
  \A q \in Positions : D[q] # <<>> => e[q].name \in Names /\ Len(D[q]) <= m

\* Every cluster of S is in one of the chains.
Covers(D, S) == \A c \in S : \E q \in Positions : \E i \in 1 .. Len(D[q]) : D[q][i] = c

\* The k-th cluster of a chain is none of S.
Misses(s, S, k) == \A i \in 1 .. Len(s) : s[i] \in S => i # k

\* The clusters of S are fewer than the places that the chains of the names have, when
\* one of these leaves a place to none of S.
LEMMA Crowded ==
  ASSUME NEW e, Directory(e), Plain, NEW D \in [Positions -> Seq(Clusters)], NEW m \in Nat,
         Within(e, D, m), NEW S \in SUBSET Clusters, Covers(D, S),
         NEW p \in Positions, e[p].name \in Names, NEW k \in 1 .. m, Misses(D[p], S, k)
  PROVE  /\ IsFiniteSet(S) /\ Cardinality(S) \in Nat
         /\ Cardinality(S) < Cardinality(Names) * m /\ Cardinality(Names) \in Nat
<1> USE DEF Within, Covers, Misses
<1> DEFINE Where(c) == CHOOSE q \in Positions : \E i \in 1 .. Len(D[q]) : D[q][i] = c
           Nth(c) == CHOOSE i \in 1 .. Len(D[Where(c)]) : D[Where(c)][i] = c
           J == [c \in S |-> <<e[Where(c)].name, Nth(c)>>]
           Pairs == Names \X (1 .. m)
           at == <<e[p].name, k>>
           Places == Pairs \ {at}
<1>4. \A q \in Positions : \A i \in 1 .. Len(D[q]) :
        i \in 1 .. m /\ e[q].name \in Names /\ (q = p /\ D[q][i] \in S => i # k)
  <2> SUFFICES ASSUME NEW q \in Positions, NEW i \in 1 .. Len(D[q])
               PROVE  i \in 1 .. m /\ e[q].name \in Names
    OBVIOUS
  <2> DEFINE u == D[q]
  <2>1. u \in Seq(Clusters) /\ i \in 1 .. Len(u) /\ (u # <<>> => e[q].name \in Names /\ Len(u) <= m)
    OBVIOUS
  <2> HIDE DEF u
  <2>2. u # <<>> /\ Len(u) \in Nat
    BY <2>1
  <2> QED  BY <2>1, <2>2
<1>5. \A c \in S : Where(c) \in Positions /\ \E i \in 1 .. Len(D[Where(c)]) : D[Where(c)][i] = c
  OBVIOUS
<1>6. \A c \in S : Nth(c) \in 1 .. Len(D[Where(c)]) /\ D[Where(c)][Nth(c)] = c
  <2> SUFFICES ASSUME NEW c \in S
               PROVE  Nth(c) \in 1 .. Len(D[Where(c)]) /\ D[Where(c)][Nth(c)] = c
    OBVIOUS
  <2>1. \E i \in 1 .. Len(D[Where(c)]) : D[Where(c)][i] = c
    BY <1>5
  <2> HIDE DEF Where
  <2> QED  BY <2>1
<1> HIDE DEF Where, Nth
<1>7. \A q, q1 \in Positions : e[q].name = e[q1].name /\ e[q].name \in Names => q = q1
  BY DEF Directory, Plain
<1>8. \A c \in S : J[c] \in Places
  <2> SUFFICES ASSUME NEW c \in S PROVE <<e[Where(c)].name, Nth(c)>> \in Places
    OBVIOUS
  <2> DEFINE q == Where(c)
             i == Nth(c)
  <2>1. q \in Positions /\ i \in 1 .. m /\ e[q].name \in Names /\ (q = p => i # k)
    BY <1>4, <1>5, <1>6
  <2> HIDE DEF q, i
  <2>2. ~ (e[q].name = e[p].name /\ i = k)
    BY <1>7, <2>1
  <2>3. <<e[q].name, i>> \in Places
    BY <2>1, <2>2
  <2> QED  BY <2>3 DEF q, i
<1>9. \A c, c1 \in S : J[c] = J[c1] => c = c1
  <2> SUFFICES ASSUME NEW c \in S, NEW c1 \in S,
                      e[Where(c)].name = e[Where(c1)].name, Nth(c) = Nth(c1)
               PROVE  c = c1
    OBVIOUS
  <2>1. Where(c) = Where(c1)
    BY <1>4, <1>5, <1>6, <1>7
  <2> QED  BY <1>6, <2>1
<1>10. J \in Injection(S, Places)
  <2>1. J \in [S -> Places]
    <3>1. J = [c \in S |-> J[c]]
      OBVIOUS
    <3> HIDE DEF J, Places
    <3> QED  BY <1>8, <3>1
  <2> HIDE DEF J, Places
  <2> QED  BY <1>9, <2>1 DEF Injection, IsInjective
<1>11. IsFiniteSet(Pairs) /\ Cardinality(Pairs) = Cardinality(Names) * m
  <2>1. IsFiniteSet(Names)
    BY GeometryAssumption
  <2>2. IsFiniteSet(1 .. m) /\ Cardinality(1 .. m) = m
    <3>1. IsFiniteSet(1 .. m) /\ Cardinality(1 .. m) = IF 1 > m THEN 0 ELSE m - 1 + 1
      BY FS_Interval, 1 \in Int, m \in Int
    <3> QED  BY <3>1
  <2> HIDE DEF Pairs
  <2>3. IsFiniteSet(Names \X (1 .. m)) /\ Cardinality(Names \X (1 .. m)) = Cardinality(Names) * Cardinality(1 .. m)
    BY ONLY <2>1, <2>2, FS_Product
  <2> QED  BY <2>2, <2>3 DEF Pairs
<1>12. at \in Pairs
  OBVIOUS
<1> HIDE DEF Pairs, J, at
<1>13. IsFiniteSet(Places) /\ Cardinality(Places) = Cardinality(Pairs) - 1
  <2>1. /\ IsFiniteSet(Pairs \ {at})
        /\ Cardinality(Pairs \ {at}) = IF at \in Pairs THEN Cardinality(Pairs) - 1 ELSE Cardinality(Pairs)
    BY ONLY <1>11, FS_RemoveElement
  <2> QED  BY <1>12, <2>1
<1> HIDE DEF Places
<1>14. IsFiniteSet(S) /\ Cardinality(S) <= Cardinality(Places)
  BY <1>10, <1>13, FS_Injection
<1>15. Cardinality(S) \in Nat /\ Cardinality(Pairs) \in Nat /\ Cardinality(Names) \in Nat
  BY <1>11, <1>14, FS_CardinalityType, GeometryAssumption
<1> QED  BY <1>11, <1>13, <1>14, <1>15

\* The files of the other names leave room for this one.
LEMMA RoomForFile ==
  ASSUME NEW e, Directory(e), Plain, Fits, NEW E \in [Positions -> Seq(Clusters)], Sized(e, E),
         NEW p \in Positions, e[p].name \in Names, NEW content \in Contents
  PROVE  Spare(E, p, Needs(content))
<1> SUFFICES ASSUME Clusters # AllClusters,
                    NEW s \in Seq(Clusters), Len(s) < Needs(content),
                    \A c \in Clusters : \/ \E i \in 1 .. Len(s) : s[i] = c
                                        \/ \E q \in Positions \ {p} : \E i \in 1 .. Len(E[q]) : E[q][i] = c
             PROVE  FALSE
  BY DEF Spare
<1>1. PICK m \in Nat : Enough(Clusters, m)
  BY DEF Fits
<1> DEFINE D == [E EXCEPT ![p] = s]
<1>2. Len(s) < m /\ Len(s) \in Nat /\ m \in 1 .. m
  <2>1. Needs(content) <= m /\ Needs(content) \in Nat
    BY <1>1, NeedsType DEF Enough
  <2>2. Len(s) \in Nat
    OBVIOUS
  <2> QED  BY <2>1, <2>2
<1>3. /\ D \in [Positions -> Seq(Clusters)] /\ D[p] = s
      /\ \A q \in Positions \ {p} : D[q] = E[q]
  OBVIOUS
<1>4. \A q \in Positions : D[q] # <<>> => e[q].name \in Names /\ Len(D[q]) <= m
  <2> SUFFICES ASSUME NEW q \in Positions, D[q] # <<>> PROVE e[q].name \in Names /\ Len(D[q]) <= m
    OBVIOUS
  <2>1. CASE q = p
    BY <1>2, <1>3, <2>1
  <2>2. CASE q # p
    <3>1. PICK c \in Contents : e[q].name \in Names /\ Len(E[q]) <= Needs(c)
      BY <1>3, <2>2 DEF Sized
    <3>2. Needs(c) <= m /\ Needs(c) \in Nat
      BY <1>1, NeedsType DEF Enough
    <3>3. Len(E[q]) \in Nat
      <4> DEFINE u == E[q]
      <4>1. u \in Seq(Clusters)
        OBVIOUS
      <4> HIDE DEF u
      <4>2. Len(u) \in Nat
        BY <4>1
      <4> QED  BY <4>2 DEF u
    <3> QED  BY <1>3, <2>2, <3>1, <3>2, <3>3
  <2> QED  BY <2>1, <2>2
<1> HIDE DEF D
<1>5. \A c \in Clusters : \E q \in Positions : \E i \in 1 .. Len(D[q]) : D[q][i] = c
  <2> SUFFICES ASSUME NEW c \in Clusters
               PROVE  \E q \in Positions : \E i \in 1 .. Len(D[q]) : D[q][i] = c
    OBVIOUS
  <2>1. CASE \E i \in 1 .. Len(s) : s[i] = c
    BY <1>3, <2>1
  <2>2. CASE \E q \in Positions \ {p} : \E i \in 1 .. Len(E[q]) : E[q][i] = c
    BY <1>3, <2>2
  <2> QED  BY <2>1, <2>2
<1>6. \A i \in 1 .. Len(D[p]) : D[p][i] \in Clusters => i # m
  BY <1>2, <1>3
<1>7. /\ Cardinality(Clusters) \in Nat /\ Cardinality(Names) \in Nat
      /\ Cardinality(Clusters) < Cardinality(Names) * m
  <2> DEFINE S == Clusters
  <2>1. S \in SUBSET Clusters /\ Covers(D, S)
    BY <1>5 DEF Covers
  <2>2. Misses(D[p], S, m)
    BY <1>6 DEF Misses
  <2>3. Within(e, D, m)
    BY <1>4 DEF Within
  <2>4. D \in [Positions -> Seq(Clusters)] /\ m \in Nat /\ m \in 1 .. m
    BY <1>2, <1>3
  <2> HIDE DEF S
  <2>5. /\ Cardinality(S) \in Nat /\ Cardinality(Names) \in Nat
        /\ Cardinality(S) < Cardinality(Names) * m
    BY <2>1, <2>2, <2>3, <2>4, Crowded
  <2> QED  BY <2>5 DEF S
<1>8. Cardinality(Names) * m <= Cardinality(Clusters)
  BY <1>1 DEF Enough
<1> DEFINE z == Cardinality(Names) * m
<1>9. z \in Nat
  BY <1>7, SMT
<1> HIDE DEF z
<1> QED  BY <1>7, <1>8, <1>9 DEF z

-----------------------------------------------------------------------------
(* The invariant.                                                          *)

\* The chain s of an entry holds the content, as far as it goes.
Holds(d, entry, s, content) ==
  /\ entry.size = Len(content) /\ Len(s) <= Needs(content)
  /\ \A i \in 1 .. Len(s) : Filled(d, s[i], Piece(content, i))

\* An entry with a caller's name is a file, with the content that F gives the name; the
\* other entries have no chain.
FileAt(d, entry, s, F) ==
  IF entry.name \in Names
  THEN entry.name \in DOMAIN F /\ Holds(d, entry, s, F[entry.name])
  ELSE s = <<>>

Named(e) == {n \in Names : \E q \in Positions : e[q].name = n}

\* The disk with the chains E and the contents F of its files.
Sound(d, E, F) ==
  /\ DiskTyped(d) /\ Directory(Root(d))
  /\ Chains(Table(d), Firsts(Root(d)), E)
  /\ F \in [Named(Root(d)) -> Contents]
  /\ \A q \in Positions : FileAt(d, Root(d)[q], E[q], F)

Put(F, filename, content) ==
  [n \in DOMAIN F \cup {filename} |-> IF n = filename THEN content ELSE F[n]]

\* What the proofs assume of the constants.  Callers use names that format_name
\* keeps and that are no mark; the FAT has no more entries than 12 bits can number;
\* and each of its entries lies in one sector, or all files together fit below the
\* first that does not, whichever is written and however often.  With sectors of 512
\* bytes the latter is what is left: entry 341 lies in two, the files have 339
\* clusters, and a disk that has more never fills up.
Limits ==
  /\ Plain /\ \A n \in Names : Short[n] = n
  /\ FatCapacity <= EntryValues - 8
  /\ Fits

LEMMA PositionsType == Positions \in SUBSET Nat
<1>1. RootSectors * EntriesPerSector \in Nat
  BY Sizes, SMT
<1> QED  BY <1>1 DEF Positions

\* A position whose entry has no cluster has no chain.
LEMMA NoChain ==
  ASSUME NEW f, NEW h, NEW E, Chains(f, h, E), NEW p \in Positions
  PROVE  h[p] = 0 <=> E[p] = <<>>
<1> DEFINE s == E[p]
<1>1. s \in Seq(Clusters) /\ IsChain(f, h[p], s)
  BY DEF Chains
<1> HIDE DEF s
<1>2. CASE s = <<>>
  BY <1>1, <1>2 DEF IsChain, s
<1>3. CASE s # <<>>
  <2>1. s[1] \in Clusters
    BY <1>1, <1>3
  <2>2. h[p] # 0
    BY <1>1, <1>3, <2>1, ClusterType DEF IsChain
  <2> QED  BY <1>3, <2>2 DEF s
<1> QED  BY <1>2, <1>3

\* An entry is replaced by one of the same name, or an unused one by one with a new
\* name.
LEMMA DirectoryKept ==
  ASSUME NEW e, Directory(e), NEW p \in Positions, NEW x \in Records,
         x.name \notin {END, DELETED, LABEL},
         \/ e[p].name = x.name
         \/ /\ e[p].name \in {END, DELETED}
            /\ \A q \in Positions : e[q].name # x.name
            /\ \A q \in Positions : q < p => e[q].name # END
  PROVE  Directory([e EXCEPT ![p] = x])
<1> DEFINE n == [e EXCEPT ![p] = x]
<1>1. n \in [Positions -> Records] /\ n[p] = x /\ \A q \in Positions : q # p => n[q] = e[q]
  BY DEF Directory
<1> HIDE DEF n
<1>2. \A q, q1 \in Positions : n[q].name = END /\ q < q1 => n[q1].name = END
  <2> SUFFICES ASSUME NEW q \in Positions, NEW q1 \in Positions, n[q].name = END, q < q1
               PROVE  n[q1].name = END
    OBVIOUS
  <2>1. q # p /\ e[q].name = END
    BY <1>1
  <2>2. e[q1].name = END
    BY <2>1 DEF Directory
  <2>3. q1 # p
    <3> SUFFICES ASSUME q1 = p PROVE FALSE
      OBVIOUS
    <3> QED  BY <2>1, <2>2
  <2> QED  BY <1>1, <2>2, <2>3
<1>3. \A q, q1 \in Positions : n[q].name = n[q1].name /\ n[q].name \notin {END, DELETED} => q = q1
  <2> SUFFICES ASSUME NEW q \in Positions, NEW q1 \in Positions,
                      n[q].name = n[q1].name, n[q].name \notin {END, DELETED}
               PROVE  q = q1
    OBVIOUS
  <2>1. ASSUME NEW a \in Positions, NEW b \in Positions, a = p, n[a].name = n[b].name PROVE a = b
    <3> SUFFICES ASSUME b # p PROVE FALSE
      BY <2>1
    <3>1. e[b].name = x.name
      BY <1>1, <2>1
    <3> QED  BY <2>1, <3>1 DEF Directory
  <2>2. CASE q = p
    BY <2>1, <2>2
  <2>3. CASE q1 = p
    BY <2>1, <2>3
  <2>4. CASE q # p /\ q1 # p
    BY <1>1, <2>4 DEF Directory
  <2> QED  BY <2>2, <2>3, <2>4
<1>4. \E q \in Positions : n[q].name = LABEL
  <2>1. PICK q \in Positions : e[q].name = LABEL
    BY DEF Directory
  <2>2. q # p
    BY <2>1 DEF LABEL, END, DELETED
  <2> QED  BY <1>1, <2>1, <2>2
<1> QED  BY <1>1, <1>2, <1>3, <1>4 DEF Directory, n

\* A file stays as it is when its clusters are left alone.
LEMMA FileAtKept ==
  ASSUME NEW d, NEW r, NEW entry, NEW s \in Seq(Clusters), NEW F, NEW G,
         FileAt(d, entry, s, F),
         entry.name \in Names /\ entry.name \in DOMAIN F
           => entry.name \in DOMAIN G /\ G[entry.name] = F[entry.name],
         \A i \in 1 .. Len(s) : ReadCluster(r, s[i]) = ReadCluster(d, s[i])
  PROVE  FileAt(r, entry, s, G)
BY DEF FileAt, Holds, Filled

\* The disk and the directory before the data is written: the entry at p carries
\* the name, and its chain, if it had one, is free.
Opened(d, e, p, filename, E, F) ==
  /\ DiskTyped(d) /\ Root(d) = e /\ Directory(e)
  /\ p \in Positions /\ e[p].name = filename
  /\ Chains(Table(d), [Firsts(e) EXCEPT ![p] = 0], E) /\ E[p] = <<>>
  /\ F \in [DOMAIN F -> Contents] /\ DOMAIN F \cup {filename} = Named(e)
  /\ \A q \in Positions \ {p} : FileAt(d, e[q], E[q], F)

\* Opening a file that exists frees its chain.
LEMMA OpenOld ==
  ASSUME NEW d, NEW E, NEW F, Sound(d, E, F), Limits, NEW filename \in Names, NEW g,
         NEW p, p = Min(Found(d, filename)), Found(d, filename) # {},
         NEW r, r = Reclaim(d, Entry(d, p), g)
  PROVE  Opened(r, Root(d), p, filename, [E EXCEPT ![p] = <<>>], F)
<1> DEFINE e == Root(d)
           h == Firsts(e)
<1>1. DiskTyped(d) /\ Directory(e)
  BY DEF Sound
<1>2. Chains(Table(d), h, E)
  BY DEF Sound
<1>3. p \in Positions /\ e[p].name = filename
  <2>1. Found(d, filename) = {q \in Positions : e[q].name = filename}
    BY <1>1, FoundIs DEF Limits
  <2>2. Found(d, filename) \in SUBSET Nat
    BY <2>1, PositionsType
  <2>3. p \in Found(d, filename)
    BY <2>2, MinOf
  <2> QED  BY <2>1, <2>3
<1>4. h[p] = e[p].first /\ Entry(d, p) = e[p]
  <2>1. e[p].name \notin {END, DELETED}
    BY <1>3 DEF Limits, Plain
  <2> QED  BY <1>1, <1>3, <2>1, EntryType DEF Firsts
<1> DEFINE D == [E EXCEPT ![p] = <<>>]
           k == [h EXCEPT ![p] = 0]
<1>5. E \in [Positions -> Seq(Clusters)] /\ h \in [Positions -> Nat]
  BY <1>2 DEF Chains
<1>6. D[p] = <<>> /\ \A q \in Positions \ {p} : D[q] = E[q]
  BY <1>3, <1>5
<1>7. DiskTyped(r) /\ Root(r) = e /\ Chains(Table(r), k, D) /\ SameData(d, r)
  <2>1. CASE e[p].first = 0
    <3>1. r = d
      BY <1>4, <2>1 DEF Reclaim
    <3>2. E[p] = <<>> /\ h[p] = 0
      BY <1>2, <1>3, <1>4, <2>1, NoChain
    <3>3. D = E /\ k = h
      BY <1>3, <1>5, <3>2
    <3> QED  BY <1>1, <1>2, <3>1, <3>3 DEF SameData
  <2>2. CASE e[p].first # 0
    <3>1. r = free_cluster_chain(d, h[p], g)
      BY <1>4, <2>2 DEF Reclaim
    <3>2. E[p] # <<>>
      BY <1>2, <1>3, <1>4, <2>2, NoChain
    <3>3. FatCapacity <= EntryValues - 8
      BY DEF Limits
    <3> HIDE DEF e, h
    <3>4. /\ DiskTyped(r) /\ Root(r) = Root(d) /\ Table(r) = Cleared(Table(d), E[p], Len(E[p]))
          /\ SameData(d, r)
      BY ONLY <1>1, <1>2, <1>3, <3>1, <3>2, <3>3, FreeChain
    <3>5. Chains(Cleared(Table(d), E[p], Len(E[p])), k, D)
      BY ONLY <1>2, <1>3, ChainFreed
    <3> QED  BY ONLY <3>4, <3>5 DEF e
  <2> QED  BY <2>1, <2>2
<1>8. F \in [DOMAIN F -> Contents] /\ DOMAIN F \cup {filename} = Named(e)
  <2>1. F \in [Named(e) -> Contents] /\ filename \in Named(e)
    BY <1>3 DEF Sound, Named
  <2> QED  BY <2>1
<1> HIDE DEF e, h, D
<1>9. ASSUME NEW q \in Positions \ {p} PROVE FileAt(r, e[q], D[q], F)
  <2>1. FileAt(d, e[q], E[q], F) /\ E[q] \in Seq(Clusters)
    BY <1>5 DEF Sound, e
  <2>2. \A i \in 1 .. Len(E[q]) : ReadCluster(r, E[q][i]) = ReadCluster(d, E[q][i])
    BY <1>1, <1>2, <1>7, InUse, SameDataSame
  <2>3. FileAt(r, e[q], E[q], F)
    BY <2>1, <2>2, FileAtKept
  <2> QED  BY <1>6, <2>3
<1> QED  BY <1>1, <1>3, <1>6, <1>7, <1>8, <1>9 DEF Opened, e, h, D

\* Opening a file that does not exist takes the first unused entry.
LEMMA OpenNew ==
  ASSUME NEW d, NEW E, NEW F, Sound(d, E, F), Limits, NEW filename \in Names,
         Found(d, filename) = {}, Vacant(d) # {},
         NEW p, p = Min(Vacant(d)),
         NEW r, r = SetEntry(d, p, NewEntry(filename))
  PROVE  /\ Opened(r, Root(r), p, filename, E, F)
         /\ \A q \in Positions \ {p} : Root(r)[q] = Root(d)[q]
<1> DEFINE e == Root(d)
           h == Firsts(e)
           x == NewEntry(filename)
           n == [e EXCEPT ![p] = x]
<1>1. DiskTyped(d) /\ Directory(e)
  BY DEF Sound
<1>2. Chains(Table(d), h, E)
  BY DEF Sound
<1>3. \A q \in Positions : e[q] = Entry(d, q)
  BY <1>1, EntryType
<1>4. /\ p \in Positions /\ e[p].name \in {END, DELETED}
      /\ \A q \in Positions : e[q].name \in {END, DELETED} => p <= q
  <2>1. Vacant(d) = {q \in Positions : e[q].name \in {END, DELETED}}
    BY <1>3 DEF Vacant
  <2>2. Vacant(d) \in SUBSET Nat
    BY <2>1, PositionsType
  <2>3. p \in Vacant(d) /\ \A q \in Vacant(d) : p <= q
    BY <2>2, MinOf
  <2> QED  BY <2>1, <2>3
<1>5. \A q \in Positions : q < p => e[q].name # END
  BY <1>4, PositionsType
<1>6. x.name = filename /\ x.first = 0 /\ x \in Records /\ filename \notin {END, DELETED, LABEL}
  BY DEF Limits, Plain, NewEntry, Records
<1>7. \A q \in Positions : e[q].name # filename
  BY <1>1, FoundIs DEF Limits
<1>8. Directory(n)
  <2> HIDE DEF e, x
  <2> QED  BY <1>1, <1>4, <1>5, <1>6, <1>7, DirectoryKept
<1>9. DiskTyped(r) /\ Table(r) = Table(d) /\ Root(r) = n /\ SameData(d, r)
  <2> HIDE DEF x
  <2> QED  BY <1>1, <1>4, <1>6, Replace DEF x
<1>10. n[p] = x /\ \A q \in Positions : q # p => n[q] = e[q]
  <2>1. e \in [Positions -> Records]
    BY <1>1 DEF Directory
  <2> HIDE DEF e, x
  <2> QED  BY <1>4, <2>1
<1> HIDE DEF n, x, e
<1>11. h[p] = 0 /\ E[p] = <<>>
  <2>1. h[p] = 0
    BY <1>4 DEF Firsts
  <2> QED  BY <1>2, <1>4, <2>1, NoChain
<1>12. [Firsts(n) EXCEPT ![p] = 0] = h
  BY <1>4, <1>10, <1>11 DEF Firsts
<1> HIDE DEF h
<1>13. F \in [DOMAIN F -> Contents] /\ DOMAIN F \cup {filename} = Named(n)
  <2>1. F \in [Named(e) -> Contents]
    BY DEF Sound, e
  <2>2. e[p].name \notin Names
    BY <1>4 DEF Limits, Plain
  <2>3. Named(n) = Named(e) \cup {filename}
    BY <1>4, <1>6, <1>10, <2>2 DEF Named
  <2> QED  BY <2>1, <2>3
<1>14. ASSUME NEW q \in Positions \ {p} PROVE FileAt(r, n[q], E[q], F)
  <2>1. FileAt(d, e[q], E[q], F) /\ E[q] \in Seq(Clusters)
    BY <1>2 DEF Sound, Chains, e
  <2>2. \A i \in 1 .. Len(E[q]) : ReadCluster(r, E[q][i]) = ReadCluster(d, E[q][i])
    BY <1>1, <1>2, <1>9, InUse, SameDataSame
  <2>3. FileAt(r, e[q], E[q], F)
    BY <2>1, <2>2, FileAtKept
  <2> QED  BY <1>10, <2>3
<1>15. n[p].name = filename
  BY <1>6, <1>10
<1>16. Opened(r, n, p, filename, E, F)
  BY <1>2, <1>4, <1>8, <1>9, <1>11, <1>12, <1>13, <1>14, <1>15 DEF Opened
<1> QED  BY <1>9, <1>10, <1>16 DEF e

\* What a write leaves: the file at p has the chain s with the content, and ends early
\* only when no cluster is left.
Rewritten(e, r, E, F, p, s, filename, content) ==
  /\ Sound(r, [E EXCEPT ![p] = s], Put(F, filename, content))
  /\ Root(r)[p].name = filename /\ \A q \in Positions \ {p} : Root(r)[q] = e[q]
  /\ TakenBelow(Table(r), s)
  /\ Len(s) < Needs(content) => AllTaken(Table(r))

\* Data that is written to an open file and its entry that is updated.
LEMMA Written ==
  ASSUME NEW d, NEW e, NEW p, NEW filename \in Names, NEW E, NEW F,
         Opened(d, e, p, filename, E, F), Limits,
         NEW content \in Contents, NEW g,
         NEW chain, chain = WriteChain(d, content, g),
         NEW r, r = UpdateEntry(chain.disk, [name |-> filename, first |-> chain.first,
                                             size |-> Len(content)])
  PROVE  \E s : Rewritten(e, r, E, F, p, s, filename, content)
<1> DEFINE h == Firsts(e)
           k == [h EXCEPT ![p] = 0]
           x == [name |-> filename, first |-> chain.first, size |-> Len(content)]
           n == [e EXCEPT ![p] = x]
           b == chain.disk
<1>1. /\ DiskTyped(d) /\ Root(d) = e /\ Directory(e)
      /\ p \in Positions /\ e[p].name = filename
  BY DEF Opened
<1>2. Chains(Table(d), k, E) /\ E[p] = <<>>
  BY DEF Opened
<1>3. E \in [Positions -> Seq(Clusters)] /\ k \in [Positions -> Nat] /\ k[p] = 0
  <2>1. E \in [Positions -> Seq(Clusters)] /\ k \in [Positions -> Nat]
    BY <1>2 DEF Chains
  <2>2. h = [q \in Positions |-> h[q]]
    BY DEF Firsts
  <2> HIDE DEF h
  <2> QED  BY <1>1, <2>1, <2>2
<1>4. Spare(E, p, Needs(content))
  <2>1. Sized(e, E)
    <3> SUFFICES ASSUME NEW q \in Positions, E[q] # <<>>
                 PROVE  e[q].name \in Names /\ \E y \in Contents : Len(E[q]) <= Needs(y)
      BY DEF Sized
    <3>1. q # p
      BY <1>2
    <3>2. FileAt(d, e[q], E[q], F)
      BY <3>1 DEF Opened
    <3>3. e[q].name \in Names /\ e[q].name \in DOMAIN F /\ Len(E[q]) <= Needs(F[e[q].name])
      BY <3>2 DEF FileAt, Holds
    <3>4. F[e[q].name] \in Contents
      BY <3>3 DEF Opened
    <3> QED  BY <3>3, <3>4
  <2> QED  BY <1>1, <1>3, <2>1, RoomForFile DEF Limits
<1>5. LAST >= FatCapacity
  <2>1. FatCapacity \in Nat
    BY Sizes, SMT DEF FatCapacity
  <2> QED  BY <2>1, Radices DEF Limits
<1> HIDE DEF k
<1>6. /\ DiskTyped(b) /\ Root(b) = e
      /\ \E s : Chained(d, b, k, E, p, chain.first, content, s)
  BY <1>1, <1>2, <1>3, <1>4, <1>5, ChainWritten
<1>7. PICK s : Chained(d, b, k, E, p, chain.first, content, s)
  BY <1>6
<1> DEFINE D == [E EXCEPT ![p] = s]
<1>8. /\ s \in Seq(Clusters) /\ Len(s) <= Needs(content)
      /\ Chains(Table(b), [k EXCEPT ![p] = chain.first], D)
      /\ \A i \in 1 .. Len(s) : Filled(b, s[i], Piece(content, i))
      /\ \A c \in Clusters : Table(d)[c] # 0 => ReadCluster(b, c) = ReadCluster(d, c)
      /\ TakenBelow(Table(b), s) /\ (Len(s) < Needs(content) => AllTaken(Table(b)))
  BY <1>7 DEF Chained
<1>9. chain.first \in Nat
  <2> DEFINE u == [k EXCEPT ![p] = chain.first]
  <2>1. u \in [Positions -> Nat]
    BY <1>8 DEF Chains
  <2>2. u[p] = chain.first
    BY <1>1, <1>3
  <2> QED  BY <1>1, <2>1, <2>2
<1>10. /\ x \in Records /\ x.name = filename /\ x.first = chain.first /\ x.size = Len(content)
       /\ filename \notin {END, DELETED, LABEL}
  BY <1>9, NeedsType DEF Records, Limits, Plain
<1>11. r = SetEntry(b, p, x)
  <2> DEFINE same == {q \in Positions : Entry(b, q).name = x.name}
  <2>1. same = {p}
    <3>1. \A q \in Positions : Entry(b, q) = e[q]
      BY <1>6, EntryType
    <3>2. {q \in Positions : e[q].name = filename} = {p}
      BY <1>1, FoundOnce DEF Limits
    <3> HIDE DEF x, b
    <3> QED  BY <1>10, <3>1, <3>2
  <2>2. Min(same) = p
    <3>1. p \in Nat
      BY <1>1, PositionsType
    <3> QED  BY <2>1, <3>1, MinOfOne
  <2>3. r = IF same = {} THEN b ELSE SetEntry(b, Min(same), x)
    BY DEF UpdateEntry
  <2> HIDE DEF same
  <2> QED  BY <2>1, <2>2, <2>3
<1> HIDE DEF x, b
<1>12. DiskTyped(r) /\ Table(r) = Table(b) /\ Root(r) = n /\ SameData(b, r)
  BY <1>1, <1>6, <1>10, <1>11, Replace
<1>13. Directory(n)
  BY <1>1, <1>10, DirectoryKept
<1>14. n[p] = x /\ \A q \in Positions : q # p => n[q] = e[q]
  <2>1. e \in [Positions -> Records]
    BY <1>1 DEF Directory
  <2> QED  BY <1>1, <2>1
<1> HIDE DEF n
<1>15. Firsts(n) = [k EXCEPT ![p] = chain.first]
  <2>1. h = [q \in Positions |-> IF e[q].name \in {END, DELETED} THEN 0 ELSE e[q].first]
    BY DEF Firsts
  <2>2. Firsts(n) = [q \in Positions |-> IF n[q].name \in {END, DELETED} THEN 0 ELSE n[q].first]
    BY DEF Firsts
  <2> HIDE DEF h
  <2>3. [k EXCEPT ![p] = chain.first] = [q \in Positions |-> IF q = p THEN chain.first ELSE h[q]]
    BY <1>3, <2>1 DEF k
  <2>4. ASSUME NEW q \in Positions
        PROVE  (IF n[q].name \in {END, DELETED} THEN 0 ELSE n[q].first)
                 = IF q = p THEN chain.first ELSE h[q]
    <3>1. CASE q = p
      BY <1>10, <1>14, <3>1
    <3>2. CASE q # p
      BY <1>14, <2>1, <3>2
    <3> QED  BY <3>1, <3>2
  <2> QED  BY <2>2, <2>3, <2>4
<1>16. D[p] = s /\ \A q \in Positions : q # p => D[q] = E[q]
  BY <1>1, <1>3
<1>17. Chains(Table(r), Firsts(n), D)
  BY <1>8, <1>12, <1>15
<1> HIDE DEF D
<1> DEFINE G == Put(F, filename, content)
<1>18. /\ G \in [Named(n) -> Contents] /\ G[filename] = content /\ filename \in DOMAIN G
       /\ \A y \in DOMAIN F : y # filename => y \in DOMAIN G /\ G[y] = F[y]
  <2>1. Named(n) = Named(e)
    BY <1>1, <1>10, <1>14 DEF Named
  <2>2. F \in [DOMAIN F -> Contents] /\ DOMAIN F \cup {filename} = Named(e)
    BY DEF Opened
  <2> QED  BY <2>1, <2>2 DEF Put
<1> HIDE DEF G
<1>19. \A c \in Clusters : ReadCluster(r, c) = ReadCluster(b, c)
  BY <1>6, <1>12, SameDataSame
<1>20. ASSUME NEW q \in Positions PROVE FileAt(r, n[q], D[q], G)
  <2>1. CASE q = p
    <3>1. \A i \in 1 .. Len(s) : Filled(r, s[i], Piece(content, i))
      <4>1. \A i \in 1 .. Len(s) : s[i] \in Clusters
        BY <1>8
      <4> QED  BY <1>8, <1>19, <4>1 DEF Filled
    <3>2. FileAt(r, x, s, G)
      BY <1>8, <1>10, <1>18, <3>1 DEF FileAt, Holds
    <3> QED  BY <1>14, <1>16, <2>1, <3>2
  <2>2. CASE q # p
    <3>1. FileAt(d, e[q], E[q], F) /\ E[q] \in Seq(Clusters)
      BY <1>3, <2>2 DEF Opened
    <3>2. \A i \in 1 .. Len(E[q]) : ReadCluster(r, E[q][i]) = ReadCluster(d, E[q][i])
      BY <1>2, <1>8, <1>19, InUse
    <3>3. e[q].name \in Names /\ e[q].name \in DOMAIN F
            => e[q].name \in DOMAIN G /\ G[e[q].name] = F[e[q].name]
      <4>1. e[q].name # filename
        BY <1>1, <1>10, <2>2 DEF Directory
      <4> QED  BY <1>18, <4>1
    <3>4. FileAt(r, e[q], E[q], G)
      BY <3>1, <3>2, <3>3, FileAtKept
    <3> QED  BY <1>14, <1>16, <2>2, <3>4
  <2> QED  BY <2>1, <2>2
<1>21. Sound(r, D, G)
  BY <1>12, <1>13, <1>17, <1>18, <1>20 DEF Sound
<1>22. Root(r)[p].name = filename /\ \A q \in Positions \ {p} : Root(r)[q] = e[q]
  BY <1>10, <1>12, <1>14
<1>23. Rewritten(e, r, E, F, p, s, filename, content)
  BY <1>8, <1>12, <1>21, <1>22 DEF Rewritten, D, G
<1> QED  BY <1>23

\* A write finds no entry and none to take, or leaves the disk as Rewritten says.
LEMMA SoundStep ==
  ASSUME NEW E, NEW F, Sound(disk, E, F), Limits, NEW filename \in Names, NEW content \in Contents,
         write_file(filename, content)
  PROVE  \/ Found(disk, filename) = {} /\ Vacant(disk) = {} /\ disk' = disk
         \/ \E p \in Positions : \E s :
               Rewritten(Root(disk), disk', E, F, p, s, filename, content)
<1>1. PICK g \in Garbage :
        LET found == Found(disk, filename)
            old   == Entry(disk, Min(found))
            fresh == NewEntry(filename)
            d0    == IF found # {} THEN Reclaim(disk, old, g)
                     ELSE SetEntry(disk, Min(Vacant(disk)), fresh)
            chain == WriteChain(d0, content, g)
            file  == [name |-> IF found # {} THEN old.name ELSE fresh.name,
                      first |-> chain.first, size |-> Len(content)]
        IN  IF found = {} /\ Vacant(disk) = {}
            THEN UNCHANGED disk
            ELSE disk' = UpdateEntry(chain.disk, file)
  BY Zenon DEF write_file
<1> DEFINE found == Found(disk, filename)
           p == Min(found)
           v == Min(Vacant(disk))
<1>2. CASE found # {}
  <2> DEFINE d0 == Reclaim(disk, Entry(disk, p), g)
             chain == WriteChain(d0, content, g)
             x == [name |-> filename, first |-> chain.first, size |-> Len(content)]
             e == Root(disk)
             D == [E EXCEPT ![p] = <<>>]
  <2>1. Opened(d0, e, p, filename, D, F)
    <3> HIDE DEF d0
    <3> DEFINE a == d0
    <3>1. a = Reclaim(disk, Entry(disk, p), g)
      BY DEF d0
    <3> QED  BY <1>2, <3>1, OpenOld
  <2>2. Entry(disk, p).name = filename
    <3>1. DiskTyped(disk) /\ Directory(Root(disk)) /\ Plain
      BY DEF Sound, Limits
    <3>2. found = {q \in Positions : Root(disk)[q].name = filename}
      BY <3>1, FoundIs
    <3>3. found \in SUBSET Nat
      BY <3>2, PositionsType
    <3> HIDE DEF found
    <3>4. p \in found
      BY <1>2, <3>3, MinOf
    <3> QED  BY <3>1, <3>2, <3>4, EntryType
  <2>3. disk' = UpdateEntry(chain.disk, x)
    BY <1>1, <1>2, <2>2
  <2> HIDE DEF d0, p, found, D, e
  <2>4. PICK s : Rewritten(e, disk', D, F, p, s, filename, content)
    BY <2>1, <2>3, Written
  <2>5. [D EXCEPT ![p] = s] = [E EXCEPT ![p] = s]
    <3>1. E \in [Positions -> Seq(Clusters)]
      BY DEF Sound, Chains
    <3> QED  BY <3>1 DEF D
  <2>6. p \in Positions
    BY <2>1 DEF Opened
  <2> QED  BY <2>4, <2>5, <2>6 DEF Rewritten, e
<1>3. CASE found = {} /\ Vacant(disk) # {}
  <2> DEFINE d0 == SetEntry(disk, v, NewEntry(filename))
             chain == WriteChain(d0, content, g)
             x == [name |-> filename, first |-> chain.first, size |-> Len(content)]
             e == Root(d0)
  <2>1. Opened(d0, e, v, filename, E, F) /\ \A q \in Positions \ {v} : e[q] = Root(disk)[q]
    BY <1>3, OpenNew
  <2>2. NewEntry(filename).name = filename
    BY DEF NewEntry, Limits
  <2>3. disk' = UpdateEntry(chain.disk, x)
    BY <1>1, <1>3, <2>2
  <2> HIDE DEF d0, v, found, e
  <2>4. PICK s : Rewritten(e, disk', E, F, v, s, filename, content)
    BY <2>1, <2>3, Written
  <2>5. v \in Positions
    BY <2>1 DEF Opened
  <2> QED  BY <2>1, <2>4, <2>5 DEF Rewritten
<1>4. CASE found = {} /\ Vacant(disk) = {}
  BY <1>1, <1>4
<1> QED  BY <1>2, <1>3, <1>4

\* The invariant: some chains and contents explain the disk.
IInv == \E E, F : Sound(disk, E, F)

LEMMA SoundInit ==
  ASSUME Init, Limits
  PROVE  Sound(disk, [p \in Positions |-> <<>>], [n \in {} |-> <<>>])
<1> DEFINE fat(s) == [i \in 0 .. SectorBytes - 1 |->
                        IF (s - fat_start_sector) % FatSectors = 0 /\ i < 3 THEN ByteValues - 1 ELSE 0]
           rec(q) == [name |-> IF q = 0 THEN LABEL ELSE IF q = 1 THEN DELETED ELSE END,
                      first |-> 0, size |-> 0]
           root(s) == [j \in 0 .. EntriesPerSector - 1 |->
                         rec((s - root_dir_start_sector) * EntriesPerSector + j)]
           E == [p \in Positions |-> <<>>]
           F == [n \in {} |-> <<>>]
<1>1. IsDisk(disk)
  BY DEF Init, IsDisk
<1>2. \A s \in 1 .. FatSectors : disk[s] = fat(s)
  <2> SUFFICES ASSUME NEW s \in 1 .. FatSectors PROVE disk[s] = fat(s)
    OBVIOUS
  <2>1. s \in DiskSectors
    BY Regions
  <2>2. ~ (s < fat_start_sector) /\ s \in fat_start_sector .. root_dir_start_sector - 1
    BY Regions, Sizes DEF fat_start_sector
  <2>3. s \notin root_dir_start_sector .. data_start_sector - 1
    BY <2>2, Regions
  <2> DEFINE case1 == s < fat_start_sector
             case2 == s \in fat_start_sector .. root_dir_start_sector - 1
             case3 == s \in root_dir_start_sector .. data_start_sector - 1
  <2>4. disk[s] = CASE case1 -> 0 [] case2 -> fat(s) [] case3 -> root(s)
                    [] OTHER -> [i \in 1 .. SectorUnits |-> 0]
    BY <2>1 DEF Init
  <2>5. ~ case1 /\ case2 /\ ~ case3
    BY <2>2, <2>3
  <2> HIDE DEF case1, case2, case3, fat, root
  <2> QED  BY ONLY <2>4, <2>5
<1>3. \A s \in root_dir_start_sector .. data_start_sector - 1 : disk[s] = root(s)
  <2>1. \A s \in root_dir_start_sector .. data_start_sector - 1 :
          /\ s \in DiskSectors /\ ~ (s < fat_start_sector)
          /\ s \notin fat_start_sector .. root_dir_start_sector - 1
    BY Regions, Sizes DEF fat_start_sector
  <2> QED  BY <2>1 DEF Init
<1>4. \A q : rec(q) \in Records
  BY DEF Records
<1>5. FatTyped(disk)
  <2>1. ByteValues - 1 \in 0 .. ByteValues - 1 /\ 0 \in 0 .. ByteValues - 1
    BY Radices
  <2> QED  BY <1>1, <1>2, <2>1 DEF FatTyped
<1> HIDE DEF rec
<1>6. DiskTyped(disk)
  <2>1. ASSUME NEW s \in root_dir_start_sector .. data_start_sector - 1
        PROVE  disk[s] \in [0 .. EntriesPerSector - 1 -> Records]
    <3>1. root(s) \in [0 .. EntriesPerSector - 1 -> Records]
      BY ONLY <1>4
    <3> HIDE DEF root
    <3> QED  BY ONLY <1>3, <2>1, <3>1
  <2>2. ASSUME NEW s \in DiskSectors, s >= data_start_sector
        PROVE  disk[s] \in [1 .. SectorUnits -> Int]
    <3>1. /\ ~ (s < fat_start_sector) /\ s \notin fat_start_sector .. root_dir_start_sector - 1
          /\ s \notin root_dir_start_sector .. data_start_sector - 1
      BY <2>2, Regions, Sizes DEF fat_start_sector
    <3>2. disk[s] = [i \in 1 .. SectorUnits |-> 0]
      BY <3>1 DEF Init
    <3> QED  BY <3>2
  <2> QED  BY <1>5, <2>1, <2>2 DEF DiskTyped
<1>7. \A c \in AllClusters : Table(disk)[c] = 0
  <2>1. ASSUME NEW i \in 0 .. FatBytes - 1, i >= 3 PROVE FatByte(disk, i) = 0
    <3> DEFINE q == i \div SectorBytes
               j == i % SectorBytes
    <3>1. 1 + q \in 1 .. FatSectors /\ j \in 0 .. SectorBytes - 1 /\ i = q * SectorBytes + j
      BY ByteAt DEF fat_start_sector
    <3>2. q \in 0 .. FatSectors - 1
      <4>1. q \in Int
        BY Sizes
      <4> QED  BY <3>1, <4>1, Sizes
    <3> HIDE DEF q, j
    <3>3. (q % FatSectors) = q
      BY <3>2, Sizes
    <3>4. ~ (q = 0 /\ j < 3)
      <4> SUFFICES ASSUME q = 0, j < 3 PROVE FALSE
        OBVIOUS
      <4>1. q * SectorBytes = 0
        BY Sizes
      <4> QED  BY <2>1, <3>1, <4>1
    <3>5. disk[1 + q] = fat(1 + q)
      BY <1>2, <3>1
    <3>6. FatByte(disk, i) = disk[1 + q][j]
      BY DEF FatByte, fat_start_sector, q, j
    <3>7. (1 + q) - fat_start_sector = q
      BY <3>2 DEF fat_start_sector
    <3> QED  BY <3>1, <3>3, <3>4, <3>5, <3>6, <3>7
  <2>2. ASSUME NEW c \in AllClusters PROVE Value(disk, c) = 0
    <3> DEFINE o == fat_offset(c)
    <3>1. o \in 0 .. FatBytes - 1 /\ o + 1 \in 0 .. FatBytes - 1
      BY OffsetType
    <3>2. o >= 3
      BY OffsetType DEF AllClusters
    <3> HIDE DEF o
    <3>3. FatByte(disk, o) = 0 /\ FatByte(disk, o + 1) = 0
      BY <2>1, <3>1, <3>2
    <3>4. (0 \div Nibble) = 0 /\ (0 % Nibble) = 0 /\ Nibble * 0 = 0 /\ ByteValues * 0 = 0
      BY Radices
    <3> QED  BY <3>3, <3>4 DEF Value, o
  <2> QED  BY <2>2 DEF Table
<1>8. \A p \in Positions : Root(disk)[p] = rec(p)
  <2> SUFFICES ASSUME NEW p \in Positions PROVE Entry(disk, p) = rec(p)
    BY DEF Root
  <2> DEFINE q == p \div EntriesPerSector
             j == p % EntriesPerSector
             s == root_dir_start_sector + q
  <2>1. /\ s \in root_dir_start_sector .. data_start_sector - 1
        /\ j \in 0 .. EntriesPerSector - 1 /\ p = q * EntriesPerSector + j
    BY PositionAt
  <2>2. q \in Int
    BY PositionsType, Sizes
  <2>3. Entry(disk, p) = disk[s][j]
    BY DEF Entry
  <2> HIDE DEF q, j
  <2>4. s - root_dir_start_sector = q
    BY <2>2, Regions
  <2>5. Entry(disk, p) = rec((s - root_dir_start_sector) * EntriesPerSector + j)
    BY <1>3, <2>1, <2>3
  <2> QED  BY <2>1, <2>4, <2>5
<1>9. Directory(Root(disk))
  <2>1. Root(disk) \in [Positions -> Records]
    BY <1>6, EntryType DEF Root
  <2>2. \A q : rec(q).name = IF q = 0 THEN LABEL ELSE IF q = 1 THEN DELETED ELSE END
    BY DEF rec
  <2>3. LABEL # END /\ LABEL # DELETED /\ END # DELETED
    BY DEF LABEL, END, DELETED
  <2>4. 0 \in Positions
    <3>1. RootSectors * EntriesPerSector \in Nat /\ RootSectors * EntriesPerSector >= 1
      BY Sizes, SMT
    <3> QED  BY <3>1 DEF Positions
  <2>5. \E p \in Positions : Root(disk)[p].name = LABEL
    BY <1>8, <2>2, <2>4
  <2> QED  BY <1>8, <2>1, <2>2, <2>3, <2>5, PositionsType DEF Directory
<1>10. Firsts(Root(disk)) = [p \in Positions |-> 0]
  <2>1. \A p \in Positions : Root(disk)[p].first = 0
    <3>1. \A q : rec(q).first = 0
      BY DEF rec
    <3> QED  BY <1>8, <3>1
  <2> QED  BY <2>1 DEF Firsts
<1>11. /\ E \in [Positions -> Seq(Clusters)]
       /\ \A p \in Positions : E[p] = <<>> /\ Len(E[p]) = 0
  OBVIOUS
<1>12. \A p \in Positions : Root(disk)[p].name \notin Names
  <2>1. \A q : rec(q).name \in {END, DELETED, LABEL}
    BY DEF rec
  <2> QED  BY <1>8, <2>1 DEF Limits, Plain
<1>13. F \in [Named(Root(disk)) -> Contents]
  <2>1. Named(Root(disk)) = {}
    BY <1>12 DEF Named
  <2> QED  BY <2>1
<1> HIDE DEF E, F
<1>14. Chains(Table(disk), Firsts(Root(disk)), E)
  <2>1. Table(disk) \in [AllClusters -> 0 .. LAST]
    BY <1>6, TableType
  <2>2. \A p \in Positions : IsChain(Table(disk), 0, E[p])
    BY <1>11 DEF IsChain
  <2>3. \A p \in Positions : 1 .. Len(E[p]) = {}
    BY <1>11
  <2>4. \A c \in Clusters : Table(disk)[c] = 0
    BY <1>7, ClusterType
  <2> QED  BY <1>7, <1>10, <1>11, <2>1, <2>2, <2>3, <2>4 DEF Chains
<1>15. \A p \in Positions : FileAt(disk, Root(disk)[p], E[p], F)
  BY <1>11, <1>12 DEF FileAt
<1>16. Sound(disk, E, F)
  BY <1>6, <1>9, <1>13, <1>14, <1>15 DEF Sound
<1> QED  BY <1>16 DEF E, F

-----------------------------------------------------------------------------
(* What the invariant says of the chains that a reader follows.            *)

\* A walk along a chain meets its clusters, then the mark of its end, then nothing.
LEMMA WalkIs ==
  ASSUME NEW d, DiskTyped(d), FatCapacity <= EntryValues - 8,
         NEW first, NEW s \in Seq(Clusters), IsChain(Table(d), first, s),
         NEW turns \in Nat, NEW g
  PROVE  Walk(d, first, turns, g) =
           [k \in 1 .. turns |->
              IF k <= Len(s) THEN s[k] ELSE IF k = Len(s) + 1 /\ Len(s) # 0 THEN LAST ELSE 0]
<1> DEFINE f == Table(d)
           n == Len(s)
           next(c) == IF IsCluster(c) THEN read_fat_entry(d, c, g) ELSE 0
           after == [c \in 0 .. LAST |-> next(c)]
           G(w, k) == IF k = 1 THEN first ELSE after[w[k - 1]]
           W == CHOOSE w : w = [k \in 1 .. turns |-> G(w, k)]
           v == [k \in 1 .. turns |->
                   IF k <= n THEN s[k] ELSE IF k = n + 1 /\ n # 0 THEN LAST ELSE 0]
<1>1. n \in Nat /\ FatCapacity \in Nat /\ LAST \in Nat /\ FatCapacity <= LAST
  <2>1. FatCapacity \in Nat
    BY Sizes, SMT DEF FatCapacity
  <2>2. n \in Nat
    OBVIOUS
  <2> QED  BY <2>1, <2>2, Radices, LastPositive
<1>2. \A i \in 1 .. n : /\ s[i] \in Clusters /\ s[i] \in 0 .. LAST /\ IsCluster(s[i])
                        /\ read_fat_entry(d, s[i], g) = f[s[i]]
  <2> SUFFICES ASSUME NEW i \in 1 .. n
               PROVE  /\ s[i] \in Clusters /\ s[i] \in 0 .. LAST /\ IsCluster(s[i])
                      /\ read_fat_entry(d, s[i], g) = f[s[i]]
    OBVIOUS
  <2> DEFINE c == s[i]
  <2>1. c \in Clusters
    OBVIOUS
  <2> HIDE DEF c
  <2>2. IsCluster(c) /\ c \in 0 .. LAST
    BY <1>1, <2>1, ClusterType, Radices DEF IsCluster, AllClusters
  <2>3. read_fat_entry(d, c, g) = f[c]
    BY <2>1, Lookup
  <2> QED  BY <2>1, <2>2, <2>3 DEF c
<1>3. ~ IsCluster(LAST) /\ ~ IsCluster(0)
  BY Radices DEF IsCluster
<1>4. \A c \in 0 .. LAST : after[c] = next(c)
  OBVIOUS
<1> HIDE DEF f, after
<1>5. /\ n = 0 => s = <<>> /\ first = 0
      /\ n # 0 => first = s[1] /\ f[s[n]] = LAST
      /\ \A i \in 1 .. n - 1 : f[s[i]] = s[i + 1]
  <2>1. s = <<>> <=> n = 0
    BY <1>1
  <2> QED  BY <1>1, <2>1 DEF IsChain, f
<1>6. v = [k \in 1 .. turns |-> G(v, k)]
  <2>1. ASSUME NEW k \in 1 .. turns PROVE v[k] = G(v, k)
    <3>1. CASE k = 1
      BY <1>1, <1>5, <3>1
    <3>2. CASE k # 1
      <4> DEFINE a == v[k - 1]
      <4>1. /\ k - 1 \in 1 .. turns /\ k \in Nat /\ (k - 1) + 1 = k
            /\ G(v, k) = after[a]
        BY <3>2
      <4>2. /\ a = IF k - 1 <= n THEN s[k - 1] ELSE IF k - 1 = n + 1 /\ n # 0 THEN LAST ELSE 0
            /\ v[k] = IF k <= n THEN s[k] ELSE IF k = n + 1 /\ n # 0 THEN LAST ELSE 0
        BY <4>1
      <4> HIDE DEF v, G, a
      <4>3. a \in 0 .. LAST
        <5>1. k - 1 <= n => k - 1 \in 1 .. n
          BY <1>1, <4>1
        <5>2. LAST \in 0 .. LAST /\ 0 \in 0 .. LAST
          BY <1>1
        <5> QED  BY <1>2, <4>2, <5>1, <5>2
      <4>4. G(v, k) = IF IsCluster(a) THEN read_fat_entry(d, a, g) ELSE 0
        BY <1>4, <4>1, <4>3
      <4>5. CASE k - 1 <= n
        <5>1. k - 1 \in 1 .. n /\ a = s[k - 1] /\ n # 0
          BY <1>1, <4>1, <4>2, <4>5
        <5>2. G(v, k) = f[s[k - 1]]
          BY <1>2, <4>4, <5>1
        <5>3. CASE k <= n
          <6>1. k - 1 \in 1 .. n - 1
            BY <1>1, <4>1, <5>1, <5>3
          <6>2. f[s[k - 1]] = s[k]
            BY <1>5, <4>1, <6>1
          <6> QED  BY <4>2, <5>2, <5>3, <6>2
        <5>4. CASE ~ (k <= n)
          <6>1. k = n + 1 /\ k - 1 = n
            BY <1>1, <4>1, <4>5, <5>4
          <6> QED  BY <1>5, <4>2, <5>1, <5>2, <5>4, <6>1
        <5> QED  BY <5>3, <5>4
      <4>6. CASE ~ (k - 1 <= n)
        <5>1. ~ (k <= n) /\ k # n + 1
          BY <1>1, <4>1, <4>6
        <5>2. ~ IsCluster(a)
          BY <1>3, <4>2, <4>6
        <5> QED  BY <4>2, <4>4, <5>1, <5>2
      <4> QED  BY <4>5, <4>6
    <3> QED  BY <3>1, <3>2
  <2>2. v = [k \in 1 .. turns |-> v[k]]
    OBVIOUS
  <2> HIDE DEF v, G
  <2> QED  BY <2>1, <2>2
<1>7. \A k \in 1 .. turns : v[k] = G(v, k)
  <2> HIDE DEF v, G
  <2> QED  BY <1>6
<1> HIDE DEF v
<1>8. W = [k \in 1 .. turns |-> G(W, k)]
  BY <1>6
<1>9. Walk(d, first, turns, g) = W
  BY DEF Walk, after
<1> HIDE DEF W
<1>10. W = v
  <2> DEFINE S == {k \in Nat : k + 1 <= turns => W[k + 1] = v[k + 1]}
  <2>1. \A k \in 1 .. turns : W[k] = G(W, k)
    <3> HIDE DEF G
    <3> QED  BY <1>8
  <2>2. 0 \in S
    <3> SUFFICES ASSUME 1 <= turns PROVE W[1] = v[1]
      OBVIOUS
    <3>1. 1 \in 1 .. turns
      OBVIOUS
    <3> QED  BY <1>7, <2>1, <3>1
  <2>3. ASSUME NEW k \in S PROVE k + 1 \in S
    <3> SUFFICES ASSUME (k + 1) + 1 <= turns PROVE W[(k + 1) + 1] = v[(k + 1) + 1]
      OBVIOUS
    <3>1. /\ (k + 1) + 1 \in 1 .. turns /\ (k + 1) + 1 # 1
          /\ ((k + 1) + 1) - 1 = k + 1 /\ W[k + 1] = v[k + 1]
      OBVIOUS
    <3> DEFINE j == (k + 1) + 1
    <3>2. j \in 1 .. turns /\ j # 1 /\ W[j - 1] = v[j - 1]
      BY <3>1
    <3> HIDE DEF j
    <3>3. G(W, j) = after[W[j - 1]] /\ G(v, j) = after[v[j - 1]]
      BY <3>2
    <3> HIDE DEF G
    <3>4. W[j] = G(W, j) /\ v[j] = G(v, j)
      BY <1>7, <2>1, <3>2
    <3>5. W[j] = v[j]
      BY <3>2, <3>3, <3>4
    <3> QED  BY <3>5 DEF j
  <2> HIDE DEF S
  <2>4. S = Nat
    BY <2>2, <2>3, SetInduction DEF S
  <2>5. ASSUME NEW k \in 1 .. turns PROVE W[k] = v[k]
    <3>1. k - 1 \in S /\ (k - 1) + 1 = k /\ k <= turns
      BY <2>4
    <3> QED  BY <3>1 DEF S
  <2>6. v = [k \in 1 .. turns |-> v[k]]
    BY DEF v
  <2>7. W = [k \in 1 .. turns |-> W[k]]
    <3> HIDE DEF G
    <3> QED  BY <1>8
  <2> QED  BY <2>5, <2>6, <2>7
<1> QED  BY <1>9, <1>10 DEF v, n

\* ChainOf is the chain of a file.
LEMMA ChainOfIs ==
  ASSUME DiskTyped(disk), FatCapacity <= EntryValues - 8,
         NEW E, Chains(Table(disk), Firsts(Root(disk)), E), NEW p \in UsedPositions
  PROVE  ChainOf(p) = E[p]
<1> DEFINE s == E[p]
           n == Len(s)
           first == Entry(disk, p).first
           v == Walk(disk, first, FatCapacity, 0)
<1>1. p \in Positions /\ Entry(disk, p).name \notin {END, DELETED}
  BY DEF UsedPositions, Used
<1>2. s \in Seq(Clusters) /\ n \in Nat /\ FatCapacity \in Nat /\ (n # 0 => n < FatCapacity)
  <2>1. s \in Seq(Clusters)
    BY <1>1 DEF Chains
  <2>2. n \in Nat /\ (s # <<>> => n < FatCapacity)
    BY <1>1, ChainLength
  <2>3. FatCapacity \in Nat
    BY Sizes, SMT DEF FatCapacity
  <2> QED  BY <2>1, <2>2, <2>3
<1>3. IsChain(Table(disk), first, s)
  <2>1. Firsts(Root(disk))[p] = first
    BY <1>1, EntryType DEF Firsts
  <2>2. IsChain(Table(disk), Firsts(Root(disk))[p], s)
    BY <1>1 DEF Chains
  <2> QED  BY <2>1, <2>2
<1>4. \A i \in 1 .. n : IsCluster(s[i])
  <2>1. \A i \in 1 .. n : s[i] \in Clusters
    BY <1>1, InUse
  <2> QED  BY <1>2, <2>1, ClusterType, Radices DEF IsCluster, AllClusters
<1>5. ~ IsCluster(LAST) /\ ~ IsCluster(0)
  BY Radices DEF IsCluster
<1> HIDE DEF s, first
<1>6. v = [k \in 1 .. FatCapacity |->
             IF k <= n THEN s[k] ELSE IF k = n + 1 /\ n # 0 THEN LAST ELSE 0]
  BY <1>2, <1>3, WalkIs
<1> HIDE DEF v
<1>7. {k \in 1 .. FatCapacity : IsCluster(v[k])} = 1 .. n
  <2>1. ASSUME NEW k \in 1 .. FatCapacity PROVE IsCluster(v[k]) <=> k \in 1 .. n
    <3>1. CASE k <= n
      BY <1>2, <1>4, <1>6, <3>1
    <3>2. CASE ~ (k <= n)
      BY <1>2, <1>5, <1>6, <3>2
    <3> QED  BY <3>1, <3>2
  <2>2. \A k \in 1 .. n : k \in 1 .. FatCapacity
    BY <1>2
  <2> QED  BY <2>1, <2>2
<1>8. Cardinality(1 .. n) = n
  <2>1. Cardinality(1 .. n) = IF 1 > n THEN 0 ELSE n - 1 + 1
    BY <1>2, FS_Interval, 1 \in Int, n \in Int
  <2> QED  BY <1>2, <2>1
<1>9. ChainOf(p) = SubSeq(v, 1, n)
  BY <1>7, <1>8 DEF ChainOf, v, first
<1>10. SubSeq(v, 1, n) = s
  <2> HIDE DEF n
  <2>1. n = Len(s)
    BY DEF n
  <2>2. \A k \in 1 .. n : k \in 1 .. FatCapacity /\ v[k] = s[k]
    BY <1>2, <1>6
  <2>3. SubSeq(v, 1, n) = [k \in 1 .. n |-> v[k]]
    BY <1>2
  <2>4. s = [k \in 1 .. n |-> s[k]]
    BY <1>2, <2>1
  <2> QED  BY <2>2, <2>3, <2>4
<1> QED  BY <1>9, <1>10 DEF s

THEOREM Invariance == ASSUME Limits PROVE Spec => []IInv
<1>1. Init => IInv
  BY SoundInit DEF IInv
<1>2. IInv /\ [Next]_disk => IInv'
  <2> SUFFICES ASSUME IInv, [Next]_disk PROVE \E D, G : Sound(disk', D, G)
    BY DEF IInv
  <2>1. PICK E, F : Sound(disk, E, F)
    BY DEF IInv
  <2>2. CASE Next
    <3>1. PICK filename \in Names, content \in Contents : write_file(filename, content)
      BY <2>2 DEF Next
    <3>2. CASE disk' = disk
      BY <2>1, <3>2
    <3>3. CASE \E p \in Positions : \E s :
                 Rewritten(Root(disk), disk', E, F, p, s, filename, content)
      BY <3>3 DEF Rewritten
    <3> QED  BY <2>1, <3>1, <3>2, <3>3, SoundStep
  <2>3. CASE UNCHANGED disk
    BY <2>1, <2>3
  <2> QED  BY <2>2, <2>3
<1> QED  BY <1>1, <1>2, PTL DEF Spec

\* A file has one directory entry, however often it is created and written.
THEOREM OneEntryPerName == ASSUME Limits PROVE Spec => []NamesUnique
<1>1. IInv => NamesUnique
  <2> SUFFICES ASSUME IInv, NEW p \in UsedPositions, NEW q \in UsedPositions,
                      Entry(disk, p).name = Entry(disk, q).name
               PROVE  p = q
    BY DEF NamesUnique
  <2>1. p \in Positions /\ q \in Positions /\ Entry(disk, p).name \notin {END, DELETED}
    BY DEF UsedPositions, Used
  <2>2. DiskTyped(disk) /\ Directory(Root(disk))
    BY DEF IInv, Sound
  <2>3. Root(disk)[p] = Entry(disk, p) /\ Root(disk)[q] = Entry(disk, q)
    BY <2>1, <2>2, EntryType
  <2> QED  BY <2>1, <2>2, <2>3 DEF Directory
<1> QED  BY <1>1, Invariance, PTL

\* No two files share a cluster and no chain comes back to one, as long as no file
\* gets to a FAT entry that lies in two sectors (Limits): write_file takes only free
\* clusters, links them behind each other and updates no entry but its own.  Past
\* that entry it is false.
THEOREM NoClusterShared == ASSUME Limits PROVE Spec => []ChainsDisjoint
<1>1. IInv => ChainsDisjoint
  <2> SUFFICES ASSUME IInv PROVE ChainsDisjoint
    OBVIOUS
  <2>1. DiskTyped(disk) /\ FatCapacity <= EntryValues - 8
    BY DEF IInv, Sound, Limits
  <2>2. PICK E : Chains(Table(disk), Firsts(Root(disk)), E)
    BY DEF IInv, Sound
  <2>3. \A p \in UsedPositions : ChainOf(p) = E[p]
    BY <2>1, <2>2, ChainOfIs
  <2>4. \A p \in UsedPositions : p \in Positions
    BY DEF UsedPositions
  <2>5. \A p, q \in Positions : \A i \in 1 .. Len(E[p]), j \in 1 .. Len(E[q]) :
          E[p][i] = E[q][j] => p = q /\ i = j
    BY <2>2 DEF Chains
  <2>6. \A p \in Positions : DOMAIN E[p] = 1 .. Len(E[p])
    <3>1. E \in [Positions -> Seq(Clusters)]
      BY <2>2 DEF Chains
    <3> QED  BY <3>1
  <2>7. \A p \in UsedPositions : IsInjective(ChainOf(p))
    BY <2>3, <2>4, <2>5, <2>6 DEF IsInjective
  <2>8. \A p, q \in UsedPositions : p # q => Range(ChainOf(p)) \cap Range(ChainOf(q)) = {}
    BY <2>3, <2>4, <2>5, <2>6 DEF Range
  <2> QED  BY <2>7, <2>8 DEF ChainsDisjoint
<1> QED  BY <1>1, Invariance, PTL

\* Overwriting a file gives back every cluster it had, and a write that meets a full
\* disk loses none: what is not free is in the chain of a file, as long as no file gets
\* to a FAT entry that lies in two sectors (Limits).
THEOREM NothingLeaks == ASSUME Limits PROVE Spec => []NoLeak
<1>1. IInv => NoLeak
  <2> SUFFICES ASSUME IInv, NEW c \in 2 .. FatCapacity - 1, c \notin FreeClusters(disk, 0)
               PROVE  \E p \in UsedPositions : c \in Range(ChainOf(p))
    BY DEF NoLeak
  <2>1. DiskTyped(disk) /\ FatCapacity <= EntryValues - 8
    BY DEF IInv, Sound, Limits
  <2>2. PICK E : Chains(Table(disk), Firsts(Root(disk)), E)
    BY DEF IInv, Sound
  <2>3. c \in AllClusters /\ read_fat_entry(disk, c, 0) # 0
    BY DEF FreeClusters, AllClusters
  <2>4. Table(disk)[c] # 0
    <3> SUFFICES ASSUME Table(disk)[c] = 0 PROVE FALSE
      OBVIOUS
    <3>1. Value(disk, c) = 0
      BY <2>3 DEF Table
    <3> QED  BY <2>1, <2>3, <3>1, ReadBeyond DEF DiskTyped
  <2>5. c \in Clusters
    BY <2>2, <2>3, <2>4 DEF Chains
  <2>6. PICK p \in Positions : \E i \in 1 .. Len(E[p]) : E[p][i] = c
    BY <2>2, <2>4, <2>5 DEF Chains
  <2>7. E \in [Positions -> Seq(Clusters)]
    BY <2>2 DEF Chains
  <2>8. E[p] # <<>> /\ DOMAIN E[p] = 1 .. Len(E[p])
    <3> DEFINE s == E[p]
    <3>1. s \in Seq(Clusters) /\ \E i \in 1 .. Len(s) : s[i] = c
      BY <2>6, <2>7
    <3> HIDE DEF s
    <3>2. s # <<>> /\ DOMAIN s = 1 .. Len(s)
      BY <3>1
    <3> QED  BY <3>2 DEF s
  <2>9. Firsts(Root(disk))[p] # 0
    BY <2>2, <2>8, NoChain
  <2>10. p \in UsedPositions
    BY <2>1, <2>9, EntryType DEF Firsts, UsedPositions, Used
  <2>11. ChainOf(p) = E[p]
    BY <2>1, <2>2, <2>10, ChainOfIs
  <2>12. c \in Range(ChainOf(p))
    BY <2>6, <2>8, <2>11 DEF Range
  <2> QED  BY <2>10, <2>12
<1> QED  BY <1>1, Invariance, PTL

-----------------------------------------------------------------------------
(* The system calls.  A descriptor's position stays inside its data on     *)
(* every disk.  That callers read back what they wrote needs Room: a write *)
(* that meets a full disk or directory is answered with SYSCALL_OK as well.*)
(* With Room every chain is whole and on the disk, and the history of the  *)
(* calls is part of the contents.                                          *)

\* The clusters that the disk has, and room on it for every name: a directory entry
\* beside the label, and the clusters of the largest file.
Stored == {c \in Clusters : OnDisk(c)}
Ample == \E m \in Nat : Enough(Stored, m)
Room ==
  /\ Ample
  /\ Cardinality(Names) < Cardinality(Positions)

-----------------------------------------------------------------------------
(* What read_file returns.                                                 *)

\* The units of a cluster are numbers, written or not.
LEMMA ClusterRead ==
  ASSUME NEW d, DiskTyped(d), NEW c \in 0 .. LAST, IsCluster(c)
  PROVE  ReadCluster(d, c) \in [1 .. ClusterUnits -> Int]
<1> DEFINE Empty == [i \in 1 .. SectorUnits |-> UNINIT]
           sector(u) == cluster_to_sector(c) + (u - 1) \div SectorUnits
           at(u) == 1 + ((u - 1) % SectorUnits)
<1>1. cluster_to_sector(c) \in Nat /\ cluster_to_sector(c) >= data_start_sector
  <2> DEFINE a == c - 2
  <2>1. a \in Nat /\ SectorsPerCluster \in Nat /\ data_start_sector \in Nat
    BY LastPositive, Sizes, Regions DEF IsCluster
  <2> HIDE DEF a
  <2>2. a * SectorsPerCluster \in Nat
    BY <2>1, SMT
  <2>3. cluster_to_sector(c) = data_start_sector + a * SectorsPerCluster
    BY DEF cluster_to_sector, a
  <2> QED  BY <2>1, <2>2, <2>3
<1>2. ASSUME NEW u \in 1 .. ClusterUnits
      PROVE  read_ramdisk_sector(d, sector(u), Empty)[at(u)] \in Int
  <2>1. sector(u) \in Nat /\ sector(u) >= data_start_sector
    <3> DEFINE q == (u - 1) \div SectorUnits
    <3>1. q \in 0 .. SectorsPerCluster - 1
      BY UnitAt
    <3> HIDE DEF q
    <3>2. cluster_to_sector(c) + q \in Nat /\ cluster_to_sector(c) + q >= data_start_sector
      BY <1>1, <3>1, Regions
    <3> QED  BY <3>2 DEF q
  <2>2. at(u) \in 1 .. SectorUnits
    <3> DEFINE m == (u - 1) % SectorUnits
    <3>1. m \in 0 .. SectorUnits - 1 /\ SectorUnits \in Nat
      BY UnitAt, Sizes
    <3> HIDE DEF m
    <3>2. 1 + m \in 1 .. SectorUnits
      BY <3>1
    <3> QED  BY <3>2 DEF m
  <2>3. Empty \in [1 .. SectorUnits -> Int]
    BY DEF UNINIT
  <2>4. DOMAIN d = DiskSectors
    BY DEF DiskTyped, FatTyped, IsDisk
  <2> HIDE DEF sector, at, Empty
  <2>5. read_ramdisk_sector(d, sector(u), Empty) \in [1 .. SectorUnits -> Int]
    BY <2>1, <2>3, <2>4 DEF read_ramdisk_sector, DiskTyped
  <2> QED  BY <2>2, <2>5
<1>3. ReadCluster(d, c) = [u \in 1 .. ClusterUnits |->
                             read_ramdisk_sector(d, sector(u), Empty)[at(u)]]
  BY DEF ReadCluster
<1> HIDE DEF sector, at, Empty
<1> QED  BY <1>2, <1>3

\* The cluster and the place in it of a unit of a file.
LEMMA PlaceOf ==
  ASSUME NEW n \in Nat, NEW i \in 1 .. n
  PROVE  /\ 1 + ((i - 1) \div ClusterUnits) \in 1 .. Turns(n)
         /\ 1 + ((i - 1) % ClusterUnits) \in 1 .. ClusterUnits
         /\ ((i - 1) \div ClusterUnits) * ClusterUnits + (1 + ((i - 1) % ClusterUnits)) = i
         /\ ((i - 1) \div ClusterUnits) \in Nat
<1> DEFINE b == ClusterUnits
           a == i - 1
           t == (n + b - 1) \div b
           q == a \div b
           m == a % b
<1>1. b \in Nat \ {0} /\ a \in 0 .. n - 1 /\ n + b - 1 \in Nat
  BY UnitsType
<1> HIDE DEF b, a
<1>2. t \in Nat /\ t * b <= n + b - 1 /\ n + b - 1 < t * b + b
  BY <1>1, DivBracket
<1>3. a \in 0 .. t * b - 1
  BY <1>1, <1>2, SMT
<1> HIDE DEF t
<1>4. q \in 0 .. t - 1 /\ m \in 0 .. b - 1 /\ a = q * b + m
  BY ONLY <1>1, <1>2, <1>3, Split
<1> HIDE DEF q, m
<1>5. 1 + q \in 1 .. t /\ 1 + m \in 1 .. b /\ q \in Nat
  BY <1>1, <1>2, <1>4
<1>6. q * b \in Nat
  BY <1>1, <1>5, SMT
<1>7. q * b + (1 + m) = a + 1
  BY <1>1, <1>4, <1>6
<1>8. a + 1 = i
  BY DEF a
<1> QED  BY <1>5, <1>7, <1>8 DEF q, m, a, b, t, Turns

\* A file reads as a sequence as long as its entry says.
LEMMA ReadType ==
  ASSUME NEW d, DiskTyped(d), FatCapacity <= EntryValues - 8,
         NEW entry \in Records, NEW s \in Seq(Clusters), IsChain(Table(d), entry.first, s), NEW g
  PROVE  /\ read_file(d, entry, g) \in Seq(Int) /\ Len(read_file(d, entry, g)) = entry.size
         /\ \A i \in 1 .. entry.size :
              1 + ((i - 1) \div ClusterUnits) <= Len(s) =>
                read_file(d, entry, g)[i]
                  = ReadCluster(d, s[1 + ((i - 1) \div ClusterUnits)])[1 + ((i - 1) % ClusterUnits)]
         /\ \A i \in 1 .. entry.size :
              1 + ((i - 1) \div ClusterUnits) > Len(s) => read_file(d, entry, g)[i] = UNINIT
<1> DEFINE n == entry.size
           walk == Walk(d, entry.first, Turns(n), g)
           units == [c \in 0 .. LAST |->
                       IF IsCluster(c) THEN ReadCluster(d, c) ELSE [u \in 1 .. ClusterUnits |-> UNINIT]]
           k(i) == 1 + ((i - 1) \div ClusterUnits)
           m(i) == 1 + ((i - 1) % ClusterUnits)
           data == [i \in 1 .. n |-> units[walk[k(i)]][m(i)]]
<1>1. n \in Nat /\ Turns(n) \in Nat
  <2>1. n \in Nat
    BY DEF Records
  <2>2. ClusterUnits \in Nat \ {0} /\ n + ClusterUnits - 1 \in Nat
    BY <2>1, UnitsType
  <2>3. Turns(n) \in Nat
    BY ONLY <2>2, DivBracket DEF Turns
  <2> QED  BY <2>1, <2>3
<1>2. read_file(d, entry, g) = data
  BY DEF read_file
<1>3. walk = [j \in 1 .. Turns(n) |->
                IF j <= Len(s) THEN s[j] ELSE IF j = Len(s) + 1 /\ Len(s) # 0 THEN LAST ELSE 0]
  <2> HIDE DEF n
  <2> QED  BY <1>1, WalkIs
<1>4. \A j \in 1 .. Len(s) : s[j] \in 0 .. LAST /\ IsCluster(s[j])
  <2>1. \A j \in 1 .. Len(s) : s[j] \in Clusters
    OBVIOUS
  <2>2. FatCapacity \in Nat
    BY Sizes, SMT DEF FatCapacity
  <2>3. \A c \in Clusters : c \in 0 .. LAST /\ IsCluster(c)
    BY <2>2, ClusterType, LastPositive, Radices DEF IsCluster, AllClusters
  <2> QED  BY <2>1, <2>3
<1>5. \A j \in 1 .. Turns(n) : /\ walk[j] \in 0 .. LAST
                               /\ j <= Len(s) => walk[j] = s[j] /\ IsCluster(walk[j])
                               /\ j > Len(s) => ~ IsCluster(walk[j])
  <2>1. Len(s) \in Nat /\ LAST \in 0 .. LAST /\ 0 \in 0 .. LAST
    BY LastPositive
  <2>2. ~ IsCluster(LAST) /\ ~ IsCluster(0)
    BY Radices DEF IsCluster
  <2> HIDE DEF walk, n
  <2> QED  BY <1>1, <1>3, <1>4, <2>1, <2>2
<1>6. \A c \in 0 .. LAST : /\ units[c] \in [1 .. ClusterUnits -> Int]
                           /\ IsCluster(c) => units[c] = ReadCluster(d, c)
                           /\ ~ IsCluster(c) => \A u \in 1 .. ClusterUnits : units[c][u] = UNINIT
  <2>1. [u \in 1 .. ClusterUnits |-> UNINIT] \in [1 .. ClusterUnits -> Int]
    BY DEF UNINIT
  <2> QED  BY <2>1, ClusterRead
<1>7. \A i \in 1 .. n : k(i) \in 1 .. Turns(n) /\ m(i) \in 1 .. ClusterUnits
  <2> HIDE DEF n
  <2> QED  BY <1>1, PlaceOf
<1> HIDE DEF n, walk, units, k, m
<1>8. data \in [1 .. n -> Int]
  BY <1>5, <1>6, <1>7
<1>9. \A i \in 1 .. n : k(i) <= Len(s) => data[i] = ReadCluster(d, s[k(i)])[m(i)]
  <2> SUFFICES ASSUME NEW i \in 1 .. n, k(i) <= Len(s)
               PROVE  data[i] = ReadCluster(d, s[k(i)])[m(i)]
    OBVIOUS
  <2>1. data[i] = units[walk[k(i)]][m(i)]
    OBVIOUS
  <2>2. units[walk[k(i)]] = ReadCluster(d, s[k(i)])
    BY <1>5, <1>6, <1>7
  <2> QED  BY <2>1, <2>2
<1>10. \A i \in 1 .. n : k(i) > Len(s) => data[i] = UNINIT
  <2> SUFFICES ASSUME NEW i \in 1 .. n, k(i) > Len(s) PROVE data[i] = UNINIT
    OBVIOUS
  <2>1. data[i] = units[walk[k(i)]][m(i)]
    OBVIOUS
  <2>2. walk[k(i)] \in 0 .. LAST /\ ~ IsCluster(walk[k(i)])
    BY <1>5, <1>7
  <2> QED  BY <1>6, <1>7, <2>1, <2>2
<1> HIDE DEF data
<1>11. data \in Seq(Int) /\ Len(data) = n
  BY <1>1, <1>8
<1> QED  BY <1>2, <1>9, <1>10, <1>11 DEF n, k, m

\* A file whose chain is whole and on the disk reads as its content.
LEMMA ReadFile ==
  ASSUME NEW d, DiskTyped(d), FatCapacity <= EntryValues - 8,
         NEW entry \in Records, NEW s \in Seq(Clusters), IsChain(Table(d), entry.first, s), NEW g,
         NEW content \in Contents, Holds(d, entry, s, content),
         Len(s) = Needs(content), \A i \in 1 .. Len(s) : OnDisk(s[i])
  PROVE  read_file(d, entry, g) = content
<1> DEFINE n == Len(content)
           data == read_file(d, entry, g)
           k(i) == 1 + ((i - 1) \div ClusterUnits)
           m(i) == 1 + ((i - 1) % ClusterUnits)
<1>1. content \in Seq(Int) /\ n \in Nat /\ Needs(content) \in Nat /\ entry.size = n
  BY NeedsType DEF Holds
<1>2. data \in Seq(Int) /\ Len(data) = n
  BY <1>1, ReadType
<1>3. \A i \in 1 .. n : k(i) <= Len(s) => data[i] = ReadCluster(d, s[k(i)])[m(i)]
  <2>1. \A i \in 1 .. entry.size :
          1 + ((i - 1) \div ClusterUnits) <= Len(s) =>
            read_file(d, entry, g)[i]
              = ReadCluster(d, s[1 + ((i - 1) \div ClusterUnits)])[1 + ((i - 1) % ClusterUnits)]
    BY ReadType
  <2> HIDE DEF n
  <2> QED  BY <1>1, <2>1, Zenon
<1>4. \A i \in 1 .. n : /\ k(i) \in 1 .. Needs(content) /\ m(i) \in 1 .. ClusterUnits
                        /\ (k(i) - 1) * ClusterUnits + m(i) = i
  <2> SUFFICES ASSUME NEW i \in 1 .. n
               PROVE  /\ k(i) \in 1 .. Needs(content) /\ m(i) \in 1 .. ClusterUnits
                      /\ (k(i) - 1) * ClusterUnits + m(i) = i
    OBVIOUS
  <2> DEFINE q == (i - 1) \div ClusterUnits
  <2>1. /\ 1 + q \in 1 .. Turns(n) /\ m(i) \in 1 .. ClusterUnits
        /\ q * ClusterUnits + m(i) = i /\ q \in Nat
    BY <1>1, PlaceOf
  <2>2. k(i) = 1 + q
    OBVIOUS
  <2> HIDE DEF q, k, m
  <2>3. k(i) - 1 = q
    BY <2>1, <2>2
  <2> QED  BY <2>1, <2>2, <2>3 DEF Needs
<1> HIDE DEF k, m, data, n
<1>5. ASSUME NEW i \in 1 .. n PROVE data[i] = content[i]
  <2>1. k(i) \in 1 .. Len(s) /\ k(i) <= Len(s)
    BY <1>1, <1>4
  <2>2. ReadCluster(d, s[k(i)]) = Piece(content, k(i))
    BY <2>1 DEF Holds, Filled
  <2>3. Piece(content, k(i))[m(i)] = content[i]
    <3>1. Piece(content, k(i))[m(i)]
            = IF (k(i) - 1) * ClusterUnits + m(i) <= Len(content)
              THEN content[(k(i) - 1) * ClusterUnits + m(i)] ELSE 0
      BY <1>4, PieceIs
    <3> QED  BY <1>1, <1>4, <3>1 DEF n
  <2> QED  BY <1>3, <2>1, <2>2, <2>3
<1>6. Len(content) = n
  BY DEF n
<1>7. data = content
  BY <1>1, <1>2, <1>5, <1>6
<1> QED  BY <1>7 DEF data

-----------------------------------------------------------------------------
(* Positions stay inside the data.                                         *)

Descriptors == [open : BOOLEAN, data : Seq(Int), position : Nat]

Inside ==
  /\ fd_table \in [Fds -> Descriptors]
  /\ \A fd \in Fds : fd_table[fd].position <= Len(fd_table[fd].data)

\* The calls change the disk through write_file alone: they implement the file system.
THEOREM CallsWriteFiles == SysSpec => Spec
<1>1. SysInit => Init
  BY DEF SysInit
<1>2. [syscall_handler]_sysVars => [Next]_disk
  <2> SUFFICES ASSUME syscall_handler PROVE Next \/ disk' = disk
    BY DEF sysVars
  <2>1. ASSUME NEW path \in Paths, NEW data \in Contents, NEW high \in High,
               syscall_write_file(path, data, high)
        PROVE  Next \/ disk' = disk
    <3>1. CASE path # NULL /\ write_file(path, data)
      BY <2>1, <3>1 DEF Next, Paths
    <3> QED  BY <2>1, <3>1 DEF syscall_write_file, Fails
  <2>2. ASSUME NEW path \in Paths, syscall_write(path) \/ syscall_read_file(path) \/ open_file(path)
        PROVE  disk' = disk
    BY <2>2 DEF syscall_write, syscall_read_file, open_file, Fails
  <2>3. ASSUME NEW fd \in FdArguments,
               \/ close_file(fd) \/ tell_file(fd)
               \/ \E len \in Lengths : read_file_fd(fd, len)
               \/ \E position \in Offsets : seek_file(fd, position)
        PROVE  disk' = disk
    BY <2>3 DEF close_file, tell_file, read_file_fd, seek_file, Fails
  <2>4. ASSUME Unknown PROVE disk' = disk
    BY <2>4 DEF Unknown, Fails
  <2> QED  BY <2>1, <2>2, <2>3, <2>4 DEF syscall_handler
<1> QED  BY <1>1, <1>2, PTL DEF SysSpec, Spec

\* The entry of a path that find_file finds, and what the invariant says of it.
LEMMA EntryFound ==
  ASSUME NEW d, NEW E, NEW F, Sound(d, E, F), Limits, NEW path \in Names, Found(d, path) # {},
         NEW entry, entry = Entry(d, Min(Found(d, path)))
  PROVE  \E p \in Positions :
           /\ Root(d)[p] = entry /\ entry.name = path /\ entry \in Records
           /\ E[p] \in Seq(Clusters) /\ IsChain(Table(d), entry.first, E[p])
           /\ path \in DOMAIN F /\ F[path] \in Contents /\ Holds(d, entry, E[p], F[path])
<1> DEFINE found == Found(d, path)
           p == Min(found)
<1>1. DiskTyped(d) /\ Directory(Root(d)) /\ Plain /\ Chains(Table(d), Firsts(Root(d)), E)
  BY DEF Sound, Limits
<1>2. found = {q \in Positions : Root(d)[q].name = path}
  BY <1>1, FoundIs
<1>3. p \in found
  <2>1. found \in SUBSET Nat /\ found # {}
    BY <1>2, PositionsType
  <2> HIDE DEF found
  <2> QED  BY <2>1, MinOf
<1>4. entry = Entry(d, p)
  OBVIOUS
<1> HIDE DEF p, found
<1>5. p \in Positions /\ Root(d)[p].name = path
  BY <1>2, <1>3
<1>6. Root(d)[p] = entry /\ entry \in Records
  BY <1>1, <1>4, <1>5, EntryType
<1>7. Firsts(Root(d))[p] = entry.first
  BY <1>1, <1>5, <1>6 DEF Firsts, Plain
<1>8. E[p] \in Seq(Clusters) /\ IsChain(Table(d), entry.first, E[p])
  BY <1>1, <1>5, <1>7 DEF Chains
<1>9. path \in DOMAIN F /\ Holds(d, entry, E[p], F[path])
  <2>1. FileAt(d, entry, E[p], F)
    BY <1>5, <1>6 DEF Sound
  <2> QED  BY <1>5, <1>6, <2>1 DEF FileAt
<1>10. F[path] \in Contents
  BY <1>9 DEF Sound
<1> QED  BY <1>5, <1>6, <1>8, <1>9, <1>10

LEMMA FileFound ==
  ASSUME NEW E, NEW F, Sound(disk, E, F), Limits, NEW path \in Names, Found(disk, path) # {}
  PROVE  \E p \in Positions :
           /\ Root(disk)[p] = File(path) /\ File(path).name = path /\ File(path) \in Records
           /\ E[p] \in Seq(Clusters) /\ IsChain(Table(disk), File(path).first, E[p])
           /\ path \in DOMAIN F /\ F[path] \in Contents /\ Holds(disk, File(path), E[p], F[path])
<1> DEFINE entry == File(path)
<1>1. entry = Entry(disk, Min(Found(disk, path)))
  BY DEF File
<1> HIDE DEF entry
<1> QED  BY <1>1, EntryFound DEF entry

LEMMA ReadFound ==
  ASSUME IInv, Limits, NEW path \in Names, Found(disk, path) # {}, NEW g
  PROVE  read_file(disk, File(path), g) \in Seq(Int)
<1>1. PICK E, F : Sound(disk, E, F)
  BY DEF IInv
<1>2. DiskTyped(disk) /\ FatCapacity <= EntryValues - 8
  BY <1>1 DEF Sound, Limits
<1>3. PICK p \in Positions : /\ File(path) \in Records /\ E[p] \in Seq(Clusters)
                              /\ IsChain(Table(disk), File(path).first, E[p])
  BY <1>1, FileFound
<1> QED  BY <1>2, <1>3, ReadType

\* The descriptor that open_file takes is one of the table that is free.
LEMMA LowestFree ==
  ASSUME FreeFds # {}
  PROVE  Min(FreeFds) \in Fds /\ ~ fd_table[Min(FreeFds)].open
<1>1. FreeFds \in SUBSET Nat
  BY DEF FreeFds, Fds
<1>2. Min(FreeFds) \in FreeFds
  BY <1>1, MinOf
<1> QED  BY <1>2 DEF FreeFds

\* A read asks for no more than is left.
LEMMA ToReadType ==
  ASSUME NEW f \in Descriptors, f.position <= Len(f.data), NEW len \in Nat
  PROVE  ToRead(f, len) \in Nat /\ f.position + ToRead(f, len) <= Len(f.data)
<1> DEFINE n == Len(f.data)
           a == f.position
           b == n - a
           m == Min({len, b})
<1>1. n \in Nat /\ a \in Nat
  <2>1. f.data \in Seq(Int) /\ a \in Nat
    BY DEF Descriptors
  <2> QED  BY <2>1
<1>2. b \in Nat /\ b = n - a
  BY <1>1
<1> HIDE DEF b
<1>3. m \in {len, b} /\ m <= b
  <2>1. {len, b} \in SUBSET Nat /\ {len, b} # {}
    BY <1>2
  <2> QED  BY ONLY <2>1, MinOf
<1>4. ToRead(f, len) = m
  BY DEF ToRead, b
<1> HIDE DEF m
<1> QED  BY <1>1, <1>2, <1>3, <1>4

LEMMA InsideStep ==
  ASSUME IInv, Limits, Inside, [syscall_handler]_sysVars
  PROVE  Inside'
<1> DEFINE Fine(f) == f \in Descriptors /\ f.position <= Len(f.data)
<1>1. fd_table \in [Fds -> Descriptors] /\ \A fd \in Fds : Fine(fd_table[fd])
  BY DEF Inside
<1>2. ASSUME NEW fd \in Fds, NEW f, Fine(f), fd_table' = [fd_table EXCEPT ![fd] = f]
      PROVE  Inside'
  <2>1. fd_table' \in [Fds -> Descriptors]
    BY <1>1, <1>2
  <2>2. \A c \in Fds : fd_table'[c] = IF c = fd THEN f ELSE fd_table[c]
    BY <1>1, <1>2
  <2>3. \A c \in Fds : Fine(fd_table'[c])
    BY <1>1, <1>2, <2>2
  <2> QED  BY <2>1, <2>3 DEF Inside
<1>3. CASE fd_table' = fd_table
  BY <1>3 DEF Inside
<1>4. ASSUME NEW path \in Paths, open_file(path) PROVE Inside'
  <2>1. CASE \/ path = NULL \/ FreeFds = {} \/ Found(disk, path) = {} \/ File(path).size = 0
    BY <1>3, <1>4, <2>1 DEF open_file, Fails
  <2>2. CASE path # NULL /\ FreeFds # {} /\ Found(disk, path) # {} /\ File(path).size # 0
    <3>1. PICK g \in Garbage :
            fd_table' = [fd_table EXCEPT ![Min(FreeFds)] =
                           [open |-> TRUE, data |-> read_file(disk, File(path), g), position |-> 0]]
      BY <1>4, <2>2 DEF open_file
    <3> DEFINE data == read_file(disk, File(path), g)
    <3>2. data \in Seq(Int)
      BY <2>2, ReadFound DEF Paths
    <3> HIDE DEF data
    <3>3. Fine([open |-> TRUE, data |-> data, position |-> 0])
      BY <3>2 DEF Descriptors
    <3>4. Min(FreeFds) \in Fds
      BY <2>2, LowestFree
    <3> QED  BY <1>2, <3>1, <3>3, <3>4 DEF data
  <2> QED  BY <2>1, <2>2
<1>5. ASSUME NEW fd \in FdArguments, close_file(fd) PROVE Inside'
  <2>1. Fine(CLOSED)
    BY DEF CLOSED, Descriptors
  <2> HIDE DEF Fine
  <2> QED  BY <1>2, <1>3, <1>5, <2>1 DEF close_file, IsOpen
<1>6. ASSUME NEW fd \in FdArguments, NEW len \in Lengths, read_file_fd(fd, len) PROVE Inside'
  <2>1. CASE ~ IsOpen(fd) \/ len = 0
    BY <1>3, <1>6, <2>1 DEF read_file_fd, Fails
  <2>2. CASE IsOpen(fd) /\ len # 0
    <3> DEFINE f == fd_table[fd]
               n == ToRead(f, len)
               f1 == [f EXCEPT !.position = @ + n]
    <3>1. fd \in Fds /\ Fine(f) /\ len \in Nat
      BY <1>1, <2>2, DescriptorAssumption DEF IsOpen
    <3>2. fd_table' = [fd_table EXCEPT ![fd] = f1]
      BY <1>6, <2>2 DEF read_file_fd
    <3> HIDE DEF f
    <3>3. n \in Nat /\ f.position + n <= Len(f.data)
      BY <3>1, ToReadType
    <3> HIDE DEF n
    <3>4. Fine(f1)
      BY <3>1, <3>3 DEF Descriptors
    <3> HIDE DEF f1, Fine
    <3> QED  BY <1>2, <3>1, <3>2, <3>4
  <2> QED  BY <2>1, <2>2
<1>7. ASSUME NEW fd \in FdArguments, NEW position \in Offsets, seek_file(fd, position) PROVE Inside'
  <2>1. CASE ~ IsOpen(fd) \/ Beyond(fd_table[fd], position)
    BY <1>3, <1>7, <2>1 DEF seek_file, Fails
  <2>2. CASE IsOpen(fd) /\ ~ Beyond(fd_table[fd], position)
    <3> DEFINE f == fd_table[fd]
               f1 == [f EXCEPT !.position = position]
    <3>1. fd \in Fds /\ Fine(f) /\ position \in Nat
      BY <1>1, <2>2, DescriptorAssumption DEF IsOpen
    <3>2. fd_table' = [fd_table EXCEPT ![fd] = f1]
      BY <1>7, <2>2 DEF seek_file
    <3>3. position <= Len(f.data)
      <4>1. f.data \in Seq(Int)
        BY <3>1 DEF Descriptors
      <4>2. Len(f.data) \in Nat
        BY <4>1
      <4> QED  BY <2>2, <3>1, <4>2 DEF Beyond
    <3> HIDE DEF f
    <3>4. Fine(f1)
      BY <3>1, <3>3 DEF Descriptors
    <3> HIDE DEF f1, Fine
    <3> QED  BY <1>2, <3>1, <3>2, <3>4
  <2> QED  BY <2>1, <2>2
<1>8. ASSUME NEW path \in Paths,
             \/ syscall_write(path) \/ syscall_read_file(path)
             \/ \E data \in Contents, high \in High : syscall_write_file(path, data, high)
      PROVE  fd_table' = fd_table
  BY <1>8 DEF syscall_write, syscall_read_file, syscall_write_file, Fails
<1>9. ASSUME NEW fd \in FdArguments, tell_file(fd) PROVE fd_table' = fd_table
  BY <1>9 DEF tell_file, Fails
<1>10. ASSUME Unknown PROVE fd_table' = fd_table
  BY <1>10 DEF Unknown, Fails
<1>11. CASE UNCHANGED sysVars
  BY <1>3, <1>11 DEF sysVars
<1>12. CASE syscall_handler
  BY <1>3, <1>4, <1>5, <1>6, <1>7, <1>8, <1>9, <1>10, <1>12 DEF syscall_handler
<1> QED  BY <1>11, <1>12

LEMMA AlwaysInside == ASSUME Limits PROVE SysSpec => []Inside
<1>1. SysSpec => []IInv
  BY Invariance, CallsWriteFiles, PTL
<1>2. SysInit => Inside
  BY DEF SysInit, Inside, CLOSED, Descriptors
<1>3. IInv /\ Inside /\ [syscall_handler]_sysVars => Inside'
  BY InsideStep
<1> QED  BY <1>1, <1>2, <1>3, PTL DEF SysSpec

\* "size - position" never wraps around: seek_file stops at the end of the data, a read
\* at what is left, and a descriptor that is used again starts over.
THEOREM PositionsInside == ASSUME Limits PROVE SysSpec => []PositionInside
<1>1. Inside => PositionInside
  <2> SUFFICES ASSUME Inside, NEW fd \in Fds
               PROVE  fd_table[fd].position \in 0 .. Len(fd_table[fd].data)
    BY DEF Inside, PositionInside
  <2> DEFINE f == fd_table[fd]
  <2>1. f \in Descriptors /\ f.position <= Len(f.data)
    BY DEF Inside
  <2> HIDE DEF f
  <2>2. f.data \in Seq(Int) /\ f.position \in Nat
    BY <2>1 DEF Descriptors
  <2>3. Len(f.data) \in Nat
    BY <2>2
  <2> QED  BY <2>1, <2>2, <2>3 DEF f
<1> QED  BY <1>1, AlwaysInside, PTL

-----------------------------------------------------------------------------
(* With room for every name, files are whole.                              *)

\* A write always finds an entry or takes one.
LEMMA EntryLeft ==
  ASSUME NEW d, DiskTyped(d), Directory(Root(d)), Plain, Room,
         NEW filename \in Names, Found(d, filename) = {}
  PROVE  Vacant(d) # {}
<1> SUFFICES ASSUME Vacant(d) = {} PROVE FALSE
  OBVIOUS
<1> DEFINE e == Root(d)
           name == [p \in Positions |-> e[p].name]
           Others == Names \ {filename}
           Range1 == Others \cup {LABEL}
<1>1. \A p \in Positions : e[p] = Entry(d, p) /\ e[p] \in Records
  BY EntryType
<1>2. \A p \in Positions : e[p].name \notin {END, DELETED}
  BY <1>1 DEF Vacant
<1>3. \A p \in Positions : e[p].name # filename
  BY FoundIs
<1>4. \A p \in Positions : e[p].name \in Range1
  BY <1>1, <1>2, <1>3 DEF Records
<1>5. \A p, q \in Positions : e[p].name = e[q].name => p = q
  BY <1>2 DEF Directory
<1> HIDE DEF e, Range1
<1>6. name \in Injection(Positions, Range1)
  <2>1. name \in [Positions -> Range1]
    BY <1>4
  <2>2. \A p, q \in Positions : name[p] = name[q] => p = q
    BY <1>5
  <2> HIDE DEF name
  <2> QED  BY <2>1, <2>2 DEF Injection, IsInjective
<1> HIDE DEF name
<1>7. IsFiniteSet(Names)
  BY GeometryAssumption
<1>8. IsFiniteSet(Others) /\ Cardinality(Others) = Cardinality(Names) - 1
  <2> HIDE DEF Others
  <2>1. /\ IsFiniteSet(Names \ {filename})
        /\ Cardinality(Names \ {filename})
             = IF filename \in Names THEN Cardinality(Names) - 1 ELSE Cardinality(Names)
    BY ONLY <1>7, FS_RemoveElement
  <2> QED  BY <2>1 DEF Others
<1>9. LABEL \notin Others
  BY DEF Plain
<1> HIDE DEF Others
<1>10. IsFiniteSet(Range1) /\ Cardinality(Range1) = Cardinality(Others) + 1
  <2>1. /\ IsFiniteSet(Others \cup {LABEL})
        /\ Cardinality(Others \cup {LABEL})
             = IF LABEL \in Others THEN Cardinality(Others) ELSE Cardinality(Others) + 1
    BY ONLY <1>8, FS_AddElement
  <2> QED  BY <1>9, <2>1 DEF Range1
<1>11. Cardinality(Positions) <= Cardinality(Range1) /\ IsFiniteSet(Positions)
  BY <1>6, <1>10, FS_Injection
<1>12. Cardinality(Names) \in Nat /\ Cardinality(Positions) \in Nat
  BY <1>7, <1>11, FS_CardinalityType
<1> QED  BY <1>8, <1>10, <1>11, <1>12 DEF Room

\* The clusters that the disk has come before those it has not.
LEMMA StoredFirst ==
  ASSUME NEW c \in Clusters, ~ OnDisk(c), NEW b \in Stored
  PROVE  b < c
<1> SUFFICES ASSUME c <= b PROVE OnDisk(c)
  BY ClusterType DEF Stored
<1> SUFFICES ASSUME NEW i \in 0 .. SectorsPerCluster - 1
             PROVE  cluster_to_sector(c) + i \in DiskSectors
  BY DEF OnDisk
<1>1. cluster_to_sector(b) + i \in DiskSectors
  BY DEF Stored, OnDisk
<1>2. b \in Clusters /\ b \in Nat /\ c \in Nat /\ c >= 2
  BY ClusterType DEF Stored
<1> DEFINE x == c - 2
           y == b - 2
<1>3. x \in Nat /\ y \in Nat /\ x <= y /\ SectorsPerCluster \in Nat /\ data_start_sector \in Nat
  BY <1>2, Sizes, Regions
<1> HIDE DEF x, y
<1>4. x * SectorsPerCluster <= y * SectorsPerCluster
      /\ x * SectorsPerCluster \in Nat /\ y * SectorsPerCluster \in Nat
  BY <1>3, SMT
<1>5. /\ cluster_to_sector(c) = data_start_sector + x * SectorsPerCluster
      /\ cluster_to_sector(b) = data_start_sector + y * SectorsPerCluster
  BY DEF cluster_to_sector, x, y
<1>6. DataSectors \in Nat
  BY Sizes
<1> QED  BY <1>1, <1>3, <1>4, <1>5, <1>6 DEF DiskSectors

\* Every file has all its clusters, and the disk has them.
Whole(e, E, F) ==
  \A q \in Positions : e[q].name \in Names =>
    Len(E[q]) = Needs(F[e[q].name]) /\ \A i \in 1 .. Len(E[q]) : OnDisk(E[q][i])

\* Not every cluster that the disk has is in a chain while a chain may grow by one.
LEMMA NotCrowded ==
  ASSUME NEW d, NEW E, NEW F, Sound(d, E, F), Limits, Ample,
         \A c \in Stored : Table(d)[c] # 0,
         NEW p \in Positions, Root(d)[p].name \in Names,
         NEW k \in Nat \ {0}, k <= Needs(F[Root(d)[p].name]), Misses(E[p], Stored, k)
  PROVE  FALSE
<1> DEFINE e == Root(d)
           S == Stored
<1>1. PICK m \in Nat : Enough(Stored, m)
  BY DEF Ample
<1>2. Directory(e) /\ Plain /\ E \in [Positions -> Seq(Clusters)]
  BY DEF Sound, Limits, Chains
<1>3. \A q \in Positions : e[q].name \in Names =>
        F[e[q].name] \in Contents /\ Len(E[q]) <= Needs(F[e[q].name])
  BY DEF Sound, FileAt, Holds
<1>4. \A q \in Positions : e[q].name \notin Names => E[q] = <<>>
  BY DEF Sound, FileAt
<1> HIDE DEF e
<1>5. Within(e, E, m)
  <2> SUFFICES ASSUME NEW q \in Positions, E[q] # <<>> PROVE e[q].name \in Names /\ Len(E[q]) <= m
    BY DEF Within
  <2>1. e[q].name \in Names
    BY <1>4
  <2>2. F[e[q].name] \in Contents /\ Len(E[q]) <= Needs(F[e[q].name])
    BY <1>3, <2>1
  <2>3. Needs(F[e[q].name]) <= m /\ Needs(F[e[q].name]) \in Nat
    BY <1>1, <2>2, NeedsType DEF Enough
  <2>4. Len(E[q]) \in Nat
    <3> DEFINE u == E[q]
    <3>1. u \in Seq(Clusters)
      BY <1>2
    <3> HIDE DEF u
    <3>2. Len(u) \in Nat
      BY <3>1
    <3> QED  BY <3>2 DEF u
  <2> QED  BY <2>1, <2>2, <2>3, <2>4
<1>6. S \in SUBSET Clusters /\ Covers(E, S)
  <2>1. \A c \in Clusters : Table(d)[c] # 0 => \E q \in Positions : \E i \in 1 .. Len(E[q]) : E[q][i] = c
    BY DEF Sound, Chains
  <2> QED  BY <2>1 DEF Covers, Stored
<1>7. k \in 1 .. m
  <2>1. Needs(F[e[p].name]) <= m /\ Needs(F[e[p].name]) \in Nat
    BY <1>1, <1>3, NeedsType DEF Enough, e
  <2> QED  BY <2>1 DEF e
<1>8. Misses(E[p], S, k) /\ e[p].name \in Names
  BY DEF e
<1> HIDE DEF S
<1>9. /\ Cardinality(S) \in Nat /\ Cardinality(Names) \in Nat
      /\ Cardinality(S) < Cardinality(Names) * m
  BY <1>1, <1>2, <1>5, <1>6, <1>7, <1>8, Crowded
<1>10. Cardinality(Names) * m <= Cardinality(S)
  BY <1>1 DEF Enough, S
<1> DEFINE z == Cardinality(Names) * m
<1>11. z \in Nat
  BY <1>1, <1>9, SMT
<1> HIDE DEF z
<1> QED  BY <1>9, <1>10, <1>11 DEF z

\* A write leaves every file whole.
LEMMA WholeKept ==
  ASSUME NEW d, NEW E, NEW F, Sound(d, E, F), Limits, Ample, Whole(Root(d), E, F),
         NEW r, NEW p \in Positions, NEW s, NEW filename \in Names, NEW content \in Contents,
         Rewritten(Root(d), r, E, F, p, s, filename, content)
  PROVE  Whole(Root(r), [E EXCEPT ![p] = s], Put(F, filename, content))
<1> DEFINE e == Root(d)
           n == Root(r)
           D == [E EXCEPT ![p] = s]
           G == Put(F, filename, content)
<1>1. /\ Sound(r, D, G) /\ n[p].name = filename /\ \A q \in Positions \ {p} : n[q] = e[q]
      /\ TakenBelow(Table(r), s) /\ (Len(s) < Needs(content) => AllTaken(Table(r)))
  BY DEF Rewritten
<1>2. D[p] = s /\ \A q \in Positions \ {p} : D[q] = E[q]
  <2>1. E \in [Positions -> Seq(Clusters)]
    BY DEF Sound, Chains
  <2> QED  BY <2>1
<1>3. G[filename] = content /\ \A x \in DOMAIN F : x # filename => G[x] = F[x]
  BY DEF Put
<1> HIDE DEF n, D, G
<1>4. s \in Seq(Clusters) /\ Len(s) <= Needs(content)
  <2>1. D \in [Positions -> Seq(Clusters)]
    BY <1>1 DEF Sound, Chains
  <2>2. FileAt(r, n[p], s, G)
    BY <1>1, <1>2 DEF Sound, n
  <2> QED  BY <1>1, <1>2, <1>3, <2>1, <2>2 DEF FileAt, Holds
<1>5. Len(s) \in Nat /\ Needs(content) \in Nat
  BY <1>4, NeedsType
<1>6. Len(s) = Needs(content)
  <2> SUFFICES ASSUME Len(s) < Needs(content) PROVE FALSE
    BY <1>4, <1>5
  <2> DEFINE k == Len(s) + 1
  <2>1. \A c \in Stored : Table(r)[c] # 0
    BY <1>1 DEF AllTaken, Stored
  <2>2. k \in Nat \ {0} /\ k <= Needs(G[n[p].name]) /\ Misses(D[p], Stored, k)
    BY <1>1, <1>2, <1>3, <1>5 DEF Misses
  <2> HIDE DEF k
  <2> QED  BY <1>1, <2>1, <2>2, NotCrowded DEF n
<1>7. ASSUME NEW k \in 1 .. Len(s), ~ OnDisk(s[k]) PROVE FALSE
  <2>1. s[k] \in Clusters
    BY <1>4
  <2>2. \A b \in Stored : b < s[k] /\ b \in Clusters
    BY <1>7, <2>1, StoredFirst DEF Stored
  <2>3. \A c \in Stored : Table(r)[c] # 0
    BY <1>1, <2>2 DEF TakenBelow
  <2>4. Misses(s, Stored, k)
    BY <1>7 DEF Misses, Stored
  <2>5. k \in Nat \ {0} /\ k <= Needs(G[n[p].name]) /\ Misses(D[p], Stored, k)
    BY <1>1, <1>2, <1>3, <1>5, <1>6, <2>4
  <2> QED  BY <1>1, <2>3, <2>5, NotCrowded DEF n
<1>8. ASSUME NEW q \in Positions, n[q].name \in Names
      PROVE  Len(D[q]) = Needs(G[n[q].name]) /\ \A i \in 1 .. Len(D[q]) : OnDisk(D[q][i])
  <2>1. CASE q = p
    BY <1>1, <1>2, <1>3, <1>6, <1>7, <2>1
  <2>2. CASE q # p
    <3>1. n[q] = e[q] /\ D[q] = E[q]
      BY <1>1, <1>2, <2>2
    <3>2. e[q].name # filename
      <4>1. Directory(n) /\ filename \notin {END, DELETED}
        BY <1>1 DEF Sound, n, Limits, Plain
      <4> QED  BY <1>1, <2>2, <3>1, <4>1 DEF Directory
    <3>3. e[q].name \in DOMAIN F
      <4>1. FileAt(d, e[q], E[q], F)
        BY DEF Sound
      <4> QED  BY <1>8, <3>1, <4>1 DEF FileAt
    <3>4. G[n[q].name] = F[e[q].name]
      BY <1>3, <3>1, <3>2, <3>3
    <3> QED  BY <1>8, <3>1, <3>4 DEF Whole
  <2> QED  BY <2>1, <2>2
<1> QED  BY <1>8 DEF Whole, n, D, G

-----------------------------------------------------------------------------
(* What callers were told is on the disk.                                  *)

\* Every file is whole, and the history w records contents of files.
Told(d, w, E, F) ==
  /\ Sound(d, E, F) /\ Whole(Root(d), E, F)
  /\ \A path \in DOMAIN w :
       path # NULL /\ path \in DOMAIN F /\ w[path] = F[path] /\ Len(F[path]) # 0

Recorded == \E E, F : Told(disk, written, E, F)

LEMMA ReadWritten ==
  ASSUME Recorded, Limits, NEW path \in DOMAIN written, NEW g
  PROVE  /\ path \in Names /\ path # NULL /\ Found(disk, path) # {} /\ File(path).size # 0
         /\ read_file(disk, File(path), g) = written[path]
<1>1. PICK E, F : Told(disk, written, E, F)
  BY DEF Recorded
<1>2. /\ Sound(disk, E, F) /\ Whole(Root(disk), E, F)
      /\ path # NULL /\ path \in DOMAIN F /\ written[path] = F[path] /\ Len(F[path]) # 0
  BY <1>1 DEF Told
<1>3. /\ DiskTyped(disk) /\ Directory(Root(disk)) /\ Plain /\ FatCapacity <= EntryValues - 8
      /\ DOMAIN F = Named(Root(disk))
  BY <1>2 DEF Sound, Limits
<1>4. path \in Names /\ \E q \in Positions : Root(disk)[q].name = path
  BY <1>2, <1>3 DEF Named
<1>5. Found(disk, path) # {}
  BY <1>3, <1>4, FoundIs
<1>6. PICK p \in Positions :
        /\ Root(disk)[p] = File(path) /\ File(path).name = path /\ File(path) \in Records
        /\ E[p] \in Seq(Clusters) /\ IsChain(Table(disk), File(path).first, E[p])
        /\ F[path] \in Contents /\ Holds(disk, File(path), E[p], F[path])
  BY <1>2, <1>4, <1>5, FileFound
<1>7. Len(E[p]) = Needs(F[path]) /\ \A i \in 1 .. Len(E[p]) : OnDisk(E[p][i])
  BY <1>2, <1>4, <1>6 DEF Whole
<1>8. File(path).size # 0
  BY <1>2, <1>6 DEF Holds
<1> DEFINE entry == File(path)
           c == E[p]
           content == F[path]
<1>9. /\ entry \in Records /\ c \in Seq(Clusters) /\ IsChain(Table(disk), entry.first, c)
      /\ content \in Contents /\ Holds(disk, entry, c, content)
      /\ Len(c) = Needs(content) /\ \A i \in 1 .. Len(c) : OnDisk(c[i])
  BY <1>6, <1>7
<1> HIDE DEF entry, c, content
<1>10. read_file(disk, entry, g) = content
  BY <1>3, <1>9, ReadFile
<1> QED  BY <1>2, <1>4, <1>5, <1>8, <1>10 DEF entry, content

LEMMA RecordedWrite ==
  ASSUME Recorded, Limits, Room, NEW path \in Paths, NEW data \in Contents, NEW high \in High,
         syscall_write_file(path, data, high)
  PROVE  Recorded'
<1>1. PICK E, F : Told(disk, written, E, F)
  BY DEF Recorded
<1>2. CASE path = NULL \/ (Len(data) = 0 /\ high = 0)
  BY <1>2 DEF syscall_write_file, Fails, Recorded
<1>3. CASE path # NULL /\ ~ (Len(data) = 0 /\ high = 0)
  <2>1. /\ path \in Names /\ write_file(path, data)
        /\ written' = [p \in (DOMAIN written \ {path}) \cup (IF high = 0 THEN {path} ELSE {}) |->
                         IF p = path THEN data ELSE written[p]]
    BY <1>3 DEF syscall_write_file, Paths
  <2>2. Sound(disk, E, F) /\ Whole(Root(disk), E, F)
    BY <1>1 DEF Told
  <2>3. ~ (Found(disk, path) = {} /\ Vacant(disk) = {})
    <3>1. DiskTyped(disk) /\ Directory(Root(disk)) /\ Plain
      BY <2>2 DEF Sound, Limits
    <3> QED  BY <2>1, <3>1, EntryLeft
  <2>4. PICK p \in Positions : \E s : Rewritten(Root(disk), disk', E, F, p, s, path, data)
    BY <2>1, <2>2, <2>3, SoundStep
  <2>5. PICK s : Rewritten(Root(disk), disk', E, F, p, s, path, data)
    BY <2>4
  <2> DEFINE D == [E EXCEPT ![p] = s]
             G == Put(F, path, data)
  <2>6. Sound(disk', D, G) /\ Whole(Root(disk'), D, G)
    BY <2>1, <2>2, <2>5, WholeKept DEF Rewritten, Room
  <2>7. /\ path \in DOMAIN G /\ G[path] = data
        /\ \A x \in DOMAIN F : x # path => x \in DOMAIN G /\ G[x] = F[x]
    BY DEF Put
  <2> HIDE DEF D, G
  <2>8. ASSUME NEW x \in DOMAIN written'
        PROVE  x # NULL /\ x \in DOMAIN G /\ written'[x] = G[x] /\ Len(G[x]) # 0
    <3>1. CASE x = path
      <4>1. high = 0
        BY <2>1, <3>1
      <4> QED  BY <1>3, <2>1, <2>7, <3>1, <4>1
    <3>2. CASE x # path
      <4>1. x \in DOMAIN written /\ written'[x] = written[x]
        BY <2>1, <3>2
      <4> QED  BY <1>1, <2>7, <3>2, <4>1 DEF Told
    <3> QED  BY <3>1, <3>2
  <2>9. Told(disk', written', D, G)
    BY <2>6, <2>8 DEF Told
  <2> QED  BY <2>9 DEF Recorded
<1> QED  BY <1>2, <1>3

LEMMA AlwaysRecorded == ASSUME Limits, Room PROVE SysSpec => []Recorded
<1>1. SysInit => Recorded
  <2> SUFFICES ASSUME SysInit PROVE Recorded
    OBVIOUS
  <2> DEFINE E == [p \in Positions |-> <<>>]
             F == [n \in {} |-> <<>>]
  <2>1. Sound(disk, E, F)
    BY SoundInit DEF SysInit
  <2>2. DOMAIN written = {}
    BY DEF SysInit
  <2>3. Whole(Root(disk), E, F)
    <3>1. Named(Root(disk)) = {}
      <4>1. F \in [Named(Root(disk)) -> Contents]
        BY <2>1 DEF Sound
      <4> QED  BY <4>1
    <3> QED  BY <3>1 DEF Named, Whole
  <2> QED  BY <2>1, <2>2, <2>3 DEF Told, Recorded
<1>2. Recorded /\ [syscall_handler]_sysVars => Recorded'
  <2> SUFFICES ASSUME Recorded, [syscall_handler]_sysVars PROVE Recorded'
    OBVIOUS
  <2>1. CASE UNCHANGED <<disk, written>>
    BY <2>1 DEF Recorded
  <2>2. ASSUME NEW path \in Paths, syscall_write(path) \/ syscall_read_file(path) \/ open_file(path)
        PROVE  UNCHANGED <<disk, written>>
    BY <2>2 DEF syscall_write, syscall_read_file, open_file, Fails
  <2>3. ASSUME NEW fd \in FdArguments,
               \/ close_file(fd) \/ tell_file(fd)
               \/ \E len \in Lengths : read_file_fd(fd, len)
               \/ \E position \in Offsets : seek_file(fd, position)
        PROVE  UNCHANGED <<disk, written>>
    BY <2>3 DEF close_file, tell_file, read_file_fd, seek_file, Fails
  <2>4. ASSUME Unknown PROVE UNCHANGED <<disk, written>>
    BY <2>4 DEF Unknown, Fails
  <2>5. CASE UNCHANGED sysVars
    BY <2>1, <2>5 DEF sysVars
  <2>6. CASE syscall_handler
    BY <2>1, <2>2, <2>3, <2>4, <2>6, RecordedWrite DEF syscall_handler
  <2> QED  BY <2>5, <2>6
<1> QED  BY <1>1, <1>2, PTL DEF SysSpec

\* read_file hands back all of the data of the last write to the path that was answered
\* with SYSCALL_OK, whatever is written to other files, as long as there is room on the
\* disk for all of them at their largest (Room) and none gets to a FAT entry that lies
\* in two sectors (Limits): the chain of a file is whole, in order, and no other file's
\* write touches its clusters.  Room alone is not enough: a file that goes past such an
\* entry does not read back.
THEOREM ReadsBack == ASSUME Limits, Room PROVE SysSpec => []ReadBack
<1>1. SysInit => ReadBack
  BY DEF SysInit, ReadBack
<1>2. Recorded /\ ReadBack /\ [syscall_handler]_sysVars => ReadBack'
  <2> SUFFICES ASSUME Recorded, ReadBack, [syscall_handler]_sysVars PROVE ReadBack'
    OBVIOUS
  <2>1. CASE UNCHANGED sysVars
    BY <2>1 DEF sysVars, ReadBack
  <2>2. CASE call'.name # "read_file"
    BY <2>2 DEF ReadBack
  <2>3. ASSUME NEW path \in Paths, syscall_read_file(path) PROVE ReadBack'
    <3> SUFFICES ASSUME path \in DOMAIN written
                 PROVE  ret' = [code |-> SYSCALL_OK, data |-> written[path]]
      BY <2>3 DEF syscall_read_file, Called, ReadBack, Fails
    <3>1. \A g \in Garbage :
            /\ path \in Names /\ Found(disk, path) # {} /\ File(path).size # 0
            /\ read_file(disk, File(path), g) = written[path]
      BY ReadWritten
    <3>2. path # NULL /\ Found(disk, path) # {} /\ File(path).size # 0
      BY ReadWritten
    <3> QED  BY <2>3, <3>1, <3>2 DEF syscall_read_file, Return
  <2>4. CASE syscall_handler
    <3>1. ASSUME NEW path \in Paths,
                 \/ syscall_write(path) \/ open_file(path)
                 \/ \E data \in Contents, high \in High : syscall_write_file(path, data, high)
          PROVE  call'.name # "read_file"
      <4>1. Called("write", path) \/ Called("open", path) \/ Called("write_file", path)
        BY <3>1 DEF syscall_write, open_file, syscall_write_file
      <4> QED  BY <4>1 DEF Called
    <3>2. ASSUME NEW fd \in FdArguments,
                 \/ close_file(fd) \/ tell_file(fd)
                 \/ \E len \in Lengths : read_file_fd(fd, len)
                 \/ \E position \in Offsets : seek_file(fd, position)
          PROVE  call'.name # "read_file"
      <4>1. Called("close", fd) \/ Called("tell", fd) \/ Called("read", fd) \/ Called("seek", fd)
        BY <3>2 DEF close_file, tell_file, read_file_fd, seek_file
      <4> QED  BY <4>1 DEF Called
    <3>3. ASSUME Unknown PROVE call'.name # "read_file"
      BY <3>3 DEF Unknown, Called
    <3> QED  BY <2>2, <2>3, <2>4, <3>1, <3>2, <3>3 DEF syscall_handler
  <2> QED  BY <2>1, <2>4
<1> QED  BY <1>1, <1>2, AlwaysRecorded, PTL DEF SysSpec

\* A descriptor keeps the data its file had when it was opened, under the conditions of
\* ReadsBack: it starts with what was last written, a write goes to the disk, not to the
\* copy, and an open descriptor is never handed out again.
THEOREM Snapshots == ASSUME Limits, Room PROVE SysSpec => DescriptorsAreSnapshots
<1> DEFINE Kept(fd) ==
             /\ fd_table'[fd].open /\ fd_table[fd].open => fd_table'[fd].data = fd_table[fd].data
             /\ fd_table'[fd].open /\ ~ fd_table[fd].open /\ call'.argument \in DOMAIN written
                  => fd_table'[fd].data = written[call'.argument]
<1>1. Recorded /\ Inside /\ [syscall_handler]_sysVars => [\A fd \in Fds : Kept(fd)]_sysVars
  <2> SUFFICES ASSUME Recorded, Inside, syscall_handler, NEW fd \in Fds PROVE Kept(fd)
    OBVIOUS
  <2>1. fd_table \in [Fds -> Descriptors]
    BY DEF Inside
  <2>2. CASE fd_table' = fd_table
    BY <2>2
  <2>3. ASSUME NEW c, NEW f, fd_table' = [fd_table EXCEPT ![c] = f],
               f.open => fd_table[c].open /\ f.data = fd_table[c].data
        PROVE  Kept(fd)
    <3>1. fd_table'[fd] = IF fd = c THEN f ELSE fd_table[fd]
      BY <2>1, <2>3
    <3> QED  BY <2>3, <3>1
  <2>4. ASSUME NEW path \in Paths, open_file(path) PROVE Kept(fd)
    <3>1. CASE path = NULL \/ FreeFds = {} \/ Found(disk, path) = {} \/ File(path).size = 0
      BY <2>2, <2>4, <3>1 DEF open_file, Fails
    <3>2. CASE path # NULL /\ FreeFds # {} /\ Found(disk, path) # {} /\ File(path).size # 0
      <4>1. PICK g \in Garbage :
              fd_table' = [fd_table EXCEPT ![Min(FreeFds)] =
                             [open |-> TRUE, data |-> read_file(disk, File(path), g), position |-> 0]]
        BY <2>4, <3>2 DEF open_file
      <4> DEFINE c == Min(FreeFds)
                 f == [open |-> TRUE, data |-> read_file(disk, File(path), g), position |-> 0]
      <4>2. c \in Fds /\ ~ fd_table[c].open
        BY <3>2, LowestFree
      <4>3. call'.argument = path
        BY <2>4 DEF open_file, Called
      <4>4. path \in DOMAIN written => f.data = written[path]
        BY ReadWritten
      <4> HIDE DEF c, f
      <4>5. fd_table'[fd] = IF fd = c THEN f ELSE fd_table[fd]
        BY <2>1, <4>1 DEF c, f
      <4>6. CASE fd = c
        BY <4>2, <4>3, <4>4, <4>5, <4>6
      <4>7. CASE fd # c
        BY <4>5, <4>7
      <4> QED  BY <4>6, <4>7
    <3> QED  BY <3>1, <3>2
  <2>5. ASSUME NEW c \in FdArguments, close_file(c) PROVE Kept(fd)
    <3>1. fd_table' = fd_table \/ fd_table' = [fd_table EXCEPT ![c] = CLOSED]
      BY <2>5 DEF close_file
    <3>2. ~ CLOSED.open
      BY DEF CLOSED
    <3> HIDE DEF Kept
    <3> QED  BY <2>2, <2>3, <3>1, <3>2
  <2>6. ASSUME NEW c \in FdArguments, NEW len \in Lengths, read_file_fd(c, len) PROVE Kept(fd)
    <3>1. CASE ~ IsOpen(c) \/ len = 0
      BY <2>2, <2>6, <3>1 DEF read_file_fd, Fails
    <3>2. CASE IsOpen(c) /\ len # 0
      <4> DEFINE f == [fd_table[c] EXCEPT !.position = @ + ToRead(fd_table[c], len)]
      <4>1. fd_table' = [fd_table EXCEPT ![c] = f]
        BY <2>6, <3>2 DEF read_file_fd
      <4>2. fd_table[c] \in Descriptors
        BY <2>1, <3>2 DEF IsOpen
      <4>3. f.open = fd_table[c].open /\ f.data = fd_table[c].data
        BY <4>2 DEF Descriptors
      <4> HIDE DEF f, Kept
      <4> QED  BY <2>3, <4>1, <4>3
    <3> QED  BY <3>1, <3>2
  <2>7. ASSUME NEW c \in FdArguments, NEW position \in Offsets, seek_file(c, position) PROVE Kept(fd)
    <3>1. CASE ~ IsOpen(c) \/ Beyond(fd_table[c], position)
      BY <2>2, <2>7, <3>1 DEF seek_file, Fails
    <3>2. CASE IsOpen(c) /\ ~ Beyond(fd_table[c], position)
      <4> DEFINE f == [fd_table[c] EXCEPT !.position = position]
      <4>1. fd_table' = [fd_table EXCEPT ![c] = f]
        BY <2>7, <3>2 DEF seek_file
      <4>2. fd_table[c] \in Descriptors
        BY <2>1, <3>2 DEF IsOpen
      <4>3. f.open = fd_table[c].open /\ f.data = fd_table[c].data
        BY <4>2 DEF Descriptors
      <4> HIDE DEF f, Kept
      <4> QED  BY <2>3, <4>1, <4>3
    <3> QED  BY <3>1, <3>2
  <2>8. ASSUME NEW path \in Paths,
               \/ syscall_write(path) \/ syscall_read_file(path)
               \/ \E data \in Contents, high \in High : syscall_write_file(path, data, high)
        PROVE  fd_table' = fd_table
    BY <2>8 DEF syscall_write, syscall_read_file, syscall_write_file, Fails
  <2>9. ASSUME NEW c \in FdArguments, tell_file(c) PROVE fd_table' = fd_table
    BY <2>9 DEF tell_file, Fails
  <2>10. ASSUME Unknown PROVE fd_table' = fd_table
    BY <2>10 DEF Unknown, Fails
  <2> HIDE DEF Kept
  <2> QED  BY <2>2, <2>4, <2>5, <2>6, <2>7, <2>8, <2>9, <2>10 DEF syscall_handler
<1> QED  BY <1>1, AlwaysRecorded, AlwaysInside, PTL DEF SysSpec, DescriptorsAreSnapshots

-----------------------------------------------------------------------------
(* The disk is a store of files.                                           *)

\* The part of a content that k clusters hold.
Cut(content, k) ==
  IF Len(content) <= k * ClusterUnits THEN content ELSE SubSeq(content, 1, k * ClusterUnits)

\* Data that n units take, of which k clusters are kept, takes k clusters.
LEMMA CutTurns ==
  ASSUME NEW n \in Nat, NEW k \in Nat, k <= Turns(n),
         NEW m, m = IF n <= k * ClusterUnits THEN n ELSE k * ClusterUnits
  PROVE  Turns(m) = k /\ m \in Nat /\ k * ClusterUnits \in Nat
<1> DEFINE b == ClusterUnits
           t == (n + b - 1) \div b
           z == k * b
<1>1. b \in Nat \ {0} /\ n + b - 1 \in Nat
  BY UnitsType
<1> HIDE DEF b
<1>2. t \in Nat /\ t * b <= n + b - 1 /\ n + b - 1 < t * b + b
  BY <1>1, DivBracket
<1>3. k <= t
  BY DEF t, b, Turns
<1> HIDE DEF t
<1>4. z \in Nat
  BY <1>1, SMT
<1>5. CASE n <= z
  <2>1. k = t
    <3> SUFFICES ASSUME k + 1 <= t PROVE FALSE
      BY <1>2, <1>3
    <3>1. z + b <= t * b /\ t * b \in Nat
      BY <1>1, <1>2, SMT
    <3> QED  BY <1>1, <1>2, <1>4, <1>5, <3>1
  <2> QED  BY <1>4, <1>5, <2>1 DEF t, b, z, Turns
<1>6. CASE ~ (n <= z)
  <2>1. m = z
    BY <1>6 DEF z, b
  <2>2. z + b - 1 \in Nat /\ b - 1 \in 0 .. b - 1 /\ z + b - 1 = k * b + (b - 1)
    BY <1>1, <1>4 DEF z
  <2> DEFINE a == z + b - 1
  <2>3. (a \div b) = k
    <3> DEFINE r == b - 1
    <3>1. a \in Nat /\ r \in 0 .. b - 1 /\ a = k * b + r
      BY <2>2
    <3> HIDE DEF a, r, z
    <3> QED  BY <1>1, <3>1, QuotientUnique
  <2> QED  BY <1>4, <2>1, <2>3 DEF a, b, z, Turns
<1> QED  BY <1>5, <1>6

LEMMA CutType ==
  ASSUME NEW content \in Contents, NEW k \in Nat, k <= Needs(content)
  PROVE  /\ Cut(content, k) \in Seq(Nat) /\ Turns(Len(Cut(content, k))) = k
         /\ k * ClusterUnits \in Nat
         /\ Len(content) <= k * ClusterUnits <=> k = Needs(content)
<1> DEFINE n == Len(content)
           z == k * ClusterUnits
<1>1. content \in Seq(Nat) /\ n \in Nat /\ Needs(content) \in Nat
  BY NeedsType, GeometryAssumption
<1>2. k <= Turns(n)
  BY DEF Needs
<1> HIDE DEF n
<1>3. z \in Nat /\ Turns(IF n <= z THEN n ELSE z) = k
  BY <1>1, <1>2, CutTurns
<1> HIDE DEF z
<1>4. Cut(content, k) = IF n <= z THEN content ELSE SubSeq(content, 1, z)
  BY DEF Cut, n, z
<1>5. CASE n <= z
  BY <1>1, <1>3, <1>4, <1>5 DEF n, z, Needs
<1>6. CASE ~ (n <= z)
  <2>1. SubSeq(content, 1, z) \in Seq(Nat) /\ Len(SubSeq(content, 1, z)) = z
    BY <1>1, <1>3, <1>6 DEF n
  <2>2. k # Needs(content)
    <3> SUFFICES ASSUME k = Turns(n) PROVE FALSE
      BY DEF Needs, n
    <3> DEFINE b == ClusterUnits
               t == (n + b - 1) \div b
    <3>1. b \in Nat \ {0} /\ n + b - 1 \in Nat
      BY <1>1, UnitsType
    <3>2. k = t
      BY DEF Turns
    <3>3. z = t * b
      BY <3>2 DEF z
    <3> HIDE DEF b
    <3>4. t \in Nat /\ n + b - 1 < t * b + b
      BY <3>1, DivBracket
    <3> HIDE DEF t
    <3> QED  BY <1>1, <1>3, <1>6, <3>1, <3>3, <3>4
  <2> QED  BY <1>3, <1>4, <1>6, <2>1, <2>2 DEF n, z
<1> QED  BY <1>5, <1>6

\* A file whose clusters are on the disk reads as what they hold of its content.
LEMMA ReadPart ==
  ASSUME NEW d, DiskTyped(d), FatCapacity <= EntryValues - 8,
         NEW entry \in Records, NEW s \in Seq(Clusters), IsChain(Table(d), entry.first, s), NEW g,
         NEW content \in Contents, Holds(d, entry, s, content),
         \A i \in 1 .. Len(s) : OnDisk(s[i]),
         NEW data, data = read_file(d, entry, g)
  PROVE  /\ data \in Seq(Int) /\ Len(data) = Len(content)
         /\ \A i \in 1 .. Len(content) :
              data[i] = IF i <= Len(s) * ClusterUnits THEN content[i] ELSE UNINIT
<1> DEFINE n == Len(content)
           b == ClusterUnits
           q(i) == (i - 1) \div ClusterUnits
           k(i) == 1 + q(i)
           m(i) == 1 + ((i - 1) % ClusterUnits)
<1>1. content \in Seq(Int) /\ n \in Nat /\ entry.size = n /\ b \in Nat \ {0} /\ Len(s) \in Nat
  BY NeedsType, UnitsType DEF Holds
<1>2. data \in Seq(Int) /\ Len(data) = n
  BY <1>1, ReadType
<1>3. /\ \A i \in 1 .. entry.size : k(i) <= Len(s) => data[i] = ReadCluster(d, s[k(i)])[m(i)]
      /\ \A i \in 1 .. entry.size : k(i) > Len(s) => data[i] = UNINIT
  <2>1. /\ \A i \in 1 .. entry.size :
             1 + ((i - 1) \div ClusterUnits) <= Len(s) =>
               read_file(d, entry, g)[i]
                 = ReadCluster(d, s[1 + ((i - 1) \div ClusterUnits)])[1 + ((i - 1) % ClusterUnits)]
        /\ \A i \in 1 .. entry.size :
             1 + ((i - 1) \div ClusterUnits) > Len(s) => read_file(d, entry, g)[i] = UNINIT
    BY ReadType
  <2> QED  BY <2>1, Zenon
<1>4. ASSUME NEW i \in 1 .. n
      PROVE  /\ k(i) \in 1 .. Turns(n) /\ m(i) \in 1 .. b
             /\ q(i) * b + m(i) = i /\ q(i) \in Nat /\ k(i) = q(i) + 1
  <2>1. /\ 1 + q(i) \in 1 .. Turns(n) /\ m(i) \in 1 .. b
        /\ q(i) * b + m(i) = i /\ q(i) \in Nat
    <3> HIDE DEF n
    <3> QED  BY <1>1, PlaceOf DEF q, m, b
  <2> QED  BY <2>1
<1> HIDE DEF k, m, q, n, b
<1>5. ASSUME NEW i \in 1 .. n
      PROVE  data[i] = IF i <= Len(s) * b THEN content[i] ELSE UNINIT
  <2>1. k(i) <= Len(s) <=> i <= Len(s) * b
    <3> DEFINE x == q(i)
               y == m(i)
               w == Len(s)
    <3>1. x \in Nat /\ y \in 1 .. b /\ x * b + y = i /\ k(i) = x + 1 /\ w \in Nat
      BY <1>1, <1>4
    <3> HIDE DEF x, y, w
    <3>2. CASE x + 1 <= w
      <4>1. (x + 1) * b <= w * b /\ (x + 1) * b = x * b + b /\ x * b \in Nat /\ w * b \in Nat
        BY <1>1, <3>1, <3>2, SMT
      <4> QED  BY <1>1, <3>1, <3>2, <4>1 DEF w
    <3>3. CASE w <= x
      <4>1. w * b <= x * b /\ x * b \in Nat /\ w * b \in Nat
        BY <1>1, <3>1, <3>3, SMT
      <4> QED  BY <1>1, <3>1, <3>3, <4>1 DEF w
    <3> QED  BY <3>1, <3>2, <3>3
  <2>2. CASE k(i) <= Len(s)
    <3>1. k(i) \in 1 .. Len(s)
      BY <1>1, <1>4, <2>2
    <3>2. ReadCluster(d, s[k(i)]) = Piece(content, k(i))
      BY <3>1 DEF Holds, Filled
    <3>3. Piece(content, k(i))[m(i)]
            = IF (k(i) - 1) * b + m(i) <= Len(content)
              THEN content[(k(i) - 1) * b + m(i)] ELSE 0
      BY <1>4, PieceIs DEF Needs, n, b
    <3>4. (k(i) - 1) = q(i)
      BY <1>4
    <3>5. Piece(content, k(i))[m(i)] = content[i]
      <4>1. (k(i) - 1) * b + m(i) = i
        BY <1>4, <3>4
      <4>2. i <= Len(content)
        BY <1>1 DEF n
      <4> QED  BY <3>3, <4>1, <4>2
    <3>6. data[i] = ReadCluster(d, s[k(i)])[m(i)]
      BY <1>1, <1>3, <2>2
    <3> QED  BY <2>1, <2>2, <3>2, <3>5, <3>6
  <2>3. CASE ~ (k(i) <= Len(s))
    <3>1. k(i) > Len(s)
      BY <1>1, <1>4, <2>3
    <3> QED  BY <1>1, <1>3, <2>1, <2>3, <3>1
  <2> QED  BY <2>2, <2>3
<1> QED  BY <1>2, <1>5 DEF n, b

\* What the disk stores is all on it, or there is room for every name on what it has.
Backed == Stored = AllClusters \/ Ample

\* The chains and contents of a disk whose files are whole when there is room for them.
Filed(d, E, F) == Sound(d, E, F) /\ (Ample => Whole(Root(d), E, F))

\* A file's entry, chain and content, and that its clusters are on the disk.
LEMMA FileIs ==
  ASSUME NEW d, NEW E, NEW F, Filed(d, E, F), Limits, Backed,
         NEW q \in Positions, NEW filename \in Names, Root(d)[q].name = filename
  PROVE  /\ Found(d, filename) = {q} /\ Entry(d, q) = Root(d)[q] /\ Root(d)[q] \in Records
         /\ E[q] \in Seq(Clusters) /\ IsChain(Table(d), Root(d)[q].first, E[q])
         /\ F[filename] \in Contents /\ Holds(d, Root(d)[q], E[q], F[filename])
         /\ \A i \in 1 .. Len(E[q]) : OnDisk(E[q][i])
<1> DEFINE e == Root(d)
<1>1. /\ DiskTyped(d) /\ Directory(e) /\ Plain /\ Chains(Table(d), Firsts(e), E)
      /\ F \in [Named(e) -> Contents] /\ FileAt(d, e[q], E[q], F)
  BY DEF Filed, Sound, Limits
<1>2. Found(d, filename) = {q}
  BY <1>1, FoundIs, FoundOnce
<1>3. Entry(d, q) = e[q] /\ e[q] \in Records
  BY <1>1, EntryType
<1>4. E[q] \in Seq(Clusters) /\ IsChain(Table(d), Firsts(e)[q], E[q])
  BY <1>1 DEF Chains
<1>5. Firsts(e)[q] = e[q].first
  BY <1>1 DEF Firsts, Plain
<1>6. F[filename] \in Contents /\ Holds(d, e[q], E[q], F[filename])
  <2>1. filename \in DOMAIN F /\ Holds(d, e[q], E[q], F[filename])
    BY <1>1 DEF FileAt
  <2> QED  BY <1>1, <2>1
<1>7. \A i \in 1 .. Len(E[q]) : OnDisk(E[q][i])
  <2>1. CASE Ample
    BY <2>1 DEF Filed, Whole
  <2>2. CASE Stored = AllClusters
    <3>1. \A i \in 1 .. Len(E[q]) : E[q][i] \in Clusters
      BY <1>4
    <3>2. \A c \in Clusters : c \in Stored
      BY <2>2 DEF Clusters
    <3> QED  BY <3>1, <3>2 DEF Stored
  <2> QED  BY <2>1, <2>2 DEF Backed
<1> QED  BY <1>2, <1>3, <1>4, <1>5, <1>6, <1>7

\* What can be read of a file is what its clusters hold of its content.
LEMMA ReadableIs ==
  ASSUME NEW d, NEW E, NEW F, Filed(d, E, F), Limits, Backed,
         NEW q \in Positions, NEW filename \in Names, Root(d)[q].name = filename
  PROVE  /\ F[filename] \in Contents /\ Len(E[q]) \in Nat /\ Len(E[q]) <= Needs(F[filename])
         /\ Readable(d, filename) = Cut(F[filename], Len(E[q]))
<1> DEFINE entry == Root(d)[q]
           s == E[q]
           content == F[filename]
           data == read_file(d, entry, 0)
           n == Len(content)
           z == Len(s) * ClusterUnits
           lost == {i \in 1 .. Len(data) : data[i] = UNINIT}
<1>1. /\ Found(d, filename) = {q} /\ Entry(d, q) = entry /\ entry \in Records
      /\ s \in Seq(Clusters) /\ IsChain(Table(d), entry.first, s)
      /\ content \in Contents /\ Holds(d, entry, s, content)
      /\ \A i \in 1 .. Len(s) : OnDisk(s[i])
  BY FileIs
<1>2. Readable(d, filename) = IF lost = {} THEN data ELSE SubSeq(data, 1, Min(lost) - 1)
  <2>1. Min({q}) = q
    BY MinOfOne, PositionsType
  <2> QED  BY <1>1, <2>1 DEF Readable
<1>3. DiskTyped(d) /\ FatCapacity <= EntryValues - 8
  BY DEF Filed, Sound, Limits
<1> HIDE DEF entry, s, content, data
<1>4. /\ data \in Seq(Int) /\ Len(data) = Len(content)
      /\ \A i \in 1 .. Len(content) :
           data[i] = IF i <= Len(s) * ClusterUnits THEN content[i] ELSE UNINIT
  <2>1. data = read_file(d, entry, 0)
    BY DEF data
  <2> QED  BY <1>1, <1>3, <2>1, ReadPart
<1>5. Len(s) \in Nat /\ Len(s) <= Needs(content) /\ content \in Seq(Nat) /\ n \in Nat
  BY <1>1, NeedsType, GeometryAssumption DEF Holds
<1>6. z \in Nat
  BY <1>1, <1>5, CutType
<1>7. Cut(content, Len(s)) = IF n <= z THEN content ELSE SubSeq(content, 1, z)
  BY DEF Cut
<1>8. \A i \in 1 .. n : content[i] \in Nat /\ content[i] # UNINIT
  BY <1>5 DEF UNINIT
<1>9. lost = {i \in 1 .. n : z < i}
  <2>1. \A i \in 1 .. n : data[i] = IF i <= z THEN content[i] ELSE UNINIT
    BY <1>4
  <2>2. Len(data) = n
    BY <1>4
  <2> HIDE DEF n, z
  <2> QED  BY <1>5, <1>6, <1>8, <2>1, <2>2
<1>10. \A i \in 1 .. n : i <= z => data[i] = content[i]
  BY <1>4
<1>11. data \in Seq(Int) /\ Len(data) = n /\ Len(content) = n
  BY <1>4
<1> HIDE DEF n, z, lost
<1>12. CASE n <= z
  <2>1. lost = {}
    BY <1>5, <1>6, <1>9, <1>12
  <2>2. data = content
    BY <1>5, <1>6, <1>10, <1>11, <1>12
  <2> QED  BY <1>1, <1>2, <1>5, <1>7, <1>12, <2>1, <2>2 DEF content, s
<1>13. CASE ~ (n <= z)
  <2>1. z + 1 \in lost /\ \A i \in lost : z + 1 <= i
    BY <1>5, <1>6, <1>9, <1>13
  <2>2. Min(lost) = z + 1
    <3>1. lost \in SUBSET Nat
      BY <1>9
    <3>2. Min(lost) \in lost /\ \A i \in lost : Min(lost) <= i
      BY <2>1, <3>1, MinOf
    <3> DEFINE m == Min(lost)
    <3>3. m \in Nat /\ m <= z + 1 /\ z + 1 <= m
      BY <2>1, <3>1, <3>2
    <3> HIDE DEF m
    <3>4. m = z + 1
      BY <1>6, <3>3
    <3> QED  BY <3>4 DEF m
  <2>3. SubSeq(data, 1, z) = SubSeq(content, 1, z)
    <3>1. \A i \in 1 .. z : i \in 1 .. n /\ data[i] = content[i]
      BY <1>5, <1>6, <1>10, <1>13
    <3>2. /\ SubSeq(data, 1, z) = [i \in 1 .. z |-> data[i]]
          /\ SubSeq(content, 1, z) = [i \in 1 .. z |-> content[i]]
      BY <1>5, <1>6, <1>11, <1>13
    <3> QED  BY <3>1, <3>2
  <2>4. Min(lost) - 1 = z /\ lost # {}
    BY <1>6, <2>1, <2>2
  <2> QED  BY <1>1, <1>2, <1>5, <1>7, <1>13, <2>3, <2>4 DEF content, s
<1> QED  BY <1>12, <1>13

\* The store has the files of the directory, and a file takes there what it has of
\* clusters on the disk.
LEMMA FilesAre ==
  ASSUME NEW d, NEW E, NEW F, Filed(d, E, F), Limits, Backed
  PROVE  /\ DOMAIN Files(d) = Named(Root(d))
         /\ \A q \in Positions : Root(d)[q].name \in Names =>
              /\ Files(d)[Root(d)[q].name] = Cut(F[Root(d)[q].name], Len(E[q]))
              /\ Turns(Len(Files(d)[Root(d)[q].name])) = Len(E[q])
<1> DEFINE here == {m \in Names : Found(d, m) # {}}
<1>1. DiskTyped(d) /\ Directory(Root(d)) /\ Plain
  BY DEF Filed, Sound, Limits
<1>2. here = Named(Root(d))
  BY <1>1, FoundIs DEF Named
<1>3. Files(d) = [n \in here |-> Readable(d, n)]
  BY DEF Files
<1> HIDE DEF here
<1>4. ASSUME NEW q \in Positions, NEW n \in Names, Root(d)[q].name = n
      PROVE  Files(d)[n] = Cut(F[n], Len(E[q])) /\ Turns(Len(Files(d)[n])) = Len(E[q])
  <2>1. n \in here
    BY <1>2, <1>4 DEF Named
  <2>2. /\ F[n] \in Contents /\ Len(E[q]) \in Nat /\ Len(E[q]) <= Needs(F[n])
        /\ Readable(d, n) = Cut(F[n], Len(E[q]))
    BY <1>4, ReadableIs
  <2>3. Turns(Len(Cut(F[n], Len(E[q])))) = Len(E[q])
    BY <2>2, CutType
  <2> QED  BY <1>3, <2>1, <2>2, <2>3
<1> QED  BY <1>2, <1>3, <1>4

\* The clusters of the files in names, L of them each, numbered file by file.
Pieces(L, names) == UNION {{n} \X (1 .. L[n]) : n \in names}

\* What a file takes comes on top of what the others take.
LEMMA Share ==
  ASSUME NEW L, NEW names, NEW filename \in names, L[filename] \in Nat,
         NEW all, all = Pieces(L, names), IsFiniteSet(all),
         NEW others, others = Pieces(L, names \ {filename})
  PROVE  /\ IsFiniteSet(others) /\ Cardinality(others) \in Nat
         /\ Cardinality(all) = Cardinality(others) + L[filename]
<1> DEFINE k == L[filename]
           own == {filename} \X (1 .. k)
<1>1. all = others \cup own /\ others \cap own = {}
  BY DEF Pieces
<1>2. IsFiniteSet(1 .. k) /\ Cardinality(1 .. k) = k
  <2>1. IsFiniteSet(1 .. k) /\ Cardinality(1 .. k) = IF 1 > k THEN 0 ELSE k - 1 + 1
    BY FS_Interval, 1 \in Int, k \in Int
  <2> QED  BY <2>1
<1>3. IsFiniteSet({filename}) /\ Cardinality({filename}) = 1
  BY FS_Singleton
<1>4. IsFiniteSet(own) /\ Cardinality(own) = k
  <2>1. /\ IsFiniteSet({filename} \X (1 .. k))
        /\ Cardinality({filename} \X (1 .. k)) = Cardinality({filename}) * Cardinality(1 .. k)
    BY ONLY <1>2, <1>3, FS_Product
  <2> QED  BY <1>2, <1>3, <2>1
<1> HIDE DEF own
<1>5. IsFiniteSet(others)
  <2>1. IsFiniteSet(all) /\ others \in SUBSET all
    BY <1>1
  <2> QED  BY ONLY <2>1, FS_Subset
<1>6. Cardinality(all) = Cardinality(others) + Cardinality(own) - Cardinality({})
  <2>1. Cardinality(others \cup own)
          = Cardinality(others) + Cardinality(own) - Cardinality(others \cap own)
    BY ONLY <1>4, <1>5, FS_Union
  <2> QED  BY <1>1, <2>1
<1>7. Cardinality({}) = 0
  BY FS_EmptySet
<1>8. Cardinality(others) \in Nat
  BY <1>5, FS_CardinalityType
<1> QED  BY <1>4, <1>5, <1>6, <1>7, <1>8

LEMMA ClusterCount == IsFiniteSet(AllClusters) /\ Cardinality(AllClusters) \in Nat
<1>1. FatCapacity - 1 \in Int
  BY Sizes, SMT DEF FatCapacity
<1>2. IsFiniteSet(2 .. FatCapacity - 1)
  <2> DEFINE b == FatCapacity - 1
  <2> HIDE DEF b
  <2>1. IsFiniteSet(2 .. b)
    BY <1>1, FS_Interval, 2 \in Int DEF b
  <2> QED  BY <2>1 DEF b
<1> QED  BY <1>2, FS_CardinalityType DEF AllClusters

\* The files take as many clusters as their chains have: no more than there are, and
\* all when none is free.
LEMMA Census ==
  ASSUME NEW d, NEW E, NEW F, Sound(d, E, F), Limits, NEW L,
         \A q \in Positions : Root(d)[q].name \in Names => L[Root(d)[q].name] = Len(E[q])
  PROVE  /\ IsFiniteSet(Pieces(L, Named(Root(d))))
         /\ Cardinality(Pieces(L, Named(Root(d)))) \in Nat
         /\ Cardinality(Pieces(L, Named(Root(d)))) <= Cardinality(AllClusters)
         /\ AllTaken(Table(d)) /\ Clusters = AllClusters
              => Cardinality(Pieces(L, Named(Root(d)))) = Cardinality(AllClusters)
<1> DEFINE e == Root(d)
           At(n) == CHOOSE q \in Positions : e[q].name = n
           P == Pieces(L, Named(e))
           J == [x \in P |-> E[At(x[1])][x[2]]]
<1>1. /\ Directory(e) /\ Plain /\ Chains(Table(d), Firsts(e), E)
      /\ \A q \in Positions : e[q].name \notin Names => E[q] = <<>>
  BY DEF Sound, Limits, FileAt
<1>2. /\ E \in [Positions -> Seq(Clusters)]
      /\ \A p, q \in Positions : \A i \in 1 .. Len(E[p]), j \in 1 .. Len(E[q]) :
           E[p][i] = E[q][j] => p = q /\ i = j
      /\ \A c \in Clusters : Table(d)[c] # 0 => \E p \in Positions : \E i \in 1 .. Len(E[p]) : E[p][i] = c
  BY <1>1 DEF Chains
<1>3. \A q \in Positions : e[q].name \in Names => L[e[q].name] = Len(E[q])
  OBVIOUS
<1> HIDE DEF e
<1>4. \A n \in Named(e) : n \in Names /\ At(n) \in Positions /\ e[At(n)].name = n
  BY DEF Named
<1>5. \A q \in Positions : e[q].name \in Names => e[q].name \in Named(e) /\ At(e[q].name) = q
  <2> SUFFICES ASSUME NEW q \in Positions, e[q].name \in Names
               PROVE  e[q].name \in Named(e) /\ At(e[q].name) = q
    OBVIOUS
  <2> DEFINE n == e[q].name
  <2>1. n \in Named(e)
    BY DEF Named
  <2>2. n \notin {END, DELETED}
    BY <1>1 DEF Plain
  <2>3. At(n) \in Positions /\ e[At(n)].name = n
    BY <1>4, <2>1
  <2> HIDE DEF At
  <2>4. At(n) = q
    BY <1>1, <2>2, <2>3 DEF Directory
  <2> QED  BY <2>1, <2>4
<1> HIDE DEF At
<1>6. \A x \in P : /\ x[1] \in Named(e) /\ x[2] \in 1 .. Len(E[At(x[1])])
                   /\ x = <<x[1], x[2]>>
  <2> SUFFICES ASSUME NEW n \in Named(e), NEW i \in 1 .. L[n]
               PROVE  i \in 1 .. Len(E[At(n)])
    BY DEF Pieces
  <2>1. L[n] = Len(E[At(n)])
    BY <1>3, <1>4
  <2> QED  BY <2>1
<1>7. \A q \in Positions : \A i \in 1 .. Len(E[q]) :
        e[q].name \in Names /\ <<e[q].name, i>> \in P /\ At(e[q].name) = q
  <2> SUFFICES ASSUME NEW q \in Positions, NEW i \in 1 .. Len(E[q])
               PROVE  e[q].name \in Names /\ <<e[q].name, i>> \in P /\ At(e[q].name) = q
    OBVIOUS
  <2>1. e[q].name \in Names
    <3>1. E[q] # <<>>
      OBVIOUS
    <3> QED  BY <1>1, <3>1 DEF e
  <2>2. e[q].name \in Named(e) /\ At(e[q].name) = q /\ i \in 1 .. L[e[q].name]
    BY <1>3, <1>5, <2>1
  <2> QED  BY <2>1, <2>2 DEF Pieces
<1> HIDE DEF P
<1>8. \A x \in P : J[x] \in AllClusters
  <2> SUFFICES ASSUME NEW x \in P PROVE E[At(x[1])][x[2]] \in AllClusters
    OBVIOUS
  <2>1. At(x[1]) \in Positions /\ x[2] \in 1 .. Len(E[At(x[1])])
    BY <1>4, <1>6
  <2> DEFINE u == E[At(x[1])]
  <2>2. u \in Seq(Clusters) /\ x[2] \in 1 .. Len(u)
    BY <1>2, <2>1
  <2> HIDE DEF u
  <2>3. u[x[2]] \in Clusters
    BY <2>2
  <2> QED  BY <2>3 DEF u, Clusters
<1>9. \A x, y \in P : J[x] = J[y] => x = y
  <2> SUFFICES ASSUME NEW x \in P, NEW y \in P, E[At(x[1])][x[2]] = E[At(y[1])][y[2]] PROVE x = y
    OBVIOUS
  <2>1. /\ x[1] \in Named(e) /\ At(x[1]) \in Positions /\ x[2] \in 1 .. Len(E[At(x[1])])
        /\ y[1] \in Named(e) /\ At(y[1]) \in Positions /\ y[2] \in 1 .. Len(E[At(y[1])])
    BY <1>4, <1>6
  <2>2. At(x[1]) = At(y[1]) /\ x[2] = y[2]
    BY <1>2, <2>1
  <2>3. x[1] = y[1]
    BY <1>4, <2>1, <2>2
  <2> QED  BY <1>6, <2>2, <2>3
<1>10. J \in Injection(P, AllClusters)
  <2>1. J \in [P -> AllClusters]
    BY <1>8
  <2> HIDE DEF J
  <2> QED  BY <1>9, <2>1 DEF Injection, IsInjective
<1>11. AllTaken(Table(d)) /\ Clusters = AllClusters => J \in Surjection(P, AllClusters)
  <2> SUFFICES ASSUME AllTaken(Table(d)), Clusters = AllClusters
               PROVE  J \in Surjection(P, AllClusters)
    OBVIOUS
  <2>1. ASSUME NEW c \in AllClusters PROVE \E x \in P : J[x] = c
    <3>1. PICK q \in Positions : \E i \in 1 .. Len(E[q]) : E[q][i] = c
      BY <1>2 DEF AllTaken
    <3>2. PICK i \in 1 .. Len(E[q]) : E[q][i] = c
      BY <3>1
    <3> DEFINE x == <<e[q].name, i>>
    <3>3. x \in P /\ At(x[1]) = q /\ x[2] = i
      BY <1>7
    <3> HIDE DEF x
    <3>4. J[x] = c
      BY <3>2, <3>3
    <3> QED  BY <3>3, <3>4
  <2>2. J \in [P -> AllClusters]
    BY <1>8
  <2> HIDE DEF J
  <2> QED  BY <2>1, <2>2 DEF Surjection
<1> HIDE DEF J
<1>12. IsFiniteSet(AllClusters) /\ Cardinality(AllClusters) \in Nat
  BY ClusterCount
<1>13. /\ IsFiniteSet(P) /\ Cardinality(P) <= Cardinality(AllClusters)
       /\ Cardinality(P) = Cardinality(AllClusters) <=> J \in Surjection(P, AllClusters)
  BY ONLY <1>10, <1>12, FS_Injection
<1>14. Cardinality(P) \in Nat
  BY <1>13, FS_CardinalityType
<1> QED  BY <1>11, <1>13, <1>14 DEF P, e

\* The directory has the label beside the names.
LEMMA NamesFit ==
  ASSUME NEW d, NEW E, NEW F, Sound(d, E, F), Limits
  PROVE  /\ IsFiniteSet(Named(Root(d))) /\ Cardinality(Named(Root(d))) \in Nat
         /\ Cardinality(Positions) \in Nat
         /\ Cardinality(Named(Root(d))) < Cardinality(Positions)
<1> DEFINE e == Root(d)
           N == Named(e)
           T == N \cup {LABEL}
           At == [n \in T |-> CHOOSE q \in Positions : e[q].name = n]
<1>1. Directory(e) /\ Plain
  BY DEF Sound, Limits
<1> HIDE DEF e
<1>2. \A n \in T : \E q \in Positions : e[q].name = n
  BY <1>1 DEF Named, Directory
<1>3. \A n \in T : At[n] \in Positions /\ e[At[n]].name = n
  <2> HIDE DEF T
  <2> QED  BY <1>2
<1>4. IsFiniteSet(N) /\ LABEL \notin N
  <2>1. IsFiniteSet(Names) /\ N \in SUBSET Names
    BY GeometryAssumption DEF Named
  <2>2. IsFiniteSet(N)
    BY ONLY <2>1, FS_Subset
  <2> QED  BY <1>1, <2>1, <2>2 DEF Plain
<1> HIDE DEF N
<1>5. IsFiniteSet(T) /\ Cardinality(T) = Cardinality(N) + 1
  <2>1. /\ IsFiniteSet(N \cup {LABEL})
        /\ Cardinality(N \cup {LABEL}) = IF LABEL \in N THEN Cardinality(N) ELSE Cardinality(N) + 1
    BY ONLY <1>4, FS_AddElement
  <2> QED  BY <1>4, <2>1
<1>6. IsFiniteSet(Positions)
  <2> DEFINE n == RootSectors * EntriesPerSector
  <2>1. n \in Nat
    BY Sizes, SMT
  <2> HIDE DEF n
  <2>2. IsFiniteSet(0 .. n - 1)
    BY <2>1, FS_Interval, 0 \in Int, n - 1 \in Int
  <2> QED  BY <2>2 DEF Positions, n
<1>7. At \in Injection(T, Positions)
  <2>1. At \in [T -> Positions] /\ \A n, m \in T : At[n] = At[m] => n = m
    <3>1. At = [n \in T |-> At[n]]
      OBVIOUS
    <3> HIDE DEF At, T
    <3> QED  BY <1>3, <3>1
  <2> HIDE DEF At, T
  <2> QED  BY <2>1 DEF Injection, IsInjective
<1> HIDE DEF At, T
<1>8. Cardinality(T) <= Cardinality(Positions)
  BY <1>6, <1>7, FS_Injection
<1>9. Cardinality(N) \in Nat /\ Cardinality(Positions) \in Nat
  BY <1>4, <1>6, FS_CardinalityType
<1> QED  BY <1>4, <1>5, <1>8, <1>9 DEF N, e

\* The store with what fits the room of a content.
Updated(store, filename, content, room) ==
  [n \in DOMAIN store \cup {filename} |->
     IF n = filename THEN IF Len(content) <= room THEN content ELSE SubSeq(content, 1, room)
     ELSE store[n]]

\* A write leaves the files whole when there is room for them.
LEMMA FiledKept ==
  ASSUME NEW d, NEW E, NEW F, Filed(d, E, F), Limits,
         NEW r, NEW p \in Positions, NEW s, NEW filename \in Names, NEW content \in Contents,
         Rewritten(Root(d), r, E, F, p, s, filename, content)
  PROVE  Filed(r, [E EXCEPT ![p] = s], Put(F, filename, content))
<1>1. Sound(d, E, F) /\ Sound(r, [E EXCEPT ![p] = s], Put(F, filename, content))
  BY DEF Filed, Rewritten
<1>2. ASSUME Ample PROVE Whole(Root(r), [E EXCEPT ![p] = s], Put(F, filename, content))
  BY <1>1, <1>2, WholeKept DEF Filed
<1> QED  BY <1>1, <1>2 DEF Filed

\* A write of the disk is a write of the store: what fits beside the other files is
\* kept.
LEMMA StoreWrite ==
  ASSUME NEW d, NEW E, NEW F, Filed(d, E, F), Limits, Backed,
         NEW r, NEW p \in Positions, NEW s, NEW filename \in Names, NEW content \in Contents,
         Rewritten(Root(d), r, E, F, p, s, filename, content),
         NEW L, \A n \in Names : L[n] = Turns(Len(Files(d)[n])),
         NEW room, room = (Cardinality(AllClusters)
                             - Cardinality(Pieces(L, DOMAIN Files(d) \ {filename}))) * ClusterUnits
  PROVE  /\ filename \in DOMAIN Files(d) \/ Cardinality(DOMAIN Files(d)) < Cardinality(Positions) - 1
         /\ Files(r) = Updated(Files(d), filename, content, room)
<1> DEFINE e == Root(d)
           n == Root(r)
           D == [E EXCEPT ![p] = s]
           G == Put(F, filename, content)
           K == [x \in Names |-> Turns(Len(Files(r)[x]))]
           others == Named(e) \ {filename}
           free == Cardinality(AllClusters) - Cardinality(Pieces(L, others))
<1>1. /\ Sound(r, D, G) /\ n[p].name = filename /\ \A q \in Positions \ {p} : n[q] = e[q]
      /\ (Len(s) < Needs(content) => AllTaken(Table(r)))
  BY DEF Rewritten
<1>2. Sound(d, E, F) /\ E \in [Positions -> Seq(Clusters)]
  BY DEF Filed, Sound, Chains
<1>3. Filed(r, D, G)
  BY FiledKept
<1>4. D[p] = s /\ \A q \in Positions \ {p} : D[q] = E[q]
  BY <1>2
<1>5. G[filename] = content /\ \A x \in DOMAIN F : x # filename => G[x] = F[x]
  BY DEF Put
<1>6. DOMAIN F = Named(e) /\ Named(n) = Named(e) \cup {filename}
  <2>1. F \in [Named(e) -> Contents] /\ G \in [Named(n) -> Contents]
    BY <1>1, <1>2 DEF Sound
  <2>2. DOMAIN G = DOMAIN F \cup {filename}
    BY DEF Put
  <2> HIDE DEF e, n, G
  <2> QED  BY <2>1, <2>2
<1>7. Directory(n) /\ Plain
  BY <1>1 DEF Sound, Limits
<1>8. /\ DOMAIN Files(d) = Named(e)
      /\ \A q \in Positions : e[q].name \in Names =>
           /\ Files(d)[e[q].name] = Cut(F[e[q].name], Len(E[q]))
           /\ Turns(Len(Files(d)[e[q].name])) = Len(E[q])
  BY FilesAre
<1> HIDE DEF D, G
<1>9. /\ DOMAIN Files(r) = Named(n)
      /\ \A q \in Positions : n[q].name \in Names =>
           /\ Files(r)[n[q].name] = Cut(G[n[q].name], Len(D[q]))
           /\ Turns(Len(Files(r)[n[q].name])) = Len(D[q])
  BY <1>3, FilesAre
<1> HIDE DEF e, n
<1>10. Files(r)[filename] = Cut(content, Len(s)) /\ Turns(Len(Files(r)[filename])) = Len(s)
  BY <1>1, <1>4, <1>5, <1>9
<1>11. ASSUME NEW x \in others PROVE Files(r)[x] = Files(d)[x]
  <2>1. x \in Named(n) /\ x \in Names /\ x # filename /\ x \in DOMAIN F
    BY <1>6 DEF Named
  <2>2. PICK q \in Positions : n[q].name = x
    BY <2>1 DEF Named
  <2>3. q # p /\ n[q] = e[q] /\ D[q] = E[q]
    BY <1>1, <1>4, <2>1, <2>2
  <2>4. Files(r)[x] = Cut(G[x], Len(E[q])) /\ Files(d)[x] = Cut(F[x], Len(E[q]))
    BY <1>8, <1>9, <2>1, <2>2, <2>3
  <2> QED  BY <1>5, <2>1, <2>4
<1>12. Pieces(L, others) = Pieces(K, Named(n) \ {filename})
  <2>1. others = Named(n) \ {filename} /\ others \subseteq Names
    BY <1>6 DEF Named
  <2>2. \A x \in others : L[x] = K[x]
    BY <1>11, <2>1
  <2> HIDE DEF others, K
  <2> QED  BY <2>1, <2>2 DEF Pieces
<1>13. K[filename] = Len(s) /\ \A q \in Positions : n[q].name \in Names => K[n[q].name] = Len(D[q])
  BY <1>9, <1>10
<1>14. s \in Seq(Clusters) /\ Len(s) \in Nat /\ Len(s) <= Needs(content) /\ Needs(content) \in Nat
  <2>1. D[p] \in Seq(Clusters)
    BY <1>1 DEF Sound, Chains
  <2>2. Len(D[p]) <= Needs(G[filename])
    BY <1>1 DEF Sound, FileAt, Holds, n
  <2> QED  BY <1>4, <1>5, <2>1, <2>2, NeedsType
<1> HIDE DEF K, others
<1>15. /\ IsFiniteSet(Pieces(K, Named(n)))
       /\ Cardinality(Pieces(K, Named(n))) \in Nat
       /\ Cardinality(Pieces(K, Named(n))) <= Cardinality(AllClusters)
       /\ AllTaken(Table(r)) /\ Clusters = AllClusters
            => Cardinality(Pieces(K, Named(n))) = Cardinality(AllClusters)
  BY <1>1, <1>13, Census DEF n
<1>16. /\ Cardinality(Pieces(L, others)) \in Nat
       /\ Cardinality(Pieces(K, Named(n))) = Cardinality(Pieces(L, others)) + Len(s)
  <2>1. filename \in Named(n) /\ K[filename] \in Nat
    BY <1>6, <1>13, <1>14
  <2> DEFINE all == Pieces(K, Named(n))
             rest == Pieces(K, Named(n) \ {filename})
  <2>2. IsFiniteSet(all)
    BY <1>15
  <2>3. all = Pieces(K, Named(n)) /\ rest = Pieces(K, Named(n) \ {filename})
    OBVIOUS
  <2> DEFINE N == Named(n)
  <2>5. /\ filename \in N /\ K[filename] \in Nat /\ IsFiniteSet(all)
        /\ all = Pieces(K, N) /\ rest = Pieces(K, N \ {filename})
    BY <2>1, <2>2
  <2> HIDE DEF all, rest, N
  <2>4. Cardinality(rest) \in Nat /\ Cardinality(all) = Cardinality(rest) + K[filename]
    BY ONLY <2>5, Share
  <2> QED  BY <1>12, <1>13, <2>3, <2>4
<1>17. Cardinality(AllClusters) \in Nat
  BY ClusterCount
<1>18. free \in Nat /\ Len(s) <= free
  BY <1>15, <1>16, <1>17
<1>19. Len(s) < Needs(content) => Len(s) = free
  <2> SUFFICES ASSUME Len(s) < Needs(content) PROVE Len(s) = free
    OBVIOUS
  <2>1. ~ Ample
    <3> SUFFICES ASSUME Ample PROVE FALSE
      OBVIOUS
    <3>1. Len(D[p]) = Needs(G[filename])
      BY <1>1, <1>3 DEF Filed, Whole, n
    <3> QED  BY <1>4, <1>5, <1>14, <3>1
  <2>2. Clusters = AllClusters
    BY <2>1 DEF Backed, Stored, Clusters
  <2> QED  BY <1>1, <1>15, <1>16, <1>17, <2>2
<1>20. room = free * ClusterUnits
  BY <1>8 DEF others, e
<1> HIDE DEF free
<1>21. Cut(content, Len(s)) = IF Len(content) <= room THEN content ELSE SubSeq(content, 1, room)
  <2>1. CASE Len(s) = free
    BY <1>20, <2>1 DEF Cut
  <2>2. CASE Len(s) = Needs(content)
    <3>1. Len(s) * ClusterUnits \in Nat /\ Len(content) <= Len(s) * ClusterUnits
      BY <1>14, <2>2, CutType
    <3>2. Len(s) * ClusterUnits <= free * ClusterUnits
      BY <1>14, <1>18, UnitsType, SMT
    <3>3. Len(content) <= room
      <4>1. free * ClusterUnits \in Nat /\ Len(content) \in Nat
        BY <1>18, UnitsType, NeedsType, SMT
      <4> QED  BY <1>20, <3>1, <3>2, <4>1
    <3> QED  BY <3>1, <3>3 DEF Cut
  <2>3. Len(s) = free \/ Len(s) = Needs(content)
    BY <1>14, <1>18, <1>19
  <2> QED  BY <2>1, <2>2, <2>3
<1>22. Files(r) = Updated(Files(d), filename, content, room)
  <2>1. Files(r) = [x \in Named(n) |-> Files(r)[x]]
    BY <1>9 DEF Files
  <2>2. \A x \in Named(n) : Files(r)[x] = IF x = filename THEN Cut(content, Len(s)) ELSE Files(d)[x]
    BY <1>6, <1>10, <1>11 DEF others
  <2> QED  BY <1>6, <1>8, <1>21, <2>1, <2>2 DEF Updated
<1>23. filename \in DOMAIN Files(d) \/ Cardinality(DOMAIN Files(d)) < Cardinality(Positions) - 1
  <2> SUFFICES ASSUME filename \notin Named(e)
               PROVE  Cardinality(Named(e)) < Cardinality(Positions) - 1
    BY <1>8
  <2>1. /\ Cardinality(Named(n)) \in Nat /\ Cardinality(Positions) \in Nat
        /\ Cardinality(Named(n)) < Cardinality(Positions)
    BY <1>1, NamesFit DEF n
  <2>2. IsFiniteSet(Named(e)) /\ Cardinality(Named(e)) \in Nat
    BY <1>2, NamesFit DEF e
  <2> DEFINE N == Named(e)
  <2> HIDE DEF N
  <2>3. Cardinality(N \cup {filename}) = IF filename \in N THEN Cardinality(N) ELSE Cardinality(N) + 1
    BY <2>2, FS_AddElement DEF N
  <2> QED  BY <1>6, <2>1, <2>2, <2>3 DEF N
<1> QED  BY <1>22, <1>23

LEMMA StoreCardinality ==
  ASSUME NEW S
  PROVE  Store!Cardinality(S) = Cardinality(S)
BY DEF Store!Cardinality, Cardinality

\* The invariant of the refinement.
FInv == \E E, F : Filed(disk, E, F)

LEMMA StoreStep ==
  ASSUME FInv, Limits, Backed, NEW filename \in Names, NEW content \in Contents,
         write_file(filename, content)
  PROVE  FInv' /\ (Files(disk') \in Store!Outcomes(Files(disk)) \/ Files(disk') = Files(disk))
<1>1. PICK E, F : Filed(disk, E, F)
  BY DEF FInv
<1>2. Sound(disk, E, F)
  BY <1>1 DEF Filed
<1>3. CASE disk' = disk
  BY <1>1, <1>3 DEF FInv
<1>4. CASE \E p \in Positions : \E s : Rewritten(Root(disk), disk', E, F, p, s, filename, content)
  <2>1. PICK p \in Positions : \E s : Rewritten(Root(disk), disk', E, F, p, s, filename, content)
    BY <1>4
  <2>2. PICK s : Rewritten(Root(disk), disk', E, F, p, s, filename, content)
    BY <2>1
  <2> DEFINE L == [n \in Names |-> Turns(Len(Files(disk)[n]))]
             others == DOMAIN Files(disk) \ {filename}
             room == (Cardinality(AllClusters) - Cardinality(Pieces(L, others))) * ClusterUnits
  <2>3. /\ \/ filename \in DOMAIN Files(disk)
           \/ Cardinality(DOMAIN Files(disk)) < Cardinality(Positions) - 1
        /\ Files(disk') = Updated(Files(disk), filename, content, room)
    <3>1. /\ \A n \in Names : L[n] = Turns(Len(Files(disk)[n]))
          /\ room = (Cardinality(AllClusters)
                       - Cardinality(Pieces(L, DOMAIN Files(disk) \ {filename}))) * ClusterUnits
      OBVIOUS
    <3> DEFINE r == disk'
               d == disk
    <3>2. Filed(d, E, F) /\ Rewritten(Root(d), r, E, F, p, s, filename, content)
      BY <1>1, <2>2
    <3>3. /\ \A n \in Names : L[n] = Turns(Len(Files(d)[n]))
          /\ room = (Cardinality(AllClusters)
                       - Cardinality(Pieces(L, DOMAIN Files(d) \ {filename}))) * ClusterUnits
      BY <3>1
    <3> HIDE DEF L, room, r, d, others
    <3>4. /\ \/ filename \in DOMAIN Files(d)
             \/ Cardinality(DOMAIN Files(d)) < Cardinality(Positions) - 1
          /\ Files(r) = Updated(Files(d), filename, content, room)
      BY <3>2, <3>3, StoreWrite
    <3> QED  BY <3>4 DEF r, d
  <2>4. Store!Extents(Files(disk), others) = Pieces(L, others)
    <3>1. others \subseteq Names
      BY DEF Files
    <3>2. \A n \in others : L[n] = Store!Clusters(Len(Files(disk)[n]))
      BY <3>1 DEF Store!Clusters, Turns
    <3> HIDE DEF L, others
    <3> QED  BY <3>2 DEF Store!Extents, Pieces
  <2>5. room = (Cardinality(2 .. FatCapacity - 1) - Store!UsedBy(Files(disk), DOMAIN Files(disk) \ {filename}))
                 * ClusterUnits
    <3> HIDE DEF L, others
    <3>1. Store!UsedBy(Files(disk), others) = Cardinality(Pieces(L, others))
      BY <2>4, StoreCardinality DEF Store!UsedBy
    <3> QED  BY <3>1 DEF AllClusters, others
  <2> HIDE DEF room
  <2>6. Files(disk') \in Store!Outcomes(Files(disk))
    <3>1. Store!Accepts(Files(disk), filename)
      BY <2>3, StoreCardinality DEF Store!Accepts
    <3>2. Files(disk') = Store!Write(Files(disk), filename, content)
      BY <2>3, <2>5, StoreCardinality DEF Store!Write, Updated
    <3> QED  BY <3>1, <3>2 DEF Store!Outcomes
  <2>7. FInv'
    <3> DEFINE D == [E EXCEPT ![p] = s]
               G == Put(F, filename, content)
    <3>1. Filed(disk', D, G)
      BY <1>1, <2>2, FiledKept
    <3> HIDE DEF D, G
    <3> QED  BY <3>1 DEF FInv
  <2> QED  BY <2>6, <2>7
<1> QED  BY <1>2, <1>3, <1>4, SoundStep

\* A file reads back as what was last written to it, cut off only where the other files
\* leave no cluster, and no write changes another file: the disk implements the store,
\* whose capacity is all the clusters that the FAT numbers.  The case of a file cut off
\* is that of a FAT whose entries each lie in one sector, all of whose clusters the disk
\* has.  Otherwise, as with sectors of 512 bytes and a FAT larger than the disk, Limits
\* and Backed leave the file sets that fit below the first entry in two sectors and on
\* the disk, and the theorem says of them that every file is kept whole.
THEOREM StoreKept == ASSUME Limits, Backed PROVE Spec => ImplementsStore
<1>1. Init => FInv /\ Store!Init
  <2> SUFFICES ASSUME Init PROVE FInv /\ Store!Init
    OBVIOUS
  <2> DEFINE E == [p \in Positions |-> <<>>]
             F == [n \in {} |-> <<>>]
  <2>1. Sound(disk, E, F)
    BY SoundInit
  <2>2. Named(Root(disk)) = {}
    <3>1. F \in [Named(Root(disk)) -> Contents]
      BY <2>1 DEF Sound
    <3> QED  BY <3>1
  <2>3. Filed(disk, E, F)
    BY <2>1, <2>2 DEF Filed, Named, Whole
  <2> HIDE DEF E, F
  <2>4. DOMAIN Files(disk) = {}
    BY <2>2, <2>3, FilesAre
  <2>5. Files(disk) = [n \in {} |-> <<>>]
    BY <2>4 DEF Files
  <2> QED  BY <2>3, <2>5 DEF FInv, Store!Init
<1>2. FInv /\ [Next]_disk => FInv' /\ [Store!Next]_(Files(disk))
  <2> SUFFICES ASSUME FInv, [Next]_disk PROVE FInv' /\ (Store!Next \/ Files(disk') = Files(disk))
    OBVIOUS
  <2>1. CASE disk' = disk
    BY <2>1 DEF FInv
  <2>2. CASE Next
    <3>1. PICK filename \in Names, content \in Contents : write_file(filename, content)
      BY <2>2 DEF Next
    <3>2. FInv' /\ (Files(disk') \in Store!Outcomes(Files(disk)) \/ Files(disk') = Files(disk))
      BY <3>1, StoreStep
    <3> QED  BY <3>2 DEF Store!Next
  <2> QED  BY <2>1, <2>2
<1> QED  BY <1>1, <1>2, PTL DEF Spec, ImplementsStore, Store!Spec

=============================================================================
