------------------------- MODULE Fat32LayoutProofs -------------------------
(***************************************************************************)
(* Proofs about Fat32Layout, for any disk and any boot sectors that are as *)
(* mkfs.fat writes them: the places of the table's entries, of its copies  *)
(* and of the clusters are apart, and the volume implements Cells.         *)
(***************************************************************************)
EXTENDS Fat32Layout, TLAPS

\* Quotient and remainder of a natural number.
LEMMA DivMod ==
    ASSUME NEW a \in Nat, NEW r \in Nat \ {0}
    PROVE  /\ a \div r \in Nat /\ a % r \in 0 .. r - 1
           /\ a = r * (a \div r) + (a % r)
  <1>1. a % r \in 0 .. r - 1 /\ a \div r \in Int
    BY Z3
  <1>2. a = r * (a \div r) + (a % r)
    BY SMT
  <1>3. ASSUME NEW q \in Int, NEW m \in 0 .. r - 1, a = r * q + m PROVE q >= 0
    <2>1. CASE q <= -1
      <3>1. r * q <= r * (-1)
        BY <2>1, Z3
      <3> QED
        BY <1>3, <3>1, Z3
    <2> QED
      BY <2>1
  <1>4. a \div r >= 0
    BY <1>1, <1>2, <1>3
  <1> QED
    BY <1>1, <1>2, <1>4

\* A number is written in one way with a quotient and a remainder.
LEMMA OneWay ==
    ASSUME NEW r \in Nat \ {0}, NEW p \in Nat, NEW q \in Nat,
           NEW m \in 0 .. r - 1, NEW n \in 0 .. r - 1,
           r * p + m = r * q + n
    PROVE  p = q /\ m = n
  <1>1. ASSUME NEW x \in Nat, NEW y \in Nat, NEW u \in 0 .. r - 1, NEW v \in 0 .. r - 1,
               r * x + u = r * y + v, x < y
        PROVE  FALSE
    <2>1. r * (x + 1) <= r * y
      BY <1>1, Z3
    <2>2. r * (x + 1) = r * x + r
      BY Z3
    <2>3. r * x \in Nat /\ r * y \in Nat
      BY Z3
    <2> QED
      BY <1>1, <2>1, <2>2, <2>3, Z3
  <1>2. ~(p < q) /\ ~(q < p)
    BY <1>1
  <1>3. p = q
    BY <1>2
  <1>4. r * p \in Nat
    BY Z3
  <1> QED
    BY <1>3, <1>4

\* Digit i of base r, below n of them, stays below n * r.
LEMMA Bounded ==
    ASSUME NEW r \in Nat \ {0}, NEW n \in Nat, NEW i \in Nat, i < n, NEW m \in 0 .. r - 1
    PROVE  r * i + m \in 0 .. n * r - 1
  <1>1. r * (i + 1) <= r * n
    BY Z3
  <1>2. r * (i + 1) = r * i + r /\ r * n = n * r /\ r * i \in Nat /\ n * r \in Nat
    BY Z3
  <1> QED
    BY <1>1, <1>2, Z3

\* The converse: a number below n * r has a quotient below n.
LEMMA Below ==
    ASSUME NEW r \in Nat \ {0}, NEW n \in Nat, NEW q \in Nat, NEW m \in Nat, r * q + m < n * r
    PROVE  q < n
  <1>1. CASE q >= n
    <2>1. r * q >= r * n
      BY <1>1, Z3
    <2>2. r * n = n * r /\ r * q \in Nat
      BY Z3
    <2> QED
      BY <2>1, <2>2
  <1> QED
    BY <1>1

\* An entry never straddles two sectors: offsets are multiples of four.
LEMMA Aligned ==
    ASSUME NEW r \in Nat \ {0}, r % 4 = 0, NEW q \in Nat, NEW m \in 0 .. r - 1, NEW c \in Nat,
           c * 4 = r * q + m
    PROVE  m % 4 = 0
  <1> DEFINE w == r \div 4
  <1>1. r = 4 * w /\ w \in Nat
    BY DivMod
  <1> HIDE DEF w
  <1>2. r * q = 4 * (w * q) /\ w * q \in Nat
    BY <1>1, Z3
  <1> DEFINE z == w * q
  <1>3. z \in Nat /\ c * 4 = 4 * z + m
    BY <1>2
  <1> HIDE DEF z
  <1> QED
    BY <1>3, Z3

-----------------------------------------------------------------------------
\* The geometry of a boot sector that validateBootSector accepts.
LEMMA Geometry ==
    ASSUME NEW b \in BPB, validateBootSector(b)
    PROVE  /\ SectorSize \in Nat \ {0} /\ SectorSize % 4 = 0 /\ Sectors \in Nat
           /\ b.bytesPerSector = SectorSize
           /\ b.sectorsPerCluster \in Nat \ {0} /\ b.tableCount \in Nat \ {0}
           /\ fatSize(b) \in Nat \ {0} /\ fatSize(b) = b.tableSize32
           /\ firstFatSector(b) \in Nat \ {0} /\ firstFatSector(b) = b.reservedSectorCount
           /\ firstDataSector(b) \in Nat
           /\ firstDataSector(b) = firstFatSector(b) + b.tableCount * fatSize(b)
           /\ dataSectors(b) \in Nat /\ firstDataSector(b) + dataSectors(b) <= Sectors
           /\ totalClusters(b) \in Nat /\ totalClusters(b) > 2
           /\ b.sectorsPerCluster * totalClusters(b) <= dataSectors(b)
           /\ 4 * totalClusters(b) <= fatSize(b) * SectorSize
  <1>1. /\ SectorSize \in Nat \ {0} /\ SectorSize % 4 = 0 /\ Sectors \in Nat
        /\ WellFormed(b)
    BY LayoutAssumption
  <1>2. /\ b.bytesPerSector = SectorSize /\ b.sectorsPerCluster \in Nat \ {0}
        /\ b.tableCount \in Nat \ {0} /\ b.tableSize32 \in Nat /\ b.tableSize16 = 0
        /\ b.reservedSectorCount \in Nat \ {0} /\ b.rootEntryCount = 0
        /\ b.totalSectors16 \in Nat /\ b.totalSectors32 \in Nat
    BY <1>1 DEF WellFormed, validateBootSector
  <1>3. fatSize(b) \in Nat \ {0} /\ fatSize(b) = b.tableSize32
    BY <1>2 DEF fatSize, validateBootSector
  <1>4. rootDirSectors(b) = 0
    <2>1. rootDirSectors(b) = (SectorSize - 1) \div SectorSize
      BY <1>1, <1>2 DEF rootDirSectors
    <2> DEFINE q == (SectorSize - 1) \div SectorSize
    <2> DEFINE m == (SectorSize - 1) % SectorSize
    <2>2. SectorSize - 1 \in Nat
      BY <1>1
    <2>3. q \in Nat /\ m \in 0 .. SectorSize - 1 /\ SectorSize - 1 = SectorSize * q + m
      BY <1>1, <2>2, DivMod, Zenon
    <2> HIDE DEF q, m
    <2>4. SectorSize * q \in Nat
      BY <1>1, <2>3, Z3
    <2>5. q \in Nat /\ SectorSize * q <= SectorSize - 1
      BY <1>1, <2>3, <2>4
    <2>6. CASE q >= 1
      <3>1. SectorSize * q >= SectorSize * 1
        BY <1>1, <2>5, <2>6, Z3
      <3> QED
        BY <1>1, <2>5, <3>1, Z3
    <2> QED
      BY <2>1, <2>5, <2>6 DEF q
  <1>5. b.tableCount * fatSize(b) \in Nat
    BY <1>2, <1>3, Z3
  <1>6. /\ firstDataSector(b) = firstFatSector(b) + b.tableCount * fatSize(b)
        /\ firstDataSector(b) \in Nat
    BY <1>2, <1>4, <1>5 DEF firstDataSector, firstFatSector
  <1>7. totalSectors(b) \in Nat /\ totalSectors(b) <= Sectors /\ firstDataSector(b) < totalSectors(b)
    BY <1>1, <1>2 DEF WellFormed, totalSectors
  <1>8. dataSectors(b) \in Nat /\ firstDataSector(b) + dataSectors(b) <= Sectors
    BY <1>1, <1>6, <1>7 DEF dataSectors
  <1>9. /\ totalClusters(b) \in Nat
        /\ b.sectorsPerCluster * totalClusters(b) <= dataSectors(b)
    <2> DEFINE q == dataSectors(b) \div b.sectorsPerCluster
               m == dataSectors(b) % b.sectorsPerCluster
    <2>0. /\ q \in Nat /\ m \in 0 .. b.sectorsPerCluster - 1
          /\ dataSectors(b) = b.sectorsPerCluster * q + m
      BY <1>2, <1>8, DivMod, Zenon
    <2>1. q \in Nat /\ m \in Nat /\ dataSectors(b) = b.sectorsPerCluster * q + m
      BY <1>2, <2>0
    <2>2. b.sectorsPerCluster * q \in Nat
      BY <1>2, <2>1, Z3
    <2>3. totalClusters(b) = q
      BY DEF totalClusters
    <2> HIDE DEF q, m
    <2> QED
      BY <1>8, <2>1, <2>2, <2>3
  <1>10. totalClusters(b) > 2 /\ 4 * totalClusters(b) <= fatSize(b) * SectorSize
    BY <1>1 DEF WellFormed, ROOT_CLUSTER
  <1> QED
    BY <1>1, <1>2, <1>3, <1>6, <1>8, <1>9, <1>10 DEF firstFatSector

\* The places of an entry of the table and of a block of a cluster.
EntrySector(b, c) == firstFatSector(b) + (c * 4) \div SectorSize
EntryOffset(c) == (c * 4) % SectorSize
BlockSector(b, c, i) == (c - 2) * b.sectorsPerCluster + firstDataSector(b) + i
TableSectors(b) == firstFatSector(b) .. firstFatSector(b) + fatSize(b) - 1
Copies(b) == 0 .. b.tableCount - 1
Blocks(b) == 0 .. b.sectorsPerCluster - 1

\* Every cluster has an entry of its own, within one sector of the table.
LEMMA EntryPlaces ==
    ASSUME NEW b \in BPB, validateBootSector(b)
    PROVE  /\ \A c \in Cluster(b) : EntryOffset(c) \in Offset /\ EntrySector(b, c) \in TableSectors(b)
           /\ \A c, d \in Cluster(b) :
                 EntrySector(b, c) = EntrySector(b, d) /\ EntryOffset(c) = EntryOffset(d) => c = d
  <1> DEFINE q(c) == (c * 4) \div SectorSize
             m(c) == (c * 4) % SectorSize
  <1>1. ASSUME NEW c \in Cluster(b)
        PROVE  /\ c \in Nat /\ q(c) \in Nat /\ m(c) \in 0 .. SectorSize - 1
               /\ c * 4 = SectorSize * q(c) + m(c)
               /\ q(c) < fatSize(b) /\ m(c) % 4 = 0
    <2>1. c \in Nat /\ c < totalClusters(b)
      BY Geometry DEF Cluster, ROOT_CLUSTER
    <2>2. c * 4 \in Nat /\ SectorSize \in Nat \ {0}
      BY <2>1, Geometry
    <2>3. /\ q(c) \in Nat /\ m(c) \in 0 .. SectorSize - 1
          /\ c * 4 = SectorSize * q(c) + m(c)
      BY <2>2, DivMod, Zenon
    <2> HIDE DEF q, m
    <2>4. c * 4 < fatSize(b) * SectorSize
      <3>1. fatSize(b) * SectorSize \in Nat
        BY Geometry, Z3
      <3> QED
        BY <2>1, <3>1, Geometry
    <2>5. SectorSize * q(c) + m(c) < fatSize(b) * SectorSize
      BY <2>3, <2>4
    <2>6. q(c) < fatSize(b)
      BY <2>3, <2>5, Geometry, Below
    <2>7. m(c) % 4 = 0
      BY <2>1, <2>3, Geometry, Aligned
    <2> QED
      BY <2>1, <2>3, <2>6, <2>7
  <1>2. \A c : EntrySector(b, c) = firstFatSector(b) + q(c) /\ EntryOffset(c) = m(c)
    BY DEF EntrySector, EntryOffset
  <1> HIDE DEF q, m
  <1>3. \A c \in Cluster(b) : EntryOffset(c) \in Offset
    BY <1>1, <1>2 DEF Offset
  <1>4. \A c \in Cluster(b) : EntrySector(b, c) \in TableSectors(b)
    BY <1>1, <1>2, Geometry DEF TableSectors
  <1>5. ASSUME NEW c \in Cluster(b), NEW d \in Cluster(b),
               EntrySector(b, c) = EntrySector(b, d), EntryOffset(c) = EntryOffset(d)
        PROVE  c = d
    <2>1. q(c) \in Nat /\ q(d) \in Nat /\ firstFatSector(b) \in Nat /\ c \in Nat /\ d \in Nat
      BY <1>1, Geometry
    <2>2. firstFatSector(b) + q(c) = firstFatSector(b) + q(d) /\ m(c) = m(d)
      BY <1>2, <1>5
    <2>3. q(c) = q(d)
      BY <2>1, <2>2
    <2>4. c * 4 = d * 4
      BY <1>1, <2>2, <2>3
    <2> QED
      BY <2>1, <2>4
  <1> QED
    BY <1>3, <1>4, <1>5

\* Every copy of the table lies between the reserved sectors and the data,
\* and the copies do not overlap.
LEMMA CopyPlaces ==
    ASSUME NEW b \in BPB, validateBootSector(b)
    PROVE  /\ \A s \in TableSectors(b), i \in Copies(b) :
                 s + i * fatSize(b) \in firstFatSector(b) .. firstDataSector(b) - 1
           /\ \A s, t \in TableSectors(b), i, j \in Copies(b) :
                 s + i * fatSize(b) = t + j * fatSize(b) => s = t /\ i = j
  <1> DEFINE f == fatSize(b)
             r == firstFatSector(b)
             n == b.tableCount
  <1>1. f \in Nat \ {0} /\ r \in Nat /\ n \in Nat /\ firstDataSector(b) = r + n * f
    BY Geometry
  <1>2. Copies(b) = 0 .. n - 1 /\ TableSectors(b) = r .. r + f - 1
    BY DEF Copies, TableSectors
  <1> HIDE DEF f, r, n
  <1>3. ASSUME NEW s \in TableSectors(b), NEW i \in Copies(b)
        PROVE  /\ s - r \in 0 .. f - 1 /\ i \in Nat /\ i < n
               /\ f * i \in Nat /\ n * f \in Nat
               /\ s + i * f = r + (f * i + (s - r))
    <2>1. s - r \in 0 .. f - 1 /\ i \in Nat /\ i < n /\ s \in Nat
      BY <1>1, <1>2
    <2>2. f * i \in Nat /\ n * f \in Nat /\ i * f = f * i
      BY <1>1, <2>1, Z3
    <2> QED
      BY <1>1, <2>1, <2>2
  <1>4. ASSUME NEW s \in TableSectors(b), NEW i \in Copies(b)
        PROVE  s + i * f \in r .. firstDataSector(b) - 1
    <2>1. f * i + (s - r) \in 0 .. n * f - 1
      BY <1>1, <1>3, Bounded
    <2> QED
      BY <1>1, <1>3, <2>1
  <1>5. ASSUME NEW s \in TableSectors(b), NEW t \in TableSectors(b),
               NEW i \in Copies(b), NEW j \in Copies(b), s + i * f = t + j * f
        PROVE  s = t /\ i = j
    <2>1. s - r \in 0 .. f - 1 /\ t - r \in 0 .. f - 1 /\ i \in Nat /\ j \in Nat
      BY <1>3
    <2>2. f * i \in Nat /\ f * j \in Nat
      BY <1>3
    <2> DEFINE x == f * i
               y == f * j
    <2>3. x \in Nat /\ y \in Nat /\ r + (x + (s - r)) = r + (y + (t - r))
      BY <1>3, <1>5, <2>2
    <2> HIDE DEF x, y
    <2>4. x + (s - r) = y + (t - r)
      BY <1>1, <2>1, <2>3
    <2>5. i = j /\ s - r = t - r
      BY <1>1, <2>1, <2>4, OneWay DEF x, y
    <2>6. s \in Int /\ t \in Int
      BY <1>1, <1>2
    <2> QED
      BY <1>1, <2>5, <2>6
  <1> QED
    BY <1>4, <1>5 DEF f, r

\* Every sector of a cluster lies in the data area and on the disk, and is no
\* other cluster's.
LEMMA BlockPlaces ==
    ASSUME NEW b \in BPB, validateBootSector(b)
    PROVE  /\ \A c \in Cluster(b), i \in Blocks(b) :
                 BlockSector(b, c, i) \in firstDataSector(b) .. Sectors - 1
           /\ \A c, d \in Cluster(b), i, j \in Blocks(b) :
                 BlockSector(b, c, i) = BlockSector(b, d, j) => c = d /\ i = j
  <1> DEFINE p == b.sectorsPerCluster
             n == totalClusters(b)
             w == firstDataSector(b)
  <1>1. /\ p \in Nat \ {0} /\ n \in Nat /\ n > 2 /\ w \in Nat /\ Sectors \in Nat
        /\ dataSectors(b) \in Nat /\ w + dataSectors(b) <= Sectors /\ p * n <= dataSectors(b)
    BY Geometry
  <1>2. /\ Cluster(b) = 2 .. n - 1 /\ Blocks(b) = 0 .. p - 1
        /\ \A c, i : BlockSector(b, c, i) = (c - 2) * p + w + i
    BY DEF Cluster, Blocks, BlockSector, ROOT_CLUSTER
  <1> HIDE DEF p, n, w
  <1>3. ASSUME NEW c \in Cluster(b), NEW i \in Blocks(b)
        PROVE  /\ c \in Nat /\ c - 2 \in Nat /\ c - 2 < n /\ i \in 0 .. p - 1
               /\ p * (c - 2) \in Nat
               /\ BlockSector(b, c, i) = w + (p * (c - 2) + i)
    <2>1. c \in Nat /\ c - 2 \in Nat /\ c - 2 < n /\ i \in 0 .. p - 1
      BY <1>1, <1>2
    <2>2. p * (c - 2) \in Nat /\ (c - 2) * p = p * (c - 2)
      BY <1>1, <2>1, Z3
    <2>3. BlockSector(b, c, i) = (c - 2) * p + w + i
      BY <1>2
    <2> DEFINE x == p * (c - 2)
    <2>4. x \in Nat /\ BlockSector(b, c, i) = x + w + i
      BY <2>2, <2>3
    <2> HIDE DEF x
    <2>5. x + w + i = w + (x + i)
      BY <1>1, <2>1, <2>4
    <2> QED
      BY <2>1, <2>2, <2>4, <2>5 DEF x
  <1>4. ASSUME NEW c \in Cluster(b), NEW i \in Blocks(b)
        PROVE  BlockSector(b, c, i) \in w .. Sectors - 1
    <2> DEFINE k == c - 2
    <2>1. k \in Nat /\ k < n /\ i \in 0 .. p - 1
      BY <1>3
    <2> HIDE DEF k
    <2>2. p * k + i \in 0 .. n * p - 1
      BY <1>1, <2>1, Bounded
    <2>3. n * p = p * n /\ p * n \in Nat
      BY <1>1, Z3
    <2>4. BlockSector(b, c, i) = w + (p * k + i)
      BY <1>3 DEF k
    <2> DEFINE x == p * k + i
               z == p * n
    <2>5. x \in 0 .. z - 1 /\ z \in Nat /\ z <= dataSectors(b) /\ BlockSector(b, c, i) = w + x
      BY <1>1, <2>2, <2>3, <2>4
    <2> HIDE DEF x, z
    <2> QED
      BY <1>1, <2>5
  <1>5. ASSUME NEW c \in Cluster(b), NEW d \in Cluster(b), NEW i \in Blocks(b),
               NEW j \in Blocks(b), BlockSector(b, c, i) = BlockSector(b, d, j)
        PROVE  c = d /\ i = j
    <2> DEFINE k == c - 2
               l == d - 2
    <2>1. k \in Nat /\ l \in Nat /\ i \in 0 .. p - 1 /\ j \in 0 .. p - 1
      BY <1>3
    <2>2. p * k \in Nat /\ p * l \in Nat /\ w + (p * k + i) = w + (p * l + j)
      BY <1>3, <1>5
    <2> HIDE DEF k, l
    <2>3. p * k + i = p * l + j
      BY <1>1, <2>1, <2>2
    <2>4. k = l /\ i = j
      BY <1>1, <2>1, <2>3, OneWay
    <2>5. c \in Nat /\ d \in Nat
      BY <1>3
    <2> QED
      BY <2>4, <2>5 DEF k, l
  <1> QED
    BY <1>4, <1>5 DEF w

-----------------------------------------------------------------------------
\* While the volume is in use, the geometry is that of its boot sector.
InUse ==
    mounted => /\ m_firstFatSector = firstFatSector(boot)
               /\ m_firstDataSector = firstDataSector(boot)

Inv == TypeOK /\ InUse /\ FatCopiesAgree

\* The places that the code computes are those of the boot sector.
LEMMA Places ==
    ASSUME Inv, mounted
    PROVE  /\ boot \in BPB /\ validateBootSector(boot) /\ m_bpb = boot
           /\ m_bpb.tableSize32 = fatSize(boot)
           /\ \A c : fatSector(c) = EntrySector(boot, c) /\ entOffset(c) = EntryOffset(c)
           /\ \A c, i : firstSector(c) + i = BlockSector(boot, c, i)
  <1>1. boot \in BPB /\ validateBootSector(boot) /\ m_bpb = boot
    BY DEF Inv, TypeOK
  <1>2. m_bpb.tableSize32 = fatSize(boot) /\ m_bpb.bytesPerSector = SectorSize
    BY <1>1, Geometry
  <1>3. m_firstFatSector = firstFatSector(boot) /\ m_firstDataSector = firstDataSector(boot)
    BY DEF Inv, InUse
  <1>4. \A c : fatSector(c) = EntrySector(boot, c) /\ entOffset(c) = EntryOffset(c)
    BY <1>2, <1>3 DEF fatSector, entOffset, EntrySector, EntryOffset
  <1>5. \A c, i : firstSector(c) + i = BlockSector(boot, c, i)
    BY <1>1, <1>3 DEF firstSector, BlockSector
  <1> QED
    BY <1>1, <1>2, <1>4, <1>5

\* mount addresses the first sector of the root directory.
LEMMA RootPlace ==
    ASSUME NEW b \in BPB, validateBootSector(b)
    PROVE  /\ 2 \in Cluster(b) /\ 0 \in Blocks(b)
           /\ rootSector(b) = BlockSector(b, 2, 0)
  <1>1. 2 \in Cluster(b) /\ 0 \in Blocks(b)
    BY Geometry DEF Cluster, Blocks, ROOT_CLUSTER
  <1>2. (2 - 2) * b.sectorsPerCluster = 0
    BY Geometry, Z3
  <1> QED
    BY <1>1, <1>2, Geometry DEF rootSector, BlockSector, ROOT_CLUSTER

\* Masking an entry of 28 bits leaves it as it is.
LEMMA Masked ==
    /\ \A v \in Value : v \in Nat /\ Mask(v) = v
    /\ \A v \in Nat : Mask(v) \in Nat
  <1>1. EntryRange \in Nat \ {0}
    BY Z3 DEF EntryRange
  <1>2. \A v \in Value : v \in 0 .. EntryRange - 1
    BY LayoutAssumption
  <1>3. ASSUME NEW r \in Nat \ {0}, NEW v \in 0 .. r - 1 PROVE v % r = v
    BY Z3
  <1>4. ASSUME NEW r \in Nat \ {0}, NEW v \in Nat PROVE v % r \in Nat
    BY Z3
  <1> QED
    BY <1>1, <1>2, <1>3, <1>4 DEF Mask

\* One call of updateFatEntry, up to its copy number done, and what it does
\* to the disk: the sector of the entry is replaced in the copies it got to,
\* and nothing else.
Puts(c, v, done, sectorData) ==
    /\ sectorData = [media[fatSector(c)] EXCEPT ![entOffset(c)] = Mask(v)]
    /\ media' = [s \in DOMAIN media |->
                    IF s \in FatCopies(c, done) THEN sectorData ELSE media[s]]

Replaced(c, v, done, sectorData) ==
    /\ sectorData = [media[EntrySector(boot, c)] EXCEPT ![EntryOffset(c)] = v]
    /\ media' \in [0 .. Sectors - 1 -> [Offset -> Nat]]
    /\ \A s \in TableSectors(boot), i \in Copies(boot) :
          media'[s + i * fatSize(boot)] =
              IF s = EntrySector(boot, c) /\ i < done
              THEN sectorData ELSE media[s + i * fatSize(boot)]
    /\ \A d \in Cluster(boot), i \in Blocks(boot) :
          media'[BlockSector(boot, d, i)] = media[BlockSector(boot, d, i)]

LEMMA TableWrite ==
    ASSUME Inv, mounted, NEW c \in Cluster(boot), NEW v \in Value,
           NEW done \in 0 .. m_bpb.tableCount, NEW sectorData, Puts(c, v, done, sectorData)
    PROVE  Replaced(c, v, done, sectorData)
  <1> DEFINE f == fatSize(boot)
             e == EntrySector(boot, c)
  <1>1. /\ boot \in BPB /\ validateBootSector(boot) /\ m_bpb = boot
        /\ fatSector(c) = e /\ entOffset(c) = EntryOffset(c)
        /\ FatCopies(c, done) = {e + i * f : i \in 0 .. done - 1}
    BY Places DEF FatCopies
  <1>2. /\ EntryOffset(c) \in Offset /\ e \in TableSectors(boot)
    BY <1>1, EntryPlaces
  <1>3. boot.tableCount \in Nat /\ done \in Nat /\ 0 .. done - 1 \subseteq Copies(boot)
    BY <1>1, Geometry DEF Copies
  <1>4. /\ firstFatSector(boot) \in Nat /\ firstDataSector(boot) \in Nat /\ Sectors \in Nat
        /\ firstDataSector(boot) <= Sectors /\ f \in Nat
    BY <1>1, Geometry
  <1>5. \A s \in TableSectors(boot), i \in Copies(boot) :
           s + i * f \in firstFatSector(boot) .. firstDataSector(boot) - 1
    BY <1>1, CopyPlaces
  <1>6. \A s \in TableSectors(boot), i \in Copies(boot) : s + i * f \in 0 .. Sectors - 1
    BY <1>4, <1>5
  <1>7. TableSectors(boot) \subseteq 0 .. Sectors - 1
    <2>1. 0 \in Copies(boot) /\ 0 * f = 0
      BY <1>1, <1>4, Geometry, Z3 DEF Copies
    <2>2. \A s \in TableSectors(boot) : s + 0 = s /\ s + 0 * f \in 0 .. Sectors - 1
      BY <1>4, <1>6, <2>1 DEF TableSectors
    <2> QED
      BY <2>1, <2>2
  <1>8. media \in [0 .. Sectors - 1 -> [Offset -> Nat]]
    BY DEF Inv, TypeOK
  <1>9. Mask(v) = v /\ v \in Nat
    BY Masked
  <1>10. media[e] \in [Offset -> Nat]
    BY <1>2, <1>7, <1>8
  <1>11. /\ sectorData = [media[e] EXCEPT ![EntryOffset(c)] = v]
         /\ sectorData \in [Offset -> Nat]
    BY <1>1, <1>2, <1>9, <1>10 DEF Puts
  <1>12. media' \in [0 .. Sectors - 1 -> [Offset -> Nat]]
    BY <1>8, <1>11 DEF Puts
  <1>13. ASSUME NEW s \in TableSectors(boot), NEW i \in Copies(boot)
         PROVE  media'[s + i * f] = IF s = e /\ i < done THEN sectorData ELSE media[s + i * f]
    <2>1. s + i * f \in FatCopies(c, done) <=> s = e /\ i < done
      <3>1. ASSUME s + i * f \in FatCopies(c, done) PROVE s = e /\ i < done
        <4>1. PICK j \in 0 .. done - 1 : s + i * f = e + j * f
          BY <1>1, <3>1
        <4>2. s = e /\ i = j
          BY <1>1, <1>2, <1>3, <4>1, CopyPlaces
        <4> QED
          BY <1>3, <4>2
      <3>2. ASSUME s = e, i < done PROVE s + i * f \in FatCopies(c, done)
        <4>1. i \in 0 .. done - 1
          BY <1>3, <3>2 DEF Copies
        <4> QED
          BY <1>1, <3>2, <4>1
      <3> QED
        BY <3>1, <3>2
    <2> QED
      BY <1>6, <1>8, <2>1 DEF Puts
  <1>14. ASSUME NEW d \in Cluster(boot), NEW i \in Blocks(boot)
         PROVE  media'[BlockSector(boot, d, i)] = media[BlockSector(boot, d, i)]
    <2>1. BlockSector(boot, d, i) \in firstDataSector(boot) .. Sectors - 1
      BY <1>1, BlockPlaces
    <2>2. BlockSector(boot, d, i) \notin FatCopies(c, done)
      <3>1. SUFFICES ASSUME NEW j \in 0 .. done - 1, BlockSector(boot, d, i) = e + j * f PROVE FALSE
        BY <1>1
      <3>2. e + j * f \in firstFatSector(boot) .. firstDataSector(boot) - 1
        BY <1>2, <1>3, <1>5
      <3> QED
        BY <1>4, <2>1, <3>1, <3>2
    <2> QED
      BY <1>4, <1>8, <2>1, <2>2 DEF Puts
  <1> QED
    BY <1>11, <1>12, <1>13, <1>14 DEF Replaced

\* The first copy of the table is the table.
LEMMA FirstCopy ==
    ASSUME NEW b \in BPB, validateBootSector(b)
    PROVE  0 \in Copies(b) /\ \A s \in TableSectors(b) : s + 0 * fatSize(b) = s
  BY Geometry, Z3 DEF Copies, TableSectors

\* What the write of one sector of a cluster does to the disk.
Stored(c, i, d) ==
    /\ media' \in [0 .. Sectors - 1 -> [Offset -> Nat]]
    /\ \A s \in TableSectors(boot), j \in Copies(boot) :
          media'[s + j * fatSize(boot)] = media[s + j * fatSize(boot)]
    /\ \A e \in Cluster(boot), j \in Blocks(boot) :
          media'[BlockSector(boot, e, j)] =
              IF e = c /\ j = i THEN d ELSE media[BlockSector(boot, e, j)]

LEMMA BlockWrite ==
    ASSUME TypeOK, validateBootSector(boot), NEW c \in Cluster(boot), NEW i \in Blocks(boot),
           NEW d \in Block, media' = [media EXCEPT ![BlockSector(boot, c, i)] = d]
    PROVE  Stored(c, i, d)
  <1>1. boot \in BPB /\ media \in [0 .. Sectors - 1 -> [Offset -> Nat]]
    BY DEF TypeOK
  <1>2. /\ firstFatSector(boot) \in Nat /\ firstDataSector(boot) \in Nat /\ Sectors \in Nat
        /\ firstDataSector(boot) <= Sectors
    BY <1>1, Geometry
  <1>3. \A e \in Cluster(boot), j \in Blocks(boot) :
           BlockSector(boot, e, j) \in firstDataSector(boot) .. Sectors - 1
    BY <1>1, BlockPlaces
  <1>4. d \in [Offset -> Nat]
    BY LayoutAssumption
  <1>5. media' \in [0 .. Sectors - 1 -> [Offset -> Nat]]
    BY <1>1, <1>4
  <1>6. ASSUME NEW s \in TableSectors(boot), NEW j \in Copies(boot)
        PROVE  media'[s + j * fatSize(boot)] = media[s + j * fatSize(boot)]
    <2>1. s + j * fatSize(boot) \in firstFatSector(boot) .. firstDataSector(boot) - 1
      BY <1>1, CopyPlaces
    <2>2. s + j * fatSize(boot) # BlockSector(boot, c, i)
      BY <1>2, <1>3, <2>1
    <2>3. s + j * fatSize(boot) \in 0 .. Sectors - 1
      BY <1>2, <2>1
    <2> QED
      BY <1>1, <2>2, <2>3
  <1>7. ASSUME NEW e \in Cluster(boot), NEW j \in Blocks(boot)
        PROVE  media'[BlockSector(boot, e, j)] =
                   IF e = c /\ j = i THEN d ELSE media[BlockSector(boot, e, j)]
    <2>1. BlockSector(boot, e, j) = BlockSector(boot, c, i) => e = c /\ j = i
      BY <1>1, BlockPlaces
    <2>2. BlockSector(boot, e, j) \in 0 .. Sectors - 1
      BY <1>2, <1>3
    <2> QED
      BY <1>1, <2>1, <2>2
  <1> QED
    BY <1>5, <1>6, <1>7 DEF Stored

-----------------------------------------------------------------------------
\* The copies agree when the sectors of the table are left alone.
LEMMA CopiesKept ==
    ASSUME FatCopiesAgree, boot \in BPB, boot' = boot, torn' = torn,
           validateBootSector(boot) =>
              \A s \in TableSectors(boot), j \in Copies(boot) :
                 media'[s + j * fatSize(boot)] = media[s + j * fatSize(boot)]
    PROVE  FatCopiesAgree'
  <1> SUFFICES ASSUME validateBootSector(boot), NEW s \in TableSectors(boot), s \notin torn,
                      NEW i \in Copies(boot)
               PROVE  media'[s + i * fatSize(boot)] = media'[s]
    BY DEF FatCopiesAgree, TableSectors, Copies
  <1>1. media[s + i * fatSize(boot)] = media[s]
    BY DEF FatCopiesAgree, TableSectors, Copies
  <1>2. 0 \in Copies(boot) /\ s + 0 * fatSize(boot) = s
    BY Geometry, Z3 DEF Copies, TableSectors
  <1>3. media'[s] = media[s]
    <2>1. media'[s + 0 * fatSize(boot)] = media[s + 0 * fatSize(boot)]
      BY <1>2
    <2> QED
      BY <1>2, <2>1
  <1> QED
    BY <1>1, <1>3

LEMMA InitInv == Init => Inv
  <1> SUFFICES ASSUME Init PROVE Inv
    OBVIOUS
  <1>1. TypeOK
    BY LayoutAssumption DEF Init, TypeOK
  <1>2. InUse
    BY DEF Init, InUse
  <1>3. ASSUME validateBootSector(boot), NEW s \in TableSectors(boot), NEW i \in Copies(boot)
        PROVE  media[s + i * fatSize(boot)] = media[s]
    <2> DEFINE r == firstFatSector(boot)
               f == fatSize(boot)
               x == i * f
    <2>1. r \in Nat /\ f \in Nat /\ r = boot.reservedSectorCount /\ i \in Nat
      BY <1>1, <1>3, Geometry DEF TypeOK, Copies
    <2>2. x \in Nat
      BY <2>1, Z3
    <2>3. s - r \in 0 .. f - 1 /\ s \in Nat
      BY <2>1 DEF TableSectors
    <2>4. media[boot.reservedSectorCount + x + (s - r)] = media[boot.reservedSectorCount + (s - r)]
      BY <1>3, <2>3 DEF Init, Copies
    <2> HIDE DEF x, r, f
    <2>5. boot.reservedSectorCount + x + (s - r) = s + x /\ boot.reservedSectorCount + (s - r) = s
      BY <2>1, <2>2, <2>3
    <2>6. media[s + x] = media[s]
      BY <2>4, <2>5
    <2> QED
      BY <2>6 DEF x, f
  <1>4. FatCopiesAgree
    BY <1>3 DEF FatCopiesAgree, TableSectors, Copies
  <1> QED
    BY <1>1, <1>2, <1>4 DEF Inv

\* initialize leaves the geometry of the boot sector.
LEMMA Initialized ==
    ASSUME TypeOK, initialize(boot)
    PROVE  /\ m_bpb' = boot
           /\ {m_firstFatSector', m_firstDataSector', m_dataSectors', m_totalClusters'} \subseteq Nat
           /\ validateBootSector(boot) => /\ m_firstFatSector' = firstFatSector(boot)
                                          /\ m_firstDataSector' = firstDataSector(boot)
  <1>1. CASE validateBootSector(boot)
    <2>1. /\ firstFatSector(boot) \in Nat /\ firstDataSector(boot) \in Nat
          /\ dataSectors(boot) \in Nat /\ totalClusters(boot) \in Nat
      BY <1>1, Geometry DEF TypeOK
    <2> QED
      BY <1>1, <2>1 DEF initialize
  <1>2. CASE ~validateBootSector(boot)
    BY <1>2 DEF initialize, TypeOK
  <1> QED
    BY <1>1, <1>2

LEMMA MountInv == ASSUME Inv, mount PROVE Inv'
  <1>1. /\ boot' = boot /\ torn' = torn /\ boot \in BPB /\ TypeOK /\ FatCopiesAgree
        /\ initialize(boot)
    BY DEF Inv, TypeOK, mount
  <1>2. /\ m_bpb' = boot
        /\ {m_firstFatSector', m_firstDataSector', m_dataSectors', m_totalClusters'} \subseteq Nat
        /\ validateBootSector(boot) => /\ m_firstFatSector' = firstFatSector(boot)
                                       /\ m_firstDataSector' = firstDataSector(boot)
    BY <1>1, Initialized
  <1>3. mounted' => validateBootSector(boot)
    BY DEF mount
  <1>4. \/ media' = media
        \/ /\ validateBootSector(boot)
           /\ media' = [media EXCEPT ![rootSector(boot)] = DotBlock]
    BY DEF mount
  <1>5. DotBlock \in Block
    BY LayoutAssumption
  <1>6. /\ media' \in [0 .. Sectors - 1 -> [Offset -> Nat]]
        /\ validateBootSector(boot) =>
              \A s \in TableSectors(boot), j \in Copies(boot) :
                 media'[s + j * fatSize(boot)] = media[s + j * fatSize(boot)]
    <2>1. CASE media' = media
      BY <1>1, <2>1 DEF TypeOK
    <2>2. CASE validateBootSector(boot) /\ media' = [media EXCEPT ![rootSector(boot)] = DotBlock]
      <3>1. /\ 2 \in Cluster(boot) /\ 0 \in Blocks(boot)
            /\ media' = [media EXCEPT ![BlockSector(boot, 2, 0)] = DotBlock]
        BY <1>1, <2>2, RootPlace
      <3>2. Stored(2, 0, DotBlock)
        BY <1>1, <1>5, <2>2, <3>1, BlockWrite
      <3> QED
        BY <3>2 DEF Stored
    <2> QED
      BY <1>4, <2>1, <2>2
  <1>7. TypeOK'
    BY <1>1, <1>2, <1>3, <1>6 DEF TypeOK
  <1>8. InUse'
    BY <1>1, <1>2, <1>3 DEF InUse
  <1>9. FatCopiesAgree'
    BY <1>1, <1>6, CopiesKept
  <1> QED
    BY <1>7, <1>8, <1>9 DEF Inv

LEMMA UpdateInv == ASSUME Inv, UpdateFatEntry PROVE Inv'
  <1>1. /\ mounted /\ boot' = boot /\ mounted' = mounted /\ UNCHANGED geometry
        /\ boot \in BPB /\ validateBootSector(boot) /\ m_bpb = boot
    BY Places DEF UpdateFatEntry
  <1>2. PICK c \in Cluster(boot), v \in Value : updateFatEntry(c, v)
    BY <1>1 DEF UpdateFatEntry
  <1> DEFINE e == EntrySector(boot, c)
             f == fatSize(boot)
  <1>3. PICK done, sectorData :
          /\ done \in 0 .. m_bpb.tableCount
          /\ Puts(c, v, done, sectorData)
          /\ torn' = IF done = m_bpb.tableCount THEN torn \ {fatSector(c)}
                     ELSE IF done = 0 THEN torn ELSE torn \cup {fatSector(c)}
    BY <1>2 DEF updateFatEntry, Puts
  <1>4. /\ media' \in [0 .. Sectors - 1 -> [Offset -> Nat]]
        /\ \A s \in TableSectors(boot), i \in Copies(boot) :
              media'[s + i * f] = IF s = e /\ i < done THEN sectorData ELSE media[s + i * f]
    <2>1. Replaced(c, v, done, sectorData)
      BY <1>1, <1>2, <1>3, TableWrite
    <2> QED
      BY <2>1 DEF Replaced
  <1>5. fatSector(c) = e /\ e \in TableSectors(boot)
    BY <1>1, <1>2, Places, EntryPlaces
  <1>6. /\ boot.tableCount \in Nat \ {0} /\ done \in 0 .. boot.tableCount
        /\ 0 \in Copies(boot)
    BY <1>1, <1>3, Geometry DEF Copies
  <1>7. \A s \in TableSectors(boot) : s \in 0 .. Sectors - 1 /\ s + 0 * f = s
    <2>1. /\ firstFatSector(boot) \in Nat /\ firstDataSector(boot) \in Nat /\ Sectors \in Nat
          /\ firstDataSector(boot) <= Sectors /\ f \in Nat
      BY <1>1, Geometry
    <2>2. \A s \in TableSectors(boot) : s \in Nat /\ s + 0 * f = s
      BY <2>1, Z3 DEF TableSectors
    <2>3. \A s \in TableSectors(boot) :
             s + 0 * f \in firstFatSector(boot) .. firstDataSector(boot) - 1
      BY <1>1, <1>6, CopyPlaces
    <2>4. \A s \in TableSectors(boot) : s \in firstFatSector(boot) .. firstDataSector(boot) - 1
      BY <2>2, <2>3
    <2> QED
      BY <2>1, <2>2, <2>4
  <1>8. TypeOK'
    <2>1. torn' \subseteq 0 .. Sectors - 1
      BY <1>3, <1>5, <1>7 DEF Inv, TypeOK
    <2> QED
      BY <1>1, <1>4, <2>1 DEF Inv, TypeOK, geometry
  <1>9. InUse'
    BY <1>1 DEF Inv, InUse, geometry
  <1>10. FatCopiesAgree'
    <2> SUFFICES ASSUME NEW s \in TableSectors(boot), s \notin torn', NEW i \in Copies(boot)
                 PROVE  media'[s + i * f] = media'[s]
      BY <1>1 DEF FatCopiesAgree, TableSectors, Copies
    <2>1. /\ media'[s] = IF s = e /\ 0 < done THEN sectorData ELSE media[s]
          /\ media'[s + i * f] = IF s = e /\ i < done THEN sectorData ELSE media[s + i * f]
      <3>1. media'[s + 0 * f] = IF s = e /\ 0 < done THEN sectorData ELSE media[s + 0 * f]
        BY <1>4, <1>6
      <3> QED
        BY <1>4, <1>7, <3>1
    <2>2. s \notin torn => media[s + i * f] = media[s]
      BY <1>1 DEF Inv, FatCopiesAgree, TableSectors, Copies
    <2>3. i \in Nat /\ i < boot.tableCount
      BY <1>6 DEF Copies
    <2>4. CASE s = e /\ done = boot.tableCount
      BY <1>6, <2>1, <2>3, <2>4
    <2>5. CASE s = e /\ done # boot.tableCount
      <3>1. done = 0 /\ s \notin torn
        BY <1>1, <1>3, <1>5, <2>5
      <3> QED
        BY <2>1, <2>2, <2>3, <3>1
    <2>6. CASE s # e
      <3>1. s \notin torn
        BY <1>1, <1>3, <1>5, <2>6
      <3> QED
        BY <2>1, <2>2, <2>6, <3>1
    <2> QED
      BY <2>4, <2>5, <2>6
  <1> QED
    BY <1>8, <1>9, <1>10 DEF Inv

LEMMA WriteInv == ASSUME Inv, writeSector PROVE Inv'
  <1>1. /\ mounted /\ boot' = boot /\ mounted' = mounted /\ torn' = torn /\ UNCHANGED geometry
        /\ boot \in BPB /\ validateBootSector(boot) /\ m_bpb = boot /\ TypeOK /\ FatCopiesAgree
    BY Places DEF writeSector, Inv
  <1>2. PICK c \in Cluster(boot), i \in Blocks(boot), d \in Block, ok \in BOOLEAN :
           WriteBlock(c, i, d, ok)
    BY <1>1 DEF writeSector, Blocks
  <1>3. /\ media' \in [0 .. Sectors - 1 -> [Offset -> Nat]]
        /\ \A s \in TableSectors(boot), j \in Copies(boot) :
              media'[s + j * fatSize(boot)] = media[s + j * fatSize(boot)]
    <2>1. CASE ok
      <3>1. media' = [media EXCEPT ![BlockSector(boot, c, i)] = d]
        BY <1>1, <1>2, <2>1, Places DEF WriteBlock
      <3>2. Stored(c, i, d)
        BY <1>1, <1>2, <3>1, BlockWrite
      <3> QED
        BY <3>2 DEF Stored
    <2>2. CASE ~ok
      BY <1>1, <1>2, <2>2 DEF WriteBlock, TypeOK
    <2> QED
      BY <2>1, <2>2
  <1>4. TypeOK'
    BY <1>1, <1>3 DEF TypeOK, geometry
  <1>5. InUse'
    BY <1>1 DEF Inv, InUse, geometry
  <1>6. FatCopiesAgree'
    BY <1>1, <1>3, CopiesKept
  <1> QED
    BY <1>4, <1>5, <1>6 DEF Inv

LEMMA StepInv == Inv /\ [Next]_vars => Inv'
  <1> SUFFICES ASSUME Inv, [Next]_vars PROVE Inv'
    OBVIOUS
  <1>1. CASE mount
    BY <1>1, MountInv
  <1>2. CASE UpdateFatEntry
    BY <1>2, UpdateInv
  <1>3. CASE writeSector
    BY <1>3, WriteInv
  <1>4. CASE Restart
    <2>1. TypeOK'
      BY <1>4 DEF Inv, TypeOK, Restart
    <2>2. InUse'
      BY <1>4 DEF InUse, Restart
    <2>3. FatCopiesAgree'
      BY <1>4 DEF Inv, FatCopiesAgree, Restart
    <2> QED
      BY <2>1, <2>2, <2>3 DEF Inv
  <1>5. CASE UNCHANGED vars
    BY <1>5 DEF Inv, TypeOK, InUse, FatCopiesAgree, vars, geometry
  <1> QED
    BY <1>1, <1>2, <1>3, <1>4, <1>5 DEF Next

LEMMA AlwaysInv == Spec => []Inv
  BY InitInv, StepInv, PTL DEF Spec

\* The copies of the table agree on every sector where the last update that
\* changed it succeeded, whatever writes fail and whenever the machine stops.
THEOREM CopiesAgree == Spec => []FatCopiesAgree
  <1>1. Inv => FatCopiesAgree
    BY DEF Inv
  <1> QED
    BY <1>1, AlwaysInv, PTL

\* On every volume that mkfs.fat makes, whatever its size, the number of
\* copies and the sectors per cluster, the places that readFatEntry,
\* updateFatEntry and writeFile compute do not overlap.
THEOREM PlacesApart == Spec => []CellsApart
  <1>1. Inv => CellsApart
    <2> SUFFICES ASSUME Inv, mounted PROVE CellsApart
      BY DEF CellsApart
    <2>1. /\ boot \in BPB /\ validateBootSector(boot) /\ m_bpb = boot
          /\ m_bpb.tableSize32 = fatSize(boot)
          /\ \A c : fatSector(c) = EntrySector(boot, c) /\ entOffset(c) = EntryOffset(c)
          /\ \A c, i : firstSector(c) + i = BlockSector(boot, c, i)
      BY Places
    <2>2. /\ m_firstDataSector = firstDataSector(boot)
          /\ firstFatSector(boot) = boot.reservedSectorCount
      BY <2>1, Geometry DEF Inv, InUse
    <2>3. \A c \in Cluster(boot) : EntryOffset(c) \in Offset /\ EntrySector(boot, c) \in TableSectors(boot)
      BY <2>1, EntryPlaces
    <2>4. \A c, d \in Cluster(boot) :
             EntrySector(boot, c) = EntrySector(boot, d) /\ EntryOffset(c) = EntryOffset(d) => c = d
      BY <2>1, EntryPlaces
    <2>5. \A s \in TableSectors(boot), i \in Copies(boot) :
             s + i * fatSize(boot) \in firstFatSector(boot) .. firstDataSector(boot) - 1
      BY <2>1, CopyPlaces
    <2>6. /\ \A c \in Cluster(boot), i \in Blocks(boot) :
                BlockSector(boot, c, i) \in firstDataSector(boot) .. Sectors - 1
          /\ \A c, d \in Cluster(boot), i, j \in Blocks(boot) :
                BlockSector(boot, c, i) = BlockSector(boot, d, j) => c = d /\ i = j
      BY <2>1, BlockPlaces
    <2>7. ASSUME NEW c \in Cluster(boot)
          PROVE  /\ entOffset(c) \in Offset
                 /\ \A i \in Copies(boot) :
                       fatSector(c) + i * m_bpb.tableSize32
                           \in m_bpb.reservedSectorCount .. m_firstDataSector - 1
                 /\ \A i \in Blocks(boot) : firstSector(c) + i \in m_firstDataSector .. Sectors - 1
      BY <2>1, <2>2, <2>3, <2>5, <2>6
    <2>8. ASSUME NEW c \in Cluster(boot), NEW d \in Cluster(boot), c # d
          PROVE  /\ fatSector(c) # fatSector(d) \/ entOffset(c) # entOffset(d)
                 /\ \A i, j \in Blocks(boot) : firstSector(c) + i # firstSector(d) + j
      BY <2>1, <2>4, <2>6, <2>8
    <2> QED
      BY <2>1, <2>7, <2>8 DEF CellsApart, Copies, Blocks
  <1> QED
    BY <1>1, AlwaysInv, PTL

-----------------------------------------------------------------------------
\* What the volume holds, cell by cell.
LEMMA Contents ==
    ASSUME boot \in BPB, validateBootSector(boot)
    PROVE  /\ TableOf(boot) = [c \in Cluster(boot) |->
                                  Mask(media[EntrySector(boot, c)][EntryOffset(c)])]
           /\ DataOf(boot) = [k \in Cluster(boot) \X Blocks(boot) |->
                                 media[BlockSector(boot, k[1], k[2])]]
  BY DEF TableOf, DataOf, EntrySector, EntryOffset, BlockSector, Blocks

\* A sector of a cluster is written: one block changes.
LEMMA BlockCells ==
    ASSUME TypeOK, validateBootSector(boot), boot' = boot,
           NEW c \in Cluster(boot), NEW i \in Blocks(boot), NEW d \in Block,
           media' = [media EXCEPT ![BlockSector(boot, c, i)] = d]
    PROVE  /\ TableOf(boot)' = TableOf(boot)
           /\ DataOf(boot)' = [DataOf(boot) EXCEPT ![<<c, i>>] = d]
  <1>1. boot \in BPB
    BY DEF TypeOK
  <1>2. /\ \A s \in TableSectors(boot), j \in Copies(boot) :
              media'[s + j * fatSize(boot)] = media[s + j * fatSize(boot)]
        /\ \A e \in Cluster(boot), j \in Blocks(boot) :
              media'[BlockSector(boot, e, j)] =
                  IF e = c /\ j = i THEN d ELSE media[BlockSector(boot, e, j)]
    <2>1. Stored(c, i, d)
      BY BlockWrite
    <2> QED
      BY <2>1 DEF Stored
  <1>3. /\ 0 \in Copies(boot)
        /\ \A s \in TableSectors(boot) : s + 0 * fatSize(boot) = s
    BY <1>1, FirstCopy
  <1>4. \A s \in TableSectors(boot) : media'[s] = media[s]
    <2>1. ASSUME NEW s \in TableSectors(boot) PROVE media'[s] = media[s]
      <3>1. media'[s + 0 * fatSize(boot)] = media[s + 0 * fatSize(boot)]
        BY <1>2, <1>3
      <3> QED
        BY <1>3, <3>1
    <2> QED
      BY <2>1
  <1>5. \A e \in Cluster(boot) : EntrySector(boot, e) \in TableSectors(boot)
    BY <1>1, EntryPlaces
  <1>6. /\ TableOf(boot)' = [e \in Cluster(boot) |->
                                Mask(media'[EntrySector(boot, e)][EntryOffset(e)])]
        /\ DataOf(boot)' = [k \in Cluster(boot) \X Blocks(boot) |->
                               media'[BlockSector(boot, k[1], k[2])]]
    BY DEF TableOf, DataOf, EntrySector, EntryOffset, BlockSector, Blocks
  <1>7. TableOf(boot)' = TableOf(boot)
    BY <1>1, <1>4, <1>5, <1>6, Contents
  <1>8. DataOf(boot)' = [DataOf(boot) EXCEPT ![<<c, i>>] = d]
    <2>1. \A k \in Cluster(boot) \X Blocks(boot) :
             /\ k[1] \in Cluster(boot) /\ k[2] \in Blocks(boot)
             /\ k = <<c, i>> <=> k[1] = c /\ k[2] = i
      OBVIOUS
    <2>2. \A k \in Cluster(boot) \X Blocks(boot) :
             media'[BlockSector(boot, k[1], k[2])] =
                 IF k = <<c, i>> THEN d ELSE media[BlockSector(boot, k[1], k[2])]
      BY <1>2, <2>1
    <2>3. DataOf(boot) = [k \in Cluster(boot) \X Blocks(boot) |->
                             media[BlockSector(boot, k[1], k[2])]]
      BY <1>1, Contents
    <2>4. [DataOf(boot) EXCEPT ![<<c, i>>] = d] =
              [k \in Cluster(boot) \X Blocks(boot) |->
                  IF k = <<c, i>> THEN d ELSE media[BlockSector(boot, k[1], k[2])]]
      BY <2>3
    <2> QED
      BY <1>6, <2>2, <2>4
  <1> QED
    BY <1>7, <1>8

\* An entry of the table is written to some copies: one entry changes, if the
\* first copy is among them, and otherwise nothing does.
LEMMA EntryCells ==
    ASSUME Inv, mounted, boot' = boot, NEW c \in Cluster(boot), NEW v \in Value,
           NEW done \in Nat, NEW sectorData, Replaced(c, v, done, sectorData)
    PROVE  /\ TableOf(boot)' = IF done = 0 THEN TableOf(boot)
                               ELSE [TableOf(boot) EXCEPT ![c] = v]
           /\ DataOf(boot)' = DataOf(boot)
  <1>1. boot \in BPB /\ validateBootSector(boot) /\ media \in [0 .. Sectors - 1 -> [Offset -> Nat]]
    BY Places DEF Inv, TypeOK
  <1>2. /\ TableOf(boot)' = [e \in Cluster(boot) |->
                                Mask(media'[EntrySector(boot, e)][EntryOffset(e)])]
        /\ DataOf(boot)' = [k \in Cluster(boot) \X Blocks(boot) |->
                               media'[BlockSector(boot, k[1], k[2])]]
    BY DEF TableOf, DataOf, EntrySector, EntryOffset, BlockSector, Blocks
  <1>3. DataOf(boot)' = DataOf(boot)
    <2>1. \A k \in Cluster(boot) \X Blocks(boot) :
             media'[BlockSector(boot, k[1], k[2])] = media[BlockSector(boot, k[1], k[2])]
      BY DEF Replaced
    <2> QED
      BY <1>1, <1>2, <2>1, Contents
  <1>4. /\ 0 \in Copies(boot)
        /\ \A s \in TableSectors(boot) : s + 0 * fatSize(boot) = s
    BY <1>1, FirstCopy
  <1>5. ASSUME NEW s \in TableSectors(boot)
        PROVE  media'[s] = IF s = EntrySector(boot, c) /\ 0 < done THEN sectorData ELSE media[s]
    <2>1. media'[s + 0 * fatSize(boot)] =
              IF s = EntrySector(boot, c) /\ 0 < done
              THEN sectorData ELSE media[s + 0 * fatSize(boot)]
      BY <1>4 DEF Replaced
    <2> QED
      BY <1>4, <2>1
  <1>6. \A e \in Cluster(boot) : EntrySector(boot, e) \in TableSectors(boot) /\ EntryOffset(e) \in Offset
    BY <1>1, EntryPlaces
  <1>7. \A e \in Cluster(boot) :
           EntrySector(boot, e) = EntrySector(boot, c) /\ EntryOffset(e) = EntryOffset(c) => e = c
    BY <1>1, EntryPlaces
  <1>8. EntrySector(boot, c) \in 0 .. Sectors - 1
    <2>1. /\ EntrySector(boot, c) \in TableSectors(boot)
          /\ EntrySector(boot, c) + 0 * fatSize(boot)
                \in firstFatSector(boot) .. firstDataSector(boot) - 1
      BY <1>1, <1>4, <1>6, CopyPlaces
    <2>2. EntrySector(boot, c) \in firstFatSector(boot) .. firstDataSector(boot) - 1
      BY <1>4, <2>1
    <2> QED
      BY <1>1, <2>2, Geometry
  <1>9. /\ sectorData = [media[EntrySector(boot, c)] EXCEPT ![EntryOffset(c)] = v]
        /\ media[EntrySector(boot, c)] \in [Offset -> Nat]
    BY <1>1, <1>8 DEF Replaced
  <1>10. TableOf(boot) = [e \in Cluster(boot) |-> Mask(media[EntrySector(boot, e)][EntryOffset(e)])]
    BY <1>1, Contents
  <1>11. CASE done = 0
    BY <1>2, <1>3, <1>5, <1>6, <1>10, <1>11
  <1>12. CASE done # 0
    <2>1. 0 < done
      BY <1>12
    <2>2. ASSUME NEW e \in Cluster(boot)
          PROVE  Mask(media'[EntrySector(boot, e)][EntryOffset(e)]) =
                     IF e = c THEN v ELSE Mask(media[EntrySector(boot, e)][EntryOffset(e)])
      <3>1. CASE e = c
        <4>1. media'[EntrySector(boot, c)] = sectorData
          BY <1>5, <1>6, <2>1
        <4>2. sectorData[EntryOffset(c)] = v
          BY <1>6, <1>9
        <4> QED
          BY <3>1, <4>1, <4>2, Masked
      <3>2. CASE e # c /\ EntrySector(boot, e) = EntrySector(boot, c)
        <4>1. media'[EntrySector(boot, e)] = sectorData /\ EntryOffset(e) # EntryOffset(c)
          BY <1>5, <1>6, <1>7, <2>1, <3>2
        <4>2. sectorData[EntryOffset(e)] = media[EntrySector(boot, e)][EntryOffset(e)]
          BY <1>6, <1>9, <3>2, <4>1
        <4> QED
          BY <3>2, <4>1, <4>2
      <3>3. CASE EntrySector(boot, e) # EntrySector(boot, c)
        BY <1>5, <1>6, <3>3
      <3> QED
        BY <3>1, <3>2, <3>3
    <2>3. TableOf(boot)' = [TableOf(boot) EXCEPT ![c] = v]
      BY <1>2, <1>10, <2>2
    <2> QED
      BY <1>3, <1>12, <2>3
  <1> QED
    BY <1>11, <1>12

\* A write of a block, done or failed, is a step of Cells.
LEMMA BlockStep ==
    ASSUME TypeOK, validateBootSector(boot), boot' = boot,
           NEW c \in Cluster(boot), NEW i \in Blocks(boot), NEW d \in Block, NEW ok \in BOOLEAN,
           media' = IF ok THEN [media EXCEPT ![BlockSector(boot, c, i)] = d] ELSE media,
           op' = [kind |-> "data", at |-> <<c, i>>, put |-> d, ok |-> ok]
    PROVE  Volume!Next
  <1>1. boot \in BPB
    BY DEF TypeOK
  <1>2. DOMAIN DataOf(boot) = Cluster(boot) \X Blocks(boot)
    BY <1>1, Contents
  <1>3. op' \in Volume!Call
    BY <1>2 DEF Volume!Call
  <1>4. CASE ok
    <2>1. /\ TableOf(boot)' = TableOf(boot)
          /\ DataOf(boot)' = [DataOf(boot) EXCEPT ![<<c, i>>] = d]
      BY <1>4, BlockCells
    <2>2. Volume!Done(op')
      BY <2>1 DEF Volume!Done
    <2> QED
      BY <1>3, <2>2 DEF Volume!Next
  <1>5. CASE ~ok
    <2>1. TableOf(boot)' = TableOf(boot) /\ DataOf(boot)' = DataOf(boot)
      BY <1>5 DEF TableOf, DataOf
    <2> QED
      BY <1>3, <1>5, <2>1 DEF Volume!Next
  <1> QED
    BY <1>4, <1>5

LEMMA UpdateStep == ASSUME Inv, UpdateFatEntry PROVE Volume!Next
  <1>1. /\ mounted /\ boot' = boot /\ boot \in BPB /\ validateBootSector(boot) /\ m_bpb = boot
    BY Places DEF UpdateFatEntry
  <1>2. PICK c \in Cluster(boot), v \in Value : updateFatEntry(c, v)
    BY <1>1 DEF UpdateFatEntry
  <1>3. PICK done, sectorData :
          /\ done \in 0 .. m_bpb.tableCount
          /\ Puts(c, v, done, sectorData)
          /\ op' = [kind |-> "fat", at |-> c, put |-> v, ok |-> done = m_bpb.tableCount]
    BY <1>2 DEF updateFatEntry, Puts
  <1>4. Replaced(c, v, done, sectorData)
    BY <1>1, <1>2, <1>3, TableWrite
  <1>5. done \in Nat /\ boot.tableCount # 0
    BY <1>1, <1>3, Geometry
  <1>6. /\ TableOf(boot)' = IF done = 0 THEN TableOf(boot) ELSE [TableOf(boot) EXCEPT ![c] = v]
        /\ DataOf(boot)' = DataOf(boot)
    BY <1>1, <1>2, <1>4, <1>5, EntryCells
  <1>7. op' \in Volume!Call
    <2>1. DOMAIN TableOf(boot) = Cluster(boot)
      BY <1>1, Contents
    <2>2. (done = m_bpb.tableCount) \in BOOLEAN
      OBVIOUS
    <2> QED
      BY <1>1, <1>3, <2>1, <2>2 DEF Volume!Call
  <1>8. CASE done = 0
    <2>1. ~op'.ok
      BY <1>1, <1>3, <1>5, <1>8
    <2>2. TableOf(boot)' = TableOf(boot)
      BY <1>6, <1>8
    <2> QED
      BY <1>1, <1>6, <1>7, <2>1, <2>2 DEF Volume!Next
  <1>9. CASE done # 0
    <2>1. Volume!Done(op')
      BY <1>1, <1>3, <1>6, <1>9 DEF Volume!Done
    <2> QED
      BY <1>7, <2>1 DEF Volume!Next
  <1> QED
    BY <1>8, <1>9

\* Every step is a step of Cells or changes none of its variables.
LEMMA StepCells == Inv /\ [Next]_vars => [Volume!Next]_(Volume!vars)
  <1> SUFFICES ASSUME Inv, [Next]_vars PROVE [Volume!Next]_(Volume!vars)
    OBVIOUS
  <1>1. TypeOK /\ boot \in BPB
    BY DEF Inv, TypeOK
  <1>2. ASSUME boot' = boot, media' = media, op' = op PROVE UNCHANGED Volume!vars
    BY <1>2 DEF Volume!vars, TableOf, DataOf
  <1>3. CASE mount
    <2>1. CASE media' = media /\ op' = op
      BY <1>2, <1>3, <2>1 DEF mount
    <2>2. CASE ~(media' = media /\ op' = op)
      <3>1. validateBootSector(boot) /\ boot' = boot
        BY <1>3, <2>2 DEF mount
      <3>2. PICK ok \in BOOLEAN :
              /\ media' = IF ok THEN [media EXCEPT ![rootSector(boot)] = DotBlock] ELSE media
              /\ op' = [kind |-> "data", at |-> <<ROOT_CLUSTER, 0>>, put |-> DotBlock, ok |-> ok]
        BY <1>3, <2>2 DEF mount
      <3>3. /\ ROOT_CLUSTER \in Cluster(boot) /\ 0 \in Blocks(boot) /\ DotBlock \in Block
            /\ rootSector(boot) = BlockSector(boot, ROOT_CLUSTER, 0)
        BY <1>1, <3>1, RootPlace, LayoutAssumption DEF ROOT_CLUSTER
      <3> QED
        BY <1>1, <3>1, <3>2, <3>3, BlockStep
    <2> QED
      BY <2>1, <2>2
  <1>4. CASE UpdateFatEntry
    BY <1>4, UpdateStep
  <1>5. CASE writeSector
    <2>1. mounted /\ boot' = boot /\ validateBootSector(boot) /\ m_bpb = boot
      BY <1>5, Places DEF writeSector
    <2>2. PICK c \in Cluster(boot), i \in Blocks(boot), d \in Block, ok \in BOOLEAN :
             WriteBlock(c, i, d, ok)
      BY <1>5, <2>1 DEF writeSector, Blocks
    <2>3. /\ media' = IF ok THEN [media EXCEPT ![BlockSector(boot, c, i)] = d] ELSE media
          /\ op' = [kind |-> "data", at |-> <<c, i>>, put |-> d, ok |-> ok]
      BY <2>1, <2>2, Places DEF WriteBlock
    <2> QED
      BY <1>1, <2>1, <2>2, <2>3, BlockStep
  <1>6. CASE Restart
    BY <1>2, <1>6 DEF Restart
  <1>7. CASE UNCHANGED vars
    BY <1>2, <1>7 DEF vars
  <1> QED
    BY <1>3, <1>4, <1>5, <1>6, <1>7 DEF Next

\* The volume implements Cells: whatever the geometry, the writes, the
\* failures and the restarts, a call changes the one entry or block it names.
THEOREM VolumeIsCells == Spec => IsCells
  <1>1. Init => Volume!Init
    BY DEF Init, Volume!Init
  <1> QED
    BY <1>1, StepCells, AlwaysInv, PTL DEF Spec, IsCells, Volume!Spec
=============================================================================
