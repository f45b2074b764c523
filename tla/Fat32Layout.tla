---------------------------- MODULE Fat32Layout ----------------------------
(***************************************************************************)
(* Where CFat32FileSystem (kernel/src/fs/fat32.cpp) puts the entries of    *)
(* the cluster table, its copies and the clusters on the sectors of the    *)
(* disk: the geometry that mount computes from the boot sector, and the    *)
(* reads and writes that go by it.  Fat32 takes for granted that these     *)
(* places are apart; here it is shown.                                     *)
(*                                                                         *)
(* A sector is a function from the offsets of its 32-bit words to them.    *)
(* Every write may fail, and the machine may restart at any time.          *)
(***************************************************************************)
EXTENDS Integers

CONSTANTS
    SectorSize,     \* bytes that one ATA sector holds (512)
    Sectors,        \* sectors of the disk
    BPB,            \* the boot sectors that the disk may have
    Value,          \* what is stored in the cluster table
    Block,          \* what is stored in the sectors of clusters
    DotBlock,       \* the first sector of an empty root directory
    none

VARIABLES
    boot,           \* sector 0 of the disk
    media,          \* the sectors
    m_bpb, m_firstFatSector, m_firstDataSector, m_dataSectors, m_totalClusters,
    mounted,        \* mount has returned true
    torn,           \* history: sectors of the table whose copies may differ
    op              \* history: the last write and whether it succeeded

geometry == <<m_bpb, m_firstFatSector, m_firstDataSector, m_dataSectors, m_totalClusters>>
vars == <<boot, media, geometry, mounted, torn, op>>

ROOT_CLUSTER == 2
Offset == {o \in 0 .. SectorSize - 1 : o % 4 = 0}

\* An entry has 28 bits.
EntryRange == 268435456
Mask(v) == v % EntryRange

-----------------------------------------------------------------------------
PowerOfTwo(n) == \E k \in 0 .. 15 : n = 2 ^ k

fatSize(b) == IF b.tableSize16 # 0 THEN b.tableSize16 ELSE b.tableSize32
totalSectors(b) == IF b.totalSectors16 # 0 THEN b.totalSectors16 ELSE b.totalSectors32
rootDirSectors(b) == (b.rootEntryCount * 32 + (b.bytesPerSector - 1)) \div b.bytesPerSector

validateBootSector(b) ==
    /\ b.bytesPerSector # 0 /\ PowerOfTwo(b.bytesPerSector)
    /\ b.sectorsPerCluster # 0 /\ PowerOfTwo(b.sectorsPerCluster)
    /\ b.reservedSectorCount # 0
    /\ b.tableCount # 0
    /\ fatSize(b) # 0
    /\ b.bootSignature \in {40, 41}

firstFatSector(b) == b.reservedSectorCount

firstDataSector(b) == b.reservedSectorCount + b.tableCount * fatSize(b) + rootDirSectors(b)

\* Unsigned; WellFormed keeps it from wrapping.
dataSectors(b) == totalSectors(b) - firstDataSector(b)
totalClusters(b) == dataSectors(b) \div b.sectorsPerCluster

\* The clusters that allocateCluster and freeCluster accept.
Cluster(b) == ROOT_CLUSTER .. totalClusters(b) - 1

\* What mkfs.fat -F 32 writes: sectors of the drive's size, the 16-bit fields
\* unused, a volume that fits the disk, a table with room for every cluster.
WellFormed(b) ==
    /\ {b.bytesPerSector, b.sectorsPerCluster, b.reservedSectorCount, b.tableCount,
        b.tableSize16, b.tableSize32, b.rootEntryCount, b.totalSectors16,
        b.totalSectors32} \subseteq Nat
    /\ b.bytesPerSector = SectorSize
    /\ b.tableSize16 = 0 /\ b.rootEntryCount = 0
    /\ firstDataSector(b) < totalSectors(b)
    /\ totalSectors(b) <= Sectors
    /\ totalClusters(b) > ROOT_CLUSTER
    /\ 4 * totalClusters(b) <= fatSize(b) * SectorSize

ASSUME LayoutAssumption ==
    /\ SectorSize \in Nat \ {0} /\ SectorSize % 4 = 0
    /\ Sectors \in Nat \ {0}
    /\ Value \subseteq 0 .. EntryRange - 1
    /\ Block \subseteq [Offset -> Nat]
    /\ DotBlock \in Block
    /\ \A b \in BPB : validateBootSector(b) => WellFormed(b)
    /\ none \notin BPB

-----------------------------------------------------------------------------
Init ==
    /\ boot \in BPB
    /\ media \in [0 .. Sectors - 1 -> Block]
    /\ validateBootSector(boot) =>
          \A s \in 0 .. fatSize(boot) - 1, i \in 0 .. boot.tableCount - 1 :
              media[boot.reservedSectorCount + i * fatSize(boot) + s]
                  = media[boot.reservedSectorCount + s]
    /\ m_bpb = none
    /\ m_firstFatSector = 0 /\ m_firstDataSector = 0
    /\ m_dataSectors = 0 /\ m_totalClusters = 0
    /\ mounted = FALSE /\ torn = {} /\ op = none

\* readFatEntry, updateFatEntry: the sector of an entry and its offset there.
fatSector(c) == m_firstFatSector + (c * 4) \div m_bpb.bytesPerSector

\* A mutant of the offset in the table: entries of one byte.
entOffset_unscaled(c) == c % m_bpb.bytesPerSector

entOffset(c) == (c * 4) % m_bpb.bytesPerSector
firstSector(c) == (c - 2) * m_bpb.sectorsPerCluster + m_firstDataSector

WriteBlock(c, i, d, ok) ==
    /\ media' = IF ok THEN [media EXCEPT ![firstSector(c) + i] = d] ELSE media
    /\ op' = [kind |-> "data", at |-> <<c, i>>, put |-> d, ok |-> ok]

-----------------------------------------------------------------------------
initialize(b) ==
    /\ m_bpb' = b
    /\ IF validateBootSector(b)
       THEN /\ m_firstFatSector' = firstFatSector(b)
            /\ m_firstDataSector' = firstDataSector(b)
            /\ m_dataSectors' = dataSectors(b)
            /\ m_totalClusters' = totalClusters(b)
       ELSE UNCHANGED <<m_firstFatSector, m_firstDataSector, m_dataSectors, m_totalClusters>>

rootSector(b) == (ROOT_CLUSTER - 2) * b.sectorsPerCluster + firstDataSector(b)

\* mount: a read may fail before the boot sector has been used or after it,
\* the FSInfo sector may be bad, and the root directory may need its dots.
mount ==
    /\ m_bpb = none
    /\ initialize(boot)
    /\ UNCHANGED <<boot, torn>>
    /\ \/ mounted' = FALSE /\ UNCHANGED <<media, op>>
       \/ /\ validateBootSector(boot)
          /\ IF media[rootSector(boot)][0] % 256 = 0
             THEN \E ok \in BOOLEAN :
                      /\ mounted' = ok
                      /\ media' = IF ok THEN [media EXCEPT ![rootSector(boot)] = DotBlock]
                                  ELSE media
                      /\ op' = [kind |-> "data", at |-> <<ROOT_CLUSTER, 0>>,
                                put |-> DotBlock, ok |-> ok]
             ELSE mounted' = TRUE /\ UNCHANGED <<media, op>>

\* updateFatEntry reads the sector from the first copy of the table, changes
\* one entry and writes the whole sector to each copy until a write fails.
FatCopies(c, done) == {fatSector(c) + i * m_bpb.tableSize32 : i \in 0 .. done - 1}

\* A mutant of updateFatEntry: the sector is not read before.
updateFatEntry_fresh_sector(c, v) ==
    \E done \in 0 .. m_bpb.tableCount :
        LET sectorData == [o \in Offset |-> IF o = entOffset(c) THEN Mask(v) ELSE 0]
            ok == done = m_bpb.tableCount
        IN  /\ media' = [s \in DOMAIN media |->
                            IF s \in FatCopies(c, done) THEN sectorData ELSE media[s]]
            /\ torn' = IF ok THEN torn \ {fatSector(c)}
                       ELSE IF done = 0 THEN torn ELSE torn \cup {fatSector(c)}
            /\ op' = [kind |-> "fat", at |-> c, put |-> v, ok |-> ok]

\* A mutant of updateFatEntry: the last copy is not written.
updateFatEntry_skips_last(c, v) ==
    LET sectorData == [media[fatSector(c)] EXCEPT ![entOffset(c)] = Mask(v)]
    IN  /\ media' = [s \in DOMAIN media |->
                        IF s \in FatCopies(c, m_bpb.tableCount - 1) THEN sectorData ELSE media[s]]
        /\ torn' = torn \ {fatSector(c)}
        /\ op' = [kind |-> "fat", at |-> c, put |-> v, ok |-> TRUE]

updateFatEntry(c, v) ==
    \E done \in 0 .. m_bpb.tableCount :
        LET sectorData == [media[fatSector(c)] EXCEPT ![entOffset(c)] = Mask(v)]
            ok == done = m_bpb.tableCount
        IN  /\ media' = [s \in DOMAIN media |->
                            IF s \in FatCopies(c, done) THEN sectorData ELSE media[s]]
            /\ torn' = IF ok THEN torn \ {fatSector(c)}
                       ELSE IF done = 0 THEN torn ELSE torn \cup {fatSector(c)}
            /\ op' = [kind |-> "fat", at |-> c, put |-> v, ok |-> ok]

UpdateFatEntry ==
    /\ mounted
    /\ \E c \in Cluster(m_bpb), v \in Value : updateFatEntry(c, v)
    /\ UNCHANGED <<boot, geometry, mounted>>

\* writeFile and the writers of directory entries: one sector of a cluster.
writeSector ==
    /\ mounted
    /\ \E c \in Cluster(m_bpb), i \in 0 .. m_bpb.sectorsPerCluster - 1,
          d \in Block, ok \in BOOLEAN : WriteBlock(c, i, d, ok)
    /\ UNCHANGED <<boot, geometry, mounted, torn>>

\* A power loss, or a boot after a failed mount: memory is lost, not the disk.
Restart ==
    /\ m_bpb' = none
    /\ m_firstFatSector' = 0 /\ m_firstDataSector' = 0
    /\ m_dataSectors' = 0 /\ m_totalClusters' = 0
    /\ mounted' = FALSE
    /\ UNCHANGED <<boot, media, torn, op>>

Next == mount \/ UpdateFatEntry \/ writeSector \/ Restart

Spec == Init /\ [][Next]_vars

-----------------------------------------------------------------------------
\* The geometry is that of a boot sector that validateBootSector accepts
\* whenever the volume is in use.
TypeOK ==
    /\ boot \in BPB
    /\ media \in [0 .. Sectors - 1 -> [Offset -> Nat]]
    /\ m_bpb \in {none, boot}
    /\ {m_firstFatSector, m_firstDataSector, m_dataSectors, m_totalClusters} \subseteq Nat
    /\ mounted => m_bpb = boot /\ validateBootSector(boot)
    /\ torn \subseteq 0 .. Sectors - 1

\* No two places overlap.  An entry of the cluster table lies in one sector,
\* every copy of it lies between the reserved sectors and the data, and no
\* two clusters share an entry; every sector of a cluster lies in the data
\* area and on the disk, and belongs to no other cluster (readFatEntry,
\* updateFatEntry, writeFile).
CellsApart ==
    mounted =>
        /\ \A c \in Cluster(m_bpb) :
              /\ entOffset(c) \in Offset
              /\ \A i \in 0 .. m_bpb.tableCount - 1 :
                    fatSector(c) + i * m_bpb.tableSize32
                        \in m_bpb.reservedSectorCount .. m_firstDataSector - 1
              /\ \A i \in 0 .. m_bpb.sectorsPerCluster - 1 :
                    firstSector(c) + i \in m_firstDataSector .. Sectors - 1
        /\ \A c, d \in Cluster(m_bpb) : c # d =>
              /\ fatSector(c) # fatSector(d) \/ entOffset(c) # entOffset(d)
              /\ \A i, j \in 0 .. m_bpb.sectorsPerCluster - 1 :
                    firstSector(c) + i # firstSector(d) + j

\* The copies of the table agree on every sector but those where an update
\* failed halfway and none has succeeded since: updateFatEntry writes a whole
\* sector to each copy, and so repairs what an earlier failure left behind.
FatCopiesAgree ==
    validateBootSector(boot) =>
        \A s \in firstFatSector(boot) .. firstFatSector(boot) + fatSize(boot) - 1 :
            s \notin torn =>
                \A i \in 0 .. boot.tableCount - 1 : media[s + i * fatSize(boot)] = media[s]

\* What the volume holds, by the geometry of its boot sector.
TableOf(b) ==
    [c \in Cluster(b) |->
        Mask(media[firstFatSector(b) + (c * 4) \div SectorSize][(c * 4) % SectorSize])]
DataOf(b) ==
    [k \in Cluster(b) \X (0 .. b.sectorsPerCluster - 1) |->
        media[(k[1] - 2) * b.sectorsPerCluster + firstDataSector(b) + k[2]]]

Volume == INSTANCE Cells WITH
    fat <- IF validateBootSector(boot) THEN TableOf(boot) ELSE <<>>,
    data <- IF validateBootSector(boot) THEN DataOf(boot) ELSE <<>>

\* Through any sequence of writes, failed writes, restarts and mounts, the
\* volume is a table of entries and an array of blocks: a write changes the
\* one cell it names and no other (updateFatEntry, writeFile, mount).
IsCells == Volume!Spec

=============================================================================
