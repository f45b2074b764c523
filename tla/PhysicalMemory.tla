-------------------------- MODULE PhysicalMemory ---------------------------
(***************************************************************************)
(* The bitmap allocator of physical page frames, PhysicalMemoryManager     *)
(* (kernel/src/memory/physical_memory.cpp).  The bitmap is the set of      *)
(* frame indices whose bit is 1; addresses are byte addresses.             *)
(***************************************************************************)
EXTENDS Integers, FiniteSets

CONSTANTS
    PAGE_SIZE,        \* bytes in a page (4096 in the kernel)
    MemoryStart,      \* m_memory_start: the first managed address (1 MB)
    TotalFrames,      \* m_total_frames: memory_size / PAGE_SIZE (16384)
    FirstMbFrames,    \* first_mb_frames: reserved at the bottom (256)
    PageTableFrames,  \* page_table_frames: reserved just above (5)
    HeapFrames        \* heap_frames: reserved at the top (4096)

\* What kernel_main's arguments guarantee: the three ranges that initialize
\* reserves do not overlap.
ASSUME FrameAssumption ==
    /\ PAGE_SIZE \in Nat \ {0}
    /\ MemoryStart \in Nat
    /\ TotalFrames \in Nat
    /\ FirstMbFrames \in Nat
    /\ PageTableFrames \in Nat
    /\ HeapFrames \in Nat
    /\ FirstMbFrames + PageTableFrames + HeapFrames <= TotalFrames

VARIABLES
    bitmap,           \* m_bitmap: the frames whose bit is set
    m_free_frames     \* the cached count of clear bits

pmmVars == <<bitmap, m_free_frames>>

Frame == 0 .. TotalFrames - 1
Address == 0 .. MemoryStart + (TotalFrames + 1) * PAGE_SIZE
Clear == Frame \ bitmap

\* The ranges marked by initialize, in its order.
FirstMb == 0 .. FirstMbFrames - 1
heap_start_frame == TotalFrames - HeapFrames
HeapRange == heap_start_frame .. heap_start_frame + HeapFrames - 1
PageTableRange == FirstMbFrames .. FirstMbFrames + PageTableFrames - 1

\* initialize: all bits cleared, then every marked frame is also subtracted
\* from the count.
FrameInit ==
    /\ bitmap = FirstMb \cup HeapRange \cup PageTableRange
    /\ m_free_frames = TotalFrames - FirstMbFrames - HeapFrames - PageTableFrames

-----------------------------------------------------------------------------
\* The bit updates shared by the operations below.
SetBit(i) ==
    /\ bitmap' = bitmap \cup {i}
    /\ m_free_frames' = m_free_frames - 1

ClearBit(i) ==
    IF i \in bitmap
      THEN /\ bitmap' = bitmap \ {i}
           /\ m_free_frames' = m_free_frames + 1
      ELSE UNCHANGED pmmVars

\* A mutant of allocate_frame: the scan starts at the other end.
IsLastClear(i) == i \in Clear /\ \A j \in Clear : j <= i

\* allocate_frame takes the lowest clear bit; it returns nullptr, with no
\* change, when the count is 0 or the scan finds no clear bit.
IsFirstClear(i) == i \in Clear /\ \A j \in Clear : i <= j

allocate_frame ==
    /\ m_free_frames # 0
    /\ \E i \in Clear : IsFirstClear(i) /\ SetBit(i)

\* free_frame ignores an address outside the managed range, and rounds any
\* other address down to its frame.
frame_index(addr) == (addr - MemoryStart) \div PAGE_SIZE
Managed(addr) == addr >= MemoryStart /\ frame_index(addr) < TotalFrames

free_frame(addr) ==
    IF Managed(addr) THEN ClearBit(frame_index(addr)) ELSE UNCHANGED pmmVars

FrameNext ==
    \/ allocate_frame
    \/ \E addr \in Address : free_frame(addr)

FrameSpec == FrameInit /\ [][FrameNext]_pmmVars

-----------------------------------------------------------------------------
FrameTypeOK ==
    /\ bitmap \in SUBSET Frame
    /\ m_free_frames \in Nat

\* The cached m_free_frames always equals the number of clear bits, whatever
\* addresses callers pass to free_frame and however often: allocate_frame may
\* trust the count, its "No free frames available" fall-through is dead code,
\* and cmd_memory never sees more free frames than frames.
FreeCountExact == m_free_frames = Cardinality(Clear)
=============================================================================
