-------------------------------- MODULE Heap --------------------------------
(***************************************************************************)
(* The kernel heap, HeapAllocator (kernel/src/memory/heap.cpp), which      *)
(* operator new and delete call, with the page frames that it takes from   *)
(* and returns to the frame allocator.                                     *)
(*                                                                         *)
(* The block list is a sequence of records in list order.  allocate takes  *)
(* frames and keeps no note of them; free returns the frames at the        *)
(* block's own addresses, which are then free for anyone to take.  Whoever *)
(* takes one writes over heap memory, after which nothing is known of the  *)
(* blocks: the model stops there.  m_used_memory, which only cmd_memory    *)
(* reports, is left out.                                                   *)
(***************************************************************************)
EXTENDS PhysicalMemory, Sequences

CONSTANTS
    HeaderSize,     \* sizeof(HeapBlock) (24 bytes)
    Alignment,      \* sizes are rounded up to a multiple of it (16)
    MinRemainder,   \* least size of a block that is split off (32)
    Request         \* the sizes that callers ask for

\* The heap has room for the header of its first block.
ASSUME HeapAssumption ==
    /\ HeaderSize \in Nat \ {0} /\ HeaderSize <= HeapFrames * PAGE_SIZE
    /\ Alignment \in Nat \ {0} /\ MinRemainder \in Nat
    /\ Request \subseteq Nat

VARIABLES
    blocks,         \* the list from m_first_block: [addr, size, free]
    owned,          \* what callers hold: [ptr, size], size as requested
    held,           \* the frames that code outside the heap was given
    overwritten     \* one of them is a frame of the heap

vars == <<blocks, owned, held, overwritten, pmmVars>>

\* kernel_main: the heap is the last HeapFrames frames of memory.
heap_start == MemoryStart + (TotalFrames - HeapFrames) * PAGE_SIZE
heap_size == HeapFrames * PAGE_SIZE
heap_end == heap_start + heap_size

initialize ==
    /\ blocks = <<[addr |-> heap_start, size |-> heap_size - HeaderSize,
                   free |-> TRUE]>>
    /\ owned = {} /\ held = {}
    /\ overwritten = FALSE

-----------------------------------------------------------------------------
Rounded(size) == ((size + Alignment - 1) \div Alignment) * Alignment
num_pages(size) == (size + PAGE_SIZE - 1) \div PAGE_SIZE
Pointer(block) == block.addr + HeaderSize

\* A mutant of find_free_block: the block's size is not compared.
FitsAny(i, size) == blocks[i].free

\* find_free_block: first fit.
Fits(i, size) == blocks[i].free /\ blocks[i].size >= size
find_free_block(size) ==
    {i \in DOMAIN blocks :
       Fits(i, size) /\ \A j \in 1 .. i - 1 : ~Fits(j, size)}

\* split_block: the block, and the free rest when it is large enough.
split_block(block, size) ==
    IF block.size >= size + HeaderSize + MinRemainder
      THEN <<[block EXCEPT !.size = size],
             [addr |-> block.addr + HeaderSize + size,
              size |-> block.size - size - HeaderSize, free |-> TRUE]>>
      ELSE <<block>>

\* The frames at the first n page addresses from a block on.
FramesAt(addr, n) ==
    {frame_index(a) : a \in {b \in {addr + j * PAGE_SIZE : j \in 0 .. n - 1} :
                                   Managed(b)}}

\* A mutant of allocate: the frames are taken whether or not they are free.
FirstFrames(n) == 0 .. n - 1

\* The first n of a row of allocate_frame calls set the n lowest clear bits.
Lowest(n) == {f \in Clear : Cardinality({g \in Clear : g < f}) < n}

\* allocate.  Without enough frames it returns nullptr: the block stays used,
\* the frames taken so far stay taken, and as many frames at the block's own
\* addresses are freed.
allocate(request) ==
    LET size  == Rounded(request)
        n     == num_pages(size)
        taken == IF m_free_frames >= n THEN n ELSE m_free_frames
        bits  == bitmap \cup Lowest(taken)
    IN
    /\ request # 0
    /\ \E i \in find_free_block(size) :
         LET block == blocks[i]
             freed == IF taken = n THEN {} ELSE FramesAt(block.addr, taken)
         IN
         /\ blocks' = SubSeq(blocks, 1, i - 1)
                        \o split_block([block EXCEPT !.free = FALSE], size)
                        \o SubSeq(blocks, i + 1, Len(blocks))
         /\ owned' = IF taken = n
                       THEN owned \cup {[ptr |-> Pointer(block), size |-> request]}
                       ELSE owned
         /\ bitmap' = bits \ freed
         /\ m_free_frames' =
              m_free_frames - taken + Cardinality(freed \cap bits)
         /\ UNCHANGED <<held, overwritten>>

-----------------------------------------------------------------------------

\* A mutant of merge_free_blocks: the header between two blocks is lost.
MergeWithoutHeader(list, block) ==
    IF list # <<>> /\ list[Len(list)].free /\ block.free
      THEN [list EXCEPT ![Len(list)].size = @ + block.size]
      ELSE Append(list, block)

\* One round of the loop of merge_free_blocks: list is what the loop has
\* passed, its last block being current.
MergeInto(list, block) ==
    IF list # <<>> /\ list[Len(list)].free /\ block.free
      THEN [list EXCEPT ![Len(list)].size = @ + HeaderSize + block.size]
      ELSE Append(list, block)

merge_free_blocks(list) ==
    LET merged[i \in 0 .. Len(list)] ==
          IF i = 0 THEN <<>> ELSE MergeInto(merged[i - 1], list[i])
    IN  merged[Len(list)]

\* free of a pointer that allocate returned.
free(range) ==
    \E i \in DOMAIN blocks :
      LET block  == blocks[i]
          frames == FramesAt(block.addr, num_pages(block.size))
      IN
      /\ Pointer(block) = range.ptr
      /\ blocks' = merge_free_blocks([blocks EXCEPT ![i].free = TRUE])
      /\ owned' = owned \ {range}
      /\ bitmap' = bitmap \ frames
      /\ m_free_frames' = m_free_frames + Cardinality(frames \cap bitmap)
      /\ UNCHANGED <<held, overwritten>>

\* Code outside the heap takes a frame (stacks, page tables, user pages), and
\* gives one back.
take_frame ==
    /\ allocate_frame
    /\ held' = held \cup (bitmap' \ bitmap)
    /\ overwritten' = (held' \cap HeapRange # {})
    /\ UNCHANGED <<blocks, owned>>

return_frame ==
    \E f \in held :
      /\ free_frame(MemoryStart + f * PAGE_SIZE)
      /\ held' = held \ {f}
      /\ UNCHANGED <<blocks, owned, overwritten>>

Init == FrameInit /\ initialize

Next ==
    /\ ~overwritten
    /\ \/ \E request \in Request : allocate(request)
       \/ \E range \in owned : free(range)
       \/ take_frame \/ return_frame

Spec == Init /\ [][Next]_vars

-----------------------------------------------------------------------------
Block == [addr : heap_start .. heap_end, size : 0 .. heap_size, free : BOOLEAN]

TypeOK ==
    /\ blocks \in Seq(Block)
    /\ owned \subseteq [ptr : heap_start .. heap_end, size : Request]
    /\ overwritten \in BOOLEAN
    /\ bitmap \subseteq Frame /\ held \subseteq Frame
    /\ m_free_frames \in 0 .. TotalFrames

\* The blocks tile the heap: each starts where the one before it ends, the
\* first at the start of the heap, and the last ends at its end.  A split or
\* merge that is a byte off loses memory or gives it out twice.  No two free
\* blocks lie side by side, so that a heap with nothing in it is one block.
BlocksTileHeap ==
    LET EndOf(b) == b.addr + HeaderSize + b.size IN
    /\ TypeOK
    /\ blocks # <<>>
    /\ Head(blocks).addr = heap_start
    /\ EndOf(blocks[Len(blocks)]) = heap_end
    /\ \A i \in 1 .. Len(blocks) - 1 :
         /\ blocks[i + 1].addr = EndOf(blocks[i])
         /\ ~(blocks[i].free /\ blocks[i + 1].free)

\* However frames run out between heap and other users, and although free
\* returns other frames than allocate took, the frame count stays exact, the
\* frames of the first megabyte and of the boot page tables stay taken, and so
\* does every frame that other code holds.
FramesStayConsistent ==
    /\ FreeCountExact
    /\ FirstMb \cup PageTableRange \cup held \subseteq bitmap

\* A frame of the heap that free returned is given to other code only after
\* every frame below the heap is in use: up to that point the heap keeps its
\* memory to itself, although the bitmap says that parts of it are free.
HeapLentLast ==
    overwritten => Frame \ HeapRange \subseteq bitmap

Abstract == INSTANCE Allocator
              WITH RangeStart <- heap_start, RangeEnd <- heap_end,
                   ranges <- owned

\* The heap is an allocator: whatever first fit, splitting and merging do to
\* the blocks, a caller is given as many bytes as it asked for, inside the
\* heap and apart from what every other caller still holds.
IsAllocator == Abstract!Spec
=============================================================================
