CONSTANTS
    PAGE_SIZE = 8
    MemoryStart = 8
    TotalFrames = 8
    FirstMbFrames = 1
    PageTableFrames = 1
    HeapFrames = 4
    HeaderSize = 3
    Alignment = 2
    MinRemainder = 4
    Request = {0, 1, 4, 9}
SPECIFICATION Spec
INVARIANTS
    BlocksTileHeap
    FramesStayConsistent
    HeapLentLast
PROPERTY IsAllocator
CHECK_DEADLOCK FALSE
