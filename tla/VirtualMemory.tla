--------------------------- MODULE VirtualMemory ---------------------------
(***************************************************************************)
(* The four-level page tables (kernel/src/memory/virtual_memory.cpp) with  *)
(* the frames they and their users take: kernel stacks of processes        *)
(* (process.cpp), shared memory (ipc.cpp) and stacks for the other CPUs    *)
(* (smp.cpp).  Virtual and physical addresses are page numbers.  `event'   *)
(* names what the code does not survive: "nomem", a page table at address  *)
(* 0 because there was no frame for it; "fault", a page table in a frame   *)
(* that the kernel's own identity map does not reach.  The heap keeps its  *)
(* frames here; Heap models how it may lose them.                          *)
(***************************************************************************)
EXTENDS Integers, FiniteSetsExt, SequencesExt

CONSTANTS
    ENTRIES_PER_TABLE,
    FirstFrame, LastFrame,   \* the frames of the physical memory manager
    HeapFrames,              \* of these, the ones at the top that are the heap's
    HugeEntries,             \* entries of the first page directory that map the
                             \* lowest memory in huge pages (8)
    VGA,                     \* the page of the screen, below FirstFrame
    CPUS,                    \* processors in the MADT
    StackPages,              \* pages of a kernel stack (4)
    MaxRegionPages,          \* MAX_SHARED_MEMORY_SIZE in pages
    MaxPid, MaxRegion        \* bounds: processes and regions ever created

E == ENTRIES_PER_TABLE
Page == 0 .. E * E * E * E - 1
Frame == FirstFrame .. LastFrame
HeapRange == LastFrame - HeapFrames + 1 .. LastFrame
ASSUME MemoryAssumption ==
    /\ E \in Nat \ {0, 1} /\ VGA \in 1 .. FirstFrame - 1
    /\ HugeEntries \in 1 .. E /\ FirstFrame <= HugeEntries * E
    /\ LastFrame < E * E * E

\* The quarters of the address space: identity map, direct map (0xFFFF8...),
\* shared memory, and kernel stacks in the last entry of the PML4.
quarter(n) == n * E * E * E
HIGH == quarter(1)
SHARED == quarter(2)
KERNEL == quarter(E - 1)
kernel_stack_base(pid) == KERNEL + pid * StackPages
shared_mem_base(id) == SHARED + (id - 1) * MaxRegionPages

VARIABLES
    mem,             \* memory: frames in use, page tables, and the event
    processes,       \* pids of the processes that exist
    m_next_pid,
    m_shared_memory_regions,
    m_next_shared_memory_id,
    orphans,         \* history: pages whose process was never created
    space,           \* history: what the tables map each page to
    tlb              \* history: every translation a processor may have cached

vars == <<mem, processes, m_next_pid, m_shared_memory_regions, m_next_shared_memory_id,
          orphans, space, tlb>>

-----------------------------------------------------------------------------
\* The frame allocator, see PhysicalMemory; 0 for no frame.
free_frames(m) == Frame \ m.used
allocate_frame(m) == IF free_frames(m) = {} THEN 0 ELSE Min(free_frames(m))
take(m, f) == [m EXCEPT !.used = @ \cup {f}]
free_frame(m, f) == [m EXCEPT !.used = @ \ {f}]

\* The entries that are present are a function of <<table, index>>.
Present(m, t, i) == <<t, i>> \in DOMAIN m.entries
Entry(m, t, i) == m.entries[t, i]

\* create_page_table clears the frame without asking whether there is one.
identity_mapped(f) == f \in 0 .. HugeEntries * E - 1 \/ f \in HeapRange
create_page_table(m) ==
    LET f == allocate_frame(m)
        u == [take(m, f) EXCEPT !.entries = Restrict(@, {d \in DOMAIN @ : d[1] # f})]
    IN  [u EXCEPT !.event = IF @ # "none" THEN @
                            ELSE IF f = 0 THEN "nomem"
                            ELSE IF identity_mapped(f) THEN "none" ELSE "fault",
                  !.new = f]

set_entry(m, t, i, f) == [m EXCEPT !.entries = (<<t, i>> :> f) @@ @]
index(p, l) == (p \div (E ^ (l - 1))) % E

\* get_next_level(create = true): the memory with the table there.
add_level(m, t, i) ==
    IF Present(m, t, i) THEN m
    ELSE LET u == create_page_table(m) IN set_entry(u, t, i, u.new)

\* A huge page's entry is followed like any other.
map_page(m, p, f) ==
    LET m3 == add_level(m, m.pml4, index(p, 4))
        t3 == Entry(m3, m.pml4, index(p, 4))
        m2 == add_level(m3, t3, index(p, 3))
        t2 == Entry(m2, t3, index(p, 3))
        m1 == add_level(m2, t2, index(p, 2))
        t1 == Entry(m1, t2, index(p, 2))
    IN  IF Present(m1, t1, index(p, 1)) THEN m1 ELSE set_entry(m1, t1, index(p, 1), f)

\* The table of the last level on the way to p, 0 when a level is missing.
last_table(m, p) ==
    LET i4 == index(p, 4)  i3 == index(p, 3)  i2 == index(p, 2)
        t3 == Entry(m, m.pml4, i4)
        t2 == Entry(m, t3, i3)
    IN  IF Present(m, m.pml4, i4) /\ Present(m, t3, i3) /\ Present(m, t2, i2)
        THEN Entry(m, t2, i2) ELSE -1

get_physical_address(m, p) ==
    LET t == last_table(m, p) IN IF Present(m, t, index(p, 1)) THEN Entry(m, t, index(p, 1)) ELSE 0

unmap_page(m, p) ==
    [m EXCEPT !.entries = Restrict(@, DOMAIN @ \ {<<last_table(m, p), index(p, 1)>>})]

\* A mutant of the loops that give pages back: the page stays mapped.
release_keeps_entry(m, p) ==
    LET f == get_physical_address(m, p) IN IF f = 0 THEN m ELSE free_frame(m, f)

\* The frame of a page is given back and the page unmapped, if it has one.
release(m, p) ==
    LET f == get_physical_address(m, p) IN IF f = 0 THEN m ELSE unmap_page(free_frame(m, f), p)

\* The steps of a loop over pages, from the first on.
over(op(_, _), m, base, n) == FoldLeft(LAMBDA u, k : op(u, base + k - 1), m, [k \in 1 .. n |-> k])

-----------------------------------------------------------------------------
\* VirtualMemoryManager::initialize.
vmm_initialize ==
    LET m0 == [used |-> HeapRange, entries |-> <<>>, pml4 |-> 0, event |-> "none", new |-> 0]
        m1 == create_page_table(m0)
        m2 == create_page_table([m1 EXCEPT !.pml4 = m1.new])
        m3 == create_page_table(set_entry(m2, m2.pml4, 0, m2.new))
        m4 == FoldLeft(LAMBDA u, k : set_entry(u, m3.new, k - 1, (k - 1) * E),
                       set_entry(m3, m2.new, 0, m3.new), [k \in 1 .. HugeEntries |-> k])
        m5 == create_page_table(m4)
    IN  map_page(set_entry(m5, m5.pml4, E - 1, m5.new), VGA, VGA)

\* kernel_main: the heap is mapped to itself.
map_heap(m) ==
    over(LAMBDA u, p : map_page(u, p, p), m, Min(HeapRange), HeapFrames)

\* detect_cpus: a stack's frames are taken one by one and mapped as a run
\* that begins at the first.
cpu_stack(m) ==
    LET first == allocate_frame(m)
        u == FoldLeft(LAMBDA v, k : take(v, allocate_frame(v)), m, [k \in 1 .. StackPages |-> k])
    IN  over(LAMBDA v, p : map_page(v, HIGH + p, p), u, first, StackPages)

boot == FoldLeft(LAMBDA m, k : cpu_stack(m), map_heap(vmm_initialize), [k \in 1 .. CPUS |-> k])

\* The pages that somebody may use, and what they are mapped to.
UserPage ==
    HeapRange \cup {HIGH + f : f \in Frame}
    \cup SHARED .. shared_mem_base(MaxRegion + 1) - 1
    \cup KERNEL .. kernel_stack_base(MaxPid + 1) - 1
translate(m) == [p \in UserPage |-> get_physical_address(m, p)]
mapped(sp) == {<<p, sp[p]>> : p \in {q \in UserPage : sp[q] # 0}}

Init ==
    /\ mem = boot
    /\ processes = {} /\ m_next_pid = 1
    /\ m_shared_memory_regions = <<>> /\ m_next_shared_memory_id = 1
    /\ orphans = {}
    /\ space = translate(boot)
    /\ tlb = mapped(translate(boot))

cache(sp) == tlb' = tlb \cup mapped(sp)

\* A mutant of the loops that map pages: a page takes the frame of the one
\* before it, if that has one.
back_same_frame(m, p) ==
    LET g == get_physical_address(m, p - 1)
        f == IF g = 0 THEN allocate_frame(m) ELSE g
    IN  IF m.short \/ f = 0 THEN [m EXCEPT !.short = TRUE] ELSE map_page(take(m, f), p, f)

\* A page for a user: a frame, mapped.  Once there is no frame, nothing more.
back(m, p) ==
    LET f == allocate_frame(m)
    IN  IF m.short \/ f = 0 THEN [m EXCEPT !.short = TRUE] ELSE map_page(take(m, f), p, f)
mark(m) == [short |-> FALSE] @@ m
unmark(m) == [[k \in DOMAIN m \ {"short"} |-> m[k]] EXCEPT !.new = 0]

create_process ==
    LET base == kernel_stack_base(m_next_pid)
        m == over(back, mark(mem), base, StackPages)
    IN  /\ mem.event = "none" /\ m_next_pid <= MaxPid
        /\ mem' = unmark(m) /\ space' = translate(mem')
        /\ m_next_pid' = m_next_pid + 1
        /\ processes' = IF m.short THEN processes ELSE processes \cup {m_next_pid}
        /\ orphans' = IF m.short THEN orphans \cup {p \in base .. base + StackPages - 1 :
                                                       get_physical_address(m, p) # 0}
                      ELSE orphans
        /\ cache(space')
        /\ UNCHANGED <<m_shared_memory_regions, m_next_shared_memory_id>>

terminate_process(pid) ==
    /\ mem.event = "none" /\ pid \in processes
    /\ mem' = over(release, mem, kernel_stack_base(pid), StackPages)
    /\ space' = translate(mem')
    /\ processes' = processes \ {pid}
    /\ UNCHANGED <<m_next_pid, m_shared_memory_regions, m_next_shared_memory_id, orphans, tlb>>

\* A mutant of create_shared_memory: what was mapped before a failure stays.
create_without_rollback(creator, pages) ==
    LET base == shared_mem_base(m_next_shared_memory_id)
        m == over(back, mark(mem), base, pages)
    IN  /\ mem.event = "none" /\ m_next_shared_memory_id <= MaxRegion /\ creator \in processes
        /\ mem' = unmark(m) /\ space' = translate(mem') /\ cache(space')
        /\ m_next_shared_memory_id' = m_next_shared_memory_id + 1
        /\ m_shared_memory_regions' =
              IF m.short THEN m_shared_memory_regions
              ELSE Append(m_shared_memory_regions,
                          [id |-> m_next_shared_memory_id, size |-> pages, attached |-> {creator}])
        /\ UNCHANGED <<processes, m_next_pid, orphans>>

create_shared_memory(creator, pages) ==
    LET base == shared_mem_base(m_next_shared_memory_id)
        m == over(back, mark(mem), base, pages)
    IN  /\ mem.event = "none" /\ m_next_shared_memory_id <= MaxRegion /\ creator \in processes
        /\ mem' = IF m.short THEN over(release, unmark(m), base, pages) ELSE unmark(m)
        /\ m_next_shared_memory_id' = m_next_shared_memory_id + 1
        /\ m_shared_memory_regions' =
              IF m.short THEN m_shared_memory_regions
              ELSE Append(m_shared_memory_regions,
                          [id |-> m_next_shared_memory_id, size |-> pages, attached |-> {creator}])
        /\ space' = translate(mem') /\ cache(translate(m))
        /\ UNCHANGED <<processes, m_next_pid, orphans>>

Region(i) == m_shared_memory_regions[i]

\* A mutant of destroy_shared_memory: the last id is given out again.
destroy_reuses_id(i) ==
    /\ mem.event = "none" /\ i \in DOMAIN m_shared_memory_regions
    /\ mem' = over(release, mem, shared_mem_base(Region(i).id), Region(i).size)
    /\ space' = translate(mem')
    /\ m_shared_memory_regions' = RemoveAt(m_shared_memory_regions, i)
    /\ m_next_shared_memory_id' =
          IF Region(i).id = m_next_shared_memory_id - 1 THEN Region(i).id ELSE m_next_shared_memory_id
    /\ UNCHANGED <<processes, m_next_pid, orphans, tlb>>

destroy_shared_memory(i) ==
    /\ mem.event = "none" /\ i \in DOMAIN m_shared_memory_regions
    /\ mem' = over(release, mem, shared_mem_base(Region(i).id), Region(i).size)
    /\ space' = translate(mem')
    /\ m_shared_memory_regions' = RemoveAt(m_shared_memory_regions, i)
    /\ UNCHANGED <<processes, m_next_pid, m_next_shared_memory_id, orphans, tlb>>

attach_shared_memory(i, pid) ==
    /\ mem.event = "none" /\ i \in DOMAIN m_shared_memory_regions
    /\ m_shared_memory_regions' = [m_shared_memory_regions EXCEPT ![i].attached = @ \cup {pid}]
    /\ UNCHANGED <<mem, processes, m_next_pid, m_next_shared_memory_id, orphans, space, tlb>>

detach_shared_memory(i, pid) ==
    /\ mem.event = "none" /\ i \in DOMAIN m_shared_memory_regions /\ pid \in Region(i).attached
    /\ m_shared_memory_regions' = [m_shared_memory_regions EXCEPT ![i].attached = @ \ {pid}]
    /\ UNCHANGED <<mem, processes, m_next_pid, m_next_shared_memory_id, orphans, space, tlb>>

Next ==
    \/ create_process
    \/ \E pid \in processes :
          \/ terminate_process(pid)
          \/ \E n \in 1 .. MaxRegionPages : create_shared_memory(pid, n)
          \/ \E i \in DOMAIN m_shared_memory_regions :
                attach_shared_memory(i, pid) \/ detach_shared_memory(i, pid)
    \/ \E i \in DOMAIN m_shared_memory_regions : destroy_shared_memory(i)

Spec == Init /\ [][Next]_vars

-----------------------------------------------------------------------------
\* Every variable has its type.
TypeOK ==
    /\ mem.used \subseteq Frame \cup {0}
    /\ DOMAIN mem.entries \subseteq (0 .. LastFrame) \X (0 .. E - 1)
    /\ mem.event \in {"none", "nomem", "fault"}
    /\ processes \subseteq 1 .. MaxPid /\ m_next_pid \in 1 .. MaxPid + 1

\* The page tables: the PML4 and what entries above the last level point to.
EntriesOf(T) == {d \in DOMAIN mem.entries : d[1] \in T}
Target(D) == {mem.entries[d] : d \in D}
Huge == {<<Entry(mem, Entry(mem, mem.pml4, 0), 0), i>> : i \in 0 .. HugeEntries - 1}
Level4 == EntriesOf({mem.pml4})
Level3 == EntriesOf(Target(Level4))
Level2 == EntriesOf(Target(Level3)) \ Huge
TableFrames == {mem.pml4} \cup Target(Level4 \cup Level3 \cup Level2)
DataFrames == {space[p] : p \in UserPage} \ {0}

\* The tables form a tree of frames of their own: no table hangs at two
\* places, none is a page that somebody uses, none is free for the next
\* allocate_frame.  A table in a frame with a second use would be overwritten.
TablesAreTree ==
    /\ Cardinality(TableFrames) = 1 + Cardinality(Level4 \cup Level3 \cup Level2)
    /\ TableFrames \cap DataFrames = {}
    /\ TableFrames \subseteq mem.used

\* Every frame is accounted for: the tables are a tree, in use are the heap,
\* the tables and the frames behind pages, and nothing else, also after an
\* operation gave up half-way for want of a frame.
FramesAccounted ==
    /\ TypeOK
    /\ mem.event = "none" =>
          TablesAreTree /\ mem.used = HeapRange \cup TableFrames \cup DataFrames

\* The pages that are mapped belong to what exists: heap, CPU stacks, the
\* stack of each process and each shared region, all of them and complete.
\* Only a create_process that found no frame leaves pages behind.
Stack(pid) == kernel_stack_base(pid) .. kernel_stack_base(pid) + StackPages - 1
LivePages ==
    HeapRange
    \cup UNION {Stack(pid) : pid \in processes}
    \cup UNION {shared_mem_base(r.id) .. shared_mem_base(r.id) + r.size - 1 :
                    r \in Range(m_shared_memory_regions)}
MappedIsLive ==
    mem.event = "none" =>
        {p \in UserPage : space[p] # 0 /\ p \notin HIGH .. SHARED - 1}
            = LivePages \cup orphans

\* unmap_page flushes no TLB.  It need not: a page is never mapped to another
\* frame than the one it once had, since pids and region ids are not reused.
TlbAgrees ==
    mem.event = "none" =>
        \A t \in tlb : space[t[1]] \in {0, t[2]}

\* The tables implement a plain map from pages to frames, up to an event.
Shared(id) == shared_mem_base(id) .. shared_mem_base(id + 1) - 1
Plain == INSTANCE AddressSpace WITH Page <- UserPage,
             Block <- {Stack(pid) : pid \in 1 .. MaxPid} \cup {Shared(id) : id \in 1 .. MaxRegion}
IsAddressSpace == [][mem'.event = "none" => Plain!Next \/ UNCHANGED space]_vars
=============================================================================
