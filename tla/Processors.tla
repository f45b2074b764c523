---------------------------- MODULE Processors ----------------------------
(***************************************************************************)
(* How the kernel finds its processors at start-up: Scheduler::initialize, *)
(* init_acpi (kernel/src/hw/acpi.cpp) and SMPManager (hw/smp.cpp), then    *)
(* the command cores and what the scheduler takes for the current          *)
(* processor.  What the firmware left in memory is `fw', any of a given    *)
(* set.  A table is read through pages mapped for it; `event' "fault" is a *)
(* read of a page that is not mapped, "ap" the start of another processor, *)
(* whose trampoline loads 0 as its page table.  Frames and page tables are *)
(* in VirtualMemory.                                                       *)
(***************************************************************************)
EXTENDS Integers, Sequences, FiniteSetsExt

CONSTANTS
    Firmware,       \* what firmware may leave (MC module: the records)
    PAGE,           \* bytes of a page
    BaseTop         \* MSR_APIC_BASE >> 24, 0xFE for the usual base

ASSUME ProcessorsAssumption == PAGE \in Nat \ {0} /\ BaseTop \in Nat

VARIABLES
    fw,
    pc,             \* where kernel_main is
    rsdp,           \* g_rsdp, <<>> or <<the pointer>>
    todo,           \* pointers of the root table not yet followed
    g_madt,         \* address of the MADT, 0 for none
    pos,            \* entry of the MADT that a walk is at
    m_cpus, m_cpu_count, m_smp_enabled,
    m_runqueues,    \* the cpu_ids of the run queues
    mapped,         \* pages of the direct map that are mapped
    event

boot == <<rsdp, todo, g_madt>>
smp == <<m_cpus, m_cpu_count, m_smp_enabled>>
vars == <<fw, pc, boot, pos, smp, m_runqueues, mapped, event>>

Init ==
    /\ fw \in Firmware
    /\ pc = "scheduler"
    /\ rsdp = <<>> /\ todo = <<>> /\ g_madt = 0 /\ pos = 1
    /\ m_cpus = <<>> /\ m_cpu_count = 1 /\ m_smp_enabled = FALSE
    /\ m_runqueues = <<>> /\ mapped = {} /\ event = "none"

At(here) == pc = here /\ event = "none"

-----------------------------------------------------------------------------
\* Scheduler::initialize, before SMPManager knows any processor.
SchedulerInitialize ==
    /\ At("scheduler")
    /\ m_runqueues' = [i \in 1 .. m_cpu_count |-> i - 1]
    /\ pc' = IF fw.apic THEN "rsdp" ELSE "idle"
    /\ UNCHANGED <<fw, boot, pos, smp, mapped, event>>

\* The first candidate of an area whose sums are right.
accepted(c) == c.sum /\ (c.revision >= 2 => c.extended)
find_rsdp(area) ==
    LET good == {i \in 1 .. Len(area) : accepted(area[i])}
    IN  IF good = {} THEN <<>> ELSE <<area[Min(good)]>>

\* The table that an RSDP leads to.
root_of(r) == IF r.revision >= 2 /\ r.xsdt # 0 THEN r.xsdt ELSE r.rsdt

\* An entry of the MADT for a processor that may be used.
listed(e) == e.type = "lapic" /\ e.enabled

\* Wherever a pointer leads there is memory, which is read as a table.
ASSUME FirmwareAssumption ==
    \A f \in Firmware :
        /\ \A area \in {f.ebda, f.bios} :
              /\ Len(area) \in Nat
              /\ \A i \in 1 .. Len(area) :
                    accepted(area[i]) =>
                        /\ root_of(area[i]) \in DOMAIN f.tables
                        /\ f.tables[root_of(area[i])].pointers \in Seq(DOMAIN f.tables)
        /\ \A a \in DOMAIN f.tables :
              /\ a \in Nat /\ f.tables[a].length \in Nat
              /\ f.tables[a].signature = "APIC" =>
                    /\ Len(f.tables[a].entries) \in Nat
                    /\ \A i \in 1 .. Len(f.tables[a].entries) :
                          listed(f.tables[a].entries[i]) => f.tables[a].entries[i].apic_id \in Nat

FindRsdp ==
    /\ At("rsdp")
    /\ LET ebda == IF fw.ebda_valid THEN find_rsdp(fw.ebda) ELSE <<>>
       IN  rsdp' = IF ebda # <<>> THEN ebda ELSE find_rsdp(fw.bios)
    /\ pc' = IF rsdp' = <<>> THEN "apic_only" ELSE "root"
    /\ UNCHANGED <<fw, todo, g_madt, pos, smp, m_runqueues, mapped, event>>

\* A mutant of map_and_verify_table: it skips the table's second page.
pages_skip(a, n) == {(a + k) \div PAGE : k \in {0} \cup {j \in 2 * PAGE .. n : j % PAGE = 0}}

\* map_and_verify_table: the pages that it maps, and those that it reads.
pages(a, n) == {(a + k) \div PAGE : k \in {0} \cup {j \in PAGE .. n - 1 : j % PAGE = 0}}
bytes(a, n) == {k \div PAGE : k \in a .. a + n - 1}
Table(a) == fw.tables[a]

\* Follows a pointer; with a fault the rest of the caller's step is not done.
map_and_verify_table(a) ==
    /\ mapped' = mapped \cup pages(a, Table(a).length)
    /\ event' = IF bytes(a, Table(a).length) \subseteq mapped' THEN "none" ELSE "fault"
    /\ event' = "fault" => UNCHANGED <<pc, todo, g_madt>>

ReadRoot ==
    /\ At("root")
    /\ LET root == root_of(rsdp[1])
           good == Table(root).sum
       IN  /\ map_and_verify_table(root)
           /\ event' = "none" =>
                 /\ pc' = IF good THEN "tables" ELSE "apic_only"
                 /\ todo' = IF good THEN Table(root).pointers ELSE <<>>
                 /\ UNCHANGED g_madt
    /\ UNCHANGED <<fw, rsdp, pos, smp, m_runqueues>>

\* A mutant of the walk: it stays at a table whose sum is wrong.
ReadTable_again ==
    /\ At("tables") /\ todo # <<>>
    /\ LET a == Head(todo)
           good == Table(a).sum
       IN  /\ map_and_verify_table(a)
           /\ event' = "none" =>
                 /\ g_madt' = IF good /\ Table(a).signature = "APIC" THEN a ELSE g_madt
                 /\ todo' = IF good THEN Tail(todo) ELSE todo
                 /\ UNCHANGED pc
    /\ UNCHANGED <<fw, rsdp, pos, smp, m_runqueues>>

\* A pointer of the root table; one whose sum is wrong is passed over.
ReadTable ==
    /\ At("tables") /\ todo # <<>>
    /\ LET a == Head(todo)
           good == Table(a).sum
       IN  /\ map_and_verify_table(a)
           /\ event' = "none" =>
                 /\ g_madt' = IF good /\ Table(a).signature = "APIC" THEN a ELSE g_madt
                 /\ todo' = Tail(todo) /\ UNCHANGED pc
    /\ UNCHANGED <<fw, rsdp, pos, smp, m_runqueues>>

EndTables ==
    /\ At("tables") /\ todo = <<>>
    /\ pc' = IF g_madt = 0 THEN "apic_only" ELSE "detect"
    /\ UNCHANGED <<fw, boot, pos, smp, m_runqueues, mapped, event>>

-----------------------------------------------------------------------------
Entries == Table(g_madt).entries

cpu(n, lapic, bsp, stack) ==
    [id |-> n, lapic_id |-> lapic, is_bsp |-> bsp, is_active |-> bsp, kernel_stack |-> stack]

\* detect_cpus, one entry; at start-up there are frames for every stack.
\* An entry of length 0 is read for ever: event "loop".
DetectCpu ==
    /\ At("detect") /\ pos <= Len(Entries)
    /\ LET e == Entries[pos]
       IN  /\ m_cpus' = IF listed(e)
                        THEN Append(m_cpus, cpu(Len(m_cpus), e.apic_id, e.apic_id = BaseTop, TRUE))
                        ELSE m_cpus
           /\ pos' = pos + 1
           /\ event' = IF e.length = 0 THEN "loop" ELSE "none"
    /\ UNCHANGED <<fw, pc, boot, m_cpu_count, m_smp_enabled, m_runqueues, mapped>>

EndDetect ==
    /\ At("detect") /\ pos > Len(Entries)
    /\ m_cpu_count' = IF m_cpus = <<>> THEN 1 ELSE Len(m_cpus)
    /\ m_cpus' = IF m_cpus = <<>> THEN <<cpu(0, 0, TRUE, FALSE)>> ELSE m_cpus
    /\ pc' = "apic"
    /\ UNCHANGED <<fw, boot, pos, m_smp_enabled, m_runqueues, mapped, event>>

init_local_apic ==
    /\ At("apic") \/ At("apic_only")
    /\ mapped' = mapped \cup {fw.lapic}
    /\ pc' = IF pc = "apic" THEN "ioapic" ELSE "idle"
    /\ pos' = 1
    /\ UNCHANGED <<fw, boot, smp, m_runqueues, event>>

init_io_apic ==
    /\ At("ioapic")
    /\ mapped' = mapped \cup {e.address : e \in {d \in Range(Entries) : d.type = "ioapic"}}
    /\ m_smp_enabled' = TRUE
    /\ pc' = "start"
    /\ UNCHANGED <<fw, boot, pos, m_cpus, m_cpu_count, m_runqueues, event>>

\* startup_application_processors: without a boot processor among m_cpus it
\* gives up, with one it starts the others.
startup_application_processors ==
    /\ At("start")
    /\ event' = IF m_cpu_count > 1 /\ \E i \in 1 .. Len(m_cpus) : m_cpus[i].is_bsp
                THEN "ap" ELSE "none"
    /\ pc' = "idle"
    /\ UNCHANGED <<fw, boot, pos, smp, m_runqueues, mapped>>

\* The number of the first of the processors at these places, or -1.
first_of(places) == IF places = {} THEN -1 ELSE m_cpus[Min(places)].id
same == first_of({i \in 1 .. Len(m_cpus) : m_cpus[i].lapic_id = BaseTop})
bsp == first_of({i \in 1 .. Len(m_cpus) : m_cpus[i].is_bsp})

\* A mutant of get_current_cpu_id: it falls back on the last processor.
get_current_cpu_id_last ==
    IF same # -1 THEN same ELSE IF bsp # -1 THEN bsp ELSE m_cpu_count - 1

get_current_cpu_id ==
    IF same # -1 THEN same ELSE IF bsp # -1 THEN bsp ELSE 0

\* cores, with detect_active_cores: whoever has a stack counts as active.
cmd_cores ==
    /\ At("idle") /\ m_smp_enabled /\ m_cpu_count > 1
    /\ m_cpus' = [i \in 1 .. Len(m_cpus) |->
                     [m_cpus[i] EXCEPT !.is_active = m_cpus[i].is_bsp \/ m_cpus[i].kernel_stack]]
    /\ UNCHANGED <<fw, pc, boot, pos, m_cpu_count, m_smp_enabled, m_runqueues, mapped, event>>

Boot ==
    \/ SchedulerInitialize \/ FindRsdp \/ ReadRoot \/ ReadTable \/ EndTables
    \/ DetectCpu \/ EndDetect
    \/ init_local_apic \/ init_io_apic \/ startup_application_processors
Next == Boot \/ cmd_cores

Spec == Init /\ [][Next]_vars /\ WF_vars(Boot)
-----------------------------------------------------------------------------
\* Once kernel_main idles, the processor that schedule and tick take for the
\* current one has a run queue, although the queues were made before any
\* processor was known and the processor is looked up by part of an address;
\* and no other processor runs, unless one is numbered like that part.
\* Scheduler and Kernel, with one processor and its queue, rest on this.
QueueFound ==
    /\ pc = "idle" /\ event = "none" => get_current_cpu_id \in Range(m_runqueues)
    /\ event = "ap" => \E i \in 1 .. Len(Entries) :
                          listed(Entries[i]) /\ Entries[i].apic_id = BaseTop

\* map_and_verify_table reads a page that is not mapped only for a table that
\* ends at a lower place in its page than it starts: its loop counts pages from
\* the start of the table instead of from the start of the page.
FaultOnlyAcross ==
    event = "fault" =>
        \E a \in DOMAIN fw.tables : (a + Table(a).length - 1) % PAGE < a % PAGE

\* Start-up comes to the idle loop whatever the firmware left, unless one of
\* the events stops it.
BootEnds == <>(pc = "idle" \/ event # "none")
=============================================================================
