-------------------------- MODULE ProcessorsProofs --------------------------
(***************************************************************************)
(* Proofs about start-up, for every firmware whose pointers lead to        *)
(* memory, any page size and any address of the local APIC: the processor  *)
(* that the scheduler takes for the current one has a run queue, no other  *)
(* processor is started unless one is numbered like that address, and a    *)
(* table is read outside its mapping only where it ends lower in its page  *)
(* than it starts.                                                         *)
(***************************************************************************)
EXTENDS Processors, WellFoundedInduction, TLAPS

Cpu == [id : Nat, lapic_id : Nat, is_bsp : BOOLEAN, is_active : BOOLEAN, kernel_stack : BOOLEAN]

BootListed ==
    \E i \in 1 .. Len(Entries) : listed(Entries[i]) /\ Entries[i].apic_id = BaseTop

\* The boot processor is known by its number alone.
Matched ==
    \A i \in 1 .. Len(m_cpus) :
        /\ m_cpus[i].is_bsp <=> m_cpus[i].lapic_id = BaseTop
        /\ m_cpus[i].is_bsp => BootListed

\* What is followed leads to tables.
Pointers ==
    /\ fw \in Firmware
    /\ pc = "root" => /\ root_of(rsdp[1]) \in DOMAIN fw.tables
                      /\ Table(root_of(rsdp[1])).pointers \in Seq(DOMAIN fw.tables)
    /\ todo \in Seq(DOMAIN fw.tables)
    /\ g_madt # 0 => g_madt \in DOMAIN fw.tables /\ Table(g_madt).signature = "APIC"
    /\ pc \in {"detect", "apic", "ioapic", "start"} => g_madt # 0
    /\ pos \in Nat \ {0}

Queues ==
    IF pc = "scheduler" THEN m_cpu_count = 1 ELSE Range(m_runqueues) = {0}

\* What is known of the processors, in the order of their numbers.
Cpus ==
    /\ m_cpus \in Seq(Cpu)
    /\ \A i \in 1 .. Len(m_cpus) : m_cpus[i].id = i - 1
    /\ pc \in {"scheduler", "rsdp", "root", "tables", "apic_only"} => m_cpus = <<>>
    /\ Matched \/ (Len(m_cpus) = 1 /\ pc # "detect")
    /\ pc \in {"apic", "ioapic", "start"} => m_cpu_count = Len(m_cpus)

\* With several processors, kernel_main idles only if it found no boot
\* processor among them.
Alone ==
    pc = "idle" /\ event = "none" =>
        Len(m_cpus) <= 1 \/ \A i \in 1 .. Len(m_cpus) : ~m_cpus[i].is_bsp

ProcInv ==
    /\ Pointers /\ Queues /\ Cpus /\ Alone
    /\ event = "ap" => BootListed
    /\ FaultOnlyAcross
-----------------------------------------------------------------------------
LEMMA LeastNat ==
    ASSUME NEW T \in SUBSET Nat, T # {}
    PROVE  \E x \in T : \A y \in T : x <= y
  <1> DEFINE R == OpToRel(<, Nat)
  <1>1. IsWellFoundedOn(R, Nat)
    BY NatLessThanWellFounded, Zenon
  <1>2. \A x, y \in Nat : <<y, x>> \in R <=> y < x
    BY DEF OpToRel
  <1> HIDE DEF R
  <1>3. PICK x \in T : \A y \in T : ~(<<y, x>> \in R)
    BY <1>1, WFMin, Zenon
  <1>4. \A y \in T : ~(y < x)
    BY <1>2, <1>3, Zenon
  <1> QED
    BY <1>4

LEMMA AppendFacts ==
    ASSUME NEW S, NEW s \in Seq(S), NEW c \in S
    PROVE  /\ Append(s, c) \in Seq(S) /\ Len(Append(s, c)) = Len(s) + 1
           /\ Append(s, c)[Len(s) + 1] = c
           /\ \A i \in 1 .. Len(s) : Append(s, c)[i] = s[i]
  OBVIOUS

LEMMA ShortFacts ==
    ASSUME NEW S
    PROVE  /\ <<>> \in Seq(S)
           /\ \A c \in S : <<c>> \in Seq(S) /\ Len(<<c>>) = 1 /\ <<c>>[1] = c
  OBVIOUS

LEMMA MinIn ==
    ASSUME NEW S \in SUBSET Nat, S # {}
    PROVE  Min(S) \in S
  BY LeastNat, Zenon DEF Min

\* Pages: a place is its page times the size of a page, and what is left.
LEMMA Divide ==
    ASSUME NEW x \in Nat, NEW P \in Nat \ {0}
    PROVE  /\ x \div P \in Nat /\ x % P \in Nat /\ x % P < P
           /\ x = P * (x \div P) + (x % P)
  <1>1. x % P \in 0 .. P - 1 /\ x \div P \in Int
    BY Z3
  <1>2. x = P * (x \div P) + (x % P)
    BY SMT
  <1>3. ASSUME NEW q \in Int, NEW m \in 0 .. P - 1, x = P * q + m PROVE q >= 0
    <2>1. CASE q <= -1
      <3>1. P * q <= P * (-1)
        BY <2>1, Z3
      <3> QED
        BY <1>3, <3>1, Z3
    <2> QED
      BY <2>1
  <1> QED
    BY <1>1, <1>2, <1>3

LEMMA DivideIs ==
    ASSUME NEW P \in Nat \ {0}, NEW q \in Nat, NEW r \in Nat, r < P
    PROVE  (P * q + r) \div P = q /\ (P * q + r) % P = r
  OBVIOUS

LEMMA TimesMonotone ==
    ASSUME NEW P \in Nat \ {0}, NEW x \in Nat, NEW y \in Nat, x < y
    PROVE  P * x + P <= P * y
  <1>1. PICK d \in Nat : y = x + 1 + d
    <2>1. y - x - 1 \in Nat /\ y = x + 1 + (y - x - 1)
      OBVIOUS
    <2> QED
      BY <2>1
  <1>2. P * (x + 1 + d) = P * x + P + P * d /\ P * d \in Nat /\ P * x \in Nat
    OBVIOUS
  <1> QED
    BY <1>1, <1>2

\* map_and_verify_table maps every page that the table has a byte in, unless
\* the table ends lower in its page than it starts.
LEMMA PagesCover ==
    ASSUME NEW a \in Nat, NEW n \in Nat, ~((a + n - 1) % PAGE < a % PAGE)
    PROVE  bytes(a, n) \subseteq pages(a, n)
  <1> SUFFICES ASSUME NEW k \in a .. a + n - 1 PROVE k \div PAGE \in pages(a, n)
    BY DEF bytes
  <1>1. PICK P \in Nat \ {0} : P = PAGE
    BY ProcessorsAssumption
  <1>2. PICK z : z = a + n - 1
    OBVIOUS
  <1>3. k \in Nat /\ z \in Nat /\ a <= k /\ k <= z /\ n >= 1 /\ z = a + n - 1
    BY <1>2
  <1>4. PICK ka, kk, kz, ra, rk, rz \in Nat :
           /\ ka = a \div P /\ ra = a % P /\ kk = k \div P /\ rk = k % P /\ kz = z \div P /\ rz = z % P
    BY <1>1, <1>3, Divide, Zenon
  <1>5. /\ a = P * ka + ra /\ k = P * kk + rk /\ z = P * kz + rz
        /\ ra < P /\ rk < P /\ rz < P
    BY <1>1, <1>3, <1>4, Divide
  <1>6. ra <= rz
    BY <1>1, <1>2, <1>4
  <1>7. P * ka \in Nat /\ P * kk \in Nat /\ P * kz \in Nat
    BY <1>1
  <1>8. ka <= kk
    <2> SUFFICES ASSUME kk < ka PROVE FALSE
      OBVIOUS
    <2>1. P * kk + P <= P * ka
      BY TimesMonotone
    <2> QED
      BY <1>3, <1>5, <1>7, <2>1
  <1>9. P * kk + ra <= z
    <2>1. CASE kk < kz
      <3>1. P * kk + P <= P * kz
        BY <2>1, TimesMonotone
      <3> QED
        BY <1>5, <1>7, <3>1
    <2>2. CASE kk = kz
      BY <1>5, <1>6, <1>7, <2>2
    <2>3. kk <= kz
      <3> SUFFICES ASSUME kz < kk PROVE FALSE
        OBVIOUS
      <3>1. P * kz + P <= P * kk
        BY TimesMonotone
      <3> QED
        BY <1>3, <1>5, <1>7, <3>1
    <2> QED
      BY <2>1, <2>2, <2>3
  <1>10. PICK d \in Nat : kk = ka + d
    <2>1. kk - ka \in Nat /\ kk = ka + (kk - ka)
      BY <1>8
    <2> QED
      BY <2>1
  <1>11. P * d \in Nat /\ P * kk = P * ka + P * d
    BY <1>10
  <1>12. a + P * d = P * kk + ra
    BY <1>5, <1>7, <1>11
  <1>13. (a + P * d) \div P = kk
    BY <1>5, <1>12, DivideIs
  <1>14. P * d \in {0} \cup {j \in P .. n - 1 : j % P = 0}
    <2>1. CASE d = 0
      BY <2>1
    <2>2. CASE d # 0
      <3>1. P * 0 + P <= P * d /\ P * 0 = 0
        <4>1. 0 < d
          BY <2>2
        <4> QED
          BY <4>1, TimesMonotone
      <3>2. P * d <= n - 1
        BY <1>3, <1>9, <1>11, <1>12
      <3>3. (P * d + 0) % P = 0 /\ P * d + 0 = P * d
        BY <1>11, DivideIs
      <3> QED
        BY <1>11, <3>1, <3>2, <3>3
    <2> QED
      BY <2>1, <2>2
  <1>15. \E j \in {0} \cup {i \in PAGE .. n - 1 : i % PAGE = 0} : k \div PAGE = (a + j) \div PAGE
    BY <1>1, <1>4, <1>13, <1>14, Zenon
  <1> QED
    BY <1>15, Zenon DEF pages
-----------------------------------------------------------------------------
LEMMA ProcInit == Init => ProcInv
  <1> SUFFICES ASSUME Init PROVE ProcInv
    OBVIOUS
  <1>1. Pointers
    BY DEF Init, Pointers
  <1>2. Queues /\ Alone
    BY DEF Init, Queues, Alone
  <1>3. Cpus
    BY DEF Init, Cpus, Matched
  <1> QED
    BY <1>1, <1>2, <1>3 DEF Init, ProcInv, FaultOnlyAcross

\* A step that changes neither the firmware, the MADT nor the processors.
LEMMA SameCpus ==
    ASSUME Cpus, UNCHANGED <<fw, g_madt, m_cpus>>
    PROVE  /\ BootListed' <=> BootListed
           /\ Matched' <=> Matched
           /\ m_cpus' \in Seq(Cpu) /\ \A i \in 1 .. Len(m_cpus') : m_cpus'[i].id = i - 1
  <1>1. BootListed' <=> BootListed
    BY DEF BootListed, Entries, Table
  <1>2. Matched' <=> Matched
    BY <1>1 DEF Matched
  <1> QED
    BY <1>1, <1>2 DEF Cpus

LEMMA StartScheduler == ASSUME ProcInv, SchedulerInitialize PROVE ProcInv'
  <1> USE DEF ProcInv
  <1>1. /\ pc = "scheduler" /\ event = "none" /\ pc' \in {"rsdp", "idle"} /\ event' = "none"
        /\ UNCHANGED <<fw, rsdp, todo, g_madt, pos, m_cpus, m_cpu_count>>
    BY DEF SchedulerInitialize, At, boot, smp
  <1>2. Pointers'
    BY <1>1 DEF Pointers, Table
  <1>3. Queues'
    <2>1. m_runqueues' = [i \in 1 .. 1 |-> i - 1]
      BY <1>1 DEF SchedulerInitialize, Queues
    <2>2. Range(m_runqueues') = {0}
      BY <2>1 DEF Range
    <2> QED
      BY <1>1, <2>2 DEF Queues
  <1>4. m_cpus' = <<>> /\ Cpus'
    BY <1>1, SameCpus DEF Cpus, Matched
  <1>5. Alone' /\ FaultOnlyAcross' /\ event' # "ap"
    BY <1>1, <1>4 DEF Alone, FaultOnlyAcross
  <1> QED
    BY <1>2, <1>3, <1>4, <1>5

\* A step that is not the scheduler's leaves the queues.
LEMMA SameQueues ==
    ASSUME Queues, pc # "scheduler", pc' # "scheduler", UNCHANGED m_runqueues
    PROVE  Queues'
  BY DEF Queues

LEMMA FoundRsdp ==
    ASSUME NEW f \in Firmware, NEW area, area \in {f.ebda, f.bios}, find_rsdp(area) # <<>>
    PROVE  /\ root_of(find_rsdp(area)[1]) \in DOMAIN f.tables
           /\ f.tables[root_of(find_rsdp(area)[1])].pointers \in Seq(DOMAIN f.tables)
  <1> DEFINE good == {i \in 1 .. Len(area) : accepted(area[i])}
  <1>1. Len(area) \in Nat /\ good \in SUBSET Nat
    BY FirmwareAssumption
  <1>2. good # {} /\ find_rsdp(area) = <<area[Min(good)]>>
    BY DEF find_rsdp
  <1>3. Min(good) \in good
    BY <1>1, <1>2, MinIn, Zenon
  <1>4. \A i \in good : /\ root_of(area[i]) \in DOMAIN f.tables
                        /\ f.tables[root_of(area[i])].pointers \in Seq(DOMAIN f.tables)
    BY FirmwareAssumption
  <1> HIDE DEF good
  <1>5. find_rsdp(area)[1] = area[Min(good)]
    BY <1>2
  <1> QED
    BY <1>3, <1>4, <1>5

LEMMA GoRsdp == ASSUME ProcInv, FindRsdp PROVE ProcInv'
  <1> USE DEF ProcInv
  <1>1. /\ pc = "rsdp" /\ event = "none" /\ pc' = (IF rsdp' = <<>> THEN "apic_only" ELSE "root") /\ event' = "none"
        /\ UNCHANGED <<fw, todo, g_madt, pos, m_cpus, m_cpu_count, m_runqueues>>
    BY DEF FindRsdp, At, smp
  <1>2. pc' = "root" => \E area \in {fw.ebda, fw.bios} : rsdp' = find_rsdp(area) /\ find_rsdp(area) # <<>>
    BY <1>1 DEF FindRsdp
  <1>3. pc' = "root" => /\ root_of(rsdp'[1]) \in DOMAIN fw.tables
                        /\ fw.tables[root_of(rsdp'[1])].pointers \in Seq(DOMAIN fw.tables)
    BY <1>2, FoundRsdp DEF Pointers
  <1>4. Pointers'
    BY <1>1, <1>3 DEF Pointers, Table
  <1>5. Queues'
    BY <1>1, SameQueues
  <1>6. Cpus'
    BY <1>1, SameCpus DEF Cpus
  <1>7. Alone' /\ FaultOnlyAcross' /\ event' # "ap"
    BY <1>1 DEF Alone, FaultOnlyAcross
  <1> QED
    BY <1>4, <1>5, <1>6, <1>7

\* A table is followed: a fault is one of a table that ends lower in its page
\* than it starts.
LEMMA TableFault ==
    ASSUME ProcInv, NEW a \in DOMAIN fw.tables, map_and_verify_table(a), fw' = fw
    PROVE  event' \in {"none", "fault"} /\ FaultOnlyAcross'
  <1>1. event' \in {"none", "fault"}
    BY DEF map_and_verify_table
  <1>2. ASSUME event' = "fault" PROVE (a + Table(a).length - 1) % PAGE < a % PAGE
    <2>1. a \in Nat /\ Table(a).length \in Nat
      BY FirmwareAssumption DEF ProcInv, Pointers, Table
    <2>2. ~(bytes(a, Table(a).length) \subseteq mapped') /\ pages(a, Table(a).length) \subseteq mapped'
      BY <1>2 DEF map_and_verify_table
    <2>3. ~(bytes(a, Table(a).length) \subseteq pages(a, Table(a).length))
      BY <2>2, Zenon
    <2> QED
      BY <2>1, <2>3, PagesCover
  <1>3. event' = "fault" => \E b \in DOMAIN fw'.tables : (b + fw'.tables[b].length - 1) % PAGE < b % PAGE
    BY <1>2 DEF Table
  <1> QED
    BY <1>1, <1>3 DEF FaultOnlyAcross, Table
LEMMA GoRoot == ASSUME ProcInv, ReadRoot PROVE ProcInv'
  <1> USE DEF ProcInv
  <1>1. PICK a : a = root_of(rsdp[1])
    OBVIOUS
  <1>2. pc = "root" /\ event = "none" /\ UNCHANGED <<fw, rsdp, pos, m_cpus, m_cpu_count, m_runqueues>>
    BY DEF ReadRoot, At, smp
  <1>3. map_and_verify_table(a)
    BY <1>1 DEF ReadRoot
  <1>4. a \in DOMAIN fw.tables /\ Table(a).pointers \in Seq(DOMAIN fw.tables)
    BY <1>1, <1>2 DEF Pointers
  <1>5. event' \in {"none", "fault"} /\ FaultOnlyAcross'
    BY <1>2, <1>3, <1>4, TableFault
  <1>6. CASE event' = "fault"
    <2>1. UNCHANGED <<pc, todo, g_madt>>
      BY <1>3, <1>6 DEF map_and_verify_table
    <2>2. Pointers'
      BY <1>2, <2>1 DEF Pointers, Table
    <2>3. Queues' /\ Alone'
      BY <1>2, <2>1, SameQueues DEF Alone
    <2>4. Cpus'
      BY <1>2, <2>1, SameCpus DEF Cpus
    <2> QED
      BY <1>5, <1>6, <2>2, <2>3, <2>4
  <1>7. CASE event' = "none"
    <2>1. /\ pc' \in {"tables", "apic_only"} /\ todo' \in {Table(a).pointers, <<>>} /\ g_madt' = g_madt
      BY <1>1, <1>7 DEF ReadRoot
    <2>2. todo' \in Seq(DOMAIN fw.tables)
      BY <1>4, <2>1, ShortFacts, Zenon
    <2>3. Pointers'
      BY <1>2, <2>1, <2>2 DEF Pointers, Table
    <2>4. Queues' /\ Alone'
      BY <1>2, <2>1, SameQueues DEF Alone
    <2>5. Cpus'
      BY <1>2, <2>1, SameCpus DEF Cpus
    <2> QED
      BY <1>5, <1>7, <2>3, <2>4, <2>5
  <1> QED
    BY <1>5, <1>6, <1>7

LEMMA GoTable == ASSUME ProcInv, ReadTable PROVE ProcInv'
  <1> USE DEF ProcInv
  <1>1. PICK a : a = Head(todo)
    OBVIOUS
  <1>2. /\ pc = "tables" /\ event = "none" /\ todo # <<>>
        /\ UNCHANGED <<fw, rsdp, pos, m_cpus, m_cpu_count, m_runqueues>>
    BY DEF ReadTable, At, smp
  <1>3. map_and_verify_table(a)
    BY <1>1 DEF ReadTable
  <1>4. a \in DOMAIN fw.tables /\ Tail(todo) \in Seq(DOMAIN fw.tables)
    BY <1>1, <1>2 DEF Pointers
  <1>5. event' \in {"none", "fault"} /\ FaultOnlyAcross'
    BY <1>2, <1>3, <1>4, TableFault
  <1>6. /\ pc' = pc /\ todo' \in {todo, Tail(todo)}
        /\ g_madt' = g_madt \/ (g_madt' = a /\ Table(a).signature = "APIC")
    BY <1>1, <1>3, <1>5 DEF ReadTable, map_and_verify_table
  <1>7. Pointers'
    <2>1. todo' \in Seq(DOMAIN fw.tables)
      BY <1>4, <1>6 DEF Pointers
    <2>2. g_madt' # 0 => g_madt' \in DOMAIN fw.tables /\ Table(g_madt').signature = "APIC"
      BY <1>4, <1>6 DEF Pointers
    <2> QED
      BY <1>2, <1>6, <2>1, <2>2 DEF Pointers, Table
  <1>8. Queues' /\ Alone'
    BY <1>2, <1>6, SameQueues DEF Alone
  <1>9. Cpus'
    <2>1. m_cpus' = <<>>
      BY <1>2 DEF Cpus
    <2> QED
      BY <1>2, <1>6, <2>1 DEF Cpus, Matched
  <1> QED
    BY <1>5, <1>7, <1>8, <1>9

LEMMA GoEndTables == ASSUME ProcInv, EndTables PROVE ProcInv'
  <1> USE DEF ProcInv
  <1>1. /\ pc = "tables" /\ event = "none" /\ event' = "none"
        /\ pc' = (IF g_madt = 0 THEN "apic_only" ELSE "detect")
        /\ UNCHANGED <<fw, rsdp, todo, g_madt, pos, m_cpus, m_cpu_count, m_runqueues>>
    BY DEF EndTables, At, boot, smp
  <1>2. Pointers'
    BY <1>1 DEF Pointers, Table
  <1>3. Queues' /\ Alone' /\ FaultOnlyAcross'
    BY <1>1, SameQueues DEF Alone, FaultOnlyAcross
  <1>4. Cpus'
    BY <1>1 DEF Cpus, Matched
  <1> QED
    BY <1>1, <1>2, <1>3, <1>4

\* A processor is added with its number in the list.
LEMMA GoDetect == ASSUME ProcInv, DetectCpu PROVE ProcInv'
  <1> USE DEF ProcInv
  <1>1. PICK e : e = Entries[pos]
    OBVIOUS
  <1>2. /\ pc = "detect" /\ pc' = "detect" /\ event = "none" /\ pos <= Len(Entries)
        /\ pos' = pos + 1 /\ event' \in {"none", "loop"}
        /\ UNCHANGED <<fw, rsdp, todo, g_madt, m_cpu_count, m_runqueues>>
    BY DEF DetectCpu, At, boot
  <1>3. m_cpus' = IF listed(e)
                  THEN Append(m_cpus, cpu(Len(m_cpus), e.apic_id, e.apic_id = BaseTop, TRUE)) ELSE m_cpus
    BY <1>1 DEF DetectCpu
  <1>4. Pointers'
    BY <1>2 DEF Pointers, Table
  <1>5. Queues' /\ Alone' /\ FaultOnlyAcross'
    BY <1>2, SameQueues DEF Alone, FaultOnlyAcross
  <1>6. m_cpus \in Seq(Cpu) /\ Matched /\ Len(m_cpus) \in Nat /\ \A i \in 1 .. Len(m_cpus) : m_cpus[i].id = i - 1
    BY <1>2 DEF Cpus
  <1>7. CASE ~listed(e)
    BY <1>2, <1>3, <1>4, <1>5, <1>6, <1>7, SameCpus DEF Cpus
  <1>8. CASE listed(e)
    <2>1. Len(Entries) \in Nat /\ pos \in 1 .. Len(Entries)
      BY <1>2, FirmwareAssumption DEF Pointers, Entries, Table
    <2>2. e.apic_id \in Nat
      BY <1>1, <1>2, <1>8, <2>1, FirmwareAssumption DEF Pointers, Entries, Table
    <2>3. e.apic_id = BaseTop => BootListed
      BY <1>1, <1>8, <2>1 DEF BootListed
    <2>4. BootListed' <=> BootListed
      BY <1>2 DEF BootListed, Entries, Table
    <2>5. PICK c, n : c = cpu(n, e.apic_id, e.apic_id = BaseTop, TRUE) /\ n = Len(m_cpus)
      BY Zenon
    <2>6. /\ c \in Cpu /\ c.id = n /\ c.lapic_id = e.apic_id
          /\ c.is_bsp <=> e.apic_id = BaseTop
      BY <1>6, <2>2, <2>5, Zenon DEF cpu, Cpu
    <2>7. m_cpus' = Append(m_cpus, c)
      BY <1>3, <1>8, <2>5, Zenon
    <2>8. /\ m_cpus' \in Seq(Cpu) /\ Len(m_cpus') = n + 1 /\ m_cpus'[n + 1] = c
          /\ \A i \in 1 .. n : m_cpus'[i] = m_cpus[i]
      <3>1. PICK s \in Seq(Cpu) : s = m_cpus
        BY <1>6
      <3>4. c \in Cpu
        BY <2>6
      <3>2. /\ Append(s, c) \in Seq(Cpu) /\ Len(Append(s, c)) = Len(s) + 1 /\ Append(s, c)[Len(s) + 1] = c
            /\ \A i \in 1 .. Len(s) : Append(s, c)[i] = s[i]
        BY <3>4, AppendFacts
      <3>3. m_cpus' = Append(s, c) /\ n = Len(s) /\ m_cpus = s
        BY <2>5, <2>7, <3>1, Zenon
      <3> QED
        BY <3>2, <3>3, Zenon
    <2>9. \A i \in 1 .. n + 1 : i \in 1 .. n \/ i = n + 1
      BY <1>6, <2>5
    <2>10. \A i \in 1 .. Len(m_cpus') : m_cpus'[i].id = i - 1
      <3> SUFFICES ASSUME NEW i \in 1 .. n + 1 PROVE m_cpus'[i].id = i - 1
        BY <2>8
      <3>1. CASE i = n + 1
        <4>1. (n + 1) - 1 = n
          BY <1>6, <2>5
        <4> QED
          BY <2>6, <2>8, <3>1, <4>1
      <3>2. CASE i \in 1 .. n
        BY <1>6, <2>5, <2>8, <3>2
      <3> QED
        BY <2>9, <3>1, <3>2
    <2>11. Matched'
      <3> SUFFICES ASSUME NEW i \in 1 .. n + 1
                   PROVE  /\ m_cpus'[i].is_bsp <=> m_cpus'[i].lapic_id = BaseTop
                          /\ m_cpus'[i].is_bsp => BootListed
        BY <2>4, <2>8 DEF Matched
      <3>1. CASE i = n + 1
        BY <2>3, <2>6, <2>8, <3>1
      <3>2. CASE i \in 1 .. n
        BY <1>6, <2>5, <2>8, <3>2 DEF Matched
      <3> QED
        BY <2>9, <3>1, <3>2
    <2>12. Cpus'
      BY <1>2, <2>8, <2>10, <2>11 DEF Cpus
    <2> QED
      BY <1>2, <1>4, <1>5, <2>12
  <1> QED
    BY <1>7, <1>8

LEMMA GoEndDetect == ASSUME ProcInv, EndDetect PROVE ProcInv'
  <1> USE DEF ProcInv
  <1>1. /\ pc = "detect" /\ pc' = "apic" /\ event = "none" /\ event' = "none"
        /\ UNCHANGED <<fw, rsdp, todo, g_madt, pos, m_runqueues>>
    BY DEF EndDetect, At, boot
  <1>2. Pointers'
    BY <1>1 DEF Pointers, Table
  <1>3. Queues' /\ Alone' /\ FaultOnlyAcross'
    BY <1>1, SameQueues DEF Alone, FaultOnlyAcross
  <1>4. CASE m_cpus = <<>>
    <2>1. m_cpus' = <<cpu(0, 0, TRUE, FALSE)>> /\ m_cpu_count' = 1
      BY <1>4 DEF EndDetect
    <2>2. PICK c : c = cpu(0, 0, TRUE, FALSE)
      BY Zenon
    <2>3. c \in Cpu /\ c.id = 0
      BY <2>2 DEF cpu, Cpu
    <2>4. m_cpus' \in Seq(Cpu) /\ Len(m_cpus') = 1 /\ m_cpus'[1] = c
      BY <2>1, <2>2, <2>3, ShortFacts, Zenon
    <2>5. \A i \in 1 .. Len(m_cpus') : m_cpus'[i].id = i - 1
      <3>1. \A i \in 1 .. Len(m_cpus') : i = 1
        BY <2>4
      <3> QED
        BY <2>3, <2>4, <3>1
    <2>6. Cpus'
      BY <1>1, <2>1, <2>4, <2>5, Zenon DEF Cpus
    <2> QED
      BY <1>1, <1>2, <1>3, <2>6
  <1>5. CASE m_cpus # <<>>
    <2>1. m_cpus' = m_cpus /\ m_cpu_count' = Len(m_cpus)
      BY <1>5 DEF EndDetect
    <2>2. Cpus'
      BY <1>1, <2>1, SameCpus DEF Cpus
    <2> QED
      BY <1>1, <1>2, <1>3, <2>2
  <1> QED
    BY <1>4, <1>5
LEMMA GoLocalApic == ASSUME ProcInv, init_local_apic PROVE ProcInv'
  <1> USE DEF ProcInv
  <1>1. /\ pc \in {"apic", "apic_only"} /\ pc' = (IF pc = "apic" THEN "ioapic" ELSE "idle")
        /\ event = "none" /\ event' = "none" /\ pos' = 1
        /\ UNCHANGED <<fw, rsdp, todo, g_madt, m_cpus, m_cpu_count, m_runqueues>>
    BY DEF init_local_apic, At, boot, smp
  <1>2. Pointers'
    BY <1>1 DEF Pointers, Table
  <1>3. Queues' /\ FaultOnlyAcross'
    BY <1>1, SameQueues DEF FaultOnlyAcross
  <1>4. Cpus'
    BY <1>1, SameCpus DEF Cpus
  <1>5. Alone'
    <2>1. pc' = "idle" => Len(m_cpus') = 0
      BY <1>1 DEF Cpus
    <2> QED
      BY <2>1 DEF Alone
  <1> QED
    BY <1>1, <1>2, <1>3, <1>4, <1>5

LEMMA GoIoApic == ASSUME ProcInv, init_io_apic PROVE ProcInv'
  <1> USE DEF ProcInv
  <1>1. /\ pc = "ioapic" /\ pc' = "start" /\ event = "none" /\ event' = "none"
        /\ UNCHANGED <<fw, rsdp, todo, g_madt, pos, m_cpus, m_cpu_count, m_runqueues>>
    BY DEF init_io_apic, At, boot
  <1>2. Pointers'
    BY <1>1 DEF Pointers, Table
  <1>3. Queues' /\ Alone' /\ FaultOnlyAcross'
    BY <1>1, SameQueues DEF Alone, FaultOnlyAcross
  <1>4. Cpus'
    BY <1>1, SameCpus DEF Cpus
  <1> QED
    BY <1>1, <1>2, <1>3, <1>4

\* Another processor is started only when the list has a boot processor.
LEMMA GoStart == ASSUME ProcInv, startup_application_processors PROVE ProcInv'
  <1> USE DEF ProcInv
  <1>1. /\ pc = "start" /\ pc' = "idle" /\ event = "none"
        /\ UNCHANGED <<fw, rsdp, todo, g_madt, pos, m_cpus, m_cpu_count, m_runqueues>>
        /\ event' = (IF m_cpu_count > 1 /\ \E i \in 1 .. Len(m_cpus) : m_cpus[i].is_bsp
                     THEN "ap" ELSE "none")
    BY DEF startup_application_processors, At, boot, smp
  <1>2. Pointers'
    BY <1>1 DEF Pointers, Table
  <1>3. Queues' /\ FaultOnlyAcross'
    BY <1>1, SameQueues DEF FaultOnlyAcross
  <1>4. Cpus' /\ (BootListed' <=> BootListed)
    BY <1>1, SameCpus DEF Cpus
  <1>5. m_cpu_count = Len(m_cpus) /\ Len(m_cpus) \in Nat /\ (Matched \/ Len(m_cpus) = 1)
    BY <1>1 DEF Cpus
  <1>6. event' = "ap" => BootListed
    BY <1>1, <1>5 DEF Matched
  <1>7. Alone'
    BY <1>1, <1>5 DEF Alone
  <1> QED
    BY <1>2, <1>3, <1>4, <1>6, <1>7

\* cores changes which processors count as active, and nothing else.
LEMMA GoCores == ASSUME ProcInv, cmd_cores PROVE ProcInv'
  <1> USE DEF ProcInv
  <1>1. PICK s, n : s = m_cpus /\ n = Len(m_cpus)
    BY Zenon
  <1>2. /\ pc = "idle" /\ pc' = "idle" /\ event = "none" /\ event' = "none"
        /\ UNCHANGED <<fw, rsdp, todo, g_madt, pos, m_cpu_count, m_runqueues>>
        /\ m_cpus' = [i \in 1 .. n |-> [s[i] EXCEPT !.is_active = s[i].is_bsp \/ s[i].kernel_stack]]
    BY <1>1 DEF cmd_cores, At, boot
  <1>3. s \in Seq(Cpu) /\ n \in Nat /\ n = Len(s) /\ \A i \in 1 .. n : s[i] \in Cpu
    BY <1>1 DEF Cpus
  <1>4. ASSUME NEW i \in 1 .. n
        PROVE  /\ m_cpus'[i] \in Cpu /\ m_cpus'[i].id = s[i].id
               /\ m_cpus'[i].lapic_id = s[i].lapic_id /\ m_cpus'[i].is_bsp = s[i].is_bsp
    <2>1. PICK c, v : c = s[i] /\ v = (c.is_bsp \/ c.kernel_stack)
      OBVIOUS
    <2>2. c \in Cpu /\ v \in BOOLEAN /\ m_cpus'[i] = [c EXCEPT !.is_active = v]
      BY <1>2, <1>3, <2>1
    <2> QED
      BY <2>1, <2>2 DEF Cpu
  <1>5. m_cpus' \in Seq(Cpu) /\ Len(m_cpus') = n
    BY <1>2, <1>3, <1>4
  <1>6. BootListed' <=> BootListed
    BY <1>2 DEF BootListed, Entries, Table
  <1>7. Matched => Matched'
    BY <1>1, <1>4, <1>5, <1>6 DEF Matched
  <1>8. Cpus'
    <2>1. \A i \in 1 .. Len(m_cpus') : m_cpus'[i].id = i - 1
      BY <1>1, <1>4, <1>5 DEF Cpus
    <2>2. Matched' \/ Len(m_cpus') = 1
      BY <1>1, <1>5, <1>7 DEF Cpus
    <2> QED
      BY <1>2, <1>5, <2>1, <2>2, Zenon DEF Cpus
  <1>9. Pointers'
    BY <1>2 DEF Pointers, Table
  <1>10. Queues' /\ FaultOnlyAcross'
    BY <1>2, SameQueues DEF FaultOnlyAcross
  <1>11. Alone'
    BY <1>1, <1>2, <1>4, <1>5 DEF Alone
  <1> QED
    BY <1>2, <1>8, <1>9, <1>10, <1>11

LEMMA ProcStep == ProcInv /\ [Next]_vars => ProcInv'
  <1> SUFFICES ASSUME ProcInv, [Next]_vars PROVE ProcInv'
    OBVIOUS
  <1>1. CASE UNCHANGED vars
    <2>1. UNCHANGED <<fw, pc, rsdp, todo, g_madt, pos, m_cpus, m_cpu_count, m_runqueues, event>>
      BY <1>1 DEF vars, boot, smp
    <2>2. Pointers' /\ Queues'
      BY <2>1 DEF ProcInv, Pointers, Queues, Table
    <2>3. Cpus' /\ (BootListed' <=> BootListed)
      BY <2>1, SameCpus DEF ProcInv, Cpus
    <2>4. Alone' /\ FaultOnlyAcross'
      BY <2>1 DEF ProcInv, Alone, FaultOnlyAcross, Table
    <2> QED
      BY <2>1, <2>2, <2>3, <2>4 DEF ProcInv
  <1> QED
    BY <1>1, StartScheduler, GoRsdp, GoRoot, GoTable, GoEndTables, GoDetect, GoEndDetect,
       GoLocalApic, GoIoApic, GoStart, GoCores, Zenon
    DEF Next, Boot

\* Start-up keeps the invariant.
LEMMA AlwaysProcInv == Spec => []ProcInv
  BY ProcInit, ProcStep, PTL DEF Spec

\* The processor that get_current_cpu_id takes for the current one.
LEMMA CurrentIsFirst == ASSUME ProcInv, pc = "idle", event = "none" PROVE get_current_cpu_id = 0
  <1> DEFINE P == {i \in 1 .. Len(m_cpus) : m_cpus[i].lapic_id = BaseTop}
             Q == {i \in 1 .. Len(m_cpus) : m_cpus[i].is_bsp}
  <1>1. /\ Len(m_cpus) \in Nat /\ \A i \in 1 .. Len(m_cpus) : m_cpus[i].id = i - 1
        /\ Matched \/ Len(m_cpus) = 1
        /\ Len(m_cpus) <= 1 \/ \A i \in 1 .. Len(m_cpus) : ~m_cpus[i].is_bsp
    BY DEF ProcInv, Cpus, Alone
  <1>2. \A S \in {P, Q} : S = {} \/ (1 \in S /\ S = {1} /\ m_cpus[1].id = 0)
    <2>1. CASE Len(m_cpus) <= 1
      <3>1. \A i \in 1 .. Len(m_cpus) : i = 1
        BY <1>1, <2>1
      <3>2. ASSUME NEW S \in {P, Q}, S # {} PROVE 1 \in S /\ S = {1} /\ 1 \in 1 .. Len(m_cpus)
        BY <3>1, <3>2
      <3>3. 1 \in 1 .. Len(m_cpus) => m_cpus[1].id = 0
        BY <1>1
      <3> HIDE DEF P, Q
      <3> QED
        BY <3>2, <3>3
    <2>2. CASE Len(m_cpus) > 1
      <3>1. Matched /\ \A i \in 1 .. Len(m_cpus) : ~m_cpus[i].is_bsp
        BY <1>1, <2>2
      <3> QED
        BY <3>1 DEF Matched
    <2> QED
      BY <1>1, <2>1, <2>2
  <1>3. Min({1}) = 1
    BY DEF Min
  <1>4. same = first_of(P) /\ bsp = first_of(Q)
    BY Zenon DEF same, bsp
  <1> HIDE DEF P, Q
  <1>5. \A S \in {P, Q} : first_of(S) \in {-1, 0}
    BY <1>2, <1>3 DEF first_of
  <1> QED
    BY <1>4, <1>5 DEF get_current_cpu_id

\* Whatever the firmware lists, once kernel_main idles the processor that
\* schedule and tick take for the current one has a run queue; and another
\* processor is started only if an entry of the MADT is numbered like the part
\* of the APIC's address that the code compares with.
THEOREM QueueAlwaysFound == Spec => []QueueFound
  <1>1. ProcInv => QueueFound
    <2> SUFFICES ASSUME ProcInv PROVE QueueFound
      OBVIOUS
    <2>1. pc = "idle" /\ event = "none" => get_current_cpu_id \in Range(m_runqueues)
      BY CurrentIsFirst DEF ProcInv, Queues
    <2> QED
      BY <2>1 DEF ProcInv, QueueFound, BootListed
  <1> QED
    BY <1>1, AlwaysProcInv, PTL

\* For pages of any size and tables of any length and place, a table is read
\* outside the pages that map_and_verify_table maps only if it ends lower in
\* its page than it starts.
THEOREM FaultsOnlyAcross == Spec => []FaultOnlyAcross
  <1>1. ProcInv => FaultOnlyAcross
    BY DEF ProcInv
  <1> QED
    BY <1>1, AlwaysProcInv, PTL
=============================================================================
