---------------------------- MODULE MCProcessors ----------------------------
(***************************************************************************)
(* Pages of four bytes.  Two families of firmware: every pair of areas     *)
(* with up to two candidates for the RSDP over the same tables, and one    *)
(* RSDP over tables at every place in a page, with every MADT of two       *)
(* entries.                                                                *)
(***************************************************************************)
EXTENDS Processors, SequencesExt

Rsdp(good, r, x, root) == [sum |-> good, revision |-> r, extended |-> x, rsdt |-> 8, xsdt |-> root]
Candidate ==
    {Rsdp(FALSE, 0, TRUE, 0), Rsdp(TRUE, 0, FALSE, 4), Rsdp(TRUE, 2, FALSE, 4),
     Rsdp(TRUE, 2, TRUE, 4), Rsdp(TRUE, 2, TRUE, 0)}

LocalApic(id, on) == [type |-> "lapic", length |-> 8, apic_id |-> id, enabled |-> on]
IoApic == [type |-> "ioapic", length |-> 12, address |-> 40]
Other(n) == [type |-> "other", length |-> n]
Entry ==
    {LocalApic(0, TRUE), LocalApic(1, TRUE), LocalApic(2, FALSE), LocalApic(BaseTop, TRUE),
     IoApic, Other(0), Other(10)}

Root(good, p) == [signature |-> "root", length |-> 4, sum |-> good, pointers |-> p]
Madt(n, good, e) == [signature |-> "APIC", length |-> n, sum |-> good, entries |-> e]
Facp(n, good) == [signature |-> "FACP", length |-> n, sum |-> good]

Simple(good) ==
    4 :> Root(good, <<12, 16>>) @@ 8 :> Root(TRUE, <<12>>)
    @@ 12 :> Facp(4, FALSE) @@ 16 :> Madt(6, TRUE, <<LocalApic(0, TRUE), LocalApic(1, TRUE)>>)

Areas ==
    {[apic |-> a, ebda_valid |-> v, ebda |-> e, bios |-> b, lapic |-> 50, tables |-> Simple(g)] :
        a \in BOOLEAN, v \in BOOLEAN, g \in BOOLEAN,
        e \in SeqOf(Candidate, 1), b \in SeqOf(Candidate, 2)}

\* Three tables one behind the other, from a on.
Placed(a, n, k, good, e, f) ==
    4 :> Root(TRUE, <<a, a + n, a + n + k>>)
    @@ a :> Facp(n, good) @@ (a + n) :> Madt(k, TRUE, e) @@ (a + n + k) :> Madt(3, good, f)

Tables ==
    {[apic |-> TRUE, ebda_valid |-> FALSE, ebda |-> <<>>, lapic |-> 50,
      bios |-> <<Rsdp(TRUE, 2, TRUE, 4)>>,
      tables |-> Placed(a, n, k, g, e, f)] :
        a \in 12 .. 15, n \in {1, 4, 5}, k \in {2, 4, 9}, g \in BOOLEAN,
        e \in SeqOf(Entry, 2), f \in SeqOf({LocalApic(0, TRUE)}, 1)}

MC_Firmware == Areas \cup Tables
=============================================================================
