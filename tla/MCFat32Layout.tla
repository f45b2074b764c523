--------------------------- MODULE MCFat32Layout ---------------------------
(* Sectors of two words; volumes of three and of two clusters, with one    *)
(* and with two sectors each, two copies of the table and one, and boot    *)
(* sectors that validateBootSector refuses.                                *)
EXTENDS Fat32Layout

MC_Value == {0, 268435448}
Filled(w) == [o \in {0, 4} |-> w]
MC_Block == {Filled(0), Filled(268435448)}
MC_DotBlock == Filled(268435448)

Formatted(spc, reserved, copies, size, total) ==
    [bytesPerSector |-> 8, sectorsPerCluster |-> spc, reservedSectorCount |-> reserved,
     tableCount |-> copies, tableSize16 |-> 0, tableSize32 |-> size, rootEntryCount |-> 0,
     totalSectors16 |-> 0, totalSectors32 |-> total, bootSignature |-> 41]

MC_BPB ==
    LET good == Formatted(1, 1, 2, 3, 12)
    IN  {good, Formatted(2, 2, 1, 2, 10)}
        \cup {[good EXCEPT !.bootSignature = 0], [good EXCEPT !.sectorsPerCluster = 3],
              [good EXCEPT !.tableCount = 0]}

\* A volume whose clusters are all in use, with and without the dots.
MCInit ==
    /\ Init
    /\ \E w \in MC_Value :
          media = [s \in DOMAIN media |->
                      Filled(IF s < firstDataSector(boot) THEN 268435448 ELSE w)]
MCSpec == MCInit /\ [][Next]_vars

=============================================================================
