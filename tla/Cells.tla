------------------------------- MODULE Cells -------------------------------
(***************************************************************************)
(* What the rest of the file system takes a FAT32 volume for: a table with *)
(* one entry for each cluster, and one block for each sector of a cluster. *)
(* A call changes the one cell it names; if it reports a failure it may    *)
(* have changed it or not.                                                 *)
(***************************************************************************)
CONSTANTS Value, Block, none

VARIABLES
    fat,    \* cluster -> entry
    data,   \* <<cluster, i>> -> block i of the cluster
    op      \* the last call and whether it reported success

vars == <<fat, data, op>>

Call == [kind : {"fat"}, at : DOMAIN fat, put : Value, ok : BOOLEAN]
        \cup [kind : {"data"}, at : DOMAIN data, put : Block, ok : BOOLEAN]

Done(o) ==
    \/ /\ o.kind = "fat"
       /\ fat' = [fat EXCEPT ![o.at] = o.put]
       /\ data' = data
    \/ /\ o.kind = "data"
       /\ data' = [data EXCEPT ![o.at] = o.put]
       /\ fat' = fat

Init == op = none

Next ==
    \E o \in Call :
        /\ op' = o
        /\ Done(o) \/ (~o.ok /\ UNCHANGED <<fat, data>>)

Spec == Init /\ [][Next]_vars

=============================================================================
