------------------------------- MODULE Disk -------------------------------
(***************************************************************************)
(* What the file system expects of a disk: a call reads or writes sectors  *)
(* one after the other and answers.  When it says yes all of them were     *)
(* read or written, when it says no, those done before it gave up.  A call *)
(* for one sector, the only kind that CFat32FileSystem makes, that says no *)
(* has done nothing or all.                                                *)
(***************************************************************************)
EXTENDS Integers, Sequences

CONSTANTS LBA, Data

VARIABLES
    disk,      \* the contents of the sectors
    call,      \* the call that is being made: [op, lba, sectors, data]
    done,      \* sectors of it that are done
    buffer,    \* what it has read
    result     \* the answer to the last call

vars == <<disk, call, done, buffer, result>>

NoCall == [op |-> "none", lba |-> 0, sectors |-> 0, data |-> <<>>]

Begin ==
    /\ call.op = "none"
    /\ call'.op \in {"read", "write"}
    /\ done' = 0 /\ buffer' = <<>>
    /\ UNCHANGED <<disk, result>>

ReadOne ==
    /\ call.op = "read" /\ done < call.sectors
    /\ buffer' = Append(buffer, disk[call.lba + done])
    /\ done' = done + 1
    /\ UNCHANGED <<disk, call, result>>

WriteOne ==
    /\ call.op = "write" /\ done < call.sectors
    /\ disk' = [disk EXCEPT ![call.lba + done] = call.data[done + 1]]
    /\ done' = done + 1
    /\ UNCHANGED <<call, buffer, result>>

\* The call says yes or no.
Return(ok) ==
    /\ call.op # "none"
    /\ ok => done = call.sectors
    /\ call' = NoCall /\ result' = ok
    /\ UNCHANGED <<disk, done, buffer>>

Next == Begin \/ ReadOne \/ WriteOne \/ \E ok \in BOOLEAN : Return(ok)
=============================================================================
