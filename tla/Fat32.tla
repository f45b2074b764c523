------------------------------- MODULE Fat32 -------------------------------
(***************************************************************************)
(* The FAT32 file system, CFat32FileSystem (kernel/src/fs/fat32.cpp), with *)
(* the shell commands and the editor's save, which call it.  One sector is *)
(* one cluster, as mkfs.fat formats the 64 MB image of the makefile, so a  *)
(* directory is one cluster of DirSlots entries and never grows.           *)
(*                                                                         *)
(* A call computes the sector writes that it makes (todo); each write may  *)
(* succeed, fail, or be cut off by a power loss.  `event' names what makes *)
(* the volume inconsistent or sends a call outside it; nothing is known    *)
(* afterwards and the model stops there.                                   *)
(***************************************************************************)
EXTENDS Integers, SequencesExt, FiniteSetsExt

CONSTANTS
    m_totalClusters,   \* clusters are numbered from 2 to m_totalClusters - 1
    DirSlots,          \* directory entries in a cluster (16)
    EntryClusters,     \* cluster numbers that an entry has room for (2^16)
    MAX_DIR_STACK,     \* depth of m_dirStack (32)
    Name,              \* the names that users type, "." and ".." excepted
    Length,            \* their lengths
    Stored,            \* what is left of them in the 11 bytes of an entry
    Path,              \* the paths given to rm, mv, edit: [abs, comps]
    Pattern,           \* the patterns given to rm, as sets of names
    CHUNK_SIZE,        \* clusters that cat reads at a time (8)
    Text,              \* what is saved: sequences of cluster contents
    MaxFaults,         \* bound: failed writes and power losses
    MaxCommands        \* bound: commands

VARIABLES
    fat,               \* the FAT entry of each cluster (first copy)
    sect,              \* the contents of each cluster
    m_currentDirectoryCluster,
    m_dirStack,        \* clusters only
    saved_cluster,     \* what the ...ByPath calls restore, 0 if none runs
    script,            \* calls that the running command still makes
    todo,              \* writes that the running call still makes
    faults,
    commands,          \* commands given so far
    event,
    text               \* history: what the file at a cluster should contain

vars == <<fat, sect, m_currentDirectoryCluster, m_dirStack, saved_cluster,
          script, todo, faults, commands, event, text>>
disk == <<fat, sect>>
shellDir == <<m_currentDirectoryCluster, m_dirStack, saved_cluster>>

ROOT_CLUSTER == 2
FREE == 0
EOC == -1
Cluster == ROOT_CLUSTER .. m_totalClusters - 1
Dots == {".", ".."}
Slot == 1 .. DirSlots

\* The first byte of an entry tells 0x00 and 0xE5; attribute 0x0F is a part
\* of a long name.
Zero == [kind |-> "zero"]
Erased == [kind |-> "erased"]
LongPart == [kind |-> "lfn"]
Entry(n, d, c, s) == [kind |-> "entry", name |-> n, dir |-> d, cluster |-> c, size |-> s]
Data(t) == [kind |-> "data", token |-> t]
DotSector(self, parent) ==
    [kind |-> "dir",
     slots |-> [j \in Slot |-> IF j = 1 THEN Entry(".", TRUE, self, 0)
                               ELSE IF j = 2 THEN Entry("..", TRUE, parent, 0) ELSE Zero]]

\* A volume fresh from mkfs.fat, after mount has found its root directory
\* empty and written the dot entries.
Init ==
    /\ fat = [c \in Cluster |-> IF c = ROOT_CLUSTER THEN EOC ELSE FREE]
    /\ sect = [c \in Cluster |-> IF c = ROOT_CLUSTER THEN DotSector(c, c) ELSE Data("0")]
    /\ m_currentDirectoryCluster = ROOT_CLUSTER
    /\ m_dirStack = <<ROOT_CLUSTER>>
    /\ saved_cluster = 0
    /\ script = <<>> /\ todo = <<>>
    /\ faults = 0 /\ commands = 0 /\ event = "none"
    /\ text = [c \in Cluster |-> <<>>]

-----------------------------------------------------------------------------
\* Lookups.  A directory's own entry in the FAT ends its chain.  One that has
\* been deleted, or whose cluster now holds a file, is read as garbage.
Missing == 0
Garbage == 1
DirOk(d) == fat[d] = EOC /\ sect[d].kind = "dir"
slotsOf(d) == sect[d].slots
UpToZero(d) == {j \in Slot : \A i \in 1 .. j : slotsOf(d)[i] # Zero}
FirstOr0(S) == IF S = {} THEN 0 ELSE Min(S)

findFileInDirectory(d, n) ==
    FirstOr0({j \in UpToZero(d) : slotsOf(d)[j].kind = "entry" /\ slotsOf(d)[j].name = n})

findFreeDirectoryEntry(d) == FirstOr0({j \in Slot : slotsOf(d)[j] \in {Zero, Erased}})

\* One step of findFile's walk along a path.
Enter(d, n) ==
    IF d \in {Missing, Garbage} THEN d
    ELSE IF ~DirOk(d) THEN Garbage
    ELSE LET j == findFileInDirectory(d, n)
         IN  IF j # 0 /\ slotsOf(d)[j].dir THEN slotsOf(d)[j].cluster ELSE Missing

\* findFile: the directory and the slot (0 if there is none) of a path.
Look(d, n) ==
    IF d \in {Missing, Garbage} THEN [in |-> d, slot |-> 0]
    ELSE IF ~DirOk(d) THEN [in |-> Garbage, slot |-> 0]
    ELSE [in |-> d, slot |-> findFileInDirectory(d, n)]

StartOf(p) == IF p.abs THEN ROOT_CLUSTER ELSE m_currentDirectoryCluster

findFile(p) == Look(FoldLeft(Enter, StartOf(p), Front(p.comps)), Last(p.comps))

At(l) == slotsOf(l.in)[l.slot]

\* The directory that deleteFile, deleteDirectory, deleteDirectoryRecursive,
\* renameFile and updateFileSize search for the last name of a path: they drop
\* the leading '/' and look the rest up from the current directory.
directoryCluster(p) ==
    IF Len(p.comps) = 1 THEN StartOf(p)
    ELSE FoldLeft(Enter, m_currentDirectoryCluster, Front(p.comps))

rel(n) == [abs |-> FALSE, comps |-> <<n>>]

\* The clusters of a chain, from c on.
Rounds == [i \in 1 .. Cardinality(Cluster) - 1 |-> i]
Chain(c) ==
    FoldLeft(LAMBDA s, i : IF fat[Last(s)] \in Cluster THEN Append(s, fat[Last(s)]) ELSE s,
             <<c>>, Rounds)

-----------------------------------------------------------------------------
\* Writes.  `fail' is what the code does when diskWrite returns false: "next"
\* goes on, "skip" leaves out the second copy of the FAT and goes on, "abort"
\* returns false after freeing the cluster `undo', if there is one.  onFail and
\* onCrash are the events of a failed write and of a power loss before it.
NoText == <<"?">>
W(k, c, j, v) ==
    [kind |-> k, c |-> c, slot |-> j, val |-> v, fail |-> "abort", undo |-> 0,
     onFail |-> "none", onCrash |-> "none", removes |-> FALSE, says |-> NoText]

\* The sector of the first copy, then the same sector of the second, which
\* nothing reads.
updateFatEntry(c, v, checked) ==
    LET w == W("fat", c, 0, v)
    IN  << [w EXCEPT !.fail = IF checked THEN "abort" ELSE "skip"],
           [w EXCEPT !.kind = "mirror", !.fail = IF checked THEN "abort" ELSE "next"] >>

freeCluster(c) == IF c \in Cluster THEN updateFatEntry(c, FREE, FALSE) ELSE <<>>
freeChain(c) == FlattenSeq([i \in 1 .. Len(Chain(c)) |-> freeCluster(Chain(c)[i])])

Clear == {c \in Cluster : fat[c] = FREE}
\* allocateCluster takes the first clear entry and ignores a failed update.
markCluster(c) == [updateFatEntry(c, EOC, FALSE) EXCEPT ![1].onFail = "unmarked"]

writeDirectoryEntry(d, j, e) == W("slot", d, j, [e EXCEPT !.cluster = @ % EntryClusters])
eraseEntry(d, j) == W("slot", d, j, Erased)

\* The outcome of a call: what it returns, the writes, and an event that it
\* runs into before them.
Fails == [ok |-> FALSE, writes |-> <<>>, event |-> "none"]
Runs(ws) == [ok |-> TRUE, writes |-> ws, event |-> "none"]
Hits(e) == [ok |-> FALSE, writes |-> <<>>, event |-> e]

\* createFile and createDirectory, in the current directory.  A name of more
\* than 11 characters takes LongParts entries before its own; writeLFNEntries
\* puts all but the last over the entries that precede the free one.
LongParts(n) == IF Length[n] > 11 THEN (Length[n] + 12) \div 13 ELSE 0

create(n, isDir) ==
    LET d == m_currentDirectoryCluster
        c == FirstOr0(Clear)
        j == findFreeDirectoryEntry(d)
        k == FirstOr0({i \in Slot : i > j /\ slotsOf(d)[i] \in {Zero, Erased}})
        long == LongParts(n) > 0
        part == [W("slot", d, j, LongPart) EXCEPT !.undo = c]
        entry == [writeDirectoryEntry(d, IF long THEN k ELSE j, Entry(Stored[n], isDir, c, 0))
                    EXCEPT !.undo = c, !.says = IF isDir THEN NoText ELSE <<>>]
        dots == [W("sector", c, 0, DotSector(c, d))
                    EXCEPT !.onFail = "nodots", !.onCrash = "nodots"]
    IN  IF ~DirOk(d) THEN Hits("stale")
        ELSE IF findFileInDirectory(d, n) # 0 \/ c = 0 THEN Fails
        ELSE IF j = 0 THEN [Fails EXCEPT !.writes = markCluster(c) \o freeCluster(c)]
        ELSE IF LongParts(n) > 1 THEN Hits("lfn")
        ELSE IF c >= EntryClusters THEN Hits("wide")
        ELSE IF long /\ k = 0
        THEN [Fails EXCEPT !.writes = markCluster(c) \o <<part>> \o freeCluster(c)]
        ELSE Runs(markCluster(c) \o (IF long THEN <<part>> ELSE <<>>) \o <<entry>>
                    \o (IF isDir THEN <<dots>> ELSE <<>>))

\* What deleteFile, deleteDirectory, deleteDirectoryRecursive and renameFile
\* find out first: the entry, and whether the second search finds the same one.
\* (deleteDirectoryRecursive calls itself for the entries of the directory with
\* the path "%s/%s", which names nothing: the kernel's snprintf copies its
\* format.)
Checked(p, wanted, then) ==
    LET l == findFile(p)
        d == directoryCluster(p)
    IN  IF l.in = Garbage \/ d = Garbage THEN Hits("stale")
        ELSE IF l.slot = 0 \/ d = Missing \/ At(l).dir \notin wanted THEN Fails
        ELSE IF d # l.in THEN Hits("wrongdir")
        ELSE IF Last(p.comps) \in Dots THEN Hits("dots")
        ELSE then

\* A mutant of deleteFile: the chain is freed before the entry is erased.
erase_after_free(l) == Runs(freeChain(At(l).cluster)
                                \o <<[eraseEntry(l.in, l.slot) EXCEPT !.removes = TRUE]>>)

\* The entry is erased, then the chain is freed cluster by cluster.
erase(l) == Runs(<<[eraseEntry(l.in, l.slot) EXCEPT !.removes = TRUE]>>
                    \o freeChain(At(l).cluster))

deleteFile(p) == Checked(p, {FALSE}, erase(findFile(p)))

\* Nothing is freed when the second search finds no entry.
deleteDirectoryRecursive(p) ==
    LET d == directoryCluster(p)
    IN  IF d \in Cluster /\ DirOk(d) /\ findFileInDirectory(d, Last(p.comps)) = 0 THEN Fails
        ELSE Checked(p, {TRUE}, erase(findFile(p)))

\* A part of a long name counts as an entry.
isDirectoryEmpty(d) ==
    \A j \in UpToZero(d) :
        LET e == slotsOf(d)[j]
        IN  e = Erased \/ (e.kind = "entry" /\ e.name \in Dots)

\* No command calls deleteDirectory.
deleteDirectory(p) ==
    LET l == findFile(p)
    IN  IF l.slot # 0 /\ At(l).dir /\ ~DirOk(At(l).cluster) THEN Hits("stale")
        ELSE IF l.slot # 0 /\ At(l).dir /\ ~isDirectoryEmpty(At(l).cluster) THEN Fails
        ELSE Checked(p, {TRUE}, erase(l))

\* The clusters of the directories below d, d included.
Subdirectories(D) ==
    {e.cluster : e \in {f \in UNION {Range(slotsOf(x)) : x \in {y \in D : sect[y].kind = "dir"}} :
                            f.kind = "entry" /\ f.name \notin Dots /\ f.dir}}
Below(d) == FoldLeft(LAMBDA D, i : D \cup Subdirectories(D), {d}, Rounds)

\* A mutant of renameFile: the old entry is erased first.
moveEntry_erase_first(l, d, j, moved) ==
    <<eraseEntry(l.in, l.slot), writeDirectoryEntry(d, j, moved)>>

\* The writes of a move to slot j of another directory.
moveEntry(l, d, j, moved) ==
    <<writeDirectoryEntry(d, j, moved),
      [eraseEntry(l.in, l.slot) EXCEPT !.onFail = "twice", !.onCrash = "twice"]>>

\* renameFile: a new name that is a directory takes the file into it.  In the
\* same directory the name is overwritten in place, past its 11 bytes if it is
\* longer.  Otherwise the new entry is written before the old one is erased;
\* nothing looks for an entry of that name in the other directory.
renameFile(p, n) ==
    LET l == findFile(p)
        dest == findFile(rel(n))
        into == dest.slot # 0 /\ At(dest).dir
        d == IF into THEN At(dest).cluster ELSE m_currentDirectoryCluster
        newName == IF into THEN Last(p.comps) ELSE n
        j == findFreeDirectoryEntry(d)
        moved == [At(l) EXCEPT !.name = Stored[newName]]
    IN  Checked(p, BOOLEAN,
            IF dest.in = Garbage THEN Hits("stale")
            ELSE IF dest.slot # 0 /\ ~into THEN Fails
            ELSE IF d = l.in /\ newName = Last(p.comps) THEN Runs(<<>>)
            ELSE IF d = l.in
            THEN IF Length[newName] > 11 THEN Hits("longname")
                 ELSE Runs(<<W("slot", d, l.slot, moved)>>)
            ELSE IF ~DirOk(d) THEN Hits("stale")
            ELSE IF At(l).dir /\ d \in Below(At(l).cluster) THEN Hits("itself")
            ELSE IF j = 0 THEN Fails
            ELSE Runs(moveEntry(l, d, j, moved)))

\* A chain grows by one cluster; where a written chain ends.
link(from, to) == markCluster(to) \o updateFatEntry(from, to, TRUE)

\* A mutant of writeFile: the chain ends one cluster too early.
chainEnd_early(old, all, n) == all[Max({1, n - 1})]

chainEnd(old, all, n) == IF n < Len(old) THEN old[n + 1] ELSE all[n]

\* writeFile(cluster, t): the clusters of the chain are overwritten; beyond its
\* end a cluster is allocated and linked for each further one.  The end is set
\* at the last cluster written, or at the one after it if there is one.
writeFile(p, t) ==
    LET l == findFile(p)
        old == Chain(At(l).cluster)
        new == SetToSortSeq(Clear, <)
        all == old \o new
        n == Min({Len(t), Len(all)})
        grow(i) == IF i < Len(old) \/ i = Len(t) \/ i = Len(all) THEN <<>>
                   ELSE link(all[i], all[i + 1])
        data == FlattenSeq([i \in 1 .. n |-> <<W("sector", all[i], 0, Data(t[i]))>> \o grow(i)])
    IN  IF l.in = Garbage THEN Hits("stale")
        ELSE IF l.slot = 0 THEN Fails
        ELSE IF At(l).dir THEN Hits("isdir")
        ELSE IF n < Len(t) THEN [Fails EXCEPT !.writes = data]
        ELSE Runs(data \o updateFatEntry(chainEnd(old, all, n), EOC, TRUE))

updateFileSize(p, t) ==
    LET d == directoryCluster(p)
        l == Look(d, Last(p.comps))
    IN  IF l.in = Garbage THEN Hits("stale")
        ELSE IF l.slot = 0 THEN Fails
        ELSE IF l # findFile(p) THEN Hits("wrongdir")
        ELSE Runs(<<[W("slot", d, l.slot, [At(l) EXCEPT !.size = Len(t)]) EXCEPT !.says = t]>>)

-----------------------------------------------------------------------------
\* A command is a list of calls.  `remove' is what rm does with one path, and
\* `ensure' how the editor's save makes its file.
Call(op, p, n, t) == [op |-> op, path |-> p, name |-> n, text |-> t]

ensure(p) ==
    IF findFile(p).in = Garbage THEN Hits("stale")
    ELSE IF findFile(p).slot # 0 THEN Runs(<<>>)
    ELSE IF p.abs \/ Len(p.comps) > 1 THEN Fails
    ELSE create(Last(p.comps), FALSE)

remove(p) ==
    LET l == findFile(p)
    IN  IF l.in = Garbage THEN Hits("stale")
        ELSE IF l.slot = 0 THEN Fails
        ELSE IF At(l).dir THEN deleteDirectoryRecursive(p) ELSE deleteFile(p)

Outcome(k) ==
    CASE k.op = "createFile" -> create(k.name, FALSE)
      [] k.op = "createDirectory" -> create(k.name, TRUE)
      [] k.op = "ensure" -> ensure(k.path)
      [] k.op = "remove" -> remove(k.path)
      [] k.op = "deleteDirectory" -> deleteDirectory(k.path)
      [] k.op = "renameFile" -> renameFile(k.path, k.name)
      [] k.op = "writeFile" -> writeFile(k.path, k.text)
      [] k.op = "updateFileSize" -> updateFileSize(k.path, k.text)

-----------------------------------------------------------------------------
Idle == script = <<>> /\ todo = <<>> /\ saved_cluster = 0 /\ event = "none"

\* A user gives a command.
Prompt ==
    /\ Idle
    /\ commands < MaxCommands
    /\ commands' = commands + 1

Command(calls) ==
    /\ Prompt
    /\ script' = calls
    /\ UNCHANGED <<disk, shellDir, todo, faults, event, text>>

cmd_touch(n) == Command(<<Call("createFile", rel(n), n, <<>>)>>)
cmd_mkdir(n) == Command(<<Call("createDirectory", rel(n), n, <<>>)>>)
cmd_rm(p) == Command(<<Call("remove", p, "", <<>>)>>)
cmd_mv(p, n) == Command(<<Call("renameFile", p, n, <<>>)>>)
call_deleteDirectory(p) == Command(<<Call("deleteDirectory", p, "", <<>>)>>)

\* A directory without a 0x00 entry: the commands that copy it to a buffer of
\* 1024 bytes go on into the part of the buffer that readFile has not filled.
Full(d) == UpToZero(d) = Slot

\* rm with a '*': the names come from the root directory, the files to delete
\* from the current one.  A name is looked up with the spaces that fill the 11
\* bytes of its entry, so that only names of 11 characters are found.
rm_wildcard(pattern) ==
    LET scanned == SubSeq(slotsOf(ROOT_CLUSTER), 1, Cardinality(UpToZero(ROOT_CLUSTER)))
        named == SelectSeq(scanned, LAMBDA e : e.kind = "entry" /\ e.name \in pattern
                                               /\ Length[e.name] = 11)
        calls == [i \in 1 .. Len(named) |-> Call("remove", rel(named[i].name), "", <<>>)]
    IN  \/ Command(calls)
        \/ /\ Prompt /\ Full(ROOT_CLUSTER)
           /\ event' = "unread"
           /\ UNCHANGED <<disk, shellDir, script, todo, faults, text>>

\* Ctrl-S in the editor, which has not opened a directory.
save(p, t) ==
    /\ findFile(p).slot # 0 => ~At(findFile(p)).dir
    /\ Command(<<Call("ensure", p, "", <<>>), Call("writeFile", p, "", t),
                 Call("updateFileSize", p, "", t)>>)

\* createFileWithContent and writeFileByPath make the directory of the path
\* the current one for as long as they run.
ByPath(p, calls) ==
    LET d == FoldLeft(Enter, StartOf(p), Front(p.comps))
    IN  /\ Prompt
        /\ d # Missing
        /\ IF d = Garbage
           THEN event' = "stale" /\ UNCHANGED <<shellDir, script>>
           ELSE /\ saved_cluster' = m_currentDirectoryCluster
                /\ m_currentDirectoryCluster' = d
                /\ script' = calls
                /\ UNCHANGED <<m_dirStack, event>>
        /\ UNCHANGED <<disk, todo, faults, text>>

Content(n, t) == <<Call("writeFile", rel(n), "", t), Call("updateFileSize", rel(n), "", t)>>
createFileWithContent(p, t) ==
    LET n == Last(p.comps)
    IN  ByPath(p, <<Call("createFile", rel(n), n, <<>>)>> \o Content(n, t))
writeFileByPath(p, t) == ByPath(p, Content(Last(p.comps), t))

\* A mutant of the ...ByPath calls: their cleanup is missing.
Restore_forgets ==
    /\ script = <<>> /\ todo = <<>> /\ saved_cluster # 0 /\ event = "none"
    /\ saved_cluster' = 0
    /\ UNCHANGED <<disk, m_currentDirectoryCluster, m_dirStack, script, todo, faults, commands,
                   event, text>>

\* Their cleanup.
Restore ==
    /\ script = <<>> /\ todo = <<>> /\ saved_cluster # 0 /\ event = "none"
    /\ m_currentDirectoryCluster' = saved_cluster
    /\ saved_cluster' = 0
    /\ UNCHANGED <<disk, m_dirStack, script, todo, faults, commands, event, text>>

-----------------------------------------------------------------------------
\* cd without an argument, and cd /: the stack stays as it is.
cd_root ==
    /\ Prompt
    /\ m_currentDirectoryCluster' = ROOT_CLUSTER
    /\ UNCHANGED <<disk, m_dirStack, saved_cluster, script, todo, faults, event, text>>

pop_directory ==
    IF Len(m_dirStack) <= 1
    THEN m_currentDirectoryCluster' = ROOT_CLUSTER /\ UNCHANGED m_dirStack
    ELSE /\ m_dirStack' = Front(m_dirStack)
         /\ m_currentDirectoryCluster' = Last(Front(m_dirStack))

cd_up ==
    /\ Prompt
    /\ pop_directory
    /\ UNCHANGED <<disk, saved_cluster, script, todo, faults, event, text>>

push_directory(c) ==
    m_dirStack' = IF Len(m_dirStack) >= MAX_DIR_STACK THEN m_dirStack ELSE Append(m_dirStack, c)

cmd_cd(n) ==
    LET l == Look(m_currentDirectoryCluster, n)
    IN  /\ Prompt
        /\ \/ /\ l.slot # 0 /\ At(l).dir
              /\ push_directory(At(l).cluster)
              /\ m_currentDirectoryCluster' = At(l).cluster
              /\ UNCHANGED <<saved_cluster, event>>
           \/ /\ l.slot = 0
              /\ IF l.in = Garbage THEN event' = "stale"
                 ELSE Full(l.in) /\ event' = "unread"
              /\ UNCHANGED shellDir
        /\ UNCHANGED <<disk, script, todo, faults, text>>

-----------------------------------------------------------------------------
\* After a failed call only rm with a '*' goes on.
AfterFailure(calls) == SelectSeq(calls, LAMBDA k : k.op = "remove")

\* The next call of the command reads the volume and starts to write.
NextCall ==
    /\ todo = <<>> /\ script # <<>> /\ event = "none"
    /\ LET k == Head(script)
           r == Outcome(k)
           l == findFile(k.path)
       IN  /\ todo' = r.writes
           /\ event' = r.event
           /\ script' = IF r.ok THEN Tail(script) ELSE AfterFailure(Tail(script))
           /\ text' = IF k.op = "writeFile" /\ l.slot # 0
                      THEN [text EXCEPT ![At(l).cluster] = NoText] ELSE text
    /\ UNCHANGED <<disk, shellDir, faults, commands>>

diskWrite ==
    /\ todo # <<>> /\ event = "none"
    /\ LET w == Head(todo)
       IN  /\ fat' = IF w.kind = "fat" THEN [fat EXCEPT ![w.c] = w.val] ELSE fat
           /\ sect' = CASE w.kind = "slot" -> [sect EXCEPT ![w.c].slots[w.slot] = w.val]
                        [] w.kind = "sector" -> [sect EXCEPT ![w.c] = w.val]
                        [] OTHER -> sect
           /\ text' = IF w.says # NoText THEN [text EXCEPT ![w.val.cluster] = w.says] ELSE text
    /\ todo' = Tail(todo)
    /\ UNCHANGED <<shellDir, script, faults, commands, event>>

\* write_sectors gives up on a drive that stays busy.
diskWriteFails ==
    /\ todo # <<>> /\ event = "none" /\ faults < MaxFaults
    /\ LET w == Head(todo)
       IN  /\ todo' = CASE w.fail = "next" -> Tail(todo)
                        [] w.fail = "skip" -> Tail(Tail(todo))
                        [] w.fail = "abort" -> freeCluster(w.undo)
           /\ script' = IF w.fail = "abort" THEN AfterFailure(script) ELSE script
           /\ event' = w.onFail
    /\ faults' = faults + 1
    /\ UNCHANGED <<disk, shellDir, commands, text>>

\* The machine stops; the volume is mounted again from the sectors written.
PowerLoss ==
    /\ event = "none" /\ faults < MaxFaults
    /\ event' = IF todo = <<>> THEN "none" ELSE Head(todo).onCrash
    /\ m_currentDirectoryCluster' = ROOT_CLUSTER
    /\ m_dirStack' = <<ROOT_CLUSTER>>
    /\ saved_cluster' = 0 /\ script' = <<>> /\ todo' = <<>>
    /\ faults' = faults + 1
    /\ UNCHANGED <<disk, commands, text>>

Next ==
    \/ \E n \in Name : cmd_touch(n) \/ cmd_mkdir(n)
    \/ \E n \in Name \cup {"."} : cmd_cd(n)
    \/ cd_root \/ cd_up
    \/ \E p \in Path : cmd_rm(p) \/ call_deleteDirectory(p)
    \/ \E P \in Pattern : rm_wildcard(P)
    \/ \E p \in Path, n \in Name \cup Dots : cmd_mv(p, n)
    \/ \E p \in Path, t \in Text : save(p, t)
    \/ \E p \in {q \in Path : Len(q.comps) > 1}, t \in Text :
            createFileWithContent(p, t) \/ writeFileByPath(p, t)
    \/ NextCall \/ diskWrite \/ diskWriteFails \/ PowerLoss \/ Restore

Spec == Init /\ [][Next]_vars

-----------------------------------------------------------------------------
\* What readFile copies for a file of n clusters, and what cat shows: every
\* chunk is read from the start of the file.
readFile(c, n) == LET ch == Chain(c) IN [i \in 1 .. Min({n, Len(ch)}) |-> sect[ch[i]].token]
cmd_cat(c, n) ==
    FlattenSeq([i \in 1 .. ((n + CHUNK_SIZE - 1) \div CHUNK_SIZE) |->
                    readFile(c, Min({CHUNK_SIZE, n - (i - 1) * CHUNK_SIZE}))])

\* The entries of the directory tree, and the first clusters they name.
Listed ==
    UNION {{<<d, j>> : j \in {i \in UpToZero(d) : slotsOf(d)[i].kind = "entry"
                                                  /\ slotsOf(d)[i].name \notin Dots}} :
           d \in {y \in Below(ROOT_CLUSTER) : sect[y].kind = "dir"}}
EntryAt(x) == slotsOf(x[1])[x[2]]
Named == {EntryAt(x).cluster : x \in Listed}

\* A power loss now would leave the volume as the running call found it or
\* as it means to leave it.
Sound == event = "none" /\ (todo # <<>> => Head(todo).onCrash = "none")

-----------------------------------------------------------------------------
\* The types of the variables.
SlotType == {Zero, Erased, LongPart} \cup
    [kind : {"entry"}, name : Range(Stored) \cup Dots, dir : BOOLEAN, cluster : Cluster,
     size : Nat]
TypeOK ==
    /\ \A c \in Cluster : fat[c] \in Cluster \cup {FREE, EOC}
    /\ \A c \in Cluster : sect[c].kind = "dir" => \A j \in Slot : slotsOf(c)[j] \in SlotType
    /\ m_currentDirectoryCluster \in Cluster
    /\ m_dirStack \in BoundedSeq(Cluster, MAX_DIR_STACK) /\ m_dirStack # <<>>
    /\ saved_cluster \in Cluster \cup {0}
    /\ faults \in 0 .. MaxFaults /\ commands \in 0 .. MaxCommands

\* Every variable has its type, no entry of the tree names a free cluster, and
\* no two entries share one: the order of the writes in allocateCluster,
\* createFile, writeFile and deleteFile keeps this through failed writes and
\* power losses, the named events apart.
EntriesOwnChains ==
    TypeOK /\ (Sound =>
        LET chains == [x \in Listed |-> Chain(EntryAt(x).cluster)]
        IN  \A x \in DOMAIN chains :
                /\ fat[Last(chains[x])] = EOC
                /\ ROOT_CLUSTER \notin Range(chains[x])
                /\ EntryAt(x).dir => sect[chains[x][1]].kind = "dir"
                /\ \A y \in DOMAIN chains \ {x} : Range(chains[x]) \cap Range(chains[y]) = {})

\* A file reads back as it was last saved, whatever was created, deleted, moved
\* or cut off by a power loss since then; cat shows it if it fits in one chunk.
ReadBack ==
    Sound =>
        \A x \in Listed :
            LET e == EntryAt(x)
            IN  ~e.dir /\ text[e.cluster] # NoText =>
                    /\ readFile(e.cluster, e.size) = text[e.cluster]
                    /\ e.size <= CHUNK_SIZE => cmd_cat(e.cluster, e.size) = text[e.cluster]

\* Between commands the current directory is the root or the top of m_dirStack:
\* the ...ByPath calls put it back on every path through their cleanup.  (When
\* the stack is full, cd goes on without it.)
CwdIsKept ==
    Idle => \/ m_currentDirectoryCluster \in {ROOT_CLUSTER, Last(m_dirStack)}
            \/ Len(m_dirStack) = MAX_DIR_STACK

\* Only a delete takes a file or directory out of the tree: a move names it in
\* its new place before it erases the old entry.
NothingLost ==
    [][Sound /\ Sound' /\ ~(todo # <<>> /\ Head(todo).removes) => Named \subseteq Named']_vars
=============================================================================
