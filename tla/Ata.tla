-------------------------------- MODULE Ata --------------------------------
(***************************************************************************)
(* The disk driver, CATADriver (kernel/src/drivers/ata.cpp), and the drive *)
(* that it programs.  The driver polls: each step of it is the code up to  *)
(* the next time that it looks at the status register, and the drive works *)
(* in between.                                                             *)
(*                                                                         *)
(* The drive is external.  It is busy with a command until it asks for the *)
(* data of a sector (drq) or reports an error, and busy again while it     *)
(* stores a sector.  `event' names what the driver does not handle: the    *)
(* error bit, which read_sectors and write_sectors never look at, and a    *)
(* command given while the drive still waits for the data of one that the  *)
(* driver has given up.                                                    *)
(***************************************************************************)
EXTENDS Integers, Sequences, FiniteSets

CONSTANTS
    LBA,          \* the sectors in use
    Data,         \* contents of a sector
    MaxSectors,   \* bound on the sectors of a call
    MaxPolls,     \* polls until a wait gives up (100000)
    Radix,        \* values of a register for a part of the address (256)
    HeadRadix     \* values of the part in the drive register (16)

\* The address fits the registers: 28 bits for a disk of 131072 sectors.
ASSUME AtaAssumption ==
    /\ LBA \subseteq Nat /\ MaxSectors \in Nat
    /\ MaxPolls \in Nat \ {0} /\ Radix \in Nat \ {0} /\ HeadRadix \in Nat \ {0}
    /\ \A lba \in LBA : lba < Radix * Radix * Radix * HeadRadix

VARIABLES
    pc,             \* where the driver is
    m_initialized,
    call,           \* the call: [op, lba, sectors, data]
    sector,         \* sectors done
    buffer,         \* what has been read
    polls,          \* polls of the current wait
    result,         \* the answer to the last call
    \* The drive:
    st,             \* "absent", "idle", "busy", "drq", "storing", "error"
    cmd,            \* its command
    at,             \* the sector that it works on
    left,           \* sectors left to transfer
    word,           \* the contents being transferred
    media,          \* the contents of the sectors
    event           \* "none", "error", "late"

driver == <<pc, m_initialized, call, sector, buffer, polls, result>>
drive == <<st, cmd, at, left, word, media>>
vars == <<driver, drive, event>>

NoCall == [op |-> "none", lba |-> 0, sectors |-> 0, data |-> <<>>]

Call ==
    {NoCall}
      \union {[op |-> "read", lba |-> l, sectors |-> n, data |-> <<>>] :
                l \in LBA, n \in 1 .. MaxSectors}
      \union {[op |-> "write", lba |-> l, sectors |-> n, data |-> d] :
                l \in LBA, n \in 1 .. MaxSectors, d \in [1 .. MaxSectors -> Data]}

\* The calls for sectors that exist.
Calls == {c \in Call : c.op # "none" /\ \A i \in 0 .. c.sectors - 1 : c.lba + i \in LBA}

Init ==
    /\ pc = "idle" /\ m_initialized = FALSE
    /\ call = NoCall /\ sector = 0 /\ buffer = <<>> /\ polls = 0
    /\ result = FALSE
    /\ st \in {"absent", "idle"}
    /\ cmd = "none" /\ at = 0 /\ left = 0
    /\ media \in [LBA -> Data] /\ word \in Data
    /\ event = "none"

-----------------------------------------------------------------------------
\* The status register.
BSY == st \in {"busy", "storing"}
DRQ == st = "drq"
ERR == st = "error"
RDY == st \in {"idle", "drq", "error"}

\* A mutant of registers: the middle part is sent twice.
registers_twice(lba) ==
    [low |-> lba % Radix,
     mid |-> (lba \div Radix) % Radix,
     high |-> (lba \div Radix) % Radix,
     head |-> (lba \div (Radix * Radix * Radix)) % HeadRadix]

\* The parts of the address as read_sectors and write_sectors send them.
registers(lba) ==
    [low |-> lba % Radix,
     mid |-> (lba \div Radix) % Radix,
     high |-> (lba \div (Radix * Radix)) % Radix,
     head |-> (lba \div (Radix * Radix * Radix)) % HeadRadix]

\* The sector that the drive understands.
address(r) == r.low + Radix * (r.mid + Radix * (r.high + Radix * r.head))

\* The drive takes a command unless it waits for data; then it may drop it.
Takes(op, lba, n) ==
    /\ st' = "busy" /\ cmd' = op /\ at' = lba /\ left' = n
    /\ UNCHANGED <<word, media>>

Command(op, lba, n) ==
    /\ event' = IF DRQ /\ event = "none" THEN "late" ELSE event
    /\ Takes(op, lba, n) \/ (DRQ /\ UNCHANGED drive)

Return(ok) == pc' = "idle" /\ call' = NoCall /\ result' = ok

-----------------------------------------------------------------------------
(***************************************************************************)
(* The driver.  diskRead and diskWrite call initialize before every call.  *)
(***************************************************************************)

\* A call begins: initialize returns at once once it has succeeded.
Begin(c) ==
    /\ pc = "idle"
    /\ call' = c /\ sector' = 0 /\ buffer' = <<>> /\ polls' = 0
    /\ pc' = IF m_initialized THEN "wait_not_busy" ELSE "identify"
    /\ UNCHANGED <<m_initialized, result, drive, event>>

\* identify: no drive reads as status 0.
identify ==
    /\ pc = "identify"
    /\ IF st = "absent"
         THEN Return(FALSE) /\ UNCHANGED <<drive, event>>
         ELSE /\ Command("identify", 0, 1)
              /\ pc' = "identify_wait"
              /\ UNCHANGED <<call, result>>
    /\ UNCHANGED <<m_initialized, sector, buffer, polls>>

\* Its loop has no limit: it ends with an error or with the data.
identify_wait ==
    /\ pc = "identify_wait"
    /\ \/ ERR /\ Return(FALSE) /\ UNCHANGED <<m_initialized, drive>>
       \/ /\ ~BSY /\ DRQ
          /\ m_initialized' = TRUE
          /\ pc' = "wait_not_busy"
          /\ st' = "idle"
          /\ UNCHANGED <<call, result, cmd, at, left, word, media>>
    /\ UNCHANGED <<sector, buffer, polls, event>>

\* A mutant of the waits: they never give up.
poll_forever(ok, next) ==
    /\ IF ok THEN pc' = next ELSE UNCHANGED pc
    /\ polls' = 0
    /\ UNCHANGED <<call, result>>
    /\ UNCHANGED <<m_initialized, sector, buffer, drive, event>>

\* One round of wait_not_busy or wait_ready: on, give up, or poll again.
poll(ok, next) ==
    /\ \/ ok /\ pc' = next /\ polls' = 0 /\ UNCHANGED <<call, result>>
       \/ /\ ~ok /\ polls + 1 < MaxPolls
          /\ polls' = polls + 1
          /\ UNCHANGED <<pc, call, result>>
       \/ ~ok /\ polls + 1 >= MaxPolls /\ polls' = 0 /\ Return(FALSE)
    /\ UNCHANGED <<m_initialized, sector, buffer, drive, event>>

wait_not_busy == pc = "wait_not_busy" /\ poll(~BSY, "command")

\* select_drive, the registers and the command.
command ==
    /\ pc = "command"
    /\ Command(call.op, address(registers(call.lba)), call.sectors)
    /\ pc' = "wait_sector"
    /\ UNCHANGED <<m_initialized, call, sector, buffer, polls, result>>

wait_sector == pc = "wait_sector" /\ poll(~BSY, "wait_ready")

wait_ready == pc = "wait_ready" /\ poll(RDY, "transfer")

\* One sector of read_sectors.  Without drq the port gives anything.
ReadSector ==
    /\ call.op = "read"
    /\ IF DRQ /\ cmd = "read"
         THEN /\ buffer' = Append(buffer, word)
              /\ st' = IF left = 1 THEN "idle" ELSE "busy"
              /\ at' = at + 1 /\ left' = left - 1
              /\ UNCHANGED <<cmd, word, media, event>>
         ELSE /\ \E d \in Data : buffer' = Append(buffer, d)
              /\ event' = IF event = "none" THEN "error" ELSE event
              /\ UNCHANGED drive

\* A mutant of write_sectors: the buffer is not moved on to the next sector.
WriteSector_same ==
    /\ call.op = "write"
    /\ IF DRQ /\ cmd = "write"
         THEN /\ word' = call.data[1]
              /\ st' = "storing"
              /\ UNCHANGED <<cmd, at, left, media, event>>
         ELSE /\ event' = IF event = "none" THEN "error" ELSE event
              /\ UNCHANGED drive
    /\ UNCHANGED buffer

\* One sector of write_sectors.  Without drq the port takes nothing.
WriteSector ==
    /\ call.op = "write"
    /\ IF DRQ /\ cmd = "write"
         THEN /\ word' = call.data[sector + 1]
              /\ st' = "storing"
              /\ UNCHANGED <<cmd, at, left, media, event>>
         ELSE /\ event' = IF event = "none" THEN "error" ELSE event
              /\ UNCHANGED drive
    /\ UNCHANGED buffer

transfer ==
    /\ pc = "transfer"
    /\ ReadSector \/ WriteSector
    /\ sector' = sector + 1
    /\ pc' = IF sector + 1 < call.sectors THEN "wait_sector" ELSE "return"
    /\ UNCHANGED <<m_initialized, call, polls, result>>

\* The call says yes after the last sector; the drive may be storing it.
return_true ==
    /\ pc = "return"
    /\ Return(TRUE)
    /\ UNCHANGED <<m_initialized, sector, buffer, polls, drive, event>>

-----------------------------------------------------------------------------
(***************************************************************************)
(* The drive.                                                              *)
(***************************************************************************)
Fetch ==
    /\ st = "busy"
    /\ st' = "drq"
    /\ word' = IF cmd = "read" /\ at \in LBA THEN media[at] ELSE word
    /\ UNCHANGED <<driver, cmd, at, left, media, event>>

Store ==
    /\ st = "storing"
    /\ media' = [media EXCEPT ![at] = word]
    /\ at' = at + 1 /\ left' = left - 1
    /\ st' = IF left = 1 THEN "idle" ELSE "drq"
    /\ UNCHANGED <<driver, cmd, word, event>>

\* A sector that cannot be read or stored.
Fail ==
    /\ BSY
    /\ st' = "error"
    /\ event' = IF cmd # "identify" /\ event = "none" THEN "error" ELSE event
    /\ UNCHANGED <<driver, cmd, at, left, word, media>>

Next ==
    \/ \E c \in Calls : Begin(c)
    \/ identify \/ identify_wait
    \/ wait_not_busy \/ command \/ wait_sector \/ wait_ready \/ transfer
    \/ return_true
    \/ Fetch \/ Store \/ Fail

Spec == Init /\ [][Next]_vars

\* The driver's loops go on; only for identify does the drive have to answer.
Fairness ==
    /\ WF_vars(identify) /\ WF_vars(identify_wait)
    /\ WF_vars(wait_not_busy) /\ WF_vars(command) /\ WF_vars(wait_sector)
    /\ WF_vars(wait_ready) /\ WF_vars(transfer) /\ WF_vars(return_true)
    /\ WF_vars(cmd = "identify" /\ (Fetch \/ Fail))

FairSpec == Spec /\ Fairness

-----------------------------------------------------------------------------
(***************************************************************************)
(* Properties.                                                             *)
(***************************************************************************)

\* The values of the variables.
TypeOK ==
    /\ pc \in {"idle", "identify", "identify_wait", "wait_not_busy", "command",
               "wait_sector", "wait_ready", "transfer", "return"}
    /\ m_initialized \in BOOLEAN
    /\ call \in Calls \union {NoCall}
    /\ sector \in 0 .. MaxSectors
    /\ buffer \in Seq(Data)
    /\ polls \in 0 .. MaxPolls - 1 /\ result \in BOOLEAN
    /\ st \in {"absent", "idle", "busy", "drq", "storing", "error"}
    /\ cmd \in {"none", "identify", "read", "write"}
    /\ at \in Nat /\ left \in Nat
    /\ word \in Data
    /\ media \in [LBA -> Data]
    /\ event \in {"none", "error", "late"}

\* While the driver is in the loop over the sectors of a call, the drive works
\* on the same command at the same place: the sector that the driver waits
\* for is the one that the drive is fetching, or will ask for when it has
\* stored the one before.  No timing of the drive gets them out of step.
Lockstep ==
    event = "none" /\ pc \in {"wait_sector", "wait_ready", "transfer"} =>
        /\ cmd = call.op
        /\ IF st = "storing"
             THEN at = call.lba + sector - 1 /\ left = call.sectors - sector + 1
             ELSE /\ st \in {"busy", "drq"}
                  /\ at = call.lba + sector /\ left = call.sectors - sector
        /\ pc \in {"wait_ready", "transfer"} => DRQ

\* The driver and its drive implement a disk, seen from the file system: a
\* sector counts as written as soon as the drive has its data.
D == INSTANCE Disk WITH
       disk <- IF st = "storing" THEN [media EXCEPT ![at] = word] ELSE media,
       done <- sector

IsDisk ==
    [][event' = "none" =>
         D!Next \/ UNCHANGED <<D!vars>>]_vars

\* Every call returns, whatever the drive does once it has been identified:
\* the waits give up after MaxPolls rounds.
CallsReturn == (pc # "idle") ~> (pc = "idle")
=============================================================================
