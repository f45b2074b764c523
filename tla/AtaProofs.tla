----------------------------- MODULE AtaProofs -----------------------------
(***************************************************************************)
(* Proofs about Ata, for any disk, any limit of the waits and any size of  *)
(* the address registers that the sectors fit: the driver and the drive    *)
(* stay in step, and together they implement Disk.                         *)
(***************************************************************************)
EXTENDS Ata, SequenceTheorems, TLAPS

\* Quotient and remainder.
LEMMA DivMod ==
    ASSUME NEW a \in Int, NEW r \in Int, r > 0
    PROVE  a = r * (a \div r) + (a % r)
  BY SMT

LEMMA Division ==
    ASSUME NEW a \in Nat, NEW r \in Nat \ {0}
    PROVE  /\ a \div r \in Nat /\ a % r \in 0 .. r - 1
           /\ a = r * (a \div r) + (a % r)
  <1>1. a % r \in 0 .. r - 1 /\ a \div r \in Int
    BY Z3
  <1>2. a = r * (a \div r) + (a % r)
    BY DivMod
  <1>3. ASSUME NEW q \in Int, NEW m \in 0 .. r - 1, a = r * q + m PROVE q >= 0
    <2>1. CASE q <= -1
      <3>1. r * q <= r * (-1)
        BY <2>1, Z3
      <3> QED
        BY <1>3, <3>1, Z3
    <2> QED
      BY <2>1
  <1>4. a \div r >= 0
    BY <1>1, <1>2, <1>3
  <1> QED
    BY <1>1, <1>2, <1>4

\* A number below the radix is its own remainder.
LEMMA Small ==
    ASSUME NEW r \in Nat \ {0}, NEW a \in 0 .. r - 1
    PROVE  a % r = a
  BY Z3

\* The quotient is the only number between.
LEMMA Quotient ==
    ASSUME NEW r \in Nat \ {0}, NEW q \in Nat, NEW m \in 0 .. r - 1
    PROVE  (r * q + m) \div r = q
  BY Z3

\* A number written with two radices.
LEMMA TwoDigits ==
    ASSUME NEW r \in Nat \ {0}, NEW s \in Nat \ {0}, NEW p \in Nat,
           NEW u \in 0 .. s - 1, NEW v \in 0 .. r - 1
    PROVE  /\ r * s \in Nat \ {0} /\ r * u + v \in 0 .. r * s - 1
           /\ r * (s * p + u) + v = (r * s) * p + (r * u + v)
  <1>1. r * s \in Nat \ {0}
    BY Z3
  <1>2. r * u + v \in 0 .. r * s - 1
    BY Z3
  <1>3. r * (s * p + u) = (r * s) * p + r * u
    BY Z3
  <1>4. (r * s) * p \in Nat /\ r * u \in Nat /\ v \in Nat
    BY Z3
  <1> QED
    BY <1>1, <1>2, <1>3, <1>4

\* A quotient is below the bound that the number is below.
LEMMA Bounded ==
    ASSUME NEW a \in Nat, NEW r \in Nat \ {0}, NEW h \in Nat, a < r * h
    PROVE  a \div r < h
  <1> DEFINE q == a \div r
             m == a % r
  <1>1. q \in Nat /\ m \in Nat /\ a = r * q + m
    BY Division
  <1> HIDE DEF q, m
  <1>2. CASE q >= h
    <2>1. r * q >= r * h
      BY <1>1, <1>2, Z3
    <2>2. r * q \in Nat /\ r * h \in Nat
      BY <1>1, Z3
    <2> QED
      BY <1>1, <2>1, <2>2
  <1>3. q < h
    BY <1>1, <1>2
  <1> QED
    BY <1>3 DEF q

\* Dividing twice is dividing by the product.
LEMMA TwiceDivided ==
    ASSUME NEW a \in Nat, NEW r \in Nat \ {0}, NEW s \in Nat \ {0}
    PROVE  (a \div r) \div s = a \div (r * s)
  <1> DEFINE q == a \div r
             p == q \div s
             u == q % s
             v == a % r
  <1>1. q \in Nat /\ v \in 0 .. r - 1 /\ a = r * q + v
    BY Division
  <1> HIDE DEF q, v
  <1>2. p \in Nat /\ u \in 0 .. s - 1 /\ q = s * p + u
    BY <1>1, Division
  <1> HIDE DEF p, u
  <1>3. /\ r * s \in Nat \ {0} /\ r * u + v \in 0 .. r * s - 1
        /\ r * (s * p + u) + v = (r * s) * p + (r * u + v)
    BY <1>1, <1>2, TwoDigits
  <1>4. a = (r * s) * p + (r * u + v)
    BY <1>1, <1>2, <1>3
  <1>5. a \div (r * s) = p
    BY <1>2, <1>3, <1>4, Quotient
  <1> QED
    BY <1>5 DEF p, q

\* The sector that the drive understands is the one that the driver means:
\* splitting the address over the four registers loses nothing.
LEMMA AddressKept ==
    ASSUME NEW lba \in LBA
    PROVE  lba \in Nat /\ address(registers(lba)) = lba
  <1> DEFINE R == Radix
             a == lba \div R
             b == a \div R
             c == b \div R
  <1>1. lba \in Nat /\ R \in Nat \ {0} /\ HeadRadix \in Nat \ {0} /\ R * R \in Nat \ {0}
    <2>1. lba \in Nat /\ R \in Nat \ {0} /\ HeadRadix \in Nat \ {0}
      BY AtaAssumption
    <2> QED
      BY <2>1, TwoDigits
  <1>2. a \in Nat /\ lba = R * a + (lba % R) /\ lba % R \in 0 .. R - 1
    BY <1>1, Division
  <1>3. b \in Nat /\ a = R * b + (a % R) /\ a % R \in 0 .. R - 1
    BY <1>1, <1>2, Division
  <1>4. c \in Nat /\ b = R * c + (b % R) /\ b % R \in 0 .. R - 1
    BY <1>1, <1>3, Division
  <1>5. b = lba \div (R * R) /\ c = lba \div (R * R * R)
    <2>1. b = lba \div (R * R)
      BY <1>1, TwiceDivided
    <2>2. (lba \div (R * R)) \div R = lba \div ((R * R) * R)
      BY <1>1, TwiceDivided
    <2>3. c = lba \div ((R * R) * R)
      BY <2>1, <2>2
    <2> QED
      BY <2>1, <2>3
  <1>6. c % HeadRadix = c
    <2>1. lba < (R * R * R) * HeadRadix
      BY AtaAssumption
    <2>2. c < HeadRadix
      <3>1. R * R * R \in Nat \ {0}
        BY <1>1, TwoDigits
      <3> QED
        BY <1>1, <1>5, <2>1, <3>1, Bounded
    <2> HIDE DEF c
    <2>3. c \in 0 .. HeadRadix - 1
      BY <1>1, <1>4, <2>2
    <2> QED
      BY <1>1, <2>3, Small
  <1>7. registers(lba) = [low |-> lba % R, mid |-> a % R, high |-> b % R, head |-> c]
    BY <1>5, <1>6 DEF registers
  <1>8. address(registers(lba)) = (lba % R) + R * ((a % R) + R * ((b % R) + R * c))
    BY <1>7 DEF address
  <1> QED
    BY <1>1, <1>2, <1>3, <1>4, <1>8

-----------------------------------------------------------------------------
Loop == {"wait_sector", "wait_ready", "transfer"}

\* The driver alone: a call is made except when idle, the drive is identified
\* before any other command, and the sectors are counted.
CallInv ==
    /\ pc = "idle" => call = NoCall
    /\ pc # "idle" => call \in Calls
    /\ pc \notin {"idle", "identify", "identify_wait"} => m_initialized
    /\ pc \in {"identify", "identify_wait"} => ~m_initialized
    /\ pc \in {"identify", "identify_wait", "wait_not_busy", "command"} => sector = 0
    /\ pc \in Loop => sector < call.sectors
    /\ pc = "return" => sector = call.sectors

\* The drive: what is left of its command lies on the disk, and no command
\* finds it busy.  The second is what keeps a sector that is being stored.
DriveInv ==
    /\ ~m_initialized => cmd \in {"none", "identify"}
    /\ pc = "command" => ~BSY
    /\ st = "storing" => cmd = "write"
    /\ cmd \in {"read", "write"} /\ st \in {"busy", "drq", "storing"} =>
         left >= 1 /\ \A i \in 0 .. left - 1 : at + i \in LBA
    /\ cmd = "read" /\ st = "drq" => word = media[at]

Inv == TypeOK /\ CallInv /\ DriveInv /\ Lockstep

\* What is known of a call.
LEMMA CallFacts ==
    ASSUME NEW c \in Calls
    PROVE  /\ c # NoCall /\ c.op \in {"read", "write"} /\ c.lba \in LBA /\ c.lba \in Nat
           /\ c.sectors \in 1 .. MaxSectors
           /\ \A i \in 0 .. c.sectors - 1 : c.lba + i \in LBA
           /\ c.op = "write" => c.data \in [1 .. MaxSectors -> Data]
  <1>1. c \in Call /\ c.op # "none" /\ \A i \in 0 .. c.sectors - 1 : c.lba + i \in LBA
    BY DEF Calls
  <1>2. c # NoCall
    BY <1>1 DEF NoCall
  <1>3. CASE \E l \in LBA, n \in 1 .. MaxSectors :
               c = [op |-> "read", lba |-> l, sectors |-> n, data |-> <<>>]
    BY <1>1, <1>2, <1>3, AtaAssumption
  <1>4. CASE \E l \in LBA, n \in 1 .. MaxSectors, d \in [1 .. MaxSectors -> Data] :
               c = [op |-> "write", lba |-> l, sectors |-> n, data |-> d]
    BY <1>1, <1>2, <1>4, AtaAssumption
  <1> QED
    BY <1>1, <1>2, <1>3, <1>4 DEF Call

LEMMA InitInv == Init => Inv
  <1> SUFFICES ASSUME Init PROVE Inv
    OBVIOUS
  <1>0. 0 \in 0 .. MaxSectors /\ 0 \in 0 .. MaxPolls - 1 /\ <<>> \in Seq(Data)
    BY AtaAssumption
  <1>1. TypeOK
    BY <1>0 DEF Init, TypeOK
  <1> QED
    BY <1>1 DEF Init, Inv, CallInv, DriveInv, Lockstep, Loop, BSY

\* A call begins.
LEMMA BeginInv == ASSUME Inv, NEW c \in Calls, Begin(c) PROVE Inv'
  <1>1. UNCHANGED <<m_initialized, result, st, cmd, at, left, word, media, event>>
    BY DEF Begin, drive
  <1>2. call' = c /\ sector' = 0 /\ buffer' = <<>> /\ polls' = 0
    BY DEF Begin
  <1>3. pc' = IF m_initialized THEN "wait_not_busy" ELSE "identify"
    BY DEF Begin
  <1>4. 0 \in 0 .. MaxSectors /\ 0 \in 0 .. MaxPolls - 1 /\ <<>> \in Seq(Data)
    BY AtaAssumption
  <1>5. TypeOK'
    BY <1>1, <1>2, <1>3, <1>4 DEF Inv, TypeOK
  <1>6. CallInv'
    BY <1>1, <1>2, <1>3, CallFacts DEF Inv, TypeOK, CallInv, Loop
  <1>7. DriveInv' /\ Lockstep'
    BY <1>1, <1>3 DEF Inv, DriveInv, Lockstep, BSY
  <1> QED
    BY <1>5, <1>6, <1>7 DEF Inv

\* The identification, which no sector depends on.
LEMMA IdentifyInv == ASSUME Inv, identify \/ identify_wait PROVE Inv'
  <1>1. UNCHANGED <<sector, buffer, polls>>
    BY DEF identify, identify_wait
  <1>2. CASE identify
    <2>1. pc = "identify" /\ ~m_initialized /\ sector = 0
      BY <1>2 DEF identify, Inv, CallInv
    <2>2. UNCHANGED m_initialized
      BY <1>2 DEF identify
    <2>3. CASE Return(FALSE) /\ UNCHANGED <<drive, event>>
      <3>1. UNCHANGED <<st, cmd, at, left, word, media, event>>
        BY <2>3 DEF drive
      <3>2. pc' = "idle" /\ call' = NoCall /\ result' = FALSE
        BY <2>3 DEF Return
      <3>3. TypeOK'
        BY <1>1, <2>2, <3>1, <3>2 DEF Inv, TypeOK
      <3>4. CallInv' /\ DriveInv' /\ Lockstep'
        BY <2>1, <2>2, <3>1, <3>2 DEF Inv, CallInv, DriveInv, Lockstep, Loop, BSY
      <3> QED
        BY <3>3, <3>4 DEF Inv
    <2>4. CASE Command("identify", 0, 1) /\ pc' = "identify_wait" /\ UNCHANGED <<call, result>>
      <3>1. event' \in {"none", "error", "late"}
        BY <2>4 DEF Command, Inv, TypeOK
      <3>2. TypeOK'
        BY <1>1, <2>2, <2>4, <3>1 DEF Inv, TypeOK, Command, Takes, drive
      <3>3. CallInv'
        BY <1>1, <2>1, <2>2, <2>4 DEF Inv, CallInv, Loop
      <3>4. DriveInv' /\ Lockstep'
        BY <2>1, <2>2, <2>4 DEF Inv, DriveInv, Lockstep, Command, Takes, drive, BSY, DRQ
      <3> QED
        BY <3>2, <3>3, <3>4 DEF Inv
    <2> QED
      BY <1>2, <2>3, <2>4 DEF identify
  <1>3. CASE identify_wait
    <2>1. pc = "identify_wait" /\ ~m_initialized /\ sector = 0 /\ UNCHANGED event
      BY <1>3 DEF identify_wait, Inv, CallInv
    <2>2. CASE Return(FALSE) /\ UNCHANGED <<m_initialized, drive>>
      <3>1. UNCHANGED <<st, cmd, at, left, word, media>>
        BY <2>2 DEF drive
      <3>2. pc' = "idle" /\ call' = NoCall /\ result' = FALSE
        BY <2>2 DEF Return
      <3>3. TypeOK'
        BY <1>1, <2>1, <2>2, <3>1, <3>2 DEF Inv, TypeOK
      <3>4. CallInv' /\ DriveInv' /\ Lockstep'
        BY <2>1, <2>2, <3>1, <3>2 DEF Inv, CallInv, DriveInv, Lockstep, Loop, BSY
      <3> QED
        BY <3>3, <3>4 DEF Inv
    <2>3. CASE /\ m_initialized' = TRUE /\ pc' = "wait_not_busy" /\ st' = "idle"
               /\ UNCHANGED <<call, result, cmd, at, left, word, media>>
      <3>1. TypeOK'
        BY <1>1, <2>1, <2>3 DEF Inv, TypeOK
      <3>2. CallInv' /\ DriveInv' /\ Lockstep'
        BY <1>1, <2>1, <2>3 DEF Inv, CallInv, DriveInv, Lockstep, Loop, BSY
      <3> QED
        BY <3>1, <3>2 DEF Inv
    <2> QED
      BY <1>3, <2>2, <2>3 DEF identify_wait
  <1> QED
    BY <1>2, <1>3

\* A wait that gives up abandons the call and leaves the drive as it is; one
\* that ends has seen the drive not busy.
LEMMA WaitInv == ASSUME Inv, wait_not_busy \/ wait_sector \/ wait_ready PROVE Inv'
  <1>1. UNCHANGED <<m_initialized, sector, buffer, st, cmd, at, left, word, media, event>>
    BY DEF wait_not_busy, wait_sector, wait_ready, poll, drive
  <1>2. pc \in {"wait_not_busy", "wait_sector", "wait_ready"} /\ m_initialized
        /\ call \in Calls
    BY DEF wait_not_busy, wait_sector, wait_ready, Inv, CallInv
  <1>3. polls \in Nat /\ MaxPolls \in Nat \ {0}
    BY AtaAssumption DEF Inv, TypeOK
  <1>4. polls' \in 0 .. MaxPolls - 1
    <2>1. polls' = 0 \/ (polls' = polls + 1 /\ polls + 1 < MaxPolls)
      BY DEF wait_not_busy, wait_sector, wait_ready, poll
    <2> QED
      BY <1>3, <2>1
  <1>5. CASE Return(FALSE)
    <2>1. pc' = "idle" /\ call' = NoCall /\ result' = FALSE
      BY <1>5 DEF Return
    <2>2. TypeOK'
      BY <1>1, <1>4, <2>1 DEF Inv, TypeOK
    <2>3. CallInv' /\ DriveInv' /\ Lockstep'
      BY <1>1, <1>2, <2>1 DEF Inv, CallInv, DriveInv, Lockstep, Loop, BSY
    <2> QED
      BY <2>2, <2>3 DEF Inv
  <1>6. CASE UNCHANGED <<pc, call, result>>
    <2>1. TypeOK'
      BY <1>1, <1>4, <1>6 DEF Inv, TypeOK
    <2>2. CallInv' /\ DriveInv' /\ Lockstep'
      BY <1>1, <1>2, <1>6 DEF Inv, CallInv, DriveInv, Lockstep, Loop, BSY, DRQ
    <2> QED
      BY <2>1, <2>2 DEF Inv
  <1>7. CASE /\ UNCHANGED <<call, result>>
             /\ \/ pc = "wait_not_busy" /\ ~BSY /\ pc' = "command"
                \/ pc = "wait_sector" /\ ~BSY /\ pc' = "wait_ready"
                \/ pc = "wait_ready" /\ RDY /\ pc' = "transfer"
    <2>1. TypeOK'
      BY <1>1, <1>4, <1>7 DEF Inv, TypeOK
    <2>2. CallInv'
      BY <1>1, <1>2, <1>7 DEF Inv, CallInv, Loop
    <2>3. DriveInv' /\ Lockstep'
      BY <1>1, <1>2, <1>7 DEF Inv, DriveInv, Lockstep, BSY, DRQ
    <2> QED
      BY <2>1, <2>2, <2>3 DEF Inv
  <1> QED
    BY <1>5, <1>6, <1>7 DEF wait_not_busy, wait_sector, wait_ready, poll

\* The command reaches a drive that is not busy, with the address meant.
LEMMA CommandInv == ASSUME Inv, command PROVE Inv'
  <1>1. /\ pc = "command" /\ pc' = "wait_sector" /\ m_initialized
        /\ call \in Calls /\ sector = 0
        /\ UNCHANGED <<m_initialized, call, sector, buffer, polls, result>>
    BY DEF command, Inv, CallInv
  <1>2. /\ call.op \in {"read", "write"} /\ call.lba \in Nat
        /\ call.sectors \in 1 .. MaxSectors
        /\ \A i \in 0 .. call.sectors - 1 : call.lba + i \in LBA
        /\ address(registers(call.lba)) = call.lba
    BY <1>1, CallFacts, AddressKept
  <1>3. call.sectors \in Nat /\ call.sectors >= 1
    BY <1>2
  <1>4. /\ event' = IF DRQ /\ event = "none" THEN "late" ELSE event
        /\ Takes(call.op, call.lba, call.sectors) \/ (DRQ /\ UNCHANGED drive)
    BY <1>2 DEF command, Command
  <1>5. event' \in {"none", "error", "late"}
    BY <1>4 DEF Inv, TypeOK
  <1>6. CallInv'
    BY <1>1, <1>2, <1>3 DEF Inv, CallInv, Loop
  <1>7. CASE Takes(call.op, call.lba, call.sectors)
    <2>1. /\ st' = "busy" /\ cmd' = call.op /\ at' = call.lba /\ left' = call.sectors
          /\ UNCHANGED <<word, media>>
      BY <1>7 DEF Takes
    <2>2. TypeOK'
      BY <1>1, <1>2, <1>3, <1>5, <2>1 DEF Inv, TypeOK
    <2>3. DriveInv'
      BY <1>1, <1>2, <1>3, <2>1 DEF Inv, DriveInv
    <2>4. Lockstep'
      BY <1>1, <1>2, <1>3, <2>1 DEF Lockstep
    <2> QED
      BY <1>6, <2>2, <2>3, <2>4 DEF Inv
  <1>8. CASE DRQ /\ UNCHANGED drive
    <2>1. UNCHANGED <<st, cmd, at, left, word, media>> /\ event' # "none"
      BY <1>4, <1>8 DEF drive
    <2>2. TypeOK'
      BY <1>1, <1>5, <2>1 DEF Inv, TypeOK
    <2>3. DriveInv' /\ Lockstep'
      BY <1>1, <2>1 DEF Inv, DriveInv, Lockstep
    <2> QED
      BY <1>6, <2>2, <2>3 DEF Inv
  <1> QED
    BY <1>4, <1>7, <1>8

\* One sector through the port: both sides count it.
LEMMA TransferInv == ASSUME Inv, transfer PROVE Inv'
  <1>1. /\ pc = "transfer" /\ sector' = sector + 1 /\ m_initialized
        /\ pc' = IF sector + 1 < call.sectors THEN "wait_sector" ELSE "return"
        /\ UNCHANGED <<m_initialized, call, polls, result>>
    BY DEF transfer, Inv, CallInv
  <1>2. call \in Calls /\ sector \in Nat /\ sector < call.sectors
    BY <1>1 DEF Inv, CallInv, TypeOK, Loop
  <1>3. /\ call.op \in {"read", "write"} /\ call.lba \in Nat
        /\ call.sectors \in 1 .. MaxSectors
        /\ call.op = "write" => call.data \in [1 .. MaxSectors -> Data]
    BY <1>2, CallFacts
  <1>4. call.sectors \in Nat /\ MaxSectors \in Nat
    BY <1>3, AtaAssumption
  <1>5. sector + 1 \in 0 .. MaxSectors /\ sector + 1 \in 1 .. MaxSectors
    BY <1>2, <1>3, <1>4
  <1>6. CallInv'
    <2>1. sector + 1 < call.sectors \/ sector + 1 = call.sectors
      BY <1>2, <1>4
    <2> QED
      BY <1>1, <1>2, <2>1 DEF CallInv, Loop
  <1>7. CASE ReadSector
    <2>1. CASE DRQ /\ cmd = "read"
      <3>1. /\ st = "drq" /\ st' = IF left = 1 THEN "idle" ELSE "busy"
            /\ at' = at + 1 /\ left' = left - 1 /\ buffer' = Append(buffer, word)
            /\ UNCHANGED <<cmd, word, media, event>>
        BY <1>7, <2>1 DEF ReadSector, DRQ
      <3>2. /\ left \in Nat /\ at \in Nat /\ left >= 1
            /\ \A i \in 0 .. left - 1 : at + i \in LBA
        BY <2>1, <3>1 DEF Inv, TypeOK, DriveInv
      <3>3. buffer' \in Seq(Data)
        BY <3>1, AppendProperties DEF Inv, TypeOK
      <3>4. TypeOK'
        BY <1>1, <1>5, <2>1, <3>1, <3>2, <3>3 DEF Inv, TypeOK
      <3>5. left' >= 1 => \A i \in 0 .. left' - 1 : at' + i \in LBA
        <4> SUFFICES ASSUME NEW i \in 0 .. left' - 1 PROVE at' + i \in LBA
          OBVIOUS
        <4>1. i + 1 \in 0 .. left - 1 /\ at' + i = at + (i + 1)
          BY <3>1, <3>2
        <4> QED
          BY <3>2, <4>1
      <3>6. left = 1 \/ left' >= 1
        BY <3>1, <3>2
      <3>7. DriveInv'
        BY <1>1, <2>1, <3>1, <3>5, <3>6 DEF DriveInv
      <3>8. Lockstep'
        BY <1>1, <1>2, <1>3, <1>4, <2>1, <3>1, <3>2 DEF Inv, Lockstep, DRQ
      <3> QED
        BY <1>6, <3>4, <3>7, <3>8 DEF Inv
    <2>2. CASE ~(DRQ /\ cmd = "read")
      <3>1. /\ event' = IF event = "none" THEN "error" ELSE event
            /\ \E d \in Data : buffer' = Append(buffer, d)
            /\ UNCHANGED <<st, cmd, at, left, word, media>>
        BY <1>7, <2>2 DEF ReadSector, drive
      <3>2. buffer' \in Seq(Data)
        BY <3>1, AppendProperties DEF Inv, TypeOK
      <3>3. TypeOK'
        BY <1>1, <1>5, <3>1, <3>2 DEF Inv, TypeOK
      <3>4. DriveInv' /\ Lockstep'
        BY <1>1, <3>1 DEF Inv, DriveInv, Lockstep
      <3> QED
        BY <1>6, <3>3, <3>4 DEF Inv
    <2> QED
      BY <2>1, <2>2
  <1>8. CASE WriteSector
    <2>1. CASE DRQ /\ cmd = "write"
      <3>1. /\ st = "drq" /\ st' = "storing" /\ word' = call.data[sector + 1]
            /\ UNCHANGED <<cmd, at, left, media, event, buffer>>
        BY <1>8, <2>1 DEF WriteSector, DRQ
      <3>2. word' \in Data
        BY <1>3, <1>5, <1>8, <3>1 DEF WriteSector
      <3>3. TypeOK'
        BY <1>1, <1>5, <3>1, <3>2 DEF Inv, TypeOK
      <3>4. DriveInv'
        BY <1>1, <2>1, <3>1 DEF Inv, DriveInv
      <3>5. Lockstep'
        BY <1>1, <1>2, <1>3, <1>4, <2>1, <3>1 DEF Inv, Lockstep, DRQ
      <3> QED
        BY <1>6, <3>3, <3>4, <3>5 DEF Inv
    <2>2. CASE ~(DRQ /\ cmd = "write")
      <3>1. /\ event' = IF event = "none" THEN "error" ELSE event
            /\ UNCHANGED <<buffer, st, cmd, at, left, word, media>>
        BY <1>8, <2>2 DEF WriteSector, drive
      <3>2. TypeOK'
        BY <1>1, <1>5, <3>1 DEF Inv, TypeOK
      <3>3. DriveInv' /\ Lockstep'
        BY <1>1, <3>1 DEF Inv, DriveInv, Lockstep
      <3> QED
        BY <1>6, <3>2, <3>3 DEF Inv
    <2> QED
      BY <2>1, <2>2
  <1> QED
    BY <1>7, <1>8 DEF transfer

\* The drive works on by itself.
LEMMA DriveWorksInv == ASSUME Inv, Fetch \/ Store \/ Fail PROVE Inv'
  <1>1. UNCHANGED <<pc, m_initialized, call, sector, buffer, polls, result>>
    BY DEF Fetch, Store, Fail, driver
  <1>2. CallInv'
    BY <1>1 DEF Inv, CallInv
  <1>3. at \in Nat /\ left \in Nat
    BY DEF Inv, TypeOK
  <1>4. CASE Fetch
    <2>1. /\ st = "busy" /\ st' = "drq" /\ UNCHANGED <<cmd, at, left, media, event>>
          /\ word' = IF cmd = "read" /\ at \in LBA THEN media[at] ELSE word
      BY <1>4 DEF Fetch
    <2>2. cmd = "read" => at \in LBA
      <3>1. CASE cmd = "read"
        <4>1. left >= 1 /\ \A i \in 0 .. left - 1 : at + i \in LBA
          BY <2>1, <3>1 DEF Inv, DriveInv
        <4>2. 0 \in 0 .. left - 1 /\ at + 0 = at
          BY <1>3, <4>1
        <4> QED
          BY <4>1, <4>2
      <3> QED
        BY <3>1
    <2>3. TypeOK'
      BY <1>1, <2>1 DEF Inv, TypeOK
    <2>4. DriveInv'
      BY <1>1, <2>1, <2>2 DEF Inv, DriveInv, BSY
    <2>5. Lockstep'
      BY <1>1, <2>1 DEF Inv, Lockstep, DRQ
    <2> QED
      BY <1>2, <2>3, <2>4, <2>5 DEF Inv
  <1>5. CASE Store
    <2>1. /\ st = "storing" /\ st' = IF left = 1 THEN "idle" ELSE "drq"
          /\ media' = [media EXCEPT ![at] = word] /\ at' = at + 1 /\ left' = left - 1
          /\ UNCHANGED <<cmd, word, event>>
      BY <1>5 DEF Store
    <2>2. cmd = "write" /\ left >= 1 /\ \A i \in 0 .. left - 1 : at + i \in LBA
      BY <2>1 DEF Inv, DriveInv
    <2>3. TypeOK'
      <3>1. at' \in Nat /\ left' \in Nat
        BY <1>3, <2>1, <2>2
      <3>2. media' \in [LBA -> Data]
        BY <2>1 DEF Inv, TypeOK
      <3> QED
        BY <1>1, <2>1, <3>1, <3>2 DEF Inv, TypeOK
    <2>4. DriveInv'
      <3>1. left' >= 1 => \A i \in 0 .. left' - 1 : at' + i \in LBA
        <4> SUFFICES ASSUME NEW i \in 0 .. left' - 1 PROVE at' + i \in LBA
          OBVIOUS
        <4>1. i + 1 \in 0 .. left - 1 /\ at' + i = at + (i + 1)
          BY <1>3, <2>1, <2>2
        <4> QED
          BY <2>2, <4>1
      <3>2. left = 1 \/ left' >= 1
        BY <1>3, <2>1, <2>2
      <3> QED
        BY <1>1, <2>1, <2>2, <3>1, <3>2 DEF Inv, DriveInv, BSY
    <2>5. Lockstep'
      <3> SUFFICES ASSUME event = "none", pc \in Loop
                   PROVE  Lockstep'
        BY <1>1, <2>1 DEF Lockstep, Loop
      <3>1. call \in Calls /\ sector \in Nat /\ sector < call.sectors
        BY DEF Inv, CallInv, TypeOK, Loop
      <3>2. call.sectors \in 1 .. MaxSectors /\ call.lba \in Nat
        BY <3>1, CallFacts
      <3>3. call.sectors \in Nat
        BY <3>2
      <3>4. /\ cmd = call.op /\ at = call.lba + sector - 1
            /\ left = call.sectors - sector + 1 /\ pc = "wait_sector"
        BY <2>1 DEF Inv, Lockstep, Loop, DRQ
      <3>5. left # 1 /\ at' = call.lba + sector /\ left' = call.sectors - sector
        BY <2>1, <3>1, <3>2, <3>3, <3>4
      <3> QED
        BY <1>1, <2>1, <3>4, <3>5 DEF Lockstep
    <2> QED
      BY <1>2, <2>3, <2>4, <2>5 DEF Inv
  <1>6. CASE Fail
    <2>1. /\ BSY /\ st' = "error" /\ UNCHANGED <<cmd, at, left, word, media>>
          /\ event' = IF cmd # "identify" /\ event = "none" THEN "error" ELSE event
      BY <1>6 DEF Fail
    <2>2. TypeOK'
      BY <1>1, <2>1 DEF Inv, TypeOK
    <2>3. DriveInv'
      BY <1>1, <2>1 DEF Inv, DriveInv, BSY
    <2>4. Lockstep'
      <3>1. pc \in Loop => call.op # "identify"
        <4>1. pc \in Loop => call \in Calls
          BY DEF Inv, CallInv, Loop
        <4> QED
          BY <4>1, CallFacts
      <3> QED
        BY <1>1, <2>1, <3>1 DEF Inv, Lockstep, Loop
    <2> QED
      BY <1>2, <2>2, <2>3, <2>4 DEF Inv
  <1> QED
    BY <1>4, <1>5, <1>6

LEMMA StepInv == Inv /\ [Next]_vars => Inv'
  <1> SUFFICES ASSUME Inv, [Next]_vars PROVE Inv'
    OBVIOUS
  <1>1. CASE UNCHANGED vars
    BY <1>1 DEF vars, driver, drive, Inv, TypeOK, CallInv, DriveInv, Lockstep, BSY, DRQ
  <1>2. CASE return_true
    <2>1. /\ pc' = "idle" /\ call' = NoCall /\ result' = TRUE /\ m_initialized
          /\ UNCHANGED <<m_initialized, sector, buffer, polls>>
          /\ UNCHANGED <<st, cmd, at, left, word, media, event>>
      BY <1>2 DEF return_true, Return, drive, Inv, CallInv
    <2>2. TypeOK'
      BY <2>1 DEF Inv, TypeOK
    <2>3. CallInv' /\ DriveInv' /\ Lockstep'
      BY <2>1 DEF Inv, CallInv, DriveInv, Lockstep, Loop, BSY
    <2> QED
      BY <2>2, <2>3 DEF Inv
  <1>3. CASE Next /\ ~return_true
    BY <1>3, BeginInv, IdentifyInv, WaitInv, CommandInv, TransferInv, DriveWorksInv DEF Next
  <1> QED
    BY <1>1, <1>2, <1>3

LEMMA AlwaysInv == Spec => []Inv
  BY InitInv, StepInv, PTL DEF Spec

\* The variables never leave their types, whatever the disk's size.
THEOREM AtaTypes == Spec => []TypeOK
  BY AlwaysInv, PTL DEF Inv

\* Through every interleaving of the polling loops with the drive, including
\* calls that were given up half-way, the driver and the drive agree on the
\* sector being transferred, until an error or a late command.
THEOREM StaysInStep == Spec => []Lockstep
  BY AlwaysInv, PTL DEF Inv

-----------------------------------------------------------------------------
\* The disk that a state stands for.
TheDisk == IF st = "storing" THEN [media EXCEPT ![at] = word] ELSE media

\* A step that changes neither the call nor its progress stutters if the disk
\* stays the same.
LEMMA Stutter ==
    ASSUME UNCHANGED <<TheDisk, call, sector, buffer, result>>
    PROVE  UNCHANGED <<D!vars>>
  BY DEF D!vars, TheDisk

\* An answer that leaves the drive alone.
LEMMA Answers ==
    ASSUME Inv, pc # "idle", NEW ok \in BOOLEAN, Return(ok),
           ok => sector = call.sectors,
           UNCHANGED <<sector, buffer, drive>>
    PROVE  D!Next
  <1>1. call.op # "none"
    BY CallFacts DEF Inv, CallInv
  <1>2. UNCHANGED TheDisk
    BY DEF TheDisk, drive
  <1>3. D!Return(ok)
    BY <1>1, <1>2 DEF D!Return, Return, D!NoCall, NoCall, TheDisk
  <1> QED
    BY <1>3 DEF D!Next

\* A sector through the port is a sector of the disk read or written.
LEMMA TransferDisk == ASSUME Inv, transfer, event' = "none" PROVE D!Next
  <1>1. event = "none" /\ pc = "transfer" /\ sector' = sector + 1 /\ UNCHANGED <<call, result>>
    BY DEF transfer, ReadSector, WriteSector
  <1>2. DRQ /\ cmd = call.op /\ at = call.lba + sector /\ sector < call.sectors
    BY <1>1 DEF Inv, Lockstep, CallInv, Loop, DRQ
  <1>3. TheDisk = media
    BY <1>2 DEF TheDisk, DRQ
  <1>4. CASE ReadSector
    <2>1. /\ st' # "storing" /\ UNCHANGED media /\ call.op = "read"
          /\ buffer' = Append(buffer, word)
      BY <1>2, <1>4 DEF ReadSector
    <2>2. word = media[at]
      BY <1>2, <2>1 DEF Inv, DriveInv, DRQ
    <2>3. UNCHANGED TheDisk
      BY <1>3, <2>1 DEF TheDisk
    <2>4. D!ReadOne
      BY <1>1, <1>2, <1>3, <2>1, <2>2, <2>3 DEF D!ReadOne, TheDisk
    <2> QED
      BY <2>4 DEF D!Next
  <1>5. CASE WriteSector
    <2>1. /\ st' = "storing" /\ UNCHANGED <<media, at, buffer>> /\ call.op = "write"
          /\ word' = call.data[sector + 1]
      BY <1>2, <1>5 DEF WriteSector
    <2>2. TheDisk' = [TheDisk EXCEPT ![call.lba + sector] = call.data[sector + 1]]
      BY <1>2, <1>3, <2>1 DEF TheDisk
    <2>3. D!WriteOne
      BY <1>1, <1>2, <2>1, <2>2 DEF D!WriteOne, TheDisk
    <2> QED
      BY <2>3 DEF D!Next
  <1> QED
    BY <1>4, <1>5 DEF transfer

\* Without an event, every step is a step of Disk or none at all.
LEMMA StepDisk ==
    ASSUME Inv, [Next]_vars, event' = "none"
    PROVE  D!Next \/ UNCHANGED <<D!vars>>
  <1>1. CASE UNCHANGED vars
    BY <1>1, Stutter DEF vars, driver, drive, TheDisk
  <1>2. ASSUME NEW c \in Calls, Begin(c) PROVE D!Next
    <2>1. call.op = "none" /\ call'.op \in {"read", "write"}
      BY <1>2, CallFacts DEF Begin, Inv, CallInv, NoCall
    <2>2. UNCHANGED TheDisk
      BY <1>2 DEF Begin, drive, TheDisk
    <2>3. D!Begin
      BY <1>2, <2>1, <2>2 DEF D!Begin, Begin, TheDisk
    <2> QED
      BY <2>3 DEF D!Next
  <1>3. CASE identify
    <2>1. CASE Return(FALSE) /\ UNCHANGED drive
      BY <1>3, <2>1, Answers DEF identify
    <2>2. CASE Command("identify", 0, 1) /\ UNCHANGED <<call, result>>
      <3>1. st # "storing"
        BY <1>3 DEF identify, Inv, CallInv, DriveInv
      <3>2. UNCHANGED TheDisk
        BY <2>2, <3>1 DEF Command, Takes, drive, TheDisk
      <3> QED
        BY <1>3, <2>2, <3>2, Stutter DEF identify
    <2> QED
      BY <1>3, <2>1, <2>2 DEF identify
  <1>4. CASE identify_wait
    <2>1. CASE Return(FALSE) /\ UNCHANGED drive
      BY <1>4, <2>1, Answers DEF identify_wait
    <2>2. CASE DRQ /\ st' = "idle" /\ UNCHANGED <<call, result, at, word, media>>
      <3>1. UNCHANGED TheDisk
        BY <2>2 DEF TheDisk, DRQ
      <3> QED
        BY <1>4, <2>2, <3>1, Stutter DEF identify_wait
    <2> QED
      BY <1>4, <2>1, <2>2 DEF identify_wait
  <1>5. CASE wait_not_busy \/ wait_sector \/ wait_ready
    <2>1. UNCHANGED <<sector, buffer, drive>> /\ pc # "idle"
      BY <1>5 DEF wait_not_busy, wait_sector, wait_ready, poll
    <2>2. CASE Return(FALSE)
      BY <2>1, <2>2, Answers
    <2>3. CASE UNCHANGED <<call, result>>
      BY <2>1, <2>3, Stutter DEF drive, TheDisk
    <2> QED
      BY <1>5, <2>2, <2>3 DEF wait_not_busy, wait_sector, wait_ready, poll
  <1>6. CASE command
    <2>1. st # "storing"
      BY <1>6 DEF command, Inv, DriveInv, BSY
    <2>2. UNCHANGED TheDisk
      BY <1>6, <2>1 DEF command, Command, Takes, drive, TheDisk
    <2> QED
      BY <1>6, <2>2, Stutter DEF command
  <1>7. CASE return_true
    <2>1. sector = call.sectors /\ pc # "idle"
      BY <1>7 DEF return_true, Inv, CallInv
    <2> QED
      BY <1>7, <2>1, Answers DEF return_true
  <1>8. CASE Fetch \/ Store \/ Fail
    <2>1. UNCHANGED <<call, sector, buffer, result>>
      BY <1>8 DEF Fetch, Store, Fail, driver
    <2>2. CASE Fetch
      BY <2>1, <2>2, Stutter DEF Fetch, TheDisk
    <2>3. CASE Store
      BY <2>1, <2>3, Stutter DEF Store, TheDisk
    <2>4. CASE Fail
      <3>1. st # "storing"
        BY <2>4 DEF Fail, Inv, DriveInv
      <3> QED
        BY <2>1, <2>4, <3>1, Stutter DEF Fail, TheDisk
    <2> QED
      BY <1>8, <2>2, <2>3, <2>4
  <1> QED
    BY <1>1, <1>2, <1>3, <1>4, <1>5, <1>6, <1>7, <1>8, TransferDisk DEF Next

\* CATADriver with its drive implements Disk until the drive reports an error
\* or a command comes late: read_sectors returns what the disk held, sector
\* by sector, write_sectors changes the sectors it was given and no other,
\* and a call that answers yes has done all of them.
THEOREM DriverIsDisk == Spec => IsDisk
  <1>1. Inv /\ [Next]_vars =>
          [event' = "none" => D!Next \/ UNCHANGED <<D!vars>>]_vars
    BY StepDisk
  <1> QED
    BY <1>1, AlwaysInv, PTL DEF Spec, IsDisk
=============================================================================
