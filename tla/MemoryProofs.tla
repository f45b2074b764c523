---------------------------- MODULE MemoryProofs ----------------------------
(***************************************************************************)
(* Proofs about the frame allocator and the heap, for every number of      *)
(* frames, every size of the reserved ranges, every header, alignment and  *)
(* least remainder, and every sequence of requests.                        *)
(***************************************************************************)
EXTENDS Heap, FiniteSetTheorems, SequenceTheorems, WellFoundedInduction, TLAPS

-----------------------------------------------------------------------------
(***************************************************************************)
(* The frame allocator.                                                    *)
(***************************************************************************)
\* Every set of frames is finite, so the clear bits can be counted.
LEMMA ClearIsFinite ==
    ASSUME NEW b \in SUBSET Frame
    PROVE  /\ IsFiniteSet(Frame \ b)
           /\ Cardinality(Frame \ b) \in Nat
<1>1. IsFiniteSet(Frame)
  BY FS_Interval, FrameAssumption DEF Frame
<1>2. IsFiniteSet(Frame \ b)
  BY <1>1, FS_Subset
<1> QED
  BY <1>2, FS_CardinalityType

\* Setting a clear bit, as allocate_frame does, takes one from the clear bits.
LEMMA SetBitCount ==
    ASSUME NEW b \in SUBSET Frame, NEW i \in Frame \ b
    PROVE  Cardinality(Frame \ (b \cup {i})) = Cardinality(Frame \ b) - 1
<1>1. Frame \ (b \cup {i}) = (Frame \ b) \ {i}
  OBVIOUS
<1>2. IsFiniteSet(Frame \ b) /\ i \in Frame \ b
  BY ClearIsFinite
<1>3. Cardinality((Frame \ b) \ {i}) = Cardinality(Frame \ b) - 1
  BY <1>2, FS_RemoveElement
<1> QED
  BY <1>1, <1>3

\* Clearing a set bit, as free_frame does, adds one to the clear bits.
LEMMA ClearBitCount ==
    ASSUME NEW b \in SUBSET Frame, NEW i \in b
    PROVE  Cardinality(Frame \ (b \ {i})) = Cardinality(Frame \ b) + 1
<1>1. Frame \ (b \ {i}) = (Frame \ b) \cup {i}
  OBVIOUS
<1>2. IsFiniteSet(Frame \ b) /\ i \notin Frame \ b
  BY ClearIsFinite
<1>3. Cardinality((Frame \ b) \cup {i}) = Cardinality(Frame \ b) + 1
  BY <1>2, FS_AddElement
<1> QED
  BY <1>1, <1>3

\* After initialize the clear bits are the frames between the page tables
\* and the heap.
LEMMA InitialCount ==
    Cardinality(Frame \ (FirstMb \cup HeapRange \cup PageTableRange))
      = TotalFrames - FirstMbFrames - HeapFrames - PageTableFrames
<1> DEFINE lo == FirstMbFrames + PageTableFrames
           hi == TotalFrames - HeapFrames - 1
<1>1. Frame \ (FirstMb \cup HeapRange \cup PageTableRange) = lo .. hi
  BY FrameAssumption
     DEF Frame, FirstMb, HeapRange, PageTableRange, heap_start_frame
<1>2. /\ lo \in Int /\ hi \in Int /\ lo <= hi + 1
      /\ hi - lo + 1
           = TotalFrames - FirstMbFrames - HeapFrames - PageTableFrames
  BY FrameAssumption
<1> HIDE DEF lo, hi
<1>3. Cardinality(lo .. hi) = IF lo > hi THEN 0 ELSE hi - lo + 1
  BY <1>2, FS_Interval
<1>4. Cardinality(lo .. hi) = hi - lo + 1
  BY <1>2, <1>3
<1> QED
  BY <1>1, <1>2, <1>4

\* A managed address names a frame.
LEMMA ManagedFrame ==
    ASSUME NEW addr \in Address, Managed(addr)
    PROVE  frame_index(addr) \in Frame
<1>1. addr - MemoryStart \in Nat
  BY FrameAssumption DEF Address, Managed
<1>2. (addr - MemoryStart) \div PAGE_SIZE \in Nat
  BY <1>1, FrameAssumption
<1> QED
  BY <1>2, FrameAssumption DEF Managed, frame_index, Frame

-----------------------------------------------------------------------------
\* The two conjuncts are inductive together: the type keeps the clear bits
\* finite, the count keeps m_free_frames a natural number.
CountInv == FrameTypeOK /\ FreeCountExact

\* A step that sets a clear bit keeps the count exact.
LEMMA SetBitKeepsCount ==
    ASSUME CountInv, NEW i \in Clear, SetBit(i)
    PROVE  CountInv'
<1>1. /\ bitmap \in SUBSET Frame
      /\ i \in Frame \ bitmap
      /\ m_free_frames = Cardinality(Frame \ bitmap)
  BY DEF CountInv, FrameTypeOK, FreeCountExact, Clear
<1>2. /\ bitmap' = bitmap \cup {i}
      /\ m_free_frames' = m_free_frames - 1
      /\ bitmap' \in SUBSET Frame
  BY <1>1 DEF SetBit
<1>3. m_free_frames' = Cardinality(Frame \ bitmap')
  BY <1>1, <1>2, SetBitCount
<1>4. m_free_frames' \in Nat
  BY <1>2, <1>3, ClearIsFinite
<1> QED
  BY <1>2, <1>3, <1>4 DEF CountInv, FrameTypeOK, FreeCountExact, Clear

\* A step that clears a bit, or finds it clear, keeps the count exact.
LEMMA ClearBitKeepsCount ==
    ASSUME CountInv, NEW i \in Frame, ClearBit(i)
    PROVE  CountInv'
<1>1. /\ bitmap \in SUBSET Frame
      /\ m_free_frames = Cardinality(Frame \ bitmap)
  BY DEF CountInv, FrameTypeOK, FreeCountExact, Clear
<1>2. CASE i \in bitmap
  <2>1. /\ bitmap' = bitmap \ {i}
        /\ m_free_frames' = m_free_frames + 1
        /\ bitmap' \in SUBSET Frame
    BY <1>1, <1>2 DEF ClearBit
  <2>2. m_free_frames' = Cardinality(Frame \ bitmap')
    BY <1>1, <1>2, <2>1, ClearBitCount
  <2>3. m_free_frames' \in Nat
    BY <2>1, <2>2, ClearIsFinite
  <2> QED
    BY <2>1, <2>2, <2>3 DEF CountInv, FrameTypeOK, FreeCountExact, Clear
<1>3. CASE i \notin bitmap
  BY <1>3 DEF ClearBit, pmmVars, CountInv, FrameTypeOK, FreeCountExact, Clear
<1> QED
  BY <1>2, <1>3

\* initialize leaves an exact count.
LEMMA CountAtStart == ASSUME FrameInit PROVE CountInv
<1>1. bitmap \in SUBSET Frame
  BY FrameAssumption
     DEF FrameInit, Frame, FirstMb, HeapRange, PageTableRange, heap_start_frame
<1>2. m_free_frames = Cardinality(Clear)
  BY InitialCount DEF FrameInit, Clear
<1>3. m_free_frames \in Nat
  BY FrameAssumption DEF FrameInit
<1> QED
  BY <1>1, <1>2, <1>3 DEF CountInv, FrameTypeOK, FreeCountExact

\* m_free_frames is the number of clear bits in every reachable state: no
\* sequence of allocate_frame and free_frame calls, double frees and
\* out-of-range addresses included, makes the count drift.
THEOREM FreeCountIsExact == FrameSpec => []FreeCountExact
<1>1. FrameInit => CountInv
  BY CountAtStart
<1>2. CountInv /\ [FrameNext]_pmmVars => CountInv'
  <2> SUFFICES ASSUME CountInv, [FrameNext]_pmmVars PROVE CountInv'
    OBVIOUS
  <2>1. CASE allocate_frame
    BY <2>1, SetBitKeepsCount DEF allocate_frame
  <2>2. ASSUME NEW addr \in Address, free_frame(addr) PROVE CountInv'
    <3>1. CASE Managed(addr)
      BY <2>2, <3>1, ManagedFrame, ClearBitKeepsCount DEF free_frame
    <3>2. CASE ~Managed(addr)
      BY <2>2, <3>2
         DEF free_frame, pmmVars, CountInv, FrameTypeOK, FreeCountExact, Clear
    <3> QED
      BY <3>1, <3>2
  <2>3. CASE UNCHANGED pmmVars
    BY <2>3 DEF pmmVars, CountInv, FrameTypeOK, FreeCountExact, Clear
  <2> QED
    BY <2>1, <2>2, <2>3 DEF FrameNext
<1>3. CountInv => FreeCountExact
  BY DEF CountInv
<1> QED
  BY <1>1, <1>2, <1>3, PTL DEF FrameSpec

-----------------------------------------------------------------------------
(***************************************************************************)
(* The heap: the inductive invariant.                                      *)
(***************************************************************************)
EndOf(b) == b.addr + HeaderSize + b.size

\* The blocks of a list follow one another from the start of the heap to its
\* end, whichever of them are free.
Follows(list) == \A i \in 1 .. Len(list) - 1 : list[i + 1].addr = EndOf(list[i])
Tiled(list) ==
    /\ list \in Seq(Block) /\ list # <<>>
    /\ list[1].addr = heap_start
    /\ EndOf(list[Len(list)]) = heap_end
    /\ Follows(list)

\* No two free blocks lie side by side.
Merged(list) == \A i \in 1 .. Len(list) - 1 : ~(list[i].free /\ list[i + 1].free)

\* What a caller holds lies in a block that is in use, and each block is held
\* once.
InUse(list, ranges) ==
    \A r \in ranges : \E i \in 1 .. Len(list) :
       ~list[i].free /\ Pointer(list[i]) = r.ptr /\ r.size <= list[i].size
HeldOnce(ranges) == \A r, s \in ranges : r.ptr = s.ptr => r = s

\* The frames of the heap may be lent only once nothing below it is clear, and
\* those of the first megabyte and of the boot page tables never are.
Lent ==
    /\ held \cap (FirstMb \cup PageTableRange) = {}
    /\ overwritten => Frame \ HeapRange \subseteq bitmap
    /\ ~overwritten => held \cap HeapRange = {}

HeapInv ==
    /\ TypeOK
    /\ Tiled(blocks) /\ Merged(blocks)
    /\ InUse(blocks, owned) /\ HeldOnce(owned)
    /\ FramesStayConsistent
    /\ Lent

-----------------------------------------------------------------------------
(***************************************************************************)
(* Natural numbers: what the inductions below rest on, without a predicate *)
(* for a parameter.                                                        *)
(***************************************************************************)
LEMMA LeastNat ==
    ASSUME NEW T \in SUBSET Nat, T # {}
    PROVE  \E x \in T : \A y \in T : x <= y
  <1> DEFINE R == OpToRel(<, Nat)
  <1>1. IsWellFoundedOn(R, Nat)
    BY NatLessThanWellFounded
  <1>2. \A x, y \in Nat : <<y, x>> \in R <=> y < x
    BY DEF OpToRel
  <1> HIDE DEF R
  <1>3. PICK x \in T : \A y \in T : ~(<<y, x>> \in R)
    BY <1>1, WFMin
  <1>4. \A y \in T : ~(y < x)
    BY <1>2, <1>3
  <1>5. \A y \in T : x <= y
    BY <1>4
  <1> QED
    BY <1>5

LEMMA Induct ==
    ASSUME NEW T, 0 \in T, \A n \in Nat : n \in T => n + 1 \in T
    PROVE  \A n \in Nat : n \in T
  <1> SUFFICES ASSUME Nat \ T # {} PROVE FALSE
    OBVIOUS
  <1>1. PICK x \in Nat \ T : \A y \in Nat \ T : x <= y
    BY LeastNat
  <1>2. x # 0 /\ x - 1 \in Nat /\ x - 1 \in T
    BY <1>1
  <1> QED
    BY <1>1, <1>2

\* Division rounds down.
LEMMA DivMod ==
    ASSUME NEW a \in Nat, NEW r \in Nat \ {0}
    PROVE  a \div r \in Nat /\ (a \div r) * r <= a /\ a < (a \div r) * r + r
  <1>1. a % r \in 0 .. r - 1 /\ a \div r \in Nat
    OBVIOUS
  <1>2. a = r * (a \div r) + (a % r)
    OBVIOUS
  <1> DEFINE q == a \div r
             m == a % r
  <1>3. r * q = q * r
    BY <1>1
  <1> HIDE DEF q, m
  <1> QED
    BY <1>1, <1>2, <1>3 DEF q, m

-----------------------------------------------------------------------------
(***************************************************************************)
(* Lists of blocks.                                                        *)
(***************************************************************************)
LEMMA HeapBounds ==
    /\ heap_start \in Nat /\ heap_size \in Nat /\ HeaderSize <= heap_size
    /\ heap_end = heap_start + heap_size /\ heap_end \in Nat
  <1>1. TotalFrames - HeapFrames \in Nat
    BY FrameAssumption
  <1>2. (TotalFrames - HeapFrames) * PAGE_SIZE \in Nat /\ HeapFrames * PAGE_SIZE \in Nat
    BY <1>1, FrameAssumption
  <1> QED
    BY <1>2, FrameAssumption, HeapAssumption DEF heap_start, heap_size, heap_end

LEMMA BlockTypes ==
    ASSUME NEW list \in Seq(Block)
    PROVE  /\ Len(list) \in Nat
           /\ \A i \in 1 .. Len(list) :
                /\ list[i] \in Block /\ list[i].addr \in Nat /\ list[i].size \in Nat
                /\ EndOf(list[i]) \in Nat
                /\ list[i].addr < EndOf(list[i]) /\ heap_start <= list[i].addr
  <1>1. \A b \in Block : /\ b.addr \in Nat /\ b.size \in Nat /\ EndOf(b) \in Nat
                         /\ b.addr < EndOf(b) /\ heap_start <= b.addr
    BY HeapBounds, HeapAssumption DEF Block, EndOf
  <1>2. \A i \in 1 .. Len(list) : list[i] \in Block
    OBVIOUS
  <1> QED
    BY <1>1, <1>2

\* The blocks lie in the order of the list, and all of them in the heap.
LEMMA TileOrder ==
    ASSUME NEW list, Tiled(list)
    PROVE  /\ \A j \in 1 .. Len(list) : \A i \in 1 .. j - 1 : EndOf(list[i]) <= list[j].addr
           /\ \A i \in 1 .. Len(list) : EndOf(list[i]) <= heap_end
  <1>0. list \in Seq(Block) /\ list # <<>> /\ Len(list) \in Nat \ {0}
    BY EmptySeq DEF Tiled
  <1> DEFINE L == Len(list)
             A(i) == list[i].addr
             E(i) == EndOf(list[i])
  <1>1. \A i \in 1 .. L : A(i) \in Nat /\ E(i) \in Nat /\ A(i) < E(i)
    BY <1>0, BlockTypes
  <1>2. \A i \in 1 .. L - 1 : A(i + 1) = E(i)
    BY DEF Tiled, Follows
  <1>3. E(L) = heap_end
    BY DEF Tiled
  <1>4. L \in Nat \ {0}
    BY <1>0
  <1> DEFINE T == {n \in Nat : \A j \in 1 .. L : j <= n => \A i \in 1 .. j - 1 : E(i) <= A(j)}
  <1> HIDE DEF L, A, E
  <1>5. 0 \in T
    BY <1>4
  <1>6. ASSUME NEW n \in Nat, n \in T PROVE n + 1 \in T
    <2> SUFFICES ASSUME NEW j \in 1 .. L, j = n + 1, NEW i \in 1 .. j - 1 PROVE E(i) <= A(j)
      BY <1>4, <1>6
    <2>1. A(j) = E(n) /\ i \in 1 .. n /\ n \in 1 .. L
      BY <1>2, <1>4
    <2>2. CASE i = n
      BY <1>1, <2>1, <2>2
    <2>3. CASE i \in 1 .. n - 1
      <3>1. E(i) <= A(n)
        BY <1>6, <2>1, <2>3
      <3> QED
        BY <1>1, <1>4, <2>1, <2>3, <3>1
    <2> QED
      BY <2>1, <2>2, <2>3
  <1> HIDE DEF T
  <1>7. \A n \in Nat : n \in T
    BY <1>5, <1>6, Induct
  <1>8. \A j \in 1 .. L : \A i \in 1 .. j - 1 : E(i) <= A(j)
    <2>1. L \in T
      BY <1>4, <1>7
    <2> QED
      BY <1>4, <2>1 DEF T
  <1>9. ASSUME NEW i \in 1 .. L PROVE E(i) <= heap_end
    <2>1. CASE i = L
      BY <1>1, <1>3, <2>1
    <2>2. CASE i \in 1 .. L - 1
      <3>1. L \in 1 .. L /\ E(i) <= A(L)
        BY <1>4, <1>8, <2>2
      <3> QED
        BY <1>1, <1>3, <3>1
    <2> QED
      BY <1>4, <2>1, <2>2
  <1> QED
    BY <1>8, <1>9 DEF L, A, E

\* A block of a list replaced by the parts that it is split into.
Spliced(list, i, parts) ==
    SubSeq(list, 1, i - 1) \o parts \o SubSeq(list, i + 1, Len(list))

IsSplice(new, list, i, parts) ==
    /\ new \in Seq(Block)
    /\ Len(new) = Len(list) + Len(parts) - 1
    /\ \A j \in 1 .. i - 1 : new[j] = list[j]
    /\ \A j \in 1 .. Len(parts) : new[i - 1 + j] = parts[j]
    /\ \A j \in i + 1 .. Len(list) : new[j + Len(parts) - 1] = list[j]

LEMMA SplicedBlocks ==
    ASSUME NEW list \in Seq(Block), NEW i \in 1 .. Len(list), NEW parts \in Seq(Block)
    PROVE  IsSplice(Spliced(list, i, parts), list, i, parts)
  <1> DEFINE a == SubSeq(list, 1, i - 1)
             z == SubSeq(list, i + 1, Len(list))
             L == Len(list)
             k == Len(parts)
             new == a \o parts \o z
  <1>1. L \in Nat /\ k \in Nat /\ i \in Int /\ i >= 1 /\ i <= L
    OBVIOUS
  <1>2. a \in Seq(Block) /\ Len(a) = i - 1 /\ \A j \in 1 .. i - 1 : a[j] = list[j]
    BY <1>1
  <1>3. z \in Seq(Block) /\ Len(z) = L - i /\ \A j \in 1 .. L - i : z[j] = list[i + j]
    BY <1>1
  <1> HIDE DEF a, z
  <1>4. /\ a \o parts \in Seq(Block) /\ Len(a \o parts) = i - 1 + k
        /\ \A j \in 1 .. i - 1 : (a \o parts)[j] = a[j]
        /\ \A j \in 1 .. k : (a \o parts)[i - 1 + j] = parts[j]
    <2>1. a \o parts \in Seq(Block) /\ Len(a \o parts) = Len(a) + Len(parts)
      BY <1>2, ConcatProperties, Zenon
    <2>2. ASSUME NEW j \in 1 .. Len(a) PROVE (a \o parts)[j] = a[j]
      BY <1>2
    <2>3. ASSUME NEW j \in 1 .. Len(parts) PROVE (a \o parts)[Len(a) + j] = parts[j]
      BY <1>2
    <2> QED
      BY <1>2, <2>1, <2>2, <2>3, Zenon
  <1> DEFINE ap == a \o parts
  <1> HIDE DEF ap
  <1>5. /\ ap \o z \in Seq(Block) /\ Len(ap \o z) = L + k - 1
        /\ \A j \in 1 .. i - 1 + k : (ap \o z)[j] = ap[j]
        /\ \A j \in 1 .. L - i : (ap \o z)[i - 1 + k + j] = z[j]
    <2>0. ap \in Seq(Block) /\ Len(ap) = i - 1 + k /\ Len(ap) + Len(z) = L + k - 1
      BY <1>1, <1>3, <1>4 DEF ap
    <2>1. ap \o z \in Seq(Block) /\ Len(ap \o z) = Len(ap) + Len(z)
      BY <1>3, <2>0, ConcatProperties, Zenon
    <2>2. ASSUME NEW j \in 1 .. Len(ap) PROVE (ap \o z)[j] = ap[j]
      BY <1>3, <2>0
    <2>3. ASSUME NEW j \in 1 .. Len(z) PROVE (ap \o z)[Len(ap) + j] = z[j]
      BY <1>3, <2>0
    <2> QED
      BY <1>3, <2>0, <2>1, <2>2, <2>3, Zenon
  <1>6. new = ap \o z /\ new = Spliced(list, i, parts)
    BY DEF ap, a, z, Spliced
  <1> HIDE DEF new, L, k
  <1>7. ASSUME NEW j \in 1 .. i - 1 PROVE new[j] = list[j]
    <2>1. j \in 1 .. i - 1 + k
      BY <1>1
    <2>2. ap[j] = list[j]
      BY <1>2, <1>4, Zenon DEF ap
    <2> QED
      BY <1>5, <1>6, <2>1, <2>2, Zenon
  <1>8. ASSUME NEW j \in 1 .. k PROVE new[i - 1 + j] = parts[j]
    <2>1. i - 1 + j \in 1 .. i - 1 + k
      BY <1>1
    <2> QED
      BY <1>4, <1>5, <1>6, <2>1 DEF ap
  <1>9. ASSUME NEW j \in i + 1 .. L PROVE new[j + k - 1] = list[j]
    <2>1. j - i \in 1 .. L - i /\ i - 1 + k + (j - i) = j + k - 1 /\ i + (j - i) = j
      BY <1>1
    <2> QED
      BY <1>3, <1>5, <1>6, <2>1
  <1> QED
    BY <1>5, <1>6, <1>7, <1>8, <1>9 DEF L, k, IsSplice

\* Splitting keeps the tiling; the first part is in use, so that the free rest
\* has no free neighbour.
IsSplit(new, list, i, parts) ==
    /\ Tiled(new) /\ Merged(new) /\ i \in 1 .. Len(new) /\ new[i] = parts[1]
    /\ \A j \in 1 .. Len(list) \ {i} : \E h \in 1 .. Len(new) : new[h] = list[j]

LEMMA SplitTiles ==
    ASSUME NEW list, Tiled(list), Merged(list), NEW i \in 1 .. Len(list), list[i].free,
           NEW parts \in Seq(Block), parts # <<>>, parts[1].addr = list[i].addr,
           EndOf(parts[Len(parts)]) = EndOf(list[i]), Follows(parts),
           ~parts[1].free, Merged(parts)
    PROVE  IsSplit(Spliced(list, i, parts), list, i, parts)
  <1> DEFINE L == Len(list)
             k == Len(parts)
             M == L + k - 1
  <1>1. PICK new : new = Spliced(list, i, parts)
    OBVIOUS
  <1>2. list \in Seq(Block) /\ L \in Nat /\ k \in Nat \ {0} /\ i \in 1 .. L
    BY EmptySeq DEF Tiled
  <1>3. /\ new \in Seq(Block) /\ Len(new) = M
        /\ \A j \in 1 .. i - 1 : new[j] = list[j]
        /\ \A j \in 1 .. k : new[i - 1 + j] = parts[j]
        /\ \A j \in i + 1 .. L : new[j + k - 1] = list[j]
    <2>1. IsSplice(new, list, i, parts)
      BY <1>1, <1>2, SplicedBlocks, Zenon
    <2> QED
      BY <2>1 DEF IsSplice
  <1>4. /\ \A j \in 1 .. L - 1 : list[j + 1].addr = EndOf(list[j])
        /\ \A j \in 1 .. L - 1 : ~(list[j].free /\ list[j + 1].free)
        /\ \A j \in 1 .. k - 1 : parts[j + 1].addr = EndOf(parts[j])
        /\ \A j \in 1 .. k - 1 : ~(parts[j].free /\ parts[j + 1].free)
        /\ list[1].addr = heap_start /\ EndOf(list[L]) = heap_end
    BY DEF Tiled, Follows, Merged
  <1>5. EndOf(parts[k]) = EndOf(list[i])
    OBVIOUS
  <1> HIDE DEF L, k
  <1>6. new[i] = parts[1] /\ new[i + k - 1] = parts[k] /\ i \in 1 .. M
    <2>1. 1 \in 1 .. k /\ k \in 1 .. k /\ i - 1 + 1 = i /\ i - 1 + k = i + k - 1
      BY <1>2
    <2> QED
      BY <1>2, <1>3, <2>1
  <1>7. ASSUME NEW j \in 1 .. M - 1
        PROVE  new[j + 1].addr = EndOf(new[j]) /\ ~(new[j].free /\ new[j + 1].free)
    <2>1. CASE j <= i - 2
      <3>1. j \in 1 .. i - 1 /\ j + 1 \in 1 .. i - 1 /\ j \in 1 .. L - 1
        BY <1>2, <2>1
      <3> QED
        BY <1>3, <1>4, <3>1
    <2>2. CASE j = i - 1
      <3>1. j \in 1 .. i - 1 /\ j \in 1 .. L - 1 /\ j + 1 = i
        BY <1>2, <2>2
      <3> QED
        BY <1>3, <1>4, <1>6, <3>1
    <2>3. CASE j >= i /\ j <= i + k - 2
      <3>1. PICK h \in 1 .. k - 1 : j = i - 1 + h
        <4>1. j - i + 1 \in 1 .. k - 1 /\ j = i - 1 + (j - i + 1)
          BY <1>2, <2>3
        <4> QED
          BY <4>1
      <3>2. h \in 1 .. k /\ h + 1 \in 1 .. k /\ j + 1 = i - 1 + (h + 1)
        BY <1>2, <3>1
      <3>3. new[j] = parts[h] /\ new[j + 1] = parts[h + 1]
        BY <1>3, <3>1, <3>2
      <3> QED
        BY <1>4, <3>1, <3>3
    <2>4. CASE j = i + k - 1
      <3>1. i + 1 \in i + 1 .. L /\ i \in 1 .. L - 1 /\ j + 1 = (i + 1) + k - 1
        BY <1>2, <2>4
      <3>2. new[j + 1] = list[i + 1]
        BY <1>3, <3>1
      <3>3. ~list[i + 1].free /\ list[i + 1].addr = EndOf(list[i])
        BY <1>4, <3>1
      <3> QED
        BY <1>5, <1>6, <2>4, <3>2, <3>3
    <2>5. CASE j >= i + k
      <3>1. PICK h \in i + 1 .. L - 1 : j = h + k - 1
        <4>1. j - k + 1 \in i + 1 .. L - 1 /\ j = (j - k + 1) + k - 1
          BY <1>2, <2>5
        <4> QED
          BY <4>1
      <3>2. h \in i + 1 .. L /\ h + 1 \in i + 1 .. L /\ j + 1 = (h + 1) + k - 1 /\ h \in 1 .. L - 1
        BY <1>2, <3>1
      <3>3. new[j] = list[h] /\ new[j + 1] = list[h + 1]
        BY <1>3, <3>1, <3>2
      <3> QED
        BY <1>4, <3>2, <3>3
    <2> QED
      BY <1>2, <2>1, <2>2, <2>3, <2>4, <2>5
  <1>8. new[1].addr = heap_start
    <2>1. CASE i = 1
      BY <1>4, <1>6, <2>1
    <2>2. CASE i # 1
      <3>1. 1 \in 1 .. i - 1
        BY <1>2, <2>2
      <3> QED
        BY <1>3, <1>4, <3>1
    <2> QED
      BY <2>1, <2>2
  <1>9. EndOf(new[M]) = heap_end
    <2>1. CASE i = L
      <3>1. M = i + k - 1
        BY <2>1
      <3> QED
        BY <1>4, <1>5, <1>6, <2>1, <3>1
    <2>2. CASE i # L
      <3>1. L \in i + 1 .. L /\ M = L + k - 1
        BY <1>2, <2>2
      <3> QED
        BY <1>3, <1>4, <3>1
    <2> QED
      BY <2>1, <2>2
  <1>10. ASSUME NEW j \in 1 .. L \ {i} PROVE \E h \in 1 .. M : new[h] = list[j]
    <2>1. CASE j < i
      <3>1. j \in 1 .. i - 1 /\ j \in 1 .. M
        BY <1>2, <2>1
      <3> QED
        BY <1>3, <3>1
    <2>2. CASE j > i
      <3>1. j \in i + 1 .. L /\ j + k - 1 \in 1 .. M
        BY <1>2, <2>2
      <3> QED
        BY <1>3, <3>1
    <2> QED
      BY <1>2, <2>1, <2>2
  <1>11. M \in Nat \ {0} /\ new # <<>>
    <2>1. M \in Nat \ {0}
      BY <1>2
    <2> QED
      BY <1>3, <2>1, EmptySeq
  <1>12. Tiled(new) /\ Merged(new)
    BY <1>3, <1>7, <1>8, <1>9, <1>11 DEF Tiled, Follows, Merged
  <1>13. IsSplit(new, list, i, parts)
    BY <1>3, <1>6, <1>10, <1>12 DEF L, IsSplit
  <1> QED
    BY <1>1, <1>13

\* What the loop of merge_free_blocks has made of the first k blocks.
MergedUpTo(list, k, s) ==
    /\ s \in Seq(Block) /\ s # <<>>
    /\ s[1].addr = heap_start
    /\ EndOf(s[Len(s)]) = EndOf(list[k])
    /\ Follows(s) /\ Merged(s)
    /\ \A j \in 1 .. k : ~list[j].free => \E h \in 1 .. Len(s) : s[h] = list[j]

\* Two blocks, the second right behind the first, taken as one.
LEMMA Joined ==
    ASSUME NEW b \in Block, NEW c \in Block, c.addr = EndOf(b), EndOf(c) <= heap_end,
           NEW d, d = [b EXCEPT !.size = @ + HeaderSize + c.size]
    PROVE  d \in Block /\ d.addr = b.addr /\ EndOf(d) = EndOf(c) /\ d.free = b.free
  <1>1. /\ b.addr \in Nat /\ b.size \in Nat /\ c.addr \in Nat /\ c.size \in Nat
        /\ HeaderSize \in Nat /\ heap_start \in Nat /\ heap_size \in Nat
        /\ heap_end = heap_start + heap_size /\ heap_start <= b.addr
    BY HeapBounds, HeapAssumption DEF Block
  <1>2. d.addr = b.addr /\ d.size = b.size + HeaderSize + c.size /\ d.free = b.free
    BY DEF Block
  <1>3. EndOf(d) = EndOf(c)
    BY <1>1, <1>2 DEF EndOf
  <1>4. d.size \in 0 .. heap_size
    BY <1>1, <1>2, <1>3 DEF EndOf
  <1>5. d \in Block
    BY <1>4 DEF Block
  <1> QED
    BY <1>2, <1>3, <1>5

\* One round of the loop.
LEMMA MergeRound ==
    ASSUME NEW list, Tiled(list), NEW k \in 1 .. Len(list) - 1,
           NEW s, MergedUpTo(list, k, s)
    PROVE  MergedUpTo(list, k + 1, MergeInto(s, list[k + 1]))
  <1> DEFINE b == list[k + 1]
             n == Len(s)
  <1>1. PICK t : t = MergeInto(s, b)
    OBVIOUS
  <1>2. s \in Seq(Block) /\ list \in Seq(Block) /\ s # <<>> /\ n \in Nat \ {0}
        /\ Len(list) \in Nat /\ k + 1 \in 1 .. Len(list) /\ k \in 1 .. Len(list)
    BY EmptySeq DEF MergedUpTo, Tiled
  <1>3. /\ b \in Block /\ b.addr \in Nat /\ b.size \in Nat /\ EndOf(b) \in Nat
        /\ b.addr = EndOf(list[k]) /\ EndOf(b) <= heap_end
    BY <1>2, BlockTypes, TileOrder DEF Tiled, Follows
  <1>4. \A j \in 1 .. n : s[j] \in Block /\ s[j].addr \in Nat /\ s[j].size \in Nat
                          /\ heap_start <= s[j].addr
    BY <1>2, BlockTypes
  <1>5. /\ s[1].addr = heap_start /\ EndOf(s[n]) = b.addr
        /\ \A j \in 1 .. n - 1 : s[j + 1].addr = EndOf(s[j])
        /\ \A j \in 1 .. n - 1 : ~(s[j].free /\ s[j + 1].free)
        /\ \A j \in 1 .. k : ~list[j].free => \E h \in 1 .. n : s[h] = list[j]
    BY <1>3 DEF MergedUpTo, Follows, Merged
  <1>6. n \in 1 .. n
    BY <1>2
  <1>7. CASE s[n].free /\ b.free
    <2> DEFINE c == [s[n] EXCEPT !.size = @ + HeaderSize + b.size]
    <2>1. t = [s EXCEPT ![n].size = @ + HeaderSize + b.size]
      BY <1>1, <1>2, <1>6, <1>7 DEF MergeInto
    <2>2. s[n] \in Block /\ b \in Block /\ b.addr = EndOf(s[n]) /\ EndOf(b) <= heap_end
      BY <1>3, <1>4, <1>5, <1>6
    <2>3. c \in Block /\ c.addr = s[n].addr /\ EndOf(c) = EndOf(b) /\ c.free = s[n].free
      <3>1. PICK d : d = c
        OBVIOUS
      <3>2. d = [s[n] EXCEPT !.size = @ + HeaderSize + b.size]
        BY <3>1
      <3> HIDE DEF c, b, n
      <3>3. d \in Block /\ d.addr = s[n].addr /\ EndOf(d) = EndOf(b) /\ d.free = s[n].free
        BY <2>2, <3>2, Joined
      <3> QED
        BY <3>1, <3>3
    <2>5. t \in Seq(Block) /\ Len(t) = n /\ t[n] = c /\ \A j \in 1 .. n - 1 : t[j] = s[j]
      <3>1. t = [s EXCEPT ![n] = c]
        BY <2>1
      <3> HIDE DEF c
      <3> QED
        BY <1>2, <1>6, <2>3, <3>1, ExceptSeq
    <2> HIDE DEF c, b, n
    <2>6. ASSUME NEW j \in 1 .. n - 1
          PROVE  t[j + 1].addr = EndOf(t[j]) /\ ~(t[j].free /\ t[j + 1].free)
      <3>1. CASE j = n - 1
        <4>1. t[j] = s[j] /\ t[j + 1] = c /\ j + 1 = n
          BY <1>2, <2>5, <3>1
        <4> QED
          BY <1>5, <2>3, <4>1
      <3>2. CASE j \in 1 .. n - 2
        <4>1. t[j] = s[j] /\ t[j + 1] = s[j + 1]
          BY <1>2, <2>5, <3>2
        <4> QED
          BY <1>5, <4>1
      <3> QED
        BY <1>2, <3>1, <3>2
    <2>7. t[1].addr = heap_start
      <3>1. CASE n = 1
        BY <1>5, <2>3, <2>5, <3>1
      <3>2. CASE n # 1
        <4>1. 1 \in 1 .. n - 1
          BY <1>2, <3>2
        <4> QED
          BY <1>5, <2>5, <4>1
      <3> QED
        BY <3>1, <3>2
    <2>8. ASSUME NEW j \in 1 .. k + 1, ~list[j].free PROVE \E h \in 1 .. n : t[h] = list[j]
      <3>1. j # k + 1
        BY <1>7, <2>8 DEF b
      <3>2. j \in 1 .. k
        BY <1>2, <3>1
      <3>3. PICK h \in 1 .. n : s[h] = list[j]
        BY <1>5, <2>8, <3>2
      <3>4. h # n
        BY <1>7, <2>8, <3>3
      <3>5. h \in 1 .. n - 1
        BY <1>2, <3>3, <3>4
      <3> QED
        BY <2>5, <3>3, <3>5
    <2>9. t # <<>>
      BY <1>2, <2>5, EmptySeq
    <2>10. MergedUpTo(list, k + 1, t)
      BY <2>3, <2>5, <2>6, <2>7, <2>8, <2>9 DEF MergedUpTo, Follows, Merged, b
    <2> QED
      BY <1>1, <2>10 DEF b
  <1>8. CASE ~(s[n].free /\ b.free)
    <2>1. t = Append(s, b)
      BY <1>1, <1>2, <1>6, <1>8 DEF MergeInto
    <2>2. t \in Seq(Block) /\ Len(t) = n + 1 /\ t[n + 1] = b /\ \A j \in 1 .. n : t[j] = s[j]
      BY <1>2, <1>3, <2>1, AppendProperties
    <2> HIDE DEF b, n
    <2>3. ASSUME NEW j \in 1 .. n
          PROVE  t[j + 1].addr = EndOf(t[j]) /\ ~(t[j].free /\ t[j + 1].free)
      <3>1. CASE j = n
        BY <1>5, <1>8, <2>2, <3>1
      <3>2. CASE j \in 1 .. n - 1
        <4>1. t[j] = s[j] /\ t[j + 1] = s[j + 1]
          BY <1>2, <2>2, <3>2
        <4> QED
          BY <1>5, <3>2, <4>1
      <3> QED
        BY <1>2, <3>1, <3>2
    <2>4. ASSUME NEW j \in 1 .. k + 1, ~list[j].free
          PROVE  \E h \in 1 .. n + 1 : t[h] = list[j]
      <3>1. CASE j = k + 1
        BY <1>2, <2>2, <3>1 DEF b
      <3>2. CASE j \in 1 .. k
        <4>1. PICK h \in 1 .. n : s[h] = list[j]
          BY <1>5, <2>4, <3>2
        <4> QED
          BY <1>2, <2>2, <4>1
      <3> QED
        BY <1>2, <3>1, <3>2
    <2>5. t # <<>> /\ t[1].addr = heap_start /\ (n + 1) - 1 = n
      <3>1. 1 \in 1 .. n /\ n + 1 # 0 /\ (n + 1) - 1 = n
        BY <1>2
      <3> QED
        BY <1>5, <2>2, <3>1, EmptySeq
    <2>6. MergedUpTo(list, k + 1, t)
      BY <2>2, <2>3, <2>4, <2>5 DEF MergedUpTo, Follows, Merged, b
    <2> QED
      BY <1>1, <2>6 DEF b
  <1> QED
    BY <1>7, <1>8

\* The loop as a function of the number of rounds exists.
IsMerging(list, n, f) ==
    f = [i \in 0 .. n |-> IF i = 0 THEN <<>> ELSE MergeInto(f[i - 1], list[i])]

LEMMA MergingExists == ASSUME NEW list PROVE \A n \in Nat : \E f : IsMerging(list, n, f)
  <1> DEFINE T == {n \in Nat : \E f : IsMerging(list, n, f)}
  <1>1. 0 \in T
    <2>1. PICK f : f = [i \in 0 .. 0 |-> <<>>]
      OBVIOUS
    <2>2. \A i \in 0 .. 0 : i = 0
      OBVIOUS
    <2>3. IsMerging(list, 0, f)
      BY <2>1, <2>2 DEF IsMerging
    <2> QED
      BY <2>3
  <1>2. ASSUME NEW n \in Nat, n \in T PROVE n + 1 \in T
    <2>1. PICK f : IsMerging(list, n, f)
      BY <1>2
    <2>2. PICK g : g = [i \in 0 .. n + 1 |-> IF i = n + 1 THEN MergeInto(f[n], list[n + 1])
                                                          ELSE f[i]]
      OBVIOUS
    <2>3. \A i \in 0 .. n : f[i] = IF i = 0 THEN <<>> ELSE MergeInto(f[i - 1], list[i])
      BY <2>1 DEF IsMerging
    <2>4. \A i \in 0 .. n : g[i] = f[i]
      BY <2>2
    <2>5. g[n + 1] = MergeInto(f[n], list[n + 1])
      BY <2>2
    <2>6. ASSUME NEW i \in 0 .. n + 1
          PROVE  g[i] = IF i = 0 THEN <<>> ELSE MergeInto(g[i - 1], list[i])
      <3>1. CASE i = n + 1
        <4>1. i # 0 /\ i - 1 = n /\ n \in 0 .. n
          BY <3>1
        <4> QED
          BY <2>4, <2>5, <3>1, <4>1
      <3>2. CASE i \in 1 .. n
        <4>1. i \in 0 .. n /\ i - 1 \in 0 .. n /\ i # 0
          BY <3>2
        <4> QED
          BY <2>3, <2>4, <4>1
      <3>3. CASE i = 0
        BY <2>3, <2>4, <3>3
      <3> QED
        BY <3>1, <3>2, <3>3
    <2>7. g = [i \in 0 .. n + 1 |-> g[i]]
      BY <2>2
    <2>8. IsMerging(list, n + 1, g)
      BY <2>6, <2>7 DEF IsMerging
    <2> QED
      BY <2>8
  <1> HIDE DEF T
  <1>3. \A n \in Nat : n \in T
    BY <1>1, <1>2, Induct
  <1> QED
    BY <1>3 DEF T

\* merge_free_blocks keeps the tiling and every block in use, and leaves no two
\* free blocks side by side, whatever list it is given.
LEMMA MergeTiles ==
    ASSUME NEW list, Tiled(list)
    PROVE  MergedUpTo(list, Len(list), merge_free_blocks(list))
  <1> DEFINE L == Len(list)
             f == CHOOSE g : g = [i \in 0 .. Len(list) |->
                                    IF i = 0 THEN <<>> ELSE MergeInto(g[i - 1], list[i])]
             T == {n \in Nat : n \in 1 .. L => MergedUpTo(list, n, f[n])}
  <1>1. list \in Seq(Block) /\ L \in Nat \ {0}
    BY EmptySeq DEF Tiled
  <1>2. IsMerging(list, L, f)
    <2>1. \E g : g = [i \in 0 .. Len(list) |->
                        IF i = 0 THEN <<>> ELSE MergeInto(g[i - 1], list[i])]
      BY <1>1, MergingExists DEF IsMerging
    <2> HIDE DEF f
    <2>2. f = [i \in 0 .. Len(list) |-> IF i = 0 THEN <<>> ELSE MergeInto(f[i - 1], list[i])]
      BY <2>1 DEF f
    <2> QED
      BY <2>2 DEF IsMerging
  <1>3. merge_free_blocks(list) = f[L]
    BY Zenon DEF merge_free_blocks
  <1> HIDE DEF f, L
  <1>4. \A i \in 0 .. L : f[i] = IF i = 0 THEN <<>> ELSE MergeInto(f[i - 1], list[i])
    BY <1>2 DEF IsMerging
  <1>5. MergedUpTo(list, 1, f[1])
    <2>1. 0 \in 0 .. L /\ 1 \in 0 .. L /\ 1 - 1 = 0 /\ 1 # 0 /\ 1 \in 1 .. L
      BY <1>1
    <2>2. f[0] = <<>> /\ f[1] = MergeInto(f[0], list[1])
      BY <1>4, <2>1
    <2>3. list[1] \in Block
      BY <1>1, <2>1 DEF L
    <2>4. f[1] = <<list[1]>>
      BY <2>2, <2>3 DEF MergeInto
    <2>5. f[1] \in Seq(Block) /\ f[1] # <<>> /\ Len(f[1]) = 1 /\ f[1][1] = list[1]
      BY <2>3, <2>4
    <2>6. list[1].addr = heap_start
      BY DEF Tiled
    <2>7. \A j \in 1 .. 1 : \E h \in 1 .. 1 : f[1][h] = list[j]
      BY <2>5
    <2> QED
      BY <2>5, <2>6, <2>7 DEF MergedUpTo, Follows, Merged
  <1>6. 0 \in T
    OBVIOUS
  <1>7. ASSUME NEW n \in Nat, n \in T PROVE n + 1 \in T
    <2> SUFFICES ASSUME n + 1 \in 1 .. L PROVE MergedUpTo(list, n + 1, f[n + 1])
      OBVIOUS
    <2>1. CASE n = 0
      BY <1>5, <2>1
    <2>2. CASE n # 0
      <3>1. n \in 1 .. L - 1 /\ n \in 1 .. L /\ n + 1 \in 0 .. L /\ (n + 1) - 1 = n /\ n + 1 # 0
        BY <1>1, <2>2
      <3>2. MergedUpTo(list, n, f[n])
        BY <1>7, <3>1
      <3>3. f[n + 1] = MergeInto(f[n], list[n + 1])
        BY <1>4, <3>1
      <3> QED
        BY <3>1, <3>2, <3>3, MergeRound DEF L
    <2> QED
      BY <2>1, <2>2
  <1> HIDE DEF T
  <1>8. \A n \in Nat : n \in T
    BY <1>6, <1>7, Induct
  <1>9. MergedUpTo(list, L, f[L])
    BY <1>1, <1>8 DEF T
  <1> QED
    BY <1>3, <1>9 DEF L

-----------------------------------------------------------------------------
(***************************************************************************)
(* Frames: the lowest clear ones, and those at a block's own addresses.    *)
(***************************************************************************)

\* Rank of f among the frames of S.
Below(S, f) == {g \in S : g < f}

\* The n lowest elements of a finite set are n elements.
LEMMA LowestCount ==
    ASSUME NEW S \in SUBSET Nat, IsFiniteSet(S)
    PROVE  \A n \in Nat : n <= Cardinality(S) =>
              Cardinality({f \in S : Cardinality(Below(S, f)) < n}) = n
  <1> DEFINE Low(n) == {f \in S : Cardinality(Below(S, f)) < n}
             T == {n \in Nat : n <= Cardinality(S) => Cardinality(Low(n)) = n}
  <1>0. Cardinality(S) \in Nat
    BY FS_CardinalityType
  <1>1. \A f \in S : IsFiniteSet(Below(S, f)) /\ Cardinality(Below(S, f)) \in Nat
    <2> TAKE f \in S
    <2>1. Below(S, f) \subseteq S
      BY DEF Below
    <2>2. IsFiniteSet(Below(S, f))
      BY <2>1, FS_Subset
    <2> QED
      BY <2>2, FS_CardinalityType
  <1>2. 0 \in T
    <2>0. \A f \in S : ~(Cardinality(Below(S, f)) < 0)
      <3> TAKE f \in S
      <3>1. Cardinality(Below(S, f)) \in Nat
        BY <1>1
      <3> QED
        BY <3>1
    <2>1. Low(0) = {}
      BY <2>0, Zenon
    <2> QED
      BY <2>1, FS_EmptySet
  <1>3. ASSUME NEW n \in Nat, n \in T PROVE n + 1 \in T
    <2> SUFFICES ASSUME n + 1 <= Cardinality(S) PROVE Cardinality(Low(n + 1)) = n + 1
      OBVIOUS
    <2>1. Cardinality(Low(n)) = n
      BY <1>0, <1>3
    <2>2. IsFiniteSet(Low(n)) /\ Low(n) \subseteq S
      <3>1. Low(n) \subseteq S
        OBVIOUS
      <3> QED
        BY <3>1, FS_Subset
    <2>3. S \ Low(n) # {}
      <3> SUFFICES ASSUME S \ Low(n) = {} PROVE FALSE
        OBVIOUS
      <3>1. Low(n) = S
        BY <2>2
      <3> QED
        BY <1>0, <2>1, <3>1
    <2>4. S \ Low(n) \in SUBSET Nat
      OBVIOUS
    <2>5. PICK m \in S \ Low(n) : \A g \in S \ Low(n) : m <= g
      BY <2>3, <2>4, LeastNat
    <2>6. Below(S, m) = Low(n)
      <3>1. ASSUME NEW g \in Below(S, m) PROVE g \in Low(n)
        <4>1. g \in S /\ g < m
          BY DEF Below
        <4>2. g \in Nat /\ m \in Nat
          BY <4>1
        <4> HIDE DEF Low
        <4>3. g \notin S \ Low(n)
          BY <2>5, <4>1, <4>2
        <4> QED
          BY <4>1, <4>3
      <3>2. ASSUME NEW g \in Low(n) PROVE g \in Below(S, m)
        <4>1. g \in S /\ m \in S /\ g \in Nat /\ m \in Nat /\ g # m
              /\ Cardinality(Below(S, g)) < n /\ ~(Cardinality(Below(S, m)) < n)
          BY <2>5
        <4>2. ASSUME m < g PROVE FALSE
          <5>1. Below(S, m) \subseteq Below(S, g)
            <6> SUFFICES ASSUME NEW h \in S, h < m PROVE h < g
              BY DEF Below
            <6>1. h \in Nat
              OBVIOUS
            <6> QED
              BY <4>1, <4>2, <6>1
          <5>2. Cardinality(Below(S, m)) <= Cardinality(Below(S, g))
            BY <1>1, <4>1, <5>1, FS_Subset
          <5>3. Cardinality(Below(S, m)) \in Nat /\ Cardinality(Below(S, g)) \in Nat
            BY <1>1, <4>1
          <5> QED
            BY <4>1, <5>2, <5>3
        <4> QED
          BY <4>1, <4>2 DEF Below
      <3> HIDE DEF Low
      <3> QED
        BY <3>1, <3>2
    <2>7. Low(n + 1) = Low(n) \union {m}
      <3>1. ASSUME NEW f \in S \ Low(n), f # m PROVE f \notin Low(n + 1)
        <4>1. m < f /\ f \in S /\ m \in S
          <5>1. f \in Nat /\ m \in Nat /\ m <= f
            BY <2>4, <2>5
          <5> QED
            BY <2>5, <3>1, <5>1
        <4>2. Low(n) \union {m} \subseteq Below(S, f)
          <5>1. ASSUME NEW g \in Below(S, m) PROVE g \in Below(S, f)
            <6>1. g \in S /\ g < m
              BY DEF Below
            <6>2. g \in Nat /\ m \in Nat /\ f \in Nat
              BY <4>1, <6>1
            <6> QED
              BY <4>1, <6>1, <6>2 DEF Below
          <5>2. m \in Below(S, f)
            BY <4>1 DEF Below
          <5> HIDE DEF Low
          <5> QED
            BY <2>6, <5>1, <5>2
        <4>3. Cardinality(Low(n) \union {m}) = n + 1
          <5>1. m \notin Low(n)
            BY <2>5
          <5> HIDE DEF Low
          <5> QED
            BY <2>1, <2>2, <5>1, FS_AddElement
        <4>4. Cardinality(Low(n) \union {m}) <= Cardinality(Below(S, f))
          <5> HIDE DEF Low
          <5> QED
            BY <1>1, <4>1, <4>2, FS_Subset
        <4>5. Cardinality(Below(S, f)) \in Nat
          BY <1>1, <4>1
        <4> HIDE DEF Low
        <4>6. ~(Cardinality(Below(S, f)) < n + 1)
          BY <4>3, <4>4, <4>5
        <4> QED
          BY <4>6 DEF Low
      <3>2. \A f \in Low(n) : f \in Low(n + 1)
        <4>1. \A f \in S : Cardinality(Below(S, f)) \in Nat
          BY <1>1
        <4> QED
          BY <4>1
      <3>3. m \in Low(n + 1)
        <4>1. Cardinality(Below(S, m)) = n /\ m \in S
          BY <2>1, <2>5, <2>6
        <4> QED
          BY <4>1
      <3>4. Low(n + 1) \subseteq S
        OBVIOUS
      <3> HIDE DEF Low
      <3> QED
        BY <3>1, <3>2, <3>3, <3>4
    <2>8. m \notin Low(n)
      BY <2>5
    <2> HIDE DEF Low
    <2> QED
      BY <2>1, <2>2, <2>7, <2>8, FS_AddElement
  <1> HIDE DEF T
  <1>4. \A n \in Nat : n \in T
    BY <1>2, <1>3, Induct
  <1> QED
    BY <1>4 DEF T

\* Setting and clearing many bits.
LEMMA SetManyCount ==
    ASSUME NEW b \in SUBSET Frame, NEW F \in SUBSET (Frame \ b)
    PROVE  /\ Cardinality(F) \in Nat
           /\ Cardinality(Frame \ (b \cup F)) = Cardinality(Frame \ b) - Cardinality(F)
  <1>1. IsFiniteSet(Frame \ b)
    BY ClearIsFinite
  <1>2. Frame \ (b \cup F) = (Frame \ b) \ F /\ (Frame \ b) \cap F = F
    OBVIOUS
  <1>3. Cardinality((Frame \ b) \ F) = Cardinality(Frame \ b) - Cardinality((Frame \ b) \cap F)
    BY <1>1, FS_Difference
  <1>4. Cardinality(F) \in Nat
    BY <1>1, FS_Subset, FS_CardinalityType
  <1> QED
    BY <1>2, <1>3, <1>4

LEMMA ClearManyCount ==
    ASSUME NEW b \in SUBSET Frame, NEW F \in SUBSET Frame
    PROVE  /\ Cardinality(F \cap b) \in Nat
           /\ Cardinality(Frame \ (b \ F)) = Cardinality(Frame \ b) + Cardinality(F \cap b)
  <1>1. IsFiniteSet(Frame \ b) /\ Cardinality(Frame \ b) \in Nat
    BY ClearIsFinite
  <1>2. IsFiniteSet(F \cap b) /\ Cardinality(F \cap b) \in Nat
    <2>1. IsFiniteSet(Frame)
      BY FS_Interval, FrameAssumption DEF Frame
    <2>2. F \cap b \in SUBSET Frame
      OBVIOUS
    <2> QED
      BY <2>1, <2>2, FS_Subset, FS_CardinalityType
  <1>3. Frame \ (b \ F) = (Frame \ b) \cup (F \cap b) /\ (Frame \ b) \cap (F \cap b) = {}
    OBVIOUS
  <1>4. Cardinality((Frame \ b) \cup (F \cap b))
          = Cardinality(Frame \ b) + Cardinality(F \cap b) - Cardinality({})
    <2>1. Cardinality((Frame \ b) \cup (F \cap b))
            = Cardinality(Frame \ b) + Cardinality(F \cap b)
                - Cardinality((Frame \ b) \cap (F \cap b))
      BY <1>1, <1>2, FS_Union
    <2> QED
      BY <1>3, <2>1
  <1>5. Cardinality({}) = 0
    BY FS_EmptySet
  <1>6. Cardinality((Frame \ b) \cup (F \cap b)) = Cardinality(Frame \ b) + Cardinality(F \cap b)
    BY <1>1, <1>2, <1>4, <1>5
  <1> QED
    BY <1>2, <1>3, <1>6, Zenon

\* A row of n calls of allocate_frame takes n clear frames, when there are n.
LEMMA LowestFrames ==
    ASSUME bitmap \subseteq Frame, NEW n \in Nat, n <= Cardinality(Clear)
    PROVE  Lowest(n) \subseteq Frame \ bitmap /\ Cardinality(Lowest(n)) = n
  <1>1. Clear \in SUBSET Nat /\ IsFiniteSet(Clear)
    BY ClearIsFinite, FrameAssumption DEF Clear, Frame
  <1>2. Cardinality({f \in Clear : Cardinality(Below(Clear, f)) < n}) = n
    BY <1>1, LowestCount
  <1>3. Lowest(n) = {f \in Clear : Cardinality(Below(Clear, f)) < n}
    BY DEF Lowest, Below
  <1> QED
    BY <1>2, <1>3 DEF Clear

\* Between two multiples of a page the frame numbers are between the two.
LEMMA MulLe ==
    ASSUME NEW a \in Int, NEW b \in Int, NEW p \in Nat, a <= b
    PROVE  a * p <= b * p
  <1>1. PICK d \in Nat : b = a + d
    <2>1. b - a \in Nat /\ b = a + (b - a)
      OBVIOUS
    <2> QED
      BY <2>1
  <1>2. (a + d) * p = a * p + d * p /\ d * p \in Nat /\ a * p \in Int
    OBVIOUS
  <1> QED
    BY <1>1, <1>2

LEMMA DivBetween ==
    ASSUME NEW x \in Nat, NEW p \in Nat \ {0}, NEW lo \in Nat, NEW hi \in Nat,
           lo * p <= x, x < hi * p
    PROVE  x \div p \in lo .. hi - 1
  <1> DEFINE q == x \div p
  <1>1. q \in Nat /\ q * p <= x /\ x < q * p + p
    BY DivMod
  <1> HIDE DEF q
  <1>2. q * p + p = (q + 1) * p /\ q * p \in Nat /\ lo * p \in Nat /\ hi * p \in Nat
    BY <1>1
  <1>3. ASSUME q + 1 <= lo PROVE FALSE
    <2>1. (q + 1) * p <= lo * p
      BY <1>1, <1>3, MulLe
    <2> QED
      BY <1>1, <1>2, <2>1
  <1>4. ASSUME hi <= q PROVE FALSE
    <2>1. hi * p <= q * p
      BY <1>1, <1>4, MulLe
    <2> QED
      BY <1>1, <1>2, <2>1
  <1>5. lo <= q /\ q < hi
    BY <1>1, <1>3, <1>4
  <1> QED
    BY <1>1, <1>5 DEF q

\* The frames at the addresses of a block are frames of the heap.
LEMMA FramesInHeap ==
    ASSUME NEW addr \in Nat, NEW size \in Nat, NEW n \in Nat, heap_start <= addr,
           addr + size <= heap_end, n <= num_pages(size)
    PROVE  FramesAt(addr, n) \subseteq HeapRange /\ HeapRange \subseteq Frame
  <1> DEFINE P == PAGE_SIZE
             N == num_pages(size)
             K == TotalFrames - HeapFrames
  <1>1. P \in Nat \ {0} /\ K \in Nat /\ TotalFrames \in Nat /\ HeapFrames \in Nat
        /\ MemoryStart \in Nat /\ K * P \in Nat /\ HeapFrames * P \in Nat
    BY FrameAssumption
  <1>2. N \in Nat /\ N * P <= size + P - 1
    <2>1. size + P - 1 \in Nat
      BY <1>1
    <2> QED
      BY <1>1, <2>1, DivMod DEF num_pages
  <1>3. heap_start = MemoryStart + K * P /\ heap_end = MemoryStart + TotalFrames * P
    <2>1. K * P + HeapFrames * P = TotalFrames * P
      BY <1>1
    <2> QED
      BY <1>1, <2>1 DEF heap_start, heap_end, heap_size
  <1> HIDE DEF P, N, K
  <1>4. ASSUME NEW j \in 0 .. n - 1 PROVE frame_index(addr + j * PAGE_SIZE) \in HeapRange
    <2>1. j * P <= (N - 1) * P
      BY <1>1, <1>2, MulLe DEF N
    <2>2. (N - 1) * P = N * P - P /\ N * P \in Nat /\ j * P \in Nat
      BY <1>1, <1>2
    <2>3. j * P < size
      BY <1>1, <1>2, <2>1, <2>2
    <2> DEFINE x == (addr + j * P) - MemoryStart
    <2>4. x \in Nat /\ K * P <= x /\ x < TotalFrames * P
      BY <1>1, <1>3, <2>2, <2>3
    <2> HIDE DEF x
    <2>5. x \div P \in K .. TotalFrames - 1
      BY <1>1, <2>4, DivBetween
    <2>6. HeapRange = K .. TotalFrames - 1
      BY <1>1 DEF HeapRange, heap_start_frame, K
    <2>7. frame_index(addr + j * PAGE_SIZE) = x \div P
      BY Zenon DEF x, P, frame_index
    <2> QED
      BY <2>5, <2>6, <2>7
  <1>5. HeapRange \subseteq Frame
    BY FrameAssumption DEF HeapRange, heap_start_frame, Frame
  <1> QED
    BY <1>4, <1>5 DEF FramesAt

-----------------------------------------------------------------------------
(***************************************************************************)
(* The operations of the heap.                                             *)
(***************************************************************************)
LEMMA RoundedUp == ASSUME NEW s \in Nat PROVE Rounded(s) \in Nat /\ s <= Rounded(s)
  <1> DEFINE x == s + Alignment - 1
             q == x \div Alignment
  <1>1. Alignment \in Nat \ {0} /\ x \in Nat
    BY HeapAssumption
  <1>2. q \in Nat /\ q * Alignment <= x /\ x < q * Alignment + Alignment
    BY <1>1, DivMod
  <1>3. q * Alignment \in Nat
    BY <1>1, <1>2
  <1>4. Rounded(s) = q * Alignment
    BY DEF Rounded
  <1> HIDE DEF q
  <1> QED
    BY <1>1, <1>2, <1>3, <1>4

\* The count of clear frames is at most the number of frames.
LEMMA CountBound == ASSUME NEW b \in SUBSET Frame PROVE Cardinality(Frame \ b) \in 0 .. TotalFrames
  <1>1. IsFiniteSet(Frame) /\ Cardinality(Frame) = TotalFrames
    <2>1. 0 \in Int /\ TotalFrames - 1 \in Int
      BY FrameAssumption
    <2>2. IsFiniteSet(Frame)
          /\ Cardinality(Frame) = IF 0 > TotalFrames - 1 THEN 0 ELSE (TotalFrames - 1) - 0 + 1
      BY <2>1, FS_Interval DEF Frame
    <2> QED
      BY <2>2, FrameAssumption
  <1>2. Frame \ b \in SUBSET Frame
    OBVIOUS
  <1>3. Cardinality(Frame \ b) <= Cardinality(Frame)
    BY <1>1, <1>2, FS_Subset
  <1> QED
    BY <1>1, <1>3, ClearIsFinite, FrameAssumption

\* What split_block makes of a block that allocate takes.
LEMMA SplitParts ==
    ASSUME NEW b \in Block, NEW size \in Nat, size <= b.size, EndOf(b) <= heap_end, ~b.free
    PROVE  /\ split_block(b, size) \in Seq(Block) /\ split_block(b, size) # <<>>
           /\ split_block(b, size)[1].addr = b.addr
           /\ size <= split_block(b, size)[1].size /\ ~split_block(b, size)[1].free
           /\ EndOf(split_block(b, size)[Len(split_block(b, size))]) = EndOf(b)
           /\ Follows(split_block(b, size)) /\ Merged(split_block(b, size))
  <1>1. /\ b.addr \in Nat /\ b.size \in Nat /\ HeaderSize \in Nat \ {0} /\ MinRemainder \in Nat
        /\ heap_start \in Nat /\ heap_size \in Nat /\ heap_end = heap_start + heap_size
        /\ heap_start <= b.addr /\ b.size <= heap_size
    BY HeapBounds, HeapAssumption DEF Block
  <1>2. b.addr + HeaderSize + b.size <= heap_end
    BY DEF EndOf
  <1>3. PICK parts : parts = split_block(b, size)
    OBVIOUS
  <1>4. /\ parts \in Seq(Block) /\ parts # <<>> /\ parts[1].addr = b.addr
        /\ size <= parts[1].size /\ ~parts[1].free /\ EndOf(parts[Len(parts)]) = EndOf(b)
        /\ Follows(parts) /\ Merged(parts)
    <2>1. CASE b.size >= size + HeaderSize + MinRemainder
      <3> DEFINE u == [b EXCEPT !.size = size]
                 v == [addr |-> b.addr + HeaderSize + size,
                       size |-> b.size - size - HeaderSize, free |-> TRUE]
      <3>1. size \in 0 .. heap_size
        BY <1>1
      <3>2. u \in Block /\ u.addr = b.addr /\ u.size = size /\ u.free = b.free
        BY <3>1 DEF Block
      <3>3. b.addr + HeaderSize + size \in heap_start .. heap_end
        BY <1>1, <1>2
      <3>4. b.size - size - HeaderSize \in 0 .. heap_size
        BY <1>1, <2>1
      <3>5. v \in Block /\ v.addr = b.addr + HeaderSize + size
            /\ v.size = b.size - size - HeaderSize
        BY <3>3, <3>4 DEF Block
      <3>6. v.addr = EndOf(u) /\ EndOf(v) = EndOf(b)
        BY <1>1, <3>2, <3>5 DEF EndOf
      <3>7. parts = <<u, v>>
        BY <1>3, <2>1 DEF split_block
      <3> HIDE DEF u, v
      <3>8. parts \in Seq(Block) /\ Len(parts) = 2 /\ parts[1] = u /\ parts[2] = v
        BY <3>2, <3>5, <3>7
      <3>9. \A j \in 1 .. 2 - 1 : j = 1 /\ j + 1 = 2
        OBVIOUS
      <3>10. ~u.free
        BY <3>2, Zenon
      <3>11. Follows(parts) /\ Merged(parts)
        BY <3>6, <3>8, <3>9, <3>10, Zenon DEF Follows, Merged
      <3>12. parts # <<>> /\ size <= size
        BY <3>8, EmptySeq
      <3> QED
        BY <3>2, <3>6, <3>8, <3>10, <3>11, <3>12, Zenon
    <2>2. CASE ~(b.size >= size + HeaderSize + MinRemainder)
      <3>1. parts = <<b>>
        BY <1>3, <2>2 DEF split_block
      <3>2. parts \in Seq(Block) /\ Len(parts) = 1 /\ parts[1] = b
        BY <3>1
      <3>3. \A j \in 1 .. 1 - 1 : FALSE
        OBVIOUS
      <3>4. Follows(parts) /\ Merged(parts)
        BY <3>2, <3>3, Zenon DEF Follows, Merged
      <3>5. parts # <<>>
        BY <3>1
      <3> QED
        BY <3>2, <3>4, <3>5, Zenon
    <2> QED
      BY <2>1, <2>2
  <1> QED
    BY <1>3, <1>4

\* Two blocks have different pointers.
LEMMA PointersDiffer ==
    ASSUME NEW list, Tiled(list), NEW i \in 1 .. Len(list), NEW j \in 1 .. Len(list),
           Pointer(list[i]) = Pointer(list[j])
    PROVE  i = j
  <1>1. /\ list \in Seq(Block) /\ Len(list) \in Nat
        /\ \A k \in 1 .. Len(list) : list[k].addr \in Nat /\ EndOf(list[k]) \in Nat
                                     /\ list[k].addr < EndOf(list[k])
    BY BlockTypes DEF Tiled
  <1>2. list[i].addr = list[j].addr
    BY <1>1, HeapAssumption DEF Pointer
  <1>3. ASSUME NEW g \in 1 .. Len(list), NEW h \in 1 .. Len(list), g < h
        PROVE  list[g].addr < list[h].addr
    <2>1. g \in 1 .. h - 1
      BY <1>1, <1>3
    <2>2. EndOf(list[g]) <= list[h].addr
      BY <2>1, TileOrder
    <2> QED
      BY <1>1, <2>2
  <1>4. ~(i < j) /\ ~(j < i)
    BY <1>1, <1>2, <1>3
  <1> QED
    BY <1>1, <1>4

\* Giving back frames of the heap takes none from anyone else.
LEMMA OthersKept ==
    ASSUME NEW bits, FirstMb \cup PageTableRange \cup held \subseteq bits, Lent, ~overwritten,
           NEW freed, freed \subseteq HeapRange
    PROVE  FirstMb \cup PageTableRange \cup held \subseteq bits \ freed
  <1>1. (FirstMb \cup PageTableRange) \cap HeapRange = {}
    BY FrameAssumption DEF FirstMb, PageTableRange, HeapRange, heap_start_frame
  <1> QED
    BY <1>1 DEF Lent

LEMMA AllocateInv ==
    ASSUME HeapInv, ~overwritten, NEW request \in Request, allocate(request)
    PROVE  HeapInv'
  <1> DEFINE size  == Rounded(request)
             n     == num_pages(size)
             taken == IF m_free_frames >= n THEN n ELSE m_free_frames
             bits  == bitmap \cup Lowest(taken)
  <1>1. PICK i \in find_free_block(size) :
          /\ blocks' = SubSeq(blocks, 1, i - 1)
                         \o split_block([blocks[i] EXCEPT !.free = FALSE], size)
                         \o SubSeq(blocks, i + 1, Len(blocks))
          /\ owned' = IF taken = n
                        THEN owned \cup {[ptr |-> Pointer(blocks[i]), size |-> request]}
                        ELSE owned
          /\ bitmap' = bits \ (IF taken = n THEN {} ELSE FramesAt(blocks[i].addr, taken))
          /\ m_free_frames' = m_free_frames - taken
               + Cardinality((IF taken = n THEN {} ELSE FramesAt(blocks[i].addr, taken)) \cap bits)
          /\ UNCHANGED <<held, overwritten>>
    BY DEF allocate
  <1>2. /\ request \in Nat /\ size \in Nat /\ request <= size
        /\ n \in Nat
    <2>1. request \in Nat
      BY HeapAssumption
    <2>2. size \in Nat /\ request <= size
      BY <2>1, RoundedUp
    <2>3. size + PAGE_SIZE - 1 \in Nat /\ PAGE_SIZE \in Nat \ {0}
      BY <2>2, FrameAssumption
    <2>4. n \in Nat
      BY <2>3, DivMod DEF num_pages
    <2> QED
      BY <2>1, <2>2, <2>4
  <1>3. /\ TypeOK /\ Tiled(blocks) /\ Merged(blocks) /\ InUse(blocks, owned) /\ HeldOnce(owned)
        /\ FreeCountExact /\ FirstMb \cup PageTableRange \cup held \subseteq bitmap
        /\ Lent /\ blocks \in Seq(Block) /\ bitmap \subseteq Frame
    BY DEF HeapInv, FramesStayConsistent, TypeOK
  <1> HIDE DEF size, n
  <1>4. i \in 1 .. Len(blocks) /\ blocks[i].free /\ blocks[i].size >= size
    BY <1>3 DEF find_free_block, Fits
  <1>5. /\ blocks[i] \in Block /\ blocks[i].addr \in Nat /\ blocks[i].size \in Nat
        /\ EndOf(blocks[i]) <= heap_end /\ heap_start <= blocks[i].addr
    BY <1>3, <1>4, BlockTypes, TileOrder
  <1> DEFINE b == [blocks[i] EXCEPT !.free = FALSE]
  <1>6. b \in Block /\ b.addr = blocks[i].addr /\ b.size = blocks[i].size /\ ~b.free
        /\ EndOf(b) = EndOf(blocks[i])
    BY <1>5 DEF Block, EndOf
  <1>7. PICK parts : parts = split_block(b, size)
    OBVIOUS
  <1> HIDE DEF b
  <1>8. /\ parts \in Seq(Block) /\ parts # <<>> /\ parts[1].addr = blocks[i].addr
        /\ size <= parts[1].size /\ ~parts[1].free
        /\ EndOf(parts[Len(parts)]) = EndOf(blocks[i])
        /\ Follows(parts) /\ Merged(parts)
    <2>1. size <= b.size /\ EndOf(b) <= heap_end
      BY <1>2, <1>4, <1>5, <1>6
    <2> QED
      BY <1>2, <1>6, <1>7, <2>1, SplitParts
  <1>9. blocks' = Spliced(blocks, i, parts)
    BY <1>1, <1>7 DEF Spliced, b
  <1>10. /\ Tiled(blocks') /\ Merged(blocks') /\ i \in 1 .. Len(blocks') /\ blocks'[i] = parts[1]
         /\ \A j \in 1 .. Len(blocks) \ {i} : \E h \in 1 .. Len(blocks') : blocks'[h] = blocks[j]
    <2>1. IsSplit(Spliced(blocks, i, parts), blocks, i, parts)
      BY <1>3, <1>4, <1>8, SplitTiles, Zenon
    <2> QED
      BY <1>9, <2>1 DEF IsSplit
  <1>11. InUse(blocks', owned) /\ \A r \in owned : r.ptr # Pointer(blocks[i])
    <2> SUFFICES ASSUME NEW r \in owned
                 PROVE  /\ r.ptr # Pointer(blocks[i])
                        /\ \E h \in 1 .. Len(blocks') :
                             ~blocks'[h].free /\ Pointer(blocks'[h]) = r.ptr
                             /\ r.size <= blocks'[h].size
      BY DEF InUse
    <2>1. PICK j \in 1 .. Len(blocks) :
            ~blocks[j].free /\ Pointer(blocks[j]) = r.ptr /\ r.size <= blocks[j].size
      BY <1>3 DEF InUse
    <2>2. j # i
      BY <1>4, <2>1
    <2>3. r.ptr # Pointer(blocks[i])
      BY <1>3, <1>4, <2>1, <2>2, PointersDiffer
    <2>4. PICK h \in 1 .. Len(blocks') : blocks'[h] = blocks[j]
      BY <1>10, <2>1, <2>2
    <2> QED
      BY <2>1, <2>3, <2>4
  <1> DEFINE r0 == [ptr |-> Pointer(blocks[i]), size |-> request]
  <1>12. owned' = owned \/ owned' = owned \cup {r0}
    BY <1>1
  <1>13. r0.ptr = Pointer(blocks[i]) /\ r0.size = request
         /\ r0 \in [ptr : heap_start .. heap_end, size : Request]
    <2>1. Pointer(blocks[i]) \in heap_start .. heap_end
      BY <1>5, HeapBounds, HeapAssumption DEF Pointer, EndOf
    <2> QED
      BY <2>1
  <1> HIDE DEF r0
  <1>14. InUse(blocks', owned')
    <2>1. ~blocks'[i].free /\ Pointer(blocks'[i]) = r0.ptr /\ r0.size <= blocks'[i].size
      <3>1. parts[1].size \in Nat
        BY <1>8, BlockTypes, EmptySeq
      <3> QED
        BY <1>2, <1>8, <1>10, <1>13, <3>1 DEF Pointer
    <2>2. InUse(blocks', {r0})
      BY <1>10, <2>1 DEF InUse
    <2> QED
      BY <1>11, <1>12, <2>2 DEF InUse
  <1>15. HeldOnce(owned')
    BY <1>3, <1>11, <1>12, <1>13 DEF HeldOnce
  <1>16. owned' \subseteq [ptr : heap_start .. heap_end, size : Request]
    BY <1>3, <1>12, <1>13 DEF TypeOK
  <1>17. taken \in Nat /\ taken <= n /\ taken <= m_free_frames /\ m_free_frames \in Nat
    BY <1>2, <1>3 DEF TypeOK
  <1> HIDE DEF taken
  <1>18. Lowest(taken) \subseteq Frame \ bitmap /\ Cardinality(Lowest(taken)) = taken
    BY <1>3, <1>17, LowestFrames DEF FreeCountExact
  <1>19. bits \subseteq Frame /\ Cardinality(Frame \ bits) = m_free_frames - taken
         /\ Cardinality(Frame \ bits) \in Nat
    <2>1. Cardinality(Frame \ (bitmap \cup Lowest(taken))) = Cardinality(Frame \ bitmap) - taken
      BY <1>3, <1>18, SetManyCount
    <2>2. bits \subseteq Frame
      BY <1>3, <1>18
    <2> QED
      BY <1>3, <2>1, <2>2, ClearIsFinite DEF FreeCountExact, Clear
  <1> DEFINE freed == IF taken = n THEN {} ELSE FramesAt(blocks[i].addr, taken)
  <1>20. freed \subseteq HeapRange /\ freed \subseteq Frame
    <2>1. blocks[i].addr + size <= heap_end
      BY <1>2, <1>4, <1>5, HeapBounds, HeapAssumption DEF EndOf
    <2>2. taken <= num_pages(size)
      BY <1>17 DEF n
    <2>3. FramesAt(blocks[i].addr, taken) \subseteq HeapRange /\ HeapRange \subseteq Frame
      BY <1>2, <1>5, <1>17, <2>1, <2>2, FramesInHeap
    <2> QED
      BY <2>3
  <1> HIDE DEF bits, freed
  <1>21. bitmap' = bits \ freed /\ m_free_frames' = m_free_frames - taken + Cardinality(freed \cap bits)
    BY <1>1 DEF bits, freed
  <1>22. FreeCountExact' /\ m_free_frames' \in 0 .. TotalFrames /\ bitmap' \subseteq Frame
    <2>1. Cardinality(Frame \ (bits \ freed)) = Cardinality(Frame \ bits) + Cardinality(freed \cap bits)
      BY <1>19, <1>20, ClearManyCount
    <2>2. bits \ freed \in SUBSET Frame
      BY <1>19
    <2>3. m_free_frames' = Cardinality(Frame \ bitmap')
      BY <1>19, <1>21, <2>1
    <2> QED
      BY <1>21, <2>2, <2>3, CountBound DEF FreeCountExact, Clear
  <1>23. FirstMb \cup PageTableRange \cup held' \subseteq bitmap' /\ Lent' /\ overwritten' \in BOOLEAN
    <2>1. UNCHANGED <<held, overwritten>>
      BY <1>1
    <2>2. FirstMb \cup PageTableRange \cup held \subseteq bits
      BY <1>3 DEF bits
    <2>3. FirstMb \cup PageTableRange \cup held \subseteq bitmap'
      BY <1>3, <1>20, <1>21, <2>2, OthersKept
    <2> QED
      BY <1>3, <2>1, <2>3 DEF Lent, TypeOK
  <1>24. blocks' \in Seq(Block) /\ held' \subseteq Frame
    BY <1>1, <1>3, <1>10 DEF Tiled, TypeOK
  <1>25. TypeOK'
    BY <1>16, <1>22, <1>23, <1>24, Zenon DEF TypeOK
  <1> QED
    BY <1>10, <1>14, <1>15, <1>22, <1>23, <1>25 DEF HeapInv, FramesStayConsistent

\* A list in which one block is replaced by another of the same extent.
SameBut(list, i, new) ==
    /\ Tiled(new) /\ Len(new) = Len(list)
    /\ \A j \in 1 .. Len(list) : j # i => new[j] = list[j]

LEMMA ReplacedBlock ==
    ASSUME NEW list, Tiled(list), NEW i \in 1 .. Len(list),
           NEW c \in Block, c.addr = list[i].addr, EndOf(c) = EndOf(list[i])
    PROVE  SameBut(list, i, [list EXCEPT ![i] = c])
  <1>1. list \in Seq(Block) /\ list # <<>> /\ Len(list) \in Nat \ {0}
    BY EmptySeq DEF Tiled
  <1>2. PICK new : new = [list EXCEPT ![i] = c]
    OBVIOUS
  <1>3. /\ new \in Seq(Block) /\ Len(new) = Len(list)
        /\ \A j \in 1 .. Len(list) : new[j] = IF j = i THEN c ELSE list[j]
    BY <1>1, <1>2, ExceptSeq
  <1>4. \A j \in 1 .. Len(list) : new[j].addr = list[j].addr /\ EndOf(new[j]) = EndOf(list[j])
    BY <1>3
  <1>5. Follows(new)
    <2> SUFFICES ASSUME NEW j \in 1 .. Len(list) - 1 PROVE new[j + 1].addr = EndOf(new[j])
      BY <1>3 DEF Follows
    <2>1. j \in 1 .. Len(list) /\ j + 1 \in 1 .. Len(list)
      BY <1>1
    <2> QED
      BY <1>4, <2>1 DEF Tiled, Follows
  <1>6. 1 \in 1 .. Len(list) /\ Len(list) \in 1 .. Len(list) /\ new # <<>>
    BY <1>1, <1>3, EmptySeq
  <1>7. new[1].addr = heap_start /\ EndOf(new[Len(new)]) = heap_end
    BY <1>3, <1>4, <1>6 DEF Tiled
  <1>8. SameBut(list, i, new)
    BY <1>3, <1>5, <1>6, <1>7 DEF Tiled, SameBut
  <1> QED
    BY <1>2, <1>8

LEMMA FreedBlock ==
    ASSUME NEW list, Tiled(list), NEW i \in 1 .. Len(list)
    PROVE  SameBut(list, i, [list EXCEPT ![i].free = TRUE])
  <1> DEFINE c == [list[i] EXCEPT !.free = TRUE]
  <1>1. list[i] \in Block
    BY DEF Tiled
  <1>2. c \in Block /\ c.addr = list[i].addr /\ EndOf(c) = EndOf(list[i])
    BY <1>1 DEF Block, EndOf
  <1>3. [list EXCEPT ![i].free = TRUE] = [list EXCEPT ![i] = c]
    OBVIOUS
  <1> HIDE DEF c
  <1>4. SameBut(list, i, [list EXCEPT ![i] = c])
    BY <1>2, ReplacedBlock
  <1> QED
    BY <1>3, <1>4, Zenon

LEMMA FreeInv == ASSUME HeapInv, ~overwritten, NEW range \in owned, free(range) PROVE HeapInv'
  <1>1. PICK i \in DOMAIN blocks :
          /\ Pointer(blocks[i]) = range.ptr
          /\ blocks' = merge_free_blocks([blocks EXCEPT ![i].free = TRUE])
          /\ owned' = owned \ {range}
          /\ bitmap' = bitmap \ FramesAt(blocks[i].addr, num_pages(blocks[i].size))
          /\ m_free_frames' = m_free_frames
               + Cardinality(FramesAt(blocks[i].addr, num_pages(blocks[i].size)) \cap bitmap)
          /\ UNCHANGED <<held, overwritten>>
    BY DEF free
  <1>2. /\ TypeOK /\ Tiled(blocks) /\ InUse(blocks, owned) /\ HeldOnce(owned)
        /\ FreeCountExact /\ FirstMb \cup PageTableRange \cup held \subseteq bitmap
        /\ Lent /\ blocks \in Seq(Block) /\ bitmap \subseteq Frame
    BY DEF HeapInv, FramesStayConsistent, TypeOK
  <1>3. i \in 1 .. Len(blocks)
    BY <1>2
  <1>4. /\ blocks[i].addr \in Nat /\ blocks[i].size \in Nat
        /\ EndOf(blocks[i]) <= heap_end /\ heap_start <= blocks[i].addr
    BY <1>2, <1>3, BlockTypes, TileOrder
  <1>5. PICK list : list = [blocks EXCEPT ![i].free = TRUE]
    OBVIOUS
  <1>6. /\ Tiled(list) /\ Len(list) = Len(blocks)
        /\ \A j \in 1 .. Len(blocks) : j # i => list[j] = blocks[j]
    <2>1. SameBut(blocks, i, list)
      BY <1>2, <1>3, <1>5, FreedBlock, Zenon
    <2> QED
      BY <2>1 DEF SameBut
  <1>7. MergedUpTo(list, Len(list), blocks')
    BY <1>1, <1>5, <1>6, MergeTiles
  <1>8. Tiled(blocks') /\ Merged(blocks')
    BY <1>6, <1>7 DEF MergedUpTo, Tiled
  <1>9. InUse(blocks', owned')
    <2> SUFFICES ASSUME NEW r \in owned, r # range
                 PROVE  \E h \in 1 .. Len(blocks') :
                          ~blocks'[h].free /\ Pointer(blocks'[h]) = r.ptr
                          /\ r.size <= blocks'[h].size
      BY <1>1 DEF InUse
    <2>1. PICK j \in 1 .. Len(blocks) :
            ~blocks[j].free /\ Pointer(blocks[j]) = r.ptr /\ r.size <= blocks[j].size
      BY <1>2 DEF InUse
    <2>2. r.ptr # range.ptr
      BY <1>2 DEF HeldOnce
    <2>3. j # i
      BY <1>1, <2>1, <2>2
    <2>4. list[j] = blocks[j]
      BY <1>6, <2>3
    <2>5. PICK h \in 1 .. Len(blocks') : blocks'[h] = list[j]
      BY <1>6, <1>7, <2>1, <2>4 DEF MergedUpTo
    <2> QED
      BY <2>1, <2>4, <2>5
  <1>10. HeldOnce(owned') /\ owned' \subseteq [ptr : heap_start .. heap_end, size : Request]
    BY <1>1, <1>2 DEF HeldOnce, TypeOK
  <1> DEFINE freed == FramesAt(blocks[i].addr, num_pages(blocks[i].size))
  <1>11. freed \subseteq HeapRange /\ freed \subseteq Frame
    <2>1. blocks[i].addr + blocks[i].size <= heap_end
      BY <1>4, HeapBounds, HeapAssumption DEF EndOf
    <2>2. num_pages(blocks[i].size) \in Nat /\ num_pages(blocks[i].size) <= num_pages(blocks[i].size)
      <3>1. blocks[i].size + PAGE_SIZE - 1 \in Nat /\ PAGE_SIZE \in Nat \ {0}
        BY <1>4, FrameAssumption
      <3>2. num_pages(blocks[i].size) \in Nat
        BY <3>1, DivMod DEF num_pages
      <3> QED
        BY <3>2
    <2>3. freed \subseteq HeapRange /\ HeapRange \subseteq Frame
      BY <1>4, <2>1, <2>2, FramesInHeap
    <2> QED
      BY <2>3
  <1> HIDE DEF freed
  <1>12. bitmap' = bitmap \ freed /\ m_free_frames' = m_free_frames + Cardinality(freed \cap bitmap)
    BY <1>1 DEF freed
  <1>13. FreeCountExact' /\ m_free_frames' \in 0 .. TotalFrames /\ bitmap' \subseteq Frame
    <2>1. Cardinality(Frame \ (bitmap \ freed))
            = Cardinality(Frame \ bitmap) + Cardinality(freed \cap bitmap)
      BY <1>2, <1>11, ClearManyCount
    <2>2. bitmap \ freed \in SUBSET Frame
      BY <1>2
    <2>3. m_free_frames' = Cardinality(Frame \ bitmap')
      BY <1>2, <1>12, <2>1 DEF FreeCountExact, Clear
    <2> QED
      BY <1>12, <2>2, <2>3, CountBound DEF FreeCountExact, Clear
  <1>14. FirstMb \cup PageTableRange \cup held' \subseteq bitmap' /\ Lent' /\ overwritten' \in BOOLEAN
    <2>1. UNCHANGED <<held, overwritten>>
      BY <1>1
    <2>2. FirstMb \cup PageTableRange \cup held \subseteq bitmap'
      BY <1>2, <1>11, <1>12, OthersKept
    <2> QED
      BY <1>2, <2>1, <2>2 DEF Lent, TypeOK
  <1>15. blocks' \in Seq(Block) /\ held' \subseteq Frame
    BY <1>1, <1>2, <1>8 DEF Tiled, TypeOK
  <1>16. TypeOK'
    BY <1>10, <1>13, <1>14, <1>15, Zenon DEF TypeOK
  <1> QED
    BY <1>8, <1>9, <1>10, <1>13, <1>14, <1>16 DEF HeapInv, FramesStayConsistent

LEMMA TakeInv == ASSUME HeapInv, ~overwritten, take_frame PROVE HeapInv'
  <1>1. PICK i \in Clear : IsFirstClear(i) /\ SetBit(i)
    BY DEF take_frame, allocate_frame
  <1>2. /\ held' = held \cup (bitmap' \ bitmap)
        /\ overwritten' = (held' \cap HeapRange # {})
        /\ UNCHANGED <<blocks, owned>>
    BY DEF take_frame
  <1>3. /\ TypeOK /\ Tiled(blocks) /\ Merged(blocks) /\ InUse(blocks, owned) /\ HeldOnce(owned)
        /\ FreeCountExact /\ FirstMb \cup PageTableRange \cup held \subseteq bitmap
        /\ Lent /\ bitmap \in SUBSET Frame /\ m_free_frames \in Nat
    BY DEF HeapInv, FramesStayConsistent, TypeOK
  <1>4. i \in Frame /\ i \notin bitmap /\ i \in Nat
    BY <1>1, FrameAssumption DEF Clear, Frame
  <1>5. bitmap' = bitmap \cup {i} /\ held' = held \cup {i}
    BY <1>1, <1>2, <1>4 DEF SetBit
  <1>6. FreeCountExact' /\ m_free_frames' \in 0 .. TotalFrames
    <2>1. FreeCountExact' /\ bitmap' \in SUBSET Frame
      BY <1>1, <1>3, SetBitKeepsCount DEF CountInv, FrameTypeOK
    <2> QED
      BY <2>1, CountBound DEF FreeCountExact, Clear
  <1>7. Lent'
    <2>1. held' \cap (FirstMb \cup PageTableRange) = {}
      BY <1>3, <1>4, <1>5 DEF Lent
    <2>2. ASSUME overwritten' PROVE Frame \ HeapRange \subseteq bitmap'
      <3>1. i \in HeapRange
        BY <1>2, <1>3, <1>5, <2>2 DEF Lent
      <3>2. ASSUME NEW f \in Frame \ HeapRange PROVE f < i /\ f \in Nat
        BY <1>4, <3>1, FrameAssumption DEF Frame, HeapRange, heap_start_frame
      <3>3. ASSUME NEW f \in Frame \ HeapRange PROVE f \in bitmap
        BY <1>1, <1>4, <3>2 DEF IsFirstClear, Clear
      <3> QED
        BY <1>5, <3>3
    <2> QED
      BY <1>2, <2>1, <2>2 DEF Lent
  <1>8. TypeOK'
    <2>1. bitmap' \subseteq Frame /\ held' \subseteq Frame
      BY <1>3, <1>4, <1>5 DEF TypeOK
    <2>2. overwritten' \in BOOLEAN
      BY <1>2
    <2> QED
      BY <1>2, <1>3, <1>6, <2>1, <2>2 DEF TypeOK
  <1>9. FramesStayConsistent'
    BY <1>3, <1>5, <1>6 DEF FramesStayConsistent
  <1> QED
    BY <1>2, <1>3, <1>7, <1>8, <1>9 DEF HeapInv

LEMMA ReturnInv == ASSUME HeapInv, ~overwritten, return_frame PROVE HeapInv'
  <1>1. PICK f \in held : /\ free_frame(MemoryStart + f * PAGE_SIZE)
                          /\ held' = held \ {f}
                          /\ UNCHANGED <<blocks, owned, overwritten>>
    BY DEF return_frame
  <1>2. /\ TypeOK /\ Tiled(blocks) /\ Merged(blocks) /\ InUse(blocks, owned) /\ HeldOnce(owned)
        /\ FreeCountExact /\ FirstMb \cup PageTableRange \cup held \subseteq bitmap
        /\ Lent /\ bitmap \in SUBSET Frame /\ m_free_frames \in Nat
    BY DEF HeapInv, FramesStayConsistent, TypeOK
  <1>3. f \in bitmap /\ f \in Frame /\ f \in Nat /\ f < TotalFrames
    <2>1. f \in bitmap /\ f \in Frame
      BY <1>1, <1>2
    <2> QED
      BY <2>1, FrameAssumption DEF Frame
  <1>4. frame_index(MemoryStart + f * PAGE_SIZE) = f /\ MemoryStart + f * PAGE_SIZE >= MemoryStart
    <2>1. f * PAGE_SIZE \in Nat /\ MemoryStart \in Nat /\ PAGE_SIZE \in Nat \ {0}
      BY <1>3, FrameAssumption
    <2>2. (MemoryStart + f * PAGE_SIZE) - MemoryStart = f * PAGE_SIZE
      BY <2>1
    <2>3. (f * PAGE_SIZE) \div PAGE_SIZE = f
      BY <1>3, <2>1
    <2> QED
      BY <2>1, <2>2, <2>3 DEF frame_index
  <1>5. ClearBit(f)
    BY <1>1, <1>3, <1>4 DEF free_frame, Managed
  <1>6. bitmap' = bitmap \ {f}
    BY <1>3, <1>5 DEF ClearBit
  <1>7. FreeCountExact' /\ m_free_frames' \in 0 .. TotalFrames
    <2>1. FreeCountExact' /\ bitmap' \in SUBSET Frame
      BY <1>2, <1>3, <1>5, ClearBitKeepsCount DEF CountInv, FrameTypeOK
    <2> QED
      BY <2>1, CountBound DEF FreeCountExact, Clear
  <1>8. Lent' /\ FirstMb \cup PageTableRange \cup held' \subseteq bitmap'
    BY <1>1, <1>2, <1>6 DEF Lent
  <1>9. TypeOK'
    <2>1. bitmap' \subseteq Frame /\ held' \subseteq Frame
      BY <1>1, <1>2, <1>6 DEF TypeOK
    <2> QED
      BY <1>1, <1>2, <1>7, <2>1 DEF TypeOK
  <1>10. FramesStayConsistent'
    BY <1>7, <1>8 DEF FramesStayConsistent
  <1> QED
    BY <1>1, <1>2, <1>8, <1>9, <1>10 DEF HeapInv

LEMMA HeapInitInv == ASSUME Init PROVE HeapInv
  <1>1. /\ blocks = <<[addr |-> heap_start, size |-> heap_size - HeaderSize, free |-> TRUE]>>
        /\ owned = {} /\ held = {} /\ overwritten = FALSE /\ FrameInit
    BY DEF Init, initialize
  <1>2. FreeCountExact /\ bitmap \in SUBSET Frame
    BY <1>1, CountAtStart DEF CountInv, FrameTypeOK
  <1>3. m_free_frames \in 0 .. TotalFrames
    BY <1>2, CountBound DEF FreeCountExact, Clear
  <1> DEFINE b == [addr |-> heap_start, size |-> heap_size - HeaderSize, free |-> TRUE]
  <1>4. b \in Block /\ b.addr = heap_start /\ EndOf(b) = heap_end
    BY HeapBounds, HeapAssumption DEF Block, EndOf, heap_end, heap_size
  <1> HIDE DEF b
  <1>5. blocks = <<b>>
    BY <1>1 DEF b
  <1>6. /\ blocks \in Seq(Block) /\ blocks # <<>> /\ Len(blocks) = 1 /\ blocks[1] = b
    BY <1>4, <1>5
  <1>7. Tiled(blocks) /\ Merged(blocks)
    BY <1>4, <1>6 DEF Tiled, Follows, Merged
  <1>8. FirstMb \cup PageTableRange \cup held \subseteq bitmap
    BY <1>1 DEF FrameInit
  <1>9. TypeOK /\ Lent
    BY <1>1, <1>2, <1>3, <1>6 DEF TypeOK, Lent
  <1> QED
    BY <1>1, <1>2, <1>7, <1>8, <1>9 DEF HeapInv, FramesStayConsistent, InUse, HeldOnce

LEMMA AlwaysHeapInv == Spec => []HeapInv
  <1>1. Init => HeapInv
    BY HeapInitInv
  <1>2. HeapInv /\ [Next]_vars => HeapInv'
    <2> SUFFICES ASSUME HeapInv, [Next]_vars PROVE HeapInv'
      OBVIOUS
    <2>1. CASE UNCHANGED vars
      BY <2>1 DEF vars, pmmVars, HeapInv, TypeOK, FramesStayConsistent, FreeCountExact, Clear, Lent
    <2>2. CASE ~overwritten /\ \E request \in Request : allocate(request)
      BY <2>2, AllocateInv
    <2>3. CASE ~overwritten /\ \E range \in owned : free(range)
      BY <2>3, FreeInv
    <2>4. CASE ~overwritten /\ take_frame
      BY <2>4, TakeInv
    <2>5. CASE ~overwritten /\ return_frame
      BY <2>5, ReturnInv
    <2> QED
      BY <2>1, <2>2, <2>3, <2>4, <2>5 DEF Next
  <1> QED
    BY <1>1, <1>2, PTL DEF Spec

-----------------------------------------------------------------------------
\* At every moment the blocks tile the heap from its first byte to its last,
\* no two free blocks side by side: no split in allocate and no merge in free
\* loses or doubles a byte, for any sizes asked for and any order of frees.
THEOREM BlocksAlwaysTile == Spec => []BlocksTileHeap
  <1>1. HeapInv => BlocksTileHeap
    <2> SUFFICES ASSUME HeapInv PROVE BlocksTileHeap
      OBVIOUS
    <2>1. TypeOK /\ Tiled(blocks) /\ Merged(blocks)
      BY DEF HeapInv
    <2>2. blocks \in Seq(Block) /\ blocks # <<>> /\ Head(blocks) = blocks[1]
      BY <2>1 DEF Tiled
    <2> QED
      BY <2>1, <2>2 DEF BlocksTileHeap, Tiled, Follows, Merged, EndOf
  <1> QED
    BY <1>1, AlwaysHeapInv, PTL

\* The free count stays exact and the reserved and held frames stay taken,
\* although free returns the frames at the block's address and allocate took
\* the lowest clear ones, and whether or not allocate ran out of frames.
THEOREM FramesAlwaysConsistent == Spec => []FramesStayConsistent
  <1>1. HeapInv => FramesStayConsistent
    BY DEF HeapInv
  <1> QED
    BY <1>1, AlwaysHeapInv, PTL

\* allocate_frame hands out a frame of the heap only when every frame below
\* the heap is in use.
THEOREM HeapIsLentLast == Spec => []HeapLentLast
  <1>1. HeapInv => HeapLentLast
    BY DEF HeapInv, Lent, HeapLentLast
  <1> QED
    BY <1>1, AlwaysHeapInv, PTL

\* A caller's m bytes behind a header of h bytes at a, in a block of s bytes.
LEMMA Extent ==
    ASSUME NEW a \in Nat, NEW h \in Nat, NEW s \in Nat, NEW m \in Nat, m <= s,
           NEW p, p = a + h, NEW e, e = a + h + s
    PROVE  p \in Nat /\ e \in Nat /\ a <= p /\ p + m <= e
  OBVIOUS

\* Two blocks of a list lie apart, and so does what callers hold of them.
LEMMA RangesApart ==
    ASSUME NEW list, Tiled(list), NEW i \in 1 .. Len(list), NEW j \in 1 .. Len(list), i # j,
           NEW p \in Nat, NEW m \in Nat, NEW q \in Nat, NEW n \in Nat,
           Pointer(list[i]) = p, m <= list[i].size,
           Pointer(list[j]) = q, n <= list[j].size
    PROVE  p + m <= q \/ q + n <= p
  <1>1. /\ list[i].addr \in Nat /\ list[i].size \in Nat
        /\ list[j].addr \in Nat /\ list[j].size \in Nat
    BY BlockTypes DEF Tiled
  <1>2. EndOf(list[i]) <= list[j].addr \/ EndOf(list[j]) <= list[i].addr
    BY TileOrder
  <1>3. /\ list[i].addr + HeaderSize = p /\ list[i].addr + HeaderSize + list[i].size = EndOf(list[i])
        /\ list[j].addr + HeaderSize = q /\ list[j].addr + HeaderSize + list[j].size = EndOf(list[j])
    BY DEF EndOf, Pointer
  <1>4. p + m <= EndOf(list[i]) /\ q + n <= EndOf(list[j]) /\ list[i].addr <= p /\ list[j].addr <= q
    <2>1. HeaderSize \in Nat
      BY HeapAssumption
    <2>2. p + m <= EndOf(list[i]) /\ list[i].addr <= p
      BY <1>1, <1>3, <2>1, Extent
    <2>3. q + n <= EndOf(list[j]) /\ list[j].addr <= q
      BY <1>1, <1>3, <2>1, Extent
    <2> QED
      BY <2>2, <2>3
  <1>5. EndOf(list[i]) \in Nat /\ EndOf(list[j]) \in Nat
    BY BlockTypes DEF Tiled
  <1>6. CASE EndOf(list[i]) <= list[j].addr
    BY <1>1, <1>4, <1>5, <1>6
  <1>7. CASE EndOf(list[j]) <= list[i].addr
    BY <1>1, <1>4, <1>5, <1>7
  <1> QED
    BY <1>2, <1>6, <1>7

\* What allocate returns is at least as long as asked for, inside the heap,
\* and apart from all that callers hold.
LEMMA AllocateIsAlloc ==
    ASSUME HeapInv, NEW request \in Request, allocate(request)
    PROVE  (\E n \in Request \ {0} : Abstract!Alloc(n)) \/ UNCHANGED owned
  <1> DEFINE size  == Rounded(request)
             n     == num_pages(size)
             taken == IF m_free_frames >= n THEN n ELSE m_free_frames
  <1>1. PICK i \in find_free_block(size) :
          owned' = IF taken = n
                     THEN owned \cup {[ptr |-> Pointer(blocks[i]), size |-> request]}
                     ELSE owned
    BY DEF allocate
  <1>2. request \in Nat /\ size \in Nat /\ request <= size /\ request # 0
    BY RoundedUp, HeapAssumption DEF allocate
  <1> HIDE DEF size, n, taken
  <1>3. TypeOK /\ Tiled(blocks) /\ InUse(blocks, owned) /\ blocks \in Seq(Block)
    BY DEF HeapInv, TypeOK
  <1>4. i \in 1 .. Len(blocks) /\ blocks[i].free /\ blocks[i].size >= size
    BY <1>3 DEF find_free_block, Fits
  <1>5. /\ blocks[i].addr \in Nat /\ blocks[i].size \in Nat
        /\ EndOf(blocks[i]) <= heap_end /\ heap_start <= blocks[i].addr
    BY <1>3, <1>4, BlockTypes, TileOrder
  <1>6. PICK p : p = Pointer(blocks[i])
    OBVIOUS
  <1>7. p \in Nat /\ p \in heap_start .. heap_end - request /\ request <= blocks[i].size
    <2>1. p = blocks[i].addr + HeaderSize
          /\ EndOf(blocks[i]) = blocks[i].addr + HeaderSize + blocks[i].size
      BY <1>6 DEF Pointer, EndOf
    <2>2. request <= blocks[i].size
      BY <1>2, <1>4, <1>5
    <2>3. HeaderSize \in Nat
      BY HeapAssumption
    <2>4. p \in Nat /\ EndOf(blocks[i]) \in Nat /\ blocks[i].addr <= p
          /\ p + request <= EndOf(blocks[i])
      BY <1>2, <1>5, <2>1, <2>2, <2>3, Extent
    <2> QED
      BY <1>2, <1>5, <2>2, <2>4, HeapBounds
  <1>8. CASE owned' = owned \cup {[ptr |-> p, size |-> request]}
    <2>1. ASSUME NEW s \in owned PROVE Abstract!Disjoint([ptr |-> p, size |-> request], s)
      <3>1. s.ptr \in Nat /\ s.size \in Nat
        <4>1. s \in [ptr : heap_start .. heap_end, size : Request]
          BY <1>3 DEF TypeOK
        <4>2. s.ptr \in heap_start .. heap_end /\ s.size \in Request
          BY <4>1
        <4>3. \A x \in heap_start .. heap_end : x \in Nat
          BY HeapBounds
        <4>4. Request \subseteq Nat
          BY HeapAssumption
        <4> QED
          BY <4>2, <4>3, <4>4, Zenon
      <3>2. PICK j \in 1 .. Len(blocks) :
              ~blocks[j].free /\ Pointer(blocks[j]) = s.ptr /\ s.size <= blocks[j].size
        BY <1>3 DEF InUse
      <3>3. i # j
        BY <1>4, <3>2
      <3>4. p + request <= s.ptr \/ s.ptr + s.size <= p
        BY <1>2, <1>3, <1>4, <1>6, <1>7, <3>1, <3>2, <3>3, RangesApart
      <3> QED
        BY <3>4 DEF Abstract!Disjoint
    <2>2. Abstract!Alloc(request)
      BY <1>7, <1>8, <2>1 DEF Abstract!Alloc
    <2> QED
      BY <1>2, <2>2
  <1> QED
    BY <1>1, <1>6, <1>8

\* The heap implements the allocator that the callers of new and delete rely
\* on: every step of the block list and of the frames is a grant of a range of
\* its own, the return of a range, or no step at all for the callers.
THEOREM HeapIsAllocator == Spec => IsAllocator
  <1>1. Init => Abstract!Init
    BY DEF Init, initialize, Abstract!Init
  <1>2. HeapInv /\ [Next]_vars => [Abstract!Next]_owned
    <2> SUFFICES ASSUME HeapInv, [Next]_vars PROVE Abstract!Next \/ UNCHANGED owned
      OBVIOUS
    <2>1. CASE UNCHANGED vars
      BY <2>1 DEF vars
    <2>2. CASE \E request \in Request : allocate(request)
      BY <2>2, AllocateIsAlloc DEF Abstract!Next
    <2>3. CASE \E range \in owned : free(range)
      BY <2>3 DEF free, Abstract!Next, Abstract!Free
    <2>4. CASE take_frame \/ return_frame
      BY <2>4 DEF take_frame, return_frame
    <2> QED
      BY <2>1, <2>2, <2>3, <2>4 DEF Next
  <1> QED
    BY <1>1, <1>2, AlwaysHeapInv, PTL DEF Spec, IsAllocator, Abstract!Spec
=============================================================================
