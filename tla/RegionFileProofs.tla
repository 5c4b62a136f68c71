-------------------------- MODULE RegionFileProofs --------------------------
(***************************************************************************)
(* Proofs about RegionFile for every region size, block geometry and set   *)
(* of updates: the types, and that no programmed word is programmed again. *)
(***************************************************************************)
EXTENDS RegionFile, WellFoundedInduction, TLAPS

-----------------------------------------------------------------------------
(* The inductive invariant.                                                *)

\* First word of block b.
At(b) == b * SlotsPerBlock

\* The metadata has n allocated slots (the first holds the number of metadata
\* blocks): they are the first n words, their offsets increase, and every word
\* from the last offset on is erased.
Used(n) ==
  /\ mem[0] \in 1 .. RegionBlocks
  /\ n \in 1 .. At(mem[0])
  /\ \A j \in 0 .. n - 1 : mem[j] # Unallocated
  /\ \A j \in n .. At(mem[0]) - 1 : mem[j] = Unallocated
  /\ \A j, k \in 0 .. n - 1 : j < k => mem[j] < mem[k]
  /\ mem[n - 1] <= RegionBlocks =>
       \A a \in Addr : a >= At(mem[n - 1]) => mem[a] = Unallocated

Blank == \A a \in Addr : mem[a] = Unallocated

\* A number of metadata blocks that an interrupted program left too large.
Broken == mem[0] # Unallocated /\ mem[0] > RegionBlocks

Layout == Blank \/ Broken \/ \E n \in Nat : Used(n)

\* An opened file agrees with the flash.
Opened ==
  /\ slot = RF_EMPTY => Blank
  /\ slot >= RF_ONLY_METADATA =>
       /\ Used(slot + 1)
       /\ md = mem[0] /\ end = mem[slot] /\ end <= RegionBlocks
       /\ slot >= 1 => begin = mem[slot - 1]

\* The loop invariant of find_latest_mb: the last allocated slot lies in one of
\* the metadata blocks lo .. hi - 1.
Searching ==
  /\ md = mem[0] /\ md \in 1 .. RegionBlocks
  /\ lo < hi /\ hi <= md
  /\ \E n \in Nat : Used(n) /\ At(lo) < n /\ n <= At(hi)

\* Between commit_data_allocation and commit_data.
Committing ==
  /\ slot >= 1 /\ Used(slot + 1)
  /\ md = mem[0] /\ end = mem[slot] /\ end <= RegionBlocks
  /\ begin = mem[slot - 1] /\ begin + Blocks(req.size) = end
  /\ \A a \in Addr : a >= At(begin) => mem[a] = Unallocated

Sound ==
  /\ ~over /\ Layout
  /\ pc \in {"idle", "loop"} => Opened
  /\ pc = "search" => Searching
  /\ pc = "data" => Committing

\* spi_flash_cmd_erase has erased the first sectors, and whole sectors remain.
Erasing ==
  /\ pc = "erase" =>
       /\ erased < RegionBlocks
       /\ \E k \in Nat : RegionBlocks - erased = k * SectorBlocks
       /\ \A a \in Addr : a < At(erased) => mem[a] = Unallocated
       /\ erased > 0 => torn
       /\ slot = RF_NEED_TO_EMPTY
  /\ pc # "erase" => erased = 0

\* A request is present exactly while an update is in progress.
Requested ==
  /\ pc \in {"loop", "erase", "data"} => req \in Updates
  /\ pc = "search" => lo < hi /\ hi <= md
  /\ slot >= RF_ONLY_METADATA /\ pc \in {"idle", "loop"} =>
       slot < At(md) /\ end <= RegionBlocks
  /\ pc = "data" => slot >= 1 /\ slot < At(md) /\ begin + Blocks(req.size) = end
                    /\ end <= RegionBlocks

TypeInv == TypeOK /\ Erasing /\ Requested

Inv == TypeInv /\ (~torn => Sound)

-----------------------------------------------------------------------------
(* Arithmetic.                                                             *)

\* What \div is, as a pair of bounds.
LEMMA DivBounds ==
  ASSUME NEW x \in Nat, NEW y \in Nat, y > 0
  PROVE  /\ x \div y \in Nat
         /\ y * (x \div y) <= x
         /\ x < y * (x \div y) + y
OBVIOUS

\* Order is cancelled, and kept, by a positive factor.
LEMMA Cancel ==
  ASSUME NEW x \in Int, NEW y \in Int, NEW z \in Nat, z > 0, x * z < y * z
  PROVE  x < y
OBVIOUS

\* The order of two numbers is kept by a factor.
LEMMA Monotone ==
  ASSUME NEW x \in Int, NEW y \in Int, NEW z \in Nat, x <= y
  PROVE  x * z <= y * z
OBVIOUS

\* A multiple of y, rounded up or down to a multiple of y, is itself.
LEMMA DivExact ==
  ASSUME NEW k \in Nat, NEW y \in Nat, y > 0
  PROVE  /\ (k * y) \div y = k
         /\ (k * y + y - 1) \div y = k
<1>1. k * y \in Nat /\ k * y + y - 1 \in Nat
  OBVIOUS
<1> DEFINE p == (k * y) \div y
           q == (k * y + y - 1) \div y
<1>2. p \in Nat /\ y * p <= k * y /\ k * y < y * p + y
  BY <1>1, DivBounds
<1>3. q \in Nat /\ y * q <= k * y + y - 1 /\ k * y + y - 1 < y * q + y
  BY <1>1, DivBounds
<1> HIDE DEF p, q
<1>4. (k + 1) * y = k * y + y /\ (p + 1) * y = y * p + y /\ (q + 1) * y = y * q + y
      /\ q * y = y * q /\ p * y = y * p
  BY <1>2, <1>3
<1>5. p < k + 1 /\ k < p + 1
  BY <1>2, <1>4, Cancel
<1>6. q < k + 1 /\ k < q + 1
  <2>1. q * y < (k + 1) * y /\ k * y < (q + 1) * y
    BY <1>3, <1>4
  <2> QED BY <2>1, <1>3, Cancel
<1> QED BY <1>2, <1>3, <1>5, <1>6 DEF p, q

\* allocate_metadata leaves room for the update that it is called for.
LEMMA MetadataFits ==
  ASSUME NEW d \in 1 .. RegionBlocks - 1
  PROVE  MetadataBlocks(d) \in 1 .. RegionBlocks - d
<1> DEFINE a == SlotsPerBlock
           t == RegionBlocks
           q == (t * a) \div (d * a + 1)
           k == (q + a - 1) \div a
<1>1. a \in Nat /\ a >= 2 /\ t \in Nat /\ d \in Nat /\ d >= 1 /\ d < t
  BY RegionAssumption
<1>2. t * a \in Nat /\ d * a \in Nat
  BY <1>1
<1>3. q \in Nat /\ (d * a + 1) * q <= t * a
  BY <1>2, DivBounds
<1>4. k \in Nat /\ a * k <= q + a - 1 /\ q + a - 1 < a * k + a
  BY <1>1, <1>3, DivBounds
<1>5. MetadataBlocks(d) = IF k * a = 0 THEN 1 ELSE k
  <2>1. (1 + a - 1) \div a = 1 /\ (1 * a) \div a = 1
    BY <1>1
  <2>2. (k * a + a - 1) \div a = k /\ (k * a) \div a = k
    BY <1>1, <1>4, DivExact
  <2> QED BY <2>1, <2>2 DEF MetadataBlocks, AlignUp
<1>6. k <= t - d \/ k = 0
  <2> SUFFICES ASSUME k # 0 PROVE k <= t - d
    OBVIOUS
  <2> HIDE DEF q, k
  <2>1. q >= 1
    <3> SUFFICES ASSUME q = 0 PROVE FALSE
      BY <1>3
    <3>1. a * k >= a
      BY <1>1, <1>4
    <3> QED BY <3>1, <1>1, <1>4
  <2>2. (d * a + 1) * q >= d * a + q
    <3>1. (d * a) * q >= d * a
      BY <2>1, <1>2, <1>3
    <3>2. (d * a + 1) * q = (d * a) * q + q
      BY <1>2, <1>3
    <3> QED BY <3>1, <3>2, <1>1, <1>2, <1>3
  <2>3. a * k <= t * a - d * a + a - 1
    BY <2>2, <1>1, <1>2, <1>3, <1>4
  <2>4. k * a < (t - d + 1) * a
    BY <2>3, <1>1, <1>2, <1>4
  <2> QED BY <2>4, <1>1, <1>4, Cancel
<1>7. k * a = 0 <=> k = 0
  BY <1>1, <1>4
<1> QED BY <1>1, <1>4, <1>5, <1>6, <1>7

\* The order of the naturals as a set of pairs.
Less == {p \in Nat \X Nat : p[1] < p[2]}

\* The order of the naturals as a relation is well founded.
LEMMA LessWF == IsWellFoundedOn(Less, Nat)
BY NatLessThanWellFounded DEF OpToRel, Less

\* A nonempty set of naturals has a least element.
LEMMA NatMin ==
  ASSUME NEW T \in SUBSET Nat, T # {}
  PROVE  \E x \in T : \A y \in T : x <= y
<1>1. PICK x \in T : \A y \in T : ~(<<y, x>> \in Less)
  BY LessWF, WFMin
<1>2. \A y \in T : y < x => <<y, x>> \in Less
  BY DEF Less
<1>3. \A y \in T : ~(y < x)
  BY <1>1, <1>2
<1>4. \A y \in T : x <= y
  BY <1>3
<1> QED BY <1>4

\* A bounded nonempty set of naturals has a greatest element.
LEMMA NatMax ==
  ASSUME NEW n \in Nat, NEW T \in SUBSET (0 .. n), T # {}
  PROVE  \E x \in T : \A y \in T : y <= x
<1> DEFINE U == {k \in Nat : n - k \in T}
<1>1. U # {}
  <2>1. PICK x \in T : TRUE
    OBVIOUS
  <2>2. n - (n - x) = x /\ n - x \in Nat
    BY <2>1
  <2> QED BY <2>2
<1>2. PICK k \in U : \A j \in U : k <= j
  BY <1>1, NatMin
<1>3. \A y \in T : n - y \in U 
  <2> TAKE y \in T
  <2>2. n - (n - y) = y /\ n - y \in Nat
    OBVIOUS
  <2> QED BY <2>2
<1> QED BY <1>2, <1>3

-----------------------------------------------------------------------------
(* Addresses, programs and block counts.                                   *)

\* The numbers among the constants.
LEMMA Sizes ==
  /\ SlotsPerBlock \in Nat /\ SlotsPerBlock >= 2
  /\ RegionBlocks \in Nat /\ RegionBlocks >= 1
  /\ SectorBlocks \in Nat /\ SectorBlocks >= 1
  /\ Unallocated \in Nat /\ RegionBlocks < Unallocated
  /\ RegionBlocks * SlotsPerBlock \in Nat
BY RegionAssumption

\* The first words of successive blocks are SlotsPerBlock apart.
LEMMA AtNat ==
  ASSUME NEW b \in Nat
  PROVE  /\ At(b) \in Nat /\ At(b + 1) = At(b) + SlotsPerBlock /\ At(0) = 0
         /\ b <= At(b) /\ (b >= 1 => b < At(b))
BY Sizes DEF At

\* A later block lies entirely after an earlier one.
LEMMA AtOrder ==
  ASSUME NEW b \in Nat, NEW c \in Nat
  PROVE  /\ b <= c => At(b) <= At(c)
         /\ b < c => At(b) + SlotsPerBlock <= At(c)
<1>1. SlotsPerBlock \in Nat
  BY Sizes
<1>2. b <= c => At(b) <= At(c)
  BY <1>1, Monotone DEF At
<1>3. b < c => At(b + 1) <= At(c)
  BY <1>1, Monotone DEF At
<1> QED BY <1>2, <1>3, AtNat

\* The words of the region, and that it has at least two.
LEMMA AddrIs ==
  /\ Addr = 0 .. At(RegionBlocks) - 1
  /\ 0 \in Addr /\ 1 \in Addr
<1>1. At(RegionBlocks) >= 2
  BY Sizes DEF At
<1> QED BY <1>1, Sizes, AtNat DEF Addr, At

\* An update fits into the blocks that are counted for it.
LEMMA BlocksOf ==
  ASSUME NEW n \in Nat, n > 0
  PROVE  Blocks(n) \in Nat /\ Blocks(n) >= 1 /\ n <= At(Blocks(n))
<1> DEFINE S == SlotsPerBlock
           q == (n + S - 1) \div S
<1>1. S \in Nat /\ S >= 2
  BY Sizes
<1>2. q \in Nat /\ S * q <= n + S - 1 /\ n + S - 1 < S * q + S
  BY <1>1, DivBounds
<1> HIDE DEF q
<1>3. q # 0
  BY <1>1, <1>2
<1>4. q * S = S * q
  BY <1>1, <1>2
<1> QED BY <1>1, <1>2, <1>3, <1>4 DEF Blocks, q, At

\* Programming leaves words in the flash.
LEMMA ProgramType ==
  ASSUME mem \in [Addr -> Word], NEW v \in Word, NEW S
  PROVE  Programmed(S, v) \in [Addr -> Word]
BY FlashAssumption DEF Programmed, ProgramWord

\* So does programming that is interrupted.
LEMMA TornType ==
  ASSUME mem \in [Addr -> Word], NEW v \in Word, NEW a, NEW m \in TornPrograms(a, v)
  PROVE  m \in [Addr -> Word]
<1>1. TornWord(v) \subseteq Word
  BY FlashAssumption, Sizes DEF Word
<1> QED BY <1>1, ProgramType DEF TornPrograms

\* find_latest_slot stays in its block, whatever the flash holds.
LEMMA LatestSlotRange ==
  ASSUME NEW b \in Nat
  PROVE  find_latest_slot(b) \in At(b) .. At(b) + SlotsPerBlock - 1
<1> DEFINE used == {i \in 1 .. SlotsPerBlock - 1 : mem[b * SlotsPerBlock + i] # Unallocated}
<1>1. SlotsPerBlock \in Nat /\ SlotsPerBlock >= 2
  BY Sizes
<1>2. used \in SUBSET (0 .. SlotsPerBlock - 1) /\ SlotsPerBlock - 1 \in Nat
  BY <1>1
<1> HIDE DEF used
<1>3. used # {} => \E i \in used : \A j \in used : j <= i
  BY <1>2, NatMax
<1> USE DEF used
<1>4. used # {} => (CHOOSE i \in used : \A j \in used : j <= i) \in 1 .. SlotsPerBlock - 1
  BY <1>3
<1> QED BY <1>1, <1>4 DEF find_latest_slot, At

-----------------------------------------------------------------------------
(* Types.                                                                  *)

\* After Fail or Lose the types hold, whatever they left in the flash.
LEMMA DeadTypes ==
  ASSUME Dead, pc' \in {"idle", "off"}, mem' \in [Addr -> Word],
         good' \in Updates \cup {NoData}, torn' \in BOOLEAN, over' \in BOOLEAN
  PROVE  TypeInv'
<1>1. TypeOK'
  BY Sizes DEF Dead, TypeOK, RF_FATAL, Locs, Word, At
<1> QED BY <1>1 DEF Dead, TypeInv, Erasing, Requested, RF_FATAL, RF_ONLY_METADATA

\* The types hold initially.
LEMMA InitTypes == Init => TypeInv
<1> SUFFICES ASSUME Init PROVE TypeInv
  OBVIOUS
<1>1. mem \in [Addr -> Word]
  BY Sizes DEF Init, Word
<1>2. torn \in BOOLEAN /\ over \in BOOLEAN
  BY DEF Init
<1>3. TypeOK
  BY <1>1, <1>2, Sizes DEF Init, TypeOK, RF_FATAL, Locs, Word
<1> QED BY <1>3 DEF Init, TypeInv, Erasing, Requested, RF_FATAL, RF_ONLY_METADATA

\* region_file_init keeps the types.
LEMMA InitStepTypes == ASSUME TypeInv, InitStep PROVE TypeInv'
<1> USE Sizes DEF TypeInv, unchangedHistory, RF_FATAL, RF_ONLY_METADATA, RF_EMPTY,
                 RF_NEED_TO_EMPTY
<1>1. CASE InitReadFails
  BY <1>1, DeadTypes DEF InitReadFails, Fail, TypeOK
<1>2. CASE InitFirstBlock
  <2>1. TypeOK'
    BY <1>2 DEF InitFirstBlock, TypeOK, Locs, Word
  <2> QED BY <1>2, <2>1 DEF InitFirstBlock, TypeOK, Erasing, Requested
<1>3. CASE FindLatestMb
  <2>1. TypeOK'
    BY <1>3 DEF FindLatestMb, TypeOK, Locs, Word
  <2> QED BY <1>3, <2>1 DEF FindLatestMb, TypeOK, Erasing, Requested
<1>4. CASE InitFillBoundaries
  <2> DEFINE s == find_latest_slot(lo)
  <2>5. At(md) \in Nat /\ At(RegionBlocks) \in Nat /\ At(RegionBlocks) = RegionBlocks * SlotsPerBlock
    BY AtNat DEF TypeOK, At
  <2>1. s \in Nat /\ s < At(md) /\ At(md) <= At(RegionBlocks)
    <3>1. lo \in Nat /\ md \in Nat /\ lo < md /\ md <= RegionBlocks
      BY <1>4 DEF InitFillBoundaries, TypeOK, Requested
    <3>2. At(lo) \in Nat /\ At(md) \in Nat /\ At(lo) + SlotsPerBlock <= At(md)
          /\ At(md) <= At(RegionBlocks)
      BY <3>1, AtNat, AtOrder
    <3> QED BY <3>1, <3>2, LatestSlotRange
  <2> HIDE DEF s
  <2>2. s \in Addr /\ (s # 0 => s - 1 \in Addr)
    BY <2>1, <2>5, AddrIs
  <2>3. begin' \in Word /\ end' \in Word
    BY <1>4, <2>2 DEF InitFillBoundaries, TypeOK, Word, s
  <2>4. slot' \in {s, RF_NEED_TO_EMPTY}
        /\ (slot' >= 0 => slot' < At(md) /\ end' <= RegionBlocks)
    <3>1. slot' = CheckedSlot(s) /\ end' = IF s = 0 THEN md ELSE mem[s]
      BY <1>4 DEF InitFillBoundaries, s
    <3>2. mem[s] \in Nat /\ md \in Nat /\ md <= RegionBlocks
      BY <2>2 DEF TypeOK, Word
    <3>3. slot' = s => end' <= RegionBlocks
      BY <3>1, <3>2, <2>1 DEF CheckedSlot
    <3> QED BY <3>1, <3>3, <2>1 DEF CheckedSlot
  <2>6. TypeOK'
    BY <1>4, <2>1, <2>3, <2>4, <2>5 DEF InitFillBoundaries, TypeOK, Locs
  <2> QED BY <1>4, <2>6, <2>4 DEF InitFillBoundaries, TypeOK, Erasing, Requested
<1> QED BY <1>1, <1>2, <1>3, <1>4 DEF InitStep

\* A request is an update that some caller makes.
LEMMA RequestSize ==
  ASSUME NEW u \in Updates
  PROVE  /\ u.value \in Word /\ u.size \in Nat /\ u.size > 0
         /\ Blocks(u.size) \in Nat /\ Blocks(u.size) >= 1
<1>1. u.value \in Word /\ u.size \in Nat /\ u.size > 0
  BY RegionAssumption
<1> QED BY <1>1, BlocksOf

\* The words of a slot that may be programmed, and of a block, are words of the
\* region.
LEMMA SlotAddr ==
  ASSUME NEW n \in Nat, NEW m \in 0 .. RegionBlocks, n < At(m)
  PROVE  n \in Addr /\ At(m) \in Nat
<1>1. m \in Nat /\ m <= RegionBlocks
  BY Sizes
<1>2. At(m) \in Nat /\ At(RegionBlocks) \in Nat /\ At(m) <= At(RegionBlocks)
  BY <1>1, Sizes, AtNat, AtOrder
<1> QED BY <1>2, AddrIs

\* region_file_update_data keeps the types.
LEMMA UpdateStepTypes == ASSUME TypeInv, UpdateStep PROVE TypeInv'
<1> USE Sizes DEF TypeInv, RF_FATAL, RF_ONLY_METADATA, RF_EMPTY, RF_NEED_TO_EMPTY
<1> DEFINE d == Blocks(req.size)
<1>0. pc \in {"loop", "erase", "data"} => req \in Updates /\ d \in Nat /\ d >= 1
  BY RequestSize DEF Requested
<1> HIDE DEF d
<1>1. CASE HandleFatal
  BY <1>1, DeadTypes DEF HandleFatal, Fail, TypeOK
<1>2. CASE HandleEmptyTooBig
  BY <1>2, DeadTypes DEF HandleEmptyTooBig, Fail, TypeOK
<1>3. CASE HandleEmpty
  <2> DEFINE n == MetadataBlocks(d)
  <2>1. n \in 1 .. RegionBlocks - d /\ d \in Nat /\ d >= 1
    BY <1>0, <1>3, MetadataFits DEF HandleEmpty, d
  <2>2. n \in Word
    BY <2>1 DEF Word
  <2> HIDE DEF n
  <2>3. over' \in BOOLEAN /\ torn' \in BOOLEAN /\ good' \in Updates \cup {NoData}
    BY <1>3 DEF HandleEmpty, TypeOK
  <2>4. CASE mem' \in TornPrograms(0, n) /\ (Fail \/ Lose)
    <3>1. mem' \in [Addr -> Word]
      BY <2>4, <2>2, TornType DEF TypeOK
    <3> QED BY <2>4, <3>1, <2>3, DeadTypes DEF Fail, Lose
  <2>5. CASE /\ mem' = Programmed({0}, n)
             /\ slot' = RF_ONLY_METADATA
             /\ md' = n /\ begin' = n /\ end' = n
             /\ UNCHANGED <<pc, lo, hi, erased, req, erases>>
    <3>1. mem' \in [Addr -> Word]
      BY <2>5, <2>2, ProgramType DEF TypeOK
    <3>2. TypeOK'
      BY <2>1, <2>2, <2>3, <2>5, <3>1 DEF TypeOK
    <3>3. 0 < At(n) /\ n <= RegionBlocks
      BY <2>1, AtNat
    <3> QED BY <1>3, <2>5, <3>2, <3>3 DEF HandleEmpty, TypeOK, Erasing, Requested, At
  <2> QED BY <1>3, <2>4, <2>5 DEF HandleEmpty, d, n
<1>4. CASE HandleNeedToEmpty
  <2>1. TypeOK'
    BY <1>4 DEF HandleNeedToEmpty, TypeOK, Locs
  <2>2. \E k \in Nat : RegionBlocks - 0 = k * SectorBlocks
    BY RegionAssumption
  <2>3. Erasing'
    <3>1. At(0) = 0 /\ \A a \in Addr : ~(a < 0)
      BY AtNat, AddrIs
    <3> QED BY <1>4, <2>2, <3>1 DEF HandleNeedToEmpty, Erasing, At
  <2> QED BY <1>4, <2>1, <2>3 DEF HandleNeedToEmpty, Requested
<1>5. CASE EraseSector
  <2>1. PICK k \in Nat : RegionBlocks - erased = k * SectorBlocks
    BY <1>5 DEF EraseSector, Erasing
  <2>2. erased \in Nat /\ erased < RegionBlocks /\ k >= 1
    BY <1>5, <2>1 DEF EraseSector, Erasing, TypeOK
  <2>3. /\ erased + SectorBlocks <= RegionBlocks
        /\ RegionBlocks - (erased + SectorBlocks) = (k - 1) * SectorBlocks
    BY <2>1, <2>2
  <2>4. mem' \in [Addr -> Word]
    BY <1>5 DEF EraseSector, TypeOK, Word
  <2>5. good' \in Updates \cup {NoData} /\ torn' \in BOOLEAN /\ over' \in BOOLEAN
    BY <1>5 DEF EraseSector, TypeOK
  <2>6. TypeOK'
    BY <1>5, <2>2, <2>3, <2>4, <2>5 DEF EraseSector, TypeOK, Locs
  <2>7. Requested'
    BY <1>5 DEF EraseSector, Requested, TypeOK, Erasing
  <2>8. Erasing'
    <3>1. CASE erased + SectorBlocks = RegionBlocks
      BY <1>5, <3>1 DEF EraseSector, Erasing
    <3>2. CASE erased + SectorBlocks # RegionBlocks
      <4>1. /\ pc' = pc /\ slot' = slot /\ erased' = erased + SectorBlocks /\ torn' = TRUE
            /\ pc = "erase" /\ slot = RF_NEED_TO_EMPTY
        BY <1>5, <3>2 DEF EraseSector, Erasing
      <4>2. erased' < RegionBlocks /\ k - 1 \in Nat /\ RegionBlocks - erased' = (k - 1) * SectorBlocks
        BY <2>2, <2>3, <3>2, <4>1
      <4>3. \A a \in Addr : a < At(erased') => mem'[a] = Unallocated
        <5>1. At(erased') = At(erased) + SectorBlocks * SlotsPerBlock
              /\ At(erased) \in Nat /\ SectorBlocks * SlotsPerBlock \in Nat
          BY <2>2, <4>1 DEF At
        <5>2. SUFFICES ASSUME NEW a \in Addr, a < At(erased')
                       PROVE  mem'[a] = Unallocated
          OBVIOUS
        <5>3. a \in Nat
          BY AddrIs
        <5>4. a < At(erased) => mem[a] = Unallocated
          BY <4>1 DEF Erasing
        <5>5. a >= At(erased) => a \in Words(erased * SlotsPerBlock, SectorBlocks * SlotsPerBlock)
          BY <5>1, <5>2, <5>3 DEF Words, At
        <5>6. mem'[a] = IF a \in Words(erased * SlotsPerBlock, SectorBlocks * SlotsPerBlock)
                        THEN Unallocated ELSE mem[a]
          BY <1>5 DEF EraseSector
        <5> QED BY <5>1, <5>3, <5>4, <5>5, <5>6
      <4> QED BY <4>1, <4>2, <4>3 DEF Erasing
    <3> QED BY <3>1, <3>2
  <2> QED BY <2>6, <2>7, <2>8
<1>6. CASE EraseCut
  BY <1>6, DeadTypes DEF EraseCut, Fail, Lose, TypeOK
<1>7. CASE HandleUpdateNoFit
  <2>1. TypeOK'
    BY <1>7 DEF HandleUpdateNoFit, TypeOK
  <2> QED BY <1>7, <2>1 DEF HandleUpdateNoFit, Erasing, Requested
<1>8. CASE CommitDataAllocation
  <2> DEFINE last == end + d
  <2>1. /\ last \in Nat /\ last < Unallocated /\ last <= RegionBlocks /\ last \in Word
        /\ slot \in Nat /\ slot + 1 < At(md) /\ end \in Nat
    BY <1>0, <1>8 DEF CommitDataAllocation, update_can_fit, TypeOK, Word, d, At
  <2> HIDE DEF last
  <2>2. over' \in BOOLEAN /\ torn' \in BOOLEAN /\ good' \in Updates \cup {NoData}
    BY <1>8 DEF CommitDataAllocation, TypeOK
  <2>3. CASE mem' \in TornPrograms(slot + 1, last) /\ (Fail \/ Lose)
    <3>1. mem' \in [Addr -> Word]
      BY <2>3, <2>1, TornType DEF TypeOK
    <3> QED BY <2>3, <3>1, <2>2, DeadTypes DEF Fail, Lose
  <2>4. CASE /\ mem' = Programmed({slot + 1}, last)
             /\ slot' = slot + 1 /\ begin' = end /\ end' = last
             /\ pc' = "data"
             /\ UNCHANGED <<md, lo, hi, erased, req, erases>>
    <3>1. mem' \in [Addr -> Word]
      BY <2>4, <2>1, ProgramType DEF TypeOK
    <3>2. At(md) \in Nat /\ At(md) <= RegionBlocks * SlotsPerBlock
      <4>1. md \in Nat /\ md <= RegionBlocks
        BY DEF TypeOK
      <4> QED BY <4>1, AtNat, AtOrder DEF At
    <3>3. TypeOK'
      BY <2>1, <2>2, <2>4, <3>1, <3>2 DEF TypeOK, Locs
    <3>4. Erasing'
      BY <1>8, <2>4 DEF CommitDataAllocation, Erasing
    <3>5. Requested'
      BY <1>0, <1>8, <2>1, <2>4 DEF CommitDataAllocation, Requested, last, d, At
    <3> QED BY <3>3, <3>4, <3>5
  <2> QED BY <1>8, <2>3, <2>4 DEF CommitDataAllocation, d, last
<1>9. CASE CommitData
  <2>1. req \in Updates /\ req.value \in Word
    BY <1>0, <1>9, RequestSize DEF CommitData
  <2>2. over' \in BOOLEAN /\ torn' \in BOOLEAN
    BY <1>9 DEF CommitData, TypeOK
  <2>3. mem' \in [Addr -> Word]
    BY <1>9, <2>1, ProgramType DEF CommitData, TypeOK
  <2>4. good' \in Updates \cup {NoData}
    BY <1>9, <2>1 DEF CommitData, TypeOK
  <2>5. CASE Fail \/ Lose
    BY <2>2, <2>3, <2>4, <2>5, DeadTypes DEF Fail, Lose
  <2>6. CASE /\ req' = NoData /\ erases' = 0 /\ pc' = "idle"
             /\ UNCHANGED <<slot, begin, end, md, lo, hi, erased>>
    <3>1. TypeOK'
      BY <2>2, <2>3, <2>4, <2>6 DEF TypeOK, Locs
    <3> QED BY <1>9, <2>6, <3>1 DEF CommitData, Erasing, Requested, At
  <2> QED BY <1>9, <2>5, <2>6 DEF CommitData
<1> QED BY <1>1, <1>2, <1>3, <1>4, <1>5, <1>6, <1>7, <1>8, <1>9 DEF UpdateStep

\* Every step keeps the types.
LEMMA TypeStep == ASSUME TypeInv, [Next]_vars PROVE TypeInv'
<1>1. CASE InitStep
  BY <1>1, InitStepTypes
<1>2. CASE \E u \in Updates : Call(u)
  <2>1. TypeOK'
    BY <1>2 DEF Call, TypeInv, TypeOK, Locs
  <2> QED BY <1>2, <2>1 DEF Call, TypeInv, Erasing, Requested, At
<1>3. CASE UpdateStep
  BY <1>3, UpdateStepTypes
<1>4. CASE Reset
  BY <1>4, DeadTypes DEF Reset, Lose, TypeInv, TypeOK
<1>5. CASE UNCHANGED vars
  BY <1>5 DEF vars, TypeInv, TypeOK, Erasing, Requested, At
<1> QED BY <1>1, <1>2, <1>3, <1>4, <1>5 DEF Next

\* TLC checks TypeOK for one small region; it holds for every region.
THEOREM TypeCorrect == Spec => []TypeOK
<1>1. TypeInv /\ [Next]_vars => TypeInv'
  BY TypeStep
<1>2. TypeInv => TypeOK
  BY DEF TypeInv
<1> QED BY <1>1, <1>2, InitTypes, PTL DEF Spec

-----------------------------------------------------------------------------
(* One erase per update.                                                   *)

\* After an erase the update finds the file empty or, once the metadata has
\* been allocated, room for itself.
EraseInv ==
  /\ erases \in {0, 1}
  /\ pc \in {"off", "search", "idle"} => erases = 0
  /\ pc = "loop" /\ erases = 1 =>
       \/ slot = RF_EMPTY
       \/ slot = RF_ONLY_METADATA /\ 1 < At(md) /\ Blocks(req.size) + end <= RegionBlocks

\* Every step keeps the invariant about erases.
LEMMA EraseStep == ASSUME TypeInv, EraseInv, [Next]_vars PROVE EraseInv'
<1> USE Sizes DEF EraseInv, RF_FATAL, RF_ONLY_METADATA, RF_EMPTY, RF_NEED_TO_EMPTY
<1>1. CASE Dead /\ pc' \in {"idle", "off"}
  BY <1>1 DEF Dead
<1>2. CASE InitFirstBlock \/ FindLatestMb \/ InitFillBoundaries
  BY <1>2 DEF InitFirstBlock, FindLatestMb, InitFillBoundaries, unchangedHistory
<1>3. CASE \E u \in Updates : Call(u)
  BY <1>3 DEF Call
<1>4. CASE HandleEmpty
  <2> DEFINE d == Blocks(req.size)
             n == MetadataBlocks(d)
  <2>1. d \in Nat /\ d >= 1 /\ n \in 1 .. RegionBlocks - d
    <3>1. d \in Nat /\ d >= 1
      BY <1>4, RequestSize DEF HandleEmpty, TypeInv, Requested
    <3> QED BY <1>4, <3>1, MetadataFits DEF HandleEmpty
  <2> HIDE DEF d, n
  <2>2. 1 < At(n) /\ d + n <= RegionBlocks
    <3>1. n \in Nat /\ n >= 1
      BY <2>1
    <3> QED BY <2>1, <3>1, AtNat
  <2>3. CASE slot' = RF_ONLY_METADATA /\ md' = n /\ end' = n /\ UNCHANGED <<pc, req, erases>>
    BY <1>4, <2>2, <2>3 DEF HandleEmpty, d, At
  <2> QED BY <1>1, <1>4, <2>3 DEF HandleEmpty, Fail, Lose, d, n
<1>5. CASE HandleNeedToEmpty
  BY <1>5 DEF HandleNeedToEmpty
<1>6. CASE EraseSector
  BY <1>6 DEF EraseSector
<1>7. CASE HandleUpdateNoFit
  <2>1. erases = 0
    <3> SUFFICES ASSUME erases = 1 PROVE FALSE
      OBVIOUS
    <3>1. slot = 0 /\ 1 < At(md) /\ Blocks(req.size) + end <= RegionBlocks
      BY <1>7 DEF HandleUpdateNoFit
    <3>2. Blocks(req.size) + end \in Nat
      BY <1>7, RequestSize DEF HandleUpdateNoFit, TypeInv, Requested, TypeOK, Word
    <3> QED BY <1>7, <3>1, <3>2 DEF HandleUpdateNoFit, update_can_fit, At
  <2> QED BY <1>7, <2>1 DEF HandleUpdateNoFit
<1>8. CASE CommitDataAllocation
  BY <1>1, <1>8 DEF CommitDataAllocation, Fail, Lose
<1>9. CASE CommitData
  BY <1>1, <1>9 DEF CommitData, Fail, Lose
<1>10. CASE UNCHANGED vars
  BY <1>10 DEF vars, At
<1>11. CASE InitReadFails \/ HandleFatal \/ HandleEmptyTooBig \/ EraseCut \/ Reset
  BY <1>1, <1>11 DEF InitReadFails, HandleFatal, HandleEmptyTooBig, EraseCut, Reset, Fail, Lose
<1> QED
  BY <1>2, <1>3, <1>4, <1>5, <1>6, <1>7, <1>8, <1>9, <1>10, <1>11
  DEF Next, InitStep, UpdateStep

\* A call of region_file_update_data erases the region at most once, whatever
\* the sizes of the updates and of the region: allocate_metadata always leaves
\* room for the update that made it erase.
THEOREM ErasesOnce == Spec => []OneErasePerUpdate
<1>1. Init => TypeInv /\ EraseInv
  BY InitTypes DEF Init, EraseInv
<1>2. TypeInv /\ EraseInv /\ [Next]_vars => TypeInv' /\ EraseInv'
  BY TypeStep, EraseStep
<1>3. EraseInv => OneErasePerUpdate
  BY DEF EraseInv, OneErasePerUpdate
<1> QED BY <1>1, <1>2, <1>3, PTL DEF Spec

-----------------------------------------------------------------------------
(* No word is programmed twice.                                            *)

\* What a word of the region can hold.
LEMMA MemNat ==
  ASSUME TypeOK
  PROVE  \A a \in Addr : mem[a] \in Nat /\ mem[a] <= Unallocated
BY Sizes DEF TypeOK, Word

\* Facts about the first n words when they are the metadata.
LEMMA UsedFacts ==
  ASSUME TypeOK, NEW n \in Nat, Used(n)
  PROVE  /\ n >= 1 /\ At(mem[0]) \in Nat /\ n <= At(mem[0])
         /\ mem[0] \in Nat /\ mem[0] >= 1 /\ mem[0] <= RegionBlocks
         /\ \A j \in 0 .. At(mem[0]) - 1 : j \in Addr
         /\ \A j \in 0 .. n - 1 : mem[j] \in Nat /\ mem[0] <= mem[j] /\ mem[j] <= mem[n - 1]
<1>1. mem[0] \in Nat /\ mem[0] >= 1 /\ mem[0] <= RegionBlocks
  BY Sizes DEF Used
<1>2. At(mem[0]) \in Nat /\ n >= 1 /\ n <= At(mem[0])
  BY <1>1, AtNat DEF Used
<1>3. \A j \in 0 .. At(mem[0]) - 1 : j \in Addr
  BY <1>1, <1>2, SlotAddr
<1>4. ASSUME NEW j \in 0 .. n - 1
      PROVE  mem[j] \in Nat /\ mem[0] <= mem[j] /\ mem[j] <= mem[n - 1]
  <2>1. j \in Addr /\ n - 1 \in Addr /\ 0 \in 0 .. n - 1 /\ n - 1 \in 0 .. n - 1
    BY <1>2, <1>3
  <2>2. mem[j] \in Nat /\ mem[n - 1] \in Nat
    BY <2>1, MemNat
  <2>3. (0 < j => mem[0] < mem[j]) /\ (j < n - 1 => mem[j] < mem[n - 1])
    BY <2>1 DEF Used
  <2> QED BY <2>2, <2>3, <1>1, <1>2
<1> QED BY <1>1, <1>2, <1>3, <1>4

\* Writing between the metadata and the end of the data keeps the metadata.
LEMMA UsedFrame ==
  ASSUME TypeOK, TypeOK', NEW n \in Nat, Used(n),
         \A a \in Addr : a < At(mem[0]) => mem'[a] = mem[a],
         \A a \in Addr : a >= At(mem[n - 1]) => mem'[a] = mem[a]
  PROVE  Used(n)'
<1>1. \A j \in 0 .. At(mem[0]) - 1 : mem'[j] = mem[j]
  BY UsedFacts, AtNat
<1>2. mem'[0] = mem[0] /\ mem'[n - 1] = mem[n - 1]
  BY <1>1, UsedFacts
<1> QED BY <1>1, <1>2, UsedFacts DEF Used, At

\* The state of an unopened file depends on the flash only.
LEMMA DeadSound ==
  ASSUME Dead, pc' \in {"idle", "off"}, ~over', Layout'
  PROVE  Sound'
BY DEF Dead, Sound, Opened, RF_FATAL, RF_EMPTY, RF_ONLY_METADATA

\* The layout depends on the flash only.
LEMMA SameLayout == ASSUME Layout, mem' = mem PROVE Layout'
BY DEF Layout, Blank, Broken, Used, At

\* A block of the metadata is erased exactly when it lies past the last slot.
LEMMA BlockErased ==
  ASSUME TypeOK, NEW n \in Nat, Used(n), NEW b \in Nat, b < mem[0]
  PROVE  all_block_offsets_unallocated(b) <=> n <= At(b)
<1>1. /\ mem[0] \in Nat /\ At(mem[0]) \in Nat /\ n >= 1 /\ At(b) \in Nat
      /\ At(b) + SlotsPerBlock <= At(mem[0]) /\ SlotsPerBlock \in Nat /\ SlotsPerBlock >= 2
  BY UsedFacts, AtNat, AtOrder, Sizes
<1>2. BlockWords(b) = At(b) .. At(b) + SlotsPerBlock - 1
  BY DEF BlockWords, Words, At
<1>3. ASSUME n <= At(b) PROVE IsErased(BlockWords(b))
  <2> SUFFICES ASSUME NEW a \in At(b) .. At(b) + SlotsPerBlock - 1
               PROVE  mem[a] = Unallocated
    BY <1>2 DEF IsErased
  <2>1. a \in n .. At(mem[0]) - 1
    BY <1>1, <1>3
  <2> QED BY <2>1 DEF Used
<1>4. ASSUME ~(n <= At(b)) PROVE ~IsErased(BlockWords(b))
  <2>1. At(b) \in 0 .. n - 1 /\ At(b) \in BlockWords(b)
    BY <1>1, <1>2, <1>4
  <2>2. mem[At(b)] # Unallocated
    BY <2>1 DEF Used
  <2> QED BY <2>1, <2>2 DEF IsErased
<1> QED BY <1>3, <1>4 DEF all_block_offsets_unallocated

\* find_latest_slot finds the last of the n slots in the block that holds it.
LEMMA LatestSlotIs ==
  ASSUME TypeOK, NEW n \in Nat, Used(n), NEW b \in Nat, b < mem[0],
         At(b) < n, n <= At(b + 1)
  PROVE  find_latest_slot(b) = n - 1
<1> DEFINE S == SlotsPerBlock
           used == {i \in 1 .. S - 1 : mem[b * S + i] # Unallocated}
           top == n - 1 - At(b)
<1>1. /\ S \in Nat /\ S >= 2 /\ mem[0] \in Nat /\ At(mem[0]) \in Nat /\ At(b) \in Nat
      /\ At(b) + S <= At(mem[0]) /\ At(b + 1) = At(b) + S /\ At(b) = b * S
  BY UsedFacts, AtNat, AtOrder, Sizes DEF At
<1>2. top \in 0 .. S - 1 /\ At(b) + top = n - 1
  BY <1>1
<1>3. \A i \in 1 .. S - 1 : i \in used <=> i <= top
  <2> SUFFICES ASSUME NEW i \in 1 .. S - 1
               PROVE  mem[At(b) + i] # Unallocated <=> i <= top
    BY <1>1
  <2>1. i <= top => At(b) + i \in 0 .. n - 1
    BY <1>1, <1>2
  <2>2. ~(i <= top) => At(b) + i \in n .. At(mem[0]) - 1
    BY <1>1, <1>2
  <2> QED BY <2>1, <2>2 DEF Used
<1>4. used \subseteq 1 .. S - 1
  OBVIOUS
<1>5. find_latest_slot(b) =
        IF used = {} THEN At(b) ELSE At(b) + CHOOSE i \in used : \A j \in used : j <= i
  BY <1>1 DEF find_latest_slot
<1> HIDE DEF used
<1>6. CASE top = 0
  <2>1. used = {}
    BY <1>3, <1>4, <1>6
  <2> QED BY <1>1, <1>2, <1>5, <1>6, <2>1
<1>7. CASE top # 0
  <2>1. top \in 1 .. S - 1
    BY <1>1, <1>2, <1>7
  <2>2. top \in used /\ \A j \in used : j <= top
    BY <1>2, <1>3, <1>4, <2>1
  <2> DEFINE m == CHOOSE i \in used : \A j \in used : j <= i
  <2>3. m \in used /\ \A j \in used : j <= m
    BY <2>2
  <2> HIDE DEF m
  <2>4. m = top
    <3>1. m \in Int /\ top \in Int /\ m <= top /\ top <= m
      BY <1>1, <1>4, <2>1, <2>2, <2>3
    <3> QED BY <3>1
  <2> QED BY <1>1, <1>2, <1>5, <2>2, <2>4 DEF m
<1> QED BY <1>6, <1>7

\* region_file_init opens the file as the flash describes it.
LEMMA InitStepSound ==
  ASSUME TypeInv, TypeInv', Sound, InitStep
  PROVE  Sound'
<1> USE DEF TypeInv, RF_FATAL, RF_ONLY_METADATA, RF_EMPTY, RF_NEED_TO_EMPTY
<1>1. CASE InitReadFails
  BY <1>1, DeadSound, SameLayout DEF InitReadFails, Fail, Sound
<1>2. CASE InitFirstBlock
  <2>1. Layout' /\ ~over' /\ mem' = mem
    BY <1>2, SameLayout DEF InitFirstBlock, unchangedHistory, Sound
  <2>2. mem[0] \in Nat
    BY AddrIs, MemNat
  <2>3. CASE mem[0] = Unallocated
    <3>1. Blank
      BY <2>2, <2>3, Sizes DEF Sound, Layout, Broken, Used
    <3> QED BY <1>2, <2>1, <2>3, <3>1, Sizes DEF InitFirstBlock, Sound, Opened, Blank
  <2>4. CASE mem[0] # Unallocated /\ (mem[0] = 0 \/ mem[0] > RegionBlocks)
    BY <1>2, <2>1, <2>2, <2>4, Sizes DEF InitFirstBlock, Sound, Opened
  <2>5. CASE mem[0] \in 1 .. RegionBlocks
    <3>1. PICK n \in Nat : Used(n)
      BY <2>2, <2>5, Sizes, AddrIs DEF Sound, Layout, Broken, Blank
    <3>2. pc' = "search" /\ md' = mem[0] /\ lo' = 0 /\ hi' = mem[0]
      BY <1>2, <2>5, Sizes DEF InitFirstBlock
    <3>3. Used(n)' /\ At(lo') < n /\ n <= At(hi')
      BY <2>1, <3>1, <3>2, UsedFacts, AtNat DEF Used, At
    <3>4. Searching'
      BY <2>1, <2>2, <2>5, <3>2, <3>3 DEF Searching, At
    <3> QED BY <2>1, <3>2, <3>4 DEF Sound
  <2> QED BY <1>2, <2>2, <2>3, <2>4, <2>5, Sizes
<1>3. CASE FindLatestMb
  <2> DEFINE mid == (lo + hi) \div 2
  <2>1. /\ Searching /\ lo \in Nat /\ hi \in Nat /\ md \in Nat /\ lo < mid /\ mid < hi
        /\ hi <= md /\ md = mem[0] /\ mid \in Nat
    BY <1>3 DEF FindLatestMb, Sound, Searching, TypeOK
  <2>2. PICK n \in Nat : Used(n) /\ At(lo) < n /\ n <= At(hi)
    BY <2>1 DEF Searching
  <2>3. all_block_offsets_unallocated(mid) <=> n <= At(mid)
    BY <2>1, <2>2, BlockErased
  <2>4. Used(n)' /\ mem' = mem /\ md' = md /\ pc' = pc /\ pc = "search"
    BY <1>3, <2>2 DEF FindLatestMb, Used, At
  <2>5. At(mid) \in Nat
    BY <2>1, AtNat
  <2>6. lo' < hi' /\ hi' <= md /\ At(lo') < n /\ n <= At(hi')
    BY <1>3, <2>1, <2>2, <2>3, <2>5 DEF FindLatestMb
  <2>7. Searching'
    BY <2>1, <2>4, <2>6 DEF Searching, TypeOK, At
  <2> QED BY <1>3, <2>4, <2>7, SameLayout DEF FindLatestMb, unchangedHistory, Sound
<1>4. CASE InitFillBoundaries
  <2>1. /\ Searching /\ lo \in Nat /\ hi = lo + 1 /\ md \in Nat /\ lo < md
        /\ md = mem[0]
    BY <1>4 DEF InitFillBoundaries, Sound, Searching, TypeOK
  <2>2. PICK n \in Nat : Used(n) /\ At(lo) < n /\ n <= At(lo + 1)
    BY <2>1 DEF Searching
  <2>3. find_latest_slot(lo) = n - 1
    BY <2>1, <2>2, LatestSlotIs
  <2>4. Used(n)' /\ mem' = mem /\ md' = md /\ pc' = "idle"
    BY <1>4, <2>2 DEF InitFillBoundaries, Used, At
  <2>5. slot' = CheckedSlot(n - 1) /\ end' = mem[n - 1]
        /\ (n - 1 # 0 => begin' = mem[n - 2])
    <3>1. n >= 1
      BY <2>2, UsedFacts
    <3> QED BY <1>4, <2>1, <2>3, <3>1 DEF InitFillBoundaries
  <2>6. slot' >= 0 => slot' = n - 1 /\ end' <= RegionBlocks
    <3>1. slot' \in {n - 1, -2}
      BY <2>5 DEF CheckedSlot
    <3>2. slot' >= 0 => end' <= RegionBlocks
      BY <2>4 DEF Requested
    <3> QED BY <3>1, <3>2
  <2>7. slot' # RF_EMPTY
    BY <2>2, <2>5, UsedFacts DEF CheckedSlot
  <2>8. Opened'
    BY <2>1, <2>2, <2>4, <2>5, <2>6, <2>7, UsedFacts DEF Opened
  <2> QED BY <1>4, <2>4, <2>8, SameLayout DEF InitFillBoundaries, unchangedHistory, Sound
<1> QED BY <1>1, <1>2, <1>3, <1>4 DEF InitStep

\* Programming an erased word stores the value.
LEMMA ProgramErased ==
  ASSUME TypeOK, NEW a \in Addr, mem[a] = Unallocated, NEW v \in Word
  PROVE  Programmed({a}, v) = [mem EXCEPT ![a] = v]
BY DEF Programmed, ProgramWord, TypeOK

\* What an interrupted program of an erased word leaves.
LEMMA TornErased ==
  ASSUME TypeOK, NEW a \in Addr, mem[a] = Unallocated, NEW v \in Word,
         NEW m \in TornPrograms(a, v)
  PROVE  \E w \in v .. Unallocated : m = [mem EXCEPT ![a] = w]
<1>1. PICK w \in TornWord(v) : m = Programmed({a}, w)
  BY DEF TornPrograms
<1>2. w \in v .. Unallocated /\ w \in Word
  BY <1>1, FlashAssumption, Sizes DEF Word
<1> QED BY <1>1, <1>2, ProgramErased

\* The first word of a blank region becomes w.
LEMMA FirstWord ==
  ASSUME TypeOK, Blank, NEW w \in 1 .. Unallocated, mem' = [mem EXCEPT ![0] = w]
  PROVE  /\ Layout'
         /\ w \in 1 .. RegionBlocks => Used(1)'
<1>1. 0 \in Addr /\ mem'[0] = w /\ \A a \in Addr : a # 0 => mem'[a] = Unallocated
  BY AddrIs DEF Blank, TypeOK
<1>2. ASSUME w \in 1 .. RegionBlocks PROVE Used(1)'
  <2>1. w \in Nat /\ w >= 1 /\ w # Unallocated /\ At(w) \in Nat /\ At(w) > 1
    BY <1>2, Sizes, AtNat
  <2>2. \A j \in 1 .. At(w) - 1 : j \in Addr
    BY <1>2, <2>1, SlotAddr
  <2>3. 1 \in 1 .. At(w)
    BY <2>1
  <2>4. \A j, k \in 0 .. 1 - 1 : ~(j < k)
    OBVIOUS
  <2>5. \A j \in 0 .. 1 - 1 : j = 0
    OBVIOUS
  <2>6. 1 - 1 = 0
    OBVIOUS
  <2>7. \A a \in Addr : a >= At(w) => mem'[a] = Unallocated
    BY <1>1, <2>1
  <2>8. \A j \in 1 .. At(w) - 1 : mem'[j] = Unallocated
    BY <1>1, <2>2
  <2> QED BY <1>1, <1>2, <2>1, <2>3, <2>4, <2>5, <2>6, <2>7, <2>8 DEF Used, At
<1>3. CASE w = Unallocated
  <2>1. Blank'
    BY <1>1, <1>3 DEF Blank
  <2> QED BY <1>2, <2>1 DEF Layout
<1>4. CASE w # Unallocated /\ w > RegionBlocks
  <2>1. Broken'
    BY <1>1, <1>4 DEF Broken
  <2> QED BY <1>2, <2>1 DEF Layout
<1>5. CASE w \in 1 .. RegionBlocks
  BY <1>2, <1>5 DEF Layout
<1> QED BY <1>3, <1>4, <1>5, Sizes

\* The next slot becomes w, an offset past the end of the data.
LEMMA NextSlot ==
  ASSUME TypeOK, NEW n \in Nat, Used(n), n < At(mem[0]), mem[n - 1] <= RegionBlocks,
         NEW w \in Nat, mem[n - 1] < w, w < Unallocated, mem' = [mem EXCEPT ![n] = w]
  PROVE  /\ Used(n + 1)'
         /\ mem'[n] = w /\ mem'[n - 1] = mem[n - 1] /\ mem'[0] = mem[0]
         /\ \A a \in Addr : a >= At(mem[n - 1]) => mem'[a] = Unallocated
<1>1. /\ n >= 1 /\ At(mem[0]) \in Nat /\ mem[0] \in Nat /\ mem[0] \in 1 .. RegionBlocks
      /\ \A j \in 0 .. At(mem[0]) - 1 : j \in Addr
      /\ \A j \in 0 .. n - 1 : mem[j] \in Nat /\ mem[0] <= mem[j] /\ mem[j] <= mem[n - 1]
  BY UsedFacts, Sizes
<1>2. n \in Addr /\ \A j \in Addr : mem'[j] = IF j = n THEN w ELSE mem[j]
  BY <1>1 DEF TypeOK
<1>3. n - 1 \in Addr /\ 0 \in Addr
  BY <1>1
<1>4. mem'[n] = w /\ mem'[n - 1] = mem[n - 1] /\ mem'[0] = mem[0]
  BY <1>1, <1>2, <1>3
<1>5. mem[n - 1] \in Nat /\ mem[0] <= mem[n - 1]
  BY <1>1
<1>6. At(mem[n - 1]) \in Nat /\ At(w) \in Nat /\ n < At(mem[n - 1])
      /\ At(mem[n - 1]) <= At(w)
  <2>1. At(mem[0]) <= At(mem[n - 1]) /\ At(mem[n - 1]) <= At(w)
    BY <1>1, <1>5, AtOrder
  <2> QED BY <1>1, <1>5, <2>1, AtNat
<1>7. \A a \in Addr : a >= At(mem[n - 1]) => mem'[a] = Unallocated
  <2>1. \A a \in Addr : a >= At(mem[n - 1]) => mem[a] = Unallocated
    BY DEF Used
  <2> QED BY <1>2, <1>6, <2>1, AddrIs
<1>8. \A a \in Addr : a >= At(w) => mem'[a] = Unallocated
  BY <1>6, <1>7, AddrIs
<1>9. \A j \in 0 .. (n + 1) - 1 : mem'[j] # Unallocated
  BY <1>1, <1>2 DEF Used
<1>10. \A j \in n + 1 .. At(mem[0]) - 1 : mem'[j] = Unallocated
  BY <1>1, <1>2 DEF Used
<1>11. \A j, k \in 0 .. (n + 1) - 1 : j < k => mem'[j] < mem'[k]
  <2> SUFFICES ASSUME NEW j \in 0 .. n, NEW k \in 0 .. n, j < k
               PROVE  mem'[j] < mem'[k]
    OBVIOUS
  <2>1. j \in 0 .. n - 1 /\ j \in Addr /\ k \in Addr /\ mem'[j] = mem[j]
    BY <1>1, <1>2
  <2>2. CASE k = n
    BY <1>1, <1>2, <1>5, <2>1, <2>2
  <2>3. CASE k # n
    <3>1. k \in 0 .. n - 1
      BY <2>3
    <3> QED BY <1>2, <2>1, <2>3, <3>1 DEF Used
  <2> QED BY <2>2, <2>3
<1>12. (n + 1) - 1 = n /\ n + 1 \in 1 .. At(mem[0])
  BY <1>1
<1>13. Used(n + 1)'
  BY <1>1, <1>4, <1>8, <1>9, <1>10, <1>11, <1>12 DEF Used, At
<1> QED BY <1>4, <1>7, <1>13

\* Where the data of an update goes.
LEMMA DataWords ==
  ASSUME TypeInv, Committing, pc = "data", NEW m \in Nat, m <= req.size
  PROVE  /\ \A a \in Words(begin * SlotsPerBlock, m) :
              a \in Addr /\ At(begin) <= a /\ a < At(end)
         /\ At(mem[0]) <= At(begin) /\ At(begin) \in Nat /\ At(end) \in Nat
         /\ IsErased(Words(begin * SlotsPerBlock, m))
<1> DEFINE d == Blocks(req.size)
<1>1. req.size \in Nat /\ d \in Nat /\ d >= 1 /\ req.size <= At(d)
  BY RequestSize, BlocksOf DEF TypeInv, Requested
<1> HIDE DEF d
<1>2. begin \in Nat /\ end \in Nat /\ begin + d = end /\ end <= RegionBlocks
  BY DEF Committing, TypeInv, TypeOK, Word, d
<1>3. At(begin) \in Nat /\ At(d) \in Nat /\ At(end) = At(begin) + At(d)
      /\ SlotsPerBlock \in Nat
  BY <1>1, <1>2, AtNat, Sizes DEF At
<1>4. At(end) <= At(RegionBlocks) /\ At(RegionBlocks) \in Nat
  BY <1>2, AtOrder, AtNat, Sizes
<1>5. \A a \in Words(begin * SlotsPerBlock, m) : a \in Addr /\ At(begin) <= a /\ a < At(end)
  <2>1. Words(begin * SlotsPerBlock, m) = At(begin) .. At(begin) + m - 1
    BY DEF Words, At
  <2> QED BY <1>1, <1>3, <1>4, <2>1, AddrIs
<1>6. IsErased(Words(begin * SlotsPerBlock, m))
  BY <1>3, <1>5 DEF Committing, IsErased
<1>7. mem[0] \in Nat /\ mem[0] <= begin
  <2>1. slot + 1 \in Nat /\ slot - 1 \in 0 .. (slot + 1) - 1 /\ Used(slot + 1)
    BY DEF Committing, TypeInv, TypeOK, RF_FATAL
  <2> QED BY <2>1, UsedFacts DEF Committing, TypeInv
<1>8. At(mem[0]) <= At(begin)
  BY <1>2, <1>7, AtOrder
<1> QED BY <1>3, <1>5, <1>6, <1>8, AtNat, <1>2

\* Programming any first words of the data disturbs no metadata.
LEMMA DataProgrammed ==
  ASSUME TypeInv, TypeInv', Committing, pc = "data", NEW m \in Nat, m <= req.size,
         NEW n \in Nat, n = slot + 1,
         mem' = Programmed(Words(begin * SlotsPerBlock, m), req.value)
  PROVE  Used(n)'
<1>1. \A a \in Addr : a < At(begin) \/ a >= At(end) => mem'[a] = mem[a]
  BY DataWords, AddrIs DEF Programmed
<1>2. /\ Used(n) /\ end = mem[n - 1] /\ At(mem[0]) <= At(begin)
      /\ At(begin) \in Nat /\ At(end) \in Nat /\ At(mem[0]) \in Nat
  BY DataWords, UsedFacts DEF Committing, TypeInv, TypeOK, RF_FATAL
<1>3. \A a \in Addr : a < At(mem[0]) => mem'[a] = mem[a]
  BY <1>1, <1>2, AddrIs
<1>4. \A a \in Addr : a >= At(mem[n - 1]) => mem'[a] = mem[a]
  BY <1>1, <1>2
<1> QED BY <1>2, <1>3, <1>4, UsedFrame DEF TypeInv

\* The last erased sector leaves the region blank.
LEMMA EraseSound ==
  ASSUME TypeInv, TypeInv', ~torn => Sound, EraseSector, ~torn'
  PROVE  Sound'
<1> DEFINE n == SectorBlocks * SlotsPerBlock
<1>1. erased + SectorBlocks = RegionBlocks /\ slot' = RF_EMPTY /\ pc' = "loop" /\ over' = FALSE
  BY DEF EraseSector
<1>2. Blank'
  <2> SUFFICES ASSUME NEW a \in Addr PROVE mem'[a] = Unallocated
    BY DEF Blank
  <2>1. mem'[a] = IF a \in Words(erased * SlotsPerBlock, n) THEN Unallocated ELSE mem[a]
    BY DEF EraseSector
  <2>2. a < At(erased) => mem[a] = Unallocated
    BY DEF EraseSector, TypeInv, Erasing
  <2>3. At(erased) \in Nat /\ n \in Nat /\ At(erased) + n = At(RegionBlocks)
        /\ At(erased) = erased * SlotsPerBlock
    BY <1>1, Sizes DEF TypeInv, TypeOK, At
  <2> QED BY <2>1, <2>2, <2>3, AddrIs DEF Words
<1> QED BY <1>1, <1>2 DEF Sound, Layout, Opened, RF_EMPTY, RF_ONLY_METADATA

\* region_file_update_data programs erased words only and keeps the layout.
LEMMA UpdateStepSound ==
  ASSUME TypeInv, TypeInv', Sound, UpdateStep, ~EraseSector
  PROVE  Sound'
<1> USE DEF TypeInv, RF_FATAL, RF_ONLY_METADATA, RF_EMPTY, RF_NEED_TO_EMPTY
<1> DEFINE d == Blocks(req.size)
<1>0. pc \in {"loop", "erase", "data"} => req \in Updates /\ d \in Nat /\ d >= 1
  BY RequestSize DEF Requested
<1> HIDE DEF d
<1>1. CASE HandleFatal \/ HandleEmptyTooBig \/ EraseCut
  BY <1>1, DeadSound, SameLayout
  DEF HandleFatal, HandleEmptyTooBig, EraseCut, Fail, Lose, Sound
<1>2. CASE HandleEmpty
  <2> DEFINE n == MetadataBlocks(d)
  <2>1. n \in 1 .. RegionBlocks - d /\ d \in Nat /\ d >= 1
    BY <1>0, <1>2, MetadataFits DEF HandleEmpty, d
  <2>2. n \in Word /\ n \in Nat /\ n \in 1 .. RegionBlocks
    BY <2>1, Sizes DEF Word
  <2> HIDE DEF n
  <2>3. Blank /\ 0 \in Addr /\ mem[0] = Unallocated
    BY <1>2, AddrIs DEF HandleEmpty, Sound, Opened, Blank
  <2>4. ~over'
    BY <1>2, <2>3 DEF HandleEmpty, IsErased, Sound
  <2>5. CASE mem' \in TornPrograms(0, n) /\ (Fail \/ Lose)
    <3>1. PICK w \in n .. Unallocated : mem' = [mem EXCEPT ![0] = w]
      BY <2>2, <2>3, <2>5, TornErased
    <3>2. w \in 1 .. Unallocated
      BY <2>2
    <3> QED BY <2>3, <2>4, <2>5, <3>1, <3>2, FirstWord, DeadSound DEF Fail, Lose
  <2>6. CASE /\ mem' = Programmed({0}, n)
             /\ slot' = RF_ONLY_METADATA
             /\ md' = n /\ begin' = n /\ end' = n
             /\ UNCHANGED <<pc, lo, hi, erased, req, erases>>
    <3>1. mem' = [mem EXCEPT ![0] = n] /\ n \in 1 .. Unallocated
      BY <2>2, <2>3, <2>6, ProgramErased, Sizes
    <3>2. Layout' /\ Used(1)'
      BY <2>2, <2>3, <3>1, FirstWord
    <3>3. mem'[0] = n
      BY <2>3, <3>1 DEF TypeOK
    <3>4. Opened'
      BY <2>2, <2>6, <3>2, <3>3 DEF Opened
    <3> QED BY <1>2, <2>4, <2>6, <3>2, <3>4 DEF HandleEmpty, Sound
  <2> QED BY <1>2, <2>5, <2>6 DEF HandleEmpty, d, n
<1>3. CASE HandleNeedToEmpty
  BY <1>3, SameLayout DEF HandleNeedToEmpty, Sound
<1>4. CASE HandleUpdateNoFit
  BY <1>4, SameLayout DEF HandleUpdateNoFit, Sound, Opened
<1>5. CASE CommitDataAllocation
  <2> DEFINE last == end + d
  <2>1. PICK n \in Nat : n = slot + 1
    BY <1>5 DEF CommitDataAllocation, TypeOK
  <2>2. /\ Used(n) /\ md = mem[0] /\ end = mem[n - 1] /\ end <= RegionBlocks
        /\ n < At(mem[0]) /\ slot \in Nat
        /\ last \in Nat /\ end < last /\ last < Unallocated /\ last <= RegionBlocks
    BY <1>0, <1>5, <2>1
    DEF CommitDataAllocation, Sound, Opened, update_can_fit, TypeOK, Word, d, At
  <2>3. last \in Word
    BY <2>2, Sizes DEF Word
  <2> HIDE DEF last
  <2>4. n \in Addr /\ mem[n] = Unallocated
    <3>1. n \in n .. At(mem[0]) - 1 /\ n \in 0 .. At(mem[0]) - 1
      BY <2>2, UsedFacts
    <3> QED BY <2>2, <3>1, UsedFacts DEF Used
  <2>5. ~over'
    BY <1>5, <2>1, <2>4 DEF CommitDataAllocation, IsErased, Sound
  <2>6. CASE mem' \in TornPrograms(slot + 1, last) /\ (Fail \/ Lose)
    <3>1. PICK w \in last .. Unallocated : mem' = [mem EXCEPT ![n] = w]
      BY <2>1, <2>3, <2>4, <2>6, TornErased
    <3>2. CASE w = Unallocated
      <4>1. mem' = mem
        BY <2>4, <3>1, <3>2 DEF TypeOK
      <4> QED BY <2>5, <2>6, <4>1, SameLayout, DeadSound DEF Fail, Lose, Sound
    <3>3. CASE w # Unallocated
      <4>1. w \in Nat /\ end < w /\ w < Unallocated /\ end \in Nat
        BY <2>2, <3>3, Sizes DEF TypeOK, Word
      <4>2. Used(n + 1)'
        BY <2>2, <3>1, <4>1, NextSlot
      <4>3. Layout'
        BY <4>2 DEF Layout
      <4> QED BY <2>5, <2>6, <4>3, DeadSound DEF Fail, Lose
    <3> QED BY <3>2, <3>3
  <2>7. CASE /\ mem' = Programmed({slot + 1}, last)
             /\ slot' = slot + 1 /\ begin' = end /\ end' = last
             /\ pc' = "data"
             /\ UNCHANGED <<md, lo, hi, erased, req, erases>>
    <3>1. mem' = [mem EXCEPT ![n] = last]
      BY <2>1, <2>3, <2>4, <2>7, ProgramErased
    <3>2. /\ Used(n + 1)' /\ mem'[n] = last /\ mem'[n - 1] = end /\ mem'[0] = mem[0]
          /\ \A a \in Addr : a >= At(end) => mem'[a] = Unallocated
      BY <2>2, <3>1, NextSlot
    <3>3. begin' + Blocks(req'.size) = end'
      BY <2>7 DEF last, d
    <3>4. slot' = n /\ slot' >= 1
      BY <2>1, <2>2, <2>7
    <3>5. Used(slot + 1)'
      BY <3>2, <3>4 DEF Used, At
    <3>6. Committing'
      BY <2>2, <2>7, <3>2, <3>3, <3>4, <3>5 DEF Committing, At
    <3>7. Layout'
      BY <3>2 DEF Layout
    <3> QED BY <2>5, <2>7, <3>6, <3>7 DEF Sound
  <2> QED BY <1>5, <2>6, <2>7 DEF CommitDataAllocation, d, last
<1>6. CASE CommitData
  <2>1. pc = "data" /\ Committing /\ req \in Updates
    BY <1>0, <1>6 DEF CommitData, Sound
  <2>2. req.size \in Nat /\ req.size >= 1
    BY <2>1, RequestSize
  <2>3. PICK n \in Nat : n = slot + 1
    BY <2>1 DEF Committing, TypeOK
  <2>4. CASE /\ mem' = Programmed(Words(begin * SlotsPerBlock, req.size), req.value)
             /\ over' = (over \/ ~IsErased(Words(begin * SlotsPerBlock, req.size)))
             /\ pc' = "idle"
             /\ UNCHANGED <<slot, begin, end, md, lo, hi, erased>>
    <3>1. Used(n)' /\ IsErased(Words(begin * SlotsPerBlock, req.size))
      BY <2>1, <2>2, <2>3, <2>4, DataProgrammed, DataWords
    <3>2. ~over' /\ Layout'
      BY <2>4, <3>1 DEF Sound, Layout
    <3>3. /\ mem'[0] = mem[0] /\ mem'[slot] = mem[slot] /\ mem'[slot - 1] = mem[slot - 1]
      <4>1. /\ Used(n) /\ slot \in 0 .. At(mem[0]) - 1 /\ slot - 1 \in 0 .. At(mem[0]) - 1
            /\ 0 \in 0 .. At(mem[0]) - 1
        <5>1. Used(n) /\ slot = n - 1 /\ slot >= 1
          BY <2>1, <2>3 DEF Committing, TypeOK
        <5>2. At(mem[0]) \in Nat /\ n <= At(mem[0])
          BY <5>1, UsedFacts
        <5> QED BY <5>1, <5>2
      <4>2. \A j \in 0 .. At(mem[0]) - 1 :
              j \in Addr /\ j \notin Words(begin * SlotsPerBlock, req.size)
        BY <2>1, <2>2, <2>3, <4>1, DataWords, UsedFacts
      <4> QED BY <2>4, <4>1, <4>2 DEF Programmed
    <3>4. Opened'
      BY <2>1, <2>3, <2>4, <3>1, <3>3 DEF Opened, Committing, Used, At
    <3> QED BY <2>4, <3>2, <3>4 DEF Sound
  <2>5. ASSUME NEW m \in 0 .. req.size - 1,
               mem' = Programmed(Words(begin * SlotsPerBlock, m), req.value),
               over' = (over \/ ~IsErased(Words(begin * SlotsPerBlock, m))),
               Fail \/ Lose
        PROVE  Sound'
    <3>1. m \in Nat /\ m <= req.size
      BY <2>2
    <3>2. Used(n)' /\ IsErased(Words(begin * SlotsPerBlock, m))
      BY <2>1, <2>3, <2>5, <3>1, DataProgrammed, DataWords
    <3>3. ~over' /\ Layout'
      BY <2>5, <3>2 DEF Sound, Layout
    <3> QED BY <2>5, <3>3, DeadSound DEF Fail, Lose
  <2> QED BY <1>6, <2>4, <2>5 DEF CommitData
<1> QED BY <1>1, <1>2, <1>3, <1>4, <1>5, <1>6 DEF UpdateStep

\* Every step keeps the invariant.
LEMMA SoundStep == ASSUME Inv, [Next]_vars PROVE Inv'
<1>1. TypeInv'
  BY TypeStep DEF Inv
<1> SUFFICES ASSUME ~torn' PROVE Sound'
  BY <1>1 DEF Inv
<1>2. CASE EraseSector
  BY <1>1, <1>2, EraseSound DEF Inv
<1>3. CASE ~EraseSector
  <2>1. Sound
    <3>1. torn' = torn
      BY <1>3 DEF Next, InitStep, InitReadFails, InitFirstBlock, FindLatestMb, InitFillBoundaries,
        unchangedHistory, Call, UpdateStep, HandleFatal, HandleEmptyTooBig, HandleEmpty,
        HandleNeedToEmpty, EraseCut, HandleUpdateNoFit, CommitDataAllocation, CommitData, Reset, vars
    <3> QED BY <3>1 DEF Inv
  <2>2. CASE InitStep
    BY <1>1, <2>1, <2>2, InitStepSound DEF Inv
  <2>3. CASE \E u \in Updates : Call(u)
    <3>1. Layout' /\ Opened'
      BY <2>1, <2>3, SameLayout
      DEF Call, Sound, Opened, Used, Blank, At
    <3> QED BY <2>1, <2>3, <3>1 DEF Call, Sound
  <2>4. CASE UpdateStep
    BY <1>1, <1>3, <2>1, <2>4, UpdateStepSound DEF Inv
  <2>5. CASE Reset
    BY <2>1, <2>5, SameLayout, DeadSound DEF Reset, Lose, Sound
  <2>6. CASE UNCHANGED vars
    BY <2>1, <2>6, SameLayout DEF vars, Sound, Opened, Searching, Committing, Used, Blank, At
  <2> QED BY <2>2, <2>3, <2>4, <2>5, <2>6 DEF Next
<1> QED BY <1>2, <1>3

\* The invariant holds initially, on a blank flash.
LEMMA InitSound == Init => Inv
<1> SUFFICES ASSUME Init PROVE Inv
  OBVIOUS
<1>1. Blank /\ pc = "off" /\ ~over
  BY DEF Init, Blank
<1> QED BY <1>1, InitTypes DEF Inv, Sound, Layout

\* No flash word is programmed twice between erases, for every region geometry
\* and every sequence of updates, torn writes, failures and power losses, as
\* long as no erase is cut short.
THEOREM NeverOverprogrammed == Spec => []NoOverprogram
<1>1. Inv /\ [Next]_vars => Inv'
  BY SoundStep
<1>2. Inv => NoOverprogram
  BY DEF Inv, Sound, NoOverprogram
<1> QED BY <1>1, <1>2, InitSound, PTL DEF Spec

-----------------------------------------------------------------------------
(* The last successful update is found again.                              *)

\* The last of n slots delimits the data of the last successful update.
Latest(n) ==
  /\ n >= 2 /\ mem[n - 1] <= RegionBlocks
  /\ mem[n - 1] - mem[n - 2] = Blocks(good.size)
  /\ Holds(mem[n - 2], good)

LatestInv ==
  ~torn /\ good # NoData =>
    /\ pc # "data"
    /\ pc = "idle" => slot \notin {RF_EMPTY, RF_NEED_TO_EMPTY, RF_ONLY_METADATA}
    /\ \E n \in Nat : Used(n) /\ Latest(n)

\* The number of slots is determined by the flash.
LEMMA UsedUnique ==
  ASSUME TypeOK, NEW n \in Nat, NEW m \in Nat, Used(n), Used(m)
  PROVE  n = m
<1>1. At(mem[0]) \in Nat /\ n <= At(mem[0]) /\ m <= At(mem[0])
  BY UsedFacts
<1>2. ASSUME n < m PROVE FALSE
  <2>1. n \in 0 .. m - 1 /\ n \in n .. At(mem[0]) - 1
    BY <1>1, <1>2
  <2> QED BY <2>1 DEF Used
<1>3. ASSUME m < n PROVE FALSE
  <2>1. m \in 0 .. n - 1 /\ m \in m .. At(mem[0]) - 1
    BY <1>1, <1>3
  <2> QED BY <2>1 DEF Used
<1> QED BY <1>2, <1>3

\* Steps that leave the flash and the history as they are.
LEMMA SameLatest ==
  ASSUME TypeInv, LatestInv, mem' = mem, good' = good, torn' = torn, pc' # "data",
         pc' = "idle" => slot' = RF_FATAL \/ good = NoData
  PROVE  LatestInv'
BY DEF LatestInv, Latest, Used, Holds, At, RF_FATAL, RF_EMPTY, RF_NEED_TO_EMPTY,
       RF_ONLY_METADATA

\* commit_data programs all the words of an update, and the file points at them.
LEMMA CommittedLatest ==
  ASSUME Inv, Inv', ~torn, ~torn', pc = "data", pc' = "idle", good' = req,
         mem' = Programmed(Words(begin * SlotsPerBlock, req.size), req.value),
         UNCHANGED <<slot, begin, end, md>>
  PROVE  LatestInv'
<1> DEFINE W == Words(begin * SlotsPerBlock, req.size)
<1>1. Committing /\ Opened'
  BY DEF Inv, Sound
<1>2. slot \in Nat /\ slot >= 1 /\ req \in Updates /\ req.size \in Nat
  BY <1>1, RequestSize DEF Committing, Inv, TypeInv, TypeOK, Requested
<1>3. PICK n \in Nat : n = slot + 1
  BY <1>2
<1>4. /\ Used(n)' /\ mem'[n - 1] = end /\ mem'[n - 2] = begin /\ end <= RegionBlocks
      /\ begin + Blocks(req.size) = end /\ n >= 2
  BY <1>1, <1>2, <1>3 DEF Opened, Committing, RF_ONLY_METADATA, Used, At
<1>5. \A a \in W : a \in Addr /\ mem[a] = Unallocated
  BY <1>1, <1>2, DataWords DEF Inv, IsErased
<1>6. \A a \in W : mem'[a] = req.value
  BY <1>5 DEF Programmed, ProgramWord
<1>7. mem'[n - 1] - mem'[n - 2] = Blocks(req.size)
  BY <1>2, <1>4, RequestSize DEF Inv, TypeInv, TypeOK, Word
<1>8. Holds(mem[n - 2], good)'
  BY <1>4, <1>5, <1>6 DEF Holds
<1>9. Latest(n)'
  BY <1>4, <1>7, <1>8 DEF Latest
<1> QED
  BY <1>2, <1>4, <1>9
  DEF LatestInv, RF_EMPTY, RF_NEED_TO_EMPTY, RF_ONLY_METADATA

\* Every step keeps the last successful update in place.
LEMMA LatestStep ==
  ASSUME Inv, Inv', LatestInv, [Next]_vars
  PROVE  LatestInv'
<1> USE DEF RF_FATAL, RF_EMPTY, RF_NEED_TO_EMPTY, RF_ONLY_METADATA
<1> SUFFICES ASSUME ~torn', good' # NoData PROVE LatestInv'
  BY DEF LatestInv
<1>0. TypeInv /\ TypeOK /\ TypeInv'
  BY DEF Inv, TypeInv
<1>1. CASE EraseSector
  BY <1>1 DEF EraseSector
<1>2. CASE \/ InitReadFails \/ HandleFatal \/ HandleEmptyTooBig \/ EraseCut \/ Reset
           \/ HandleNeedToEmpty \/ HandleUpdateNoFit \/ FindLatestMb
           \/ \E u \in Updates : Call(u)
  <2>1. mem' = mem /\ good' = good /\ torn' = torn /\ pc' # "data"
        /\ (pc' = "idle" => slot' = RF_FATAL)
    BY <1>2 DEF InitReadFails, HandleFatal, HandleEmptyTooBig, EraseCut, Reset,
      HandleNeedToEmpty, HandleUpdateNoFit, FindLatestMb, Call, Fail, Lose, Dead,
      unchangedHistory
  <2> QED BY <1>0, <2>1, SameLatest
<1>3. CASE InitFirstBlock
  <2>1. mem' = mem /\ good' = good /\ torn' = torn /\ pc' # "data"
    BY <1>3 DEF InitFirstBlock, unchangedHistory
  <2>2. PICK n \in Nat : Used(n)
    BY <2>1 DEF LatestInv
  <2>3. mem[0] \in 1 .. RegionBlocks
    BY <2>2 DEF Used
  <2>4. pc' = "search"
    BY <1>3, <2>3, Sizes DEF InitFirstBlock
  <2> QED BY <1>0, <2>1, <2>4, SameLatest
<1>4. CASE InitFillBoundaries
  <2>1. mem' = mem /\ good' = good /\ torn' = torn /\ pc' = "idle" /\ pc = "search"
        /\ hi <= lo + 1
    BY <1>0, <1>4 DEF InitFillBoundaries, unchangedHistory, TypeOK
  <2>2. PICK n \in Nat : Used(n) /\ Latest(n)
    BY <2>1 DEF LatestInv
  <2>3. /\ lo \in Nat /\ md = mem[0] /\ lo < md /\ At(lo) < n /\ n <= At(lo + 1)
    <3>1. Searching
      BY <2>1 DEF Inv, Sound
    <3>2. PICK m \in Nat : Used(m) /\ At(lo) < m /\ m <= At(hi)
      BY <3>1 DEF Searching
    <3>3. m = n
      BY <1>0, <2>2, <3>2, UsedUnique
    <3>4. lo \in Nat /\ hi = lo + 1
      BY <1>0, <2>1, <3>1 DEF Searching, TypeOK
    <3> QED BY <1>0, <3>1, <3>2, <3>3, <3>4 DEF Searching, TypeOK
  <2>4. find_latest_slot(lo) = n - 1
    BY <1>0, <2>2, <2>3, LatestSlotIs
  <2>5. slot' = CheckedSlot(n - 1)
    BY <1>4, <2>4 DEF InitFillBoundaries
  <2>6. CheckedSlot(n - 1) = n - 1
    <3>1. n >= 2 /\ mem[n - 1] <= RegionBlocks /\ n <= At(md) /\ At(md) \in Nat
      BY <1>0, <2>2, <2>3, UsedFacts DEF Latest
    <3>2. mem[n - 2] < mem[n - 1] /\ mem[n - 2] \in Nat /\ mem[n - 1] \in Nat
      <4>1. n - 2 \in 0 .. n - 1 /\ n - 1 \in 0 .. n - 1 /\ n - 2 < n - 1
        BY <3>1
      <4> QED BY <1>0, <2>2, <4>1, UsedFacts DEF Used
    <3>3. (n - 1) - 1 = n - 2 /\ (n - 1) + 1 = n
      BY <3>1
    <3> QED BY <3>1, <3>2, <3>3, Sizes DEF CheckedSlot, At
  <2>7. slot' = n - 1 /\ n >= 2
    BY <2>2, <2>5, <2>6 DEF Latest
  <2>8. Used(n)' /\ Latest(n)'
    BY <2>1, <2>2 DEF Used, Latest, Holds, At
  <2> QED BY <2>1, <2>7, <2>8 DEF LatestInv
<1>5. CASE HandleEmpty
  <2>1. good' = good /\ torn' = torn /\ pc = "loop" /\ slot = RF_EMPTY
    BY <1>5 DEF HandleEmpty
  <2>2. Blank
    BY <2>1 DEF Inv, Sound, Opened
  <2>3. PICK n \in Nat : Used(n)
    BY <2>1 DEF LatestInv
  <2> QED BY <2>2, <2>3, AddrIs, Sizes DEF Blank, Used
<1>6. CASE CommitDataAllocation
  <2>1. torn' = torn /\ mem' = mem /\ good' = good
    BY <1>6 DEF CommitDataAllocation
  <2>2. CASE Fail \/ Lose
    BY <1>0, <2>1, <2>2, SameLatest DEF Fail, Lose, Dead
  <2>3. CASE mem' = Programmed({slot + 1}, end + Blocks(req.size)) /\ slot' = slot + 1
             /\ pc' = "data"
    <3>1. Committing' /\ slot' \in Nat /\ slot \in Nat
      BY <1>0, <1>6, <2>1, <2>3 DEF Inv, Sound, CommitDataAllocation, TypeOK
    <3>2. mem[slot + 1] # Unallocated
      <4>1. PICK k \in Nat : k = slot'
        BY <3>1
      <4>2. k \in 0 .. (k + 1) - 1
        OBVIOUS
      <4>3. mem'[k] # Unallocated
        BY <3>1, <4>1, <4>2 DEF Committing, Used
      <4> QED BY <2>1, <2>3, <4>1, <4>3
    <3>3. mem[slot + 1] = Unallocated
      <4>1. Used(slot + 1) /\ md = mem[0] /\ slot + 1 < At(mem[0])
        BY <1>6, <2>1 DEF Inv, Sound, Opened, CommitDataAllocation, update_can_fit, At
      <4>2. slot + 1 \in slot + 1 .. At(mem[0]) - 1
        BY <1>0, <3>1, <4>1, UsedFacts
      <4> QED BY <4>1, <4>2 DEF Used
    <3> QED BY <3>2, <3>3
  <2> QED BY <1>6, <2>2, <2>3 DEF CommitDataAllocation
<1>7. CASE CommitData
  <2>1. pc = "data" /\ torn' = torn
    BY <1>7 DEF CommitData
  <2>2. good = NoData
    BY <2>1 DEF LatestInv
  <2>3. /\ mem' = Programmed(Words(begin * SlotsPerBlock, req.size), req.value)
        /\ good' = req /\ pc' = "idle"
        /\ UNCHANGED <<slot, begin, end, md>>
    BY <1>7, <2>2 DEF CommitData
  <2> QED BY <2>1, <2>3, CommittedLatest
<1>8. CASE UNCHANGED vars
  BY <1>8 DEF vars, LatestInv, Latest, Used, Holds, At
<1> QED
  BY <1>1, <1>2, <1>3, <1>4, <1>5, <1>6, <1>7, <1>8 DEF Next, InitStep, UpdateStep

\* What the invariant says of an open file.
LEMMA LatestMeans == ASSUME Inv, LatestInv PROVE ReturnsLatest
<1> SUFFICES ASSUME pc = "idle", slot # RF_FATAL, good # NoData, ~torn
             PROVE  /\ slot > RF_ONLY_METADATA
                    /\ end - begin = Blocks(good.size)
                    /\ Holds(begin, good)
  BY DEF ReturnsLatest
<1> USE DEF RF_FATAL, RF_EMPTY, RF_NEED_TO_EMPTY, RF_ONLY_METADATA
<1>1. slot \in Nat /\ slot >= 1 /\ TypeOK
  BY DEF LatestInv, Inv, TypeInv, TypeOK
<1>2. Used(slot + 1) /\ end = mem[slot] /\ begin = mem[slot - 1]
  BY <1>1 DEF Inv, Sound, Opened
<1>3. PICK n \in Nat : Used(n) /\ Latest(n)
  BY DEF LatestInv
<1>4. n = slot + 1
  BY <1>1, <1>2, <1>3, UsedUnique
<1>5. n - 1 = slot /\ n - 2 = slot - 1
  BY <1>1, <1>4
<1> QED BY <1>1, <1>2, <1>3, <1>5 DEF Latest

\* Once region_file_update_data has returned 0, every later successful
\* region_file_init points at that update, until a later update reaches its own
\* slot or the erase, for every region geometry and every sequence of torn
\* writes, failures and power losses outside an erase.
THEOREM LatestReturned == Spec => []ReturnsLatest
<1>1. Init => Inv /\ LatestInv
  BY InitSound DEF Init, LatestInv
<1>2. Inv /\ LatestInv /\ [Next]_vars => (Inv /\ LatestInv)'
  BY SoundStep, LatestStep
<1>3. Inv /\ LatestInv => ReturnsLatest
  BY LatestMeans
<1> QED BY <1>1, <1>2, <1>3, PTL DEF Spec

-----------------------------------------------------------------------------
(* The file implements RegionStore.                                        *)

\* Updates can be told apart by what they leave in their blocks: none is a
\* prefix of another or looks like erased flash.  The callers see to that with
\* headers, as mrc_cache.c does: struct mrc_metadata begins with a signature
\* and holds the size and a checksum of the data.
Framed ==
  /\ \A u \in Updates : u.value # Unallocated
  /\ \A u, w \in Updates :
       Blocks(u.size) = Blocks(w.size) /\ u.value = w.value => u = w

\* Between two updates there is no request.
RequestInv == pc \in {"off", "search", "idle"} => req = NoData

\* When nothing is stored, the last of n slots delimits the data of no update:
\* what a failed or interrupted update has left there is not read as another.
NoGhost(n) ==
  n >= 2 /\ mem[n - 1] <= RegionBlocks =>
    \A u \in Updates : mem[n - 1] - mem[n - 2] = Blocks(u.size) => ~Holds(mem[n - 2], u)

GhostInv ==
  ~torn /\ good = NoData /\ pc # "data" => \A n \in Nat : Used(n) => NoGhost(n)

\* Requests appear with a call and disappear when it returns or is cut.
LEMMA RequestStep == ASSUME RequestInv, [Next]_vars PROVE RequestInv'
<1>1. CASE Dead
  BY <1>1 DEF RequestInv, Dead
<1>2. CASE ~Dead
  BY <1>2 DEF RequestInv, Next, InitStep, UpdateStep, InitReadFails, InitFirstBlock,
     FindLatestMb, InitFillBoundaries, Call, HandleFatal, HandleEmptyTooBig,
     HandleEmpty, HandleNeedToEmpty, EraseSector, EraseCut, HandleUpdateNoFit,
     CommitDataAllocation, CommitData, Reset, Fail, Lose, unchangedHistory, vars
<1> QED BY <1>1, <1>2

\* Erased words are the data of no update.
LEMMA ErasedHoldsNothing ==
  ASSUME Framed, TypeOK, NEW b \in Nat, NEW u \in Updates,
         \A a \in Addr : a >= At(b) => mem[a] = Unallocated
  PROVE  ~Holds(b, u)
<1> SUFFICES ASSUME Holds(b, u) PROVE FALSE
  OBVIOUS
<1>1. At(b) \in Nat /\ u.size \in Nat /\ u.size > 0
  BY AtNat, RequestSize
<1>2. At(b) \in Words(b * SlotsPerBlock, u.size)
  BY <1>1 DEF Words, At
<1>3. At(b) \in Addr /\ mem[At(b)] = u.value
  BY <1>2 DEF Holds
<1> QED BY <1>1, <1>3 DEF Framed

\* The same facts about the flash after a step.
LEMMA FlashFacts ==
  TypeOK =>
    /\ \A n, m \in Nat : Used(n) /\ Used(m) => n = m
    /\ Framed => \A b \in Nat, u \in Updates :
         (\A a \in Addr : a >= At(b) => mem[a] = Unallocated) => ~Holds(b, u)
BY UsedUnique, ErasedHoldsNothing

LEMMA FlashFactsNext ==
  (TypeOK =>
    /\ \A n, m \in Nat : Used(n) /\ Used(m) => n = m
    /\ Framed => \A b \in Nat, u \in Updates :
         (\A a \in Addr : a >= At(b) => mem[a] = Unallocated) => ~Holds(b, u))'
BY FlashFacts, PTL

\* The first m words of an update are not the data of any update.
LEMMA PrefixHoldsNothing ==
  ASSUME Framed, TypeInv, Committing, pc = "data", NEW m \in Nat, m < req.size,
         NEW b \in Nat, b = begin, NEW u \in Updates, Blocks(u.size) = Blocks(req.size),
         mem' = Programmed(Words(begin * SlotsPerBlock, m), req.value)
  PROVE  ~Holds(b, u)'
<1> SUFFICES ASSUME Holds(b, u)' PROVE FALSE
  OBVIOUS
<1> DEFINE at == b * SlotsPerBlock
<1>1. at \in Nat /\ u.size \in Nat /\ u.size > 0 /\ req \in Updates
      /\ req.size \in Nat /\ req.size > 0
  BY AtNat, RequestSize DEF At, TypeInv, Requested
<1>2. \A a \in Words(at, u.size) : a \in Addr /\ mem'[a] = u.value
  BY DEF Holds
<1>3. \A a \in Words(at, req.size) : a \in Addr /\ mem[a] = Unallocated
  BY <1>1, DataWords DEF IsErased
<1>4. \A a \in Words(at, req.size) :
        mem'[a] = IF a \in Words(at, m) THEN req.value ELSE Unallocated
  BY <1>3 DEF Programmed, ProgramWord
<1> HIDE DEF at
<1>5. at \in Words(at, u.size) /\ at \in Words(at, req.size)
  BY <1>1 DEF Words
<1>6. at + m \in Words(at, req.size) /\ at + m \notin Words(at, m)
  BY <1>1 DEF Words
<1>7. mem'[at] = req.value
  BY <1>2, <1>4, <1>5 DEF Framed
<1>8. u = req
  BY <1>1, <1>2, <1>5, <1>7 DEF Framed
<1>9. mem'[at + m] = req.value /\ mem'[at + m] = Unallocated
  BY <1>2, <1>4, <1>6, <1>8
<1> QED BY <1>1, <1>9 DEF Framed

\* Every step keeps what a failed update has left unreadable.
LEMMA GhostStep ==
  ASSUME Framed, Inv, Inv', LatestInv, GhostInv, [Next]_vars
  PROVE  GhostInv'
<1> USE DEF RF_FATAL, RF_EMPTY, RF_NEED_TO_EMPTY, RF_ONLY_METADATA
<1> SUFFICES ASSUME ~torn', good' = NoData, pc' # "data", NEW n \in Nat, Used(n)'
             PROVE  NoGhost(n)'
  BY DEF GhostInv
<1>0. TypeInv /\ TypeOK /\ TypeInv' /\ TypeOK'
  BY DEF Inv, TypeInv
<1>1. CASE mem' = mem /\ good' = good /\ torn' = torn /\ pc # "data"
  <2>1. Used(n)
    BY <1>1 DEF Used, At
  <2>2. NoGhost(n)
    BY <1>1, <2>1 DEF GhostInv
  <2> QED BY <1>1, <2>2 DEF NoGhost, Holds
<1>2. CASE EraseSector
  <2>1. Blank'
    BY <1>2 DEF EraseSector, Inv, Sound, Opened
  <2> QED BY <2>1, AddrIs, Sizes DEF Blank, Used
<1>3. CASE HandleEmpty
  <2>1. Blank
    BY <1>3 DEF HandleEmpty, Inv, Sound, Opened
  <2>2. \E v : mem' = Programmed({0}, v)
    BY <1>3 DEF HandleEmpty, TornPrograms
  <2>3. mem'[1] = Unallocated
    BY <2>1, <2>2, AddrIs DEF Blank, Programmed
  <2>4. ~(n >= 2)
    <3>1. n >= 2 => 1 \in 0 .. n - 1
      OBVIOUS
    <3> QED BY <2>3, <3>1 DEF Used
  <2> QED BY <2>4 DEF NoGhost
<1>4. CASE CommitDataAllocation
  <2>1. CASE mem' = mem
    BY <1>1, <1>4, <2>1 DEF CommitDataAllocation
  <2>2. CASE mem' # mem
    <3>1. PICK k \in Nat : k = slot + 1
      BY <1>0, <1>4 DEF CommitDataAllocation, TypeOK
    <3>2. /\ Used(k) /\ md = mem[0] /\ k < At(mem[0]) /\ end = mem[k - 1]
          /\ end <= RegionBlocks /\ end \in Nat
      BY <1>0, <1>4, <3>1 DEF Inv, Sound, Opened, CommitDataAllocation, update_can_fit,
         At, TypeOK, Word
    <3>3. k \in Addr /\ mem[k] = Unallocated
      <4>1. k \in k .. At(mem[0]) - 1 /\ k \in 0 .. At(mem[0]) - 1
        BY <1>0, <3>2, UsedFacts
      <4> QED BY <1>0, <3>2, <4>1, UsedFacts DEF Used
    <3>4. end + Blocks(req.size) \in Word /\ Blocks(req.size) >= 1
          /\ Blocks(req.size) \in Nat
      BY <1>0, <1>4, <3>2, RequestSize, Sizes
      DEF CommitDataAllocation, update_can_fit, TypeInv, Requested, Word
    <3>5. mem' \in TornPrograms(k, end + Blocks(req.size))
      BY <1>4, <3>1 DEF CommitDataAllocation
    <3>6. PICK w \in end + Blocks(req.size) .. Unallocated : mem' = [mem EXCEPT ![k] = w]
      BY <1>0, <3>3, <3>4, <3>5, TornErased
    <3>7. w # Unallocated
      BY <1>0, <2>2, <3>3, <3>6 DEF TypeOK
    <3>8. w \in Nat /\ mem[k - 1] < w /\ w < Unallocated
      BY <3>2, <3>4, <3>6, <3>7, Sizes
    <3>9. /\ Used(k + 1)' /\ mem'[k - 1] = end
          /\ \A a \in Addr : a >= At(end) => mem'[a] = Unallocated
      BY <1>0, <3>2, <3>6, <3>8, NextSlot
    <3>10. n = k + 1
      BY <1>0, <3>9, FlashFactsNext
    <3>11. PICK b \in Nat : b = end
      BY <3>2
    <3>12. ASSUME NEW u \in Updates PROVE ~Holds(b, u)'
      BY <1>0, <3>9, <3>11, FlashFactsNext DEF Framed, At
    <3>13. n - 2 = k - 1
      BY <3>10
    <3> QED BY <3>9, <3>11, <3>12, <3>13 DEF NoGhost, Holds
  <2> QED BY <2>1, <2>2
<1>5. CASE CommitData
  <2>1. Committing /\ pc = "data" /\ req \in Updates
    BY <1>0, <1>5 DEF CommitData, Inv, Sound, TypeInv, Requested
  <2>2. PICK m \in 0 .. req.size - 1 :
          mem' = Programmed(Words(begin * SlotsPerBlock, m), req.value)
    <3>1. NoData \notin Updates
      BY RequestSize DEF NoData
    <3> QED BY <1>5, <2>1, <3>1 DEF CommitData
  <2>3. m \in Nat /\ m < req.size /\ m <= req.size
    BY <2>1, <2>2, RequestSize
  <2>4. PICK k \in Nat : k = slot + 1 /\ k >= 2
    BY <1>0, <2>1 DEF Committing, TypeOK
  <2>5. Used(k)'
    BY <1>0, <2>1, <2>2, <2>3, <2>4, DataProgrammed
  <2>6. n = k
    BY <1>0, <2>5, FlashFactsNext
  <2>7. PICK b \in Nat : b = begin
    BY <1>0 DEF TypeOK, Word
  <2>8. mem'[k - 1] = end /\ mem'[k - 2] = b /\ end \in Nat
    <3>1. \A a \in Addr : a < At(begin) => mem'[a] = mem[a]
      BY <2>1, <2>2, <2>3, <1>0, DataWords, AddrIs DEF Programmed
    <3>2. k - 1 \in Addr /\ k - 2 \in Addr /\ k - 1 < At(begin) /\ k - 2 < At(begin)
      BY <1>0, <2>1, <2>3, <2>4, DataWords, UsedFacts DEF Committing
    <3> QED BY <1>0, <2>1, <2>4, <2>7, <3>1, <3>2 DEF Committing, TypeOK, Word
  <2>9. end - b = Blocks(req.size)
    BY <2>1, <2>7, <2>8, RequestSize DEF Committing
  <2>10. \A u \in Updates : Blocks(u.size) = Blocks(req.size) => ~Holds(b, u)'
    BY <1>0, <2>1, <2>2, <2>3, <2>7, PrefixHoldsNothing
  <2> QED BY <2>6, <2>8, <2>9, <2>10 DEF NoGhost, Holds
<1> QED
  BY <1>1, <1>2, <1>3, <1>4, <1>5
  DEF Next, InitStep, UpdateStep, InitReadFails, InitFirstBlock, FindLatestMb,
     InitFillBoundaries, Call, HandleFatal, HandleEmptyTooBig, HandleNeedToEmpty,
     EraseCut, HandleUpdateNoFit, Reset, unchangedHistory, vars

\* What the invariants say of the data that an open file returns.
LEMMA ReadableFacts ==
  /\ Readable \subseteq Updates
  /\ pc # "idle" \/ ~(slot > RF_ONLY_METADATA) => Readable = {}
  /\ Inv /\ LatestInv /\ GhostInv /\ pc = "idle" /\ slot # RF_FATAL /\ ~torn =>
       IF good = NoData THEN Readable = {} ELSE good \in Readable
<1> USE DEF RF_FATAL, RF_EMPTY, RF_NEED_TO_EMPTY, RF_ONLY_METADATA
<1>1. Readable \subseteq Updates
  BY DEF Readable
<1>2. pc # "idle" \/ ~(slot > RF_ONLY_METADATA) => Readable = {}
  BY DEF Readable
<1>3. ASSUME Inv, LatestInv, GhostInv, pc = "idle", slot # RF_FATAL, ~torn
      PROVE  IF good = NoData THEN Readable = {} ELSE good \in Readable
  <2>1. TypeOK /\ slot \in Int
    BY <1>3 DEF Inv, TypeInv, TypeOK
  <2>2. CASE good # NoData
    <3>1. ReturnsLatest /\ good \in Updates
      BY <1>3, <2>1, <2>2, LatestMeans DEF TypeOK
    <3> QED BY <1>3, <2>2, <3>1 DEF ReturnsLatest, Readable
  <2>3. CASE good = NoData
    <3> SUFFICES ASSUME NEW u \in Updates, slot > 0, end - begin = Blocks(u.size),
                        Holds(begin, u)
                 PROVE  FALSE
      BY <2>3 DEF Readable
    <3>1. PICK n \in Nat : n = slot + 1 /\ n >= 2
      BY <2>1
    <3>2. Used(n) /\ end = mem[n - 1] /\ begin = mem[n - 2] /\ end <= RegionBlocks
      <4>1. n - 1 = slot /\ n - 2 = slot - 1 /\ slot + 1 = n
        BY <2>1, <3>1
      <4> QED BY <1>3, <2>1, <3>1, <4>1 DEF Inv, Sound, Opened
    <3>3. NoGhost(n)
      BY <1>3, <2>3, <3>1, <3>2 DEF GhostInv
    <3> QED BY <3>1, <3>2, <3>3 DEF NoGhost
  <2> QED BY <2>2, <2>3
<1> QED BY <1>1, <1>2, <1>3

\* The same after a step.
LEMMA ReadableFactsNext ==
  (/\ Readable \subseteq Updates
   /\ pc # "idle" \/ ~(slot > RF_ONLY_METADATA) => Readable = {}
   /\ Inv /\ LatestInv /\ GhostInv /\ pc = "idle" /\ slot # RF_FATAL /\ ~torn =>
        IF good = NoData THEN Readable = {} ELSE good \in Readable)'
BY ReadableFacts, PTL

StoreInv == Inv /\ LatestInv /\ RequestInv /\ GhostInv

\* Every step of the file is one of the store, or changes nothing that its
\* callers see.
LEMMA StoreStep ==
  ASSUME Framed, StoreInv, StoreInv', [Next]_vars
  PROVE  [Store!Next]_(Store!vars)
<1> USE DEF RF_FATAL, RF_EMPTY, RF_NEED_TO_EMPTY, RF_ONLY_METADATA
<1> DEFINE Same == /\ Status' = Status /\ req' = req /\ good' = good
                   /\ Readable' = Readable /\ torn' = torn
<1>0. /\ TypeOK /\ TypeOK' /\ NoData \notin Updates
      /\ pc \in {"loop", "erase", "data"} => req \in Updates
  BY RequestSize DEF StoreInv, Inv, TypeInv, Requested, NoData
<1>1. Same => UNCHANGED Store!vars
  BY DEF Store!vars
<1>2. ASSUME Status = "closed", Status' = "open", pc' = "idle", slot' # RF_FATAL,
             UNCHANGED <<req, good, torn>>
      PROVE  Store!Open
  BY <1>0, <1>2, ReadableFactsNext DEF Store!Open, Store!Returns, StoreInv, TypeOK
<1>3. ASSUME Status = "updating", Readable = {}, Dead, pc' \in {"idle", "off"},
             torn' = torn, good' \in {good, NoData}
      PROVE  Store!FailUpdate \/ Store!Lose
  BY <1>3, ReadableFactsNext DEF Store!FailUpdate, Store!Lose, Dead, Status
<1>4. CASE InitReadFails
  BY <1>4, ReadableFactsNext
  DEF InitReadFails, Fail, Dead, Status, Store!Next, Store!Open, StoreInv, RequestInv
<1>5. CASE InitFirstBlock
  <2>1. CASE pc' = "idle"
    BY <1>2, <1>5, <2>1 DEF InitFirstBlock, Status, Store!Next, unchangedHistory
  <2>2. CASE pc' = "search"
    <3>1. Same
      BY <1>5, <2>2, ReadableFacts, ReadableFactsNext
      DEF InitFirstBlock, Status, unchangedHistory
    <3> QED BY <1>1, <3>1
  <2> QED BY <1>5, <2>1, <2>2 DEF InitFirstBlock
<1>6. CASE FindLatestMb
  <2>1. Same
    BY <1>6, ReadableFacts, ReadableFactsNext DEF FindLatestMb, Status, unchangedHistory
  <2> QED BY <1>1, <2>1
<1>7. CASE InitFillBoundaries
  <2>1. slot' # RF_FATAL
    <3>1. lo \in Nat
      BY <1>0 DEF TypeOK
    <3>2. find_latest_slot(lo) \in Nat
      BY <3>1, LatestSlotRange, AtNat, Sizes
    <3> QED BY <1>7, <3>2 DEF InitFillBoundaries, CheckedSlot
  <2> QED
    BY <1>2, <1>7, <2>1 DEF InitFillBoundaries, Status, Store!Next, unchangedHistory
<1>8. ASSUME NEW u \in Updates, Call(u) PROVE Store!Next
  <2>1. CASE slot = RF_FATAL
    BY <1>8, <2>1, ReadableFacts, ReadableFactsNext
    DEF Call, Status, Store!Next, Store!Refuse
  <2>2. CASE slot # RF_FATAL
    BY <1>8, <2>2, ReadableFactsNext DEF Call, Status, Store!Next, Store!Begin
  <2> QED BY <2>1, <2>2
<1>9. CASE HandleFatal
  BY <1>9, ReadableFacts, ReadableFactsNext
  DEF HandleFatal, Fail, Dead, Status, Store!Next, Store!Refuse
<1>10. CASE HandleEmptyTooBig \/ EraseCut
  <2>1. Status = "updating" /\ Readable = {}
    BY <1>10, ReadableFacts
    DEF HandleEmptyTooBig, EraseCut, Status, StoreInv, Inv, TypeInv, Erasing
  <2> QED
    BY <1>3, <1>10, <2>1 DEF HandleEmptyTooBig, EraseCut, Fail, Lose, Store!Next
<1>11. CASE HandleEmpty
  <2>1. Status = "updating" /\ Readable = {} /\ good' = good /\ torn' = torn
    BY <1>11, ReadableFacts DEF HandleEmpty, Status
  <2>2. CASE Fail \/ Lose
    BY <1>3, <2>1, <2>2 DEF Fail, Lose, Store!Next
  <2>3. CASE ~(Fail \/ Lose)
    <3>1. Same
      BY <1>11, <2>1, <2>3, ReadableFactsNext DEF HandleEmpty, Status
    <3> QED BY <1>1, <3>1
  <2> QED BY <2>2, <2>3
<1>12. CASE HandleNeedToEmpty \/ HandleUpdateNoFit
  <2>1. Same
    BY <1>12, ReadableFacts, ReadableFactsNext
    DEF HandleNeedToEmpty, HandleUpdateNoFit, Status
  <2> QED BY <1>1, <2>1
<1>13. CASE EraseSector
  <2>1. Status = "updating" /\ Status' = "updating" /\ Readable = {} /\ Readable' = {}
    BY <1>13, ReadableFacts, ReadableFactsNext
    DEF EraseSector, Status, StoreInv, Inv, TypeInv, Erasing
  <2>2. torn' \in BOOLEAN
    BY <1>0 DEF TypeOK
  <2> QED BY <1>13, <2>1, <2>2 DEF EraseSector, Store!Next, Store!Destroy
<1>14. CASE CommitDataAllocation
  <2>1. Status = "updating" /\ Readable = {} /\ good' \in {good, NoData} /\ torn' = torn
    BY <1>14, ReadableFacts DEF CommitDataAllocation, Status
  <2>2. CASE Fail \/ Lose
    BY <1>3, <2>1, <2>2 DEF Fail, Lose, Store!Next
  <2>3. CASE ~(Fail \/ Lose)
    <3>1. pc' = "data" /\ slot' = slot + 1 /\ slot >= 0 /\ slot \in Int /\ req' = req
      BY <1>0, <1>14, <2>3 DEF CommitDataAllocation, TypeOK
    <3>2. Status' = "updating" /\ Readable' = {}
      BY <3>1, ReadableFactsNext DEF Status
    <3>3. torn' \in BOOLEAN
      BY <1>0 DEF TypeOK
    <3> QED BY <1>1, <2>1, <3>1, <3>2, <3>3 DEF Store!Next, Store!Destroy
  <2> QED BY <2>2, <2>3
<1>15. CASE CommitData
  <2>1. Status = "updating" /\ Readable = {} /\ torn' = torn /\ slot \in Nat
        /\ slot >= 1 /\ pc = "data"
    BY <1>0, <1>15, ReadableFacts
    DEF CommitData, Status, StoreInv, Inv, TypeInv, Requested, TypeOK
  <2>2. CASE Dead
    <3>1. ~(slot' = slot)
      BY <2>1, <2>2 DEF Dead
    <3>2. good' = good /\ pc' \in {"idle", "off"}
      BY <1>15, <3>1 DEF CommitData, Fail, Lose
    <3> QED BY <1>3, <2>1, <2>2, <3>2 DEF Store!Next
  <2>3. CASE ~Dead
    <3>1. pc' = "idle" /\ slot' = slot /\ good' = req /\ req' = NoData
      BY <1>15, <2>3 DEF CommitData, Fail, Lose
    <3>2. Status' = "open" /\ (torn \/ good = NoData) /\ req # NoData
      BY <1>0, <2>1, <3>1 DEF Status, StoreInv, LatestInv
    <3>3. torn \/ req \in Readable'
      BY <2>1, <3>1, <3>2, ReadableFactsNext DEF StoreInv
    <3> QED
      BY <2>1, <3>1, <3>2, <3>3, ReadableFactsNext
      DEF Store!Next, Store!Succeed, Store!Returns
  <2> QED BY <2>2, <2>3
<1>16. CASE Reset
  BY <1>16, ReadableFactsNext DEF Reset, Lose, Dead, Status, Store!Next, Store!Lose
<1>17. CASE UNCHANGED vars
  <2>1. Same
    BY <1>17 DEF vars, Status, Readable, Holds
  <2> QED BY <1>1, <2>1
<1> QED
  BY <1>4, <1>5, <1>6, <1>7, <1>8, <1>9, <1>10, <1>11, <1>12, <1>13, <1>14, <1>15,
     <1>16, <1>17 DEF Next, InitStep, UpdateStep

\* region_file.c implements the promise of region_file.h, for every region
\* geometry and all updates that can be told apart: an update replaces the data
\* as a whole or not at all, and no failed or superseded update is ever read.
THEOREM FileImplementsStore ==
  ASSUME Framed
  PROVE  Spec => ImplementsStore
<1>1. Init => Store!Init
  BY DEF Init, Store!Init, Status, Readable
<1>2. Init => StoreInv
  <2> SUFFICES ASSUME Init PROVE StoreInv
    OBVIOUS
  <2>1. Blank
    BY DEF Init, Blank
  <2>2. GhostInv
    BY <2>1, AddrIs, Sizes DEF GhostInv, Blank, Used
  <2> QED BY <2>2, InitSound DEF Init, StoreInv, LatestInv, RequestInv
<1>3. StoreInv /\ [Next]_vars => StoreInv'
  BY SoundStep, LatestStep, RequestStep, GhostStep DEF StoreInv
<1>4. StoreInv /\ StoreInv' /\ [Next]_vars => [Store!Next]_(Store!vars)
  BY StoreStep
<1> QED BY <1>1, <1>2, <1>3, <1>4, PTL DEF Spec, ImplementsStore, Store!Spec
=============================================================================
