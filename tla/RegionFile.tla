----------------------------- MODULE RegionFile -----------------------------
(***************************************************************************)
(* The region file of lib/region_file.c: an append-only file on NOR flash. *)
(* The region is RegionBlocks blocks of SlotsPerBlock 16-bit words.  Word  *)
(* 0 holds the number of metadata blocks; every later metadata word (a     *)
(* slot) holds the block offset at which one update ends, and it starts    *)
(* where the slot before it ends.  Metadata is programmed before data.     *)
(*                                                                         *)
(* Flash: programming only clears bits of an erased word, so a program     *)
(* interrupted by an error or a power loss leaves a word of TornWord(v),   *)
(* and erasing proceeds sector by sector.  Every program or erase may      *)
(* succeed, fail after a partial effect, or be cut by a power loss; every  *)
(* read may fail.  After a power loss region_file_init runs again.         *)
(***************************************************************************)
EXTENDS Integers

CONSTANTS
  RegionBlocks,     \* size of the region in blocks
  SlotsPerBlock,    \* REGF_UPDATES_PER_METADATA_BLOCK, 8 in the code
  SectorBlocks,     \* erase granularity of the flash, in blocks
  Unallocated,      \* REGF_UNALLOCATED_BLOCK, 0xffff in the code
  Updates,          \* the updates that callers make: [value, size in words]
  AndWord(_, _),    \* what programming a word that is not erased leaves
  TornWord(_)       \* what an interrupted program of an erased word leaves

Word == 0 .. Unallocated
Addr == 0 .. RegionBlocks * SlotsPerBlock - 1

\* The last block offset that can be stored is Unallocated - 1, so the region
\* is smaller than that (region_file.h: at most 1MiB - 48 bytes).
ASSUME RegionAssumption ==
  /\ SlotsPerBlock \in Nat /\ SlotsPerBlock >= 2
  /\ RegionBlocks \in Nat /\ RegionBlocks >= 1
  /\ SectorBlocks \in Nat /\ SectorBlocks >= 1
  /\ \E k \in 1 .. RegionBlocks : RegionBlocks = k * SectorBlocks
  /\ Unallocated \in Nat /\ RegionBlocks < Unallocated
  /\ \A u \in Updates : /\ u = [value |-> u.value, size |-> u.size]
                        /\ u.value \in Word /\ u.size \in Nat /\ u.size > 0

\* Programming clears bits: a word never grows, and an interrupted program
\* has cleared only some of the bits that are 0 in the value.
ASSUME FlashAssumption ==
  /\ \A v, w \in Word : AndWord(v, w) \in Word
  /\ \A v \in Word : TornWord(v) \subseteq v .. Unallocated

RF_ONLY_METADATA == 0
RF_EMPTY == -1
RF_NEED_TO_EMPTY == -2
RF_FATAL == -3

NoData == [value |-> -1, size |-> 0]

VARIABLES
  mem,      \* the flash contents
  pc,       \* where the code is; "off" before region_file_init
  slot,     \* f->slot
  begin,    \* f->data_blocks[0]
  end,      \* f->data_blocks[1]
  md,       \* size of f->metadata in blocks
  lo, hi,   \* l and r of find_latest_mb
  erased,   \* blocks already erased by spi_flash_cmd_erase
  req,      \* buf and size of the update in progress
  good,     \* history: the last update that returned 0 and is not superseded
  torn,     \* history: an erase was cut short and none has completed since
  over,     \* history: a word was programmed twice since the last erase
  erases    \* history: erases begun by the update in progress

vars == <<mem, pc, slot, begin, end, md, lo, hi, erased, req, good, torn, over,
          erases>>

Locs == {"off", "search", "idle", "loop", "erase", "data"}

TypeOK ==
  /\ mem \in [Addr -> Word]
  /\ pc \in Locs
  /\ slot \in RF_FATAL .. RegionBlocks * SlotsPerBlock
  /\ begin \in Word /\ end \in Word
  /\ md \in 0 .. RegionBlocks
  /\ lo \in 0 .. RegionBlocks /\ hi \in 0 .. RegionBlocks
  /\ erased \in 0 .. RegionBlocks
  /\ req \in Updates \cup {NoData}
  /\ good \in Updates \cup {NoData}
  /\ torn \in BOOLEAN /\ over \in BOOLEAN
  /\ erases \in Nat

-----------------------------------------------------------------------------
(* The flash.                                                              *)

Words(a, n) == a .. a + n - 1

IsErased(S) == \A a \in S : mem[a] = Unallocated

ProgramWord(old, v) == IF old = Unallocated THEN v ELSE AndWord(old, v)

\* Programming v into the words S of the flash.
Programmed(S, v) ==
  [a \in Addr |-> IF a \in S THEN ProgramWord(mem[a], v) ELSE mem[a]]

\* What an interrupted program of v into word a may leave in the flash.
TornPrograms(a, v) == {Programmed({a}, w) : w \in TornWord(v)}

-----------------------------------------------------------------------------
(* region_file_init and its helpers.                                       *)

Init ==
  /\ mem = [a \in Addr |-> Unallocated]
  /\ pc = "off"
  /\ slot = RF_FATAL
  /\ begin = 0 /\ end = 0 /\ md = 0
  /\ lo = 0 /\ hi = 0
  /\ erased = 0
  /\ req = NoData /\ good = NoData
  /\ torn = FALSE /\ over = FALSE
  /\ erases = 0

unchangedHistory == UNCHANGED <<req, good, torn, over, erases>>

\* Nothing reads the fields of a file whose slot is RF_FATAL, nor those of one
\* that a power loss wiped: they are cleared.
Dead ==
  /\ slot' = RF_FATAL
  /\ begin' = 0 /\ end' = 0 /\ md' = 0 /\ lo' = 0 /\ hi' = 0
  /\ req' = NoData /\ erased' = 0 /\ erases' = 0

\* The update returns -1, and the file refuses every later one.
Fail == Dead /\ pc' = "idle"

\* Power is lost: the next thing that runs is region_file_init.
Lose == Dead /\ pc' = "off"

\* A read of the flash failed: region_file_init returns -1.
InitReadFails ==
  /\ pc \in {"off", "search"}
  /\ Fail
  /\ UNCHANGED <<mem, good, torn, over>>

\* f is zeroed and the first metadata block is examined.
InitFirstBlock ==
  /\ pc = "off"
  /\ begin' = 0 /\ end' = 0
  /\ LET n == mem[0] IN
       \/ /\ n = Unallocated
          /\ slot' = RF_EMPTY /\ pc' = "idle" /\ md' = 0
          /\ UNCHANGED <<lo, hi>>
       \/ /\ n # Unallocated /\ (n = 0 \/ n > RegionBlocks)
          /\ slot' = RF_NEED_TO_EMPTY /\ pc' = "idle" /\ md' = 0
          /\ UNCHANGED <<lo, hi>>
       \/ /\ n \in 1 .. RegionBlocks
          /\ slot' = RF_FATAL /\ pc' = "search" /\ md' = n
          /\ lo' = 0 /\ hi' = n
  /\ UNCHANGED <<mem, erased>> /\ unchangedHistory

BlockWords(b) == Words(b * SlotsPerBlock, SlotsPerBlock)

all_block_offsets_unallocated(b) == IsErased(BlockWords(b))

\* One iteration of the binary search of find_latest_mb.
FindLatestMb ==
  /\ pc = "search" /\ lo + 1 < hi
  /\ LET mid == (lo + hi) \div 2 IN
       IF all_block_offsets_unallocated(mid)
       THEN hi' = mid /\ UNCHANGED lo
       ELSE lo' = mid /\ UNCHANGED hi
  /\ UNCHANGED <<mem, pc, slot, begin, end, md, erased>> /\ unchangedHistory

\* Mutant: the first allocated slot instead of the last.
find_latest_slot_First(b) ==
  LET base == b * SlotsPerBlock
      used == {i \in 1 .. SlotsPerBlock - 1 : mem[base + i] # Unallocated}
  IN  IF used = {} THEN base
      ELSE base + CHOOSE i \in used : \A j \in used : i <= j

\* The last allocated slot of metadata block b, or its first.
find_latest_slot(b) ==
  LET base == b * SlotsPerBlock
      used == {i \in 1 .. SlotsPerBlock - 1 : mem[base + i] # Unallocated}
  IN  IF used = {} THEN base
      ELSE base + CHOOSE i \in used : \A j \in used : j <= i

\* Mutant: data that ends at the end of the region is refused.
CheckedSlot_OffByOne(s) ==
  IF s # RF_ONLY_METADATA /\ (mem[s - 1] >= mem[s] \/ mem[s] >= RegionBlocks)
  THEN RF_NEED_TO_EMPTY ELSE s

\* The slot that fill_data_boundaries leaves when find_latest_slot found s.
CheckedSlot(s) ==
  IF \/ s # RF_ONLY_METADATA /\ s + 1 > md * SlotsPerBlock
     \/ s # RF_ONLY_METADATA /\ mem[s - 1] >= mem[s]
     \/ s # RF_ONLY_METADATA /\ mem[s] > RegionBlocks
  THEN RF_NEED_TO_EMPTY ELSE s

\* The search has ended: find_latest_slot and fill_data_boundaries.
InitFillBoundaries ==
  /\ pc = "search" /\ lo + 1 >= hi
  /\ LET s == find_latest_slot(lo) IN
       /\ slot' = CheckedSlot(s)
       /\ begin' = IF s = RF_ONLY_METADATA THEN md ELSE mem[s - 1]
       /\ end' = IF s = RF_ONLY_METADATA THEN md ELSE mem[s]
  /\ pc' = "idle" /\ lo' = 0 /\ hi' = 0
  /\ UNCHANGED <<mem, md, erased>> /\ unchangedHistory

-----------------------------------------------------------------------------
(* region_file_update_data and its handlers.                               *)

\* bytes_to_block(ALIGN_UP(size, REGF_BLOCK_GRANULARITY))
Blocks(size) == (size + SlotsPerBlock - 1) \div SlotsPerBlock

AlignUp(x, a) == ((x + a - 1) \div a) * a

\* Mutant: one slot for every d words, as if the metadata took no room.
MetadataBlocks_Units(d) ==
  AlignUp((RegionBlocks * SlotsPerBlock) \div d, SlotsPerBlock) \div SlotsPerBlock

\* Blocks of metadata that allocate_metadata reserves for updates of d blocks.
MetadataBlocks(d) ==
  LET a == SlotsPerBlock
      x == AlignUp((RegionBlocks * a) \div (d * a + 1), a)
  IN  AlignUp(IF x = 0 THEN 1 ELSE x, a) \div a

\* Mutant: only the slots are checked.
update_can_fit_Slots(d) == slot + 1 < md * SlotsPerBlock

update_can_fit(d) ==
  /\ slot + 1 < md * SlotsPerBlock
  /\ d + end < Unallocated
  /\ d + end <= RegionBlocks

Call(u) ==
  /\ pc = "idle"
  /\ pc' = "loop"
  /\ req' = u
  /\ UNCHANGED <<mem, slot, begin, end, md, lo, hi, erased, good, torn, over,
                 erases>>

HandleFatal ==
  /\ pc = "loop" /\ slot = RF_FATAL
  /\ Fail
  /\ UNCHANGED <<mem, good, torn, over>>

\* allocate_metadata refuses an update that can never fit.
HandleEmptyTooBig ==
  /\ pc = "loop" /\ slot = RF_EMPTY
  /\ Blocks(req.size) > RegionBlocks - 1
  /\ Fail
  /\ UNCHANGED <<mem, good, torn, over>>

\* The program of the number of metadata blocks completes, fails or is cut.
\* (TornWord(n) has n itself: the rdev_chain after a complete write may fail.)
HandleEmpty ==
  /\ pc = "loop" /\ slot = RF_EMPTY
  /\ Blocks(req.size) <= RegionBlocks - 1
  /\ LET n == MetadataBlocks(Blocks(req.size)) IN
       /\ over' = (over \/ ~IsErased({0}))
       /\ \/ /\ mem' = Programmed({0}, n) /\ n <= RegionBlocks
             /\ slot' = RF_ONLY_METADATA
             /\ md' = n /\ begin' = n /\ end' = n
             /\ UNCHANGED <<pc, lo, hi, erased, req, erases>>
          \/ /\ mem' \in TornPrograms(0, n)
             /\ Fail \/ Lose
  /\ UNCHANGED <<good, torn>>

HandleNeedToEmpty ==
  /\ pc = "loop" /\ slot = RF_NEED_TO_EMPTY
  /\ pc' = "erase" /\ erased' = 0 /\ erases' = erases + 1
  /\ UNCHANGED <<mem, slot, begin, end, md, lo, hi, req, good, torn, over>>

\* spi_flash_cmd_erase erases the next sector; after the last one
\* handle_need_to_empty marks the file empty.
EraseSector ==
  /\ pc = "erase"
  /\ LET from == erased * SlotsPerBlock
         sector == Words(from, SectorBlocks * SlotsPerBlock)
         next == erased + SectorBlocks
     IN  /\ mem' = [a \in Addr |-> IF a \in sector THEN Unallocated ELSE mem[a]]
         /\ IF next = RegionBlocks
            THEN /\ slot' = RF_EMPTY /\ pc' = "loop" /\ erased' = 0
                 /\ torn' = FALSE /\ over' = FALSE
            ELSE /\ erased' = next /\ torn' = TRUE
                 /\ UNCHANGED <<slot, pc, over>>
  /\ good' = NoData
  /\ UNCHANGED <<begin, end, md, lo, hi, req, erases>>

\* The erase command fails, or power is lost, before the next sector.
EraseCut ==
  /\ pc = "erase"
  /\ Fail \/ Lose
  /\ UNCHANGED <<mem, good, torn, over>>

\* Mutant: the file is not marked for emptying.
HandleUpdateNoFit_NotMarked ==
  /\ pc = "loop" /\ slot >= RF_ONLY_METADATA
  /\ ~update_can_fit(Blocks(req.size))
  /\ UNCHANGED vars

HandleUpdateNoFit ==
  /\ pc = "loop" /\ slot >= RF_ONLY_METADATA
  /\ ~update_can_fit(Blocks(req.size))
  /\ slot' = RF_NEED_TO_EMPTY
  /\ UNCHANGED <<mem, pc, begin, end, md, lo, hi, erased, req, good, torn, over,
                 erases>>

\* commit_data_allocation: the next slot is programmed before the data.
CommitDataAllocation ==
  /\ pc = "loop" /\ slot >= RF_ONLY_METADATA
  /\ update_can_fit(Blocks(req.size))
  /\ LET last == end + Blocks(req.size) IN
       \/ /\ mem' = Programmed({slot + 1}, last)
          /\ slot' = slot + 1 /\ begin' = end /\ end' = last
          /\ pc' = "data"
          /\ UNCHANGED <<md, lo, hi, erased, req, erases>>
       \/ /\ mem' \in TornPrograms(slot + 1, last)
          /\ Fail \/ Lose
  /\ over' = (over \/ ~IsErased({slot + 1}))
  /\ good' = IF mem' = mem THEN good ELSE NoData
  /\ UNCHANGED torn

\* commit_data: the update returns 0 once all its words are programmed; an
\* error or a power loss leaves only some first words programmed.
CommitData ==
  /\ pc = "data"
  /\ LET at == begin * SlotsPerBlock IN
       \/ /\ mem' = Programmed(Words(at, req.size), req.value)
          /\ over' = (over \/ ~IsErased(Words(at, req.size)))
          /\ good' = req /\ req' = NoData /\ erases' = 0
          /\ pc' = "idle"
          /\ UNCHANGED <<slot, begin, end, md, lo, hi, erased>>
       \/ \E n \in 0 .. req.size - 1 :
          /\ mem' = Programmed(Words(at, n), req.value)
          /\ over' = (over \/ ~IsErased(Words(at, n)))
          /\ Fail \/ Lose
          /\ UNCHANGED good
  /\ UNCHANGED torn

\* The machine is reset, or loses power between two flash operations.
Reset ==
  /\ pc \in {"idle", "search", "loop"}
  /\ Lose
  /\ UNCHANGED <<mem, good, torn, over>>

UpdateStep ==
  \/ HandleFatal \/ HandleEmptyTooBig \/ HandleEmpty
  \/ HandleNeedToEmpty \/ EraseSector \/ EraseCut
  \/ HandleUpdateNoFit \/ CommitDataAllocation \/ CommitData

InitStep == InitReadFails \/ InitFirstBlock \/ FindLatestMb \/ InitFillBoundaries

Next ==
  \/ InitStep
  \/ \E u \in Updates : Call(u)
  \/ UpdateStep
  \/ Reset

\* Code that has been entered runs on unless power is lost.
Spec == Init /\ [][Next]_vars /\ WF_vars(InitStep) /\ WF_vars(UpdateStep)
-----------------------------------------------------------------------------
(* Properties.                                                             *)

\* The words the data of request g occupies when it starts at block b hold it.
Holds(b, g) ==
  /\ Words(b * SlotsPerBlock, g.size) \subseteq Addr
  /\ \A a \in Words(b * SlotsPerBlock, g.size) : mem[a] = g.value

\* Unless an erase was cut short, no word that is already programmed is ever
\* programmed again: allocate_metadata, commit_data_allocation and commit_data
\* only touch erased flash, after any sequence of torn writes, failed writes,
\* power losses and region_file_init's own search for the free slot.
NoOverprogram == over => torn

\* Once region_file_update_data has returned 0, an opened file points at that
\* update (region_file_data) until a later update programs its own slot or
\* erases: power losses, failed reads and interrupted programs do not hide it.
ReturnsLatest ==
  pc = "idle" /\ slot # RF_FATAL /\ good # NoData /\ ~torn =>
    /\ slot > RF_ONLY_METADATA
    /\ end - begin = Blocks(good.size)
    /\ Holds(begin, good)

\* The same without excepting erases that were cut short: what region_file.h
\* promises ("the data returned is the most recently written data").
ReturnsLatestAlways ==
  pc = "idle" /\ slot # RF_FATAL /\ good # NoData =>
    /\ slot > RF_ONLY_METADATA
    /\ Holds(begin, good)

\* One call of region_file_update_data erases the region at most once: after
\* an erase the metadata it allocates always leaves room for the update.
OneErasePerUpdate == erases <= 1

\* The while (1) of region_file_update_data ends, whatever state the flash was
\* left in.
UpdateTerminates == pc \in {"loop", "erase", "data"} ~> pc \in {"idle", "off"}
\* The updates whose data an open file returns from region_file_data.
Readable ==
  {u \in Updates : /\ pc = "idle" /\ slot > RF_ONLY_METADATA
                   /\ end - begin = Blocks(u.size) /\ Holds(begin, u)}

\* What the caller sees of the file: a file whose slot is RF_FATAL has failed.
Status ==
  IF pc \in {"off", "search"} THEN "closed"
  ELSE IF slot = RF_FATAL THEN "failed"
  ELSE IF pc = "idle" THEN "open" ELSE "updating"

Store == INSTANCE RegionStore WITH
  status <- Status, request <- req, stored <- good, readable <- Readable,
  damaged <- torn

\* The file implements the store: an update replaces the data as a whole or
\* not at all, an update that fails or is cut may lose the data that were
\* there (handle_need_to_empty erases before a size is refused), and never
\* does the data of an update that was superseded or failed come back.
ImplementsStore == Store!Spec
=============================================================================
