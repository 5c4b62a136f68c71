# A TLA+ model of coreboot's boot core

This directory holds TLA+ modules that model parts of coreboot whose
correctness depends on interleavings, failures and power losses, the TLC
configurations that check them, and TLAPS proofs. Paths below are relative to
`src/coreboot/src/`.

## The system

coreboot boots a machine in stages. The stage that runs from memory
(ramstage) walks a boot state machine on one CPU, with a few cooperative
threads beside it; on x86 it starts the other CPUs, relocates their SMM
handlers, programs memory types and later gives them work; and it keeps data
in SPI flash across boots, among them the training data that the stage before
it (romstage) needs to set up memory. All stages append to one log in memory.

| Component | State | Operations | Interacts with |
|---|---|---|---|
| Region file, `lib/region_file.c` | flash contents; slot, data boundaries and metadata size of an open file | init, update, data | SPI flash below; MRC cache above |
| AP bring-up, `cpu/x86/mp_init.c`, `cpu/x86/sipi_vector.S`, `cpu/x86/backup_default_smm.c` | AP count, microcode lock, default SMM area, flight plan counters and barriers, `mp_state`, relocation lock, SMBASE of each CPU | `mp_init_with_smm`, the SIPI vector, `ap_init`, `smm_do_relocation` | all CPUs share memory; IPIs; SMIs |
| AP work, `cpu/x86/mp_init.c` | one slot per AP, the BSP's stack frame | `mp_run_on_aps`, `mp_run_on_all_cpus`, `mp_park_aps`, `ap_wait_for_instruction` | follows the last record of bring-up |
| Boot state machine, `lib/hardwaremain.c` | current phase, callback lists, blockers, complete flags | walk, schedule, block, unblock | threads block its phases; it runs timers |
| Threads, `lib/thread.c`, `lib/timer.c` | current thread, runnable and free lists, sleeping timers | `thread_run`, `thread_run_until`, `udelay`, cooperate | boot state machine, timer queue |
| Timer queue, `lib/timer_queue.c` | a heap of at most 64 callbacks | schedule, run | threads |
| SPI flash, `drivers/spi/spi_flash.c` | the chip | erase, program, read | region file, logs |
| MRC cache, `drivers/mrc_cache/mrc_cache.c`, with `drivers/intel/fsp2_0/memory_init.c` | up to three region files, stash in CBMEM, hash in the TPM, protected ranges | `mrc_cache_get_current`, stash, update, invalidate, protect | region file below; the FSP above; recovery mode and S3 |
| Event log, `drivers/elog/elog.c` | log area in flash, its mirror, two write positions | init, add, clear, shrink, sync | SPI flash |
| Memory ranges, `lib/memrange.c` | ordered list of tagged ranges | insert, remove, merge, retag, fill holes | MTRR setup |
| MTRR setup, `cpu/x86/mtrr/mtrr.c` | address space, global solution, registers of each CPU | set up, temporary range, take back | device resources; AP work; boot states |
| CBMEM console, `lib/cbmem_console.c` | a buffer per phase of boot, ring in CBMEM | init, transmit, copy | every stage |
| vboot non-volatile data, CBMEM, device resources, CBFS, console output, SMI entry, chipset code | see `PROJECT.json` | | |

What is hard here: power may fail within any flash operation, and the next
boot must make sense of what is left; APs run at any speed, may not start, and
share one memory area that holds first the SIPI vector, then the relocation
handler, then the operating system's data again; timeouts do not stop what
they gave up on; threads switch in `udelay`, so that any callback may find the
state machine blocked by a worker that sleeps; training data, log bytes and
register settings pass from one stage, boot or CPU to another, and must not be
served stale, twice or half written. `PROJECT.json` lists these hazards at
their lines.

## Modules

| Module | Models | Run |
|---|---|---|
| `RegionFile` | the region file and the flash below it | `region_file`, `region_file_torn_erase` (through `MCRegionFile`) |
| `RegionStore` | what `region_file.h` promises, implemented by `RegionFile` | `region_file` |
| `RegionFileProofs` | theorems of `RegionFile` | |
| `MpInit` | bring-up of the APs | `mp_init`, `mp_init_microcode` (through `MCMpInit`) |
| `MpInitProofs` | its theorems | |
| `MpWork` | the mailbox between BSP and APs | `mp_work`, `mp_work_expired` |
| `MpWorkProofs` | its theorems | |
| `Ramstage` | boot state machine and threads together | `ramstage`, `ramstage_lost_callback` |
| `RamstageProofs` | its theorems | |
| `MrcCache` | MRC cache and memory initialisation over boots and resumes, on regions that behave as `RegionStore` | `mrc_cache` |
| `MrcCacheProofs` | its theorems | |
| `EventLog` | what the event log promises its callers and its readers | `elog` |
| `Elog` | the event log, implements `EventLog` | `elog` (through `MCElog`) |
| `ElogProofs` | its theorems | |
| `MemRange` | operators on range lists | `mtrr` |
| `Mtrr` | MTRR setup on range lists | `mtrr` (through `MCMtrr`) |
| `MtrrProofs` | theorems of `MemRange` and `Mtrr` | |
| `CbmemConsole` | the log in memory over stages and resets | `cbmem_console` |
| `CbmemConsoleProofs` | its theorems | |

Each module names its mutants next to the definitions they replace: operators
with a suffix such as `find_latest_slot_First` are plausible slips of the code
that the runs must notice; they are not used by the specifications.

### RegionFile

The flash is a function from word addresses to words. Programming clears bits
(`AndWord`), so an interrupted program leaves one of `TornWord(v)`; an erase
goes sector by sector. Every program and erase may complete, fail or be cut by
a power loss, and every read may fail. A failed update leaves the file in
`RF_FATAL`, as in the code; a power loss forgets the file and
`region_file_init` runs again. One iteration of `find_latest_mb` and of the
loop of `region_file_update_data` is one action each. Since no code reads the
other fields of a file in `RF_FATAL`, `Dead` clears them.

Abstractions: data are one word repeated (`value`, `size` in words), and an
interrupted `commit_data` leaves a prefix of whole words: data words are never
programmed again, so a torn last word could not be told from a missing one.
Words are at their real meaning with a smaller width: `Unallocated` is all
ones. `ASSUME RegionAssumption` is what `region_file.h` demands of a region
(a whole number of blocks and of sectors, below the largest block offset).

History variables: `good` is the last update that returned 0 and that neither
a newer slot nor an erase has superseded; `torn` says that an erase stopped
midway and none has completed since; `over` that a programmed word was
programmed again; `erases` counts the erases of the current update.

* `NoOverprogram`: unless an erase was cut, no word is programmed twice
  between erases. It needs the whole of the recovery logic: the binary search,
  the slot search, the checks on torn offsets and the size checks.
* `ReturnsLatest`: unless an erase was cut, an opened file points at `good`.
* `OneErasePerUpdate`, `UpdateTerminates`: the update loop cannot go on for
  ever emptying the region.
* `ReturnsLatestAlways` drops the exception. It is violated: after an erase
  that stopped behind the first sector the file counts as empty, and an update
  that returns 0 is programmed over old words.

* `ImplementsStore`: the file implements `RegionStore`, the abstract store of
  one value. An open store returns the last update that returned 0; an update
  that fails or is cut may destroy it (it is refused only after the region has
  been erased, if it can never fit), but what is readable then is no update,
  and nothing older comes back. After a cut erase nothing is promised
  (`damaged`). The mapping takes the file's state to `status`, `good` to
  `stored`, and the set of updates whose words lie in the file's data to
  `readable`.

Bounds: 6 blocks of 3 words in 2 sectors, 3-bit words, updates of one block, of
two blocks, and one that can never fit. A small first update reserves two
metadata blocks, so that the binary search has a choice; a large one reserves
one, so that the slots run out before the data blocks do; 3 words per block
give `find_latest_slot` a choice.

### MpInit

`pc` and `rec` place each CPU. The BSP's `wait_for_aps` is split into a read
and a delay, since an AP may arrive in the delay after the last read. IPIs
reach APs when they like, or never (`ApStart` is not fair). The area at the
default SMM address holds the operating system's data, the SIPI vector, the
relocation handler or the restored data; an AP that executes the SIPI vector
after it was overwritten may be lost (`ApLost`). `conf` holds what the
platform's `mp_ops` say. `LoadSmmHandlers` is one action: the APs that it
could disturb are either behind the first barrier, or late.

Relocation follows `smm_initiate_relocation_parallel`. A CPU gives up when its
local APIC stays busy before the SMI is sent (`AbortRelocation`, lines 679-684)
or after it (`RelocationTimeout`, "SMI Relocation timed out", lines 690-691).
Both only print a message, neither sets `ret`, and the lock of
`smm_initiate_relocation` is released. `smi` has the CPUs with an SMI still to
come, `smm` those in SMM: an SMI interrupts its CPU at any time, also long after
that CPU has given up (`EnterSmm`), and `smm_do_relocation` moves the SMBASE
(`LeaveSmm`) unless the CPU has no number in the map (lines 744-748) or the area
holds something else by then. Where relocation is serialised there is one saved
state for all (`num_concurrent_save_states` is 1), and two CPUs in SMM together
are `spoilt`. The history `gaveUp` has the CPUs that gave up.

* `AreaIntact`, `RelocatedBeforeInit`, `SuccessMeansAll` hold as long as
  nothing has timed out in the plan (`ret = 0`), with exceptions for the CPUs
  that gave up on their local APIC: the code does not report them, so they can
  reach the CPU drivers unrelocated, or be in SMM after `mp_init_with_smm` has
  returned 0. The properties show that no other CPU can, but for those that the
  late SMI of such a CPU spoils, and that a platform with parallel relocation has
  no such neighbours.
* `BspFirst` and `SmmDecided` hold even after timeouts, because a barrier is
  only released after the BSP's call.
* `BspReturns`, unless a late SMI has spoilt a saved state; and
  `StartedApsFinish`: an AP that starts reaches `ap_wait_for_instruction` unless
  something times out or a CPU gives up.
* `MicrocodeSerial` is violated: `load_sipi_vector` sets the lock word the
  wrong way round.

Bounds: 2 APs, 2 polls per wait, three platform configurations that between
them have both values of each setting (microcode is loaded only in the one
without SMM, so that the two long phases do not multiply; `mp_init_microcode`
has both together). `MaxGiveUps` is 1: one CPU that gives up makes every
exception above happen, and the proofs are for any number.

Fairness: every CPU that executes makes progress (`WF(BspStep \/ SmiServed(BSP))`,
and `WF(ApRun(a) \/ SmiServed(a))` for each AP once it runs); the wait for an SMI
ends with the SMI or with the timeout, and the relocation handler returns. Spin
locks are taken once per CPU, so weak fairness gives each its turn. Not assumed:
that an AP starts, or that an SMI still arrives after the timeout.

### MpWork

Calls are numbered; a slot holds the number of the call whose callback it
points to. `mp_run_on_aps` keeps the callback on its stack, so a pointer to a
call that has returned may read as that call, as the present one, or as
`Garbage`. The loops over the slots are one action per slot. The code scans
the slots of all `CONFIG_MAX_CPUS` CPUs; those of CPUs that do not exist stay
non-NULL and are never counted, so the model has the slots of real APs only.
The BSP makes no call after `mp_park_aps`, as in the code.

* `DoneMeansReached`, `CopiesLiveCallback`, `InOrder` hold until a call
  expires. `CallReturns`: a call returns unless an AP jumped to garbage.
* `DoneAlwaysReached` is violated after an expired call: an acknowledgement of
  the old call clears the slot of the new one.

Fairness: every CPU runs, functions given to APs return, and a stopwatch that
is polled again and again expires (`SF(Expire)`).

### Ramstage

A phase is `2 * state + seq`. Main's position in `bs_walk_state_machine` is
`mpc`; all threads interleave only at the switch points of the code: starting
a thread, a thread's end, `udelay`, and timers. `runnable` is the runnable
list with its head last. Callbacks of a phase are called in any order
(`bootstate.h` promises none); timers fire in any order, since delays are
arbitrary.

* `OnePlace`, `NeverEmpty`, `MainRunsLast`: the thread lists.
* `BlockersExact`, `PhaseHeld`: workers and phases; a state that is skipped
  (`BS_OS_RESUME` when not resuming) is the only one that lets a worker go.
* `ExitCallbacksCalled` holds; `CallbacksCalled`, the same for entry
  callbacks, is violated: one for the current state's entry is accepted too
  late and never called.
* `BootEnds`: the machine hands over or dies after a payload that returned.

Bounds: 2 workers, 1 callback, 2 timers, 5 calls, made in phases 15 to 18:
the exit of `BS_OS_RESUME_CHECK`, all of `BS_OS_RESUME`, and the entry of
`BS_WRITE_TABLES`, around the only branch of the state machine. Fairness:
`WF(Next)`, one CPU that runs; calls are bounded, so every thread ends.

### MrcCache

A step is a call of romstage or ramstage: fill the FSP's parameters
(`FillMrcCache`), memory initialisation (external: it trains, or keeps what it
was given), `Stash` into CBMEM, one update per cached type, `Invalidate`,
`Protect`; then the operating system suspends, installs another firmware or
loses power. Data are who made them: the boot, the firmware version, the mode.
Each region returns the last update that returned 0 or nothing, and a failed or
cut update keeps the old data or leaves nothing: what `RegionStore` says and
`RegionFile` implements. `config` ranges over the platforms' Kconfig choices.

Nothing ties the mode of a resume to that of the boot it resumes: verstage runs
again, the switches are read again, and the recovery request is cleared from the
non-volatile data on the way (`security/vboot/bootmode.c` 57-68, 104-162). So
`ChooseMode` picks recovery and retrain anew on every boot and every resume. A
resume in the other mode looks into that mode's region, and its ramstage writes
the stash of the boot there, since both modes stash under one CBMEM id. Two
history variables follow this: `switched` says that a resume since the last boot
was not in the boot's mode, `misfiled` has the data that went to the other
mode's region.

* `SettingsFit`: the FSP is given only data of its own version and, where there
  is a recovery cache, training data of the same mode. The exception is
  `misfiled` data: a later boot does take them for its own mode's.
* `ResumeFinds`: a resume gives the FSP the settings of the sleeping memory or
  none. Nothing in the code checks that, and there are two exceptions: saving
  the settings had failed (which ramstage only logs), or each mode has a region
  and the mode has changed since the boot. In recovery mode the TPM's hash keeps
  other training data out in both.
* `RetrainHonoured`: what a recovery boot has revoked is never used again, but
  for `misfiled` data: they are in both regions, and a retrain invalidates one.

The code does not exclude the exceptions, and no document says that it does; that they
are the only ones is what the run and the proofs show. Each is needed: stated
without any one of them its property is violated, `RetrainHonoured` in the fourth
full boot (so not within the run's bounds), the others earlier.

Assumed: CBMEM survives S3 and nothing else. Bounds: 2 versions, 3 full boots, 1
resume: data of an older version, of another mode and of the sleeping boot can
exist together. The properties also hold with one version and 4 boots, and with
one version and 2 resumes.

### EventLog and Elog

The area is a row of cells; an event takes `len` of them, the rest is its
checksum's business: a torn or twice programmed cell makes its event invalid.
`mlast` and `nlast` are the write positions of mirror and flash, `todo` the
events that the call in progress has still to add (the clear event of a shrink
is added by a nested call). Every flash read, program and erase may report an
error after part of its effect (`PartlyErased`, `TornWrites`) or be cut by power. A reset also stands for the
hand-over to the next stage, which starts from the flash alone.

* `RoomLeft`: an event always finds room, also the clear event that shrinking
  adds while the log is nearly full. (So the refusal of an event that does not
  fit is never reached.)
* `Coherent`: as long as no operation has reported an error since the last
  reset, the flash is what elog takes it for.
* `ImplementsLog`: `Elog` implements `EventLog`. There a caller's event enters
  the log by `Call`, and each event a call has to do is added once and in order.
  The log is replaced as a whole only by `Empty` (elog_clear, on request), by
  `Ready` (elog_init, and only when the log cannot be read or is empty), and by
  `Trim`, which drops the oldest events of a log that has become too long and
  adds a clear event with their size. A power loss costs the event being
  appended, or, within a rewrite, older events, never order or content. The
  mapping: `Due` is the call's `todo` without the event that is being scanned
  again, `Kept` and `Readable` are what a reader finds in flash, `Rewriting` says
  that the flash is to be erased, and `Coming` what the mirror holds then. An
  elog_init that wipes a valid log is the property's mutant.

After a reported error elog may take a flash it could not read for erased
(`nv_last_write` is 0); the properties except it.

`ElogAssumption` says that callers log none of the types that `elog.c` reserves.
That is so for coreboot's own calls. The SMM handler's copy of the log state is
not modelled, and through it the OS may log any type, 0xff included
(`drivers/elog/gsmi.c:101`): nothing is claimed of a log that holds such an event.

Bounds: 12 cells, full at
8, 4 dropped by a shrink, events of 1 and 2 cells, 2 resets, 1 reported error.

### MemRange and Mtrr

A range list is a sequence of `[begin, end, tag]`, addresses are pages. The
loops over the list are written as what they leave of each entry, the loops that
carry something from entry to entry (merging, copying) as recursive functions
over the entries handled so far. `Mtrr`
follows `mtrr.c` from there: collect, fill holes, choose the default type, cut
into powers of two, round write-back ranges up and carve the excess out again,
load. `Effective` is what the CPU makes of the registers: a variable MTRR
matches by mask, so a piece that is not aligned covers the wrong pages, as it
would in hardware. `Wanted` is computed from the resources alone.

* `TypeOK` includes that the list is ordered, disjoint, merged and without gaps
  below 4 GiB.
* `TypesRight`: every described page has its wanted type on every CPU that has
  loaded a solution, permanent or temporary. Write-combining may have been given
  up for uncacheable.
* `SameForTheOS`: after the payload is loaded (or at a resume) no CPU has the
  temporary range and all that were set up agree. Except: a permanent solution
  that does not fit cannot be put back, and then the temporary one stays.

The maps have DRAM at 0 and leave out those with `HoleBehindLimit`: there
`memranges_fill_holes_up_to` makes an entry that ends before it begins (see the
hazard at `lib/memrange.c:357`). Callers are taken as they are: the BSP sets up
first (`mp_run_on_all_cpus`, `pre_mp_init`), and a temporary range is a ROM
that ends at 4 GiB, set up on the BSP after the first solution. The pages of a
fixed MTRR are one page each: `calc_fixed_mtrrs` goes from the begin of an entry
to its end in steps of 64, 16 or 4 KiB with `while (begin != end)` (lines
293-307) and would run on past an end below 1 MiB that is off the step, so that
edges are taken to be on it. Bounds: 32 pages, 1 MiB at 2, 4 GiB at 16; DRAM
and two more resources with edges at 0, 1, 5, 13, 16, 19 and 22, which gives odd
sizes on both sides of both lines; 4 variable MTRRs, so that WRCOMB is given up
and solutions are refused in some maps and not in others.

### CbmemConsole

Logged bytes are numbered, so that order, repetition and loss show in the ring.
`copy_console_buffer` is one action per byte, and a reset may come between. A
warm reset keeps DRAM, keeps the pre-RAM buffer on machines where it is SRAM
(`sram_kept`) and clears the rest; memory after a power cycle is not taken for
a console. `cbmem_add` may fail. History: `dropped` holds the bytes that no
memory kept, `torn` says that a reset hit a copy whose source survived.

* `LogKept`: the CBMEM console has the bytes in order and once each; where some
  are missing no memory had kept them, or the overflow warning stands there; and
  it ends with the last byte logged. With `torn` the bytes of the source are
  copied again: the source is invalidated only after its last byte.

Bounds: early buffers of 2 bytes, a ring of 5, 7 bytes, 2 resets: early buffers
and ring overflow, and a copy can wrap the ring.

## Deadlock

`RegionFile`, `Elog` and `Mtrr` run with deadlock checking. In the others the
system stops: boot ends, bring-up is over, the last call has been made, the
machine stays off, nothing more is logged.

## Proofs

`RegionFileProofs` proves for every region size, number of words per block,
erase granularity, word width and set of updates:

* `TypeCorrect`: `Spec => []TypeOK`
* `ErasesOnce`: `Spec => []OneErasePerUpdate`
* `NeverOverprogrammed`: `Spec => []NoOverprogram`
* `LatestReturned`: `Spec => []ReturnsLatest`

They rest on `RegionAssumption` (the geometry) and `FlashAssumption` (a
program leaves a word; an interrupted one a word that is not smaller than its
value).

`TypeInv` strengthens `TypeOK` by what the types need: a request is present
while an update runs, an open file's slot and data lie in the region, and an
erase stands at a sector boundary. `Inv` adds `Sound` for flash without a cut
erase: the flash is blank, has a broken number of metadata blocks, or has
`Used(n)`: exactly the first `n` slots are programmed, their offsets increase,
and everything from the last offset on is erased. A torn slot is either still
erased, or larger than the value meant and therefore still increasing: this is
why `TornWord(v)` lies above `v` and why the layout survives any interrupted
write. `Opened` ties the fields of an open file to `Used(slot + 1)`;
`Searching` is the loop invariant of the binary search (the last used slot
lies in block `lo` to `hi - 1`); `Committing` says that the blocks allocated
to the current update are erased. `LatestInv` adds that the data of `good` lie
between the last two offsets. The induction over blocks and slots is by least
and greatest elements (`NatMin`, `NatMax`).

`MpInitProofs` proves for any number of APs, of polls and of CPUs that give up
on their local APIC, and for every platform configuration, from `ApsAssumption`
(the platform reports at least as many APs as there are; the BSP is none of them,
and no CPU is `NoCpu`, the free lock):

* `BringUpTypeCorrect`: `Spec => []TypeOK`
* `BspInitialisesFirst`: `Spec => []BspFirst`
* `SmmDecision`: `Spec => SmmDecided`
* `AreaKeptIntact`: `Spec => []AreaIntact`
* `RelocationComplete`: `Spec => []RelocatedBeforeInit`
* `SuccessComplete`: `Spec => []SuccessMeansAll`

`Places` says in which record a CPU can be at each location. `Barriers`: an
open barrier was open from the start or the BSP is past its record, and an AP
past a barrier has seen it open; with it an AP past a blocking record has the
BSP ahead of it (`BspAhead`), which gives the two results that survive
timeouts. `Counts` ties `cpus_entered` to the set of APs that entered, so that
a count that equals `NumAps` means all of them (`AllEntered`); `Gates` carries
this on while `ret = 0`. `History` says what a CPU has done by its record,
`Numbers` that CPU numbers are distinct and counted by `ap_count`, and `Area`
what the default SMM area holds before and after `load_smm_handlers`.
`Relocation` is about SMIs: a CPU that has one, or is in SMM, waits for it, under
the lock where there is one, or has given up (`Waiting`); so only a CPU that gave
up can spoil another's saved state, and only where there is one for all
(`Spoiling`); and while `ret = 0` a CPU that is back from the record was
relocated, was spoilt, or has given up (`Outcome`). The
lemmas `BspMoves` and `ApMoves` list the moves of a CPU once, so that the
parts of the invariant need not look at each action again.

`MpWorkProofs` proves for any number of APs and of calls, from
`WorkAssumption` (at least one AP):

* `WorkTypeCorrect`: `Spec => []TypeOK`
* `DoneReached`: `Spec => []DoneMeansReached`
* `LiveCallbackCopied`: `Spec => []CopiesLiveCallback`
* `CallsInOrder`: `Spec => []InOrder`

`Numbered` bounds every call number by the current call, `Counted` says that a
scan which has missed no slot has seen only NULL slots. `Mailbox(a)`, for as
long as no call has expired, is the protocol of one slot: it is NULL or holds
the current call, an AP that copies or acknowledges does so for the current
call, and an AP that has the current call no longer `Pending` has been reached
by it. `ReachedStable` says that an AP once reached by a call stays so.

`RegionFileProofs` also proves the refinement:

* `FileImplementsStore`: `Spec => ImplementsStore`, for updates that are
  `Framed`: none has the words of erased flash, and two of the same length
  differ. The cache that uses the file frames its data so (`mrc_metadata` has a
  length, a version and a checksum); without it the file could not tell a torn
  update from the next one either, and `readable` would mean nothing. Each
  action of `RegionFile` is shown to be a step of `RegionStore` or a stutter,
  from `Inv`, `LatestInv` and `GhostInv`, which says which updates the words
  between the last two offsets can be read as. The proof found the guard of
  `RegionStore`'s `Succeed` too strong for a damaged region: a commit on top of
  what a cut erase left can succeed without the old value having been dropped
  first. `Succeed` now allows that when `damaged`; a store that is not damaged
  promises what it did.

`MrcCacheProofs` proves for every platform of `Configs` and any set of
versions, number of boots and of resumes (`BoundsAssumption`: the bounds are
naturals):

* `CacheTypeCorrect`: `Spec => []TypeOK`
* `GivenFits`: `Spec => []SettingsFit`
* `ResumeGivenMemory`: `Spec => []ResumeFinds`
* `RevokedStayRevoked`: `Spec => []RetrainHonoured`

`Lifetime` says when memory settings and stash exist, `Resumed` that only a
resume can be in another mode than its boot and that a resume which may not use
the cache goes no further than romstage. `Separate` keeps each mode's data in the
mode's region unless they are `misfiled`; with `Versioned` it gives
`SettingsFit`. `Saved` follows the settings of the running memory on their way:
in the stash until ramstage has written them, in the region or nowhere after
that, or recorded as unsaved, or the region is not that of the boot (`Strayed`).
`Revoked` says that revoked data that are not misfiled are in no region, and in
the stash and in memory only while the boot that revoked them goes on and finds
its region empty (`Spent`); `Numbered` that numbers are never used again.

`RamstageProofs` proves for any finite set of workers, any callbacks and any
number of timers and calls (`ThreadsAssumption`):

* `RamstageTypeCorrect`: `Spec => []TypeOK`
* `ThreadsHaveOnePlace`: `Spec => []OnePlace`
* `RunnableNeverEmpty`: `Spec => []NeverEmpty`
* `MainAlwaysRunsLast`: `Spec => []MainRunsLast`
* `ExitCallbacksAreCalled`: `Spec => []ExitCallbacksCalled`
* `BlockersAreExact`: `Spec => []BlockersExact`
* `PhasesAreHeld`: `Spec => []PhaseHeld`
* `WalkGoesForward`: `Spec => [][Forward]_vars`; no step takes the walk back to
  an earlier phase, but to that of a completed state, where it dies.

`Listed` sees `runnable` with the running thread on top as one stack: the idle
thread at the bottom, main on it, no thread twice or also asleep or free.
`Walked` relates main's position to the completed states. `Counted` adds to
the two properties which workers can hold a phase (`Held`); the counts are
cardinalities of finite sets of workers.

`MtrrProofs` proves for any memory map that `Init` allows, any address width and any
number of CPUs and of MTRRs, from `MtrrAssumption` (the BSP is a CPU; there are
pages below 1 MiB, which is not above 4 GiB; the CPU can address 4 GiB and every
resource; a ROM fits below 4 GiB; the other parameters are naturals):

* `SolutionSameForTheOS`: `Spec => []SameForTheOS`
* `TypesAreOK`: `Spec => []TypeOK`
* `TypesAreRight`: `Spec => []TypesRight`

In the first the range lists and the calculation of a solution stay opaque
(`Inv`): what matters is that the global solution is computed once (`Solved`),
that the registers of a CPU are a function of the solution it loaded (`Loaded`),
and that a temporary one outlives the hand-over only if it cannot be replaced
(`TakenBack`). The other two need `TypesInv`, which opens them up: `Prepared`
says that the address space gives every described page its wanted type (or that
with write-combining given up), that the fixed types are the wanted ones and that
the global solution is right for that list; `Held` that a CPU with the permanent
solution has it complete, and what the temporary registers give to each page: the
temporary list itself is gone once its registers are loaded. The argument goes in
three parts.

* The list. `Has(s, p, t)` says that an entry of `s` with tag `t` has page `p`.
  Each operator of `MemRange` keeps a list ordered and disjoint and has a lemma
  that says what it makes of `Has` (`MergeRight`, `RemoveRight`, `AddRight`,
  `UpdateRight`, `FillRight`), so that a page has the tag of the last insertion
  over it (`CollectedRight`): this is `Wanted`, as `WC` is inserted last and `UC`
  after `WB`.
* The pieces. `CutRight`: the pieces of a range are aligned powers of two, cover
  the range and nothing else. It rests on facts on powers of two (`Bits`) and on
  the piece that is cut off next (`LargestRight`).
* The hole. `HoleEnd`: a rounded range stays below its limit, so that it only
  runs over pages of the next entry, uncacheable, or of no entry; and `EntryRight`:
  where it does so the carved excess overrules it. `Fair` and `Give` put this for
  all entries: a register covers a page of another type only if an uncacheable
  one covers it too. Without `above4gb` nothing is claimed of pages from 4 GiB
  on in the permanent solution: `x86_setup_var_mtrrs` leaves them out then.

Induction over lists, pieces and bits is by least and greatest counterexamples
(`Least`, `Greatest`, `Climb`); that the recursive functions and folds are
defined is `GrowsExists` and `FoldsExists`. The proof found that `Effective` had
two cases for pages below 1 MiB that a variable MTRR also covers; it now says
that the fixed MTRRs come first.

`CbmemConsoleProofs` proves for buffers of any size and any number of bytes and
resets (`SizeAssumption`: buffers hold at least one byte):

* `ConsoleTypeCorrect`: `Spec => []TypeOK`
* `LogIsKept`: `Spec => []LogKept`

`Placed` says which buffer a stage logs to and copies from, `PreRamCopied` that
the pre-RAM buffer is consumed before a stage with memory logs. `Flow` is about
the log in CBMEM and the bytes on their way to it (`Pending`: what is left to
copy, or the early buffer before the hook): each is in order and without gaps
but for lost bytes, they meet without one, and together they end with the last
byte logged (`Stream`, `Seam`). A lemma each shows what a byte, an overflow, the
warning, a copied byte and a loss make of that; the ring itself enters only
through `Pushed`: `cbmemc_tx_byte` appends a byte and drops at most the oldest.

`ElogProofs` proves for a log of any size, events of any length and any number
of resets and reported errors, from `ElogAssumption` (what `elog_find_flash`
checks of the sizes; a shrink drops a quarter of the area, so that three of the
longest events fit beside it; user events are events, of none of the types that
`elog.c` reserves):

* `ElogTypeCorrect`: `Spec => []TypeOK`
* `RoomIsLeft`: `Spec => []RoomLeft`
* `LogIsCoherent`: `Spec => []Coherent`
* `LogImplementsEventLog`: `Spec => ImplementsLog`

`Bounded`: neither mirror nor flash ever hold anything from `full_threshold` on,
whatever was torn, so that a scan ends below it (`ScanLimit`). `Calls` lists
what a call can have left to add at each point: at most three events, a clear
event only in front, at most one once the log broke. `Shape`: the mirror is a
header and a run of whole events (`Run`); for a broken log the lengths can at
least be followed (`Chained`), so that a shrink ends at an event (`Shrinks`) and
moves a run to the front (`RunMoved`). `Trusted` says, until an error is
reported, what the flash holds at each point of `elog_sync_to_nv`, which with
`GoodLog` shows that a rescan finds what was written. The loops of the code are
recursive functions; that they are defined, and where they stop, is
`ChaseExists` and `ChaseEnds`, by greatest elements instead of induction.

The refinement needs `LogInv`, since `Inv` knows that the mirror is a log but not
which. `Newest`: on the way to the flash is one event behind what the flash
holds or, for a rewrite, all of the mirror, and in both cases the event of the
call comes last. `EventsOf` is characterised by the path of event offsets that a
scan follows, which is unique, so that appending, cutting from the front and
tearing the last event have a lemma each (`EventsOfRun`, `Added`, `TornIs`).
Every action, each completed, failed and cut, then is a step of `EventLog` or a
stutter: a call is `Call` (`CallMaps`), `elog_init` is `Ready`
(`InitScanMaps`), `elog_clear` is `Empty` (`AddClearLogMaps`), a shrink is `Trim`
of the events it drops (`ShrinkMaps`), any other event that enters the mirror is
`StartWrite` (`KeepMaps`), and the flash follows with `Erase` and `FinishWrite`
(`EraseMaps`, `WriteMaps`); what power leaves of either is in `CutWrite` and
`CutErase`, and `StepMaps` puts them together.

`Inv` of `Elog` and of `CbmemConsole` were checked with TLC on the
runs' instances before they were proved. `TypesInv` of `Mtrr` quantifies over all
pages and lists; there TLC checked the properties themselves.

Only model-checked: the liveness properties (`UpdateTerminates`, `BspReturns`,
`StartedApsFinish`, `CallReturns`, `BootEnds`). They rest on fairness, which the
prover does not reason about. Every other property of a passing run is proved for
all values of the constants. The proofs are about the modules as they are, with
their bounds as parameters: what an abstraction leaves out, they leave out too.

## Not modelled

* The heap of `lib/timer_queue.c`: `Ramstage` lets timers fire in any order,
  which covers whatever order the heap gives.
* The vboot record log `security/vboot/vbnv_flash.c`: an append-only log whose
  torn records and failed erases are those of the region file and event log.
* CBMEM's allocator `lib/imd.c`: sequential arithmetic; its users here need an
  entry that is found again, or none.
* The lock of the SMI handler, one try-lock in front of chipset code.
* Early MTRRs, chipset and mainboard registers, CBFS parsing, the device
  resource allocator, console formatting, vendor code, payloads and utilities:
  deterministic code, pure I/O or not coreboot's own logic. They are most of the
  repository's lines. `PROJECT.json` gives the reason for each.

## Plan

1. Done: all modules above; theorems for every safety property of every component
   that is modelled, and the refinements of `RegionStore` and `EventLog`.
2. Components that could follow: the heap of the timer queue, to justify the free
   order of timers; the vboot record log, on the flash model of `RegionFile`; the
   SMM handler's copy of the event log, as a second writer beside `Elog`.
