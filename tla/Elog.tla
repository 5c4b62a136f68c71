-------------------------------- MODULE Elog --------------------------------
(***************************************************************************)
(* The event log of drivers/elog/elog.c: a header and a run of events in   *)
(* one flash block, mirrored in memory.  Events are written to the mirror  *)
(* and the flash chases it; when the mirror is nearly full the oldest      *)
(* events are dropped, and the flash is erased and written anew.           *)
(*                                                                         *)
(* An event takes len cells; a cell stands for some bytes.  A checksum     *)
(* tells a cell that was torn or programmed twice.  Every flash operation  *)
(* may succeed, report an error after a partial effect, or be cut by a     *)
(* power loss.  A reset also stands for the hand-over to the next stage,   *)
(* whose copy of the state starts uninitialised.                           *)
(***************************************************************************)
EXTENDS Integers, Sequences

CONSTANTS
  LogSize,        \* cells of the log area, ELOG_SIZE
  Header,         \* cells of struct elog_header
  MaxEvent,       \* MAX_EVENT_SIZE
  ShrinkSize,     \* ELOG_SHRINK_PERCENTAGE of the area
  UserEvents,     \* what callers log: [type, len, data]
  MaxResets,      \* bound on resets
  MaxFaults       \* bound on flash operations that report an error

\* elog_find_flash refuses a shrink size below the reserved space, of two events,
\* and that size is a quarter of the area; header and clear event together are
\* shorter than the longest event.  Callers log none of the types that elog.c
\* keeps to itself.
ASSUME ElogAssumption ==
  /\ LogSize \in Nat /\ MaxEvent \in Nat /\ ShrinkSize \in Nat
  /\ Header \in 1 .. MaxEvent - 1
  /\ 2 * MaxEvent <= ShrinkSize /\ ShrinkSize + 3 * MaxEvent < LogSize
  /\ \A e \in UserEvents : /\ e = [type |-> e.type, len |-> e.len, data |-> e.data]
                           /\ e.len \in 1 .. MaxEvent
                           /\ e.type \notin {"eol", "header", "bad", "clear"}
  /\ MaxResets \in Nat /\ MaxFaults \in Nat

Boot == [type |-> "boot", len |-> 1, data |-> 0]
Clear(n) == [type |-> "clear", len |-> 1, data |-> n]
ClearLog == [type |-> "clearlog", len |-> 0, data |-> 0]   \* elog_clear

\* Mutant: no space is kept for further events.
full_threshold_NoReserve == LogSize

full_threshold == LogSize - 2 * MaxEvent

total_event_space == LogSize - Header
NV_NEEDS_ERASE == LogSize + 1

Cell(e, i) == [type |-> e.type, len |-> e.len, data |-> e.data, part |-> i]
Plain(t) == [type |-> t, len |-> 1, data |-> 0, part |-> 1]
Eol == Plain("eol")
Hdr == Plain("header")
Bad == Plain("bad")       \* torn, programmed twice, or never read

Cells == 0 .. LogSize - 1

VARIABLES
  flash, mirror,  \* the cells of the flash and of elog_mirror_buf
  mlast,          \* mirror_last_write
  nlast,          \* nv_last_write
  state,          \* elog_initialized
  pc,
  todo,           \* the events still to be added by the call in progress
  erased,         \* erase_needed of elog_sync_to_nv
  failed,         \* history: a flash operation failed since the last reset
  resets, faults  \* counters for the bounds

vars == <<flash, mirror, mlast, nlast, state, pc, todo, erased, failed,
          resets, faults>>
volatile == <<mirror, mlast, state, todo>>

-----------------------------------------------------------------------------
(* The contents of a buffer.                                               *)

IsClear(buf, from) == \A a \in from .. LogSize - 1 : buf[a] = Eol

\* elog_is_event_valid: a whole event starts at o.
EventAt(buf, o) ==
  /\ o < LogSize /\ buf[o].type \notin {"eol", "header", "bad"}
  /\ o + buf[o].len <= LogSize
  /\ \A i \in 1 .. buf[o].len : buf[o + i - 1] = Cell(buf[o], i)

\* The offset at which elog_update_event_buffer_state stops.
ScanEnd(buf) ==
  LET end[o \in Header .. LogSize] ==
        IF EventAt(buf, o) THEN end[o + buf[o].len] ELSE o
  IN  end[Header]

HeaderValid(buf) == \A a \in 0 .. Header - 1 : buf[a] = Hdr

\* elog_scan_flash succeeds.
Valid(buf) ==
  /\ HeaderValid(buf)
  /\ ScanEnd(buf) < LogSize /\ IsClear(buf, ScanEnd(buf))

\* Where elog_scan_flash leaves both last writes.
Scanned(buf) ==
  IF IsClear(buf, 0) THEN 0
  ELSE IF ~HeaderValid(buf) THEN Header ELSE ScanEnd(buf)

\* The events between the header and offset limit.
EventsOf(buf, limit) ==
  LET seq[o \in Header .. LogSize] ==
        IF o < limit /\ EventAt(buf, o)
        THEN <<[type |-> buf[o].type, len |-> buf[o].len, data |-> buf[o].data]>>
               \o seq[o + buf[o].len]
        ELSE <<>>
  IN  seq[Header]

WithHeader(buf) == [a \in Cells |-> IF a < Header THEN Hdr ELSE buf[a]]

WithEvent(buf, at, e) ==
  [a \in Cells |-> IF a \in at .. at + e.len - 1 THEN Cell(e, a - at + 1) ELSE buf[a]]

-----------------------------------------------------------------------------

Init ==
  /\ flash = [a \in Cells |-> Eol]
  /\ mirror = [a \in Cells |-> Bad]
  /\ mlast = 0 /\ nlast = 0
  /\ state = "uninitialized" /\ pc = "idle"
  /\ todo = <<>> /\ erased = FALSE
  /\ failed = FALSE /\ resets = 0 /\ faults = 0

\* The call goes on with the events t, or returns.
Continue(t) ==
  /\ todo' = t
  /\ pc' = IF t = <<>> THEN "idle" ELSE "add"

Report == faults < MaxFaults /\ faults' = faults + 1 /\ failed' = TRUE

\* A broken log refuses every call.
CallBroken == pc = "idle" /\ state = "broken" /\ UNCHANGED vars

\* elog_add_event_raw or elog_clear is called.
Call(e) ==
  /\ pc = "idle" /\ state # "broken"
  /\ todo' = <<e>>
  /\ pc' = IF state = "uninitialized" THEN "scan" ELSE "add"
  /\ UNCHANGED <<flash, mirror, mlast, nlast, state, erased, failed, resets, faults>>

\* Mutant: the flash is always taken for erased.
elog_nv_needs_possible_erase_Never(n) == 0

elog_nv_needs_possible_erase(n) == IF n # 0 THEN NV_NEEDS_ERASE ELSE 0

\* elog_prepare_empty in the mirror buf, with nv_last_write n; only the header
\* is written, the clear event follows.
PrepareEmpty(buf, n) ==
  /\ nlast' = elog_nv_needs_possible_erase(n)
  /\ mirror' = WithHeader(buf)
  /\ mlast' = Header

\* Mutant: the log is emptied even when it is valid.
InitScan_Empties ==
  /\ pc = "scan"
  /\ state' = "initialized"
  /\ PrepareEmpty(flash, Scanned(flash))
  /\ \E boot \in {<<>>, <<Boot>>} :
       Continue(<<Clear(total_event_space)>> \o boot \o todo)
  /\ UNCHANGED <<flash, erased, failed, resets, faults>>

\* elog_init: the log is read and scanned, a log that is not valid is emptied,
\* and a boot that is not a resume logs its boot count.
InitScan ==
  /\ pc = "scan"
  /\ state' = "initialized"
  /\ \E boot \in {<<>>, <<Boot>>} :
       \/ /\ Valid(flash)
          /\ mirror' = flash /\ mlast' = Scanned(flash) /\ nlast' = Scanned(flash)
          /\ Continue(boot \o todo)
       \/ /\ ~Valid(flash)
          /\ PrepareEmpty(flash, Scanned(flash))
          /\ Continue(<<Clear(total_event_space)>> \o boot \o todo)
  /\ UNCHANGED <<flash, erased, failed, resets, faults>>

\* The read fails: both last writes are still 0, as for an erased flash.
InitReadFails ==
  /\ pc = "scan"
  /\ Report
  /\ state' = "initialized"
  /\ PrepareEmpty(mirror, nlast)
  /\ \E boot \in {<<>>, <<Boot>>} :
       Continue(<<Clear(total_event_space)>> \o boot \o todo)
  /\ UNCHANGED <<flash, erased, resets>>

AddClearLog ==
  /\ pc = "add" /\ Head(todo) = ClearLog
  /\ PrepareEmpty(mirror, nlast)
  /\ Continue(<<Clear(total_event_space)>> \o Tail(todo))
  /\ UNCHANGED <<flash, state, erased, failed, resets, faults>>

\* elog_init refuses the clear event of a log that broke during this call, and
\* an event may not fit.
AddRefused ==
  /\ pc = "add" /\ Head(todo) # ClearLog
  /\ \/ Head(todo).type = "clear" /\ state = "broken"
     \/ mlast + Head(todo).len > LogSize
  /\ Continue(Tail(todo))
  /\ UNCHANGED <<flash, mirror, mlast, nlast, state, erased, failed, resets, faults>>

elog_should_shrink(m) == m >= full_threshold

\* The offset up to which elog_do_shrink drops events.
ShrinkOffset(buf) ==
  LET end[o \in Header .. LogSize + MaxEvent] ==
        IF o > ShrinkSize \/ o >= LogSize THEN o
        ELSE IF buf[o] = Eol THEN o ELSE end[o + buf[o].len]
  IN  end[Header]

\* What the clear event reports.
ShrunkSize(offset) == offset - Header

\* Mutant: mirror_last_write is not reset before the events are moved.
Remaining_NotReset(m, offset) == m + Header + m - offset

\* mirror_last_write after the events from offset to m have moved to the front.
Remaining(m, offset) == Header + m - offset

\* elog_move_events_to_front
Moved(buf, m, offset) ==
  [a \in Cells |-> IF a < Header THEN Hdr
                   ELSE IF a < Header + m - offset THEN buf[a - Header + offset]
                   ELSE Eol]

\* The event goes to the mirror; a mirror that is full is shrunk and the clear
\* event added before anything goes to flash.
AddEvent ==
  /\ pc = "add" /\ Head(todo) # ClearLog
  /\ ~(Head(todo).type = "clear" /\ state = "broken")
  /\ mlast + Head(todo).len <= LogSize
  /\ LET buf == WithEvent(mirror, mlast, Head(todo))
         m == mlast + Head(todo).len
         offset == ShrinkOffset(buf)
     IN  \/ /\ elog_should_shrink(m)
            /\ nlast' = elog_nv_needs_possible_erase(nlast)
            /\ mirror' = Moved(buf, m, offset)
            /\ mlast' = Remaining(m, offset)
            /\ Continue(<<Clear(ShrunkSize(offset))>> \o Tail(todo))
         \/ /\ ~elog_should_shrink(m)
            /\ mirror' = buf /\ mlast' = m
            /\ pc' = IF nlast = NV_NEEDS_ERASE THEN "erase" ELSE "write"
            /\ UNCHANGED <<nlast, todo>>
  /\ UNCHANGED <<flash, state, erased, failed, resets, faults>>

-----------------------------------------------------------------------------
(* elog_sync_to_nv                                                         *)

Erased(S) == [a \in Cells |-> IF a \in S THEN Eol ELSE flash[a]]

Program(old, new) == IF old \in {Eol, new} THEN new ELSE Bad

\* The flash after the first n cells of the region to update are programmed.
Written(n) ==
  [a \in Cells |-> IF a \in nlast .. nlast + n - 1
                   THEN Program(flash[a], mirror[a]) ELSE flash[a]]

\* A program that stopped after n cells: the next one may be torn.
TornWrites(n) ==
  {Written(n), [Written(n) EXCEPT ![nlast + n] = Program(flash[nlast + n], Bad)]}

\* An erase that stopped somewhere.
PartlyErased ==
  \/ flash' = flash
  \/ \E k \in Cells : flash' \in {Erased(0 .. k), Erased(k .. LogSize - 1)}

\* Neither elog_nv_erase nor elog_nv_write tells its caller of an error.
EraseNv ==
  /\ pc = "erase"
  /\ \/ flash' = Erased(Cells) /\ UNCHANGED <<failed, faults>>
     \/ PartlyErased /\ Report
  /\ nlast' = 0 /\ erased' = TRUE /\ pc' = "write"
  /\ UNCHANGED <<volatile, resets>>

WriteNv ==
  /\ pc = "write"
  /\ \/ flash' = Written(mlast - nlast) /\ UNCHANGED <<failed, faults>>
     \/ /\ \E n \in 0 .. mlast - nlast - 1 : flash' \in TornWrites(n)
        /\ Report
  /\ nlast' = mlast
  /\ erased' = FALSE
  /\ \/ erased /\ pc' = "rescan" /\ UNCHANGED todo
     \/ ~erased /\ Continue(Tail(todo))
  /\ UNCHANGED <<mirror, mlast, state, resets>>

Rescan ==
  /\ pc = "rescan" /\ Valid(flash)
  /\ mirror' = flash /\ mlast' = Scanned(flash) /\ nlast' = Scanned(flash)
  /\ Continue(Tail(todo))
  /\ UNCHANGED <<flash, state, erased, failed, resets, faults>>

\* The scan after an erase fails: the log is broken.  When it was emptied by
\* elog_init the whole call ends, otherwise the events that wait go on.
Broken ==
  /\ state' = "broken"
  /\ Continue(IF Head(todo) = Clear(total_event_space) THEN <<>> ELSE Tail(todo))

RescanFails ==
  /\ pc = "rescan"
  /\ \/ /\ ~Valid(flash)
        /\ mirror' = flash /\ mlast' = Scanned(flash) /\ nlast' = Scanned(flash)
        /\ UNCHANGED <<failed, faults>>
     \/ /\ Report
        /\ mirror' = [a \in Cells |-> Bad] /\ UNCHANGED <<mlast, nlast>>
  /\ Broken
  /\ UNCHANGED <<flash, erased, resets>>

\* What a power loss leaves of the flash.
CutFlash ==
  \/ flash' = flash
  \/ pc = "write" /\ \E n \in 0 .. mlast - nlast - 1 : flash' \in TornWrites(n)
  \/ pc = "erase" /\ PartlyErased

Reset ==
  /\ resets < MaxResets /\ resets' = resets + 1
  /\ CutFlash
  /\ mirror' = [a \in Cells |-> Bad] /\ mlast' = 0 /\ nlast' = 0
  /\ state' = "uninitialized" /\ pc' = "idle"
  /\ todo' = <<>> /\ erased' = FALSE /\ failed' = FALSE
  /\ UNCHANGED faults

Step ==
  \/ InitScan \/ InitReadFails
  \/ AddClearLog \/ AddRefused \/ AddEvent
  \/ EraseNv \/ WriteNv \/ Rescan \/ RescanFails

Next ==
  \/ (\E e \in UserEvents \cup {ClearLog} : Call(e)) \/ CallBroken
  \/ Step \/ Reset

Spec == Init /\ [][Next]_vars

-----------------------------------------------------------------------------
(* Properties.                                                             *)

Events == UserEvents \cup {Boot} \cup {Clear(n) : n \in 0 .. LogSize}

TypeOK ==
  /\ DOMAIN flash = Cells /\ DOMAIN mirror = Cells
  /\ mlast \in 0 .. LogSize
  /\ nlast \in 0 .. LogSize \cup {NV_NEEDS_ERASE}
  /\ state \in {"uninitialized", "initialized", "broken"}
  /\ pc \in {"idle", "scan", "add", "erase", "write", "rescan"}
  /\ todo \in Seq(Events \cup {ClearLog})
  /\ erased \in BOOLEAN /\ failed \in BOOLEAN
  /\ resets \in 0 .. MaxResets /\ faults \in 0 .. MaxFaults

\* An event always fits: whatever was logged, shrunk, torn or emptied before,
\* elog_add_event_raw starts below full_threshold, so that the event and the
\* clear event that elog_shrink adds behind it find room, and a shrink is never
\* followed by another one before anything is written to flash.
RoomLeft ==
  /\ pc = "add" => mlast + MaxEvent < LogSize
  /\ pc = "add" /\ Head(todo).type = "clear" => mlast + Head(todo).len < full_threshold
  /\ pc = "write" => nlast <= mlast

\* As long as no flash operation reports an error, what elog believes of the
\* flash is so: between calls the mirror is the flash, both last writes are
\* where the next scan would put them, nothing was programmed over something
\* else, and the log does not give up.  A torn log of an earlier boot, power
\* losses in an erase or between erase and write do not change that.
Coherent ==
  ~failed =>
    /\ state # "broken"
    /\ pc = "idle" /\ state = "initialized" =>
         /\ Valid(flash) /\ mirror = flash
         /\ mlast = Scanned(flash) /\ nlast = mlast

\* The events that the next boot, or the OS, can read.
Kept == IF HeaderValid(flash) THEN EventsOf(flash, LogSize) ELSE <<>>

\* All of what is in flash can be read.
Readable == Valid(flash) \/ IsClear(flash, 0)

\* The mirror is to replace what is in flash.
Rewriting ==
  /\ state = "initialized" /\ pc \in {"add", "erase", "write"}
  /\ nlast \in {0, NV_NEEDS_ERASE}

Coming == IF Rewriting THEN EventsOf(mirror, mlast) ELSE <<>>

\* The event that is being scanned again is in flash.
Due == IF pc = "rescan" THEN Tail(todo) ELSE todo

Log == INSTANCE EventLog WITH
  Requests <- UserEvents \cup {ClearLog},
  Space <- total_event_space, Full <- full_threshold - Header,
  todo <- Due, ready <- state # "uninitialized",
  kept <- Kept, whole <- Readable,
  replacing <- Rewriting, next <- Coming,
  writing <- pc \in {"erase", "write"}

\* elog.c implements the abstract log: until a flash operation reports an error
\* every event that a call logs is added, once and in order; only the oldest ones
\* go, at a shrink, and the clear event tells how much; the log is emptied only by
\* elog_clear, by elog_init when it cannot be read, or by losing power while
\* it is rewritten.
ImplementsLog == Log!Spec
=============================================================================
