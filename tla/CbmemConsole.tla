---------------------------- MODULE CbmemConsole ----------------------------
(***************************************************************************)
(* lib/cbmem_console.c: the log in memory.  The stages before DRAM share   *)
(* one small buffer, each stage after it begins with a small buffer of its *)
(* own; once a stage has CBMEM, what its buffer holds is copied into the   *)
(* CBMEM console, a ring that is appended to across stages and reboots,    *)
(* and the buffer is invalidated.                                          *)
(*                                                                         *)
(* A logged byte is the number it was logged as: 1, 2, 3 ...  The warning  *)
(* that a buffer overflowed is one byte, Warning.  The machine may reset   *)
(* between any two steps, within a copy too.                               *)
(***************************************************************************)
EXTENDS Integers, Sequences, SequencesExt

CONSTANTS
    SmallSize,       \* body of the pre-RAM and of the static buffer
    CbmemSize,       \* body of the CBMEM console
    MaxBytes,        \* bound on the bytes logged
    MaxResets        \* bound on the resets

ASSUME SizeAssumption == /\ SmallSize \in Nat \ {0}
                         /\ CbmemSize \in Nat \ {0}
                         /\ MaxBytes \in Nat /\ MaxResets \in Nat

Warning == 0

VARIABLES
    sram_kept,  \* the pre-RAM buffer survives a warm reset on this machine
    stage,      \* "bootblock", "romstage", "postcar" or "ramstage"
    buf,        \* the three buffers
    current,    \* cbmem_console_p: the buffer in use, or "none"
    hooked,     \* this stage has run its CBMEM hook
    source,     \* the buffer being copied, or "none"
    queue,      \* what copy_console_buffer has still to send
    logged,     \* number of bytes logged since the machine exists
    dropped,    \* bytes that went where nothing keeps them
    torn,       \* a reset interrupted a copy whose source survived it
    resets

vars == <<sram_kept, stage, buf, current, hooked, source, queue, logged,
          dropped, torn, resets>>

Buffers == {"preram", "static", "cbmem"}
Body(b) == IF b = "cbmem" THEN CbmemSize ELSE SmallSize

\* Memory nobody has set up: its size field does not fit the buffer.
Blank(b) == [size |-> 0, cursor |-> 0, overflow |-> FALSE,
             body |-> [i \in 0 .. Body(b) - 1 |-> Warning]]

\* A buffer as its readers take it: from the cursor on if the ring is full.
Slice(buffer, from, to) == [i \in 1 .. to - from |-> buffer.body[from + i - 1]]
Contents(buffer) ==
    (IF buffer.overflow THEN Slice(buffer, buffer.cursor, buffer.size) ELSE <<>>)
    \o Slice(buffer, 0, buffer.cursor)

\* The bytes that have not reached the CBMEM console.
Uncopied == {i \in 1 .. logged : \A j \in Range(Contents(buf["cbmem"])) : j < i}

-----------------------------------------------------------------------------
buffer_valid(buffer, size) == buffer.cursor < buffer.size /\ buffer.size = size

\* The buffer as init_console_ptr leaves it.
init_console_ptr(buffer, size) ==
    IF buffer_valid(buffer, size) THEN buffer
    ELSE [size |-> size, cursor |-> 0, overflow |-> FALSE, body |-> buffer.body]

\* A plausible slip: the cursor wraps one byte late.
Wraps_Late(cursor, size) == cursor > size

Wraps(cursor, size) == cursor >= size

cbmemc_tx_byte(buffer, data) ==
    IF buffer.size = 0 THEN buffer
    ELSE LET wrap == Wraps(buffer.cursor + 1, buffer.size)
         IN [size |-> buffer.size,
             cursor |-> IF wrap THEN 0 ELSE buffer.cursor + 1,
             overflow |-> buffer.overflow \/ wrap,
             body |-> [buffer.body EXCEPT ![buffer.cursor] = data]]

\* The bytes copy_console_buffer sends, in order.
Copied(buffer) ==
    (IF buffer.overflow THEN <<Warning>> ELSE <<>>) \o Contents(buffer)

\* A plausible slip: the source stays valid after it was copied.
Invalidated_Kept(buffer) == buffer

Invalidated(buffer) == [buffer EXCEPT !.size = 0]

-----------------------------------------------------------------------------
PreRam(s) == s \in {"bootblock", "romstage"}
Early(s) == IF PreRam(s) THEN "preram" ELSE "static"

(***************************************************************************)
(* A stage starts with console_init, which calls cbmemc_init.  The static  *)
(* buffer is in the .bss of its stage, which the loader clears.            *)
(***************************************************************************)
cbmemc_init(s, memory) ==
    LET b == Early(s)
    IN [memory EXCEPT ![b] =
          init_console_ptr(IF b = "static" THEN Blank(b) ELSE @, Body(b))]

Starts(s, memory) ==
    /\ stage' = s
    /\ buf' = cbmemc_init(s, memory)
    /\ current' = Early(s)
    /\ hooked' = FALSE
    /\ source' = "none"
    /\ queue' = <<>>

Init ==
    /\ sram_kept \in BOOLEAN
    /\ stage = "bootblock"
    /\ buf = cbmemc_init("bootblock", [b \in Buffers |-> Blank(b)])
    /\ current = "preram"
    /\ hooked = FALSE
    /\ source = "none"
    /\ queue = <<>>
    /\ logged = 0
    /\ dropped = {}
    /\ torn = FALSE
    /\ resets = 0

Copying == source # "none"

\* console_tx_byte, for the console in memory.
Log ==
    /\ ~Copying
    /\ logged < MaxBytes
    /\ logged' = logged + 1
    /\ IF current = "none"
       THEN /\ dropped' = dropped \cup {logged + 1}
            /\ UNCHANGED buf
       ELSE /\ buf' = [buf EXCEPT ![current] = cbmemc_tx_byte(@, logged + 1)]
            /\ UNCHANGED dropped
    /\ UNCHANGED <<sram_kept, stage, current, hooked, source, queue, torn,
                   resets>>

\* The CBMEM hook of a stage that has memory; cbmem_add finds or adds the
\* console and init_console_ptr makes it the current one.
cbmemc_reinit ==
    /\ stage # "bootblock"
    /\ ~hooked
    /\ hooked' = TRUE
    /\ source' = current
    /\ queue' = Copied(buf[current])
    /\ current' = "cbmem"
    /\ buf' = [buf EXCEPT !["cbmem"] = init_console_ptr(@, CbmemSize)]
    /\ UNCHANGED <<sram_kept, stage, logged, dropped, torn, resets>>

\* CBMEM has no room: the stage goes on without a console, and the copy
\* sends its bytes to none.
ReinitNoRoom ==
    /\ stage # "bootblock"
    /\ ~hooked
    /\ hooked' = TRUE
    /\ dropped' = dropped \cup Uncopied
    /\ buf' = [buf EXCEPT ![current] = Invalidated(@)]
    /\ current' = "none"
    /\ UNCHANGED <<sram_kept, stage, source, queue, logged, torn, resets>>

\* One turn of the loops of copy_console_buffer, and their end.
copy_console_buffer ==
    /\ Copying
    /\ IF queue # <<>>
       THEN /\ buf' = [buf EXCEPT !["cbmem"] = cbmemc_tx_byte(@, Head(queue))]
            /\ queue' = Tail(queue)
            /\ UNCHANGED source
       ELSE /\ buf' = [buf EXCEPT ![source] = Invalidated(@)]
            /\ source' = "none"
            /\ UNCHANGED queue
    /\ UNCHANGED <<sram_kept, stage, current, hooked, logged, dropped, torn,
                   resets>>

Follows(s) == CASE s = "bootblock" -> {"romstage"}
                [] s = "romstage"  -> {"postcar", "ramstage"}
                [] s = "postcar"   -> {"ramstage"}
                [] s = "ramstage"  -> {}

\* A stage after the bootblock has set up CBMEM before it loads the next.
NextStage ==
    /\ ~Copying
    /\ stage = "bootblock" \/ hooked
    /\ \E s \in Follows(stage) : Starts(s, buf)
    /\ UNCHANGED <<sram_kept, logged, dropped, torn, resets>>

\* DRAM keeps its contents; SRAM does on some chips, cache-as-RAM does not.
WarmReset ==
    LET lost == {"static"} \cup (IF sram_kept THEN {} ELSE {"preram"})
    IN /\ resets < MaxResets
       /\ resets' = resets + 1
       /\ torn' = (torn \/ (Copying /\ source \notin lost))
       /\ dropped' = dropped \cup
                      (IF \E b \in lost : buf[b].size > 0 THEN Uncopied ELSE {})
       /\ Starts("bootblock",
                 [b \in Buffers |-> IF b \in lost THEN Blank(b) ELSE buf[b]])
       /\ UNCHANGED <<sram_kept, logged>>

PowerCycle ==
    /\ resets < MaxResets
    /\ resets' = resets + 1
    /\ torn' = FALSE
    /\ dropped' = 1 .. logged
    /\ Starts("bootblock", [b \in Buffers |-> Blank(b)])
    /\ UNCHANGED <<sram_kept, logged>>

Next == \/ Log \/ cbmemc_reinit \/ ReinitNoRoom \/ copy_console_buffer
        \/ NextStage \/ WarmReset \/ PowerCycle

Spec == Init /\ [][Next]_vars

-----------------------------------------------------------------------------
(***************************************************************************)
(* Types: the cursor of a buffer in use is a place in its body, and the    *)
(* buffer in use has been set up.                                          *)
(***************************************************************************)
TypeOK ==
    /\ sram_kept \in BOOLEAN
    /\ stage \in {"bootblock", "romstage", "postcar", "ramstage"}
    /\ \A b \in Buffers : /\ buf[b].size \in {0, Body(b)}
                           /\ buf[b].cursor \in 0 .. Body(b) - 1
                           /\ DOMAIN buf[b].body = 0 .. Body(b) - 1
    /\ current \in Buffers \cup {"none"}
    /\ current # "none" => buf[current].size = Body(current)
    /\ source \in {"none", "preram", "static"}
    /\ dropped \subseteq 1 .. logged
    /\ logged \in 0 .. MaxBytes
    /\ resets \in 0 .. MaxResets

\* The logged bytes are in order, and none is there twice.
InOrder(log) ==
    \A i, j \in DOMAIN log :
        i < j /\ log[i] # Warning /\ log[j] # Warning => log[i] < log[j]

\* Between two neighbours nothing is missing but what is in lost.
NoGap(log, lost) ==
    \A i \in 1 .. Len(log) - 1 :
        log[i] # Warning /\ log[i+1] # Warning =>
            log[i] + 1 .. log[i+1] - 1 \subseteq lost

(***************************************************************************)
(* Read at any moment between two copies, the CBMEM console has the logged *)
(* bytes in order and none twice; between two of them nothing is missing   *)
(* but what no memory kept, unless the warning stands there; and when it   *)
(* is the buffer in use it ends with the last byte logged.  A reset within *)
(* a copy whose source survives the reset is the one exception: what was   *)
(* copied is then copied again (copy_console_buffer invalidates its source *)
(* last).                                                                  *)
(***************************************************************************)
LogKept ==
    LET log == Contents(buf["cbmem"])
    IN ~Copying /\ ~torn /\ buf["cbmem"].size > 0 =>
         /\ InOrder(log) /\ NoGap(log, dropped)
         /\ current = "cbmem" /\ logged \in (1 .. MaxBytes) \ dropped =>
               log # <<>> /\ Last(log) = logged
=============================================================================
