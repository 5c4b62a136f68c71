------------------------------ MODULE Ramstage ------------------------------
(***************************************************************************)
(* The boot state machine of lib/hardwaremain.c and the cooperative        *)
(* threads of lib/thread.c that run beside it.                             *)
(*                                                                         *)
(* One CPU runs one thread at a time: main, which walks the boot states,   *)
(* the idle thread, or a worker started with thread_run or                 *)
(* thread_run_until.  The only switch points are starting a thread, a      *)
(* thread's end, and udelay, which sleeps on a timer and runs whatever is  *)
(* on top of the runnable list.  Timers fire only when the idle thread or  *)
(* the state machine runs timers_run.  A worker blocks a phase of the      *)
(* state machine until it ends.                                            *)
(*                                                                         *)
(* A phase (state, seq) is the number 2 * state + seq.                     *)
(***************************************************************************)
EXTENDS Integers, Sequences, FiniteSets

CONSTANTS
  Main,        \* all_threads[0]
  Idle,        \* the thread of idle_thread_init
  Workers,     \* the other threads (CONFIG_NUM_THREADS - 1 of them)
  Callbacks,   \* struct boot_state_callback objects
  MaxTimers,   \* MAX_TIMER_QUEUE_ENTRIES
  MaxCalls,    \* bound on the calls that callbacks, states and workers make
  ActivePhases \* bound on the phases in which they make calls and name in them

Threads == {Main, Idle} \cup Workers

ASSUME ThreadsAssumption ==
  /\ Main # Idle /\ Main \notin Workers /\ Idle \notin Workers
  /\ IsFiniteSet(Workers)
  /\ MaxTimers \in Nat /\ MaxCalls \in Nat
  /\ ActivePhases \subseteq 0 .. 23

\* boot_state_t: BS_PRE_DEVICE is 0
States == 0 .. 11
BS_OS_RESUME_CHECK == 7
BS_OS_RESUME == 8
BS_WRITE_TABLES == 9
BS_PAYLOAD_BOOT == 11

\* boot_state_sequence_t
BS_ON_ENTRY == 0
BS_ON_EXIT == 1

Phases == 0 .. 23
Phase(s, q) == 2 * s + q
StateOf(p) == p \div 2
IsExit(p) == p % 2 = BS_ON_EXIT

\* What the run_state function of a state may return.
RunState(s) ==
  CASE s = BS_OS_RESUME_CHECK -> {BS_OS_RESUME, BS_WRITE_TABLES}
    [] s = BS_PAYLOAD_BOOT -> {BS_PAYLOAD_BOOT}
    [] OTHER -> {s + 1}

\* States whose run_state hands the machine over and need not return.
HandoffStates == {BS_OS_RESUME, BS_PAYLOAD_BOOT}

\* A callback is on a phase's list, or one of these.
Unscheduled == -1
Called == -2
\* What a thread blocks when it blocks nothing.
NoPhase == -1

VARIABLES
  mpc,        \* where main is in bs_walk_state_machine
  phase,      \* current_phase
  nextState,  \* next_id
  complete,   \* states whose complete flag is set
  blockers,   \* blockers of each phase
  callback,   \* the phase each callback is listed on
  cur,        \* the running thread
  runnable,   \* runnable_threads, its head last
  sleeping,   \* threads with a timer queued
  free,       \* free_threads
  canYield,   \* can_yield of each thread
  holds,      \* the phase each worker has blocked
  unblock,    \* the phase each worker unblocks when it ends, NoPhase: current
  calls       \* calls made so far

vars == <<mpc, phase, nextState, complete, blockers, callback, cur, runnable,
          sleeping, free, canYield, holds, unblock, calls>>

walkVars == <<mpc, phase, nextState, complete>>
threadVars == <<cur, runnable, sleeping, free, canYield, holds, unblock>>

MainLocs == {"walk", "callbacks", "in_callback", "run_state", "handoff", "die"}

TypeOK ==
  /\ mpc \in MainLocs
  /\ phase \in Phases /\ nextState \in States
  /\ complete \subseteq States
  /\ blockers \in [Phases -> Nat]
  /\ callback \in [Callbacks -> Phases \cup {Unscheduled, Called}]
  /\ cur \in Threads
  /\ runnable \in Seq(Threads)
  /\ sleeping \subseteq Threads
  /\ free \subseteq Workers
  /\ canYield \in [Threads -> BOOLEAN]
  /\ holds \in [Workers -> Phases \cup {NoPhase}]
  /\ unblock \in [Workers -> Phases \cup {NoPhase}]
  /\ calls \in Nat

\* main() after threads_initialize and boot_state_schedule_static_entries: the
\* idle thread is queued, and some callbacks are on the lists.
Init ==
  /\ mpc = "walk" /\ phase = 0 /\ nextState = 0
  /\ complete = {} /\ blockers = [p \in Phases |-> 0]
  /\ callback \in [Callbacks -> ActivePhases \cup {Unscheduled}]
  /\ cur = Main /\ runnable = <<Idle>> /\ sleeping = {}
  /\ free = Workers
  /\ canYield = [t \in Threads |-> t # Idle]
  /\ holds = [w \in Workers |-> NoPhase]
  /\ unblock = [w \in Workers |-> NoPhase]
  /\ calls = 0

-----------------------------------------------------------------------------
(* Threads: switching.                                                     *)

\* Mutant: the current thread is not put on the list.
SwitchTo_DropsCurrent(t) == cur' = t /\ UNCHANGED runnable

\* schedule(t): the current thread stays runnable.
SwitchTo(t) == runnable' = Append(runnable, cur) /\ cur' = t

\* Mutant: the thread that has waited longest is next.
SwitchAway_Fifo ==
  /\ runnable # <<>>
  /\ cur' = Head(runnable) /\ runnable' = Tail(runnable)
  /\ UNCHANGED mpc

\* schedule(NULL): the current thread is not runnable any more.  With an
\* empty list the code dies.
SwitchAway ==
  IF runnable = <<>>
  THEN mpc' = "die" /\ UNCHANGED <<cur, runnable>>
  ELSE /\ cur' = runnable[Len(runnable)]
       /\ runnable' = SubSeq(runnable, 1, Len(runnable) - 1)
       /\ UNCHANGED mpc

\* Mutant: the timer stays queued.
TimerFires_KeepsTimer(t) == t \in sleeping /\ SwitchTo(t) /\ UNCHANGED sleeping

\* timers_run takes t's timer, which has expired, off the queue.
timers_run(t) == t \in sleeping /\ sleeping' = sleeping \ {t}

\* thread_resume_from_timeout then switches to t.
TimerFires(t) == timers_run(t) /\ SwitchTo(t)

timer_queue_full == Cardinality(sleeping) >= MaxTimers

\* Whether thread_yield_microseconds gets as far as schedule(NULL).
CanSleep(t) == canYield[t] /\ ~timer_queue_full

\* The functions of the same names: a thread leaves the free list, and may
\* yield by default.
get_free_thread(w) == w \in free /\ free' = free \ {w}
prepare_thread(w) == canYield' = [canYield EXCEPT ![w] = TRUE]

-----------------------------------------------------------------------------
(* The boot state machine, on main's thread.                               *)

MainAt(l) == cur = Main /\ mpc = l

ListedOn(p) == {c \in Callbacks : callback[c] = p}

\* A state that is already complete ends the walk, and main dies.
AlreadyExecuted ==
  /\ MainAt("walk") /\ StateOf(phase) \in complete
  /\ mpc' = "die"
  /\ UNCHANGED <<phase, nextState, complete, blockers, callback, calls>>
  /\ UNCHANGED threadVars

\* bs_run_timers(0), once, before the entry callbacks.
EnterState ==
  /\ MainAt("walk") /\ StateOf(phase) \notin complete
  /\ mpc' = "callbacks"
  /\ \/ UNCHANGED <<cur, runnable, sleeping>>
     \/ \E t \in sleeping : TimerFires(t)
  /\ UNCHANGED <<phase, nextState, complete, blockers, callback, free, canYield,
                 holds, unblock, calls>>

\* bs_call_callbacks removes a callback from the list and calls it.
CallCallback(c) ==
  /\ MainAt("callbacks") /\ c \in ListedOn(phase)
  /\ callback' = [callback EXCEPT ![c] = Called]
  /\ mpc' = "in_callback"
  /\ UNCHANGED <<phase, nextState, complete, blockers, calls>>
  /\ UNCHANGED threadVars

CallbackReturns ==
  /\ MainAt("in_callback")
  /\ mpc' = "callbacks"
  /\ UNCHANGED <<phase, nextState, complete, blockers, callback, calls>>
  /\ UNCHANGED threadVars

\* No callback is left but the phase is blocked: a pending timer is run.
BlockedRunTimers(t) ==
  /\ MainAt("callbacks") /\ ListedOn(phase) = {} /\ blockers[phase] > 0
  /\ TimerFires(t)
  /\ UNCHANGED <<blockers, callback, free, canYield, holds, unblock, calls>>
  /\ UNCHANGED walkVars

\* Mutants: the blockers, or the callbacks, are not waited for.
PhaseDone_Blocked == MainAt("callbacks") /\ ListedOn(phase) = {}
PhaseDone_Listed == MainAt("callbacks") /\ blockers[phase] = 0

PhaseDone ==
  MainAt("callbacks") /\ ListedOn(phase) = {} /\ blockers[phase] = 0

EntryDone ==
  /\ PhaseDone /\ ~IsExit(phase)
  /\ phase' = phase + 1 /\ mpc' = "run_state"
  /\ UNCHANGED <<nextState, complete, blockers, callback, calls>>
  /\ UNCHANGED threadVars

RunStateReturns ==
  /\ MainAt("run_state")
  /\ nextState' \in RunState(StateOf(phase))
  /\ mpc' = "callbacks"
  /\ UNCHANGED <<phase, complete, blockers, callback, calls>>
  /\ UNCHANGED threadVars

\* acpi_resume or payload_run does not return.
Handoff ==
  /\ MainAt("run_state") /\ StateOf(phase) \in HandoffStates
  /\ mpc' = "handoff"
  /\ UNCHANGED <<phase, nextState, complete, blockers, callback, calls>>
  /\ UNCHANGED threadVars

ExitDone ==
  /\ PhaseDone /\ IsExit(phase)
  /\ complete' = complete \cup {StateOf(phase)}
  /\ phase' = Phase(nextState, BS_ON_ENTRY)
  /\ mpc' = "walk"
  /\ UNCHANGED <<nextState, blockers, callback, calls>>
  /\ UNCHANGED threadVars

Walk ==
  \/ AlreadyExecuted \/ EnterState \/ CallbackReturns \/ EntryDone
  \/ RunStateReturns \/ Handoff \/ ExitDone
  \/ \E c \in Callbacks : CallCallback(c)
  \/ \E t \in Threads : BlockedRunTimers(t)

-----------------------------------------------------------------------------
(* Calls that callbacks, run_state functions and workers make.             *)

Running(t) ==
  /\ cur = t /\ mpc \notin {"handoff", "die"}
  /\ t \in Workers \/ (t = Main /\ mpc \in {"in_callback", "run_state"})

CallBudget ==
  calls < MaxCalls /\ phase \in ActivePhases /\ calls' = calls + 1

\* boot_state_block refuses a phase that is over, boot_state_unblock also one
\* that is not blocked.
Passed(p) == phase > p

\* Mutant: a flag instead of a count.
Block_Flag(w, p) ==
  /\ blockers' = [blockers EXCEPT ![p] = IF Passed(p) THEN @ ELSE 1]
  /\ holds' = [holds EXCEPT ![w] = IF Passed(p) THEN NoPhase ELSE p]

Block(w, p) ==
  IF Passed(p)
  THEN UNCHANGED blockers /\ holds' = [holds EXCEPT ![w] = NoPhase]
  ELSE /\ blockers' = [blockers EXCEPT ![p] = @ + 1]
       /\ holds' = [holds EXCEPT ![w] = p]

\* Mutants: nothing is checked; nothing is done.
Unblock_Unchecked(p) == blockers' = [blockers EXCEPT ![p] = @ - 1]
Unblock_Missing(p) == p \in Phases /\ UNCHANGED blockers

Unblock(p) ==
  IF Passed(p) \/ blockers[p] = 0
  THEN UNCHANGED blockers
  ELSE blockers' = [blockers EXCEPT ![p] = @ - 1]

\* A free thread is started and runs call_wrapper_block_current at once.
ThreadRun(t, w) ==
  /\ Running(t) /\ canYield[t] /\ CallBudget
  /\ get_free_thread(w) /\ prepare_thread(w) /\ SwitchTo(w)
  /\ unblock' = [unblock EXCEPT ![w] = NoPhase]
  /\ Block(w, phase)
  /\ UNCHANGED <<callback, sleeping>> /\ UNCHANGED walkVars

\* The same with call_wrapper_block_state, which ignores a refused block.
ThreadRunUntil(t, w, p) ==
  /\ Running(t) /\ canYield[t] /\ CallBudget
  /\ get_free_thread(w) /\ prepare_thread(w) /\ SwitchTo(w)
  /\ unblock' = [unblock EXCEPT ![w] = p]
  /\ Block(w, p)
  /\ UNCHANGED <<callback, sleeping>> /\ UNCHANGED walkVars

\* The worker's function returns: the wrapper unblocks and terminates it.
ThreadEnds(w) ==
  /\ Running(w) /\ w \in Workers
  /\ Unblock(IF unblock[w] = NoPhase THEN phase ELSE unblock[w])
  /\ holds' = [holds EXCEPT ![w] = NoPhase]
  /\ unblock' = [unblock EXCEPT ![w] = NoPhase]
  /\ free' = free \cup {w}
  /\ SwitchAway
  /\ UNCHANGED <<phase, nextState, complete, callback, sleeping, canYield, calls>>

\* udelay: thread_yield_microseconds sleeps.  When the thread may not yield or
\* the timer queue is full, udelay spins instead and nothing changes.
Yield(t) ==
  /\ Running(t) /\ CanSleep(t) /\ CallBudget
  /\ sleeping' = sleeping \cup {t}
  /\ SwitchAway
  /\ UNCHANGED <<phase, nextState, complete, blockers, callback, free, canYield,
                 holds, unblock>>

\* thread_cooperate and thread_prevent_coop
SetCoop(t, b) ==
  /\ Running(t) /\ canYield[t] # b /\ CallBudget
  /\ canYield' = [canYield EXCEPT ![t] = b]
  /\ UNCHANGED <<blockers, callback, cur, runnable, sleeping, free, holds, unblock>>
  /\ UNCHANGED walkVars

\* boot_state_sched_callback refuses only a state that is complete.
SchedCallback(t, c, p) ==
  /\ Running(t) /\ callback[c] = Unscheduled /\ CallBudget
  /\ StateOf(p) \notin complete
  /\ callback' = [callback EXCEPT ![c] = p]
  /\ UNCHANGED blockers /\ UNCHANGED walkVars /\ UNCHANGED threadVars

\* The idle thread runs timers_run for ever.
IdleRunsTimers(t) ==
  /\ cur = Idle
  /\ TimerFires(t)
  /\ UNCHANGED <<blockers, callback, free, canYield, holds, unblock, calls>>
  /\ UNCHANGED walkVars

Calls(t) ==
  \/ \E w \in Workers : ThreadRun(t, w)
  \/ \E w \in Workers, p \in ActivePhases : ThreadRunUntil(t, w, p)
  \/ Yield(t)
  \/ \E b \in BOOLEAN : SetCoop(t, b)
  \/ \E c \in Callbacks, p \in ActivePhases : SchedCallback(t, c, p)

Next ==
  \/ Walk
  \/ \E t \in Threads : Calls(t)
  \/ \E w \in Workers : ThreadEnds(w)
  \/ \E t \in Threads : IdleRunsTimers(t)

\* The CPU runs and every timer expires.  Since calls are bounded, every
\* callback, run_state function and worker ends.
Spec == Init /\ [][Next]_vars /\ WF_vars(Next)

-----------------------------------------------------------------------------
(* Properties.                                                             *)

OnRunnable(t) == {i \in 1 .. Len(runnable) : runnable[i] = t}

\* The lists of lib/thread.c never share a thread or lose one: every thread is
\* running, on the runnable list (once), asleep on a timer or free.
OnePlace ==
  \A t \in Threads :
    Cardinality(OnRunnable(t)) + (IF cur = t THEN 1 ELSE 0)
      + (IF t \in sleeping THEN 1 ELSE 0) + (IF t \in free THEN 1 ELSE 0) = 1

\* schedule(NULL) never finds "Runnable thread list is empty!": the idle thread
\* is under every other runnable thread, and itself never yields or ends.
NeverEmpty == cur # Idle => runnable # <<>> /\ runnable[1] = Idle

\* Whenever main runs, no worker is waiting for the CPU: the state machine never
\* advances past a worker that could run.
MainRunsLast == cur = Main => runnable = <<Idle>>

\* The blockers of a phase that is not over count the live workers that blocked
\* it, across nested starts, refused blocks and sleeps.
BlockersExact ==
  \A p \in Phases : ~Passed(p) =>
    blockers[p] = Cardinality({w \in Workers : holds[w] = p})

\* A phase is not left while a worker that blocked it lives ("the thread will
\* block the current state in the boot state machine until it is complete");
\* only a state that is skipped altogether lets one go.
PhaseHeld ==
  \A w \in Workers : holds[w] # NoPhase =>
    /\ StateOf(holds[w]) \notin complete
    /\ StateOf(holds[w]) = StateOf(phase) => phase <= holds[w]

\* An exit callback that was accepted for a state has been called when the state
\* is complete, whoever scheduled it and however late.
ExitCallbacksCalled ==
  \A c \in Callbacks :
    callback[c] \in Phases /\ IsExit(callback[c]) =>
      StateOf(callback[c]) \notin complete

\* The same for every callback that was accepted: what bootstate.h promises
\* ("0 is returned on success").
CallbacksCalled ==
  \A c \in Callbacks :
    callback[c] \in Phases => StateOf(callback[c]) \notin complete

\* The state machine hands over, or dies after a payload that returned: no
\* blocked phase waits for ever.
BootEnds == <>(mpc \in {"handoff", "die"})
=============================================================================
