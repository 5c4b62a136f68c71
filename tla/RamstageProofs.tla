--------------------------- MODULE RamstageProofs ---------------------------
(***************************************************************************)
(* Proofs about Ramstage for any number of threads, callbacks, timers and  *)
(* calls: the thread lists, the count of blockers, and what a state that   *)
(* is complete leaves behind.                                              *)
(***************************************************************************)
EXTENDS Ramstage, FiniteSetTheorems, TLAPS

-----------------------------------------------------------------------------
(* The inductive invariant.                                                *)

\* runnable_threads with the running thread on top.
Stack == Append(runnable, cur)
Depth == Len(Stack)

\* The lists of lib/thread.c: the idle thread is at the bottom of the stack,
\* main directly on it, and a thread has one place.
Listed ==
  /\ Stack[1] = Idle
  /\ \A i \in 1 .. Depth : Stack[i] = Main => i = 2
  /\ \A i, j \in 1 .. Depth : Stack[i] = Stack[j] => i = j
  /\ \A i \in 1 .. Depth : Stack[i] \notin sleeping /\ Stack[i] \notin free
  /\ sleeping \cap free = {} /\ Idle \notin sleeping
  /\ \A t \in Threads :
       t \in sleeping \/ t \in free \/ \E i \in 1 .. Depth : Stack[i] = t

\* The walk has come back to a state it completed, and is about to die.
Over == StateOf(phase) \in complete

\* Where bs_walk_state_machine is, against the states it has completed.
Walked ==
  /\ mpc \in {"walk", "die", "handoff"} => cur = Main
  /\ Over => mpc \in {"walk", "die"}
  /\ mpc = "walk" => ~IsExit(phase)
  /\ mpc = "run_state" => IsExit(phase)
  /\ mpc \in {"callbacks", "in_callback"} /\ IsExit(phase) =>
       nextState \in RunState(StateOf(phase))
  /\ \A s \in complete : s <= StateOf(phase)

\* A free thread blocks nothing; a live one still blocks the phase that it
\* will unblock, or its block was refused.
Held ==
  /\ \A w \in free : holds[w] = NoPhase
  /\ \A w \in Workers : w \notin free =>
       IF unblock[w] = NoPhase
       THEN holds[w] = phase
       ELSE \/ holds[w] = unblock[w]
            \/ holds[w] = NoPhase /\ (Passed(unblock[w]) \/ Over)
  /\ IsExit(phase) => blockers[phase - 1] = 0

Counted == Held /\ BlockersExact /\ PhaseHeld

Inv == TypeOK /\ Listed /\ Walked /\ Counted

-----------------------------------------------------------------------------
(* Types.                                                                  *)

\* A switch leaves the lists and the running thread among the threads.
LEMMA SwitchTypes ==
  ASSUME TypeOK
  PROVE  /\ \A t \in Threads : SwitchTo(t) =>
              cur' \in Threads /\ runnable' \in Seq(Threads)
         /\ SwitchAway =>
              /\ cur' \in Threads /\ runnable' \in Seq(Threads)
              /\ mpc' \in {mpc, "die"}
<1>1. cur \in Threads /\ runnable \in Seq(Threads)
  BY DEF TypeOK
<1>2. runnable # <<>> => Len(runnable) \in 1 .. Len(runnable)
  BY <1>1
<1> QED BY <1>1, <1>2 DEF SwitchTo, SwitchAway

\* boot_state_block and boot_state_unblock keep counts.
LEMMA CountTypes ==
  ASSUME TypeOK
  PROVE  /\ \A w \in Workers, p \in Phases : Block(w, p) =>
              /\ blockers' \in [Phases -> Nat]
              /\ holds' \in [Workers -> Phases \cup {NoPhase}]
         /\ \A p \in Phases : Unblock(p) => blockers' \in [Phases -> Nat]
<1>1. /\ blockers \in [Phases -> Nat]
      /\ holds \in [Workers -> Phases \cup {NoPhase}]
  BY DEF TypeOK
<1>2. ASSUME NEW w \in Workers, NEW p \in Phases, Block(w, p)
      PROVE  /\ blockers' \in [Phases -> Nat]
             /\ holds' \in [Workers -> Phases \cup {NoPhase}]
  BY <1>1, <1>2 DEF Block
<1>3. ASSUME NEW p \in Phases, Unblock(p) PROVE blockers' \in [Phases -> Nat]
  <2>1. blockers[p] # 0 => blockers[p] - 1 \in Nat
    BY <1>1
  <2> QED BY <1>1, <1>3, <2>1 DEF Unblock
<1> QED BY <1>2, <1>3

\* The parts of a phase.
LEMMA PhaseFacts ==
  ASSUME NEW p \in Phases
  PROVE  /\ StateOf(p) \in States /\ p \in Int
         /\ p = 2 * StateOf(p) + (IF IsExit(p) THEN 1 ELSE 0)
BY DEF Phases, States, StateOf, IsExit, BS_ON_EXIT

\* The phases of a state, and what its handler may return.
LEMMA StateFacts ==
  ASSUME NEW s \in States
  PROVE  /\ Phase(s, BS_ON_ENTRY) \in Phases
         /\ StateOf(Phase(s, BS_ON_ENTRY)) = s /\ ~IsExit(Phase(s, BS_ON_ENTRY))
         /\ RunState(s) \subseteq States
         /\ \A n \in RunState(s) : n >= s
BY DEF Phases, States, StateOf, Phase, IsExit, BS_ON_EXIT, BS_ON_ENTRY, RunState,
   BS_OS_RESUME_CHECK, BS_OS_RESUME, BS_WRITE_TABLES, BS_PAYLOAD_BOOT

\* From an entry phase the walk goes on to the exit phase of the same state.
LEMMA NextPhase ==
  ASSUME NEW p \in Phases, ~IsExit(p)
  PROVE  p + 1 \in Phases /\ IsExit(p + 1) /\ StateOf(p + 1) = StateOf(p)
BY DEF Phases, StateOf, IsExit, BS_ON_EXIT

\* main() begins with the types.
LEMMA InitTypes == ASSUME Init PROVE TypeOK
<1>1. canYield \in [Threads -> BOOLEAN]
  BY Zenon DEF Init
<1>2. cur \in Threads /\ runnable \in Seq(Threads) /\ sleeping \subseteq Threads
  BY DEF Init, Threads
<1>3. callback \in [Callbacks -> Phases \cup {Unscheduled, Called}]
  BY ThreadsAssumption DEF Init, Phases
<1>4. phase \in Phases /\ nextState \in States /\ blockers \in [Phases -> Nat]
  BY DEF Init, Phases, States
<1> QED BY <1>1, <1>2, <1>3, <1>4 DEF Init, TypeOK, MainLocs

\* Every step keeps the types.
LEMMA TypeStep ==
  ASSUME TypeOK, [Next]_vars
  PROVE  TypeOK'
<1>1. /\ StateOf(phase) \in States /\ ActivePhases \subseteq Phases
      /\ Workers \subseteq Threads /\ Main \in Threads
  BY PhaseFacts, ThreadsAssumption DEF TypeOK, Phases, Threads
<1>2. CASE Walk
  <2>1. CASE AlreadyExecuted \/ CallbackReturns \/ Handoff
    BY <2>1 DEF AlreadyExecuted, CallbackReturns, Handoff, TypeOK, threadVars, MainLocs
  <2>2. CASE EnterState
    BY <2>2, SwitchTypes
    DEF EnterState, TypeOK, MainLocs, TimerFires, timers_run
  <2>3. ASSUME NEW c \in Callbacks, CallCallback(c) PROVE TypeOK'
    BY <2>3 DEF CallCallback, TypeOK, MainLocs, threadVars
  <2>4. ASSUME NEW t \in Threads, BlockedRunTimers(t) PROVE TypeOK'
    BY <2>4, SwitchTypes DEF BlockedRunTimers, TypeOK, TimerFires, timers_run, walkVars
  <2>5. CASE EntryDone
    BY <2>5, NextPhase DEF EntryDone, TypeOK, MainLocs, threadVars
  <2>6. CASE RunStateReturns
    BY <2>6, <1>1, StateFacts DEF RunStateReturns, TypeOK, MainLocs, threadVars
  <2>7. CASE ExitDone
    BY <2>7, <1>1, StateFacts DEF ExitDone, TypeOK, MainLocs, threadVars
  <2> QED BY <1>2, <2>1, <2>2, <2>3, <2>4, <2>5, <2>6, <2>7 DEF Walk
<1>3. ASSUME NEW t \in Threads, Calls(t) PROVE TypeOK'
  <2>0. CallBudget => calls' \in Nat
    BY DEF CallBudget, TypeOK
  <2>1. ASSUME NEW w \in Workers, ThreadRun(t, w) PROVE TypeOK'
    BY <1>1, <2>0, <2>1, SwitchTypes, CountTypes
    DEF ThreadRun, TypeOK, get_free_thread, prepare_thread, walkVars
  <2>2. ASSUME NEW w \in Workers, NEW p \in ActivePhases, ThreadRunUntil(t, w, p)
        PROVE  TypeOK'
    BY <1>1, <2>0, <2>2, SwitchTypes, CountTypes
    DEF ThreadRunUntil, TypeOK, get_free_thread, prepare_thread, walkVars
  <2>3. CASE Yield(t)
    BY <1>1, <2>0, <2>3, SwitchTypes DEF Yield, TypeOK, MainLocs
  <2>4. ASSUME NEW b \in BOOLEAN, SetCoop(t, b) PROVE TypeOK'
    BY <2>0, <2>4 DEF SetCoop, TypeOK, walkVars
  <2>5. ASSUME NEW c \in Callbacks, NEW p \in ActivePhases, SchedCallback(t, c, p)
        PROVE  TypeOK'
    BY <1>1, <2>0, <2>5 DEF SchedCallback, TypeOK, walkVars, threadVars
  <2> QED BY <1>3, <2>1, <2>2, <2>3, <2>4, <2>5 DEF Calls
<1>4. ASSUME NEW w \in Workers, ThreadEnds(w) PROVE TypeOK'
  <2>1. (IF unblock[w] = NoPhase THEN phase ELSE unblock[w]) \in Phases
    BY DEF TypeOK
  <2> QED BY <1>4, <2>1, SwitchTypes, CountTypes DEF ThreadEnds, TypeOK, MainLocs
<1>5. ASSUME NEW t \in Threads, IdleRunsTimers(t) PROVE TypeOK'
  BY <1>5, SwitchTypes DEF IdleRunsTimers, TypeOK, TimerFires, timers_run, walkVars
<1>6. CASE UNCHANGED vars
  BY <1>6 DEF vars, TypeOK
<1> QED BY <1>2, <1>3, <1>4, <1>5, <1>6 DEF Next

\* Main is in the walk, threads are on their lists and every count is a count,
\* for any number of threads, callbacks and calls.
THEOREM RamstageTypeCorrect == Spec => []TypeOK
<1>1. Init => TypeOK
  BY InitTypes
<1> QED BY <1>1, TypeStep, PTL DEF Spec

-----------------------------------------------------------------------------
(* The lists of threads.                                                   *)

\* schedule(t) puts t on the stack.
LEMMA Pushed ==
  ASSUME TypeOK, NEW t \in Threads, SwitchTo(t)
  PROVE  /\ Depth \in Nat /\ Depth >= 1 /\ Depth' = Depth + 1
         /\ \A i \in 1 .. Depth : Stack'[i] = Stack[i]
         /\ Stack'[Depth + 1] = t /\ Stack[Depth] = cur
BY DEF TypeOK, SwitchTo, Stack, Depth

\* schedule(NULL) takes the running thread off the stack.
LEMMA Popped ==
  ASSUME TypeOK, runnable # <<>>, SwitchAway
  PROVE  /\ Depth \in Nat /\ Depth >= 2 /\ Depth' = Depth - 1
         /\ \A i \in 1 .. Depth - 1 : Stack'[i] = Stack[i]
         /\ Stack[Depth] = cur /\ mpc' = mpc
BY DEF TypeOK, SwitchAway, Stack, Depth

\* The running thread is on top, and the idle thread runs only alone.
LEMMA TopOfStack ==
  ASSUME TypeOK, Listed
  PROVE  /\ Depth \in Nat /\ Depth >= 1 /\ Stack[Depth] = cur
         /\ cur = Idle => Depth = 1
         /\ cur = Main => Depth = 2
         /\ cur # Idle => runnable # <<>>
         /\ Depth = Len(runnable) + 1
         /\ \A i \in 1 .. Len(runnable) : Stack[i] = runnable[i]
<1>1. /\ Depth \in Nat /\ Depth >= 1 /\ Stack[Depth] = cur
      /\ runnable = <<>> => Depth = 1
      /\ Depth = Len(runnable) + 1
      /\ \A i \in 1 .. Len(runnable) : Stack[i] = runnable[i]
  BY DEF TypeOK, Stack, Depth
<1> QED BY <1>1 DEF Listed

\* A thread that was asleep or free is switched to.
LEMMA ListedPush ==
  ASSUME TypeOK, Listed, NEW t \in Threads, SwitchTo(t),
         t \in sleeping \/ t \in free, t = Main => Depth = 1,
         sleeping' = sleeping \ {t}, free' = free \ {t}
  PROVE  Listed'
<1>1. /\ Depth \in Nat /\ Depth >= 1 /\ Depth' = Depth + 1
      /\ \A i \in 1 .. Depth : Stack'[i] = Stack[i]
      /\ Stack'[Depth + 1] = t
  BY Pushed
<1>2. \A i \in 1 .. Depth' : i \in 1 .. Depth \/ i = Depth + 1
  BY <1>1
<1>3. \A i \in 1 .. Depth : i \in 1 .. Depth' /\ Stack[i] # t
  BY <1>1 DEF Listed
<1>4. (Stack[1] = Idle)'
  BY <1>1 DEF Listed
<1>5. (\A i \in 1 .. Depth : Stack[i] = Main => i = 2)'
  BY <1>1, <1>2 DEF Listed
<1>6. (\A i, j \in 1 .. Depth : Stack[i] = Stack[j] => i = j)'
  BY <1>1, <1>2, <1>3 DEF Listed
<1>7. (\A i \in 1 .. Depth : Stack[i] \notin sleeping /\ Stack[i] \notin free)'
  BY <1>1, <1>2 DEF Listed
<1>8. (sleeping \cap free = {} /\ Idle \notin sleeping)'
  BY DEF Listed
<1>9. (\A s \in Threads :
         s \in sleeping \/ s \in free \/ \E i \in 1 .. Depth : Stack[i] = s)'
  <2> SUFFICES ASSUME NEW s \in Threads, s \notin sleeping', s \notin free'
               PROVE  \E i \in 1 .. Depth' : Stack'[i] = s
    OBVIOUS
  <2>1. CASE s = t
    BY <1>1, <2>1
  <2>2. CASE s # t
    <3>1. PICK i \in 1 .. Depth : Stack[i] = s
      BY <2>2 DEF Listed
    <3> QED BY <1>1, <1>3, <3>1
  <2> QED BY <2>1, <2>2
<1> QED BY <1>4, <1>5, <1>6, <1>7, <1>8, <1>9 DEF Listed

\* The running thread, which is not the idle thread, goes to sleep or ends.
LEMMA ListedPop ==
  ASSUME TypeOK, Listed, cur # Idle, SwitchAway,
         \/ sleeping' = sleeping \cup {cur} /\ free' = free
         \/ free' = free \cup {cur} /\ sleeping' = sleeping
  PROVE  Listed' /\ mpc' = mpc
<1>1. /\ Depth \in Nat /\ Depth >= 2 /\ Depth' = Depth - 1
      /\ \A i \in 1 .. Depth - 1 : Stack'[i] = Stack[i]
      /\ Stack[Depth] = cur /\ mpc' = mpc
  BY Popped, TopOfStack
<1>2. \A i \in 1 .. Depth' : i \in 1 .. Depth /\ Stack'[i] = Stack[i]
  BY <1>1
<1>3. \A i \in 1 .. Depth : i \in 1 .. Depth' \/ Stack[i] = cur
  BY <1>1
<1>4. (Stack[1] = Idle)'
  BY <1>1, <1>2 DEF Listed
<1>5. (\A i \in 1 .. Depth : Stack[i] = Main => i = 2)'
  BY <1>2 DEF Listed
<1>6. (\A i, j \in 1 .. Depth : Stack[i] = Stack[j] => i = j)'
  BY <1>2 DEF Listed
<1>7. (\A i \in 1 .. Depth : Stack[i] \notin sleeping /\ Stack[i] \notin free)'
  <2>1. \A i \in 1 .. Depth' : Stack[i] # cur
    BY <1>1, <1>2 DEF Listed
  <2> QED BY <1>2, <2>1 DEF Listed
<1>8. (sleeping \cap free = {} /\ Idle \notin sleeping)'
  <2>1. cur \notin sleeping /\ cur \notin free
    BY <1>1 DEF Listed
  <2> QED BY <2>1 DEF Listed
<1>9. (\A s \in Threads :
         s \in sleeping \/ s \in free \/ \E i \in 1 .. Depth : Stack[i] = s)'
  <2> SUFFICES ASSUME NEW s \in Threads, s \notin sleeping', s \notin free'
               PROVE  \E i \in 1 .. Depth' : Stack'[i] = s
    OBVIOUS
  <2>1. PICK i \in 1 .. Depth : Stack[i] = s
    BY DEF Listed
  <2> QED BY <1>2, <1>3, <2>1
<1> QED BY <1>1, <1>4, <1>5, <1>6, <1>7, <1>8, <1>9 DEF Listed

\* The lists depend on nothing else.
LEMMA ListedSame ==
  ASSUME Listed, UNCHANGED <<cur, runnable, sleeping, free>>
  PROVE  Listed'
BY DEF Listed, Stack, Depth

\* A timer that fires takes its thread from the sleeping ones.
LEMMA ListedTimer ==
  ASSUME TypeOK, Listed, NEW t \in Threads, TimerFires(t), free' = free,
         cur \in {Main, Idle}
  PROVE  Listed'
<1>1. t \in sleeping /\ t \notin free /\ sleeping' = sleeping \ {t} /\ SwitchTo(t)
  BY DEF TimerFires, timers_run, Listed
<1>2. t = Main => Depth = 1
  BY <1>1, TopOfStack DEF Listed
<1> QED BY <1>1, <1>2, ListedPush

\* A free thread is started.
LEMMA ListedStart ==
  ASSUME TypeOK, Listed, NEW w \in Workers, get_free_thread(w), SwitchTo(w),
         sleeping' = sleeping
  PROVE  Listed'
<1>1. w \in free /\ w \notin sleeping /\ free' = free \ {w}
  BY DEF get_free_thread, Listed
<1>2. w # Main /\ w \in Threads /\ sleeping' = sleeping \ {w}
  BY <1>1, ThreadsAssumption DEF Threads
<1> QED BY <1>1, <1>2, ListedPush

\* Every step keeps the lists in order, and never finds them empty.
LEMMA ListedStep ==
  ASSUME TypeOK, Listed, [Next]_vars
  PROVE  Listed'
<1>1. CASE Walk
  <2>1. CASE EnterState
    <3>1. ASSUME NEW t \in sleeping, TimerFires(t) PROVE Listed'
      BY <2>1, <3>1, ListedTimer DEF EnterState, MainAt, TypeOK
    <3> QED BY <2>1, <3>1, ListedSame DEF EnterState
  <2>2. ASSUME NEW t \in Threads, BlockedRunTimers(t) PROVE Listed'
    BY <2>2, ListedTimer DEF BlockedRunTimers, MainAt
  <2> QED
    BY <1>1, <2>1, <2>2, ListedSame
    DEF Walk, AlreadyExecuted, CallbackReturns, EntryDone, RunStateReturns, Handoff,
        ExitDone, CallCallback, threadVars
<1>2. ASSUME NEW t \in Threads, Calls(t) PROVE Listed'
  <2>1. ASSUME NEW w \in Workers, ThreadRun(t, w) PROVE Listed'
    BY <2>1, ListedStart DEF ThreadRun
  <2>2. ASSUME NEW w \in Workers, NEW p \in ActivePhases, ThreadRunUntil(t, w, p)
        PROVE  Listed'
    BY <2>2, ListedStart DEF ThreadRunUntil
  <2>3. CASE Yield(t)
    <3>1. cur = t /\ cur # Idle
      BY <2>3, ThreadsAssumption DEF Yield, Running
    <3> QED BY <2>3, <3>1, ListedPop DEF Yield
  <2> QED
    BY <1>2, <2>1, <2>2, <2>3, ListedSame DEF Calls, SetCoop, SchedCallback, threadVars
<1>3. ASSUME NEW w \in Workers, ThreadEnds(w) PROVE Listed'
  <2>1. cur = w /\ cur # Idle
    BY <1>3, ThreadsAssumption DEF ThreadEnds, Running
  <2> QED BY <1>3, <2>1, ListedPop DEF ThreadEnds
<1>4. ASSUME NEW t \in Threads, IdleRunsTimers(t) PROVE Listed'
  BY <1>4, ListedTimer DEF IdleRunsTimers
<1>5. CASE UNCHANGED vars
  BY <1>5, ListedSame DEF vars
<1> QED BY <1>1, <1>2, <1>3, <1>4, <1>5 DEF Next

LEMMA InitListed == ASSUME Init PROVE Listed
<1>1. Depth = 2 /\ Stack[1] = Idle /\ Stack[2] = Main
  BY DEF Init, Stack, Depth
<1>2. \A i \in 1 .. Depth : i = 1 \/ i = 2
  BY <1>1
<1>3. 1 \in 1 .. Depth /\ 2 \in 1 .. Depth
  BY <1>1
<1> QED BY <1>1, <1>2, <1>3, ThreadsAssumption DEF Init, Listed, Threads

\* The lists of lib/thread.c never share a thread or lose one, however starts,
\* sleeps, timers and ends are nested.
THEOREM ThreadsHaveOnePlace == Spec => []OnePlace
<1>1. ASSUME TypeOK, Listed PROVE OnePlace
  <2> SUFFICES ASSUME NEW t \in Threads
               PROVE  Cardinality(OnRunnable(t)) + (IF cur = t THEN 1 ELSE 0)
                        + (IF t \in sleeping THEN 1 ELSE 0)
                        + (IF t \in free THEN 1 ELSE 0) = 1
    BY DEF OnePlace
  <2>0. /\ Depth \in Nat /\ Depth >= 1 /\ Stack[Depth] = cur
        /\ Depth = Len(runnable) + 1 /\ Len(runnable) \in Nat
        /\ \A i \in 1 .. Len(runnable) : Stack[i] = runnable[i] /\ i \in 1 .. Depth
    BY <1>1, TopOfStack DEF TypeOK
  <2>1. CASE \E i \in 1 .. Len(runnable) : runnable[i] = t
    <3>1. PICK i \in 1 .. Len(runnable) : runnable[i] = t
      BY <2>1
    <3>2. OnRunnable(t) = {i}
      BY <1>1, <2>0, <3>1 DEF OnRunnable, Listed
    <3>3. Cardinality(OnRunnable(t)) = 1
      BY <3>2, FS_Singleton
    <3>4. cur # t /\ t \notin sleeping /\ t \notin free
      BY <1>1, <2>0, <3>1 DEF Listed
    <3> QED BY <3>3, <3>4
  <2>2. CASE ~\E i \in 1 .. Len(runnable) : runnable[i] = t
    <3>1. OnRunnable(t) = {}
      BY <2>2 DEF OnRunnable
    <3>2. Cardinality(OnRunnable(t)) = 0
      BY <3>1, FS_EmptySet
    <3>3. CASE cur = t
      BY <1>1, <2>0, <3>2, <3>3 DEF Listed
    <3>4. CASE cur # t
      <4>1. \A i \in 1 .. Depth : i \in 1 .. Len(runnable) \/ i = Depth
        BY <2>0
      <4>2. t \in sleeping \/ t \in free
        BY <1>1, <2>0, <2>2, <3>4, <4>1 DEF Listed
      <4>3. ~(t \in sleeping /\ t \in free)
        BY <1>1 DEF Listed
      <4> QED BY <3>2, <3>4, <4>2, <4>3
    <3> QED BY <3>3, <3>4
  <2> QED BY <2>1, <2>2
<1> QED BY <1>1, InitTypes, InitListed, TypeStep, ListedStep, PTL DEF Spec

\* schedule(NULL) never dies with "Runnable thread list is empty!".
THEOREM RunnableNeverEmpty == Spec => []NeverEmpty
<1>1. ASSUME TypeOK, Listed PROVE NeverEmpty
  <2>1. cur # Idle => runnable # <<>> /\ 1 \in 1 .. Len(runnable)
    BY <1>1, TopOfStack DEF TypeOK
  <2> QED BY <1>1, <2>1, TopOfStack DEF NeverEmpty, Listed
<1> QED BY <1>1, InitTypes, InitListed, TypeStep, ListedStep, PTL DEF Spec

\* The state machine runs only when no worker waits for the CPU.
THEOREM MainAlwaysRunsLast == Spec => []MainRunsLast
<1>1. ASSUME TypeOK, Listed, cur = Main PROVE runnable = <<Idle>>
  <2>1. runnable \in Seq(Threads) /\ Len(runnable) \in Nat
    BY <1>1 DEF TypeOK
  <2>2. Len(runnable) = 1
    <3>1. Depth = 2 /\ Depth = Len(runnable) + 1
      BY <1>1, TopOfStack
    <3>2. \A n \in Nat : 2 = n + 1 => n = 1
      OBVIOUS
    <3> QED BY <2>1, <3>1, <3>2, Zenon
  <2>3. runnable[1] = Idle
    BY <1>1, <2>2, TopOfStack DEF Listed
  <2> QED BY <2>1, <2>2, <2>3
<1>2. TypeOK /\ Listed => MainRunsLast
  BY <1>1 DEF MainRunsLast
<1> QED BY <1>2, InitTypes, InitListed, TypeStep, ListedStep, PTL DEF Spec

-----------------------------------------------------------------------------
(* The walk through the boot states.                                       *)

\* Only the walk itself changes where the walk is.
LEMMA CallsKeepWalk ==
  ASSUME TypeOK, Listed, NEW t \in Threads, Calls(t)
  PROVE  UNCHANGED walkVars /\ Running(t)
<1>1. ASSUME Yield(t) PROVE UNCHANGED walkVars /\ Running(t)
  <2>1. cur # Idle
    BY <1>1, ThreadsAssumption DEF Yield, Running
  <2> QED BY <1>1, <2>1, ListedPop DEF Yield, Running, walkVars
<1> QED
  BY <1>1 DEF Calls, ThreadRun, ThreadRunUntil, SetCoop, SchedCallback

\* The end of a thread leaves the walk alone.
LEMMA EndKeepsWalk ==
  ASSUME TypeOK, Listed, NEW w \in Workers, ThreadEnds(w)
  PROVE  UNCHANGED walkVars /\ Running(w)
<1>1. cur = w /\ cur # Idle
  BY ThreadsAssumption DEF ThreadEnds, Running
<1> QED BY <1>1, ListedPop DEF ThreadEnds, walkVars

\* Somebody other than main runs only while main is within a state.
LEMMA WalkedSame ==
  ASSUME Walked, UNCHANGED walkVars,
         mpc \notin {"walk", "die", "handoff"} \/ cur' = cur
  PROVE  Walked'
BY DEF Walked, walkVars, Over, StateOf, IsExit

\* Every step keeps the walk in order.
LEMMA WalkedStep ==
  ASSUME TypeOK, Listed, Walked, [Next]_vars
  PROVE  Walked'
<1>0. /\ phase \in Phases /\ nextState \in States /\ complete \subseteq States
      /\ StateOf(phase) \in States /\ \A s \in States : s \in Int
  BY PhaseFacts DEF TypeOK, States
<1>1. CASE AlreadyExecuted
  BY <1>1 DEF AlreadyExecuted, Walked, MainAt, threadVars, Over
<1>2. CASE EnterState
  BY <1>2 DEF EnterState, Walked, MainAt, Over
<1>3. CASE CallbackReturns
  BY <1>3 DEF CallbackReturns, Walked, MainAt, Over, threadVars
<1>4. CASE EntryDone
  BY <1>0, <1>4, NextPhase DEF EntryDone, PhaseDone, Walked, MainAt, Over, threadVars
<1>5. CASE RunStateReturns
  BY <1>5 DEF RunStateReturns, Walked, MainAt, Over, threadVars
<1>6. CASE Handoff
  BY <1>6 DEF Handoff, Walked, MainAt, Over, threadVars
<1>7. CASE ExitDone
  <2>1. nextState \in RunState(StateOf(phase))
    BY <1>7 DEF ExitDone, PhaseDone, MainAt, Walked
  <2>2. nextState >= StateOf(phase)
    BY <1>0, <2>1, StateFacts
  <2>3. /\ phase' = Phase(nextState, BS_ON_ENTRY) /\ mpc' = "walk" /\ cur' = Main
        /\ complete' = complete \cup {StateOf(phase)}
    BY <1>7 DEF ExitDone, PhaseDone, MainAt, threadVars
  <2>4. StateOf(phase') = nextState /\ ~IsExit(phase')
    BY <1>0, <2>3, StateFacts
  <2>5. \A s \in complete' : s <= StateOf(phase')
    BY <1>0, <2>2, <2>3, <2>4 DEF Walked
  <2> QED BY <2>3, <2>4, <2>5 DEF Walked
<1>8. ASSUME NEW c \in Callbacks, CallCallback(c) PROVE Walked'
  BY <1>8 DEF CallCallback, Walked, MainAt, Over, threadVars
<1>9. ASSUME NEW t \in Threads, BlockedRunTimers(t) PROVE Walked'
  BY <1>9, WalkedSame DEF BlockedRunTimers, MainAt
<1>10. ASSUME NEW t \in Threads, Calls(t) PROVE Walked'
  <2>1. UNCHANGED walkVars /\ mpc \notin {"walk", "handoff", "die"}
    BY <1>10, CallsKeepWalk, ThreadsAssumption DEF Running, Walked
  <2> QED BY <2>1, WalkedSame
<1>11. ASSUME NEW w \in Workers, ThreadEnds(w) PROVE Walked'
  <2>1. UNCHANGED walkVars /\ mpc \notin {"walk", "handoff", "die"}
    BY <1>11, EndKeepsWalk, ThreadsAssumption DEF Running, Walked
  <2> QED BY <2>1, WalkedSame
<1>12. ASSUME NEW t \in Threads, IdleRunsTimers(t) PROVE Walked'
  <2>1. UNCHANGED walkVars /\ mpc \notin {"walk", "handoff", "die"}
    BY <1>12, ThreadsAssumption DEF IdleRunsTimers, Walked
  <2> QED BY <2>1, WalkedSame
<1>13. CASE UNCHANGED vars
  BY <1>13, WalkedSame DEF vars, walkVars
<1> QED
  BY <1>1, <1>2, <1>3, <1>4, <1>5, <1>6, <1>7, <1>8, <1>9, <1>10, <1>11, <1>12, <1>13
  DEF Next, Walk

\* Every step keeps the exit callbacks of complete states called.
LEMMA ExitCallbacksStep ==
  ASSUME TypeOK, Listed, ExitCallbacksCalled, [Next]_vars
  PROVE  ExitCallbacksCalled'
<1>1. CASE UNCHANGED <<callback, complete>>
  BY <1>1 DEF ExitCallbacksCalled, StateOf, IsExit
<1>2. CASE ExitDone
  <2> SUFFICES ASSUME NEW c \in Callbacks, callback[c] \in Phases, IsExit(callback[c])
               PROVE  StateOf(callback[c]) \notin complete'
    BY <1>2 DEF ExitDone, ExitCallbacksCalled, StateOf, IsExit
  <2>1. callback[c] # phase /\ IsExit(phase) /\ phase \in Phases
    BY <1>2 DEF ExitDone, PhaseDone, ListedOn, TypeOK
  <2>2. StateOf(callback[c]) # StateOf(phase)
    BY <2>1, PhaseFacts
  <2> QED BY <1>2, <2>2 DEF ExitDone, ExitCallbacksCalled
<1>3. ASSUME NEW c \in Callbacks, CallCallback(c) PROVE ExitCallbacksCalled'
  <2>1. Called \notin Phases
    BY DEF Called, Phases
  <2>2. \A d \in Callbacks : callback'[d] = callback[d] \/ callback'[d] = Called
    BY <1>3 DEF CallCallback, TypeOK
  <2> QED BY <1>3, <2>1, <2>2 DEF CallCallback, ExitCallbacksCalled, StateOf, IsExit
<1>4. ASSUME NEW t \in Threads, NEW c \in Callbacks, NEW p \in ActivePhases,
             SchedCallback(t, c, p)
      PROVE  ExitCallbacksCalled'
  <2>1. \A d \in Callbacks : callback'[d] = callback[d] \/ callback'[d] = p
    BY <1>4 DEF SchedCallback, TypeOK
  <2> QED
    BY <1>4, <2>1 DEF SchedCallback, walkVars, ExitCallbacksCalled, StateOf, IsExit
<1> QED
  BY <1>1, <1>2, <1>3, <1>4
  DEF Next, Walk, Calls, AlreadyExecuted, EnterState, CallbackReturns, EntryDone,
      RunStateReturns, Handoff, BlockedRunTimers, ThreadRun, ThreadRunUntil, Yield,
      SetCoop, ThreadEnds, IdleRunsTimers, walkVars, vars

\* An exit callback that boot_state_sched_callback accepted is called before
\* its state is complete, whoever scheduled it and however late.
THEOREM ExitCallbacksAreCalled == Spec => []ExitCallbacksCalled
<1>1. Init => ExitCallbacksCalled
  BY DEF Init, ExitCallbacksCalled
<1> QED
  BY <1>1, InitTypes, InitListed, TypeStep, ListedStep, ExitCallbacksStep, PTL DEF Spec

-----------------------------------------------------------------------------
(* Blocked phases.                                                         *)

Holders(p) == {w \in Workers : holds[w] = p}

\* There are finitely many workers, so the holders of a phase can be counted.
LEMMA HoldersFinite ==
  \A p : /\ IsFiniteSet(Holders(p)) /\ Cardinality(Holders(p)) \in Nat
         /\ Cardinality(Holders(p)) = 0 <=> Holders(p) = {}
<1> TAKE p
<1>1. Holders(p) \in SUBSET Workers /\ IsFiniteSet(Workers)
  BY ThreadsAssumption DEF Holders
<1>2. IsFiniteSet(Holders(p))
  BY <1>1, FS_Subset
<1> QED BY <1>2, FS_CardinalityType, FS_EmptySet

\* One more worker, or one less, holds a phase.
LEMMA HoldersMove ==
  ASSUME holds \in [Workers -> Phases \cup {NoPhase}], NEW w \in Workers,
         NEW CONSTANT p, NEW CONSTANT q, holds[w] = q, q # p,
         holds' = [holds EXCEPT ![w] = p]
  PROVE  /\ holds'[w] = p /\ \A v \in Workers : v # w => holds'[v] = holds[v]
         /\ \A r : r # p /\ r # q => Holders(r)' = Holders(r)
         /\ Cardinality(Holders(p)') = Cardinality(Holders(p)) + 1
         /\ Cardinality(Holders(q)') = Cardinality(Holders(q)) - 1
         /\ Cardinality(Holders(q)) > 0
<1>1. holds'[w] = p /\ \A v \in Workers : v # w => holds'[v] = holds[v]
  OBVIOUS
<1>2. \A r : r # p /\ r # q => Holders(r)' = Holders(r)
  BY <1>1 DEF Holders
<1>3. Holders(p)' = Holders(p) \cup {w} /\ w \notin Holders(p)
  BY <1>1 DEF Holders
<1>4. Holders(q)' = Holders(q) \ {w} /\ w \in Holders(q)
  BY <1>1 DEF Holders
<1>5. Cardinality(Holders(p)') = Cardinality(Holders(p)) + 1
  BY <1>3, HoldersFinite, FS_AddElement
<1>6. Cardinality(Holders(q)') = Cardinality(Holders(q)) - 1
  BY <1>4, HoldersFinite, FS_RemoveElement
<1>7. Cardinality(Holders(q)) > 0
  BY <1>4, HoldersFinite
<1> QED BY <1>1, <1>2, <1>5, <1>6, <1>7

\* BlockersExact in terms of Holders.
LEMMA ExactMeans ==
  BlockersExact <=>
    \A p \in Phases : ~Passed(p) => blockers[p] = Cardinality(Holders(p))
BY DEF BlockersExact, Holders

\* The same after a step.
LEMMA ExactMeansNext ==
  (BlockersExact <=>
    \A p \in Phases : ~Passed(p) => blockers[p] = Cardinality(Holders(p)))'
BY ExactMeans, PTL

\* Nobody holds a phase that is left.
LEMMA PhaseFree ==
  ASSUME TypeOK, BlockersExact, blockers[phase] = 0
  PROVE  \A w \in Workers : holds[w] # phase
<1>1. phase \in Phases /\ ~Passed(phase)
  BY DEF TypeOK, Passed, Phases
<1>2. blockers[phase] = Cardinality(Holders(phase))
  BY <1>1, ExactMeans
<1>3. Cardinality(Holders(phase)) = 0
  BY <1>2
<1>4. Holders(phase) = {}
  BY <1>3, HoldersFinite, Zenon
<1> QED BY <1>4 DEF Holders

\* Phases are numbers, and NoPhase is none of them.
LEMMA PhaseInts ==
  /\ \A p \in Phases : p \in Int
  /\ \A s \in States : s \in Int
  /\ NoPhase \in Int /\ NoPhase \notin Phases
BY DEF Phases, States, NoPhase

\* What TypeOK says of the counts.
LEMMA CountedTypes ==
  ASSUME TypeOK
  PROVE  /\ phase \in Phases /\ phase \in Int
         /\ StateOf(phase) \in States /\ nextState \in States
         /\ holds \in [Workers -> Phases \cup {NoPhase}]
         /\ unblock \in [Workers -> Phases \cup {NoPhase}]
         /\ blockers \in [Phases -> Nat]
         /\ \A w \in Workers : holds[w] \in Int /\ unblock[w] \in Int
BY PhaseInts, PhaseFacts DEF TypeOK

\* A worker is started and blocks a phase, or is refused.
LEMMA CountedStart ==
  ASSUME TypeOK, Counted, Walked, ~Over, NEW w \in Workers, NEW CONSTANT p \in Phases,
         NEW CONSTANT u, u = p \/ (u = NoPhase /\ p = phase),
         w \in free, free' = free \ {w}, Block(w, p),
         unblock' = [unblock EXCEPT ![w] = u], phase' = phase, complete' = complete
  PROVE  Counted'
<1>0. /\ phase \in Phases /\ phase \in Int /\ p \in Int /\ NoPhase \notin Phases
      /\ holds \in [Workers -> Phases \cup {NoPhase}] /\ holds[w] = NoPhase
      /\ unblock \in [Workers -> Phases \cup {NoPhase}]
      /\ blockers \in [Phases -> Nat]
  BY PhaseInts, CountedTypes DEF Counted, Held
<1>1. /\ unblock'[w] = u
      /\ \A v \in Workers : v # w => unblock'[v] = unblock[v]
      /\ \A v \in Workers : v # w => holds'[v] = holds[v]
      /\ holds'[w] = IF Passed(p) THEN NoPhase ELSE p
      /\ Over' = Over
      /\ \A q : Passed(q)' <=> Passed(q)
  BY <1>0 DEF Block, Over, StateOf, Passed
<1>2. Held'
  <2>1. \A v \in free' : holds'[v] = NoPhase
    BY <1>1 DEF Counted, Held, TypeOK
  <2>2. ASSUME NEW v \in Workers, v \notin free'
        PROVE  IF unblock'[v] = NoPhase
               THEN holds'[v] = phase'
               ELSE \/ holds'[v] = unblock'[v]
                    \/ holds'[v] = NoPhase /\ (Passed(unblock[v])' \/ Over')
    <3>1. CASE v = w
      <4>1. ~Passed(phase)
        BY <1>0 DEF Passed
      <4>2. Passed(p) => Passed(unblock[w])' \/ u # p
        BY <1>1 DEF Passed
      <4> QED BY <1>0, <1>1, <3>1, <4>1, <4>2
    <3>2. CASE v # w
      <4>1. v \notin free /\ unblock'[v] = unblock[v] /\ holds'[v] = holds[v]
        BY <1>1, <2>2, <3>2
      <4>2. Passed(unblock[v])' <=> Passed(unblock[v])
        BY <4>1 DEF Passed
      <4> QED BY <1>1, <2>2, <4>1, <4>2 DEF Counted, Held
    <3> QED BY <3>1, <3>2
  <2>3. IsExit(phase') => blockers'[phase' - 1] = 0
    <3>1. IsExit(phase) => phase - 1 \in Phases /\ Passed(phase - 1)
      BY <1>0 DEF Phases, IsExit, BS_ON_EXIT, Passed
    <3>2. IsExit(phase) => blockers'[phase - 1] = blockers[phase - 1]
      BY <1>0, <3>1 DEF Block
    <3> QED BY <3>2 DEF Counted, Held, IsExit
  <2> QED BY <2>1, <2>2, <2>3 DEF Held
<1>3. BlockersExact'
  <2>1. CASE Passed(p)
    <3>1. holds' = holds /\ blockers' = blockers
      BY <1>0, <2>1 DEF Block
    <3> QED BY <3>1 DEF Counted, BlockersExact, Passed
  <2>2. CASE ~Passed(p)
    <3>1. /\ blockers' = [blockers EXCEPT ![p] = @ + 1]
          /\ holds' = [holds EXCEPT ![w] = p]
      BY <2>2 DEF Block
    <3>2. /\ \A r : r # p /\ r # NoPhase => Holders(r)' = Holders(r)
          /\ Cardinality(Holders(p)') = Cardinality(Holders(p)) + 1
      BY <1>0, <3>1, HoldersMove
    <3>3. \A r \in Phases : ~Passed(r)' => blockers'[r] = Cardinality(Holders(r)')
      BY <1>0, <1>1, <3>1, <3>2, ExactMeans DEF Counted
    <3> QED BY <3>3, ExactMeansNext
  <2> QED BY <2>1, <2>2
<1>4. PhaseHeld'
  <2>1. ASSUME ~Passed(p)
        PROVE  StateOf(p) \notin complete /\ phase <= p
    <3>1. phase <= p
      BY <1>0, <2>1 DEF Passed
    <3>2. StateOf(phase) <= StateOf(p) /\ StateOf(p) \in Int /\ StateOf(phase) \in Int
      BY <1>0, <3>1 DEF StateOf, Phases
    <3>3. \A s \in complete : s <= StateOf(phase) /\ s # StateOf(phase) /\ s \in Int
      BY DEF Walked, Over, TypeOK, States
    <3> QED BY <3>1, <3>2, <3>3
  <2>2. ASSUME NEW v \in Workers, holds'[v] # NoPhase
        PROVE  /\ StateOf(holds'[v]) \notin complete
               /\ StateOf(holds'[v]) = StateOf(phase) => phase <= holds'[v]
    BY <1>1, <2>1, <2>2 DEF Counted, PhaseHeld
  <2> QED BY <2>2 DEF PhaseHeld, StateOf
<1> QED BY <1>2, <1>3, <1>4 DEF Counted

\* A worker ends: it unblocks exactly what it blocked.
LEMMA CountedEnd ==
  ASSUME TypeOK, Listed, Counted, Walked, ~Over, NEW w \in Workers, ThreadEnds(w)
  PROVE  Counted'
<1>0. /\ phase \in Phases /\ phase \in Int /\ NoPhase \notin Phases /\ NoPhase \in Int
      /\ holds \in [Workers -> Phases \cup {NoPhase}]
      /\ unblock \in [Workers -> Phases \cup {NoPhase}]
      /\ blockers \in [Phases -> Nat]
      /\ phase' = phase /\ complete' = complete
      /\ \A q : Passed(q)' <=> Passed(q)
      /\ Over' <=> Over
  BY PhaseInts, CountedTypes DEF ThreadEnds, Passed, Over, StateOf
<1>1. /\ unblock'[w] = NoPhase /\ holds'[w] = NoPhase /\ w \notin free
      /\ \A v \in Workers : v # w => unblock'[v] = unblock[v] /\ holds'[v] = holds[v]
      /\ free' = free \cup {w}
  <2>1. w \notin free
    BY TopOfStack DEF ThreadEnds, Running, Listed
  <2> QED BY <1>0, <2>1 DEF ThreadEnds
<1>2. PICK q \in Phases : q = IF unblock[w] = NoPhase THEN phase ELSE unblock[w]
  BY <1>0
<1>3. Unblock(q)
  BY <1>2 DEF ThreadEnds
<1>4. holds[w] = q \/ (holds[w] = NoPhase /\ Passed(q))
  BY <1>0, <1>1, <1>2 DEF Counted, Held
<1>5. Held'
  <2>1. \A v \in free' : holds'[v] = NoPhase
    BY <1>1 DEF Counted, Held, TypeOK
  <2>2. ASSUME NEW v \in Workers, v \notin free'
        PROVE  IF unblock'[v] = NoPhase
               THEN holds'[v] = phase'
               ELSE \/ holds'[v] = unblock'[v]
                    \/ holds'[v] = NoPhase /\ (Passed(unblock[v])' \/ Over')
    <3>1. v # w /\ v \notin free
      BY <1>1, <2>2
    <3>2. unblock'[v] = unblock[v] /\ holds'[v] = holds[v]
      BY <1>1, <3>1
    <3>3. Passed(unblock[v])' <=> Passed(unblock[v])
      BY <1>0, <3>2 DEF Passed
    <3> QED BY <1>0, <3>1, <3>2, <3>3 DEF Counted, Held
  <2>3. IsExit(phase') => blockers'[phase' - 1] = 0
    <3>1. IsExit(phase) => phase - 1 \in Phases /\ Passed(phase - 1)
      BY <1>0 DEF Phases, IsExit, BS_ON_EXIT, Passed
    <3>2. IsExit(phase) => blockers'[phase - 1] = blockers[phase - 1]
      BY <1>0, <1>3, <3>1 DEF Unblock
    <3> QED BY <1>0, <3>2 DEF Counted, Held, IsExit
  <2> QED BY <2>1, <2>2, <2>3 DEF Held
<1>6. BlockersExact'
  <2>1. CASE Passed(q)
    <3>1. blockers' = blockers
      BY <1>3, <2>1 DEF Unblock
    <3>2. \A r \in Phases : ~Passed(r) => Holders(r)' = Holders(r)
      BY <1>0, <1>1, <1>4, <2>1 DEF Holders
    <3>3. \A r \in Phases : ~Passed(r)' => blockers'[r] = Cardinality(Holders(r)')
      BY <1>0, <3>1, <3>2, ExactMeans DEF Counted
    <3> QED BY <3>3, ExactMeansNext
  <2>2. CASE ~Passed(q)
    <3>1. holds[w] = q /\ holds' = [holds EXCEPT ![w] = NoPhase] /\ q # NoPhase
      BY <1>0, <1>2, <1>4, <2>2 DEF ThreadEnds
    <3>2. /\ \A r : r # q /\ r # NoPhase => Holders(r)' = Holders(r)
          /\ Cardinality(Holders(q)') = Cardinality(Holders(q)) - 1
          /\ Cardinality(Holders(q)) > 0
      BY <1>0, <3>1, HoldersMove
    <3>3. blockers[q] = Cardinality(Holders(q)) /\ blockers[q] # 0
      BY <2>2, <3>2, ExactMeans, HoldersFinite DEF Counted
    <3>4. blockers' = [blockers EXCEPT ![q] = @ - 1]
      BY <1>3, <2>2, <3>3 DEF Unblock
    <3>5. \A r \in Phases : ~Passed(r)' => blockers'[r] = Cardinality(Holders(r)')
      BY <1>0, <3>2, <3>3, <3>4, ExactMeans DEF Counted
    <3> QED BY <3>5, ExactMeansNext
  <2> QED BY <2>1, <2>2
<1>7. PhaseHeld'
  <2>1. \A v \in Workers : holds'[v] # NoPhase => holds'[v] = holds[v]
    BY <1>1
  <2> QED BY <1>0, <2>1 DEF Counted, PhaseHeld, StateOf
<1> QED BY <1>5, <1>6, <1>7 DEF Counted

\* The entry phase is left for the exit phase of the state.
LEMMA CountedEntryDone ==
  ASSUME TypeOK, Counted, Walked, EntryDone
  PROVE  Counted'
<1>0. /\ phase \in Phases /\ phase \in Int /\ phase' = phase + 1
      /\ StateOf(phase') = StateOf(phase) /\ ~IsExit(phase)
      /\ UNCHANGED <<holds, unblock, free, blockers, complete>>
      /\ blockers[phase] = 0 /\ (Over' <=> Over)
      /\ \A w \in Workers : holds[w] \in Int /\ unblock[w] \in Int
  BY NextPhase, CountedTypes DEF EntryDone, PhaseDone, threadVars, Over
<1>1. \A w \in Workers : holds[w] # phase
  BY <1>0, PhaseFree DEF Counted
<1>2. \A q \in Int : Passed(q) => Passed(q)'
  BY <1>0 DEF Passed
<1>3. Held'
  <2>1. ASSUME NEW v \in Workers, v \notin free'
        PROVE  IF unblock'[v] = NoPhase
               THEN holds'[v] = phase'
               ELSE \/ holds'[v] = unblock'[v]
                    \/ holds'[v] = NoPhase /\ (Passed(unblock[v])' \/ Over')
    <3>1. unblock[v] \in Int /\ unblock'[v] = unblock[v]
      BY <1>0
    <3>2. Passed(unblock[v]) => Passed(unblock[v])'
      BY <1>0, <3>1 DEF Passed
    <3> QED BY <1>0, <1>1, <2>1, <3>2 DEF Counted, Held
  <2>2. blockers'[phase' - 1] = 0
    BY <1>0
  <2> QED BY <1>0, <2>1, <2>2 DEF Counted, Held
<1>4. BlockersExact'
  BY <1>0, <1>2, PhaseInts DEF Counted, BlockersExact
<1>5. PhaseHeld'
  <2>1. ASSUME NEW w \in Workers, holds[w] # NoPhase, StateOf(holds[w]) = StateOf(phase)
        PROVE  phase' <= holds[w]
    <3>1. phase <= holds[w] /\ holds[w] # phase /\ holds[w] \in Int
      BY <1>0, <1>1, <2>1 DEF Counted, PhaseHeld
    <3> QED BY <1>0, <3>1
  <2> QED BY <1>0, <2>1 DEF Counted, PhaseHeld, StateOf
<1> QED BY <1>3, <1>4, <1>5 DEF Counted

\* A state is complete.  The walk may come back to the last one only to die.
LEMMA CountedExitDone ==
  ASSUME TypeOK, Counted, Walked, ExitDone
  PROVE  Counted'
<1>0. /\ phase \in Phases /\ phase \in Int
      /\ StateOf(phase) \in States /\ nextState \in States
      /\ StateOf(phase) \in Int /\ nextState \in Int
      /\ IsExit(phase) /\ blockers[phase] = 0
      /\ phase' = Phase(nextState, BS_ON_ENTRY)
      /\ complete' = complete \cup {StateOf(phase)}
      /\ UNCHANGED <<holds, unblock, free, blockers>>
      /\ holds \in [Workers -> Phases \cup {NoPhase}]
      /\ \A w \in Workers : holds[w] \in Int /\ unblock[w] \in Int
  BY PhaseInts, CountedTypes DEF ExitDone, PhaseDone, threadVars
<1>1. nextState \in RunState(StateOf(phase)) /\ nextState >= StateOf(phase)
  BY <1>0, StateFacts DEF ExitDone, PhaseDone, MainAt, Walked
<1>2. /\ phase' \in Phases /\ StateOf(phase') = nextState /\ ~IsExit(phase')
      /\ phase' = 2 * nextState
  BY <1>0, StateFacts DEF Phase, BS_ON_ENTRY
<1>3. phase = 2 * StateOf(phase) + 1
  BY <1>0, PhaseFacts
<1>4. \A w \in Workers : holds[w] # phase
  BY <1>0, PhaseFree DEF Counted
<1>5. \A w \in Workers : holds[w] \in Phases => StateOf(holds[w]) # StateOf(phase)
  <2> SUFFICES ASSUME NEW w \in Workers, NEW h \in Phases, h = holds[w],
                      StateOf(h) = StateOf(phase)
               PROVE  FALSE
    OBVIOUS
  <2>1. h = 2 * StateOf(phase) + (IF IsExit(h) THEN 1 ELSE 0)
    BY PhaseFacts
  <2>2. h <= phase /\ h \in Int
    BY <1>0, <1>3, <2>1, PhaseInts
  <2>3. phase <= h
    BY <1>0, PhaseInts DEF Counted, PhaseHeld
  <2>4. h = phase
    BY <1>0, <2>2, <2>3
  <2> QED BY <1>4, <2>4
<1>6. phase' > phase \/ (phase' = phase - 1 /\ Over')
  <2>1. CASE nextState = StateOf(phase)
    BY <1>0, <1>2, <1>3, <2>1 DEF Over
  <2>2. CASE nextState > StateOf(phase)
    BY <1>0, <1>2, <1>3, <2>2
  <2> QED BY <1>0, <1>1, <2>1, <2>2
<1>7. Held'
  <2>1. ASSUME NEW v \in Workers, v \notin free'
        PROVE  IF unblock'[v] = NoPhase
               THEN holds'[v] = phase'
               ELSE \/ holds'[v] = unblock'[v]
                    \/ holds'[v] = NoPhase /\ (Passed(unblock[v])' \/ Over')
    <3>1. unblock[v] \in Int /\ unblock'[v] = unblock[v] /\ phase' \in Int
      BY <1>0, <1>2, PhaseInts
    <3>2. Passed(unblock[v]) => Passed(unblock[v])' \/ Over'
      BY <1>0, <1>6, <3>1 DEF Passed
    <3>3. ~Over
      BY DEF Walked, ExitDone, PhaseDone, MainAt
    <3> QED BY <1>0, <1>4, <2>1, <3>2, <3>3 DEF Counted, Held
  <2> QED BY <1>0, <1>2, <2>1 DEF Counted, Held
<1>8. BlockersExact'
  <2>1. CASE phase' > phase
    <3>1. \A q \in Phases : Passed(q) => Passed(q)'
      BY <1>0, <1>2, <2>1 DEF Passed
    <3> QED BY <1>0, <3>1 DEF Counted, BlockersExact
  <2>2. CASE phase' = phase - 1
    <3>1. blockers[phase - 1] = 0 /\ phase - 1 \in Phases
      BY <1>0, <1>2, <2>2 DEF Counted, Held
    <3>2. StateOf(phase - 1) = StateOf(phase)
      BY <1>0 DEF StateOf, IsExit, Phases, BS_ON_EXIT
    <3>3. Holders(phase - 1) = {}
      BY <1>5, <3>1, <3>2 DEF Holders
    <3>4. Cardinality(Holders(phase - 1)) = 0
      BY <3>3, FS_EmptySet
    <3>5. \A q \in Phases : ~Passed(q)' => ~Passed(q) \/ q = phase - 1
      BY <1>0, <2>2 DEF Passed
    <3>6. \A q \in Phases : ~Passed(q)' => blockers[q] = Cardinality(Holders(q))
      BY <3>1, <3>4, <3>5, ExactMeans DEF Counted
    <3>7. \A q : Holders(q)' = Holders(q)
      BY <1>0 DEF Holders
    <3> QED BY <1>0, <3>6, <3>7, ExactMeansNext
  <2> QED BY <1>6, <2>1, <2>2
<1>9. PhaseHeld'
  <2> SUFFICES ASSUME NEW w \in Workers, holds[w] # NoPhase
               PROVE  /\ StateOf(holds[w]) \notin complete'
                      /\ StateOf(holds[w]) = StateOf(phase') => phase' <= holds[w]
    BY <1>0 DEF PhaseHeld, StateOf
  <2>1. holds[w] \in Phases
    BY <1>0
  <2>2. StateOf(holds[w]) \notin complete'
    BY <1>0, <1>5, <2>1 DEF Counted, PhaseHeld
  <2>3. StateOf(holds[w]) = StateOf(phase') => phase' <= holds[w]
    <3>1. PICK h \in Phases : h = holds[w]
      BY <2>1
    <3>2. h = 2 * StateOf(h) + (IF IsExit(h) THEN 1 ELSE 0) /\ StateOf(h) \in Int
      BY PhaseFacts, PhaseInts
    <3>3. 2 * StateOf(h) <= h
      BY <3>2
    <3> QED BY <1>2, <3>1, <3>3
  <2> QED BY <2>2, <2>3
<1> QED BY <1>7, <1>8, <1>9 DEF Counted

\* The blockers depend on nothing else.
LEMMA CountedSame ==
  ASSUME Counted, UNCHANGED <<phase, complete, blockers, holds, unblock, free>>
  PROVE  Counted'
<1>1. Over' = Over /\ \A q : Passed(q)' = Passed(q)
  BY DEF Over, Passed, StateOf
<1>2. Held'
  BY <1>1 DEF Counted, Held, IsExit, Passed
<1>3. BlockersExact' /\ PhaseHeld'
  BY DEF Counted, BlockersExact, PhaseHeld, StateOf, Passed
<1> QED BY <1>2, <1>3 DEF Counted

\* Every step keeps the counts of the blockers.
LEMMA CountedStep ==
  ASSUME TypeOK, Listed, Walked, Counted, [Next]_vars
  PROVE  Counted'
<1>0. ActivePhases \subseteq Phases
  BY ThreadsAssumption DEF Phases
<1>1. ASSUME NEW t \in Threads, Calls(t) PROVE Counted'
  <2>1. ~Over /\ UNCHANGED walkVars
    BY <1>1, CallsKeepWalk, ThreadsAssumption DEF Running, Walked
  <2>2. ASSUME NEW w \in Workers, ThreadRun(t, w) PROVE Counted'
    <3>1. PICK p \in Phases : p = phase
      BY DEF TypeOK
    <3> QED
      BY <2>1, <2>2, <3>1, CountedStart DEF ThreadRun, get_free_thread, walkVars
  <2>3. ASSUME NEW w \in Workers, NEW p \in ActivePhases, ThreadRunUntil(t, w, p)
        PROVE  Counted'
    BY <1>0, <2>1, <2>3, CountedStart DEF ThreadRunUntil, get_free_thread, walkVars
  <2>4. CASE Yield(t)
    BY <2>4, CountedSame DEF Yield
  <2> QED
    BY <1>1, <2>2, <2>3, <2>4, CountedSame
    DEF Calls, SetCoop, SchedCallback, walkVars, threadVars
<1>2. ASSUME NEW w \in Workers, ThreadEnds(w) PROVE Counted'
  <2>1. ~Over
    BY <1>2, EndKeepsWalk, ThreadsAssumption DEF Running, Walked
  <2> QED BY <1>2, <2>1, CountedEnd
<1>3. CASE Walk
  <2>1. CASE EntryDone
    BY <2>1, CountedEntryDone
  <2>2. CASE ExitDone
    BY <2>2, CountedExitDone
  <2>3. ASSUME NEW t \in Threads, BlockedRunTimers(t) PROVE Counted'
    BY <2>3, CountedSame DEF BlockedRunTimers, walkVars
  <2> QED
    BY <1>3, <2>1, <2>2, <2>3, CountedSame
    DEF Walk, AlreadyExecuted, EnterState, CallbackReturns, RunStateReturns, Handoff,
        CallCallback, threadVars
<1>4. ASSUME NEW t \in Threads, IdleRunsTimers(t) PROVE Counted'
  BY <1>4, CountedSame DEF IdleRunsTimers, walkVars
<1>5. CASE UNCHANGED vars
  BY <1>5, CountedSame DEF vars
<1> QED BY <1>1, <1>2, <1>3, <1>4, <1>5 DEF Next

-----------------------------------------------------------------------------
(* The theorems about the walk and its blockers.                           *)

LEMMA InitInv == ASSUME Init PROVE Inv
<1>1. TypeOK /\ Listed
  BY InitTypes, InitListed
<1>2. Walked
  BY DEF Init, Walked, Over, IsExit, BS_ON_EXIT
<1>3. ~IsExit(phase) /\ free = Workers /\ \A w \in Workers : holds[w] = NoPhase
  BY DEF Init, IsExit, BS_ON_EXIT
<1>4. Held /\ PhaseHeld
  BY <1>3 DEF Held, PhaseHeld
<1>5. BlockersExact
  <2>1. \A p \in Phases : Holders(p) = {} /\ blockers[p] = 0
    BY <1>3, PhaseInts DEF Init, Holders
  <2>2. \A p \in Phases : blockers[p] = Cardinality(Holders(p))
    BY <2>1, FS_EmptySet
  <2> QED BY <2>2, ExactMeans
<1> QED BY <1>1, <1>2, <1>4, <1>5 DEF Inv, Counted

LEMMA InvStep == ASSUME Inv, [Next]_vars PROVE Inv'
BY TypeStep, ListedStep, WalkedStep, CountedStep DEF Inv

\* The blockers of a phase that is not over count the live workers that blocked
\* it: no nested start, refused block, sleep or late end loses or doubles one.
THEOREM BlockersAreExact == Spec => []BlockersExact
<1>1. Inv => BlockersExact
  BY DEF Inv, Counted
<1> QED BY <1>1, InitInv, InvStep, PTL DEF Spec

\* bs_walk_state_machine leaves no phase while a worker that blocked it lives.
THEOREM PhasesAreHeld == Spec => []PhaseHeld
<1>1. Inv => PhaseHeld
  BY DEF Inv, Counted
<1> QED BY <1>1, InitInv, InvStep, PTL DEF Spec

\* A step never takes the walk back to an earlier phase, but to that of a state
\* already complete, where bs_walk_state_machine stops.
Forward == phase' >= phase \/ (Over' /\ mpc' = "walk")

\* The boot states run in their order, for ever: what a callback, a worker or a
\* timer does never sends the walk back.
THEOREM WalkGoesForward == Spec => [][Forward]_vars
<1>1. ASSUME Inv, Next PROVE Forward
  <2>0. TypeOK /\ Listed /\ Walked /\ phase \in Phases /\ phase \in Int
    BY <1>1, CountedTypes DEF Inv
  <2>1. CASE phase' = phase
    BY <2>0, <2>1 DEF Forward
  <2>2. CASE EntryDone
    BY <2>0, <2>2 DEF EntryDone, Forward
  <2>3. CASE ExitDone
    <3>0. StateOf(phase) \in States /\ nextState \in States
          /\ StateOf(phase) \in Int /\ nextState \in Int
      BY <2>0, CountedTypes, PhaseInts
    <3>1. nextState \in RunState(StateOf(phase)) /\ nextState >= StateOf(phase)
      BY <2>0, <2>3, <3>0, StateFacts DEF ExitDone, PhaseDone, MainAt, Walked
    <3>2. /\ phase' = 2 * nextState /\ StateOf(phase') = nextState
          /\ complete' = complete \cup {StateOf(phase)} /\ mpc' = "walk"
      BY <2>3, <3>0, StateFacts DEF ExitDone, Phase, BS_ON_ENTRY
    <3>3. CASE nextState = StateOf(phase)
      BY <3>2, <3>3 DEF Forward, Over
    <3>4. CASE nextState > StateOf(phase)
      <4>1. phase = 2 * StateOf(phase) + 1
        BY <2>0, <2>3, PhaseFacts DEF ExitDone
      <4> QED BY <2>0, <3>0, <3>2, <3>4, <4>1 DEF Forward
    <3> QED BY <3>0, <3>1, <3>3, <3>4
  <2> QED
    BY <1>1, <2>1, <2>2, <2>3
    DEF Next, Walk, Calls, AlreadyExecuted, EnterState, CallbackReturns, CallCallback,
        RunStateReturns, Handoff, BlockedRunTimers, ThreadRun, ThreadRunUntil, Yield,
        SetCoop, SchedCallback, ThreadEnds, IdleRunsTimers, walkVars
<1> QED BY <1>1, InitInv, InvStep, PTL DEF Spec
=============================================================================
