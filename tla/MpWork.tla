------------------------------- MODULE MpWork -------------------------------
(***************************************************************************)
(* Work for the APs after bring-up: run_ap_work, mp_run_on_aps and         *)
(* mp_park_aps on the BSP, ap_wait_for_instruction on the APs              *)
(* (cpu/x86/mp_init.c with CONFIG_PARALLEL_MP_AP_WORK).                    *)
(*                                                                         *)
(* Each AP has a slot.  The BSP stores the address of a callback, which is *)
(* a local variable of mp_run_on_aps, in every slot and counts the slots   *)
(* that are NULL until all are, or the call expires.  An AP reads its      *)
(* slot, copies the callback, stores NULL, and then calls the function if  *)
(* the call is for it.  Calls are numbered in the order of issue; a slot   *)
(* holds the number of the call whose callback it points to.               *)
(***************************************************************************)
EXTENDS Integers, FiniteSets

CONSTANTS
  NumAps,     \* global_num_aps; the APs are the CPUs 1 .. NumAps
  MaxCalls    \* bound on the calls the BSP makes

ASSUME WorkAssumption ==
  /\ NumAps \in Nat /\ NumAps >= 1
  /\ MaxCalls \in Nat

APs == 1 .. NumAps
CallIds == 1 .. MaxCalls
NULL == 0
MP_RUN_ON_ALL_CPUS == 0
\* What an AP may find where a callback no longer is.
Garbage == -1

VARIABLES
  bpc,       \* where the BSP is in run_ap_work
  call,      \* number of the current, or last, call
  target,    \* logical_cpu_number of each call
  func,      \* function of each call
  finite,    \* expire_us > 0 for the current call
  i,         \* the loop counter of run_ap_work
  accepted,  \* cpus_accepted
  slot,      \* ap_callbacks
  apc,       \* where each AP is in ap_wait_for_instruction
  lcb,       \* each AP's copy of the callback
  expired,   \* history: calls that returned -1
  done,      \* history: calls that returned 0
  ran        \* history: the calls whose function each AP has called

vars == <<bpc, call, target, func, finite, i, accepted, slot, apc, lcb, expired,
          done, ran>>
bspVars == <<bpc, call, target, func, finite, i, accepted, expired, done>>

TypeOK ==
  /\ bpc \in {"idle", "store", "scan"}
  /\ call \in 0 .. MaxCalls
  /\ target \in [CallIds -> {MP_RUN_ON_ALL_CPUS} \cup APs]
  /\ func \in [CallIds -> {"work", "park"}]
  /\ finite \in BOOLEAN
  /\ i \in 1 .. NumAps + 1
  /\ accepted \in 0 .. NumAps
  /\ slot \in [APs -> {NULL} \cup CallIds]
  /\ apc \in [APs -> {"poll", "copy", "signal", "run", "parked", "lost"}]
  /\ lcb \in [APs -> {NULL, Garbage} \cup CallIds]
  /\ expired \subseteq CallIds /\ done \subseteq CallIds
  /\ ran \in [APs -> SUBSET CallIds]

Init ==
  /\ bpc = "idle" /\ call = 0
  /\ target = [n \in CallIds |-> MP_RUN_ON_ALL_CPUS]
  /\ func = [n \in CallIds |-> "work"]
  /\ finite = FALSE /\ i = 1 /\ accepted = 0
  /\ slot = [a \in APs |-> NULL]
  /\ apc = [a \in APs |-> "poll"]
  /\ lcb = [a \in APs |-> NULL]
  /\ expired = {} /\ done = {}
  /\ ran = [a \in APs |-> {}]

-----------------------------------------------------------------------------
(* BSP.                                                                    *)

\* mp_run_on_aps; mp_run_on_all_cpus is the same after a call on the BSP.
RunOnAps(t, f, exp) ==
  /\ bpc = "idle" /\ call < MaxCalls
  /\ \A n \in 1 .. call : func[n] # "park"
  /\ call' = call + 1
  /\ target' = [target EXCEPT ![call + 1] = t]
  /\ func' = [func EXCEPT ![call + 1] = f]
  /\ finite' = exp
  /\ bpc' = "store" /\ i' = 1 /\ accepted' = 0
  /\ UNCHANGED <<slot, apc, lcb, expired, done, ran>>

\* mp_park_aps gives the APs 250 ms.
ParkAps == RunOnAps(MP_RUN_ON_ALL_CPUS, "park", TRUE)

\* Mutant: one slot too many.
StoreCallback_OffByOne ==
  /\ bpc = "store" /\ i <= NumAps + 1
  /\ slot' = [a \in APs |-> IF a = i THEN call ELSE slot[a]]
  /\ i' = i + 1
  /\ UNCHANGED <<bpc, call, target, func, finite, accepted, apc, lcb, expired, done,
                 ran>>

StoreCallback ==
  /\ bpc = "store" /\ i <= NumAps
  /\ slot' = [slot EXCEPT ![i] = call]
  /\ i' = i + 1
  /\ UNCHANGED <<bpc, call, target, func, finite, accepted, apc, lcb, expired, done,
                 ran>>

StoresDone ==
  /\ bpc = "store" /\ i > NumAps
  /\ bpc' = "scan" /\ i' = 1 /\ accepted' = 0
  /\ UNCHANGED <<call, target, func, finite, slot, apc, lcb, expired, done, ran>>

\* One slot is read.
ScanSlot ==
  /\ bpc = "scan" /\ i <= NumAps
  /\ accepted' = IF slot[i] = NULL THEN accepted + 1 ELSE accepted
  /\ i' = i + 1
  /\ UNCHANGED <<bpc, call, target, func, finite, slot, apc, lcb, expired, done, ran>>

\* After a scan that found every slot NULL the call returns 0.
AllAccepted ==
  /\ bpc = "scan" /\ i > NumAps /\ accepted = NumAps
  /\ done' = done \cup {call}
  /\ bpc' = "idle" /\ i' = 1 /\ accepted' = 0
  /\ UNCHANGED <<call, target, func, finite, slot, apc, lcb, expired, ran>>

\* Mutant: cpus_accepted is not reset.
ScanAgain_KeepsCount ==
  /\ bpc = "scan" /\ i > NumAps /\ accepted # NumAps
  /\ i' = 1
  /\ UNCHANGED <<bpc, call, target, func, finite, accepted, slot, apc, lcb, expired,
                 done, ran>>

ScanAgain ==
  /\ bpc = "scan" /\ i > NumAps /\ accepted # NumAps
  /\ i' = 1 /\ accepted' = 0
  /\ UNCHANGED <<bpc, call, target, func, finite, slot, apc, lcb, expired, done, ran>>

\* The stopwatch has expired: the call returns -1, and the slots stay as they
\* are, pointing into a stack frame that is gone.
Expire ==
  /\ bpc = "scan" /\ i > NumAps /\ accepted # NumAps /\ finite
  /\ expired' = expired \cup {call}
  /\ bpc' = "idle" /\ i' = 1 /\ accepted' = 0
  /\ UNCHANGED <<call, target, func, finite, slot, apc, lcb, done, ran>>

-----------------------------------------------------------------------------
(* AP.                                                                     *)

\* The callback of call n can still be read.
Live(n) == bpc # "idle" /\ n = call

\* Mutant: the slot is cleared before the callback is copied.
ReadCallback_ClearsFirst(a) ==
  /\ apc[a] = "poll" /\ slot[a] # NULL
  /\ lcb' = [lcb EXCEPT ![a] = slot[a]]
  /\ slot' = [slot EXCEPT ![a] = NULL]
  /\ apc' = [apc EXCEPT ![a] = "copy"]
  /\ UNCHANGED ran /\ UNCHANGED bspVars

\* read_callback finds a pointer.
ReadCallback(a) ==
  /\ apc[a] = "poll" /\ slot[a] # NULL
  /\ lcb' = [lcb EXCEPT ![a] = slot[a]]
  /\ apc' = [apc EXCEPT ![a] = "copy"]
  /\ UNCHANGED <<slot, ran>> /\ UNCHANGED bspVars

\* The memcpy.  A callback whose frame is gone may still be intact, may have
\* been overwritten by the callback of the current call, or by anything.
CopyCallback(a) ==
  /\ apc[a] = "copy"
  /\ lcb' \in {[lcb EXCEPT ![a] = n] :
                 n \in IF Live(lcb[a]) THEN {lcb[a]} ELSE {lcb[a], call, Garbage}}
  /\ apc' = [apc EXCEPT ![a] = "signal"]
  /\ UNCHANGED <<slot, ran>> /\ UNCHANGED bspVars

\* Mutants: the slot is not cleared, or only by an AP that the call is for.
SignalConsumption_Forgotten(a) ==
  /\ apc[a] = "signal"
  /\ apc' = [apc EXCEPT ![a] = "run"]
  /\ UNCHANGED <<slot, lcb, ran>> /\ UNCHANGED bspVars
SignalConsumption_OnlyTarget(a) ==
  /\ apc[a] = "signal"
  /\ slot' = [slot EXCEPT ![a] = IF lcb[a] # Garbage /\ target[lcb[a]] \in {MP_RUN_ON_ALL_CPUS, a}
                                THEN NULL ELSE @]
  /\ apc' = [apc EXCEPT ![a] = "run"]
  /\ UNCHANGED <<lcb, ran>> /\ UNCHANGED bspVars

\* store_callback(per_cpu_slot, NULL)
SignalConsumption(a) ==
  /\ apc[a] = "signal"
  /\ slot' = [slot EXCEPT ![a] = NULL]
  /\ apc' = [apc EXCEPT ![a] = "run"]
  /\ UNCHANGED <<lcb, ran>> /\ UNCHANGED bspVars

\* The function is called, unless the call is for another AP.
RunFunction(a) ==
  /\ apc[a] = "run"
  /\ \/ /\ lcb[a] = Garbage
        /\ apc' = [apc EXCEPT ![a] = "lost"]
        /\ UNCHANGED ran
     \/ /\ lcb[a] # Garbage
        /\ target[lcb[a]] \notin {MP_RUN_ON_ALL_CPUS, a}
        /\ apc' = [apc EXCEPT ![a] = "poll"]
        /\ UNCHANGED ran
     \/ /\ lcb[a] # Garbage
        /\ target[lcb[a]] \in {MP_RUN_ON_ALL_CPUS, a}
        /\ ran' = [ran EXCEPT ![a] = @ \cup {lcb[a]}]
        /\ apc' = [apc EXCEPT ![a] = IF func[lcb[a]] = "park" THEN "parked" ELSE "poll"]
  /\ lcb' = [lcb EXCEPT ![a] = NULL]
  /\ UNCHANGED slot /\ UNCHANGED bspVars

BspStep ==
  StoreCallback \/ StoresDone \/ ScanSlot \/ AllAccepted \/ ScanAgain \/ Expire

ApStep(a) ==
  ReadCallback(a) \/ CopyCallback(a) \/ SignalConsumption(a) \/ RunFunction(a)

Next ==
  \/ \E t \in {MP_RUN_ON_ALL_CPUS} \cup APs, exp \in BOOLEAN : RunOnAps(t, "work", exp)
  \/ ParkAps
  \/ BspStep
  \/ \E a \in APs : ApStep(a)

\* Every CPU runs, the functions that APs call return, and a stopwatch that
\* is polled for ever expires.
Spec ==
  /\ Init /\ [][Next]_vars
  /\ WF_vars(BspStep) /\ SF_vars(Expire)
  /\ \A a \in APs : WF_vars(ApStep(a))

-----------------------------------------------------------------------------
(* Properties.                                                             *)

\* Call n has reached AP a: its function has been called, is about to be, or
\* is not for a.
Reached(a, n) ==
  \/ n \in ran[a]
  \/ apc[a] = "run" /\ lcb[a] = n
  \/ target[n] \notin {MP_RUN_ON_ALL_CPUS, a}

\* As long as no earlier call has expired, a call that returns 0 has reached
\* every AP: a NULL slot means that this call was accepted.
DoneMeansReached ==
  \A n \in done : (\A m \in expired : m > n) => \A a \in APs : Reached(a, n)

\* The same after calls that expired: what run_ap_work waits for ("Wait for all
\* the APs to signal back that call has been accepted").
DoneAlwaysReached == \A n \in done : \A a \in APs : Reached(a, n)

\* As long as no call has expired, an AP copies a callback only while the frame
\* of mp_run_on_aps that holds it exists.
CopiesLiveCallback ==
  expired = {} => \A a \in APs : apc[a] = "copy" => Live(lcb[a])

\* As long as no call has expired, an AP calls functions in the order of issue
\* and none twice: it never takes a call older than one it has already run.
InOrder ==
  expired = {} =>
    \A a \in APs : apc[a] \in {"copy", "signal", "run"} =>
      \A n \in ran[a] : n < lcb[a]

\* A call returns, even one without a timeout, provided no callback of a dead
\* frame was called: every slot is eventually cleared.
CallReturns == bpc # "idle" ~> (bpc = "idle" \/ \E a \in APs : apc[a] = "lost")
=============================================================================
