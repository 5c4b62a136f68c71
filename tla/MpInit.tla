------------------------------- MODULE MpInit -------------------------------
(***************************************************************************)
(* Bring-up of the application processors: mp_init_with_smm of             *)
(* cpu/x86/mp_init.c and the SIPI vector of cpu/x86/sipi_vector.S.         *)
(*                                                                         *)
(* The boot processor (BSP) copies the SIPI vector into the default SMM    *)
(* area, starts the APs with INIT and two SIPIs and walks the flight plan  *)
(* mp_steps together with them.  Each record counts the APs that entered   *)
(* it; the BSP waits (with a timeout) for all of them when the record      *)
(* blocks, makes its own call, then releases the record's barrier.  An AP  *)
(* may be arbitrarily slow, and may never start.                           *)
(*                                                                         *)
(* For its relocation a CPU sends an SMI to itself.  The SMI interrupts    *)
(* whatever the CPU does when it arrives, which after a timeout may be     *)
(* much later than the code that sent it, and runs the handler that is in  *)
(* the default SMM area then.                                              *)
(***************************************************************************)
EXTENDS Integers, FiniteSets

CONSTANTS
  APs,        \* the application processors that exist
  BSP,        \* the boot processor
  NumAps,     \* global_num_aps: get_cpu_count() - 1
  MaxPolls,   \* total_delay / delay_step of wait_for_aps
  MaxGiveUps, \* bound: how many CPUs give up waiting for their local APIC
  Configs     \* what mp_ops may say

CPUs == APs \cup {BSP}

\* smm_relocation_lock is not held.
NoCpu == "none"

\* parallel_microcode_load, whether there is microcode, whether the SMM trigger
\* is the serialising one, whether the SMM area is saved and restored (S3
\* resume), and whether mp_init_with_smm enables SMM.
AllConfigs ==
  [parallel : BOOLEAN, microcode : BOOLEAN, serial : BOOLEAN, backup : BOOLEAN,
   smm : BOOLEAN]

\* The platform reports at least as many APs as there are.
ASSUME ApsAssumption ==
  /\ IsFiniteSet(APs) /\ BSP \notin APs /\ NoCpu \notin CPUs
  /\ NumAps \in Nat /\ Cardinality(APs) <= NumAps
  /\ MaxPolls \in Nat /\ MaxPolls >= 1 /\ MaxGiveUps \in Nat
  /\ Configs \subseteq AllConfigs

\* mp_steps: what a record makes the BSP and the APs call.
Records == 1 .. 4
LOAD == 1
RELOCATE == 2
INITIALIZE == 3
WORK == 4

\* Mutants: one more record is MP_FR_NOBLOCK_APS.
InitialBarrier_LoadUnblocked == [r \in Records |-> IF r \in {LOAD, RELOCATE} THEN 1 ELSE 0]
InitialBarrier_InitializeUnblocked ==
  [r \in Records |-> IF r \in {RELOCATE, INITIALIZE} THEN 1 ELSE 0]

\* MP_FR_BLOCK_APS or MP_FR_NOBLOCK_APS: the initial value of the barrier.
InitialBarrier == [r \in Records |-> IF r = RELOCATE THEN 1 ELSE 0]

VARIABLES
  conf,      \* what mp_ops say: frozen
  pc,        \* where each CPU is
  rec,       \* the flight record each CPU is at; 0 before the plan
  ret,       \* 0, or -1 once something failed or timed out
  polls,     \* delayed / delay_step of the wait_for_aps in progress
  apCount,   \* sipi_params.ap_count
  cpuNum,    \* the CPU number the SIPI vector obtained
  ulock,     \* sipi_params.microcode_lock
  area,      \* contents of the default SMM area
  entered,   \* cpus_entered of each record
  barrier,   \* barrier of each record
  doSmm,     \* mp_state.do_smm
  recorded,  \* APs whose default_apic_id is in cpus[]
  mapped,    \* APs in the apic_id_to_cpu map of the relocation handler
  smmLock,   \* holder of smm_relocation_lock
  smi,       \* CPUs with an SMI to themselves that has not reached them yet
  smm,       \* CPUs in system management mode
  relocated, \* CPUs whose SMBASE the relocation handler has moved
  spoilt,    \* CPUs that were in SMM at the default SMBASE with another one
  gaveUp,    \* history: CPUs that gave up waiting for their local APIC
  inited     \* history: CPUs that have returned from mp_initialize_cpu

vars == <<conf, pc, rec, ret, polls, apCount, cpuNum, ulock, area, entered,
          barrier, doSmm, recorded, mapped, smmLock, smi, smm, relocated, spoilt,
          gaveUp, inited>>

apVars == <<apCount, cpuNum, ulock, recorded>>
relocVars == <<smi, smm, relocated, spoilt, gaveUp>>
smmVars == <<area, doSmm, mapped, smmLock, relocVars>>
planVars == <<entered, barrier, inited>>

\* APs executing the SIPI vector, which lies in the default SMM area.
Vector == {"vector", "microcode", "lock_microcode", "load_microcode", "load_msr"}
BspLocs == {"setup", "init_ipi", "sipi1", "sipi2", "count", "count_delay", "failed",
            "restore", "done"}
PlanLocs == {"enter", "barrier", "wait", "wait_delay", "call", "reloc", "release"}
ApLocs == {"reset", "wait_sipi", "signalled", "lost", "work"}

TypeOK ==
  /\ conf \in Configs
  /\ pc \in [CPUs -> Vector \cup BspLocs \cup PlanLocs \cup ApLocs]
  /\ rec \in [CPUs -> 0 .. 5]
  /\ ret \in {0, -1}
  /\ polls \in 0 .. MaxPolls
  /\ apCount \in 0 .. Cardinality(APs)
  /\ cpuNum \in [APs -> 0 .. Cardinality(APs)]
  /\ ulock \in {"free", "held", "parallel"}
  /\ area \in {"os", "sipi", "smm", "restored"}
  /\ entered \in [Records -> 0 .. Cardinality(APs)]
  /\ barrier \in [Records -> {0, 1}]
  /\ doSmm \in BOOLEAN
  /\ recorded \subseteq APs /\ mapped \subseteq APs
  /\ smmLock \in CPUs \cup {NoCpu}
  /\ smi \subseteq CPUs /\ smm \subseteq CPUs /\ relocated \subseteq CPUs
  /\ spoilt \subseteq CPUs /\ gaveUp \subseteq CPUs /\ inited \subseteq CPUs

Init ==
  /\ conf \in Configs
  /\ pc = [c \in CPUs |-> IF c = BSP THEN "setup" ELSE "reset"]
  /\ rec = [c \in CPUs |-> 0]
  /\ ret = 0 /\ polls = 0
  /\ apCount = 0 /\ cpuNum = [a \in APs |-> 0]
  /\ ulock = "free" /\ area = "os"
  /\ entered = [r \in Records |-> 0]
  /\ barrier = InitialBarrier
  /\ doSmm = conf.smm
  /\ recorded = {} /\ mapped = {}
  /\ smmLock = NoCpu
  /\ smi = {} /\ smm = {} /\ relocated = {} /\ spoilt = {} /\ gaveUp = {}
  /\ inited = {}

Goto(c, l) == pc' = [pc EXCEPT ![c] = l]

-----------------------------------------------------------------------------
(* BSP: mp_init up to the flight plan.                                     *)

\* load_sipi_vector's choice of the microcode lock.
SipiMicrocodeLock == IF conf.parallel THEN "free" ELSE "parallel"

\* backup_default_smm_area, init_bsp, allocate_cpu_devices, load_sipi_vector.
Setup ==
  /\ pc[BSP] = "setup"
  /\ area' = "sipi" /\ ulock' = SipiMicrocodeLock /\ apCount' = 0
  /\ Goto(BSP, "init_ipi")
  /\ UNCHANGED <<conf, rec, ret, polls, cpuNum, recorded, doSmm, mapped, smmLock>>
  /\ UNCHANGED relocVars /\ UNCHANGED planVars

\* One of them fails: too many CPUs, or a SIPI module that cannot be loaded.
SetupFails ==
  /\ pc[BSP] = "setup"
  /\ area' \in {"os", "sipi"}
  /\ ret' = -1
  /\ Goto(BSP, "restore")
  /\ UNCHANGED <<conf, rec, polls, doSmm, mapped, smmLock>>
  /\ UNCHANGED relocVars /\ UNCHANGED apVars /\ UNCHANGED planVars

\* start_aps: INIT puts every AP into its wait-for-SIPI state.  With no AP to
\* start the flight plan follows at once.
SendInit ==
  /\ pc[BSP] = "init_ipi"
  /\ IF NumAps = 0
     THEN Goto(BSP, "wait") /\ rec' = [rec EXCEPT ![BSP] = 1]
     ELSE /\ pc' = [c \in CPUs |-> IF c = BSP THEN "sipi1" ELSE "wait_sipi"]
          /\ UNCHANGED rec
  /\ UNCHANGED <<conf, ret, polls>>
  /\ UNCHANGED apVars /\ UNCHANGED smmVars /\ UNCHANGED planVars

\* The first SIPI; how long the BSP then waits has no effect on what it does.
SendSipi1 ==
  /\ pc[BSP] = "sipi1"
  /\ pc' = [c \in CPUs |-> IF c = BSP THEN "sipi2" ELSE "signalled"]
  /\ UNCHANGED <<conf, rec, ret, polls>>
  /\ UNCHANGED apVars /\ UNCHANGED smmVars /\ UNCHANGED planVars

SendSipi2 ==
  /\ pc[BSP] = "sipi2"
  /\ Goto(BSP, "count") /\ polls' = 0
  /\ UNCHANGED <<conf, rec, ret>>
  /\ UNCHANGED apVars /\ UNCHANGED smmVars /\ UNCHANGED planVars

\* The local APIC stays busy before or after an IPI: start_aps gives up.
IcrBusyTimeout ==
  /\ pc[BSP] \in {"init_ipi", "sipi1", "sipi2", "count"}
  /\ NumAps > 0 /\ polls = 0
  /\ Goto(BSP, "failed")
  /\ UNCHANGED <<conf, rec, ret, polls>>
  /\ UNCHANGED apVars /\ UNCHANGED smmVars /\ UNCHANGED planVars

\* wait_for_aps: the value is read, and if it is not the target a delay
\* follows, after the last of which the wait gives up without another read.
\* start_aps waits so until all APs have taken a CPU number.
CountReached ==
  /\ pc[BSP] = "count" /\ apCount = NumAps
  /\ Goto(BSP, "wait") /\ polls' = 0
  /\ rec' = [rec EXCEPT ![BSP] = 1]
  /\ UNCHANGED <<conf, ret>>
  /\ UNCHANGED apVars /\ UNCHANGED smmVars /\ UNCHANGED planVars

CountMissed ==
  /\ pc[BSP] = "count" /\ apCount # NumAps
  /\ Goto(BSP, "count_delay")
  /\ UNCHANGED <<conf, rec, ret, polls>>
  /\ UNCHANGED apVars /\ UNCHANGED smmVars /\ UNCHANGED planVars

\* Mutant: the delays are not added up.
PollAgain_NotCounted(delay, read) ==
  /\ pc[BSP] = delay /\ polls + 1 < MaxPolls
  /\ Goto(BSP, read)
  /\ UNCHANGED <<conf, rec, ret, polls>>
  /\ UNCHANGED apVars /\ UNCHANGED smmVars /\ UNCHANGED planVars

\* A delay that is not the last one, in start_aps or in bsp_do_flight_plan.
PollAgain(delay, read) ==
  /\ pc[BSP] = delay /\ polls + 1 < MaxPolls
  /\ Goto(BSP, read) /\ polls' = polls + 1
  /\ UNCHANGED <<conf, rec, ret>>
  /\ UNCHANGED apVars /\ UNCHANGED smmVars /\ UNCHANGED planVars

CountTimeout ==
  /\ pc[BSP] = "count_delay" /\ polls + 1 >= MaxPolls
  /\ Goto(BSP, "failed") /\ polls' = 0
  /\ UNCHANGED <<conf, rec, ret>>
  /\ UNCHANGED apVars /\ UNCHANGED smmVars /\ UNCHANGED planVars

\* mp_init gives up after one more second.
StartFailed ==
  /\ pc[BSP] = "failed"
  /\ ret' = -1
  /\ Goto(BSP, "restore")
  /\ UNCHANGED <<conf, rec, polls>>
  /\ UNCHANGED apVars /\ UNCHANGED smmVars /\ UNCHANGED planVars

\* restore_default_smm_area, on S3 resume; then mp_init_with_smm returns.
Restore ==
  /\ pc[BSP] = "restore"
  /\ area' = IF conf.backup THEN "restored" ELSE area
  /\ Goto(BSP, "done")
  /\ UNCHANGED <<conf, rec, ret, polls, doSmm, mapped, smmLock>>
  /\ UNCHANGED relocVars /\ UNCHANGED apVars /\ UNCHANGED planVars

-----------------------------------------------------------------------------
(* BSP: bsp_do_flight_plan.                                                *)

\* A record whose barrier is already released is not waited for.
RecordSkipWait ==
  /\ pc[BSP] = "wait" /\ barrier[rec[BSP]] # 0
  /\ Goto(BSP, "call")
  /\ UNCHANGED <<conf, rec, ret, polls>>
  /\ UNCHANGED apVars /\ UNCHANGED smmVars /\ UNCHANGED planVars

\* Mutant: one AP fewer is waited for.
RecordReached_OffByOne ==
  /\ pc[BSP] = "wait" /\ barrier[rec[BSP]] = 0
  /\ entered[rec[BSP]] >= NumAps - 1
  /\ Goto(BSP, "call") /\ polls' = 0
  /\ UNCHANGED <<conf, rec, ret>>
  /\ UNCHANGED apVars /\ UNCHANGED smmVars /\ UNCHANGED planVars

RecordReached ==
  /\ pc[BSP] = "wait" /\ barrier[rec[BSP]] = 0
  /\ entered[rec[BSP]] = NumAps
  /\ Goto(BSP, "call") /\ polls' = 0
  /\ UNCHANGED <<conf, rec, ret>>
  /\ UNCHANGED apVars /\ UNCHANGED smmVars /\ UNCHANGED planVars

RecordMissed ==
  /\ pc[BSP] = "wait" /\ barrier[rec[BSP]] = 0
  /\ entered[rec[BSP]] # NumAps
  /\ Goto(BSP, "wait_delay")
  /\ UNCHANGED <<conf, rec, ret, polls>>
  /\ UNCHANGED apVars /\ UNCHANGED smmVars /\ UNCHANGED planVars

\* The timeout is noted in ret, but the plan goes on.
RecordTimeout ==
  /\ pc[BSP] = "wait_delay" /\ polls + 1 >= MaxPolls
  /\ ret' = -1
  /\ Goto(BSP, "call") /\ polls' = 0
  /\ UNCHANGED <<conf, rec>>
  /\ UNCHANGED apVars /\ UNCHANGED smmVars /\ UNCHANGED planVars

\* load_smm_handlers does nothing when SMM is off; it turns SMM off when one
\* of the two handlers cannot be installed.
LoadSmmHandlers ==
  /\ pc[BSP] = "call" /\ rec[BSP] = LOAD
  /\ Goto(BSP, "release")
  /\ \/ ~doSmm /\ UNCHANGED <<area, doSmm, mapped>>
     \/ doSmm /\ area' = "smm" /\ mapped' = recorded /\ UNCHANGED doSmm
     \/ doSmm /\ area' \in {area, "smm"} /\ doSmm' = FALSE
              /\ mapped' \in {mapped, recorded}
  /\ UNCHANGED <<conf, rec, ret, polls, smmLock>>
  /\ UNCHANGED relocVars /\ UNCHANGED apVars /\ UNCHANGED planVars

\* The last record has no bsp_call.
NoBspCall ==
  /\ pc[BSP] = "call" /\ rec[BSP] = WORK
  /\ Goto(BSP, "release")
  /\ UNCHANGED <<conf, rec, ret, polls>>
  /\ UNCHANGED apVars /\ UNCHANGED smmVars /\ UNCHANGED planVars

ReleaseBarrier ==
  /\ pc[BSP] = "release"
  /\ barrier' = [barrier EXCEPT ![rec[BSP]] = 1]
  /\ rec' = [rec EXCEPT ![BSP] = @ + 1]
  /\ Goto(BSP, IF rec[BSP] = WORK THEN "restore" ELSE "wait")
  /\ UNCHANGED <<conf, ret, polls, entered, inited>>
  /\ UNCHANGED apVars /\ UNCHANGED smmVars
-----------------------------------------------------------------------------
(* What the BSP and the APs both call.                                     *)

\* Mutant: an AP does not go on to the next record.
Return_SameRecord(c) == Goto(c, IF c = BSP THEN "release" ELSE "enter") /\ UNCHANGED rec

\* Back from the call of a record: the BSP releases it, an AP goes to the next.
Return(c) ==
  /\ Goto(c, IF c = BSP THEN "release" ELSE "enter")
  /\ rec' = IF c = BSP THEN rec ELSE [rec EXCEPT ![c] = @ + 1]

\* trigger_smm_relocation returns at once when SMM is off.
SkipRelocation(c) ==
  /\ pc[c] = "call" /\ rec[c] = RELOCATE /\ ~doSmm
  /\ Return(c)
  /\ UNCHANGED <<conf, ret, polls>>
  /\ UNCHANGED apVars /\ UNCHANGED smmVars /\ UNCHANGED planVars

\* per_cpu_smm_trigger: smm_initiate_relocation takes smm_relocation_lock,
\* smm_initiate_relocation_parallel does not.  The CPU sends the SMI to itself
\* and waits for its local APIC.
BeginRelocation(c) ==
  /\ pc[c] = "call" /\ rec[c] = RELOCATE /\ doSmm
  /\ IF conf.serial THEN smmLock = NoCpu /\ smmLock' = c ELSE UNCHANGED smmLock
  /\ smi' = smi \cup {c}
  /\ Goto(c, "reloc")
  /\ UNCHANGED <<conf, rec, ret, polls, area, doSmm, mapped, smm, relocated, spoilt, gaveUp>>
  /\ UNCHANGED apVars /\ UNCHANGED planVars

\* apic_wait_timeout expires on CPU c.
GiveUp(c) == Cardinality(gaveUp) < MaxGiveUps /\ gaveUp' = gaveUp \cup {c}

\* The local APIC stays busy with an earlier IPI: "timed out. Aborting."  No SMI
\* is sent, and the caller is not told.
AbortRelocation(c) ==
  /\ pc[c] = "call" /\ rec[c] = RELOCATE /\ doSmm
  /\ conf.serial => smmLock = NoCpu
  /\ GiveUp(c) /\ Return(c)
  /\ UNCHANGED <<conf, ret, polls, area, doSmm, mapped, smmLock, smi, smm, relocated, spoilt>>
  /\ UNCHANGED apVars /\ UNCHANGED planVars

\* Mutant: smm_relocation_lock is not released.
EndRelocation_KeepsLock(c) ==
  /\ pc[c] = "reloc" /\ c \notin smi
  /\ Return(c)
  /\ UNCHANGED <<conf, ret, polls>>
  /\ UNCHANGED apVars /\ UNCHANGED smmVars /\ UNCHANGED planVars

\* The SMI was accepted, and the CPU is back from it.
EndRelocation(c) ==
  /\ pc[c] = "reloc" /\ c \notin smi
  /\ smmLock' = IF conf.serial THEN NoCpu ELSE smmLock
  /\ Return(c)
  /\ UNCHANGED <<conf, ret, polls, area, doSmm, mapped>>
  /\ UNCHANGED relocVars /\ UNCHANGED apVars /\ UNCHANGED planVars

\* "SMI Relocation timed out": the SMI may still come, and again nobody is told.
RelocationTimeout(c) ==
  /\ pc[c] = "reloc" /\ c \in smi
  /\ smmLock' = IF conf.serial THEN NoCpu ELSE smmLock
  /\ GiveUp(c) /\ Return(c)
  /\ UNCHANGED <<conf, ret, polls, area, doSmm, mapped, smi, smm, relocated, spoilt>>
  /\ UNCHANGED apVars /\ UNCHANGED planVars

\* The SMI interrupts the CPU.  Where relocation has to be serialised two CPUs
\* that are in SMM at the default SMBASE at once overwrite each other's saved
\* state (num_concurrent_save_states is 1).
EnterSmm(c) ==
  /\ c \in smi
  /\ smi' = smi \ {c} /\ smm' = smm \cup {c}
  /\ spoilt' = IF conf.serial /\ smm # {} THEN spoilt \cup smm \cup {c} ELSE spoilt
  /\ UNCHANGED <<conf, pc, rec, ret, polls, area, doSmm, mapped, smmLock, relocated, gaveUp>>
  /\ UNCHANGED apVars /\ UNCHANGED planVars

\* smm_do_relocation has run.  It moves the SMBASE unless the stub has found no
\* CPU number for the APIC id; other code in the area, and a saved state that is
\* another CPU's, move nothing.
LeaveSmm(c) ==
  /\ c \in smm
  /\ smm' = smm \ {c}
  /\ relocated' = IF area = "smm" /\ c \in mapped \cup {BSP} /\ c \notin spoilt
                  THEN relocated \cup {c} ELSE relocated
  /\ UNCHANGED <<conf, pc, rec, ret, polls, area, doSmm, mapped, smmLock, smi, spoilt, gaveUp>>
  /\ UNCHANGED apVars /\ UNCHANGED planVars

\* mp_initialize_cpu
InitializeCpu(c) ==
  /\ pc[c] = "call" /\ rec[c] = INITIALIZE
  /\ Return(c) /\ inited' = inited \cup {c}
  /\ UNCHANGED <<conf, ret, polls, entered, barrier>>
  /\ UNCHANGED apVars /\ UNCHANGED smmVars

PlanCall(c) ==
  \/ SkipRelocation(c) \/ BeginRelocation(c) \/ AbortRelocation(c)
  \/ EndRelocation(c) \/ RelocationTimeout(c) \/ InitializeCpu(c)

-----------------------------------------------------------------------------
(* AP: the SIPI vector.                                                    *)

\* One of the SIPIs reaches the AP (or none ever does).
ApStart(a) ==
  /\ pc[a] = "signalled"
  /\ Goto(a, "vector")
  /\ UNCHANGED <<conf, rec, ret, polls>>
  /\ UNCHANGED apVars /\ UNCHANGED smmVars /\ UNCHANGED planVars

\* The cmpxchg loop on ap_count.
ApObtainNumber(a) ==
  /\ pc[a] = "vector"
  /\ apCount' = apCount + 1 /\ cpuNum' = [cpuNum EXCEPT ![a] = apCount + 1]
  /\ Goto(a, "microcode")
  /\ UNCHANGED <<conf, rec, ret, polls, ulock, recorded>>
  /\ UNCHANGED smmVars /\ UNCHANGED planVars

\* There is no microcode, or a sibling thread has loaded it.
ApMicrocodeSkip(a) ==
  /\ pc[a] = "microcode"
  /\ Goto(a, "load_msr")
  /\ UNCHANGED <<conf, rec, ret, polls>>
  /\ UNCHANGED apVars /\ UNCHANGED smmVars /\ UNCHANGED planVars

ApMicrocode(a) ==
  /\ pc[a] = "microcode" /\ conf.microcode
  /\ Goto(a, IF ulock = "parallel" THEN "load_microcode" ELSE "lock_microcode")
  /\ UNCHANGED <<conf, rec, ret, polls>>
  /\ UNCHANGED apVars /\ UNCHANGED smmVars /\ UNCHANGED planVars

ApLockMicrocode(a) ==
  /\ pc[a] = "lock_microcode" /\ ulock = "free"
  /\ ulock' = "held" /\ Goto(a, "load_microcode")
  /\ UNCHANGED <<conf, rec, ret, polls, apCount, cpuNum, recorded>>
  /\ UNCHANGED smmVars /\ UNCHANGED planVars

ApLoadedMicrocode(a) ==
  /\ pc[a] = "load_microcode"
  /\ ulock' = IF ulock = "parallel" THEN ulock ELSE "free"
  /\ Goto(a, "load_msr")
  /\ UNCHANGED <<conf, rec, ret, polls, apCount, cpuNum, recorded>>
  /\ UNCHANGED smmVars /\ UNCHANGED planVars

\* The MSR table is loaded and ap_init called, which records the APIC id.
ApInit(a) ==
  /\ pc[a] = "load_msr"
  /\ recorded' = recorded \cup {a}
  /\ Goto(a, "enter") /\ rec' = [rec EXCEPT ![a] = 1]
  /\ UNCHANGED <<conf, ret, polls, apCount, cpuNum, ulock>>
  /\ UNCHANGED smmVars /\ UNCHANGED planVars

\* An AP whose code was overwritten under it may never be seen again.
ApLost(a) ==
  /\ pc[a] \in Vector /\ area # "sipi"
  /\ Goto(a, "lost")
  /\ UNCHANGED <<conf, rec, ret, polls>>
  /\ UNCHANGED apVars /\ UNCHANGED smmVars /\ UNCHANGED planVars

-----------------------------------------------------------------------------
(* AP: ap_do_flight_plan.                                                  *)

ApEnter(a) ==
  /\ pc[a] = "enter"
  /\ entered' = [entered EXCEPT ![rec[a]] = @ + 1]
  /\ Goto(a, "barrier")
  /\ UNCHANGED <<conf, rec, ret, polls, barrier, inited>>
  /\ UNCHANGED apVars /\ UNCHANGED smmVars

\* barrier_wait is over: the record's ap_call is next.  The first record has
\* none; the last one's is ap_wait_for_instruction.
ApPassBarrier(a) ==
  /\ pc[a] = "barrier" /\ barrier[rec[a]] # 0
  /\ CASE rec[a] = LOAD -> Return(a)
       [] rec[a] = WORK -> Goto(a, "work") /\ UNCHANGED rec
       [] OTHER -> Goto(a, "call") /\ UNCHANGED rec
  /\ UNCHANGED <<conf, ret, polls>>
  /\ UNCHANGED apVars /\ UNCHANGED smmVars /\ UNCHANGED planVars

\* A CPU in SMM takes no other step.
BspStep ==
  /\ BSP \notin smm
  /\ \/ Setup \/ SetupFails \/ SendInit \/ SendSipi1 \/ SendSipi2
     \/ IcrBusyTimeout \/ CountReached \/ CountMissed \/ CountTimeout
     \/ PollAgain("count_delay", "count") \/ PollAgain("wait_delay", "wait")
     \/ StartFailed \/ Restore
     \/ RecordSkipWait \/ RecordReached \/ RecordMissed \/ RecordTimeout
     \/ LoadSmmHandlers \/ NoBspCall \/ ReleaseBarrier \/ PlanCall(BSP)

ApRun(a) ==
  /\ a \notin smm
  /\ \/ ApObtainNumber(a) \/ ApMicrocodeSkip(a) \/ ApMicrocode(a)
     \/ ApLockMicrocode(a) \/ ApLoadedMicrocode(a) \/ ApInit(a)
     \/ ApEnter(a) \/ ApPassBarrier(a) \/ PlanCall(a)

ApStep(a) == ApStart(a) \/ ApRun(a) \/ ApLost(a)

SmmStep(c) == EnterSmm(c) \/ LeaveSmm(c)

Next == BspStep \/ (\E a \in APs : ApStep(a)) \/ (\E c \in CPUs : SmmStep(c))

\* What becomes of a CPU's own SMI: it arrives while the CPU waits for it, and
\* its handler returns if it is still there and the saved state is its own.
SmiServed(c) ==
  \/ pc[c] = "reloc" /\ EnterSmm(c)
  \/ area = "smm" /\ c \notin spoilt /\ LeaveSmm(c)

\* The BSP runs, and so does an AP that has started; that an AP starts at all
\* is not assumed.  A wait for an SMI ends, with the SMI or with the timeout;
\* that an SMI arrives after the timeout is not assumed.  Each CPU takes a spin
\* lock once, so that weak fairness is enough for it to get its turn.
Fairness ==
  /\ WF_vars(BspStep \/ SmiServed(BSP))
  /\ \A a \in APs : WF_vars(ApRun(a) \/ SmiServed(a))

Spec == Init /\ [][Next]_vars /\ Fairness

-----------------------------------------------------------------------------
(* Properties.                                                             *)

\* While nothing has timed out in the flight plan, no code is overwritten under a
\* CPU that runs it: an AP in the SIPI vector finds it in the default SMM area; a
\* CPU that waits for its own SMI, or is in SMM after that, finds the relocation
\* handler there, with its APIC id in the map that adjust_smm_apic_id_map took
\* from cpus[], and is alone where relocation has to be serialised.  The CPUs
\* that gave up waiting for their SMI are not protected, and are not reported.
AreaIntact ==
  ret = 0 =>
    /\ \A a \in APs : pc[a] \in Vector => area = "sipi"
    /\ \A c \in (smi \cup smm) \ gaveUp :
         /\ area = "smm" /\ c \in mapped \cup {BSP}
         /\ conf.serial => (smi \cup smm) \ gaveUp = {c}

\* Even after timeouts an AP enters mp_initialize_cpu only after the BSP has
\* left it.
BspFirst ==
  \A a \in APs : pc[a] = "call" /\ rec[a] = INITIALIZE => BSP \in inited

\* Once an AP has passed the first record, whether SMM is used and the APIC id
\* map no longer change, although mp_state is shared without a lock: all CPUs
\* take the same decision in trigger_smm_relocation, even after timeouts.
SmmDecided ==
  [][(\E a \in APs : rec[a] >= RELOCATE) => UNCHANGED <<doSmm, mapped>>]_vars

\* While nothing has timed out in the flight plan, no CPU runs the CPU drivers
\* before the SMBASE of every CPU has been moved, although the RELOCATE record
\* blocks nobody.  What smm_initiate_relocation_parallel and smm_do_relocation
\* only print is the one exception: a CPU that gave up waiting for its local
\* APIC, or one that such a CPU's late SMI disturbed although relocation is
\* serialised.
RelocatedBeforeInit ==
  ret = 0 /\ doSmm /\ (\E c \in CPUs : pc[c] = "call" /\ rec[c] = INITIALIZE) =>
    \/ CPUs \subseteq relocated \cup gaveUp
    \/ conf.serial /\ gaveUp # {} /\ CPUs \subseteq relocated \cup gaveUp \cup spoilt

\* When mp_init_with_smm returns 0, all the APs that were asked for exist, have
\* distinct CPU numbers, were initialised, and wait for work or are about to; none
\* is in SMM, where the area may be restored under it, but one that gave up.
SuccessMeansAll ==
  pc[BSP] = "done" /\ ret = 0 =>
    /\ Cardinality(APs) = NumAps
    /\ \A a, b \in APs : a # b => cpuNum[a] # cpuNum[b]
    /\ \A a \in APs : /\ cpuNum[a] \in 1 .. NumAps /\ a \in inited
                      /\ rec[a] = WORK /\ pc[a] \in {"barrier", "work"}
                      /\ a \in smm => a \in gaveUp

\* APs load microcode one at a time unless the platform allows otherwise
\* (sipi_params: "0xffffffff means parallel loading").
MicrocodeSerial ==
  ~conf.parallel =>
    \A a, b \in APs :
      pc[a] = "load_microcode" /\ pc[b] = "load_microcode" => a = b

\* mp_init_with_smm returns, whatever the APs do, unless a late SMI has made two
\* CPUs share the one saved state.
BspReturns == [](spoilt = {}) => <>(pc[BSP] = "done")

\* Unless something times out, every AP that starts ends up waiting for work:
\* none is left behind at a barrier, at a lock or in SMM.
StartedApsFinish ==
  [](ret = 0 /\ gaveUp = {}) => \A a \in APs : pc[a] = "vector" ~> pc[a] = "work"

=============================================================================
