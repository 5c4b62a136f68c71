---------------------------- MODULE MpInitProofs ----------------------------
(***************************************************************************)
(* Proofs about MpInit for any number of APs, polls and any configuration: *)
(* the counters, the barriers, the use of the default SMM area, and what   *)
(* success of mp_init_with_smm means.                                      *)
(***************************************************************************)
EXTENDS MpInit, FiniteSetTheorems, TLAPS

-----------------------------------------------------------------------------
(* The inductive invariant.                                                *)

BeforeStart == {"reset", "wait_sipi", "signalled"}
BeforePlan == {"setup", "init_ipi", "sipi1", "sipi2", "count", "count_delay", "failed"}
InRecord == {"wait", "wait_delay", "call", "reloc", "release"}

\* TypeOK without the counters that are bounded by the number of APs.
Types ==
  /\ conf \in Configs
  /\ pc \in [CPUs -> Vector \cup BspLocs \cup PlanLocs \cup ApLocs]
  /\ rec \in [CPUs -> 0 .. 5]
  /\ ret \in {0, -1}
  /\ polls \in 0 .. MaxPolls
  /\ apCount \in Nat /\ cpuNum \in [APs -> Nat]
  /\ ulock \in {"free", "held", "parallel"}
  /\ area \in {"os", "sipi", "smm", "restored"}
  /\ entered \in [Records -> Nat]
  /\ barrier \in [Records -> {0, 1}]
  /\ recorded \subseteq APs /\ mapped \subseteq APs
  /\ smmLock \in CPUs \cup {NoCpu}
  /\ smi \subseteq CPUs /\ smm \subseteq CPUs /\ relocated \subseteq CPUs
  /\ spoilt \subseteq CPUs /\ gaveUp \subseteq CPUs /\ inited \subseteq CPUs

\* Where an AP may be, and in which record.
ApPlace(a) ==
  \/ pc[a] \in BeforeStart \cup Vector \cup {"lost"} /\ rec[a] = 0
  \/ pc[a] \in {"enter", "barrier"} /\ rec[a] \in Records
  \/ pc[a] = "call" /\ rec[a] \in {RELOCATE, INITIALIZE}
  \/ pc[a] = "reloc" /\ rec[a] = RELOCATE
  \/ pc[a] = "work" /\ rec[a] = WORK

\* Where the BSP may be.  It sends INIT to APs that it has not started yet, and
\* gives up before the plan only with an error.
BspPlace ==
  /\ \/ pc[BSP] \in BeforePlan /\ rec[BSP] = 0
     \/ pc[BSP] \in InRecord /\ rec[BSP] \in Records
     \/ pc[BSP] \in {"restore", "done"} /\ rec[BSP] \in {0, 5}
  /\ pc[BSP] = "reloc" => rec[BSP] = RELOCATE
  /\ pc[BSP] \in {"restore", "done"} /\ ret = 0 => rec[BSP] = 5
  /\ pc[BSP] \in {"setup", "init_ipi", "sipi1"} =>
       \A a \in APs : pc[a] \in {"reset", "wait_sipi"}

Places == BspPlace /\ \A a \in APs : ApPlace(a)

\* CPU c is past the wait, or the barrier, of record r.
Past(c, r) ==
  rec[c] > r \/ (rec[c] = r /\ pc[c] \in {"call", "reloc", "work", "release"})

Entered(a, r) == Past(a, r) \/ (rec[a] = r /\ pc[a] = "barrier")

\* A barrier is open from the start, or the BSP has been through its record; an
\* AP that is past it has seen it open.
Barriers ==
  \A r \in Records :
    /\ barrier[r] # 0 => InitialBarrier[r] = 1 \/ rec[BSP] > r
    /\ \A a \in APs : Past(a, r) => barrier[r] # 0

\* cpus_entered counts the APs that have entered.
EnteredBy(r) == {a \in APs : Entered(a, r)}
Counts == \A r \in Records : entered[r] = Cardinality(EnteredBy(r))

\* ap_count is the number of APs that took a CPU number, all of them different.
NumberedAps == {a \in APs : cpuNum[a] # 0}
Numbers ==
  /\ apCount = Cardinality(NumberedAps)
  /\ \A a \in APs : cpuNum[a] <= apCount
  /\ \A a \in APs : pc[a] \in BeforeStart \cup {"vector"} => cpuNum[a] = 0
  /\ \A a \in APs : rec[a] >= 1 => cpuNum[a] # 0
  /\ \A a \in APs : pc[a] \in Vector \ {"vector"} => cpuNum[a] # 0
  /\ \A a, b \in APs : a # b /\ cpuNum[a] # 0 => cpuNum[a] # cpuNum[b]

\* What each CPU has done by the record it is in.
History ==
  /\ \A a \in APs : rec[a] >= 1 => a \in recorded
  /\ \A c \in CPUs :
       rec[c] > INITIALIZE \/ (rec[c] = INITIALIZE /\ pc[c] = "release") => c \in inited

\* Unless something timed out, all APs have entered a blocking record that the
\* BSP is past.
Gate(r) ==
  Past(BSP, r) =>
    Cardinality(APs) = NumAps /\ \A a \in APs : Entered(a, r)
Gates == ret = 0 => \A r \in Records : InitialBarrier[r] = 0 => Gate(r)

\* The BSP has returned from load_smm_handlers.
Loaded == rec[BSP] > LOAD \/ (rec[BSP] = LOAD /\ pc[BSP] = "release")

\* The contents of the default SMM area.
Area ==
  /\ pc[BSP] \notin {"setup", "restore", "done"} /\ ~Loaded => area = "sipi"
  /\ doSmm /\ Loaded /\ pc[BSP] # "done" => area = "smm"
  /\ doSmm /\ Loaded /\ ret = 0 => mapped = APs
  /\ \A c \in CPUs : pc[c] = "reloc" => doSmm

\* CPU c is back from trigger_smm_relocation.
Back(c) == rec[c] > RELOCATE \/ (rec[c] = RELOCATE /\ pc[c] = "release")

\* What the SMIs are up to.  A CPU that has one, or is in SMM, waits for it or
\* has given up; the wait is under the lock where there is one, so that only the
\* SMI of a CPU that gave up can spoil another's.  Unless something timed out in
\* the plan, a CPU that is back was relocated, spoilt, or has given up.
Waiting ==
  \A c \in CPUs :
    /\ c \in smi => pc[c] = "reloc" \/ c \in gaveUp
    /\ c \in smm => (pc[c] = "reloc" \/ c \in gaveUp) /\ c \notin smi
    /\ conf.serial /\ pc[c] = "reloc" => smmLock = c
Spoiling == spoilt # {} => conf.serial /\ gaveUp # {}
Outcome ==
  ret = 0 =>
    \A c \in CPUs :
      /\ pc[c] = "reloc" => c \in smi \cup smm \cup relocated \cup spoilt \cup gaveUp
      /\ doSmm /\ Back(c) => c \in relocated \cup spoilt \cup gaveUp
Relocation == Waiting /\ Spoiling /\ Outcome

TypeInv == Types /\ Places
Inv ==
  /\ TypeInv /\ doSmm \in BOOLEAN
  /\ Barriers /\ Counts /\ Numbers /\ History /\ Gates /\ Area
  /\ Relocation

-----------------------------------------------------------------------------
(* Types and places.                                                       *)

LEMMA Cpus == BSP \in CPUs /\ APs \subseteq CPUs /\ BSP \notin APs
BY ApsAssumption DEF CPUs

\* An SMI changes neither the flight plan nor what the CPUs' own steps change.
Rest == <<conf, pc, rec, ret, polls, apCount, cpuNum, ulock, area, entered, barrier,
          doSmm, recorded, mapped, smmLock, gaveUp, inited>>

LEMMA Steps == [Next]_vars => BspStep \/ (\E a \in APs : ApStep(a)) \/ UNCHANGED Rest
BY DEF Next, SmmStep, EnterSmm, LeaveSmm, Rest, vars, apVars, planVars

\* Every action keeps the types.
LEMMA NextTypes == TypeInv /\ [Next]_vars => Types'
<1> SUFFICES ASSUME TypeInv, [Next]_vars PROVE Types'
  OBVIOUS
<1> USE Cpus, ApsAssumption DEF TypeInv, Types, Goto, apVars, smmVars, relocVars, planVars,
   Vector, BspLocs, PlanLocs, ApLocs, Records, LOAD, RELOCATE, INITIALIZE, WORK
<1>1. CASE Setup
  BY <1>1 DEF Setup, SipiMicrocodeLock
<1>2. CASE SetupFails
  BY <1>2 DEF SetupFails
<1>3. CASE SendInit
  BY <1>3 DEF SendInit
<1>4. CASE SendSipi1
  BY <1>4 DEF SendSipi1
<1>5. CASE SendSipi2
  BY <1>5 DEF SendSipi2
<1>6. CASE IcrBusyTimeout
  BY <1>6 DEF IcrBusyTimeout
<1>7. CASE CountReached
  BY <1>7 DEF CountReached
<1>8. CASE CountMissed
  BY <1>8 DEF CountMissed
<1>9. CASE CountTimeout
  BY <1>9 DEF CountTimeout
<1>10. CASE StartFailed
  BY <1>10 DEF StartFailed
<1>11. CASE Restore
  BY <1>11 DEF Restore
<1>12. CASE RecordSkipWait
  BY <1>12 DEF RecordSkipWait
<1>13. CASE RecordReached
  BY <1>13 DEF RecordReached
<1>14. CASE RecordMissed
  BY <1>14 DEF RecordMissed
<1>15. CASE RecordTimeout
  BY <1>15 DEF RecordTimeout
<1>16. CASE LoadSmmHandlers
  BY <1>16 DEF LoadSmmHandlers
<1>17. CASE NoBspCall
  BY <1>17 DEF NoBspCall
<1>18. CASE ReleaseBarrier
  BY <1>18 DEF ReleaseBarrier, Places, BspPlace, BeforePlan, InRecord
<1>19. CASE PollAgain("count_delay", "count") \/ PollAgain("wait_delay", "wait")
  BY <1>19 DEF PollAgain
<1>20. ASSUME NEW c \in CPUs, SkipRelocation(c) PROVE Types'
  BY <1>20 DEF SkipRelocation, Return, Places, BspPlace, ApPlace, CPUs
<1>21. ASSUME NEW c \in CPUs, BeginRelocation(c) PROVE Types'
  BY <1>21 DEF BeginRelocation, Return, Places, BspPlace, ApPlace, CPUs
<1>22. ASSUME NEW c \in CPUs, EndRelocation(c) PROVE Types'
  BY <1>22 DEF EndRelocation, Return, Places, BspPlace, ApPlace, CPUs
<1>23. ASSUME NEW c \in CPUs, InitializeCpu(c) PROVE Types'
  BY <1>23 DEF InitializeCpu, Return, Places, BspPlace, ApPlace, CPUs
<1>24. ASSUME NEW a \in APs, ApStart(a) PROVE Types'
  BY <1>24 DEF ApStart
<1>25. ASSUME NEW a \in APs, ApObtainNumber(a) PROVE Types'
  BY <1>25 DEF ApObtainNumber
<1>26. ASSUME NEW a \in APs, ApMicrocodeSkip(a) PROVE Types'
  BY <1>26 DEF ApMicrocodeSkip
<1>27. ASSUME NEW a \in APs, ApMicrocode(a) PROVE Types'
  BY <1>27 DEF ApMicrocode
<1>28. ASSUME NEW a \in APs, ApLockMicrocode(a) PROVE Types'
  BY <1>28 DEF ApLockMicrocode
<1>29. ASSUME NEW a \in APs, ApLoadedMicrocode(a) PROVE Types'
  BY <1>29 DEF ApLoadedMicrocode
<1>30. ASSUME NEW a \in APs, ApInit(a) PROVE Types'
  BY <1>30 DEF ApInit
<1>31. ASSUME NEW a \in APs, ApLost(a) PROVE Types'
  BY <1>31 DEF ApLost
<1>32. ASSUME NEW a \in APs, ApEnter(a) PROVE Types'
  <2>1. rec[a] \in Records
    BY <1>32 DEF ApEnter, Places, ApPlace, BeforeStart
  <2>2. entered' \in [Records -> Nat]
    BY <2>1, <1>32 DEF ApEnter
  <2> QED
    BY <2>2, <1>32 DEF ApEnter
<1>33. ASSUME NEW a \in APs, ApPassBarrier(a) PROVE Types'
  BY <1>33 DEF ApPassBarrier, Return
<1>34. CASE UNCHANGED vars
  BY <1>34 DEF vars
<1>35. ASSUME NEW c \in CPUs, AbortRelocation(c) PROVE Types'
  BY <1>35 DEF AbortRelocation, GiveUp, Return, Places, BspPlace, ApPlace, CPUs
<1>36. ASSUME NEW c \in CPUs, RelocationTimeout(c) PROVE Types'
  BY <1>36 DEF RelocationTimeout, GiveUp, Return, Places, BspPlace, ApPlace, CPUs
<1>37. ASSUME NEW c \in CPUs, SmmStep(c) PROVE Types'
  BY <1>37 DEF SmmStep, EnterSmm, LeaveSmm
<1>38. ASSUME NEW c \in CPUs, PlanCall(c) PROVE Types'
  BY <1>38, <1>20, <1>21, <1>22, <1>23, <1>35, <1>36 DEF PlanCall
<1>39. CASE BspStep
  BY <1>39, <1>38, <1>1, <1>2, <1>3, <1>4, <1>5, <1>6, <1>7, <1>8, <1>9, <1>10, <1>11,
     <1>12, <1>13, <1>14, <1>15, <1>16, <1>17, <1>18, <1>19 DEF BspStep
<1>40. ASSUME NEW a \in APs, ApStep(a) PROVE Types'
  BY <1>40, <1>38, <1>24, <1>25, <1>26, <1>27, <1>28, <1>29, <1>30, <1>31, <1>32, <1>33
     DEF ApStep, ApRun
<1> QED
  BY <1>34, <1>37, <1>39, <1>40 DEF Next

\* What a step of the BSP leaves alone: the APs' places, except that INIT and
\* SIPI reach those that have not started, and what the APs write.
LEMMA BspLocal ==
  ASSUME TypeInv, BspStep
  PROVE  /\ UNCHANGED <<conf, cpuNum, recorded, entered>>
         /\ \A a \in APs : /\ rec'[a] = rec[a]
                           /\ \/ pc'[a] = pc[a]
                              \/ pc[a] \in BeforeStart /\ pc'[a] \in BeforeStart
<1> USE Cpus DEF TypeInv, Types, Goto, apVars, smmVars, relocVars, planVars, BeforeStart
<1> DEFINE Local == /\ UNCHANGED <<conf, cpuNum, recorded, entered>>
                    /\ \A a \in APs : /\ rec'[a] = rec[a]
                                      /\ \/ pc'[a] = pc[a]
                                         \/ pc[a] \in BeforeStart /\ pc'[a] \in BeforeStart
<1>1. CASE SendInit
  BY <1>1, ApsAssumption DEF SendInit, Places, BspPlace, CPUs
<1>2. CASE SendSipi1
  BY <1>2, ApsAssumption DEF SendSipi1, Places, BspPlace, CPUs
<1>3. CASE Setup \/ SetupFails \/ SendSipi2 \/ IcrBusyTimeout
  BY <1>3 DEF Setup, SetupFails, SendSipi2, IcrBusyTimeout
<1>4. CASE CountReached \/ CountMissed \/ CountTimeout
  BY <1>4 DEF CountReached, CountMissed, CountTimeout
<1>5. CASE StartFailed \/ Restore \/ LoadSmmHandlers \/ NoBspCall
  BY <1>5 DEF StartFailed, Restore, LoadSmmHandlers, NoBspCall
<1>6. CASE RecordSkipWait \/ RecordReached \/ RecordMissed \/ RecordTimeout
  BY <1>6 DEF RecordSkipWait, RecordReached, RecordMissed, RecordTimeout
<1>7. CASE ReleaseBarrier
  BY <1>7 DEF ReleaseBarrier
<1>8. CASE PollAgain("count_delay", "count") \/ PollAgain("wait_delay", "wait")
  BY <1>8 DEF PollAgain
<1>9. CASE PlanCall(BSP)
  BY <1>9 DEF PlanCall, SkipRelocation, BeginRelocation, AbortRelocation, EndRelocation,
     RelocationTimeout, GiveUp, InitializeCpu, Return
<1> QED
  BY <1>1, <1>2, <1>3, <1>4, <1>5, <1>6, <1>7, <1>8, <1>9 DEF BspStep

\* What a step of an AP leaves alone: the other CPUs' places and what the BSP
\* writes.
LEMMA ApLocal ==
  ASSUME TypeInv, NEW a \in APs, ApStep(a)
  PROVE  /\ UNCHANGED <<conf, ret, polls, barrier, area, doSmm, mapped>>
         /\ \A c \in CPUs \ {a} : pc'[c] = pc[c] /\ rec'[c] = rec[c]
BY Cpus DEF TypeInv, Types, Goto, apVars, smmVars, relocVars, planVars, Return, ApStep,
   ApRun, PlanCall, SkipRelocation, BeginRelocation, AbortRelocation, EndRelocation,
   RelocationTimeout, GiveUp, InitializeCpu, ApStart, ApObtainNumber, ApMicrocodeSkip,
   ApMicrocode, ApLockMicrocode, ApLoadedMicrocode, ApInit, ApLost, ApEnter, ApPassBarrier

\* How an AP moves.
LEMMA ApMoves ==
  ASSUME TypeInv, NEW a \in APs, ApStep(a)
  PROVE  \/ pc[a] = "signalled" /\ pc'[a] = "vector" /\ rec'[a] = rec[a]
         \/ pc[a] \in Vector /\ pc'[a] \in (Vector \ {"vector"}) \cup {"lost"} /\ rec'[a] = rec[a]
         \/ pc[a] = "load_msr" /\ pc'[a] = "enter" /\ rec'[a] = 1
         \/ pc[a] = "enter" /\ pc'[a] = "barrier" /\ rec'[a] = rec[a]
         \/ pc[a] = "barrier" /\ barrier[rec[a]] # 0 /\ rec[a] = LOAD
              /\ pc'[a] = "enter" /\ rec'[a] = rec[a] + 1
         \/ pc[a] = "barrier" /\ barrier[rec[a]] # 0 /\ rec[a] = WORK
              /\ pc'[a] = "work" /\ rec'[a] = rec[a]
         \/ pc[a] = "barrier" /\ barrier[rec[a]] # 0 /\ rec[a] \in {RELOCATE, INITIALIZE}
              /\ pc'[a] = "call" /\ rec'[a] = rec[a]
         \/ pc[a] = "call" /\ rec[a] = RELOCATE /\ pc'[a] = "reloc" /\ rec'[a] = rec[a]
         \/ pc[a] \in {"call", "reloc"} /\ pc'[a] = "enter" /\ rec'[a] = rec[a] + 1
<1> USE Cpus DEF TypeInv, Types, Goto, Vector
<1>1. CASE ApStart(a) \/ ApObtainNumber(a) \/ ApMicrocodeSkip(a) \/ ApMicrocode(a)
           \/ ApLockMicrocode(a) \/ ApLoadedMicrocode(a) \/ ApInit(a) \/ ApLost(a)
  BY <1>1 DEF ApStart, ApObtainNumber, ApMicrocodeSkip, ApMicrocode, ApLockMicrocode,
     ApLoadedMicrocode, ApInit, ApLost
<1>2. CASE ApEnter(a)
  BY <1>2 DEF ApEnter
<1>3. CASE ApPassBarrier(a)
  BY <1>3, ApsAssumption DEF ApPassBarrier, Places, ApPlace, BeforeStart, Return, Records,
     LOAD, RELOCATE, INITIALIZE, WORK
<1>4. CASE PlanCall(a)
  BY <1>4 DEF PlanCall, SkipRelocation, BeginRelocation, AbortRelocation, EndRelocation,
     RelocationTimeout, GiveUp, InitializeCpu, Return
<1> QED
  BY <1>1, <1>2, <1>3, <1>4 DEF ApStep, ApRun

\* How the BSP moves, what becomes of ret and of the barriers.
LEMMA BspMoves ==
  ASSUME TypeInv, BspStep
  PROVE  \/ /\ pc[BSP] = "setup" /\ pc'[BSP] \in {"init_ipi", "restore"}
            /\ IF pc'[BSP] = "restore" THEN ret' = -1 ELSE ret' = ret
            /\ \A a \in APs : pc'[a] = pc[a]
            /\ UNCHANGED <<rec, barrier>>
         \/ /\ pc[BSP] = "init_ipi" /\ NumAps > 0 /\ pc'[BSP] = "sipi1"
            /\ \A a \in APs : pc'[a] = "wait_sipi"
            /\ UNCHANGED <<rec, ret, barrier>>
         \/ /\ pc[BSP] \in {"sipi1", "sipi2", "count", "count_delay"}
            /\ pc'[BSP] \in {"sipi2", "count", "count_delay", "failed"}
            /\ UNCHANGED <<rec, ret, barrier>>
         \/ /\ pc[BSP] = "init_ipi" /\ NumAps > 0 /\ pc'[BSP] = "failed"
            /\ UNCHANGED <<rec, ret, barrier>>
         \/ /\ pc[BSP] \in {"init_ipi", "count"} /\ pc'[BSP] = "wait"
            /\ rec' = [rec EXCEPT ![BSP] = 1]
            /\ UNCHANGED <<ret, barrier>>
         \/ /\ pc[BSP] = "failed" /\ pc'[BSP] = "restore" /\ ret' = -1
            /\ UNCHANGED <<rec, barrier>>
         \/ /\ pc[BSP] = "restore" /\ pc'[BSP] = "done"
            /\ UNCHANGED <<rec, ret, barrier>>
         \/ /\ pc[BSP] \in {"wait", "wait_delay"} /\ pc'[BSP] \in {"wait", "wait_delay"}
            /\ UNCHANGED <<rec, ret, barrier>>
         \/ /\ pc[BSP] \in {"wait", "wait_delay"} /\ pc'[BSP] = "call"
            /\ \/ ret' = -1
               \/ ret' = ret /\ (barrier[rec[BSP]] # 0 \/ entered[rec[BSP]] = NumAps)
            /\ UNCHANGED <<rec, barrier>>
         \/ /\ pc[BSP] = "call" /\ rec[BSP] \in {LOAD, WORK} /\ pc'[BSP] = "release"
            /\ UNCHANGED <<rec, ret, barrier>>
         \/ /\ pc[BSP] = "call" /\ rec[BSP] = RELOCATE /\ pc'[BSP] = "reloc"
            /\ UNCHANGED <<rec, ret, barrier>>
         \/ /\ pc[BSP] \in {"call", "reloc"} /\ rec[BSP] \in {RELOCATE, INITIALIZE}
            /\ pc'[BSP] = "release"
            /\ UNCHANGED <<rec, ret, barrier>>
         \/ /\ pc[BSP] = "release" /\ rec' = [rec EXCEPT ![BSP] = @ + 1]
            /\ pc'[BSP] = IF rec[BSP] = WORK THEN "restore" ELSE "wait"
            /\ barrier' = [barrier EXCEPT ![rec[BSP]] = 1]
            /\ UNCHANGED ret
<1> USE Cpus, ApsAssumption DEF TypeInv, Types, Goto, apVars, smmVars, relocVars, planVars,
   Places, BspPlace
<1>1. CASE Setup \/ SetupFails
  BY <1>1 DEF Setup, SetupFails
<1>2. CASE SendInit
  BY <1>2 DEF SendInit, CPUs
<1>3. CASE SendSipi1 \/ SendSipi2 \/ IcrBusyTimeout
  BY <1>3 DEF SendSipi1, SendSipi2, IcrBusyTimeout
<1>4. CASE CountReached \/ CountMissed \/ CountTimeout
  BY <1>4 DEF CountReached, CountMissed, CountTimeout
<1>5. CASE PollAgain("count_delay", "count") \/ PollAgain("wait_delay", "wait")
  BY <1>5 DEF PollAgain
<1>6. CASE StartFailed \/ Restore
  BY <1>6 DEF StartFailed, Restore
<1>7. CASE RecordSkipWait \/ RecordReached \/ RecordMissed \/ RecordTimeout
  BY <1>7 DEF RecordSkipWait, RecordReached, RecordMissed, RecordTimeout
<1>8. CASE LoadSmmHandlers \/ NoBspCall
  BY <1>8 DEF LoadSmmHandlers, NoBspCall
<1>9. CASE ReleaseBarrier
  BY <1>9 DEF ReleaseBarrier
<1>10. CASE PlanCall(BSP)
  BY <1>10 DEF PlanCall, SkipRelocation, BeginRelocation, AbortRelocation, EndRelocation,
     RelocationTimeout, GiveUp, InitializeCpu, Return, BeforePlan, RELOCATE, INITIALIZE
<1> QED
  BY <1>1, <1>2, <1>3, <1>4, <1>5, <1>6, <1>7, <1>8, <1>9, <1>10 DEF BspStep

\* Every CPU stays where its record allows.
LEMMA NextPlaces == TypeInv /\ [Next]_vars => Places'
<1> SUFFICES ASSUME TypeInv, [Next]_vars PROVE Places'
  OBVIOUS
<1> USE Cpus DEF Places, BeforeStart, Vector, BeforePlan, InRecord, Records,
      LOAD, RELOCATE, INITIALIZE, WORK
<1>1. CASE BspStep
  <2>1. ASSUME NEW a \in APs PROVE ApPlace(a)'
    BY <1>1, BspLocal DEF TypeInv, ApPlace
  <2>2. BspPlace'
    <3>1. (pc[BSP] \in {"setup", "init_ipi", "sipi1"} =>
             \A a \in APs : pc[a] \in {"reset", "wait_sipi"})'
      BY <1>1, BspLocal, BspMoves DEF TypeInv, BspPlace
    <3>2. rec'[BSP] = rec[BSP] \/ rec'[BSP] = 1 \/ rec'[BSP] = rec[BSP] + 1
      BY <1>1, BspMoves DEF TypeInv, Types
    <3> QED
      BY <3>1, <3>2, <1>1, BspMoves DEF TypeInv, Types, BspPlace
  <2> QED
    BY <2>1, <2>2
<1>2. ASSUME NEW a \in APs, ApStep(a) PROVE Places'
  <2>1. ASSUME NEW b \in APs PROVE ApPlace(b)'
    <3>1. CASE b = a
      BY <3>1, <1>2, ApMoves DEF TypeInv, ApPlace
    <3>2. CASE b # a
      BY <3>2, <1>2, ApLocal DEF TypeInv, ApPlace
    <3> QED
      BY <3>1, <3>2
  <2>2. BspPlace'
    BY <1>2, ApLocal, ApMoves DEF TypeInv, BspPlace
  <2> QED
    BY <2>1, <2>2
<1>3. CASE UNCHANGED Rest
  BY <1>3 DEF Rest, TypeInv, BspPlace, ApPlace
<1> QED
  BY <1>1, <1>2, <1>3, Steps

LEMMA NextTypeInv == TypeInv /\ [Next]_vars => TypeInv'
BY NextTypes, NextPlaces DEF TypeInv

-----------------------------------------------------------------------------
(* Barriers and history.                                                   *)

LEMMA NextBarriers == TypeInv /\ Barriers /\ [Next]_vars => Barriers'
<1> SUFFICES ASSUME TypeInv, Barriers, [Next]_vars, NEW r \in Records
             PROVE  /\ barrier'[r] # 0 => InitialBarrier[r] = 1 \/ rec'[BSP] > r
                    /\ \A b \in APs : Past(b, r)' => barrier'[r] # 0
  BY DEF Barriers
<1> USE Cpus DEF Records, LOAD, RELOCATE, INITIALIZE, WORK
<1>0. r \in Int /\ \A c \in CPUs : rec[c] \in Int
  BY DEF TypeInv, Types
<1>1. CASE BspStep
  <2>1. rec'[BSP] >= rec[BSP] /\ rec'[BSP] \in Int
    BY <1>0, <1>1, BspMoves DEF TypeInv, Types, Places, BspPlace, BeforePlan, InRecord
  <2>2. \/ barrier'[r] = barrier[r]
        \/ rec[BSP] = r /\ rec'[BSP] = r + 1 /\ barrier'[r] = 1
    BY <1>1, BspMoves DEF TypeInv, Types
  <2>3. ASSUME NEW b \in APs, Past(b, r)' PROVE Past(b, r)
    BY <2>3, <1>0, <1>1, BspLocal DEF Past, BeforeStart
  <2> QED
    BY <2>1, <2>2, <2>3, <1>0 DEF Barriers
<1>2. ASSUME NEW a \in APs, ApStep(a)
      PROVE  /\ barrier'[r] # 0 => InitialBarrier[r] = 1 \/ rec'[BSP] > r
             /\ \A b \in APs : Past(b, r)' => barrier'[r] # 0
  <2>1. UNCHANGED barrier /\ rec'[BSP] = rec[BSP]
    BY <1>2, ApLocal
  <2>2. ASSUME NEW b \in APs, b # a, Past(b, r)' PROVE Past(b, r)
    BY <2>2, <1>2, ApLocal DEF Past
  <2>3. ASSUME Past(a, r)' PROVE Past(a, r) \/ barrier[r] # 0
    BY <2>3, <1>0, <1>2, ApMoves DEF Past, TypeInv, Places, ApPlace, BeforeStart, Vector
  <2> QED
    BY <2>1, <2>2, <2>3 DEF Barriers
<1>3. CASE UNCHANGED Rest
  BY <1>3 DEF Rest, Barriers, Past
<1> QED
  BY <1>1, <1>2, <1>3, Steps

\* An AP past a record that blocks has the BSP before it.
LEMMA BspAhead ==
  ASSUME TypeInv, Barriers, NEW r \in Records, InitialBarrier[r] = 0,
         NEW a \in APs, Past(a, r)
  PROVE  rec[BSP] > r
BY DEF Barriers

LEMMA NextHistory == TypeInv /\ History /\ [Next]_vars => History'
<1> SUFFICES ASSUME TypeInv, History, [Next]_vars PROVE History'
  OBVIOUS
<1> USE Cpus DEF LOAD, RELOCATE, INITIALIZE, WORK, Records
<1>0. \A c \in CPUs : rec[c] \in Int
  BY DEF TypeInv, Types
<1>1. inited \subseteq inited' /\ recorded \subseteq recorded'
  BY Steps DEF Rest, BspStep, ApStep, ApRun, PlanCall, Setup, SetupFails, SendInit,
     SendSipi1, SendSipi2, IcrBusyTimeout, CountReached, CountMissed, CountTimeout,
     PollAgain, StartFailed, Restore, RecordSkipWait, RecordReached, RecordMissed,
     RecordTimeout, LoadSmmHandlers, NoBspCall, ReleaseBarrier, SkipRelocation,
     BeginRelocation, AbortRelocation, EndRelocation, RelocationTimeout, GiveUp,
     InitializeCpu, ApStart, ApObtainNumber, ApMicrocodeSkip, ApMicrocode, ApLockMicrocode,
     ApLoadedMicrocode, ApInit, ApLost, ApEnter, ApPassBarrier, apVars, smmVars, relocVars,
     planVars, vars
<1>2. ASSUME NEW a \in APs, rec'[a] >= 1 PROVE a \in recorded'
  <2>1. CASE rec[a] >= 1
    BY <2>1, <1>1 DEF History
  <2>2. CASE ~(rec[a] >= 1)
    <3>1. ApStep(a)
      BY <2>2, <1>2, <1>0, BspLocal, ApLocal, Steps DEF Rest
    <3>2. ApInit(a)
      BY <3>1, <2>2, <1>2, <1>0 DEF ApStep, ApRun, PlanCall, SkipRelocation,
         BeginRelocation, AbortRelocation, EndRelocation, RelocationTimeout, GiveUp,
         InitializeCpu, ApStart, ApObtainNumber, ApMicrocodeSkip, ApMicrocode,
         ApLockMicrocode, ApLoadedMicrocode, ApLost, ApEnter, ApPassBarrier, TypeInv,
         Places, ApPlace, BeforeStart, Vector
    <3> QED
      BY <3>2 DEF ApInit
  <2> QED
    BY <2>1, <2>2
<1> DEFINE Was(c, r) == rec[c] > r \/ (rec[c] = r /\ pc[c] = "release")
<1> DEFINE r == INITIALIZE
<1>3. ASSUME NEW c \in CPUs, Was(c, r)', ~Was(c, r)
      PROVE  InitializeCpu(c)
  <2>1. CASE c = BSP
    <3>1. BspStep
      BY <2>1, <1>3, ApLocal, Steps DEF Rest
    <3>2. pc[BSP] \in {"call", "reloc"} /\ rec[BSP] = r /\ pc'[BSP] = "release"
      BY <3>1, <2>1, <1>0, <1>3, BspMoves DEF TypeInv, Types, Places, BspPlace, BeforePlan,
         InRecord
    <3> QED
      BY <3>1, <3>2, <2>1 DEF BspStep, PlanCall, BeginRelocation, AbortRelocation,
         SkipRelocation, RelocationTimeout, GiveUp, EndRelocation, InitializeCpu, Setup,
         SetupFails, SendInit, SendSipi1, SendSipi2, IcrBusyTimeout, CountReached,
         CountMissed, CountTimeout, PollAgain, StartFailed, Restore, RecordSkipWait,
         RecordReached, RecordMissed, RecordTimeout, LoadSmmHandlers, NoBspCall,
         ReleaseBarrier, Goto, TypeInv, Types, Places, BspPlace
  <2>2. CASE c \in APs
    <3>1. ApStep(c)
      BY <2>2, <1>3, <1>0, BspLocal, ApLocal, Steps DEF Rest, BeforeStart
    <3>2. pc[c] \in {"call", "reloc"} /\ rec[c] = r
      BY <3>1, <2>2, <1>0, <1>3, ApMoves DEF TypeInv, Places, ApPlace, Vector
    <3>3. rec'[c] = r + 1
      BY <3>1, <3>2, <2>2, <1>0, <1>3, ApMoves DEF Vector
    <3> QED
      BY <3>1, <3>2, <3>3, <2>2 DEF ApStep, ApRun, PlanCall, BeginRelocation,
         AbortRelocation, SkipRelocation, RelocationTimeout, GiveUp, EndRelocation,
         InitializeCpu, ApStart, ApObtainNumber, ApMicrocodeSkip, ApMicrocode,
         ApLockMicrocode, ApLoadedMicrocode, ApInit, ApLost, ApEnter, ApPassBarrier, Goto,
         TypeInv, Types, Places, ApPlace, BeforeStart, Vector
  <2> QED
    BY <2>1, <2>2 DEF CPUs
<1>5. ASSUME NEW c \in CPUs, Was(c, INITIALIZE)' PROVE c \in inited'
  <2>1. CASE Was(c, INITIALIZE)
    BY <2>1, <1>1 DEF History
  <2>2. CASE ~Was(c, INITIALIZE)
    BY <2>2, <1>3, <1>5 DEF InitializeCpu
  <2> QED
    BY <2>1, <2>2
<1> QED
  BY <1>2, <1>5 DEF History

-----------------------------------------------------------------------------
(* Counters.                                                               *)

\* The BSP makes no AP enter a record.
LEMMA BspEntered ==
  ASSUME TypeInv, BspStep, NEW r \in Records, NEW b \in APs
  PROVE  Entered(b, r)' <=> Entered(b, r)
BY BspLocal DEF Entered, Past, BeforeStart

\* An AP enters records only in ApEnter, one at a time.
LEMMA ApEntered ==
  ASSUME TypeInv, NEW a \in APs, ApStep(a), NEW r \in Records, NEW b \in APs
  PROVE  Entered(b, r)' <=> Entered(b, r) \/ (b = a /\ pc[a] = "enter" /\ rec[a] = r)
<1>1. CASE b # a
  BY <1>1, Cpus, ApLocal DEF Entered, Past
<1>2. CASE b = a
  <2>1. r \in Int /\ rec[a] \in Int
    BY Cpus DEF TypeInv, Types, Records
  <2> QED
    BY <1>2, <2>1, ApMoves
       DEF Entered, Past, TypeInv, Places, ApPlace, BeforeStart, Vector, Records, LOAD,
           RELOCATE, INITIALIZE, WORK
<1> QED
  BY <1>1, <1>2

LEMMA ApCounts ==
  ASSUME TypeInv, NEW a \in APs, ApStep(a)
  PROVE  entered' = IF pc[a] = "enter" THEN [entered EXCEPT ![rec[a]] = @ + 1] ELSE entered
BY Cpus DEF ApStep, ApRun, PlanCall, SkipRelocation, BeginRelocation, AbortRelocation,
   EndRelocation, RelocationTimeout, GiveUp, InitializeCpu, ApStart, ApObtainNumber,
   ApMicrocodeSkip, ApMicrocode, ApLockMicrocode, ApLoadedMicrocode, ApInit, ApLost,
   ApEnter, ApPassBarrier, planVars, Vector

LEMMA NextCounts == TypeInv /\ Counts /\ [Next]_vars => Counts'
<1> SUFFICES ASSUME TypeInv, Counts, [Next]_vars, NEW r \in Records
             PROVE  entered'[r] = Cardinality(EnteredBy(r)')
  BY DEF Counts
<1>1. CASE BspStep
  <2>1. EnteredBy(r)' = EnteredBy(r)
    BY <1>1, BspEntered DEF EnteredBy
  <2> QED
    BY <2>1, <1>1, BspLocal DEF Counts
<1>2. ASSUME NEW a \in APs, ApStep(a) PROVE entered'[r] = Cardinality(EnteredBy(r)')
  <2>1. CASE pc[a] = "enter" /\ rec[a] = r
    <3>1. EnteredBy(r)' = EnteredBy(r) \cup {a}
      BY <2>1, <1>2, ApEntered DEF EnteredBy
    <3>2. a \notin EnteredBy(r)
      BY <2>1, Cpus DEF EnteredBy, Entered, Past, TypeInv, Types, Records
    <3>3. IsFiniteSet(EnteredBy(r))
      BY ApsAssumption, FS_Subset DEF EnteredBy
    <3>4. Cardinality(EnteredBy(r) \cup {a}) = Cardinality(EnteredBy(r)) + 1
      BY <3>2, <3>3, FS_AddElement
    <3>5. entered'[r] = entered[r] + 1
      BY <2>1, <1>2, ApCounts DEF TypeInv, Types
    <3> QED
      BY <3>1, <3>4, <3>5 DEF Counts
  <2>2. CASE ~(pc[a] = "enter" /\ rec[a] = r)
    <3>1. EnteredBy(r)' = EnteredBy(r)
      BY <2>2, <1>2, ApEntered DEF EnteredBy
    <3>2. entered'[r] = entered[r]
      BY <2>2, <1>2, ApCounts DEF TypeInv, Types
    <3> QED
      BY <3>1, <3>2 DEF Counts
  <2> QED
    BY <2>1, <2>2
<1>3. CASE UNCHANGED Rest
  BY <1>3 DEF Rest, Counts, EnteredBy, Entered, Past
<1> QED
  BY <1>1, <1>2, <1>3, Steps

LEMMA NextNumbers == TypeInv /\ Numbers /\ [Next]_vars => Numbers'
<1> SUFFICES ASSUME TypeInv, Numbers, [Next]_vars PROVE Numbers'
  OBVIOUS
<1> USE Cpus
<1>0. /\ apCount \in Nat /\ \A a \in APs : cpuNum[a] \in Nat
      /\ \A c \in CPUs : rec[c] \in Int
  BY DEF TypeInv, Types
<1>1. CASE BspStep
  <2>1. apCount' = apCount
    <3>1. CASE Setup
      <4>1. NumberedAps = {}
        BY <3>1 DEF Setup, TypeInv, Places, BspPlace, Numbers, NumberedAps, BeforeStart
      <4>2. apCount = 0
        BY <4>1, FS_EmptySet DEF Numbers
      <4> QED
        BY <4>2, <3>1 DEF Setup
    <3>2. CASE ~Setup
      BY <3>2, <1>1 DEF BspStep, PlanCall, SetupFails, SendInit, SendSipi1, SendSipi2,
         IcrBusyTimeout, CountReached, CountMissed, CountTimeout, PollAgain, StartFailed,
         Restore, RecordSkipWait, RecordReached, RecordMissed, RecordTimeout,
         LoadSmmHandlers, NoBspCall, ReleaseBarrier, SkipRelocation, BeginRelocation,
         AbortRelocation, EndRelocation, RelocationTimeout, GiveUp, InitializeCpu, apVars
    <3> QED
      BY <3>1, <3>2
  <2>2. NumberedAps' = NumberedAps
    BY <1>1, BspLocal DEF NumberedAps
  <2> QED
    BY <2>1, <2>2, <1>1, BspLocal DEF Numbers, BeforeStart, Vector
<1>2. ASSUME NEW a \in APs, ApObtainNumber(a) PROVE Numbers'
  <2>1. /\ apCount' = apCount + 1 /\ cpuNum' = [cpuNum EXCEPT ![a] = apCount + 1]
        /\ pc' = [pc EXCEPT ![a] = "microcode"] /\ rec' = rec /\ cpuNum[a] = 0
    BY <1>2 DEF ApObtainNumber, Goto, Numbers
  <2>2. NumberedAps' = NumberedAps \cup {a} /\ a \notin NumberedAps
    BY <2>1, <1>0 DEF NumberedAps, TypeInv, Types
  <2>3. Cardinality(NumberedAps \cup {a}) = Cardinality(NumberedAps) + 1
    <3>1. IsFiniteSet(NumberedAps)
      BY ApsAssumption, FS_Subset DEF NumberedAps
    <3> QED
      BY <3>1, <2>2, FS_AddElement
  <2>4. \A b \in APs : cpuNum'[b] = IF b = a THEN apCount + 1 ELSE cpuNum[b]
    BY <2>1 DEF TypeInv, Types
  <2>5. \A b, c \in APs : b # c /\ cpuNum'[b] # 0 => cpuNum'[b] # cpuNum'[c]
    BY <2>4, <1>0 DEF Numbers
  <2>6. \A b \in APs : pc'[b] = IF b = a THEN "microcode" ELSE pc[b]
    BY <2>1 DEF TypeInv, Types
  <2>7. apCount' = Cardinality(NumberedAps')
    BY <2>1, <2>2, <2>3 DEF Numbers
  <2>8. \A b \in APs : cpuNum'[b] <= apCount'
    BY <2>1, <2>4, <1>0 DEF Numbers
  <2>9. /\ \A b \in APs : pc'[b] \in BeforeStart \cup {"vector"} => cpuNum'[b] = 0
        /\ \A b \in APs : rec'[b] >= 1 => cpuNum'[b] # 0
        /\ \A b \in APs : pc'[b] \in Vector \ {"vector"} => cpuNum'[b] # 0
    BY <2>1, <2>4, <2>6, <1>0 DEF Numbers, BeforeStart, Vector
  <2> QED
    BY <2>5, <2>7, <2>8, <2>9 DEF Numbers
<1>3. ASSUME NEW a \in APs, ApStep(a), ~ApObtainNumber(a) PROVE Numbers'
  <2>1. UNCHANGED <<apCount, cpuNum>>
    BY <1>3 DEF ApStep, ApRun, PlanCall, SkipRelocation, BeginRelocation, AbortRelocation,
       EndRelocation, RelocationTimeout, GiveUp, InitializeCpu, ApStart, ApMicrocodeSkip,
       ApMicrocode, ApLockMicrocode, ApLoadedMicrocode, ApInit, ApLost, ApEnter,
       ApPassBarrier, apVars
  <2>2. NumberedAps' = NumberedAps
    BY <2>1 DEF NumberedAps
  <2>3. pc[a] # "vector" \/ pc'[a] = "lost"
    BY <1>3 DEF ApStep, ApRun, PlanCall, SkipRelocation, BeginRelocation, AbortRelocation,
       EndRelocation, RelocationTimeout, GiveUp, InitializeCpu, ApStart, ApMicrocodeSkip,
       ApMicrocode, ApLockMicrocode, ApLoadedMicrocode, ApInit, ApLost, ApEnter,
       ApPassBarrier, TypeInv, Types, Goto
  <2>4. ASSUME NEW b \in APs
        PROVE  /\ pc'[b] \in BeforeStart \cup {"vector"} => cpuNum[b] = 0
               /\ rec'[b] >= 1 => cpuNum[b] # 0
               /\ pc'[b] \in Vector \ {"vector"} => cpuNum[b] # 0
    <3>1. CASE b # a
      BY <3>1, <1>3, ApLocal DEF Numbers
    <3>2. CASE b = a
      BY <3>2, <2>3, <1>0, <1>3, ApMoves
         DEF Numbers, BeforeStart, Vector, TypeInv, Places, ApPlace, Records, LOAD,
             RELOCATE, INITIALIZE, WORK
    <3> QED
      BY <3>1, <3>2
  <2> QED
    BY <2>1, <2>2, <2>4 DEF Numbers
<1>4. CASE UNCHANGED Rest
  BY <1>4 DEF Rest, Numbers, NumberedAps
<1> QED
  BY <1>1, <1>2, <1>3, <1>4, Steps

-----------------------------------------------------------------------------
(* The check-in of the APs, and the default SMM area.                      *)

\* When as many APs as were asked for have entered, all have.
LEMMA AllEntered ==
  ASSUME TypeInv, Counts, NEW r \in Records, entered[r] = NumAps
  PROVE  Cardinality(APs) = NumAps /\ \A a \in APs : Entered(a, r)
<1>1. Cardinality(EnteredBy(r)) = NumAps
  BY DEF Counts
<1>2. EnteredBy(r) \in SUBSET APs /\ IsFiniteSet(APs)
  BY ApsAssumption DEF EnteredBy
<1>3. /\ Cardinality(EnteredBy(r)) <= Cardinality(APs)
      /\ Cardinality(APs) = Cardinality(EnteredBy(r)) => APs = EnteredBy(r)
  BY <1>2, FS_Subset
<1>4. Cardinality(APs) = NumAps
  BY <1>1, <1>2, <1>3, ApsAssumption, FS_CardinalityType
<1> QED
  BY <1>1, <1>3, <1>4 DEF EnteredBy

LEMMA NextGates == TypeInv /\ Barriers /\ Counts /\ Gates /\ [Next]_vars => Gates'
<1> SUFFICES ASSUME TypeInv, Barriers, Counts, Gates, [Next]_vars, ret' = 0,
                    NEW r \in Records, InitialBarrier[r] = 0, Past(BSP, r)'
             PROVE  Cardinality(APs) = NumAps /\ \A b \in APs : Entered(b, r)'
  BY DEF Gates, Gate
<1> USE Cpus
<1>0. r \in Int /\ \A c \in CPUs : rec[c] \in Int
  BY DEF TypeInv, Types, Records
<1>1. CASE BspStep
  <2>1. ret = 0
    BY <1>1, BspMoves DEF TypeInv, Types
  <2>2. CASE Past(BSP, r)
    BY <2>1, <2>2, <1>1, BspEntered DEF Gates, Gate
  <2>3. CASE ~Past(BSP, r)
    <3>1. rec[BSP] = r /\ entered[r] = NumAps
      BY <2>3, <2>1, <1>0, <1>1, BspMoves DEF Past, Barriers, TypeInv, Types, Places,
         BspPlace, BeforePlan, InRecord, Records, LOAD, RELOCATE, INITIALIZE, WORK
    <3> QED
      BY <3>1, AllEntered, <1>1, BspEntered
  <2> QED
    BY <2>2, <2>3
<1>2. ASSUME NEW a \in APs, ApStep(a)
      PROVE  Cardinality(APs) = NumAps /\ \A b \in APs : Entered(b, r)'
  <2>1. ret = 0 /\ Past(BSP, r)
    BY <1>2, ApLocal DEF Past
  <2> QED
    BY <2>1, <1>2, ApEntered DEF Gates, Gate
<1>3. CASE UNCHANGED Rest
  BY <1>3 DEF Rest, Gates, Gate, Past, Entered
<1> QED
  BY <1>1, <1>2, <1>3, Steps

\* Only four actions of the BSP touch the area, mp_state or the APIC id map.
LEMMA BspArea ==
  ASSUME BspStep
  PROVE  \/ Setup \/ SetupFails \/ Restore \/ LoadSmmHandlers
         \/ UNCHANGED <<area, doSmm, mapped>>
BY DEF BspStep, PlanCall, SendInit, SendSipi1, SendSipi2, IcrBusyTimeout, CountReached,
   CountMissed, CountTimeout, PollAgain, StartFailed, RecordSkipWait, RecordReached,
   RecordMissed, RecordTimeout, NoBspCall, ReleaseBarrier, SkipRelocation, BeginRelocation,
   AbortRelocation, EndRelocation, RelocationTimeout, GiveUp, InitializeCpu, smmVars,
   relocVars

\* A CPU in the relocation handler has found SMM on.
LEMMA NextReloc ==
  TypeInv /\ Barriers /\ Area /\ [Next]_vars => \A c \in CPUs : pc'[c] = "reloc" => doSmm'
<1> SUFFICES ASSUME TypeInv, Barriers, Area, [Next]_vars, NEW c \in CPUs, pc'[c] = "reloc"
             PROVE  doSmm'
  OBVIOUS
<1> USE Cpus
<1>1. CASE pc[c] = "reloc"
  <2>1. doSmm
    BY <1>1 DEF Area
  <2>2. ~LoadSmmHandlers
    <3>1. c = BSP \/ Past(c, LOAD)
      BY <1>1 DEF TypeInv, Places, ApPlace, BeforeStart, Vector, Past, LOAD, RELOCATE, CPUs
    <3>2. CASE Past(c, LOAD) /\ c # BSP
      <4>1. rec[BSP] > LOAD
        BY <3>2, BspAhead DEF CPUs, Records, LOAD, RELOCATE, InitialBarrier
      <4> QED
        BY <4>1 DEF LoadSmmHandlers, LOAD
    <3> QED
      BY <3>1, <3>2, <1>1 DEF LoadSmmHandlers
  <2>3. UNCHANGED doSmm
    <3>1. CASE BspStep
      BY <3>1, <2>2, BspArea DEF Setup, SetupFails, Restore
    <3>2. CASE \E a \in APs : ApStep(a)
      BY <3>2, ApLocal
    <3>3. CASE UNCHANGED Rest
      BY <3>3 DEF Rest
    <3> QED
      BY <3>1, <3>2, <3>3, Steps
  <2> QED
    BY <2>1, <2>3
<1>2. CASE pc[c] # "reloc"
  <2>1. BeginRelocation(c)
    <3>1. CASE BspStep
      <4>1. c = BSP
        BY <3>1, <1>2, BspLocal DEF CPUs, BeforeStart
      <4>2. pc[BSP] = "call" /\ rec[BSP] = RELOCATE /\ pc'[BSP] = "reloc"
        BY <4>1, <3>1, <1>2, BspMoves DEF TypeInv, Types
      <4> QED
        BY <4>1, <4>2, <3>1 DEF BspStep, PlanCall, BeginRelocation, AbortRelocation,
           SkipRelocation, RelocationTimeout, GiveUp, EndRelocation, InitializeCpu, Return,
           Setup, SetupFails, SendInit, SendSipi1, SendSipi2, IcrBusyTimeout, CountReached,
           CountMissed, CountTimeout, PollAgain, StartFailed, Restore, RecordSkipWait,
           RecordReached, RecordMissed, RecordTimeout, LoadSmmHandlers, NoBspCall,
           ReleaseBarrier, Goto, TypeInv, Types, LOAD, RELOCATE, INITIALIZE, WORK
    <3>2. ASSUME NEW a \in APs, ApStep(a) PROVE BeginRelocation(c)
      <4>1. c = a
        BY <3>2, <1>2, ApLocal
      <4>2. pc[a] = "call" /\ rec[a] = RELOCATE
        BY <4>1, <3>2, <1>2, ApMoves DEF Vector
      <4> QED
        BY <4>1, <4>2, <3>2 DEF ApStep, ApRun, PlanCall, BeginRelocation, AbortRelocation,
           SkipRelocation, RelocationTimeout, GiveUp, EndRelocation, InitializeCpu, Return,
           ApStart, ApObtainNumber, ApMicrocodeSkip, ApMicrocode, ApLockMicrocode,
           ApLoadedMicrocode, ApInit, ApLost, ApEnter, ApPassBarrier, Goto, TypeInv, Types,
           Vector
    <3> QED
      BY <3>1, <3>2, <1>2, Steps DEF Rest
  <2> QED
    BY <2>1 DEF BeginRelocation
<1> QED
  BY <1>1, <1>2

\* Where the BSP is when it takes one of the four, and when it does not.
LEMMA BspAreaPlace ==
  ASSUME TypeInv, BspStep, ~Setup, ~SetupFails, ~Restore, ~LoadSmmHandlers
  PROVE  /\ pc[BSP] \notin {"setup", "restore", "done"}
         /\ Loaded' <=> Loaded
<1> USE Cpus DEF LOAD, RELOCATE, INITIALIZE, WORK
<1>1. pc[BSP] \notin {"setup", "restore", "done"} /\ ~(pc[BSP] = "call" /\ rec[BSP] = LOAD)
  BY DEF BspStep, PlanCall, SendInit, SendSipi1, SendSipi2, IcrBusyTimeout, CountReached,
     CountMissed, CountTimeout, PollAgain, StartFailed, RecordSkipWait, RecordReached,
     RecordMissed, RecordTimeout, NoBspCall, ReleaseBarrier, SkipRelocation,
     BeginRelocation, AbortRelocation, EndRelocation, RelocationTimeout, GiveUp, InitializeCpu
<1>2. Loaded' <=> Loaded
  BY <1>1, BspMoves DEF Loaded, TypeInv, Types, Places, BspPlace, BeforePlan, InRecord, Records
<1> QED
  BY <1>1, <1>2

\* When load_smm_handlers runs and nothing has timed out, all APs have recorded
\* their APIC ids.
LEMMA RecordedAtLoad ==
  ASSUME TypeInv, History, Gates, LoadSmmHandlers, ret = 0
  PROVE  recorded = APs
<1>1. Past(BSP, LOAD) /\ InitialBarrier[LOAD] = 0 /\ LOAD \in Records
  BY DEF LoadSmmHandlers, Past, InitialBarrier, Records, LOAD, RELOCATE
<1>2. \A a \in APs : Entered(a, LOAD)
  BY <1>1 DEF Gates, Gate
<1>3. \A a \in APs : rec[a] >= 1
  BY <1>2, Cpus DEF Entered, Past, LOAD, TypeInv, Types
<1> QED
  BY <1>3 DEF History, TypeInv, Types

LEMMA NextArea ==
  TypeInv /\ Barriers /\ History /\ Gates /\ Area /\ [Next]_vars => Area'
<1> SUFFICES ASSUME TypeInv, Barriers, History, Gates, Area, [Next]_vars PROVE Area'
  OBVIOUS
<1> USE Cpus
<1> DEFINE Fresh == pc[BSP] \notin {"setup", "restore", "done"} /\ ~Loaded => area = "sipi"
           Handler == doSmm /\ Loaded /\ pc[BSP] # "done" => area = "smm"
           Map == doSmm /\ Loaded /\ ret = 0 => mapped = APs
<1>0. Fresh /\ Handler /\ Map
  BY DEF Area
<1>1. Fresh' /\ Handler' /\ Map'
  <2>1. CASE Setup \/ SetupFails
    <3>1. rec[BSP] = 0 /\ UNCHANGED rec
      BY <2>1 DEF Setup, SetupFails, TypeInv, Places, BspPlace, InRecord
    <3>2. ~Loaded'
      BY <3>1 DEF Loaded, LOAD
    <3>3. area' = "sipi" \/ pc'[BSP] = "restore"
      BY <2>1 DEF Setup, SetupFails, Goto, TypeInv, Types
    <3> QED
      BY <3>2, <3>3
  <2>2. CASE Restore
    <3>1. /\ pc[BSP] = "restore" /\ pc'[BSP] = "done"
          /\ UNCHANGED <<rec, ret, doSmm, mapped>>
      BY <2>2 DEF Restore, Goto, TypeInv, Types
    <3>2. Loaded' <=> Loaded
      BY <3>1 DEF Loaded
    <3> QED
      BY <3>1, <3>2, <1>0
  <2>3. CASE LoadSmmHandlers
    <3>1. pc'[BSP] = "release" /\ rec'[BSP] = LOAD /\ UNCHANGED <<rec, ret>>
      BY <2>3 DEF LoadSmmHandlers, Goto, TypeInv, Types
    <3>2. Loaded'
      BY <3>1 DEF Loaded
    <3>3. doSmm' => area' = "smm" /\ mapped' = recorded
      BY <2>3 DEF LoadSmmHandlers
    <3>4. ret = 0 => recorded = APs
      BY <2>3, RecordedAtLoad
    <3> QED
      BY <3>1, <3>2, <3>3, <3>4
  <2>4. CASE BspStep /\ ~Setup /\ ~SetupFails /\ ~Restore /\ ~LoadSmmHandlers
    <3>1. UNCHANGED <<area, doSmm, mapped>>
      BY <2>4, BspArea
    <3>2. pc[BSP] \notin {"setup", "restore", "done"} /\ (Loaded' <=> Loaded)
      BY <2>4, BspAreaPlace
    <3>3. ret' = 0 => ret = 0
      BY <2>4, BspMoves DEF TypeInv, Types
    <3> QED
      BY <3>1, <3>2, <3>3, <1>0
  <2>5. CASE \E a \in APs : ApStep(a)
    <3>1. UNCHANGED <<ret, area, doSmm, mapped>>
      BY <2>5, ApLocal
    <3>2. pc'[BSP] = pc[BSP] /\ rec'[BSP] = rec[BSP]
      BY <2>5, ApLocal
    <3>3. Loaded' <=> Loaded
      BY <3>2 DEF Loaded
    <3> QED
      BY <3>1, <3>2, <3>3, <1>0
  <2>6. CASE UNCHANGED Rest
    BY <2>6, <1>0 DEF Rest, Loaded
  <2> QED
    BY <2>1, <2>2, <2>3, <2>4, <2>5, <2>6, Steps
<1>2. \A c \in CPUs : pc'[c] = "reloc" => doSmm'
  BY NextReloc
<1> QED
  BY <1>1, <1>2 DEF Area

\* mp_state.do_smm stays a Boolean.
LEMMA NextDoSmm == TypeInv /\ doSmm \in BOOLEAN /\ [Next]_vars => doSmm' \in BOOLEAN
<1> SUFFICES ASSUME TypeInv, doSmm \in BOOLEAN, [Next]_vars PROVE doSmm' \in BOOLEAN
  OBVIOUS
<1>1. LoadSmmHandlers => UNCHANGED doSmm \/ doSmm' = FALSE
  BY DEF LoadSmmHandlers
<1>2. Setup \/ SetupFails \/ Restore => UNCHANGED doSmm
  BY DEF Setup, SetupFails, Restore
<1>3. ASSUME NEW a \in APs, ApStep(a) PROVE UNCHANGED doSmm
  BY <1>3, ApLocal
<1>4. UNCHANGED doSmm \/ doSmm' = FALSE
  BY <1>1, <1>2, <1>3, BspArea, Steps DEF Rest
<1> QED
  BY <1>4

-----------------------------------------------------------------------------
(* The relocation.                                                         *)

RelocStep(d) ==
  \/ SkipRelocation(d) \/ BeginRelocation(d) \/ AbortRelocation(d)
  \/ EndRelocation(d) \/ RelocationTimeout(d)

\* What other steps leave alone.
Elsewhere ==
  /\ UNCHANGED <<conf, smmLock, smi, smm, relocated, spoilt, gaveUp>>
  /\ \A c \in CPUs : /\ pc'[c] = "reloc" <=> pc[c] = "reloc"
                     /\ Back(c)' => Back(c)

LEMMA BspElsewhere ==
  ASSUME TypeInv, BspStep, ~RelocStep(BSP) PROVE Elsewhere
<1> USE Cpus DEF TypeInv, Types, Goto, apVars, smmVars, relocVars, planVars
<1>1. UNCHANGED <<conf, smmLock, smi, smm, relocated, spoilt, gaveUp>>
  BY DEF BspStep, PlanCall, RelocStep, Setup, SetupFails, SendInit, SendSipi1, SendSipi2,
     IcrBusyTimeout, CountReached, CountMissed, CountTimeout, PollAgain, StartFailed,
     Restore, RecordSkipWait, RecordReached, RecordMissed, RecordTimeout,
     LoadSmmHandlers, NoBspCall, ReleaseBarrier, InitializeCpu
<1>2. ASSUME NEW a \in APs
      PROVE  (pc'[a] = "reloc" <=> pc[a] = "reloc") /\ (Back(a)' => Back(a))
  BY <1>2, BspLocal DEF Back, BeforeStart
<1>3. pc[BSP] # "reloc" /\ pc'[BSP] # "reloc"
  BY DEF BspStep, PlanCall, RelocStep, Setup, SetupFails, SendInit, SendSipi1, SendSipi2,
     IcrBusyTimeout, CountReached, CountMissed, CountTimeout, PollAgain, StartFailed,
     Restore, RecordSkipWait, RecordReached, RecordMissed, RecordTimeout,
     LoadSmmHandlers, NoBspCall, ReleaseBarrier, InitializeCpu, Return,
     EndRelocation, RelocationTimeout, BeginRelocation
<1>4. ~(pc[BSP] = "call" /\ rec[BSP] = RELOCATE)
  BY DEF BspStep, PlanCall, RelocStep, Setup, SetupFails, SendInit, SendSipi1, SendSipi2,
     IcrBusyTimeout, CountReached, CountMissed, CountTimeout, PollAgain, StartFailed,
     Restore, RecordSkipWait, RecordReached, RecordMissed, RecordTimeout,
     LoadSmmHandlers, NoBspCall, ReleaseBarrier, InitializeCpu, LOAD, RELOCATE,
     INITIALIZE, WORK
<1>5. Back(BSP)' => Back(BSP)
  BY <1>3, <1>4, BspMoves DEF Back, Places, BspPlace, BeforePlan, InRecord, Records,
     LOAD, RELOCATE, INITIALIZE, WORK
<1> QED
  BY <1>1, <1>2, <1>3, <1>5 DEF Elsewhere, CPUs

LEMMA ApElsewhere ==
  ASSUME TypeInv, NEW a \in APs, ApStep(a), ~RelocStep(a) PROVE Elsewhere
<1> USE Cpus DEF TypeInv, Types, Goto, apVars, smmVars, relocVars, planVars
<1>1. UNCHANGED <<conf, smmLock, smi, smm, relocated, spoilt, gaveUp>>
  BY DEF ApStep, ApRun, PlanCall, RelocStep, InitializeCpu, ApStart, ApObtainNumber,
     ApMicrocodeSkip, ApMicrocode, ApLockMicrocode, ApLoadedMicrocode, ApInit, ApLost,
     ApEnter, ApPassBarrier
<1>2. ASSUME NEW c \in CPUs, c # a
      PROVE  (pc'[c] = "reloc" <=> pc[c] = "reloc") /\ (Back(c)' => Back(c))
  BY <1>2, ApLocal DEF Back
<1>3. pc[a] # "reloc" /\ pc'[a] # "reloc" /\ ~(pc[a] = "call" /\ rec[a] = RELOCATE)
  BY DEF ApStep, ApRun, PlanCall, RelocStep, InitializeCpu, ApStart, ApObtainNumber,
     ApMicrocodeSkip, ApMicrocode, ApLockMicrocode, ApLoadedMicrocode, ApInit, ApLost,
     ApEnter, ApPassBarrier, Return, Vector, RELOCATE, INITIALIZE
<1>4. Back(a)' => Back(a)
  BY <1>3, ApMoves DEF Back, Places, ApPlace, BeforeStart, Vector, Records, LOAD, RELOCATE,
     INITIALIZE, WORK
<1> QED
  BY <1>1, <1>2, <1>3, <1>4 DEF Elsewhere

\* A step belongs to some CPU's relocation or leaves all of them alone.  A CPU in
\* SMM takes no step of its own.
LEMMA RelocCases ==
  ASSUME TypeInv, [Next]_vars
  PROVE  \/ \E d \in CPUs : d \notin smm /\ RelocStep(d)
         \/ \E d \in CPUs : SmmStep(d)
         \/ Elsewhere
<1>1. CASE BspStep
  BY <1>1, Cpus, BspElsewhere DEF BspStep
<1>2. ASSUME NEW a \in APs, ApStep(a)
      PROVE  (\E d \in CPUs : d \notin smm /\ RelocStep(d)) \/ Elsewhere
  <2>1. CASE RelocStep(a)
    <3>1. ApRun(a)
      BY <1>2, <2>1 DEF ApStep, ApStart, ApLost, Vector, RelocStep, SkipRelocation,
         BeginRelocation, AbortRelocation, EndRelocation, RelocationTimeout
    <3> QED
      BY <3>1, <2>1, Cpus DEF ApRun
  <2>2. CASE ~RelocStep(a)
    BY <2>2, <1>2, ApElsewhere
  <2> QED
    BY <2>1, <2>2
<1>3. CASE UNCHANGED vars
  BY <1>3 DEF vars, Elsewhere, Back
<1> QED
  BY <1>1, <1>2, <1>3 DEF Next

\* While ret is 0, a CPU that waits for its SMI has the relocation handler in the
\* area and its APIC id in the map.
LEMMA RelocReady ==
  ASSUME TypeInv, Barriers, Gates, Area, ret = 0, NEW c \in CPUs, pc[c] = "reloc"
  PROVE  area = "smm" /\ c \in mapped \cup {BSP}
<1> USE Cpus DEF LOAD, RELOCATE, INITIALIZE, WORK, Records
<1>0. \A d \in CPUs : rec[d] \in Int
  BY DEF TypeInv, Types
<1>1. doSmm
  BY DEF Area
<1>2. Loaded /\ pc[BSP] # "done"
  <2>1. CASE c = BSP
    BY <2>1 DEF Loaded, TypeInv, Places, BspPlace
  <2>2. CASE c \in APs
    <3>1. Past(c, LOAD) /\ InitialBarrier[LOAD] = 0 /\ ~Entered(c, INITIALIZE)
      BY <2>2 DEF TypeInv, Places, ApPlace, BeforeStart, Vector, Past, Entered, InitialBarrier
    <3>2. rec[BSP] > LOAD
      BY <3>1, <2>2, BspAhead
    <3>3. ~Past(BSP, INITIALIZE)
      BY <3>1, <2>2 DEF Gates, Gate, InitialBarrier
    <3> QED
      BY <3>2, <3>3, <1>0 DEF Loaded, Past, TypeInv, Places, BspPlace
  <2> QED
    BY <2>1, <2>2 DEF CPUs
<1> QED
  BY <1>1, <1>2 DEF Area, CPUs

\* ret never becomes 0 again, nor does SMM come on again.
LEMMA RetKept == TypeInv /\ doSmm \in BOOLEAN /\ [Next]_vars =>
                   (ret' = 0 => ret = 0) /\ (doSmm' => doSmm)
<1> SUFFICES ASSUME TypeInv, doSmm \in BOOLEAN, [Next]_vars
             PROVE  (ret' = 0 => ret = 0) /\ (doSmm' => doSmm)
  OBVIOUS
<1>1. CASE BspStep
  <2>1. ret' = 0 => ret = 0
    BY <1>1, BspMoves DEF TypeInv, Types
  <2>2. doSmm' => doSmm
    BY <1>1, BspArea DEF Setup, SetupFails, Restore, LoadSmmHandlers
  <2> QED
    BY <2>1, <2>2
<1>2. CASE \E a \in APs : ApStep(a)
  BY <1>2, ApLocal
<1>3. CASE UNCHANGED Rest
  BY <1>3 DEF Rest
<1> QED
  BY <1>1, <1>2, <1>3, Steps

LEMMA NextRelocation ==
  TypeInv /\ doSmm \in BOOLEAN /\ Barriers /\ Gates /\ Area /\ Relocation /\ [Next]_vars
    => Relocation'
<1> SUFFICES ASSUME TypeInv, doSmm \in BOOLEAN, Barriers, Gates, Area, Relocation, [Next]_vars
             PROVE  Relocation'
  OBVIOUS
<1> USE Cpus, ApsAssumption
<1>0. (ret' = 0 => ret = 0) /\ (doSmm' => doSmm)
  BY RetKept
<1>1. Waiting /\ Spoiling /\ Outcome
  BY DEF Relocation
<1>2. CASE Elsewhere
  <2>1. Waiting'
    BY <1>1, <1>2 DEF Waiting, Elsewhere
  <2>2. Spoiling'
    BY <1>1, <1>2 DEF Spoiling, Elsewhere
  <2>3. Outcome'
    BY <1>0, <1>1, <1>2 DEF Outcome, Elsewhere
  <2> QED
    BY <2>1, <2>2, <2>3 DEF Relocation
<1>3. ASSUME NEW d \in CPUs, SkipRelocation(d), d \notin smm PROVE Relocation'
  <2>1. /\ UNCHANGED <<conf, ret, doSmm, smmLock, smi, smm, relocated, spoilt, gaveUp>>
        /\ ~doSmm /\ pc[d] = "call"
    BY <1>3 DEF SkipRelocation, smmVars, relocVars
  <2>2. \A c \in CPUs : pc'[c] = "reloc" <=> pc[c] = "reloc"
    BY <1>3 DEF SkipRelocation, Return, Goto, TypeInv, Types
  <2> QED
    BY <1>1, <2>1, <2>2 DEF Relocation, Waiting, Spoiling, Outcome
<1>4. ASSUME NEW d \in CPUs, BeginRelocation(d), d \notin smm PROVE Relocation'
  <2>1. /\ UNCHANGED <<conf, rec, ret, doSmm, smm, relocated, spoilt, gaveUp>>
        /\ pc[d] = "call" /\ smi' = smi \cup {d}
    BY <1>4 DEF BeginRelocation
  <2>2. \A c \in CPUs : pc'[c] = IF c = d THEN "reloc" ELSE pc[c]
    BY <1>4 DEF BeginRelocation, Goto, TypeInv, Types
  <2>3. conf.serial => smmLock = NoCpu /\ smmLock' = d
    BY <1>4 DEF BeginRelocation
  <2>4. Waiting'
    <3>1. ASSUME NEW c \in CPUs, conf.serial, pc'[c] = "reloc" PROVE smmLock' = c
      BY <3>1, <1>1, <2>2, <2>3 DEF Waiting
    <3>2. ASSUME NEW c \in CPUs
          PROVE  /\ c \in smi' => pc'[c] = "reloc" \/ c \in gaveUp
                 /\ c \in smm => (pc'[c] = "reloc" \/ c \in gaveUp) /\ c \notin smi'
      BY <3>2, <1>1, <1>4, <2>1, <2>2 DEF Waiting
    <3> QED
      BY <3>1, <3>2, <2>1 DEF Waiting
  <2>5. Outcome'
    BY <1>1, <2>1, <2>2 DEF Outcome, Back
  <2> QED
    BY <1>1, <2>1, <2>4, <2>5 DEF Relocation, Spoiling
<1>5. ASSUME NEW d \in CPUs, AbortRelocation(d), d \notin smm PROVE Relocation'
  <2>1. /\ UNCHANGED <<conf, ret, doSmm, smmLock, smi, smm, relocated, spoilt>>
        /\ pc[d] = "call" /\ gaveUp' = gaveUp \cup {d}
    BY <1>5 DEF AbortRelocation, GiveUp
  <2>2. \A c \in CPUs : /\ pc'[c] = "reloc" <=> pc[c] = "reloc"
                        /\ c # d => pc'[c] = pc[c] /\ rec'[c] = rec[c]
    BY <1>5 DEF AbortRelocation, Return, Goto, TypeInv, Types
  <2>3. Waiting'
    BY <1>1, <2>1, <2>2 DEF Waiting
  <2>4. Outcome'
    BY <1>1, <2>1, <2>2 DEF Outcome, Back
  <2> QED
    BY <1>1, <2>1, <2>3, <2>4 DEF Relocation, Spoiling
<1>6. ASSUME NEW d \in CPUs, EndRelocation(d), d \notin smm PROVE Relocation'
  <2>1. /\ UNCHANGED <<conf, ret, doSmm, smi, smm, relocated, spoilt, gaveUp>>
        /\ pc[d] = "reloc" /\ d \notin smi
        /\ ~conf.serial => UNCHANGED smmLock
    BY <1>6 DEF EndRelocation, relocVars
  <2>2. \A c \in CPUs : /\ pc'[c] = "reloc" <=> pc[c] = "reloc" /\ c # d
                        /\ c # d => pc'[c] = pc[c] /\ rec'[c] = rec[c]
    BY <1>6 DEF EndRelocation, Return, Goto, TypeInv, Types
  <2>3. Waiting'
    BY <1>1, <1>6, <2>1, <2>2 DEF Waiting
  <2>4. Outcome'
    BY <1>1, <1>6, <2>1, <2>2 DEF Outcome, Back
  <2> QED
    BY <1>1, <2>1, <2>3, <2>4 DEF Relocation, Spoiling
<1>7. ASSUME NEW d \in CPUs, RelocationTimeout(d), d \notin smm PROVE Relocation'
  <2>1. /\ UNCHANGED <<conf, ret, doSmm, smi, smm, relocated, spoilt>>
        /\ pc[d] = "reloc" /\ gaveUp' = gaveUp \cup {d}
        /\ ~conf.serial => UNCHANGED smmLock
    BY <1>7 DEF RelocationTimeout, GiveUp
  <2>2. \A c \in CPUs : /\ pc'[c] = "reloc" <=> pc[c] = "reloc" /\ c # d
                        /\ c # d => pc'[c] = pc[c] /\ rec'[c] = rec[c]
    BY <1>7 DEF RelocationTimeout, Return, Goto, TypeInv, Types
  <2>3. Waiting'
    BY <1>1, <2>1, <2>2 DEF Waiting
  <2>4. Outcome'
    BY <1>1, <2>1, <2>2 DEF Outcome, Back
  <2> QED
    BY <1>1, <2>1, <2>3, <2>4 DEF Relocation, Spoiling
<1>8. ASSUME NEW d \in CPUs, EnterSmm(d) PROVE Relocation'
  <2>1. /\ UNCHANGED <<conf, pc, rec, ret, doSmm, smmLock, relocated, gaveUp>>
        /\ d \in smi /\ smi' = smi \ {d} /\ smm' = smm \cup {d}
        /\ spoilt' = IF conf.serial /\ smm # {} THEN spoilt \cup smm \cup {d} ELSE spoilt
    BY <1>8 DEF EnterSmm
  <2>2. Waiting'
    BY <1>1, <2>1 DEF Waiting
  <2>3. Spoiling'
    <3>1. ASSUME conf.serial, NEW e \in smm PROVE gaveUp # {}
      <4>1. e \in CPUs /\ e # d
        BY <1>1, <2>1 DEF Waiting, TypeInv, Types
      <4>2. (pc[d] = "reloc" \/ d \in gaveUp) /\ (pc[e] = "reloc" \/ e \in gaveUp)
        BY <1>1, <2>1, <4>1 DEF Waiting
      <4>3. ~(pc[d] = "reloc" /\ pc[e] = "reloc")
        BY <1>1, <3>1, <4>1 DEF Waiting
      <4> QED
        BY <4>2, <4>3
    <3> QED
      BY <1>1, <2>1, <3>1 DEF Spoiling
  <2>4. Outcome'
    BY <1>1, <2>1 DEF Outcome, Back
  <2> QED
    BY <2>2, <2>3, <2>4 DEF Relocation
<1>9. ASSUME NEW d \in CPUs, LeaveSmm(d) PROVE Relocation'
  <2>1. /\ UNCHANGED <<conf, pc, rec, ret, doSmm, smmLock, smi, spoilt, gaveUp>>
        /\ d \in smm /\ smm' = smm \ {d}
        /\ relocated' = IF area = "smm" /\ d \in mapped \cup {BSP} /\ d \notin spoilt
                        THEN relocated \cup {d} ELSE relocated
    BY <1>9 DEF LeaveSmm
  <2>2. Waiting'
    BY <1>1, <2>1 DEF Waiting
  <2>3. ret = 0 /\ pc[d] = "reloc" => d \in relocated' \cup spoilt
    BY <2>1, RelocReady
  <2>4. Outcome'
    BY <1>1, <2>1, <2>3 DEF Outcome, Back
  <2> QED
    BY <1>1, <2>1, <2>2, <2>4 DEF Relocation, Spoiling
<1>10. ASSUME NEW d \in CPUs, d \notin smm, RelocStep(d) PROVE Relocation'
  BY <1>10, <1>3, <1>4, <1>5, <1>6, <1>7 DEF RelocStep
<1>11. ASSUME NEW d \in CPUs, SmmStep(d) PROVE Relocation'
  BY <1>11, <1>8, <1>9 DEF SmmStep
<1> QED
  BY <1>2, <1>10, <1>11, RelocCases

-----------------------------------------------------------------------------
(* The invariant holds.                                                    *)

LEMMA InitInv == Init => Inv
<1> SUFFICES ASSUME Init PROVE Inv
  OBVIOUS
<1> USE Cpus, ApsAssumption
    DEF LOAD, RELOCATE, INITIALIZE, WORK, Records
<1>0. \A c \in CPUs : rec[c] = 0 /\ pc[c] = IF c = BSP THEN "setup" ELSE "reset"
  BY DEF Init
<1>1. Types
  BY DEF Init, Types, Vector, BspLocs, PlanLocs, ApLocs, InitialBarrier, NoCpu
<1>2. Places
  BY <1>0 DEF Places, BspPlace, ApPlace, BeforePlan, BeforeStart
<1>3. doSmm \in BOOLEAN
  <2>1. conf \in AllConfigs /\ doSmm = conf.smm
    BY DEF Init
  <2> QED
    BY <2>1 DEF AllConfigs
<1>4. Barriers
  <2>1. ASSUME NEW r \in Records
        PROVE  barrier[r] # 0 => InitialBarrier[r] = 1
    BY <2>1 DEF Init, InitialBarrier
  <2>2. ASSUME NEW r \in Records, NEW a \in APs PROVE ~Past(a, r)
    BY <2>2, <1>0 DEF Past
  <2> QED
    BY <2>1, <2>2 DEF Barriers
<1>5. Counts
  <2>1. ASSUME NEW r \in Records PROVE EnteredBy(r) = {} /\ entered[r] = 0
    BY <2>1, <1>0 DEF EnteredBy, Entered, Past, Init
  <2> QED
    BY <2>1, FS_EmptySet DEF Counts
<1>6. Numbers
  <2>1. NumberedAps = {} /\ apCount = 0 /\ \A a \in APs : cpuNum[a] = 0
    BY DEF Init, NumberedAps
  <2> QED
    BY <2>1, <1>0, FS_EmptySet DEF Numbers, Vector, BeforeStart
<1>7. History
  BY <1>0 DEF History
<1>8. Gates
  BY <1>0 DEF Gates, Gate, Past
<1>9. Area
  BY <1>0 DEF Area, Loaded
<1>10. Relocation
  <2>1. smi = {} /\ smm = {} /\ spoilt = {}
    BY DEF Init
  <2> QED
    BY <2>1, <1>0 DEF Relocation, Waiting, Spoiling, Outcome, Back
<1> QED
  BY <1>1, <1>2, <1>3, <1>4, <1>5, <1>6, <1>7, <1>8, <1>9, <1>10 DEF Inv, TypeInv

LEMMA NextInv == Inv /\ [Next]_vars => Inv'
<1> SUFFICES ASSUME Inv, [Next]_vars PROVE Inv'
  OBVIOUS
<1>1. TypeInv' /\ doSmm' \in BOOLEAN
  BY NextTypeInv, NextDoSmm DEF Inv
<1>2. Barriers' /\ Counts' /\ Numbers' /\ History'
  BY NextBarriers, NextCounts, NextNumbers, NextHistory DEF Inv
<1>3. Gates' /\ Area' /\ Relocation'
  BY NextGates, NextArea, NextRelocation DEF Inv
<1> QED
  BY <1>1, <1>2, <1>3 DEF Inv

LEMMA SpecInv == Spec => []Inv
BY InitInv, NextInv, PTL DEF Spec

-----------------------------------------------------------------------------
(* What follows.                                                           *)

\* The state of mp_init keeps its type: in particular neither ap_count nor the
\* cpus_entered of any record ever exceeds the number of APs.
THEOREM BringUpTypeCorrect == Spec => []TypeOK
<1>1. Inv => TypeOK
  <2> SUFFICES ASSUME Inv PROVE TypeOK
    OBVIOUS
  <2>1. IsFiniteSet(APs) /\ Cardinality(APs) \in Nat
    BY ApsAssumption, FS_CardinalityType
  <2>2. ASSUME NEW S \in SUBSET APs PROVE Cardinality(S) \in 0 .. Cardinality(APs)
    BY <2>1, FS_Subset, FS_CardinalityType
  <2>3. apCount \in 0 .. Cardinality(APs)
    <3>1. NumberedAps \in SUBSET APs
      BY DEF NumberedAps
    <3> QED
      BY <3>1, <2>2 DEF Inv, Numbers
  <2>4. cpuNum \in [APs -> 0 .. Cardinality(APs)]
    BY <2>1, <2>3 DEF Inv, Numbers, TypeInv, Types
  <2>5. entered \in [Records -> 0 .. Cardinality(APs)]
    <3>1. ASSUME NEW r \in Records PROVE entered[r] \in 0 .. Cardinality(APs)
      <4>1. EnteredBy(r) \in SUBSET APs
        BY DEF EnteredBy
      <4> QED
        BY <4>1, <2>2 DEF Inv, Counts
    <3> QED
      BY <3>1 DEF Inv, TypeInv, Types
  <2>6. Types /\ doSmm \in BOOLEAN
    BY DEF Inv, TypeInv
  <2> QED
    BY <2>3, <2>4, <2>5, <2>6 DEF Types, TypeOK
<1> QED
  BY <1>1, SpecInv, PTL

\* The barrier of the INITIALIZE record keeps every AP out of mp_initialize_cpu
\* until the BSP has left it, also after timeouts.
THEOREM BspInitialisesFirst == Spec => []BspFirst
<1>1. Inv => BspFirst
  <2> SUFFICES ASSUME Inv, NEW a \in APs, pc[a] = "call", rec[a] = INITIALIZE
               PROVE  BSP \in inited
    BY DEF BspFirst
  <2>1. rec[BSP] > INITIALIZE
    <3>1. /\ INITIALIZE \in Records /\ InitialBarrier[INITIALIZE] = 0
          /\ Past(a, INITIALIZE)
      BY DEF Past, Records, InitialBarrier, INITIALIZE, RELOCATE
    <3> QED
      BY <3>1, BspAhead DEF Inv
  <2> QED
    BY <2>1, Cpus DEF Inv, History
<1> QED
  BY <1>1, SpecInv, PTL

\* load_smm_handlers is over, and nothing else writes mp_state.do_smm or the
\* APIC id map, once an AP is past the first record.
THEOREM SmmDecision == Spec => SmmDecided
<1>1. Inv /\ [Next]_vars =>
        [(\E a \in APs : rec[a] >= RELOCATE) => UNCHANGED <<doSmm, mapped>>]_vars
  <2> SUFFICES ASSUME Inv, [Next]_vars, NEW a \in APs, rec[a] >= RELOCATE
               PROVE  UNCHANGED <<doSmm, mapped>>
    OBVIOUS
  <2>1. rec[BSP] > LOAD
    <3>1. LOAD \in Records /\ InitialBarrier[LOAD] = 0 /\ Past(a, LOAD)
      BY Cpus DEF Past, Records, InitialBarrier, LOAD, RELOCATE, Inv, TypeInv, Types
    <3> QED
      BY <3>1, BspAhead DEF Inv
  <2>2. ~LoadSmmHandlers
    BY <2>1 DEF LoadSmmHandlers, LOAD
  <2>3. CASE BspStep
    BY <2>2, <2>3, BspArea DEF Setup, SetupFails, Restore
  <2>4. ASSUME NEW b \in APs, ApStep(b) PROVE UNCHANGED <<doSmm, mapped>>
    BY <2>4, ApLocal DEF Inv
  <2>5. CASE UNCHANGED Rest
    BY <2>5 DEF Rest
  <2> QED
    BY <2>3, <2>4, <2>5, Steps
<1> QED
  BY <1>1, SpecInv, PTL DEF Spec, SmmDecided

\* While ret is 0, an AP in the SIPI vector finds it in the default SMM area; a
\* CPU that has not given up waiting for its SMI finds the relocation handler
\* there and its APIC id in the map, and is alone under smm_relocation_lock.
THEOREM AreaKeptIntact == Spec => []AreaIntact
<1>1. Inv => AreaIntact
  <2> SUFFICES ASSUME Inv, ret = 0
               PROVE  /\ \A a \in APs : pc[a] \in Vector => area = "sipi"
                      /\ \A c \in (smi \cup smm) \ gaveUp :
                           /\ area = "smm" /\ c \in mapped \cup {BSP}
                           /\ conf.serial => (smi \cup smm) \ gaveUp = {c}
    BY DEF AreaIntact
  <2> USE Cpus DEF LOAD, RELOCATE, INITIALIZE, WORK, Records
  <2>0. \A c \in CPUs : rec[c] \in Int
    BY DEF Inv, TypeInv, Types
  <2>1. ASSUME NEW a \in APs, pc[a] \in Vector PROVE area = "sipi"
    <3>1. rec[a] = 0 /\ ~Entered(a, LOAD)
      BY <2>1 DEF Inv, TypeInv, Places, ApPlace, Vector, Entered, Past
    <3>2. ~Past(BSP, LOAD)
      BY <3>1 DEF Inv, Gates, Gate, InitialBarrier
    <3>3. ~Loaded /\ pc[BSP] \notin {"restore", "done"}
      BY <3>2, <2>0 DEF Loaded, Past, Inv, TypeInv, Places, BspPlace
    <3>4. pc[BSP] # "setup"
      BY <2>1 DEF Inv, TypeInv, Places, BspPlace, Vector
    <3> QED
      BY <3>3, <3>4 DEF Inv, Area
  <2>2. ASSUME NEW c \in (smi \cup smm) \ gaveUp
        PROVE  c \in CPUs /\ pc[c] = "reloc" /\ (conf.serial => smmLock = c)
    BY DEF Inv, TypeInv, Types, Relocation, Waiting
  <2>3. ASSUME NEW c \in (smi \cup smm) \ gaveUp
        PROVE  area = "smm" /\ c \in mapped \cup {BSP}
    BY <2>2, RelocReady DEF Inv
  <2>4. ASSUME NEW c \in (smi \cup smm) \ gaveUp, conf.serial
        PROVE  (smi \cup smm) \ gaveUp = {c}
    BY <2>2, <2>4
  <2> QED
    BY <2>1, <2>3, <2>4
<1> QED
  BY <1>1, SpecInv, PTL

\* While ret is 0, no CPU enters mp_initialize_cpu before the SMBASE of every CPU
\* has been moved, although the RELOCATE record does not block, unless a CPU gave
\* up waiting for its local APIC, which nothing but the console reports.
THEOREM RelocationComplete == Spec => []RelocatedBeforeInit
<1>1. Inv => RelocatedBeforeInit
  <2> SUFFICES ASSUME Inv, ret = 0, doSmm, NEW c \in CPUs, pc[c] = "call", rec[c] = INITIALIZE
               PROVE  \/ CPUs \subseteq relocated \cup gaveUp
                      \/ /\ conf.serial /\ gaveUp # {}
                         /\ CPUs \subseteq relocated \cup gaveUp \cup spoilt
    BY DEF RelocatedBeforeInit
  <2> USE Cpus DEF LOAD, RELOCATE, INITIALIZE, WORK, Records
  <2>0. \A e \in CPUs : rec[e] \in Int
    BY DEF Inv, TypeInv, Types
  <2>1. Past(c, INITIALIZE) /\ InitialBarrier[INITIALIZE] = 0
    BY DEF Past, InitialBarrier
  <2>2. Past(BSP, INITIALIZE)
    <3>1. CASE c = BSP
      BY <3>1, <2>1
    <3>2. CASE c \in APs
      BY <3>2, <2>1, BspAhead DEF Inv, Past
    <3> QED
      BY <3>1, <3>2 DEF CPUs
  <2>3. \A a \in APs : Entered(a, INITIALIZE)
    BY <2>1, <2>2 DEF Inv, Gates, Gate
  <2>4. \A d \in CPUs : Back(d)
    BY <2>0, <2>2, <2>3 DEF Entered, Past, Back, CPUs
  <2>5. CPUs \subseteq relocated \cup gaveUp \cup spoilt
    BY <2>4 DEF Inv, Relocation, Outcome
  <2> QED
    BY <2>5 DEF Inv, Relocation, Spoiling
<1> QED
  BY <1>1, SpecInv, PTL

\* When mp_init_with_smm returns 0, all APs that get_cpu_count promised exist,
\* have distinct CPU numbers, are initialised and wait for work or are about to,
\* and none but one that gave up waiting for its SMI is in SMM.
THEOREM SuccessComplete == Spec => []SuccessMeansAll
<1>1. Inv => SuccessMeansAll
  <2> SUFFICES ASSUME Inv, pc[BSP] = "done", ret = 0
               PROVE  /\ Cardinality(APs) = NumAps
                      /\ \A a, b \in APs : a # b => cpuNum[a] # cpuNum[b]
                      /\ \A a \in APs : /\ cpuNum[a] \in 1 .. NumAps /\ a \in inited
                                        /\ rec[a] = WORK /\ pc[a] \in {"barrier", "work"}
                                        /\ a \in smm => a \in gaveUp
    BY DEF SuccessMeansAll
  <2> USE Cpus DEF LOAD, RELOCATE, INITIALIZE, WORK, Records
  <2>1. Past(BSP, WORK) /\ InitialBarrier[WORK] = 0
    BY DEF Inv, TypeInv, Places, BspPlace, BeforePlan, InRecord, Past, InitialBarrier
  <2>2. Cardinality(APs) = NumAps /\ \A a \in APs : Entered(a, WORK)
    BY <2>1 DEF Inv, Gates, Gate
  <2>3. ASSUME NEW a \in APs PROVE rec[a] = WORK /\ pc[a] \in {"barrier", "work"}
    BY <2>2 DEF Entered, Past, Inv, TypeInv, Places, ApPlace, BeforeStart, Vector
  <2>4. ASSUME NEW a \in APs PROVE cpuNum[a] \in 1 .. NumAps
    <3>1. cpuNum[a] # 0 /\ cpuNum[a] \in Nat /\ cpuNum[a] <= apCount
      BY <2>3 DEF Inv, Numbers, TypeInv, Types
    <3>2. apCount <= Cardinality(APs)
      <4>1. NumberedAps \in SUBSET APs /\ IsFiniteSet(APs)
        BY ApsAssumption DEF NumberedAps
      <4> QED
        BY <4>1, FS_Subset DEF Inv, Numbers
    <3> QED
      BY <3>1, <3>2, <2>2, ApsAssumption DEF Inv, TypeInv, Types
  <2>5. ASSUME NEW a \in APs, NEW b \in APs, a # b PROVE cpuNum[a] # cpuNum[b]
    BY <2>5, <2>4 DEF Inv, Numbers
  <2>6. ASSUME NEW a \in APs PROVE a \in inited
    BY <2>3 DEF Inv, History
  <2>7. ASSUME NEW a \in APs, a \in smm PROVE a \in gaveUp
    BY <2>3, <2>7 DEF Inv, Relocation, Waiting
  <2> QED
    BY <2>2, <2>3, <2>4, <2>5, <2>6, <2>7
<1> QED
  BY <1>1, SpecInv, PTL
=============================================================================
