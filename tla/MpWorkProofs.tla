---------------------------- MODULE MpWorkProofs ----------------------------
(***************************************************************************)
(* Proofs about MpWork for any number of APs and of calls: the types, and  *)
(* what a returned call means as long as no call has expired.              *)
(***************************************************************************)
EXTENDS MpWork, TLAPS

-----------------------------------------------------------------------------
(* The inductive invariant.                                                *)

\* TypeOK without finite.
TypesRest ==
  /\ bpc \in {"idle", "store", "scan"}
  /\ call \in 0 .. MaxCalls
  /\ target \in [CallIds -> {MP_RUN_ON_ALL_CPUS} \cup APs]
  /\ func \in [CallIds -> {"work", "park"}]
  /\ i \in 1 .. NumAps + 1
  /\ accepted \in 0 .. NumAps
  /\ slot \in [APs -> {NULL} \cup CallIds]
  /\ apc \in [APs -> {"poll", "copy", "signal", "run", "parked", "lost"}]
  /\ lcb \in [APs -> {NULL, Garbage} \cup CallIds]
  /\ expired \subseteq CallIds /\ done \subseteq CallIds
  /\ ran \in [APs -> SUBSET CallIds]

\* Calls are numbered up to call; the current one has not returned.
Numbered ==
  /\ bpc # "idle" => call >= 1 /\ call \notin done \cup expired
  /\ \A a \in APs : slot[a] <= call /\ lcb[a] <= call /\ ran[a] \subseteq 1 .. call
  /\ \A a \in APs : apc[a] = "copy" => lcb[a] \in CallIds
  /\ \A a \in APs : apc[a] \in {"signal", "run"} => lcb[a] # NULL
  /\ done \subseteq 1 .. call /\ expired \subseteq 1 .. call

\* The count of a scan: if it has missed no slot so far, those slots are NULL,
\* and stay so until the scan ends.
Counted ==
  bpc = "scan" =>
    /\ accepted <= i - 1
    /\ accepted = i - 1 => \A a \in APs : a < i => slot[a] = NULL

TypeInv == TypeOK /\ Numbered /\ Counted

\* AP a has still to read the current call.
Pending(a) == bpc # "idle" /\ (slot[a] = call \/ (bpc = "store" /\ a >= i))

\* The mailbox of AP a while no call has expired.
Mailbox(a) ==
  /\ slot[a] \in {NULL, call}
  /\ bpc = "idle" \/ (bpc = "store" /\ a >= i) => slot[a] = NULL
  /\ apc[a] \in {"copy", "signal"} => slot[a] = call /\ lcb[a] = call /\ bpc # "idle"
  /\ apc[a] = "run" => lcb[a] \in CallIds /\ \A n \in ran[a] : n < lcb[a]
  /\ Pending(a) => ran[a] \subseteq 1 .. call - 1 /\ (apc[a] = "run" => lcb[a] < call)
  /\ bpc # "idle" /\ ~Pending(a) => Reached(a, call)

MailboxInv == expired = {} => \A a \in APs : Mailbox(a)

Inv == TypeInv /\ MailboxInv /\ DoneMeansReached

-----------------------------------------------------------------------------

LEMMA InitTypeInv == Init => TypeInv
<1> SUFFICES ASSUME Init PROVE TypeInv
  OBVIOUS
<1>1. TypeOK
  <2>1. TypesRest
    BY WorkAssumption DEF Init, TypesRest, CallIds, NULL, MP_RUN_ON_ALL_CPUS
  <2>2. finite \in BOOLEAN
    BY Zenon DEF Init
  <2> QED
    BY <2>1, <2>2, Zenon DEF TypeOK, TypesRest
<1>2. Numbered
  BY DEF Init, Numbered, NULL
<1>3. Counted
  BY DEF Init, Counted
<1> QED
  BY <1>1, <1>2, <1>3 DEF TypeInv

\* Every step keeps the types and the numbering, and no scan counts a slot that
\* is not NULL.
LEMMA NextTypeInv == TypeInv /\ [Next]_vars => TypeInv'
<1> SUFFICES ASSUME TypeInv, [Next]_vars PROVE TypeInv'
  OBVIOUS
<1> USE WorkAssumption DEF TypeInv, TypeOK, Numbered, Counted, APs, CallIds, NULL,
      Garbage, MP_RUN_ON_ALL_CPUS, bspVars
<1>0. /\ 1 .. call \subseteq 1 .. call + 1 /\ call + 1 \notin 1 .. call
      /\ \A a \in APs : slot[a] <= call + 1 /\ lcb[a] <= call + 1
  <2>1. \A a \in APs : slot[a] \in Int /\ lcb[a] \in Int
    OBVIOUS
  <2>2. call \in Int /\ \A a \in APs : slot[a] <= call /\ lcb[a] <= call
    OBVIOUS
  <2>3. 1 .. call \subseteq 1 .. call + 1 /\ call + 1 \notin 1 .. call
    OBVIOUS
  <2> HIDE DEF TypeInv
  <2> QED
    BY <2>1, <2>2, <2>3
<1>1. ASSUME NEW t \in {MP_RUN_ON_ALL_CPUS} \cup APs, NEW f \in {"work", "park"},
             NEW exp \in BOOLEAN, RunOnAps(t, f, exp)
      PROVE  TypeInv'
  <2>1. TypeOK'
    <3>1. TypesRest'
      BY <1>1 DEF RunOnAps, TypesRest
    <3>2. finite' \in BOOLEAN
      BY <1>1, Zenon DEF RunOnAps
    <3> HIDE DEF TypeInv, Numbered, Counted
    <3> QED
      BY <3>1, <3>2, Zenon DEF TypeOK, TypesRest
  <2>2. Numbered'
    <3>1. /\ call' = call + 1 /\ bpc' = "store"
          /\ UNCHANGED <<slot, apc, lcb, expired, done, ran>>
      BY <1>1 DEF RunOnAps
    <3> QED
      BY <3>1, <1>0
  <2>3. Counted'
    BY <1>1 DEF RunOnAps
  <2> QED
    BY <2>1, <2>2, <2>3
<1>2. CASE StoreCallback
  BY <1>2 DEF StoreCallback
<1>3. CASE StoresDone
  BY <1>3 DEF StoresDone
<1>4. CASE ScanSlot
  BY <1>4 DEF ScanSlot
<1>5. CASE AllAccepted
  BY <1>5 DEF AllAccepted
<1>6. CASE ScanAgain
  BY <1>6 DEF ScanAgain
<1>7. CASE Expire
  BY <1>7 DEF Expire
<1>8. ASSUME NEW a \in APs, ReadCallback(a) PROVE TypeInv'
  BY <1>8 DEF ReadCallback
<1>9. ASSUME NEW a \in APs, CopyCallback(a) PROVE TypeInv'
  <2>1. PICK n \in {lcb[a], call, Garbage} : lcb' = [lcb EXCEPT ![a] = n]
    BY <1>9 DEF CopyCallback
  <2>2. n \in {Garbage} \cup CallIds /\ n <= call
    BY <2>1, <1>9 DEF CopyCallback
  <2>3. TypeOK'
    BY <2>1, <2>2, <1>9 DEF CopyCallback
  <2>4. Numbered'
    BY <2>1, <2>2, <1>9 DEF CopyCallback
  <2>5. Counted'
    BY <1>9 DEF CopyCallback
  <2> QED
    BY <2>3, <2>4, <2>5
<1>10. ASSUME NEW a \in APs, SignalConsumption(a) PROVE TypeInv'
  BY <1>10 DEF SignalConsumption
<1>11. ASSUME NEW a \in APs, RunFunction(a) PROVE TypeInv'
  <2>1. lcb[a] # Garbage => lcb[a] \in CallIds /\ lcb[a] \in 1 .. call
    BY <1>11 DEF RunFunction
  <2>2. PICK R \in SUBSET (1 .. call) : ran' = [ran EXCEPT ![a] = R]
    <3>1. CASE UNCHANGED ran
      BY <3>1
    <3>2. CASE ~UNCHANGED ran
      BY <3>2, <2>1, <1>11 DEF RunFunction
    <3> QED
      BY <3>1, <3>2
  <2>3. PICK l \in {"lost", "poll", "parked"} : apc' = [apc EXCEPT ![a] = l]
    BY <1>11 DEF RunFunction
  <2>4. TypeOK'
    BY <2>2, <2>3, <1>11 DEF RunFunction
  <2>5. Numbered'
    BY <2>2, <2>3, <1>11 DEF RunFunction
  <2>6. Counted'
    BY <1>11 DEF RunFunction
  <2> QED
    BY <2>4, <2>5, <2>6
<1>12. CASE UNCHANGED vars
  BY <1>12 DEF vars
<1> QED
  BY <1>1, <1>2, <1>3, <1>4, <1>5, <1>6, <1>7, <1>8, <1>9, <1>10, <1>11, <1>12
     DEF Next, BspStep, ApStep, ParkAps

\* The expired calls only grow.
LEMMA ExpiredGrows == TypeInv /\ [Next]_vars => expired \subseteq expired'
BY DEF Next, BspStep, ApStep, ParkAps, RunOnAps, StoreCallback, StoresDone, ScanSlot,
   AllAccepted, ScanAgain, Expire, ReadCallback, CopyCallback, SignalConsumption,
   RunFunction, bspVars, vars

\* What the proofs use of the types.
LEMMA Ranges ==
  TypeInv =>
    /\ call \in Int /\ i \in Int
    /\ \A a \in APs : a \in Int /\ slot[a] \in Int /\ lcb[a] \in Int
    /\ \A a \in APs : \A n \in ran[a] : n \in Int /\ 1 <= n /\ n <= call
    /\ \A a \in APs : lcb[a] <= call
    /\ bpc # "idle" => call >= 1
    /\ bpc # "idle" => call \in CallIds
BY WorkAssumption DEF TypeInv, TypeOK, Numbered, APs, CallIds, NULL, Garbage

\* Every step keeps the mailboxes in order while no call has expired.
LEMMA NextMailbox == TypeInv /\ MailboxInv /\ [Next]_vars => MailboxInv'
<1> SUFFICES ASSUME TypeInv, MailboxInv, [Next]_vars, expired' = {},
                    NEW b \in APs
             PROVE  Mailbox(b)'
  BY DEF MailboxInv
<1>0. Mailbox(b)
  BY ExpiredGrows DEF MailboxInv
<1>1. ASSUME NEW t, NEW f, NEW exp, RunOnAps(t, f, exp) PROVE Mailbox(b)'
  <2>1. /\ bpc = "idle" /\ bpc' = "store" /\ call' = call + 1 /\ i' = 1
        /\ UNCHANGED <<slot, apc, lcb, ran>>
    BY <1>1 DEF RunOnAps
  <2>2. /\ slot[b] = NULL /\ apc[b] \notin {"copy", "signal"}
        /\ apc[b] = "run" => lcb[b] \in CallIds /\ \A n \in ran[b] : n < lcb[b]
    BY <2>1, <1>0 DEF Mailbox
  <2>3. ran[b] \subseteq 1 .. (call + 1) - 1 /\ lcb[b] < call + 1 /\ b >= 1
    BY Ranges DEF APs
  <2> QED
    BY <2>1, <2>2, <2>3 DEF Mailbox, Pending
<1>2. CASE StoreCallback
  BY <1>0, <1>2, Ranges DEF StoreCallback, Mailbox, Pending, Reached, NULL, TypeInv, TypeOK
<1>3. CASE StoresDone
  <2>1. b < i
    BY <1>3, Ranges, WorkAssumption DEF StoresDone, APs
  <2> QED
    BY <2>1, <1>0, <1>3, Ranges DEF StoresDone, Mailbox, Pending, Reached
<1>4. CASE ScanSlot
  BY <1>0, <1>4 DEF ScanSlot, Mailbox, Pending, Reached
<1>5. CASE AllAccepted
  BY <1>0, <1>5, Ranges, WorkAssumption
     DEF AllAccepted, Mailbox, Pending, NULL, TypeInv, TypeOK, Counted, APs
<1>6. CASE ScanAgain
  BY <1>0, <1>6 DEF ScanAgain, Mailbox, Pending, Reached
<1>7. CASE Expire
  BY <1>7 DEF Expire
<1>8. ASSUME NEW a \in APs, ReadCallback(a) PROVE Mailbox(b)'
  BY <1>0, <1>8, Ranges DEF ReadCallback, Mailbox, Pending, Reached, NULL, TypeInv, TypeOK, bspVars
<1>9. ASSUME NEW a \in APs, CopyCallback(a) PROVE Mailbox(b)'
  BY <1>0, <1>9, Ranges DEF CopyCallback, Live, Mailbox, Pending, Reached, NULL, TypeInv, TypeOK, bspVars
<1>10. ASSUME NEW a \in APs, SignalConsumption(a) PROVE Mailbox(b)'
  BY <1>0, <1>10, Ranges DEF SignalConsumption, Mailbox, Pending, Reached, NULL, TypeInv, TypeOK, bspVars
<1>11. ASSUME NEW a \in APs, RunFunction(a) PROVE Mailbox(b)'
  <2>1. CASE a # b
    BY <2>1, <1>0, <1>11
       DEF RunFunction, Mailbox, Pending, Reached, TypeInv, TypeOK, bspVars
  <2>2. CASE a = b
    <3>1. /\ lcb[b] \in CallIds /\ apc[b] = "run"
          /\ apc'[b] \in {"poll", "parked", "lost"}
          /\ UNCHANGED <<bpc, call, i, target, slot>>
      BY <2>2, <1>0, <1>11 DEF RunFunction, Mailbox, bspVars, TypeInv, TypeOK
    <3>2. lcb[b] # Garbage
      BY <3>1, WorkAssumption DEF CallIds, Garbage
    <3>3. \/ ran'[b] = ran[b] \cup {lcb[b]}
          \/ ran'[b] = ran[b] /\ target[lcb[b]] \notin {MP_RUN_ON_ALL_CPUS, b}
      BY <3>2, <2>2, <1>11 DEF RunFunction, TypeInv, TypeOK
    <3>4. Pending(b) => ran'[b] \subseteq 1 .. call - 1
      BY <3>1, <3>3, <1>0, Ranges, WorkAssumption DEF Mailbox, CallIds
    <3>5. bpc # "idle" /\ ~Pending(b) => Reached(b, call)'
      BY <3>1, <3>3, <1>0 DEF Mailbox, Reached
    <3> QED
      BY <3>1, <3>4, <3>5, <1>0 DEF Mailbox, Pending
  <2> QED
    BY <2>1, <2>2
<1>12. CASE UNCHANGED vars
  BY <1>0, <1>12 DEF vars, Mailbox, Pending, Reached
<1> QED
  BY <1>1, <1>2, <1>3, <1>4, <1>5, <1>6, <1>7, <1>8, <1>9, <1>10, <1>11, <1>12
     DEF Next, BspStep, ApStep, ParkAps

\* A call that has reached an AP has reached it for good.
LEMMA ReachedStable ==
  ASSUME TypeInv, [Next]_vars, NEW b \in APs, NEW n \in 1 .. call, Reached(b, n)
  PROVE  Reached(b, n)'
<1>0. n \in Int /\ call \in Int /\ n # call + 1 /\ n # Garbage /\ n # NULL
  BY Ranges DEF Garbage, NULL
<1>1. ASSUME NEW t, NEW f, NEW exp, RunOnAps(t, f, exp) PROVE Reached(b, n)'
  <2>1. /\ target' = [target EXCEPT ![call + 1] = t]
        /\ UNCHANGED <<apc, lcb, ran>>
    BY <1>1 DEF RunOnAps
  <2>2. target'[n] = target[n]
    BY <1>0, <2>1 DEF TypeInv, TypeOK, CallIds
  <2> QED
    BY <2>1, <2>2 DEF Reached
<1>2. CASE BspStep \/ UNCHANGED vars
  BY <1>2 DEF BspStep, StoreCallback, StoresDone, ScanSlot, AllAccepted, ScanAgain,
     Expire, Reached, vars
<1>3. ASSUME NEW a \in APs, ApStep(a) PROVE Reached(b, n)'
  <2>1. UNCHANGED target /\ ran[b] \subseteq ran'[b]
    BY <1>3 DEF ApStep, ReadCallback, CopyCallback, SignalConsumption, RunFunction,
       bspVars, TypeInv, TypeOK
  <2>2. CASE RunFunction(a) /\ a = b /\ lcb[b] = n
    BY <2>1, <2>2, <1>0 DEF RunFunction, Reached, TypeInv, TypeOK
  <2>3. CASE RunFunction(a) /\ (a # b \/ lcb[b] # n)
    BY <2>1, <2>3 DEF RunFunction, Reached, TypeInv, TypeOK
  <2>4. CASE ~RunFunction(a)
    BY <2>1, <2>4, <1>3 DEF ApStep, ReadCallback, CopyCallback, SignalConsumption,
       Reached, TypeInv, TypeOK
  <2> QED
    BY <2>2, <2>3, <2>4
<1> QED
  BY <1>1, <1>2, <1>3 DEF Next, ParkAps

\* A call is done only when every mailbox shows that it was read.
LEMMA NextDone ==
  TypeInv /\ MailboxInv /\ DoneMeansReached /\ [Next]_vars => DoneMeansReached'
<1> SUFFICES ASSUME TypeInv, MailboxInv, DoneMeansReached, [Next]_vars,
                    NEW n \in done', \A m \in expired' : m > n,
                    NEW b \in APs
             PROVE  Reached(b, n)'
  BY DEF DoneMeansReached
<1>1. CASE n \in done
  <2>1. Reached(b, n)
    BY <1>1, ExpiredGrows DEF DoneMeansReached
  <2> QED
    BY <2>1, <1>1, ReachedStable DEF TypeInv, Numbered
<1>2. CASE n \notin done
  <2>1. AllAccepted /\ n = call
    BY <1>2 DEF Next, BspStep, ApStep, ParkAps, RunOnAps, StoreCallback, StoresDone,
       ScanSlot, AllAccepted, ScanAgain, Expire, ReadCallback, CopyCallback,
       SignalConsumption, RunFunction, bspVars, vars
  <2>2. expired = {}
    <3>1. \A m \in expired : m \in 1 .. call /\ m > call
      BY <2>1, ExpiredGrows DEF TypeInv, Numbered
    <3> QED
      BY <3>1, Ranges
  <2>3. slot[b] = NULL /\ bpc = "scan" /\ call >= 1
    BY <2>1, Ranges, WorkAssumption
       DEF AllAccepted, TypeInv, TypeOK, Counted, APs
  <2>4. Reached(b, call)
    BY <2>2, <2>3, Ranges DEF MailboxInv, Mailbox, Pending, NULL
  <2> QED
    BY <2>1, <2>3, <2>4, ReachedStable, Ranges
<1> QED
  BY <1>1, <1>2

-----------------------------------------------------------------------------
(* Theorems.                                                               *)

LEMMA InitInv == Init => Inv
<1> SUFFICES ASSUME Init PROVE Inv
  OBVIOUS
<1>1. TypeInv
  BY InitTypeInv
<1>2. MailboxInv
  BY DEF Init, MailboxInv, Mailbox, Pending
<1>3. DoneMeansReached
  BY DEF Init, DoneMeansReached
<1> QED
  BY <1>1, <1>2, <1>3 DEF Inv

LEMMA SpecInv == Spec => []Inv
<1>1. Inv /\ [Next]_vars => Inv'
  BY NextTypeInv, NextMailbox, NextDone DEF Inv
<1> QED
  BY InitInv, <1>1, PTL DEF Spec

\* The loop counters, the count of accepted slots, the slots and the copies of
\* the callbacks stay in range, for any number of APs and calls.
THEOREM WorkTypeCorrect == Spec => []TypeOK
<1>1. Inv => TypeOK
  BY DEF Inv, TypeInv
<1> QED
  BY SpecInv, <1>1, PTL

\* mp_run_on_aps: a call that returns 0 before any call has expired has been
\* accepted by every AP.
THEOREM DoneReached == Spec => []DoneMeansReached
<1>1. Inv => DoneMeansReached
  BY DEF Inv
<1> QED
  BY SpecInv, <1>1, PTL

\* ap_wait_for_instruction: until a call expires, the memcpy reads from the
\* frame of a call that has not returned.
THEOREM LiveCallbackCopied == Spec => []CopiesLiveCallback
<1>1. Inv => CopiesLiveCallback
  BY DEF Inv, MailboxInv, Mailbox, CopiesLiveCallback, Live
<1> QED
  BY SpecInv, <1>1, PTL

\* ap_wait_for_instruction: until a call expires, an AP takes the calls in the
\* order in which mp_run_on_aps issued them, and each at most once.
THEOREM CallsInOrder == Spec => []InOrder
<1>1. Inv => InOrder
  <2> SUFFICES ASSUME Inv, expired = {}, NEW a \in APs,
                      apc[a] \in {"copy", "signal", "run"}, NEW n \in ran[a]
               PROVE  n < lcb[a]
    BY DEF InOrder
  <2>1. Mailbox(a) /\ TypeInv
    BY DEF Inv, MailboxInv
  <2> QED
    BY <2>1, Ranges DEF Mailbox, Pending
<1> QED
  BY SpecInv, <1>1, PTL
=============================================================================
