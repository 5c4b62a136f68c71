----------------------------- MODULE RegionStore -----------------------------
(***************************************************************************)
(* What include/region_file.h promises its callers: one value is stored,   *)
(* an update replaces it, and an open store returns the last update that   *)
(* returned 0.  An update that fails or is cut may destroy the value that  *)
(* was stored, but nothing older ever comes back: what is readable then is *)
(* no update at all.                                                       *)
(***************************************************************************)
CONSTANTS
  Updates,    \* the updates that callers make
  NoData      \* no update

VARIABLES
  status,     \* "closed", "open", "updating" or, after an error, "failed"
  request,    \* the update in progress
  stored,     \* the last update that returned 0, unless an update destroyed it
  readable,   \* the updates whose data region_file_data returns
  damaged     \* an erase was cut short: nothing is promised until the next one

vars == <<status, request, stored, readable, damaged>>

Init ==
  /\ status = "closed"
  /\ request = NoData /\ stored = NoData
  /\ readable = {}
  /\ damaged = FALSE

\* What an open store that keeps the update u returns.
Returns(u) ==
  {r \in SUBSET Updates : IF u = NoData THEN r = {} ELSE u \in r}

\* The file is opened; a failing read makes it refuse everything.
Open ==
  /\ status = "closed"
  /\ \/ status' = "open" /\ readable' \in SUBSET Updates
        /\ (damaged \/ readable' \in Returns(stored))
     \/ status' = "failed" /\ readable' = {}
  /\ UNCHANGED <<request, stored, damaged>>

Begin(u) ==
  /\ status = "open"
  /\ status' = "updating" /\ request' = u /\ readable' = {}
  /\ UNCHANGED <<stored, damaged>>

\* A file that failed takes the call and refuses it.
Refuse ==
  /\ status = "failed"
  /\ request' \in Updates \cup {NoData}
  /\ UNCHANGED <<status, stored, readable, damaged>>

\* The update in progress has overwritten or erased what was stored.
Destroy ==
  /\ status = "updating"
  /\ stored' = NoData /\ damaged' \in BOOLEAN
  /\ UNCHANGED <<status, request, readable>>

\* The update returns 0: what was stored before is gone.
Succeed ==
  /\ status = "updating" /\ (damaged \/ stored = NoData)
  /\ status' = "open" /\ stored' = request /\ request' = NoData
  /\ readable' \in SUBSET Updates
  /\ damaged \/ readable' \in Returns(request)
  /\ UNCHANGED damaged

\* The update returns -1; what was stored may or may not have survived.
FailUpdate ==
  /\ status = "updating"
  /\ status' = "failed" /\ request' = NoData
  /\ stored' \in {stored, NoData}
  /\ UNCHANGED <<readable, damaged>>

\* Power is lost.  Only an update in progress can take the stored value along.
Lose ==
  /\ status' = "closed" /\ request' = NoData /\ readable' = {}
  /\ stored' = stored \/ (status = "updating" /\ stored' = NoData)
  /\ UNCHANGED damaged

Next ==
  \/ Open \/ (\E u \in Updates : Begin(u)) \/ Refuse
  \/ Destroy \/ Succeed \/ FailUpdate \/ Lose

Spec == Init /\ [][Next]_vars
=============================================================================
