------------------------------ MODULE MrcCache ------------------------------
(***************************************************************************)
(* The cache of memory training data: drivers/mrc_cache/mrc_cache.c with   *)
(* its caller, the memory initialisation of drivers/intel/fsp2_0 (and the  *)
(* variable data of soc/intel/apollolake), over boots, resumes from S3,    *)
(* recovery boots, firmware updates, flash errors and power losses.        *)
(*                                                                         *)
(* Romstage hands cached data to the FSP and stashes what it returns in    *)
(* CBMEM; ramstage writes the stash to the region file of its slot.  Every *)
(* region behaves as RegionStore: it returns the last update that returned *)
(* 0, a failed or cut update keeps that or leaves nothing, and a header or *)
(* data checksum refuses anything else.                                    *)
(*                                                                         *)
(* vboot works out anew on every boot and on every resume whether it is in *)
(* recovery mode; the stash that a resume writes again is the one of the   *)
(* boot.                                                                   *)
(***************************************************************************)
EXTENDS Integers

CONSTANTS
  Versions,     \* of the FSP and its settings
  MaxBoots,     \* bound on full boots: each may train memory once
  MaxResumes    \* bound on resumes from S3

ASSUME BoundsAssumption == MaxBoots \in Nat /\ MaxResumes \in Nat

Types == {"training", "variable"}
Regions == {"recovery", "normal", "variable"}

NoData == [id |-> 0]
Invalid == [id |-> -1]      \* the 4 bytes of invalidate_normal_cache

\* Training data as stashed: which boot made it, with which FSP, in which mode.
Data == [id : 1 .. MaxBoots, version : Versions, recovery : BOOLEAN]

Configs == [HAS_RECOVERY_MRC_CACHE : BOOLEAN,
            MRC_CLEAR_NORMAL_CACHE_ON_RECOVERY_RETRAIN : BOOLEAN,
            FSP2_0_USES_TPM_MRC_HASH : BOOLEAN]

Modes == [recovery : BOOLEAN, retrain : BOOLEAN, s3wake : BOOLEAN]

VARIABLES
  config,       \* Kconfig of the platform
  mode,         \* vboot's recovery mode and retrain switch, S3 resume
  pc,
  store,        \* what each region file holds
  locked,       \* regions under a protected range register
  hash,         \* the data whose hash the TPM holds
  cbmem,        \* the stash; it survives S3
  given,        \* what the FSP is given for each type
  memory,       \* the settings that memory runs with; they survive S3
  version,      \* version of the firmware in flash
  unsaved,      \* history: types whose data of this boot did not reach flash
  revoked,      \* history: data that a retrain in recovery mode has revoked
  switched,     \* history: a resume since the last boot was not in its mode
  misfiled,     \* history: data that went to the region of the other mode
  boots, resumes

vars == <<config, mode, pc, store, locked, hash, cbmem, given, memory, version,
          unsaved, revoked, switched, misfiled, boots, resumes>>

\* What only Boot, Resume and Update change.
modeHistory == <<switched, misfiled>>

None == [t \in Types |-> NoData]

TypeOK ==
  /\ config \in Configs /\ mode \in Modes
  /\ pc \in {"off", "fill", "fsp", "stash", "training", "variable", "invalidate",
             "protect", "os", "sleep"}
  /\ store \in [Regions -> Data \cup {NoData, Invalid}]
  /\ locked \subseteq Regions
  /\ hash \in Data \cup {NoData}
  /\ cbmem \in [Types -> Data \cup {NoData}]
  /\ given \in [Types -> Data \cup {NoData}]
  /\ memory \in [Types -> Data \cup {NoData}]
  /\ version \in Versions
  /\ unsaved \subseteq Types
  /\ revoked \subseteq Data
  /\ switched \in BOOLEAN /\ misfiled \subseteq Data
  /\ boots \in 0 .. MaxBoots /\ resumes \in 0 .. MaxResumes

Init ==
  /\ config \in Configs
  /\ mode = [recovery |-> FALSE, retrain |-> FALSE, s3wake |-> FALSE]
  /\ pc = "off"
  /\ store = [r \in Regions |-> NoData]
  /\ locked = {} /\ hash = NoData
  /\ cbmem = None /\ given = None /\ memory = None
  /\ version \in Versions
  /\ unsaved = {} /\ revoked = {} /\ switched = FALSE /\ misfiled = {}
  /\ boots = 0 /\ resumes = 0

-----------------------------------------------------------------------------

\* Mutant: the recovery region serves normal boots too.
lookup_region_type_Ignored(t) ==
  IF t = "variable" THEN "variable"
  ELSE IF config.HAS_RECOVERY_MRC_CACHE THEN "recovery" ELSE "normal"

\* The first region of the type whose flags fit the mode.
lookup_region_type(t) ==
  IF t = "variable" THEN "variable"
  ELSE IF mode.recovery /\ config.HAS_RECOVERY_MRC_CACHE THEN "recovery"
  ELSE "normal"

\* Power comes on, or goes away and comes back, or the FSP asks for a reset.
PowerCycle ==
  /\ pc' = "off"
  /\ cbmem' = None /\ given' = None /\ memory' = None
  /\ unsaved' = {} /\ locked' = {}

\* vboot_check_recovery_request and vboot_recovery_mode_memory_retrain: the
\* switches, the request in VBNV (which every boot clears) and the outcome of the
\* verification may give any answer, on a resume another than on its boot.
\* vboot_fill_handoff sees to it that the answer stays the same for one boot.
ChooseMode(s3wake) ==
  \E recovery, retrain \in BOOLEAN :
    mode' = [recovery |-> recovery, retrain |-> retrain, s3wake |-> s3wake]

Boot ==
  /\ pc = "off" /\ boots < MaxBoots
  /\ boots' = boots + 1
  /\ pc' = "fill"
  /\ ChooseMode(FALSE) /\ switched' = FALSE
  /\ UNCHANGED <<config, store, locked, hash, cbmem, given, memory, version,
                 unsaved, revoked, misfiled, resumes>>

Resume ==
  /\ pc = "sleep" /\ resumes < MaxResumes
  /\ resumes' = resumes + 1
  /\ pc' = "fill"
  /\ ChooseMode(TRUE)
  /\ switched' = (switched \/ mode'.recovery # mode.recovery)
  /\ locked' = {} /\ given' = None
  /\ UNCHANGED <<config, store, hash, cbmem, memory, version, unsaved, revoked, misfiled,
                 boots>>

\* Mutant: neither signature nor checksums are looked at.
mrc_cache_get_current_Unvalidated(t) == {NoData, store[lookup_region_type(t)]}

\* The results of mrc_cache_get_current: any read may fail.
mrc_cache_get_current(t) ==
  {NoData} \cup {d \in Data : d = store[lookup_region_type(t)] /\ d.version = version}

\* Mutant: the recovery cache is trusted without the hash.
mrc_cache_verify_hash_Skipped(d) == TRUE

\* Only in recovery mode is the data's hash kept in the TPM.
mrc_cache_verify_hash(d) == mode.recovery => hash = d

\* Whether cached training data may be used at all.
MayUseCache ==
  mode.recovery => config.HAS_RECOVERY_MRC_CACHE /\ ~mode.retrain

\* What fsp_fill_mrc_cache may leave in NvsBufferPtr.
fsp_fill_mrc_cache ==
  {NoData} \cup
  {d \in mrc_cache_get_current("training") \ {NoData} :
     MayUseCache /\ (config.FSP2_0_USES_TPM_MRC_HASH => mrc_cache_verify_hash(d))}

\* fsp_fill_common_arch_params and platform_fsp_memory_init_params_cb: the FSP
\* gets what the cache has; a resume without training data resets.
FillMrcCache ==
  /\ pc = "fill"
  /\ \E nvs \in fsp_fill_mrc_cache, var \in mrc_cache_get_current("variable") :
       \/ /\ nvs # NoData \/ ~mode.s3wake
          /\ given' = [training |-> nvs, variable |-> var]
          /\ pc' = "fsp"
          /\ UNCHANGED <<locked, cbmem, memory, unsaved>>
       \/ /\ nvs = NoData /\ mode.s3wake
          /\ PowerCycle
  /\ UNCHANGED <<config, mode, store, hash, version, revoked, boots, resumes>>
  /\ UNCHANGED modeHistory

Fresh == [id |-> boots, version |-> version, recovery |-> mode.recovery]

\* The FSP (external): a full boot trains or keeps the settings it was given,
\* and always makes new variable data; a resume keeps the settings.
FspMemoryInit ==
  /\ pc = "fsp"
  /\ pc' = "stash"
  /\ \/ mode.s3wake /\ UNCHANGED memory
     \/ /\ ~mode.s3wake
        /\ \E d \in {Fresh, given.training} \ {NoData} :
             memory' = [training |-> d, variable |-> Fresh]
  /\ UNCHANGED <<config, mode, store, locked, hash, cbmem, given, version, unsaved,
                 revoked, boots, resumes>>
  /\ UNCHANGED modeHistory

\* save_memory_training_data and the stash of the variable data.  A resume keeps
\* the training data of its boot; adding an entry to CBMEM may fail.
Stash ==
  /\ pc = "stash"
  /\ pc' = "training"
  /\ given' = None
  /\ \E added \in SUBSET (IF mode.s3wake THEN {"variable"} ELSE Types) :
       /\ cbmem' = [t \in Types |-> IF t \in added THEN memory[t] ELSE cbmem[t]]
       /\ unsaved' = Types \ {t \in Types : cbmem'[t] = memory[t]}
  /\ \/ UNCHANGED hash
     \/ /\ ~mode.s3wake /\ mode.recovery /\ config.FSP2_0_USES_TPM_MRC_HASH
        /\ hash' \in {memory.training, NoData}
  /\ UNCHANGED <<config, mode, store, locked, memory, version, revoked, boots, resumes>>
  /\ UNCHANGED modeHistory

\* What region_file_update_data may leave in a region: see RegionStore.
Failed(r) == IF r \in locked THEN {store[r]} ELSE {store[r], NoData}

NextType(t) == IF t = "training" THEN "variable" ELSE "invalidate"

\* update_mrc_cache_by_type finds no stash, or what is stored is up to date.
UpToDate(t) ==
  /\ pc = t
  /\ cbmem[t] \in {NoData, store[lookup_region_type(t)]}
  /\ pc' = NextType(t)
  /\ UNCHANGED <<config, mode, store, locked, hash, cbmem, given, memory, version,
                 unsaved, revoked, boots, resumes>>
  /\ UNCHANGED modeHistory

\* The region file cannot be opened, or the update fails; both are only logged.
UpdateFails(t) ==
  /\ pc = t /\ cbmem[t] # NoData
  /\ \/ UNCHANGED store
     \/ /\ cbmem[t] # store[lookup_region_type(t)]
        /\ \E d \in Failed(lookup_region_type(t)) :
             store' = [store EXCEPT ![lookup_region_type(t)] = d]
  /\ unsaved' = IF store' = store /\ cbmem[t] = store[lookup_region_type(t)]
                THEN unsaved ELSE unsaved \cup {t}
  /\ pc' = NextType(t)
  /\ UNCHANGED <<config, mode, locked, hash, cbmem, given, memory, version, revoked,
                 boots, resumes>>
  /\ UNCHANGED modeHistory

\* The region of the mode takes the stash, which on a resume may have been made in
\* the other mode.
Updated(t) == [store EXCEPT ![lookup_region_type(t)] = cbmem[t]]

Update(t) ==
  /\ pc = t
  /\ cbmem[t] \notin {NoData, store[lookup_region_type(t)]}
  /\ lookup_region_type(t) \notin locked
  /\ store' = Updated(t)
  /\ unsaved' = IF cbmem[t] = memory[t] THEN unsaved \ {t} ELSE unsaved
  /\ misfiled' = IF /\ t = "training" /\ config.HAS_RECOVERY_MRC_CACHE
                    /\ cbmem[t].recovery # mode.recovery
                 THEN misfiled \cup {cbmem[t]} ELSE misfiled
  /\ pc' = NextType(t)
  /\ UNCHANGED <<config, mode, locked, hash, cbmem, given, memory, version, revoked,
                 switched, boots, resumes>>

\* Mutant: the region of the boot's own mode is invalidated.
Invalidated_OwnRegion == [store EXCEPT ![lookup_region_type("training")] = Invalid]

Invalidated == [store EXCEPT !["normal"] = Invalid]

\* invalidate_normal_cache, when it is configured and the mode asks for it.
Invalidate ==
  /\ pc = "invalidate"
  /\ pc' = "protect"
  /\ LET due == /\ config.MRC_CLEAR_NORMAL_CACHE_ON_RECOVERY_RETRAIN
                /\ mode.recovery /\ mode.retrain
     IN  \/ ~due /\ UNCHANGED <<store, revoked>>
         \/ /\ due
            /\ \E d \in Failed("normal") : store' = [store EXCEPT !["normal"] = d]
            /\ UNCHANGED revoked
         \/ /\ due /\ "normal" \notin locked
            /\ store' = Invalidated
            /\ revoked' = revoked \cup {d \in Data : d = store["normal"]}
  /\ UNCHANGED <<config, mode, locked, hash, cbmem, given, memory, version, unsaved, boots,
                 resumes>>
  /\ UNCHANGED modeHistory

\* protect_mrc_region: both regions in one range, or else each on its own; any
\* of it may fail or be off.
Protect ==
  /\ pc = "protect"
  /\ pc' = "os"
  /\ locked' \in SUBSET (IF config.HAS_RECOVERY_MRC_CACHE
                         THEN {"recovery", "normal"} ELSE {"normal"})
  /\ UNCHANGED <<config, mode, store, hash, cbmem, given, memory, version, unsaved,
                 revoked, boots, resumes>>
  /\ UNCHANGED modeHistory

\* The running system suspends, or installs another firmware.
Suspend ==
  /\ pc = "os" /\ pc' = "sleep"
  /\ UNCHANGED <<config, mode, store, locked, hash, cbmem, given, memory, version,
                 unsaved, revoked, boots, resumes>>
  /\ UNCHANGED modeHistory

FirmwareUpdate ==
  /\ pc = "os" /\ version' \in Versions \ {version}
  /\ UNCHANGED <<config, mode, pc, store, locked, hash, cbmem, given, memory,
                 unsaved, revoked, boots, resumes>>
  /\ UNCHANGED modeHistory

\* Power is lost or the machine reset; a write in progress may be cut.
Reset ==
  /\ pc # "off"
  /\ PowerCycle
  /\ \/ UNCHANGED store
     \/ /\ pc \in Types /\ cbmem[pc] \notin {NoData, store[lookup_region_type(pc)]}
        /\ \E d \in Failed(lookup_region_type(pc)) :
             store' = [store EXCEPT ![lookup_region_type(pc)] = d]
     \/ /\ pc = "invalidate" /\ mode.recovery /\ mode.retrain
        /\ config.MRC_CLEAR_NORMAL_CACHE_ON_RECOVERY_RETRAIN
        /\ \E d \in Failed("normal") : store' = [store EXCEPT !["normal"] = d]
  /\ UNCHANGED <<config, mode, hash, version, revoked, boots, resumes>>
  /\ UNCHANGED modeHistory

Next ==
  \/ Boot \/ Resume \/ FillMrcCache \/ FspMemoryInit \/ Stash
  \/ \E t \in Types : UpToDate(t) \/ UpdateFails(t) \/ Update(t)
  \/ Invalidate \/ Protect \/ Suspend \/ FirmwareUpdate \/ Reset

Spec == Init /\ [][Next]_vars

-----------------------------------------------------------------------------
(* Properties.                                                             *)

\* The FSP is only ever given data that this version of it made, and, on a
\* platform with a recovery cache, training data made in the same mode: a
\* recovery boot does not see what a normal boot left behind, nor the other way
\* round.  Both modes stash under one CBMEM id, and a resume writes the stash to
\* the region of its own mode: the data that such a resume put into the region of
\* the other mode are the only exception.
SettingsFit ==
  \A t \in Types : given[t] # NoData =>
    /\ given[t].version = version
    /\ t = "training" /\ config.HAS_RECOVERY_MRC_CACHE =>
         given[t].recovery = mode.recovery \/ given[t] \in misfiled

\* A resume gives the FSP the settings the sleeping memory was set up with, or
\* none.  Nothing in the code refuses other settings of the right version, so
\* there are two exceptions: ramstage had logged that it could not save them; or
\* the mode has changed since the boot, and the modes have a region each.  In
\* recovery mode the hash in the TPM keeps other training data out even then.
ResumeFinds ==
  pc = "fsp" /\ mode.s3wake =>
    \A t \in Types :
      \/ given[t] \in {memory[t], NoData}
      \/ /\ \/ t \in unsaved
            \/ t = "training" /\ config.HAS_RECOVERY_MRC_CACHE /\ switched
         /\ ~(t = "training" /\ mode.recovery /\ config.FSP2_0_USES_TPM_MRC_HASH
              /\ hash = memory.training)

\* Once a recovery boot with the retrain switch has invalidated the normal cache,
\* no boot uses the training data that it held: no failed update, resume or
\* later recovery boot brings them back, save for data that a resume in another
\* mode than its boot had put into both regions: a retrain invalidates only one.
RetrainHonoured == given.training \notin revoked \ misfiled
=============================================================================
