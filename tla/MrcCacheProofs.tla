--------------------------- MODULE MrcCacheProofs ---------------------------
(***************************************************************************)
(* Proofs about MrcCache for any number of boots, resumes and versions of  *)
(* the firmware, on every kind of platform: the types, and the three       *)
(* properties of what memory initialisation is given.                      *)
(***************************************************************************)
EXTENDS MrcCache, TLAPS

-----------------------------------------------------------------------------
(* The inductive invariant.                                                *)

HasRecovery == config.HAS_RECOVERY_MRC_CACHE

\* Ramstage has yet to write the stash, or is past it.
Saving == {"training", "variable", "invalidate", "protect", "os", "sleep"}

\* The settings in memory and the stash are those of the boot: power off loses
\* them, a boot begins without them, and from the FSP on there are some.
Lifetime ==
  /\ pc # "off" => boots >= 1
  /\ pc \notin {"fsp", "stash"} => given = None
  /\ pc = "off" \/ (pc \in {"fill", "fsp"} /\ ~mode.s3wake) =>
       cbmem = None /\ memory = None
  /\ pc = "stash" \/ pc \in Saving \/ (pc \in {"fill", "fsp"} /\ mode.s3wake) =>
       \A t \in Types : memory[t] # NoData

TypeInv == TypeOK /\ Lifetime

\* Only a resume can be in another mode than the boot, and one that asks for a
\* retrain finds no data and goes no further than romstage.
Resumed ==
  /\ switched /\ pc # "off" => mode.s3wake
  /\ mode.s3wake /\ pc \notin {"off", "fill"} => MayUseCache

\* Data of the mode that the machine is in, where the modes have a region each.
OfMode(d) == d # NoData => d.recovery = mode.recovery \/ d \in misfiled

\* Each mode's training data stay in the mode's region, unless a resume in the
\* other mode has put them elsewhere.
Separate ==
  HasRecovery =>
    /\ store["normal"] \in Data =>
         store["normal"].recovery = FALSE \/ store["normal"] \in misfiled
    /\ store["recovery"] \in Data =>
         store["recovery"].recovery = TRUE \/ store["recovery"] \in misfiled
    /\ ~switched => OfMode(cbmem["training"]) /\ OfMode(memory["training"])
    /\ OfMode(given["training"])

\* What the FSP is given has its version until the firmware changes.
Versioned == \A t \in Types : given[t] # NoData => given[t].version = version

\* The region of t may be another one than that of the boot.
Strayed(t) == t = "training" /\ HasRecovery /\ switched

\* The region of t holds nothing but the settings in memory, unless ramstage
\* knows that it does not, or the region is not that of the boot.
Kept(t) ==
  \/ t \in unsaved \/ Strayed(t)
  \/ store[lookup_region_type(t)] \in {memory[t], NoData, Invalid}

\* The stash of t is the settings in memory, with the same exception.
Stashed(t) == t \in unsaved \/ cbmem[t] = memory[t]

Passed(t) ==
  \/ pc \in {"invalidate", "protect", "os", "sleep"}
  \/ pc = "variable" /\ t = "training"
  \/ pc \in {"fill", "fsp"} /\ mode.s3wake

Pending(t) == pc = "training" \/ (pc = "variable" /\ t = "variable")

Saved ==
  \A t \in Types : (Passed(t) => Kept(t)) /\ (Pending(t) => Stashed(t))

\* Training data of this boot can be revoked only by the boot itself, in
\* recovery mode on a platform without a recovery cache: a resume in whatever
\* mode finds the region invalidated and resets.
Spent ==
  /\ ~HasRecovery /\ store["normal"] \notin Data
  /\ pc \in {"protect", "os", "sleep"} \/ (pc = "fill" /\ mode.s3wake)

Barred == revoked \ misfiled

Revoked ==
  /\ store["normal"] \notin Barred /\ store["recovery"] \notin Barred
  /\ given["training"] \notin Barred
  /\ cbmem["training"] \in Barred \/ memory["training"] \in Barred => Spent
  /\ ~HasRecovery => store["recovery"] = NoData

\* Data are numbered by the boots that made them.
Numbered ==
  /\ \A r \in Regions : store[r] \in Data => store[r].id <= boots
  /\ \A t \in Types : /\ cbmem[t] # NoData => cbmem[t].id <= boots
                      /\ memory[t] # NoData => memory[t].id <= boots
                      /\ given[t] # NoData => given[t].id <= boots
  /\ \A d \in revoked : d.id <= boots
  /\ pc \in {"fill", "fsp"} /\ ~mode.s3wake => \A d \in revoked : d.id < boots

Inv ==
  /\ TypeInv /\ Resumed /\ Separate /\ Versioned /\ Saved /\ Revoked /\ Numbered
  /\ ResumeFinds

-----------------------------------------------------------------------------
(* Data.                                                                   *)

\* What is not training data, and the fields of what is.
LEMMA DataFacts ==
  /\ NoData \notin Data /\ Invalid \notin Data /\ NoData # Invalid
  /\ \A d \in Data : d.id \in 1 .. MaxBoots /\ d.version \in Versions
                      /\ d.recovery \in BOOLEAN
<1>1. NoData # Invalid
  <2>1. NoData.id = 0 /\ Invalid.id = -1
    BY DEF NoData, Invalid
  <2> QED
    BY <2>1
<1>2. \A d \in Data : d.id \in 1 .. MaxBoots
  BY DEF Data
<1>3. \A d \in Data : d.version \in Versions /\ d.recovery \in BOOLEAN
  BY Zenon DEF Data
<1>4. NoData \notin Data /\ Invalid \notin Data
  <2>1. NoData.id = 0 /\ Invalid.id = -1
    BY DEF NoData, Invalid
  <2> QED
    BY <2>1, <1>2, BoundsAssumption
<1> QED
  BY <1>1, <1>2, <1>3, <1>4

\* The FSP makes data of the boot.
LEMMA FreshFacts ==
  ASSUME TypeInv, pc # "off"
  PROVE  /\ Fresh \in Data /\ Fresh # NoData
         /\ Fresh.id = boots /\ Fresh.version = version
         /\ Fresh.recovery = mode.recovery
<1>1. boots \in 1 .. MaxBoots
  BY BoundsAssumption DEF TypeInv, TypeOK, Lifetime
<1>2. version \in Versions
  BY DEF TypeInv, TypeOK
<1>3. mode.recovery \in BOOLEAN
  BY Zenon DEF TypeInv, TypeOK, Modes
<1>4. Fresh \in Data
  BY <1>1, <1>2, <1>3, Zenon DEF Fresh, Data
<1>5. Fresh.id = boots /\ Fresh.version = version
  BY DEF Fresh
<1>6. Fresh.recovery = mode.recovery
  BY Zenon DEF Fresh
<1> QED
  BY <1>4, <1>5, <1>6, DataFacts

-----------------------------------------------------------------------------
(* Types.                                                                  *)

\* TypeOK without the records of Booleans.
TypesRest ==
  /\ pc \in {"off", "fill", "fsp", "stash", "training", "variable", "invalidate",
             "protect", "os", "sleep"}
  /\ store \in [Regions -> Data \cup {NoData, Invalid}]
  /\ locked \subseteq Regions
  /\ hash \in Data \cup {NoData}
  /\ cbmem \in [Types -> Data \cup {NoData}]
  /\ given \in [Types -> Data \cup {NoData}]
  /\ memory \in [Types -> Data \cup {NoData}]
  /\ version \in Versions
  /\ unsaved \subseteq Types
  /\ revoked \subseteq Data /\ misfiled \subseteq Data
  /\ boots \in 0 .. MaxBoots /\ resumes \in 0 .. MaxResumes

\* The mode of a boot or resume is whatever vboot finds.
LEMMA ChooseEffect ==
  ASSUME NEW s3wake \in BOOLEAN, ChooseMode(s3wake)
  PROVE  mode' \in Modes /\ mode'.s3wake = s3wake
<1>1. PICK recovery, retrain \in BOOLEAN :
        mode' = [recovery |-> recovery, retrain |-> retrain, s3wake |-> s3wake]
  BY DEF ChooseMode
<1> QED
  BY <1>1, Zenon DEF Modes

\* Only a boot or a resume changes the mode; nothing changes the platform.
LEMMA ModeStep ==
  ASSUME config \in Configs, mode \in Modes, switched \in BOOLEAN, [Next]_vars
  PROVE  (config \in Configs)' /\ (mode \in Modes)' /\ (switched \in BOOLEAN)'
<1>1. config' = config
  BY DEF Next, Boot, Resume, FillMrcCache, FspMemoryInit, Stash, UpToDate, UpdateFails,
     Update, Invalidate, Protect, Suspend, FirmwareUpdate, Reset, vars
<1>2. UNCHANGED <<mode, switched>> \/ Boot \/ Resume
  BY DEF Next, FillMrcCache, FspMemoryInit, Stash, UpToDate, UpdateFails,
     Update, Invalidate, Protect, Suspend, FirmwareUpdate, Reset, vars, modeHistory
<1>3. CASE Boot
  BY <1>1, <1>3, ChooseEffect DEF Boot
<1>4. CASE Resume
  BY <1>1, <1>4, ChooseEffect DEF Resume
<1> QED
  BY <1>1, <1>2, <1>3, <1>4

\* Every step keeps the other types.
LEMMA TypesStep ==
  ASSUME TypeInv, [Next]_vars
  PROVE  TypesRest'
<1> USE DEF TypesRest, TypeInv, TypeOK
<1>0. TypesRest
  BY DEF TypesRest
<1> USE DataFacts, BoundsAssumption
<1>1. CASE Boot
  BY <1>1 DEF Boot
<1>2. CASE Resume
  BY <1>2 DEF Resume, None
<1>3. CASE FillMrcCache
  <2>1. fsp_fill_mrc_cache \subseteq Data \cup {NoData}
    BY DEF fsp_fill_mrc_cache, mrc_cache_get_current
  <2>2. mrc_cache_get_current("variable") \subseteq Data \cup {NoData}
    BY DEF mrc_cache_get_current
  <2>3. \/ PowerCycle
        \/ /\ given' \in [Types -> Data \cup {NoData}] /\ pc' = "fsp"
           /\ UNCHANGED <<locked, cbmem, memory, unsaved>>
    BY <1>3, <2>1, <2>2 DEF FillMrcCache, Types
  <2>4. UNCHANGED <<store, hash, version, revoked, misfiled, boots, resumes>>
    BY <1>3 DEF FillMrcCache, modeHistory
  <2> QED
    BY <2>3, <2>4 DEF PowerCycle, None
<1>4. CASE FspMemoryInit
  BY <1>4, FreshFacts DEF FspMemoryInit, modeHistory, Types
<1>5. CASE Stash
  <2>1. PICK added \in SUBSET Types :
          /\ cbmem' = [t \in Types |-> IF t \in added THEN memory[t] ELSE cbmem[t]]
          /\ unsaved' = Types \ {t \in Types : cbmem'[t] = memory[t]}
    BY <1>5 DEF Stash, Types
  <2>2. cbmem' \in [Types -> Data \cup {NoData}] /\ unsaved' \subseteq Types
    BY <2>1
  <2>3. hash' \in Data \cup {NoData}
    BY <1>5 DEF Stash, Types
  <2> QED
    BY <1>5, <2>2, <2>3 DEF Stash, modeHistory, None
<1>6. ASSUME NEW t \in Types, UpToDate(t) PROVE TypesRest'
  BY <1>6 DEF UpToDate, modeHistory, NextType
<1>7. ASSUME NEW t \in Types, UpdateFails(t) PROVE TypesRest'
  BY <1>7 DEF UpdateFails, modeHistory, NextType, Failed
<1>8. ASSUME NEW t \in Types, Update(t) PROVE TypesRest'
  BY <1>8 DEF Update, NextType, Updated
<1>9. CASE Invalidate
  BY <1>9 DEF Invalidate, modeHistory, Invalidated, Failed, Types
<1>10. CASE Protect
  BY <1>10 DEF Protect, modeHistory, Regions
<1>11. CASE Suspend
  BY <1>11 DEF Suspend, modeHistory
<1>12. CASE FirmwareUpdate
  BY <1>12 DEF FirmwareUpdate, modeHistory
<1>13. CASE Reset
  BY <1>13 DEF Reset, modeHistory, PowerCycle, None, Failed
<1>14. CASE UNCHANGED vars
  BY <1>14 DEF vars
<1> QED
  BY <1>1, <1>2, <1>3, <1>4, <1>5, <1>6, <1>7, <1>8, <1>9, <1>10, <1>11, <1>12,
     <1>13, <1>14 DEF Next

\* A resume finds what its boot left, but for the mode.
LEMMA ResumeEffect ==
  ASSUME mode \in Modes, Resume
  PROVE  /\ mode'.s3wake
         /\ ~switched' => ~switched /\ mode'.recovery = mode.recovery
         /\ switched => switched'
         /\ pc = "sleep" /\ pc' = "fill" /\ locked' = {} /\ given' = None
         /\ UNCHANGED <<config, store, hash, cbmem, memory, version, unsaved, revoked,
                        misfiled, boots>>
<1>1. mode'.s3wake
  BY ChooseEffect, TRUE \in BOOLEAN DEF Resume
<1>2. /\ ~switched' => ~switched /\ mode'.recovery = mode.recovery
      /\ switched => switched'
  BY Zenon DEF Resume
<1> QED
  BY <1>1, <1>2 DEF Resume

\* A boot is never a resume.
LEMMA BootEffect ==
  ASSUME Boot
  PROVE  /\ ~mode'.s3wake /\ ~switched'
         /\ pc = "off" /\ pc' = "fill" /\ boots' = boots + 1
         /\ UNCHANGED <<config, store, locked, hash, cbmem, given, memory, version,
                        unsaved, revoked, misfiled, resumes>>
<1>1. ~mode'.s3wake
  BY ChooseEffect, FALSE \in BOOLEAN DEF Boot
<1> QED
  BY <1>1 DEF Boot

\* What survives S3 is lost with power, and nothing is given outside romstage.
LEMMA LifetimeStep ==
  ASSUME TypeInv, [Next]_vars
  PROVE  Lifetime'
<1> USE DEF TypeInv, Lifetime, Saving
<1>0. boots \in 0 .. MaxBoots /\ mode \in Modes
  BY DEF TypeOK
<1>1. CASE Boot
  BY <1>0, <1>1, BootEffect, BoundsAssumption
<1>2. CASE Resume
  BY <1>0, <1>2, ResumeEffect
<1>3. CASE FillMrcCache
  BY <1>3 DEF FillMrcCache, PowerCycle
<1>4. CASE FspMemoryInit
  <2>1. ASSUME ~mode.s3wake PROVE \A t \in Types : memory'[t] # NoData
    BY <1>4, <2>1, FreshFacts DEF FspMemoryInit, Types
  <2> QED
    BY <1>4, <2>1 DEF FspMemoryInit
<1>5. CASE Stash
  BY <1>5 DEF Stash
<1>6. ASSUME NEW t \in Types, UpToDate(t) PROVE Lifetime'
  BY <1>6 DEF UpToDate, modeHistory, NextType, Types
<1>7. ASSUME NEW t \in Types, UpdateFails(t) PROVE Lifetime'
  BY <1>7 DEF UpdateFails, modeHistory, NextType, Types
<1>8. ASSUME NEW t \in Types, Update(t) PROVE Lifetime'
  BY <1>8 DEF Update, NextType, Types
<1>9. CASE Invalidate
  BY <1>9 DEF Invalidate, modeHistory
<1>10. CASE Protect
  BY <1>10 DEF Protect, modeHistory
<1>11. CASE Suspend
  BY <1>11 DEF Suspend, modeHistory
<1>12. CASE FirmwareUpdate
  BY <1>12 DEF FirmwareUpdate, modeHistory
<1>13. CASE Reset
  BY <1>13 DEF Reset, modeHistory, PowerCycle
<1>14. CASE UNCHANGED vars
  BY <1>14 DEF vars
<1> QED
  BY <1>1, <1>2, <1>3, <1>4, <1>5, <1>6, <1>7, <1>8, <1>9, <1>10, <1>11, <1>12,
     <1>13, <1>14 DEF Next

\* Types and lifetimes together are inductive.
LEMMA TypeInvStep == TypeInv /\ [Next]_vars => TypeInv'
<1> SUFFICES ASSUME TypeInv, [Next]_vars PROVE TypeInv'
  OBVIOUS
<1>1. (config \in Configs)' /\ (mode \in Modes)' /\ (switched \in BOOLEAN)'
  BY ModeStep DEF TypeInv, TypeOK
<1>2. TypesRest'
  BY TypesStep
<1>3. Lifetime'
  BY LifetimeStep
<1> QED
  BY <1>1, <1>2, <1>3, Zenon DEF TypeInv, TypeOK, TypesRest

-----------------------------------------------------------------------------
(* The other conjuncts.                                                    *)

\* What mrc_cache_get_current found for the FSP.
Found(t, d) ==
  d \in Data /\ d = store[lookup_region_type(t)] /\ d.version = version

\* fsp_fill_common_arch_params: what is given was found, or the machine resets.
LEMMA FillEffect ==
  ASSUME TypeInv, FillMrcCache
  PROVE  /\ pc = "fill"
         /\ UNCHANGED <<config, mode, store, hash, version, revoked, switched,
                        misfiled, boots>>
         /\ \/ /\ pc' = "off" /\ unsaved' = {}
               /\ cbmem' = None /\ given' = None /\ memory' = None
            \/ /\ pc' = "fsp" /\ UNCHANGED <<cbmem, memory, unsaved>>
               /\ \A t \in Types : given'[t] # NoData => Found(t, given'[t])
               /\ given'["training"] # NoData =>
                    /\ MayUseCache
                    /\ config.FSP2_0_USES_TPM_MRC_HASH =>
                         mrc_cache_verify_hash(given'["training"])
               /\ mode.s3wake => given'["training"] # NoData
<1>1. \A d \in fsp_fill_mrc_cache : d # NoData =>
        /\ Found("training", d) /\ MayUseCache
        /\ config.FSP2_0_USES_TPM_MRC_HASH => mrc_cache_verify_hash(d)
  BY DEF fsp_fill_mrc_cache, mrc_cache_get_current, Found
<1>2. \A d \in mrc_cache_get_current("variable") : d # NoData => Found("variable", d)
  BY DEF mrc_cache_get_current, Found
<1>3. PICK nvs \in fsp_fill_mrc_cache, var \in mrc_cache_get_current("variable") :
        \/ /\ nvs # NoData \/ ~mode.s3wake
           /\ given' = [training |-> nvs, variable |-> var]
           /\ pc' = "fsp"
           /\ UNCHANGED <<locked, cbmem, memory, unsaved>>
        \/ /\ nvs = NoData /\ mode.s3wake
           /\ PowerCycle
  BY Zenon DEF FillMrcCache
<1>4. pc = "fill" /\ UNCHANGED <<config, mode, store, hash, version, revoked, switched,
                        misfiled, boots>>
  BY DEF FillMrcCache, modeHistory
<1>5. CASE PowerCycle
  BY <1>4, <1>5 DEF PowerCycle
<1>6. CASE ~PowerCycle
  <2>1. given'["training"] = nvs /\ given'["variable"] = var
    BY <1>3, <1>6
  <2>2. \A t \in Types : given'[t] # NoData => Found(t, given'[t])
    BY <1>1, <1>2, <2>1 DEF Types
  <2>3. /\ given'["training"] # NoData =>
             /\ MayUseCache
             /\ config.FSP2_0_USES_TPM_MRC_HASH =>
                  mrc_cache_verify_hash(given'["training"])
        /\ mode.s3wake => given'["training"] # NoData
    BY <1>1, <1>3, <1>6, <2>1
  <2> QED
    BY <1>3, <1>4, <1>6, <2>2, <2>3
<1> QED
  BY <1>5, <1>6

\* Memory runs with new data, with the data given, or, resumed, with its old ones.
LEMMA FspEffect ==
  ASSUME TypeInv, FspMemoryInit
  PROVE  /\ pc = "fsp" /\ pc' = "stash"
         /\ UNCHANGED <<config, mode, store, hash, cbmem, given, version, unsaved,
                        revoked, switched, misfiled, boots>>
         /\ \/ mode.s3wake /\ memory' = memory
            \/ /\ ~mode.s3wake
               /\ memory'["variable"] = Fresh
               /\ \/ memory'["training"] = Fresh
                  \/ /\ given["training"] # NoData
                     /\ memory'["training"] = given["training"]
BY DEF FspMemoryInit, modeHistory

\* Where the stash differs from the settings in memory, ramstage knows.
LEMMA StashEffect ==
  ASSUME TypeInv, Stash
  PROVE  /\ pc = "stash" /\ pc' = "training" /\ given' = None
         /\ UNCHANGED <<config, mode, store, memory, version, revoked, switched,
                        misfiled, boots>>
         /\ \A t \in Types : cbmem'[t] \in {cbmem[t], memory[t]}
         /\ \A t \in Types : t \notin unsaved' => cbmem'[t] = memory[t]
<1>1. PICK added :
        /\ cbmem' = [t \in Types |-> IF t \in added THEN memory[t] ELSE cbmem[t]]
        /\ unsaved' = Types \ {t \in Types : cbmem'[t] = memory[t]}
  BY DEF Stash
<1>2. /\ \A t \in Types : cbmem'[t] \in {cbmem[t], memory[t]}
      /\ \A t \in Types : t \notin unsaved' => cbmem'[t] = memory[t]
  BY <1>1
<1> QED
  BY <1>2 DEF Stash, modeHistory

\* The regions that lookup_region_type finds.
LEMMA LookupFacts ==
  /\ \A t \in Types : lookup_region_type(t) \in Regions
  /\ HasRecovery /\ mode.recovery => lookup_region_type("training") = "recovery"
  /\ ~(HasRecovery /\ mode.recovery) => lookup_region_type("training") = "normal"
BY DEF lookup_region_type, Types, Regions, HasRecovery

\* Nothing is given, stashed or in memory.
LEMMA NoneFacts == \A t \in Types : None[t] = NoData
BY DEF None

\* fsp_fill_mrc_cache finds nothing for a retrain, and a resume without data resets.
LEMMA ResumedStep ==
  ASSUME TypeInv, Resumed, [Next]_vars
  PROVE  Resumed'
<1> USE DEF Resumed, MayUseCache
<1>0. mode \in Modes
  BY DEF TypeInv, TypeOK
<1>1. CASE Boot
  BY <1>1, BootEffect
<1>2. CASE Resume
  BY <1>0, <1>2, ResumeEffect
<1>3. CASE FillMrcCache
  BY <1>3, FillEffect
<1>4. CASE FspMemoryInit
  BY <1>4, FspEffect
<1>5. CASE Stash
  BY <1>5, StashEffect
<1>6. ASSUME NEW t \in Types, UpToDate(t) PROVE Resumed'
  BY <1>6 DEF UpToDate, modeHistory, NextType, Types
<1>7. ASSUME NEW t \in Types, UpdateFails(t) PROVE Resumed'
  BY <1>7 DEF UpdateFails, modeHistory, NextType, Types
<1>8. ASSUME NEW t \in Types, Update(t) PROVE Resumed'
  BY <1>8 DEF Update, NextType, Types
<1>9. CASE Invalidate
  BY <1>9 DEF Invalidate, modeHistory
<1>10. CASE Protect
  BY <1>10 DEF Protect, modeHistory
<1>11. CASE Suspend
  BY <1>11 DEF Suspend, modeHistory
<1>12. CASE FirmwareUpdate
  BY <1>12 DEF FirmwareUpdate, modeHistory
<1>13. CASE Reset
  BY <1>13 DEF Reset, PowerCycle, modeHistory
<1>14. CASE UNCHANGED vars
  BY <1>14 DEF vars
<1> QED
  BY <1>1, <1>2, <1>3, <1>4, <1>5, <1>6, <1>7, <1>8, <1>9, <1>10, <1>11, <1>12,
     <1>13, <1>14 DEF Next

\* A region takes training data only in its own mode, or they are misfiled.
LEMMA SeparateStep ==
  ASSUME TypeInv, Separate, [Next]_vars
  PROVE  Separate'
<1> USE DEF Separate, HasRecovery, OfMode
<1> USE DataFacts, NoneFacts
<1>0. /\ "training" \in Types /\ mode \in Modes /\ Lifetime
      /\ mode.recovery \in BOOLEAN
      /\ store \in [Regions -> Data \cup {NoData, Invalid}]
  BY DEF TypeInv, TypeOK, Types, Modes
<1>1. CASE Boot
  BY <1>1, <1>0, BootEffect DEF Lifetime
<1>2. CASE Resume
  BY <1>2, <1>0, ResumeEffect
<1>3. CASE FillMrcCache
  <2>1. CASE given' = None
    BY <1>3, <1>0, <2>1, FillEffect
  <2>2. CASE given' # None
    <3>1. /\ given'["training"] # NoData =>
               given'["training"] \in Data
               /\ given'["training"] = store[lookup_region_type("training")]
          /\ UNCHANGED <<config, mode, store, cbmem, memory, switched, misfiled>>
      BY <1>3, <1>0, <2>2, FillEffect DEF Found
    <3>2. ASSUME HasRecovery, given'["training"] # NoData
          PROVE  \/ given'["training"].recovery = mode.recovery
                 \/ given'["training"] \in misfiled
      <4>1. CASE mode.recovery = TRUE
        BY <3>1, <3>2, <4>1, LookupFacts
      <4>2. CASE mode.recovery = FALSE
        BY <3>1, <3>2, <4>2, LookupFacts
      <4> QED
        BY <1>0, <4>1, <4>2
    <3> QED
      BY <3>1, <3>2
  <2> QED
    BY <2>1, <2>2
<1>4. CASE FspMemoryInit
  BY <1>4, <1>0, FreshFacts, FspEffect
<1>5. CASE Stash
  BY <1>5, <1>0, StashEffect
<1>6. ASSUME NEW t \in Types, UpToDate(t) PROVE Separate'
  BY <1>6, <1>0 DEF UpToDate, modeHistory
<1>7. ASSUME NEW t \in Types, UpdateFails(t) PROVE Separate'
  BY <1>7, <1>0 DEF UpdateFails, modeHistory, Failed, lookup_region_type, Types, Regions
<1>8. ASSUME NEW t \in Types, Update(t) PROVE Separate'
  BY <1>8, <1>0 DEF Update, Updated, lookup_region_type, Types, Regions, TypeInv,
     TypeOK
<1>9. CASE Invalidate
  BY <1>9, <1>0 DEF Invalidate, modeHistory, Invalidated, Failed, TypeInv, TypeOK, Regions
<1>10. CASE Protect
  BY <1>10, <1>0 DEF Protect, modeHistory
<1>11. CASE Suspend
  BY <1>11, <1>0 DEF Suspend, modeHistory
<1>12. CASE FirmwareUpdate
  BY <1>12, <1>0 DEF FirmwareUpdate, modeHistory
<1>13. CASE Reset
  BY <1>13, <1>0 DEF Reset, modeHistory, PowerCycle, Failed, TypeInv, TypeOK, Regions,
     lookup_region_type
<1>14. CASE UNCHANGED vars
  BY <1>14, <1>0 DEF vars
<1> QED
  BY <1>1, <1>2, <1>3, <1>4, <1>5, <1>6, <1>7, <1>8, <1>9, <1>10, <1>11, <1>12,
     <1>13, <1>14 DEF Next

\* The version changes only while nothing is given.
LEMMA VersionedStep ==
  ASSUME TypeInv, Versioned, [Next]_vars
  PROVE  Versioned'
<1> USE DEF Versioned
<1> USE NoneFacts
<1>0. Lifetime /\ mode \in Modes
  BY DEF TypeInv, TypeOK
<1>1. CASE Boot
  BY <1>1, <1>0, BootEffect
<1>2. CASE Resume
  BY <1>2, <1>0, ResumeEffect
<1>3. CASE FillMrcCache
  BY <1>3, <1>0, FillEffect DEF Found
<1>4. CASE FspMemoryInit
  BY <1>4, <1>0, FspEffect
<1>5. CASE Stash
  BY <1>5, <1>0, StashEffect
<1>6. ASSUME NEW t \in Types, UpToDate(t) PROVE Versioned'
  BY <1>6, <1>0 DEF UpToDate, modeHistory
<1>7. ASSUME NEW t \in Types, UpdateFails(t) PROVE Versioned'
  BY <1>7, <1>0 DEF UpdateFails, modeHistory
<1>8. ASSUME NEW t \in Types, Update(t) PROVE Versioned'
  BY <1>8, <1>0 DEF Update, Updated
<1>9. CASE Invalidate
  BY <1>9, <1>0 DEF Invalidate, modeHistory, Invalidated
<1>10. CASE Protect
  BY <1>10, <1>0 DEF Protect, modeHistory
<1>11. CASE Suspend
  BY <1>11, <1>0 DEF Suspend, modeHistory
<1>12. CASE FirmwareUpdate
  BY <1>12, <1>0 DEF FirmwareUpdate, modeHistory, Lifetime
<1>13. CASE Reset
  BY <1>13, <1>0 DEF Reset, modeHistory, PowerCycle
<1>14. CASE UNCHANGED vars
  BY <1>14, <1>0 DEF vars
<1> QED
  BY <1>1, <1>2, <1>3, <1>4, <1>5, <1>6, <1>7, <1>8, <1>9, <1>10, <1>11, <1>12,
     <1>13, <1>14 DEF Next

\* The stash is the settings in memory until it is written, and so is the region after,
\* whatever fails in between is known to ramstage.
LEMMA SavedStep ==
  ASSUME TypeInv, Saved, [Next]_vars
  PROVE  Saved'
<1> USE DEF Saved, Kept, Strayed, HasRecovery, Stashed, Passed, Pending
<1> USE DataFacts
<1>0. Lifetime /\ mode \in Modes /\ store \in [Regions -> Data \cup {NoData, Invalid}]
  BY DEF TypeInv, TypeOK
<1> USE <1>0 DEF lookup_region_type, Types, Regions
<1>1. CASE Boot
  BY <1>1, BootEffect
<1>2. CASE Resume
  BY <1>2, ResumeEffect
<1>3. CASE FillMrcCache
  BY <1>3, FillEffect
<1>4. CASE FspMemoryInit
  BY <1>4, FspEffect
<1>5. CASE Stash
  BY <1>5, StashEffect
<1>6. ASSUME NEW t \in Types, UpToDate(t) PROVE Saved'
  BY <1>6 DEF UpToDate, modeHistory, NextType, Lifetime, Saving
<1>7. ASSUME NEW t \in Types, UpdateFails(t) PROVE Saved'
  BY <1>7 DEF UpdateFails, modeHistory, Failed, NextType
<1>8. ASSUME NEW t \in Types, Update(t) PROVE Saved'
  BY <1>8 DEF Update, Updated, NextType
<1>9. CASE Invalidate
  BY <1>9 DEF Invalidate, modeHistory, Invalidated, Failed
<1>10. CASE Protect
  BY <1>10 DEF Protect, modeHistory
<1>11. CASE Suspend
  BY <1>11 DEF Suspend, modeHistory
<1>12. CASE FirmwareUpdate
  BY <1>12 DEF FirmwareUpdate, modeHistory
<1>13. CASE Reset
  BY <1>13 DEF Reset, modeHistory, PowerCycle, Failed
<1>14. CASE UNCHANGED vars
  BY <1>14 DEF vars
<1> QED
  BY <1>1, <1>2, <1>3, <1>4, <1>5, <1>6, <1>7, <1>8, <1>9, <1>10, <1>11, <1>12,
     <1>13, <1>14 DEF Next

\* No data come from a later boot, and a boot has not revoked its own before the FSP
\* made them.
LEMMA NumberedStep ==
  ASSUME TypeInv, Numbered, [Next]_vars
  PROVE  Numbered'
<1> USE DEF Numbered
<1> USE DataFacts, NoneFacts
<1>0. /\ Lifetime /\ mode \in Modes /\ boots \in Nat /\ revoked \subseteq Data
      /\ store \in [Regions -> Data \cup {NoData, Invalid}]
      /\ cbmem \in [Types -> Data \cup {NoData}]
      /\ memory \in [Types -> Data \cup {NoData}]
      /\ given \in [Types -> Data \cup {NoData}]
      /\ \A d \in Data : d.id \in Int
  BY DEF TypeInv, TypeOK
<1> USE <1>0
<1>1. CASE Boot
  BY <1>1, BootEffect
<1>2. CASE Resume
  BY <1>2, ResumeEffect
<1>3. CASE FillMrcCache
  BY <1>3, LookupFacts, FillEffect DEF Found
<1>4. CASE FspMemoryInit
  BY <1>4, FreshFacts, FspEffect DEF Types
<1>5. CASE Stash
  BY <1>5, StashEffect
<1>6. ASSUME NEW t \in Types, UpToDate(t) PROVE Numbered'
  BY <1>6 DEF UpToDate, modeHistory, NextType
<1>7. ASSUME NEW t \in Types, UpdateFails(t) PROVE Numbered'
  BY <1>7 DEF UpdateFails, modeHistory, Failed, NextType
<1>8. ASSUME NEW t \in Types, Update(t) PROVE Numbered'
  BY <1>8 DEF Update, Updated, NextType
<1>9. CASE Invalidate
  BY <1>9 DEF Invalidate, modeHistory, Invalidated, Failed, Regions
<1>10. CASE Protect
  BY <1>10 DEF Protect, modeHistory
<1>11. CASE Suspend
  BY <1>11 DEF Suspend, modeHistory
<1>12. CASE FirmwareUpdate
  BY <1>12 DEF FirmwareUpdate, modeHistory
<1>13. CASE Reset
  BY <1>13 DEF Reset, modeHistory, PowerCycle, Failed
<1>14. CASE UNCHANGED vars
  BY <1>14 DEF vars
<1> QED
  BY <1>1, <1>2, <1>3, <1>4, <1>5, <1>6, <1>7, <1>8, <1>9, <1>10, <1>11, <1>12,
     <1>13, <1>14 DEF Next

\* Revoked data are nowhere from which the FSP could be given them again.
LEMMA RevokedStep ==
  ASSUME TypeInv, Resumed, Separate, Numbered, Revoked, [Next]_vars
  PROVE  Revoked'
<1> USE DEF Revoked, Spent, Barred, HasRecovery
<1> USE DataFacts, NoneFacts
<1>0. /\ Lifetime /\ mode \in Modes /\ boots \in Nat /\ revoked \subseteq Data
      /\ store \in [Regions -> Data \cup {NoData, Invalid}]
      /\ cbmem \in [Types -> Data \cup {NoData}]
      /\ memory \in [Types -> Data \cup {NoData}]
      /\ given \in [Types -> Data \cup {NoData}]
      /\ "training" \in Types /\ "normal" \in Regions /\ "recovery" \in Regions
  BY DEF TypeInv, TypeOK, Types, Regions
<1> USE <1>0
<1>1. CASE Boot
  BY <1>1, BootEffect
<1>2. CASE Resume
  BY <1>2, ResumeEffect
<1>3. CASE FillMrcCache
  BY <1>3, FillEffect DEF Found, MayUseCache, lookup_region_type
<1>4. CASE FspMemoryInit
  BY <1>4, FreshFacts, FspEffect DEF Numbered
<1>5. CASE Stash
  BY <1>5, StashEffect
<1>6. ASSUME NEW t \in Types, UpToDate(t) PROVE Revoked'
  BY <1>6 DEF UpToDate, modeHistory, NextType, Types
<1>7. ASSUME NEW t \in Types, UpdateFails(t) PROVE Revoked'
  BY <1>7 DEF UpdateFails, modeHistory, Failed, NextType, lookup_region_type, Types
<1>8. ASSUME NEW t \in Types, Update(t) PROVE Revoked'
  BY <1>8 DEF Update, Updated, NextType, lookup_region_type, Types
<1>9. CASE Invalidate
  <2>1. /\ pc = "invalidate" /\ pc' = "protect"
        /\ UNCHANGED <<config, mode, cbmem, given, memory, misfiled>>
    BY <1>9 DEF Invalidate, modeHistory
  <2>2. CASE revoked' = revoked /\ store' = store
    BY <2>1, <2>2
  <2>3. CASE \E d \in Failed("normal") :
               revoked' = revoked /\ store' = [store EXCEPT !["normal"] = d]
    BY <2>1, <2>3 DEF Failed
  <2>4. CASE /\ mode.recovery /\ mode.retrain /\ store' = Invalidated
             /\ revoked' = revoked \cup {d \in Data : d = store["normal"]}
    <3>1. store'["normal"] = Invalid /\ store'["recovery"] = store["recovery"]
      BY <2>4 DEF Invalidated
    <3>2. given'["training"] = NoData /\ mode.recovery \in BOOLEAN
      BY <2>1 DEF Lifetime, Modes
    <3>3. CASE ~HasRecovery
      BY <2>1, <2>4, <3>1, <3>2, <3>3
    <3>4. CASE HasRecovery
      <4>1. ~switched
        BY <2>1, <2>4 DEF Resumed, MayUseCache
      <4>2. \A d \in Barred' : d \in Barred \/ (d \in Data /\ d.recovery = FALSE)
        BY <2>1, <2>4, <3>4 DEF Separate
      <4>3. store["recovery"] \notin Barred'
        BY <2>1, <3>4, <4>2 DEF Separate
      <4>4. \A d \in {cbmem["training"], memory["training"]} : d \notin Barred'
        BY <2>1, <2>4, <3>4, <4>1, <4>2 DEF Separate, OfMode
      <4> QED
        BY <2>1, <2>4, <3>1, <3>2, <3>4, <4>2, <4>3, <4>4
    <3> QED
      BY <3>3, <3>4
  <2> QED
    BY <1>9, <2>2, <2>3, <2>4 DEF Invalidate, modeHistory
<1>10. CASE Protect
  BY <1>10 DEF Protect, modeHistory
<1>11. CASE Suspend
  BY <1>11 DEF Suspend, modeHistory
<1>12. CASE FirmwareUpdate
  BY <1>12 DEF FirmwareUpdate, modeHistory
<1>13. CASE Reset
  BY <1>13 DEF Reset, modeHistory, PowerCycle, Failed, lookup_region_type
<1>14. CASE UNCHANGED vars
  BY <1>14 DEF vars
<1> QED
  BY <1>1, <1>2, <1>3, <1>4, <1>5, <1>6, <1>7, <1>8, <1>9, <1>10, <1>11, <1>12,
     <1>13, <1>14 DEF Next

\* What a resume is given is the settings in memory: the region holds them, or the
\* hash in the TPM is theirs.
LEMMA ResumeFindsStep ==
  ASSUME TypeInv, Saved, ResumeFinds, [Next]_vars
  PROVE  ResumeFinds'
<1> USE DEF ResumeFinds
<1>0. mode \in Modes /\ "training" \in Types
  BY DEF TypeInv, TypeOK, Types
<1> USE <1>0
<1>1. CASE Boot
  BY <1>1, BootEffect
<1>2. CASE Resume
  BY <1>2, ResumeEffect
<1>3. CASE FillMrcCache
  BY <1>3, FillEffect, DataFacts DEF Found, Saved, Passed, Kept, Strayed, HasRecovery,
     mrc_cache_verify_hash
<1>4. CASE FspMemoryInit
  BY <1>4, FspEffect
<1>5. CASE Stash
  BY <1>5, StashEffect
<1>6. ASSUME NEW t \in Types, UpToDate(t) PROVE ResumeFinds'
  BY <1>6 DEF UpToDate, modeHistory, NextType
<1>7. ASSUME NEW t \in Types, UpdateFails(t) PROVE ResumeFinds'
  BY <1>7 DEF UpdateFails, modeHistory, NextType
<1>8. ASSUME NEW t \in Types, Update(t) PROVE ResumeFinds'
  BY <1>8 DEF Update, Updated, NextType
<1>9. CASE Invalidate
  BY <1>9 DEF Invalidate, modeHistory, Invalidated
<1>10. CASE Protect
  BY <1>10 DEF Protect, modeHistory
<1>11. CASE Suspend
  BY <1>11 DEF Suspend, modeHistory
<1>12. CASE FirmwareUpdate
  BY <1>12 DEF FirmwareUpdate, modeHistory
<1>13. CASE Reset
  BY <1>13 DEF Reset, modeHistory, PowerCycle
<1>14. CASE UNCHANGED vars
  BY <1>14 DEF vars
<1> QED
  BY <1>1, <1>2, <1>3, <1>4, <1>5, <1>6, <1>7, <1>8, <1>9, <1>10, <1>11, <1>12,
     <1>13, <1>14 DEF Next

-----------------------------------------------------------------------------
(* Theorems.                                                               *)

\* The first boot of a machine with an empty cache.
LEMMA InitInv == Init => Inv
<1> SUFFICES ASSUME Init PROVE Inv
  OBVIOUS
<1> USE DataFacts, NoneFacts
<1>1. TypeInv
  <2>1. TypesRest
    BY BoundsAssumption DEF Init, TypesRest, None
  <2>2. config \in Configs /\ mode \in Modes /\ switched \in BOOLEAN
    <3>1. FALSE \in BOOLEAN
      OBVIOUS
    <3> QED
      BY <3>1, Zenon DEF Init, Modes
  <2>3. Lifetime
    BY DEF Init, Lifetime, Saving
  <2> QED
    BY <2>1, <2>2, <2>3, Zenon DEF TypeInv, TypeOK, TypesRest
<1>2. Resumed /\ Separate /\ Versioned
  BY DEF Init, Resumed, Separate, Versioned, OfMode, Regions, Types
<1>3. Saved
  BY DEF Init, Saved, Passed, Pending
<1>4. Revoked
  BY DEF Init, Revoked, Barred, Regions, Types
<1>5. Numbered
  BY DEF Init, Numbered
<1>6. ResumeFinds
  BY DEF Init, ResumeFinds
<1> QED
  BY <1>1, <1>2, <1>3, <1>4, <1>5, <1>6 DEF Inv

\* The invariant holds in every state.
LEMMA SpecInv == Spec => []Inv
<1>1. Inv /\ [Next]_vars => Inv'
  BY TypeInvStep, ResumedStep, SeparateStep, VersionedStep, SavedStep, RevokedStep,
     NumberedStep, ResumeFindsStep DEF Inv
<1> QED
  BY InitInv, <1>1, PTL DEF Spec

\* Every region holds training data, the invalid mark or nothing, and the FSP
\* is only given whole data, however many boots, resumes and failures there were.
THEOREM CacheTypeCorrect == Spec => []TypeOK
<1>1. Inv => TypeOK
  BY DEF Inv, TypeInv
<1> QED
  BY SpecInv, <1>1, PTL

\* mrc_cache_get_current with lookup_region_type: the FSP is only given data of
\* its own version and, where there is a recovery cache, of the mode the machine
\* is in, whatever modes vboot finds: but for the data that a resume in the other
\* mode has written to the region of its own.
THEOREM GivenFits == Spec => []SettingsFit
<1>1. Inv => SettingsFit
  BY DEF Inv, Separate, Versioned, OfMode, HasRecovery, SettingsFit
<1> QED
  BY SpecInv, <1>1, PTL

\* fsp_fill_common_arch_params: a resume is given the settings of the sleeping
\* memory, unless ramstage knew that it had not saved them or the mode has
\* changed on a platform with a recovery cache.  With the hash of those settings
\* in the TPM, a resume in recovery mode is given no others even then.
THEOREM ResumeGivenMemory == Spec => []ResumeFinds
<1>1. Inv => ResumeFinds
  BY DEF Inv
<1> QED
  BY SpecInv, <1>1, PTL

\* invalidate_normal_cache: data that a retrain has revoked are never used again,
\* unless a resume in another mode than its boot had put them into both regions.
THEOREM RevokedStayRevoked == Spec => []RetrainHonoured
<1>1. Inv => RetrainHonoured
  BY DEF Inv, Revoked, Barred, RetrainHonoured
<1> QED
  BY SpecInv, <1>1, PTL
=============================================================================
