--------------------------- MODULE ConfigStoreProofs ---------------------------
(***************************************************************************)
(* Proofs about ConfigStore, for any set of threads, disks and inodes, if  *)
(* no save begins during another (ConfigStore_overlap.cfg shows what they  *)
(* do otherwise).  SaveInv says what the files hold at each step of a save *)
(* and at what every power failure may leave of them.                      *)
(***************************************************************************)
EXTENDS ConfigStore, TLAPS

WholeFiles == {<<c>> : c \in Configs}

\* One save at a time, of the config as it is.
AloneInv ==
    /\ \A v, w \in Writers : pc[v] # "idle" /\ pc[w] # "idle" => v = w
    /\ \A w \in Writers : pc[w] # "idle" => up /\ payload[w] = cfg

\* What a save has made of its tmp file, which is not yet config.json.
TmpInv ==
    /\ tmp \notin {config, durable}
    /\ \A w \in Writers :
         /\ pc[w] \in {"idle", "open", "replace"} => fd[w] = None
         /\ pc[w] \in {"write", "fsync"} => tmp # None /\ fd[w] = tmp
         /\ pc[w] = "write" => data[tmp] = Empty
         /\ pc[w] = "fsync" => data[tmp] = <<payload[w]>>
         /\ pc[w] = "replace" => /\ tmp # None
                                 /\ data[tmp] = <<payload[w]>>
                                 /\ outcomes[tmp] = {<<payload[w]>>}

\* The file in place, now and after a power failure.
FileInv ==
    /\ data[config] \in WholeFiles
    /\ outcomes[config] \subseteq WholeFiles
    /\ outcomes[durable] \subseteq WholeFiles
    /\ SavedIsCurrent

SaveInv == TypeOK /\ AloneInv /\ TmpInv /\ FileInv

-----------------------------------------------------------------------------
\* A file of one payload is whole, and says which it is.
LEMMA WholeFile ==
    \A f \in WholeFiles : f \in Seq(Configs) /\ Whole(f) /\ f[1] \in Configs
                         /\ f = <<f[1]>>
  <1> SUFFICES ASSUME NEW c \in Configs
               PROVE  /\ <<c>> \in Seq(Configs) /\ Len(<<c>>) = 1
                      /\ <<c>>[1] = c
    BY DEF WholeFiles, Whole
  <1> QED
    OBVIOUS

LEMMA PayloadFile ==
    \A c \in Configs : <<c>> \in WholeFiles /\ <<c>> \in Seq(Configs)
  BY DEF WholeFiles

\* What is written over an empty file is all there is in it.
LEMMA WrittenWhole ==
    ASSUME NEW c PROVE Overwritten(Empty, c) = <<c>>
  BY DEF Overwritten, Empty

LEMMA InitSave == Init => SaveInv
  <1> SUFFICES ASSUME Init PROVE SaveInv
    OBVIOUS
  <1> USE DEF Init
  <1>1. cfg \in Configs /\ <<cfg>> \in WholeFiles /\ <<cfg>> \in Seq(Configs)
    BY PayloadFile
  <1>2. Empty \in Seq(Configs)
    BY DEF Empty
  <1>3. data[config] = <<cfg>> /\ outcomes[config] = {<<cfg>>}
    OBVIOUS
  <1>4. TypeOK
    BY <1>1, <1>2 DEF TypeOK
  <1>5. TmpInv
    BY ConfigStoreAssumption DEF TmpInv
  <1> QED
    BY <1>1, <1>3, <1>4, <1>5 DEF SaveInv, AloneInv, FileInv, SavedIsCurrent

-----------------------------------------------------------------------------
\* The steps, one by one.
LEMMA ChangeStep ==
    ASSUME SaveInv, Overlaps = FALSE, NEW w \in Writers, NEW new \in Configs,
           Change(w, new, new)
    PROVE  SaveInv'
  <1> USE DEF SaveInv, Change, dirVars, fileVars
  <1>1. pc[w] = "idle" /\ \A o \in Writers : pc[o] = "idle"
    OBVIOUS
  <1>2. /\ pc \in [Writers -> {"idle", "open", "write", "fsync", "replace"}]
        /\ payload \in [Writers -> Configs \union {None}]
    BY DEF TypeOK
  <1>3. TypeOK'
    BY <1>2 DEF TypeOK
  <1>4. AloneInv'
    BY <1>1, <1>2 DEF AloneInv
  <1>5. TmpInv'
    BY <1>1, <1>2 DEF TmpInv
  <1>6. pc'[w] = "open"
    BY <1>2
  <1>7. FileInv'
    BY <1>6 DEF FileInv, SavedIsCurrent
  <1> QED
    BY <1>3, <1>4, <1>5, <1>7

LEMMA OpenTmpStep ==
    ASSUME SaveInv, NEW w \in Writers, OpenTmp(w)
    PROVE  SaveInv'
  <1> USE DEF SaveInv
  <1>1. pc[w] = "open" /\ UNCHANGED <<cfg, up, config, durable, payload, failed>>
    BY DEF OpenTmp
  <1>2. PICK i \in IF tmp = None THEN Free ELSE {tmp} :
          /\ tmp' = i
          /\ fd' = [fd EXCEPT ![w] = i]
          /\ data' = [data EXCEPT ![i] = Empty]
          /\ outcomes' = [outcomes EXCEPT ![i] =
               IF tmp = None THEN {Empty} ELSE @ \union {Empty}]
          /\ pc' = [pc EXCEPT ![w] = "write"]
    BY DEF OpenTmp
  <1>3. i \in Inodes /\ i \notin {config, durable} /\ i # None
    BY <1>2, ConfigStoreAssumption DEF Free, TypeOK, TmpInv
  <1>4. Empty \in Seq(Configs)
    BY DEF Empty
  <1>5. \A v \in Writers : v # w => pc[v] = "idle" /\ pc'[v] = "idle"
    BY <1>1, <1>2 DEF AloneInv, TypeOK
  <1>6. pc'[w] = "write" /\ fd'[w] = i /\ data'[i] = Empty
    BY <1>2, <1>3 DEF TypeOK
  <1>7. /\ data'[config] = data[config]
        /\ outcomes'[config] = outcomes[config]
        /\ outcomes'[durable] = outcomes[durable]
    BY <1>2, <1>3 DEF TypeOK
  <1>8. outcomes' \in [Inodes -> SUBSET Seq(Configs)]
    BY <1>2, <1>3, <1>4 DEF TypeOK
  <1>9. TypeOK'
    BY <1>1, <1>2, <1>3, <1>4, <1>8 DEF TypeOK
  <1>10. AloneInv'
    BY <1>1, <1>5, <1>6 DEF AloneInv
  <1>11. TmpInv'
    BY <1>1, <1>2, <1>3, <1>5, <1>6 DEF TmpInv, TypeOK
  <1>12. FileInv'
    BY <1>1, <1>6, <1>7 DEF FileInv, SavedIsCurrent
  <1> QED
    BY <1>9, <1>10, <1>11, <1>12

LEMMA WritePayloadStep ==
    ASSUME SaveInv, NEW w \in Writers, WritePayload(w)
    PROVE  SaveInv'
  <1> USE DEF SaveInv
  <1>1. pc[w] = "write" /\ UNCHANGED <<cfg, up, dirVars, payload, fd, failed>>
    BY DEF WritePayload
  <1>2. fd[w] = tmp /\ tmp # None /\ data[tmp] = Empty /\ payload[w] = cfg
    BY <1>1 DEF TmpInv, AloneInv
  <1>3. tmp \in Inodes /\ tmp \notin {config, durable} /\ cfg \in Configs
    BY <1>2 DEF TypeOK, TmpInv
  <1>4. Overwritten(data[fd[w]], payload[w]) = <<cfg>>
    BY <1>2, WrittenWhole
  <1>5. /\ data' = [data EXCEPT ![tmp] = <<cfg>>]
        /\ outcomes' = [outcomes EXCEPT ![tmp] = @ \union {<<cfg>>}]
        /\ pc' = [pc EXCEPT ![w] = "fsync"]
    BY <1>2, <1>4 DEF WritePayload
  <1>6. <<cfg>> \in Seq(Configs)
    BY <1>3, PayloadFile
  <1>7. \A v \in Writers : v # w => pc[v] = "idle" /\ pc'[v] = "idle"
    BY <1>1, <1>5 DEF AloneInv, TypeOK
  <1>8. pc'[w] = "fsync" /\ data'[tmp] = <<cfg>>
    BY <1>3, <1>5 DEF TypeOK
  <1>9. /\ data'[config] = data[config]
        /\ outcomes'[config] = outcomes[config]
        /\ outcomes'[durable] = outcomes[durable]
    BY <1>3, <1>5 DEF TypeOK
  <1>10. outcomes' \in [Inodes -> SUBSET Seq(Configs)]
    BY <1>3, <1>5, <1>6 DEF TypeOK
  <1>11. TypeOK'
    BY <1>1, <1>3, <1>5, <1>6, <1>10 DEF TypeOK, dirVars
  <1>12. AloneInv'
    BY <1>1, <1>2, <1>7, <1>8 DEF AloneInv
  <1>13. TmpInv'
    BY <1>1, <1>2, <1>7, <1>8 DEF TmpInv, dirVars
  <1>14. FileInv'
    BY <1>1, <1>8, <1>9 DEF FileInv, SavedIsCurrent, dirVars
  <1> QED
    BY <1>11, <1>12, <1>13, <1>14

LEMMA FsyncStep ==
    ASSUME SaveInv, NEW w \in Writers, Fsync(w)
    PROVE  SaveInv'
  <1> USE DEF SaveInv
  <1>1. pc[w] = "fsync" /\ UNCHANGED <<cfg, up, dirVars, data, payload, failed>>
    BY DEF Fsync
  <1>2. fd[w] = tmp /\ tmp # None /\ data[tmp] = <<payload[w]>>
    BY <1>1 DEF TmpInv
  <1>3. tmp \in Inodes /\ tmp \notin {config, durable}
    BY <1>2 DEF TypeOK, TmpInv
  <1>4. /\ outcomes' = [outcomes EXCEPT ![tmp] = {data[tmp]}]
        /\ fd' = [fd EXCEPT ![w] = None]
        /\ pc' = [pc EXCEPT ![w] = "replace"]
    BY <1>2 DEF Fsync
  <1>5. \A v \in Writers : v # w => pc[v] = "idle" /\ pc'[v] = "idle"
    BY <1>1, <1>4 DEF AloneInv, TypeOK
  <1>6. pc'[w] = "replace" /\ fd'[w] = None /\ outcomes'[tmp] = {data[tmp]}
    BY <1>3, <1>4 DEF TypeOK
  <1>7. /\ outcomes'[config] = outcomes[config]
        /\ outcomes'[durable] = outcomes[durable]
    BY <1>3, <1>4 DEF TypeOK
  <1>8. data[tmp] \in Seq(Configs)
    BY <1>3 DEF TypeOK
  <1>9. outcomes' \in [Inodes -> SUBSET Seq(Configs)]
    BY <1>3, <1>4, <1>8 DEF TypeOK
  <1>10. TypeOK'
    BY <1>1, <1>4, <1>9 DEF TypeOK, dirVars
  <1>11. AloneInv'
    BY <1>1, <1>5, <1>6 DEF AloneInv
  <1>12. \A v \in Writers : v # w => fd'[v] = None
    BY <1>4, <1>5 DEF TmpInv, TypeOK
  <1>13. TmpInv'
    BY <1>1, <1>2, <1>5, <1>6, <1>12 DEF TmpInv, dirVars
  <1>14. FileInv'
    BY <1>1, <1>6, <1>7 DEF FileInv, SavedIsCurrent, dirVars
  <1> QED
    BY <1>10, <1>11, <1>13, <1>14

\* What Keep leaves alone, and that it loses no type.
LEMMA Kept ==
    ASSUME TypeOK, NEW inodes, Keep(inodes)
    PROVE  /\ data' \in [Inodes -> Seq(Configs)]
           /\ outcomes' \in [Inodes -> SUBSET Seq(Configs)]
           /\ \A i \in Inodes \intersect inodes :
                data'[i] = data[i] /\ outcomes'[i] = outcomes[i]
  <1>1. Empty \in Seq(Configs)
    BY DEF Empty
  <1> QED
    BY <1>1 DEF TypeOK, Keep

LEMMA ReplaceStep ==
    ASSUME SaveInv, NEW w \in Writers, Replace(w)
    PROVE  SaveInv'
  <1> USE DEF SaveInv
  <1>1. /\ pc[w] = "replace"
        /\ pc' = [pc EXCEPT ![w] = "idle"]
        /\ payload' = [payload EXCEPT ![w] = None]
        /\ UNCHANGED <<cfg, up, fd>>
    BY DEF Replace
  <1>2. /\ tmp # None /\ data[tmp] = <<cfg>> /\ outcomes[tmp] = {<<cfg>>}
        /\ payload[w] = cfg
    BY <1>1 DEF TmpInv, AloneInv
  <1>3. tmp \in Inodes /\ config \in Inodes /\ cfg \in Configs
    BY <1>2 DEF TypeOK
  <1>4. /\ failed' = FALSE /\ config' = tmp /\ tmp' = None /\ durable' = config
        /\ Keep({tmp, config} \union OpenFiles)
    BY <1>2 DEF Replace
  <1>5. /\ data' \in [Inodes -> Seq(Configs)]
        /\ outcomes' \in [Inodes -> SUBSET Seq(Configs)]
        /\ data'[tmp] = <<cfg>> /\ outcomes'[tmp] = {<<cfg>>}
        /\ outcomes'[config] = outcomes[config]
    BY <1>2, <1>3, <1>4, Kept
  <1>6. \A v \in Writers : pc'[v] = "idle" /\ fd'[v] = None
    BY <1>1 DEF AloneInv, TmpInv, TypeOK
  <1>7. TypeOK'
    BY <1>1, <1>3, <1>4, <1>5 DEF TypeOK
  <1>8. AloneInv' /\ TmpInv'
    BY <1>3, <1>4, <1>6, ConfigStoreAssumption DEF AloneInv, TmpInv
  <1>9. <<cfg>> \in WholeFiles
    BY <1>3, PayloadFile
  <1>10. FileInv'
    BY <1>1, <1>4, <1>5, <1>9 DEF FileInv, SavedIsCurrent
  <1> QED
    BY <1>7, <1>8, <1>10

LEMMA SaveFailsStep ==
    ASSUME SaveInv, NEW w \in Writers, SaveFails(w)
    PROVE  SaveInv'
  <1> USE DEF SaveInv, SaveFails, dirVars, fileVars
  <1>1. \A v \in Writers : pc'[v] = "idle" /\ fd'[v] = None
    BY DEF AloneInv, TmpInv, TypeOK
  <1>2. TypeOK'
    BY DEF TypeOK
  <1>3. AloneInv' /\ TmpInv'
    BY <1>1 DEF AloneInv, TmpInv
  <1>4. FileInv'
    BY DEF FileInv, SavedIsCurrent
  <1> QED
    BY <1>2, <1>3, <1>4

LEMMA CommitDirectoryStep ==
    ASSUME SaveInv, CommitDirectory
    PROVE  SaveInv'
  <1> USE DEF SaveInv
  <1>1. durable' = config /\ Keep({config, tmp} \union OpenFiles)
        /\ UNCHANGED <<cfg, up, config, tmp, pc, payload, fd, failed>>
    BY DEF CommitDirectory, saveVars
  <1>2. config \in Inodes /\ (tmp # None => tmp \in Inodes)
    BY DEF TypeOK
  <1>3. /\ data' \in [Inodes -> Seq(Configs)]
        /\ outcomes' \in [Inodes -> SUBSET Seq(Configs)]
        /\ data'[config] = data[config] /\ outcomes'[config] = outcomes[config]
        /\ tmp # None => data'[tmp] = data[tmp] /\ outcomes'[tmp] = outcomes[tmp]
    BY <1>1, <1>2, Kept
  <1>4. TypeOK'
    BY <1>1, <1>3 DEF TypeOK
  <1>5. AloneInv'
    BY <1>1 DEF AloneInv
  <1>6. TmpInv'
    BY <1>1, <1>3 DEF TmpInv
  <1>7. FileInv'
    BY <1>1, <1>3 DEF FileInv, SavedIsCurrent
  <1> QED
    BY <1>4, <1>5, <1>6, <1>7

\* What the end of the process leaves of its saves: nothing.
LEMMA Stopped ==
    ASSUME SaveInv, Stop
    PROVE  /\ AloneInv' /\ SavedIsCurrent'
           /\ pc' \in [Writers -> {"idle"}] /\ fd' \in [Writers -> {None}]
           /\ payload' \in [Writers -> {None}]
           /\ cfg' \in Configs /\ up' \in BOOLEAN /\ failed' \in BOOLEAN
  BY DEF SaveInv, TypeOK, Stop, AloneInv, SavedIsCurrent

LEMMA KillStep ==
    ASSUME SaveInv, Kill
    PROVE  SaveInv'
  <1> USE DEF SaveInv
  <1>1. Stop /\ Keep({config, tmp, durable})
        /\ UNCHANGED <<config, tmp, durable>>
    BY DEF Kill, dirVars
  <1>2. config \in Inodes /\ durable \in Inodes
    BY DEF TypeOK
  <1>3. /\ data' \in [Inodes -> Seq(Configs)]
        /\ outcomes' \in [Inodes -> SUBSET Seq(Configs)]
        /\ data'[config] = data[config] /\ outcomes'[config] = outcomes[config]
        /\ outcomes'[durable] = outcomes[durable]
    BY <1>1, <1>2, Kept
  <1>4. TypeOK'
    BY <1>1, <1>3, Stopped DEF TypeOK
  <1>5. TmpInv'
    BY <1>1, Stopped DEF TmpInv
  <1>6. FileInv'
    BY <1>1, <1>3, Stopped DEF FileInv
  <1> QED
    BY <1>1, <1>4, <1>5, <1>6, Stopped

LEMMA PowerFailureStep ==
    ASSUME SaveInv, PowerFailure
    PROVE  SaveInv'
  <1> USE DEF SaveInv
  <1>1. Stop
    BY DEF PowerFailure
  <1>2. PICK i \in {config, durable} :
          /\ config' = i /\ durable' = i /\ tmp' = None
          /\ \E contents \in outcomes[i] :
               data' = [[n \in Inodes |-> Empty] EXCEPT ![i] = contents]
    BY DEF PowerFailure
  <1>3. PICK contents \in outcomes[i] :
          data' = [[n \in Inodes |-> Empty] EXCEPT ![i] = contents]
    BY <1>2
  <1>4. i \in Inodes /\ contents \in WholeFiles
    BY <1>2, <1>3 DEF TypeOK, FileInv
  <1>5. contents \in Seq(Configs) /\ Empty \in Seq(Configs)
    BY <1>4, WholeFile DEF Empty
  <1>6. data' \in [Inodes -> Seq(Configs)] /\ data'[i] = contents
    BY <1>3, <1>4, <1>5
  <1>7. outcomes' = [n \in Inodes |-> {data'[n]}]
    BY DEF PowerFailure
  <1>8. outcomes' \in [Inodes -> SUBSET Seq(Configs)] /\ outcomes'[i] = {contents}
    BY <1>4, <1>6, <1>7
  <1>9. TypeOK'
    BY <1>1, <1>2, <1>4, <1>6, <1>8, Stopped DEF TypeOK
  <1>10. TmpInv'
    BY <1>1, <1>2, <1>4, Stopped, ConfigStoreAssumption DEF TmpInv
  <1>11. FileInv'
    BY <1>1, <1>2, <1>4, <1>6, <1>8, Stopped DEF FileInv
  <1> QED
    BY <1>1, <1>9, <1>10, <1>11, Stopped

LEMMA LoadStep ==
    ASSUME SaveInv, Load
    PROVE  SaveInv'
  <1> USE DEF SaveInv
  <1>1. ~up /\ up' = TRUE
        /\ UNCHANGED <<config, tmp, durable, data, outcomes, pc, payload, fd, failed>>
    BY DEF Load, dirVars, fileVars, saveVars
  <1>2. \A w \in Writers : pc[w] = "idle"
    BY <1>1 DEF AloneInv, TypeOK
  <1>3. data[config] \in WholeFiles
    BY DEF FileInv
  <1>4. cfg' = data[config][1] /\ cfg' \in Configs /\ data[config] = <<cfg'>>
    BY <1>3, WholeFile DEF Load
  <1>5. TypeOK'
    BY <1>1, <1>4 DEF TypeOK
  <1>6. AloneInv' /\ TmpInv'
    BY <1>1, <1>2 DEF AloneInv, TmpInv
  <1>7. FileInv'
    BY <1>1, <1>4 DEF FileInv, SavedIsCurrent
  <1> QED
    BY <1>5, <1>6, <1>7

-----------------------------------------------------------------------------
LEMMA NextSave ==
    ASSUME SaveInv, Overlaps = FALSE, [Next]_vars
    PROVE  SaveInv'
  <1>1. cfg \in Configs /\ Loop \in Writers /\ Threads \subseteq Writers
    BY DEF SaveInv, TypeOK, Writers
  <1>2. ASSUME NEW d \in Disks \union {None}, PersistLastMounted(d)
        PROVE  SaveInv'
    <2>1. [cfg EXCEPT !.mounted = d] \in Configs
      BY <1>1 DEF Configs
    <2> QED
      BY <1>1, <1>2, <2>1, ChangeStep DEF PersistLastMounted
  <1>3. ASSUME NEW t \in Threads, NEW v \in Volumes, PersistAudioChange(t, v)
        PROVE  SaveInv'
    <2>1. [cfg EXCEPT !.volume = v] \in Configs
      BY <1>1 DEF Configs
    <2> QED
      BY <1>1, <1>3, <2>1, ChangeStep DEF PersistAudioChange
  <1>4. ASSUME NEW w \in Writers, SaveStep(w)
        PROVE  SaveInv'
    BY <1>4, OpenTmpStep, WritePayloadStep, FsyncStep, ReplaceStep,
       SaveFailsStep DEF SaveStep
  <1>5. CASE UNCHANGED vars
    BY <1>5 DEF vars, dirVars, fileVars, saveVars, SaveInv, TypeOK, AloneInv,
                TmpInv, FileInv, SavedIsCurrent
  <1> QED
    BY <1>2, <1>3, <1>4, <1>5, CommitDirectoryStep, KillStep,
       PowerFailureStep, LoadStep DEF Next

LEMMA SaveAlways == Overlaps = FALSE /\ Spec => []SaveInv
  <1> SUFFICES ASSUME Overlaps = FALSE
               PROVE  Spec => []SaveInv
    OBVIOUS
  <1>1. SaveInv /\ [Next]_vars => SaveInv'
    BY NextSave
  <1> QED
    BY <1>1, InitSave, PTL DEF Spec

-----------------------------------------------------------------------------
(* config.json is never partial (save_config writes a tmp file, syncs it   *)
(* and renames it): neither as it is nor as a power failure may leave it.  *)
THEOREM NeverPartialHolds == Overlaps = FALSE /\ Spec => []NeverPartial
  <1>1. SaveInv => NeverPartial
    <2> SUFFICES ASSUME SaveInv PROVE NeverPartial
      OBVIOUS
    <2>1. \A f \in WholeFiles : Whole(f)
      BY WholeFile
    <2> QED
      BY <2>1 DEF SaveInv, FileInv, NeverPartial
  <1> QED
    BY <1>1, SaveAlways, PTL

(* With no save in progress and none failed, config.json holds the Config  *)
(* object: a restart after any history of failures changes nothing.        *)
THEOREM SavedIsCurrentHolds == Overlaps = FALSE /\ Spec => []SavedIsCurrent
  <1>1. SaveInv => SavedIsCurrent
    BY DEF SaveInv, FileInv
  <1> QED
    BY <1>1, SaveAlways, PTL
================================================================================
