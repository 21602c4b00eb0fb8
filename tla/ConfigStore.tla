------------------------------ MODULE ConfigStore ------------------------------
(***************************************************************************)
(* config.json: save_config as the file system sees it, called by the      *)
(* event loop after every mount and eject and by the web threads after a   *)
(* change of volume, mute or buzzer; load_config at the next start; kills  *)
(* and power failures in between.                                          *)
(*                                                                         *)
(* A payload is the config it serialises.  A config without a mounted disk *)
(* has the shorter payload ("null").  A file is the sequence of payloads   *)
(* that show in it: none when it is empty, two when it is torn, one with   *)
(* the end of a longer one behind it.                                      *)
(***************************************************************************)
EXTENDS Naturals, Sequences

CONSTANTS
    Disks,      \* what can be mounted
    Volumes,    \* the other settings, represented by the volume
    None,       \* nothing mounted, no file
    Loop,       \* the event loop
    Threads,    \* the web threads that save settings
    Inodes,     \* of the file system
    Overlaps    \* whether one may begin a save during another's

Writers == {Loop} \union Threads

ASSUME ConfigStoreAssumption ==
    /\ Loop \notin Threads
    /\ None \notin Disks /\ None \notin Inodes
    /\ Volumes # {}
    /\ Overlaps \in BOOLEAN

VARIABLES
    cfg,        \* the Config object the writers share
    up,         \* the service is running
    config, tmp,    \* the inodes of config.json and of config.json.tmp
    durable,        \* the inode config.json has if the power fails now, or config's
    data,       \* what each inode holds
    outcomes,   \* what it may hold after a power failure
    pc,         \* the writers, in save_config
    payload,    \* what they are to write
    fd,         \* the inode they have open
    failed      \* the last save ended in an OSError

dirVars  == <<config, tmp, durable>>
fileVars == <<data, outcomes>>
saveVars == <<pc, payload, fd>>
vars == <<cfg, up, dirVars, fileVars, saveVars, failed>>

Configs == [mounted : Disks \union {None}, volume : Volumes]
Whole(contents) == Len(contents) = 1
Empty == <<>>

TypeOK ==
    /\ cfg \in Configs /\ up \in BOOLEAN
    /\ config \in Inodes /\ durable \in Inodes
    /\ tmp \in Inodes \union {None}
    /\ data \in [Inodes -> Seq(Configs)]
    /\ outcomes \in [Inodes -> SUBSET Seq(Configs)]
    /\ pc \in [Writers -> {"idle", "open", "write", "fsync", "replace"}]
    /\ payload \in [Writers -> Configs \union {None}]
    /\ fd \in [Writers -> Inodes \union {None}]
    /\ failed \in BOOLEAN

\* install.sh has written a config.
Init ==
    /\ cfg \in {c \in Configs : c.mounted = None}
    /\ up = TRUE
    /\ config \in Inodes /\ durable = config /\ tmp = None
    /\ data = [i \in Inodes |-> IF i = config THEN <<cfg>> ELSE Empty]
    /\ outcomes = [i \in Inodes |-> {data[i]}]
    /\ pc = [w \in Writers |-> "idle"]
    /\ payload = [w \in Writers |-> None]
    /\ fd = [w \in Writers |-> None]
    /\ failed = FALSE

-----------------------------------------------------------------------------
Free == Inodes \ ({config, tmp, durable} \union {fd[w] : w \in Writers})

\* A save begins: a field of the shared Config, then a snapshot of it.
Change(w, new, snapshot) ==
    /\ up /\ pc[w] = "idle"
    /\ Overlaps \/ \A o \in Writers : pc[o] = "idle"
    /\ cfg' = new
    /\ payload' = [payload EXCEPT ![w] = snapshot]
    /\ pc' = [pc EXCEPT ![w] = "open"]
    /\ UNCHANGED <<up, dirVars, fileVars, fd, failed>>

PersistOldConfig(d) == Change(Loop, [cfg EXCEPT !.mounted = d], cfg)

\* _persist_last_mounted
PersistLastMounted(d) ==
    LET new == [cfg EXCEPT !.mounted = d] IN Change(Loop, new, new)

\* _persist_audio_change
PersistAudioChange(t, v) ==
    LET new == [cfg EXCEPT !.volume = v] IN Change(t, new, new)

\* open(tmp, "w"): a new file, or the one there is, truncated.
OpenTmp(w) ==
    /\ pc[w] = "open"
    /\ pc' = [pc EXCEPT ![w] = "write"]
    /\ \E i \in IF tmp = None THEN Free ELSE {tmp} :
         /\ tmp' = i
         /\ fd' = [fd EXCEPT ![w] = i]
         /\ data' = [data EXCEPT ![i] = Empty]
         /\ outcomes' = [outcomes EXCEPT ![i] =
              IF tmp = None THEN {Empty} ELSE @ \union {Empty}]
    /\ UNCHANGED <<cfg, up, config, durable, payload, failed>>

Shorter(c, d) == c.mounted = None /\ d.mounted # None

\* A payload written over what a file holds, from its beginning.
Overwritten(old, new) ==
    IF old # Empty /\ Shorter(new, old[Len(old)])
    THEN <<new, old[Len(old)]>> ELSE <<new>>

\* f.write and f.flush: one write() of the whole payload.
WritePayload(w) ==
    /\ pc[w] = "write"
    /\ pc' = [pc EXCEPT ![w] = "fsync"]
    /\ LET new == Overwritten(data[fd[w]], payload[w]) IN
         /\ data' = [data EXCEPT ![fd[w]] = new]
         /\ outcomes' = [outcomes EXCEPT ![fd[w]] = @ \union {new}]
    /\ UNCHANGED <<cfg, up, dirVars, payload, fd, failed>>

FsyncForgotten(w) ==
    /\ pc[w] = "fsync"
    /\ pc' = [pc EXCEPT ![w] = "replace"]
    /\ fd' = [fd EXCEPT ![w] = None]
    /\ UNCHANGED <<cfg, up, dirVars, fileVars, payload, failed>>

\* os.fsync, and the end of the with block.
Fsync(w) ==
    /\ pc[w] = "fsync"
    /\ pc' = [pc EXCEPT ![w] = "replace"]
    /\ outcomes' = [outcomes EXCEPT ![fd[w]] = {data[fd[w]]}]
    /\ fd' = [fd EXCEPT ![w] = None]
    /\ UNCHANGED <<cfg, up, dirVars, data, payload, failed>>

\* What no name and no open file leads to is gone.
Keep(inodes) ==
    /\ data' = [i \in Inodes |-> IF i \in inodes THEN data[i] ELSE Empty]
    /\ outcomes' = [i \in Inodes |->
                      IF i \in inodes THEN outcomes[i] ELSE {Empty}]

OpenFiles == {fd[w] : w \in Writers}

\* os.replace.  An OSError is logged: another writer has replaced the file.
Replace(w) ==
    /\ pc[w] = "replace"
    /\ pc' = [pc EXCEPT ![w] = "idle"]
    /\ payload' = [payload EXCEPT ![w] = None]
    /\ failed' = (tmp = None)
    /\ IF tmp = None THEN UNCHANGED <<dirVars, fileVars>>
       ELSE /\ config' = tmp /\ tmp' = None /\ durable' = config
            /\ Keep({tmp, config} \union OpenFiles)
    /\ UNCHANGED <<cfg, up, fd>>

\* open, write or fsync raise OSError, which the caller logs.
SaveFails(w) ==
    /\ pc[w] \in {"open", "write", "fsync"}
    /\ pc' = [pc EXCEPT ![w] = "idle"]
    /\ payload' = [payload EXCEPT ![w] = None]
    /\ fd' = [fd EXCEPT ![w] = None]
    /\ failed' = TRUE
    /\ UNCHANGED <<cfg, up, dirVars, fileVars>>

\* The file system writes its directory out in its own time.
CommitDirectory ==
    /\ durable # config
    /\ durable' = config
    /\ Keep({config, tmp} \union OpenFiles)
    /\ UNCHANGED <<cfg, up, config, tmp, saveVars, failed>>

Stop ==
    /\ up /\ up' = FALSE
    /\ pc' = [w \in Writers |-> "idle"]
    /\ payload' = [w \in Writers |-> None]
    /\ fd' = [w \in Writers |-> None]
    /\ failed' = FALSE
    /\ UNCHANGED cfg

Kill ==
    /\ Stop
    /\ Keep({config, tmp, durable})
    /\ UNCHANGED dirVars

PowerFailure ==
    /\ Stop
    /\ \E i \in {config, durable} :
         /\ config' = i /\ durable' = i /\ tmp' = None
         /\ \E contents \in outcomes[i] :
              data' = [[n \in Inodes |-> Empty] EXCEPT ![i] = contents]
    /\ outcomes' = [i \in Inodes |-> {data'[i]}]

Default == [mounted |-> None, volume |-> CHOOSE v \in Volumes : TRUE]

\* load_config.
Load ==
    /\ ~up /\ up' = TRUE
    /\ cfg' = IF Whole(data[config]) THEN data[config][1] ELSE Default
    /\ UNCHANGED <<dirVars, fileVars, saveVars, failed>>

SaveStep(w) ==
    OpenTmp(w) \/ WritePayload(w) \/ Fsync(w) \/ Replace(w) \/ SaveFails(w)

Next ==
    \/ \E d \in Disks \union {None} : PersistLastMounted(d)
    \/ \E t \in Threads, v \in Volumes : PersistAudioChange(t, v)
    \/ \E w \in Writers : SaveStep(w)
    \/ CommitDirectory \/ Kill \/ PowerFailure \/ Load

Spec == Init /\ [][Next]_vars

-----------------------------------------------------------------------------
(* test_config.py:57: config.json is never partial, wherever in a save the *)
(* service is killed or the power fails.  Saves that overlap share the tmp *)
(* file, and break it.                                                     *)
NeverPartial ==
    /\ Whole(data[config])
    /\ \A i \in {config, durable} : \A c \in outcomes[i] : Whole(c)

(* When no save is in progress the file holds the config that the service  *)
(* shows, unless the last save failed: after whatever failures, kills and  *)
(* power failures, and with a tmp file they may have left, a restart of    *)
(* the service changes nothing.  The file is the one the directory leads   *)
(* to in memory: save_config does not fsync the directory (config.py:60),  *)
(* and a power failure may bring the file before it back, whole.           *)
SavedIsCurrent ==
    up /\ ~failed /\ (\A w \in Writers : pc[w] = "idle") => data[config] = <<cfg>>
================================================================================
