-------------------------- MODULE FloppyLunProofs --------------------------
(***************************************************************************)
(* Proofs about FloppyLun, for any set of image files, of userspace        *)
(* threads and of commands.  LockInv ties the program counters to filesem; *)
(* the other conjuncts rest on it, and TellInv follows a change of the     *)
(* medium from the store that makes it to the host that must learn of it.  *)
(***************************************************************************)
EXTENDS FloppyLun, TLAPS

\* Who holds filesem is where it is in its program, and only one can write.
LockInv ==
    /\ Kthread \in semReaders <=> kpc \in {"check", "execute", "ejectUp", "up"}
    /\ Kthread \in semWriter <=>
         kpc \in {"ejectClose", "ejectUpWrite", "exitClose", "exitUp"}
    /\ \A u \in Writers :
         /\ u \in semReaders <=> pc[u] \in {"setRo", "upRead"}
         /\ u \in semWriter <=> pc[u] \in {"open", "assign", "notify", "up"}
    /\ \A s, t \in semWriter : s = t

\* The kthread is between the acceptance of a command and its CSW.
Working == {"down", "check", "execute", "ejectUp", "ejectDown", "ejectClose",
            "ejectUpWrite", "ejectDownRead", "up", "finish", "status"}

\* A command is done and its status has not been sent.
StatusDue ==
    \/ kpc \in {"up", "finish", "status"}
    \/ kpc = "idle" /\ state = "ABORT_BULK_OUT"

CommandInv ==
    /\ kpc \in Working \/ (kpc = "idle" /\ state = "ABORT_BULK_OUT")
         => cmnd \in Commands
    /\ state = "ABORT_BULK_OUT" => kpc = "idle"
    /\ kpc \in {"exitDown", "exitClose", "exitUp", "dead"}
         => state = "TERMINATED"
    /\ kpc \in {"ejectUp", "ejectDown", "ejectClose", "ejectUpWrite",
                "ejectDownRead"} => cmnd = "EJECT"
    /\ kpc \in {"down", "check", "execute"} => served = NoFile
    /\ served # NoFile => cmnd \in {"READ", "WRITE"}
    /\ state \notin {"NORMAL", "ABORT_BULK_OUT"}
         => hostView = NoFile /\ hostAsk = FALSE
    /\ hostAsk => cmnd \in {"NONE", "REQUEST_SENSE"}
    /\ cmnd = "REQUEST_SENSE" /\ StatusDue => sense_data = "NO_SENSE"
    /\ kpc = "execute" /\ cmnd \notin {"INQUIRY", "REQUEST_SENSE"}
         => unit_attention_data = "NO_SENSE"

\* A store has swapped the medium or left its unit attention for it.
NoticeLeft ==
    \/ unit_attention_data # "NO_SENSE"
    \/ \E u \in Writers : pc[u] = "notify"

\* The notice has become sense data that the host is going to see.
NoticeOnItsWay ==
    \/ sense_data \in MediumSense
       /\ (hostAsk \/ (StatusDue /\ cmnd # "REQUEST_SENSE"))
    \/ answer \in MediumSense /\ cmnd = "REQUEST_SENSE"
       /\ kpc \in {"up", "finish", "status"}

\* The three safety invariants that are inductive once LockInv is known.
MediumInv ==
    /\ DoorHoldsForLaterStores
    /\ ReadOnlyAsOpened
    /\ MediumHeldDuringCommand

TellInv ==
    /\ IsOpen /\ hostView \notin {NoFile, filp} => NoticeLeft \/ NoticeOnItsWay
    /\ IsOpen /\ served \notin {NoFile, filp} /\ StatusDue => NoticeLeft

-----------------------------------------------------------------------------
(* Every step of the kthread, the host and userspace keeps every variable  *)
(* within its type, and never lets readers and a writer into filesem.      *)
LEMMA TypeStep == ASSUME TypeOK, [Next]_vars PROVE TypeOK'
<1> USE FloppyLunAssumption
    DEF TypeOK, vars, lunVars, scsiVars, semVars, cmdVars, userVars, hostVars,
        Commands, MediumSense, Sense, States, KPcs, Pcs, KStep, UStep,
        NoCommand, DownRead, UpRead, DownWrite, UpWrite, PastCheck,
        RaiseException, ClearedSense
<1>1. CASE CommandDownRead
  BY <1>1 DEF CommandDownRead
<1>2. CASE ReportUnitAttention
  BY <1>2 DEF ReportUnitAttention
<1>3. CASE ReportNoMedium
  BY <1>3 DEF ReportNoMedium
<1>4. CASE AcceptCommand
  BY <1>4 DEF AcceptCommand
<1>5. CASE DoNothing
  BY <1>5 DEF DoNothing
<1>6. CASE DoRequestSense
  BY <1>6 DEF DoRequestSense
<1>7. CASE DoRead
  BY <1>7 DEF DoRead
<1>8. CASE DoWrite
  BY <1>8 DEF DoWrite
<1>9. CASE DoPreventAllow
  BY <1>9 DEF DoPreventAllow
<1>10. CASE DoStartStop
  BY <1>10 DEF DoStartStop
<1>11. CASE EjectLocking
  BY <1>11 DEF EjectLocking
<1>12. CASE EjectClose
  BY <1>12 DEF EjectClose
<1>13. CASE CommandUpRead
  BY <1>13 DEF CommandUpRead
<1>14. CASE FinishReply
  BY <1>14 DEF FinishReply
<1>15. CASE SendStatus
  <2>1. hostAsk' \in BOOLEAN
    BY <1>15, Zenon DEF SendStatus
  <2> QED
    BY <1>15, <2>1 DEF SendStatus
<1>16. CASE Interrupted
  BY <1>16 DEF Interrupted
<1>17. CASE HandleException
  <2>1. prevent_medium_removal' \in BOOLEAN
    BY <1>17, Zenon DEF HandleException
  <2> QED
    BY <1>17, <2>1 DEF HandleException
<1>18. CASE DoSetInterface
  BY <1>18 DEF DoSetInterface
<1>19. CASE ExitThread
  BY <1>19 DEF ExitThread
<1>20. CASE BulkReset
  <2>1. hostAsk' \in BOOLEAN
    BY <1>20, Zenon DEF BulkReset
  <2> QED
    BY <1>20, <2>1 DEF BulkReset
<1>21. CASE SetAlt
  <2>1. hostAsk' \in BOOLEAN
    BY <1>21, Zenon DEF SetAlt
  <2> QED
    BY <1>21, <2>1 DEF SetAlt
<1>22. CASE KillThread
  <2>1. hostAsk' \in BOOLEAN
    BY <1>22, Zenon DEF KillThread
  <2> QED
    BY <1>22, <2>1 DEF KillThread
<1>23. ASSUME NEW c \in HostCommands, ReceivedCbw(c) PROVE TypeOK'
  BY <1>23 DEF ReceivedCbw
<1>24. ASSUME NEW u \in Writers, ForcedEject(u) PROVE TypeOK'
  <2>1. prevent_medium_removal' \in BOOLEAN
    BY <1>24, Zenon DEF ForcedEject
  <2> QED
    BY <1>24, <2>1 DEF ForcedEject
<1>25. ASSUME NEW u \in Writers, StoreRefused(u) PROVE TypeOK'
  BY <1>25 DEF StoreRefused
<1>26. ASSUME NEW u \in Writers, StoreRoDownRead(u) PROVE TypeOK'
  BY <1>26 DEF StoreRoDownRead
<1>27. ASSUME NEW u \in Writers, StoreDownWrite(u) PROVE TypeOK'
  BY <1>27 DEF StoreDownWrite
<1>28. ASSUME NEW u \in Writers, StoreOpen(u) PROVE TypeOK'
  BY <1>28 DEF StoreOpen
<1>29. ASSUME NEW u \in Writers, StoreAssign(u) PROVE TypeOK'
  BY <1>29 DEF StoreAssign
<1>30. ASSUME NEW u \in Writers, StoreClose(u) PROVE TypeOK'
  BY <1>30 DEF StoreClose
<1>31. ASSUME NEW u \in Writers, StoreNotify(u) PROVE TypeOK'
  BY <1>31 DEF StoreNotify
<1>32. ASSUME NEW u \in Writers, StoreUpWrite(u) PROVE TypeOK'
  BY <1>32 DEF StoreUpWrite
<1>33. ASSUME NEW u \in Writers, StoreRoUpRead(u) PROVE TypeOK'
  BY <1>33 DEF StoreRoUpRead
<1>34. ASSUME NEW u \in Writers, NEW f \in Media \union {NoFile}, StoreFile(u, f)
      PROVE TypeOK'
  BY <1>34 DEF StoreFile
<1>35. ASSUME NEW u \in Writers, NEW value \in RoValues, StoreRo(u, value)
      PROVE TypeOK'
  BY <1>35 DEF StoreRo
<1>36. ASSUME NEW t \in Writers \union {Kthread}, Handoff(t) PROVE TypeOK'
  BY <1>36 DEF Handoff
<1>37. CASE UNCHANGED vars
  BY <1>37
<1> QED
  BY <1>1, <1>2, <1>3, <1>4, <1>5, <1>6, <1>7, <1>8, <1>9, <1>10, <1>11,
     <1>12, <1>13, <1>14, <1>15, <1>16, <1>17, <1>18, <1>19, <1>20, <1>21,
     <1>22, <1>23, <1>24, <1>25, <1>26, <1>27, <1>28, <1>29, <1>30, <1>31,
     <1>32, <1>33, <1>34, <1>35, <1>36, <1>37
  DEF Next, KthreadStep, HostStep, BeginStore, FinishStore

-----------------------------------------------------------------------------
(* Every step keeps LockInv: each down has its up on every path, the drop  *)
(* and retake of filesem in do_start_stop and the exit path included.      *)
LEMMA LockStep == ASSUME TypeOK, LockInv, [Next]_vars PROVE LockInv'
<1> USE FloppyLunAssumption
    DEF TypeOK, LockInv, vars, lunVars, scsiVars, semVars, cmdVars, userVars,
        hostVars, KStep, UStep, DownRead, UpRead, DownWrite, UpWrite
<1>1. CASE CommandDownRead
  BY <1>1 DEF CommandDownRead
<1>2. CASE ReportUnitAttention
  BY <1>2 DEF ReportUnitAttention
<1>3. CASE ReportNoMedium
  BY <1>3 DEF ReportNoMedium
<1>4. CASE AcceptCommand
  BY <1>4 DEF AcceptCommand
<1>5. CASE DoNothing
  BY <1>5 DEF DoNothing
<1>6. CASE DoRequestSense
  BY <1>6 DEF DoRequestSense
<1>7. CASE DoRead
  BY <1>7 DEF DoRead
<1>8. CASE DoWrite
  BY <1>8 DEF DoWrite
<1>9. CASE DoPreventAllow
  BY <1>9 DEF DoPreventAllow
<1>10. CASE DoStartStop
  BY <1>10 DEF DoStartStop
<1>11. CASE EjectLocking
  BY <1>11 DEF EjectLocking
<1>12. CASE EjectClose
  BY <1>12 DEF EjectClose
<1>13. CASE CommandUpRead
  BY <1>13 DEF CommandUpRead
<1>14. CASE FinishReply
  BY <1>14 DEF FinishReply
<1>15. CASE SendStatus
  BY <1>15 DEF SendStatus
<1>16. CASE Interrupted
  BY <1>16 DEF Interrupted
<1>17. CASE HandleException
  BY <1>17 DEF HandleException
<1>18. CASE DoSetInterface
  BY <1>18 DEF DoSetInterface
<1>19. CASE ExitThread
  BY <1>19 DEF ExitThread
<1>20. CASE BulkReset
  BY <1>20 DEF BulkReset
<1>21. CASE SetAlt
  BY <1>21 DEF SetAlt
<1>22. CASE KillThread
  BY <1>22 DEF KillThread
<1>23. ASSUME NEW c \in HostCommands, ReceivedCbw(c) PROVE LockInv'
  BY <1>23 DEF ReceivedCbw
<1>24. ASSUME NEW u \in Writers, ForcedEject(u) PROVE LockInv'
  BY <1>24 DEF ForcedEject
<1>25. ASSUME NEW u \in Writers, StoreRefused(u) PROVE LockInv'
  BY <1>25 DEF StoreRefused
<1>26. ASSUME NEW u \in Writers, StoreRoDownRead(u) PROVE LockInv'
  BY <1>26 DEF StoreRoDownRead
<1>27. ASSUME NEW u \in Writers, StoreDownWrite(u) PROVE LockInv'
  BY <1>27 DEF StoreDownWrite
<1>28. ASSUME NEW u \in Writers, StoreOpen(u) PROVE LockInv'
  BY <1>28 DEF StoreOpen
<1>29. ASSUME NEW u \in Writers, StoreAssign(u) PROVE LockInv'
  BY <1>29 DEF StoreAssign
<1>30. ASSUME NEW u \in Writers, StoreClose(u) PROVE LockInv'
  BY <1>30 DEF StoreClose
<1>31. ASSUME NEW u \in Writers, StoreNotify(u) PROVE LockInv'
  BY <1>31 DEF StoreNotify
<1>32. ASSUME NEW u \in Writers, StoreUpWrite(u) PROVE LockInv'
  BY <1>32 DEF StoreUpWrite
<1>33. ASSUME NEW u \in Writers, StoreRoUpRead(u) PROVE LockInv'
  BY <1>33 DEF StoreRoUpRead
<1>34. ASSUME NEW u \in Writers, NEW f \in Media \union {NoFile}, StoreFile(u, f)
      PROVE LockInv'
  BY <1>34 DEF StoreFile
<1>35. ASSUME NEW u \in Writers, NEW value \in RoValues, StoreRo(u, value)
      PROVE LockInv'
  BY <1>35 DEF StoreRo
<1>36. ASSUME NEW t \in Writers \union {Kthread}, Handoff(t) PROVE LockInv'
  BY <1>36 DEF Handoff
<1>37. CASE UNCHANGED vars
  BY <1>37
<1> QED
  BY <1>1, <1>2, <1>3, <1>4, <1>5, <1>6, <1>7, <1>8, <1>9, <1>10, <1>11,
     <1>12, <1>13, <1>14, <1>15, <1>16, <1>17, <1>18, <1>19, <1>20, <1>21,
     <1>22, <1>23, <1>24, <1>25, <1>26, <1>27, <1>28, <1>29, <1>30, <1>31,
     <1>32, <1>33, <1>34, <1>35, <1>36, <1>37
  DEF Next, KthreadStep, HostStep, BeginStore, FinishStore

-----------------------------------------------------------------------------
(* Every step keeps CommandInv, what the kthread knows at each point of a  *)
(* command, provided a host that issues a bulk reset revalidates.          *)
LEMMA CommandStep ==
    ASSUME HostForgetsOnReset, TypeOK, LockInv, CommandInv, [Next]_vars
    PROVE  CommandInv'
<1> USE FloppyLunAssumption, HostForgetsOnReset
    DEF TypeOK, LockInv, vars, lunVars, scsiVars, semVars, cmdVars, userVars,
        hostVars, KStep, UStep, DownRead, UpRead, DownWrite, UpWrite,
        Commands, NeedsMedium, MediumSense, Sense, States, KPcs, Pcs,
        NoCommand, RaiseException, Preempts, ClearsScsiState, ClearedSense,
        MustReportAttention, IsOpen, PastCheck, DoorIsLocked, RoMayChange,
        CommandInv, Working, StatusDue
<1>1. CASE CommandDownRead
  BY <1>1 DEF CommandDownRead
<1>2. CASE ReportUnitAttention
  BY <1>2 DEF ReportUnitAttention
<1>3. CASE ReportNoMedium
  BY <1>3 DEF ReportNoMedium
<1>4. CASE AcceptCommand
  BY <1>4 DEF AcceptCommand
<1>5. CASE DoNothing
  BY <1>5 DEF DoNothing
<1>6. CASE DoRequestSense
  BY <1>6 DEF DoRequestSense
<1>7. CASE DoRead
  BY <1>7 DEF DoRead
<1>8. CASE DoWrite
  BY <1>8 DEF DoWrite
<1>9. CASE DoPreventAllow
  BY <1>9 DEF DoPreventAllow
<1>10. CASE DoStartStop
  BY <1>10 DEF DoStartStop
<1>11. CASE EjectLocking
  BY <1>11 DEF EjectLocking
<1>12. CASE EjectClose
  BY <1>12 DEF EjectClose
<1>13. CASE CommandUpRead
  BY <1>13 DEF CommandUpRead
<1>14. CASE FinishReply
  BY <1>14 DEF FinishReply
<1>15. CASE SendStatus
  BY <1>15 DEF SendStatus
<1>16. CASE Interrupted
  BY <1>16 DEF Interrupted
<1>17. CASE HandleException
  BY <1>17 DEF HandleException
<1>18. CASE DoSetInterface
  BY <1>18 DEF DoSetInterface
<1>19. CASE ExitThread
  BY <1>19 DEF ExitThread
<1>20. CASE BulkReset
  BY <1>20 DEF BulkReset
<1>21. CASE SetAlt
  BY <1>21 DEF SetAlt
<1>22. CASE KillThread
  BY <1>22 DEF KillThread
<1>23. ASSUME NEW c \in HostCommands, ReceivedCbw(c) PROVE CommandInv'
  BY <1>23 DEF ReceivedCbw
<1>24. ASSUME NEW u \in Writers, ForcedEject(u) PROVE CommandInv'
  BY <1>24 DEF ForcedEject
<1>25. ASSUME NEW u \in Writers, StoreRefused(u) PROVE CommandInv'
  BY <1>25 DEF StoreRefused
<1>26. ASSUME NEW u \in Writers, StoreRoDownRead(u) PROVE CommandInv'
  BY <1>26 DEF StoreRoDownRead
<1>27. ASSUME NEW u \in Writers, StoreDownWrite(u) PROVE CommandInv'
  BY <1>27 DEF StoreDownWrite
<1>28. ASSUME NEW u \in Writers, StoreOpen(u) PROVE CommandInv'
  BY <1>28 DEF StoreOpen
<1>29. ASSUME NEW u \in Writers, StoreAssign(u) PROVE CommandInv'
  BY <1>29 DEF StoreAssign
<1>30. ASSUME NEW u \in Writers, StoreClose(u) PROVE CommandInv'
  BY <1>30 DEF StoreClose
<1>31. ASSUME NEW u \in Writers, StoreNotify(u) PROVE CommandInv'
  BY <1>31 DEF StoreNotify
<1>32. ASSUME NEW u \in Writers, StoreUpWrite(u) PROVE CommandInv'
  BY <1>32 DEF StoreUpWrite
<1>33. ASSUME NEW u \in Writers, StoreRoUpRead(u) PROVE CommandInv'
  BY <1>33 DEF StoreRoUpRead
<1>34. ASSUME NEW u \in Writers, NEW f \in Media \union {NoFile}, StoreFile(u, f)
      PROVE CommandInv'
  BY <1>34 DEF StoreFile
<1>35. ASSUME NEW u \in Writers, NEW value \in RoValues, StoreRo(u, value)
      PROVE CommandInv'
  BY <1>35 DEF StoreRo
<1>36. ASSUME NEW t \in Writers \union {Kthread}, Handoff(t) PROVE CommandInv'
  BY <1>36 DEF Handoff
<1>37. CASE UNCHANGED vars
  BY <1>37
<1> QED
  BY <1>1, <1>2, <1>3, <1>4, <1>5, <1>6, <1>7, <1>8, <1>9, <1>10, <1>11,
     <1>12, <1>13, <1>14, <1>15, <1>16, <1>17, <1>18, <1>19, <1>20, <1>21,
     <1>22, <1>23, <1>24, <1>25, <1>26, <1>27, <1>28, <1>29, <1>30, <1>31,
     <1>32, <1>33, <1>34, <1>35, <1>36, <1>37
  DEF Next, KthreadStep, HostStep, BeginStore, FinishStore

-----------------------------------------------------------------------------
(* Every step keeps the medium under an accepted command, the door against *)
(* later stores, and the read-only status of an open file.                 *)
LEMMA MediumStep ==
    ASSUME TypeOK, LockInv, MediumInv, [Next]_vars
    PROVE  MediumInv'
<1> USE FloppyLunAssumption
    DEF TypeOK, LockInv, vars, lunVars, scsiVars, semVars, cmdVars, userVars,
        hostVars, KStep, UStep, DownRead, UpRead, DownWrite, UpWrite,
        Commands, NeedsMedium, MediumSense, Sense, States, KPcs, Pcs,
        NoCommand, RaiseException, Preempts, ClearsScsiState, ClearedSense,
        MustReportAttention, IsOpen, PastCheck, DoorIsLocked, RoMayChange,
        MediumInv, DoorHoldsForLaterStores, ReadOnlyAsOpened,
        MediumHeldDuringCommand
<1>1. CASE CommandDownRead
  BY <1>1 DEF CommandDownRead
<1>2. CASE ReportUnitAttention
  BY <1>2 DEF ReportUnitAttention
<1>3. CASE ReportNoMedium
  BY <1>3 DEF ReportNoMedium
<1>4. CASE AcceptCommand
  BY <1>4 DEF AcceptCommand
<1>5. CASE DoNothing
  BY <1>5 DEF DoNothing
<1>6. CASE DoRequestSense
  BY <1>6 DEF DoRequestSense
<1>7. CASE DoRead
  BY <1>7 DEF DoRead
<1>8. CASE DoWrite
  BY <1>8 DEF DoWrite
<1>9. CASE DoPreventAllow
  BY <1>9 DEF DoPreventAllow
<1>10. CASE DoStartStop
  BY <1>10 DEF DoStartStop
<1>11. CASE EjectLocking
  BY <1>11 DEF EjectLocking
<1>12. CASE EjectClose
  BY <1>12 DEF EjectClose
<1>13. CASE CommandUpRead
  BY <1>13 DEF CommandUpRead
<1>14. CASE FinishReply
  BY <1>14 DEF FinishReply
<1>15. CASE SendStatus
  BY <1>15 DEF SendStatus
<1>16. CASE Interrupted
  BY <1>16 DEF Interrupted
<1>17. CASE HandleException
  BY <1>17 DEF HandleException
<1>18. CASE DoSetInterface
  BY <1>18 DEF DoSetInterface
<1>19. CASE ExitThread
  BY <1>19 DEF ExitThread
<1>20. CASE BulkReset
  BY <1>20 DEF BulkReset
<1>21. CASE SetAlt
  BY <1>21 DEF SetAlt
<1>22. CASE KillThread
  BY <1>22 DEF KillThread
<1>23. ASSUME NEW c \in HostCommands, ReceivedCbw(c) PROVE MediumInv'
  BY <1>23 DEF ReceivedCbw
<1>24. ASSUME NEW u \in Writers, ForcedEject(u) PROVE MediumInv'
  BY <1>24 DEF ForcedEject
<1>25. ASSUME NEW u \in Writers, StoreRefused(u) PROVE MediumInv'
  BY <1>25 DEF StoreRefused
<1>26. ASSUME NEW u \in Writers, StoreRoDownRead(u) PROVE MediumInv'
  BY <1>26 DEF StoreRoDownRead
<1>27. ASSUME NEW u \in Writers, StoreDownWrite(u) PROVE MediumInv'
  BY <1>27 DEF StoreDownWrite
<1>28. ASSUME NEW u \in Writers, StoreOpen(u) PROVE MediumInv'
  BY <1>28 DEF StoreOpen
<1>29. ASSUME NEW u \in Writers, StoreAssign(u) PROVE MediumInv'
  BY <1>29 DEF StoreAssign
<1>30. ASSUME NEW u \in Writers, StoreClose(u) PROVE MediumInv'
  BY <1>30 DEF StoreClose
<1>31. ASSUME NEW u \in Writers, StoreNotify(u) PROVE MediumInv'
  BY <1>31 DEF StoreNotify
<1>32. ASSUME NEW u \in Writers, StoreUpWrite(u) PROVE MediumInv'
  BY <1>32 DEF StoreUpWrite
<1>33. ASSUME NEW u \in Writers, StoreRoUpRead(u) PROVE MediumInv'
  BY <1>33 DEF StoreRoUpRead
<1>34. ASSUME NEW u \in Writers, NEW f \in Media \union {NoFile}, StoreFile(u, f)
      PROVE MediumInv'
  BY <1>34 DEF StoreFile
<1>35. ASSUME NEW u \in Writers, NEW value \in RoValues, StoreRo(u, value)
      PROVE MediumInv'
  BY <1>35 DEF StoreRo
<1>36. ASSUME NEW t \in Writers \union {Kthread}, Handoff(t) PROVE MediumInv'
  BY <1>36 DEF Handoff
<1>37. CASE UNCHANGED vars
  BY <1>37
<1> QED
  BY <1>1, <1>2, <1>3, <1>4, <1>5, <1>6, <1>7, <1>8, <1>9, <1>10, <1>11,
     <1>12, <1>13, <1>14, <1>15, <1>16, <1>17, <1>18, <1>19, <1>20, <1>21,
     <1>22, <1>23, <1>24, <1>25, <1>26, <1>27, <1>28, <1>29, <1>30, <1>31,
     <1>32, <1>33, <1>34, <1>35, <1>36, <1>37
  DEF Next, KthreadStep, HostStep, BeginStore, FinishStore

-----------------------------------------------------------------------------
(* Every step keeps TellInv: a notice of a change is only given up for     *)
(* sense data that the host will see, or when the host knows nothing.      *)
LEMMA TellStep ==
    ASSUME HostForgetsOnReset, TypeOK, LockInv, CommandInv, TellInv, [Next]_vars
    PROVE  TellInv'
<1> USE FloppyLunAssumption, HostForgetsOnReset
    DEF TypeOK, LockInv, vars, lunVars, scsiVars, semVars, cmdVars, userVars,
        hostVars, KStep, UStep, DownRead, UpRead, DownWrite, UpWrite,
        Commands, NeedsMedium, MediumSense, Sense, States, KPcs, Pcs,
        NoCommand, RaiseException, Preempts, ClearsScsiState, ClearedSense,
        MustReportAttention, IsOpen, PastCheck, DoorIsLocked, RoMayChange,
        CommandInv, Working, StatusDue, TellInv, NoticeLeft, NoticeOnItsWay
<1>1. CASE CommandDownRead
  BY <1>1 DEF CommandDownRead
<1>2. CASE ReportUnitAttention
  BY <1>2 DEF ReportUnitAttention
<1>3. CASE ReportNoMedium
  BY <1>3 DEF ReportNoMedium
<1>4. CASE AcceptCommand
  BY <1>4 DEF AcceptCommand
<1>5. CASE DoNothing
  BY <1>5 DEF DoNothing
<1>6. CASE DoRequestSense
  BY <1>6 DEF DoRequestSense
<1>7. CASE DoRead
  BY <1>7 DEF DoRead
<1>8. CASE DoWrite
  BY <1>8 DEF DoWrite
<1>9. CASE DoPreventAllow
  BY <1>9 DEF DoPreventAllow
<1>10. CASE DoStartStop
  BY <1>10 DEF DoStartStop
<1>11. CASE EjectLocking
  BY <1>11 DEF EjectLocking
<1>12. CASE EjectClose
  BY <1>12 DEF EjectClose
<1>13. CASE CommandUpRead
  BY <1>13 DEF CommandUpRead
<1>14. CASE FinishReply
  BY <1>14 DEF FinishReply
<1>15. CASE SendStatus
  BY <1>15 DEF SendStatus
<1>16. CASE Interrupted
  BY <1>16 DEF Interrupted
<1>17. CASE HandleException
  BY <1>17 DEF HandleException
<1>18. CASE DoSetInterface
  BY <1>18 DEF DoSetInterface
<1>19. CASE ExitThread
  BY <1>19 DEF ExitThread
<1>20. CASE BulkReset
  BY <1>20 DEF BulkReset
<1>21. CASE SetAlt
  BY <1>21 DEF SetAlt
<1>22. CASE KillThread
  BY <1>22 DEF KillThread
<1>23. ASSUME NEW c \in HostCommands, ReceivedCbw(c) PROVE TellInv'
  BY <1>23 DEF ReceivedCbw
<1>24. ASSUME NEW u \in Writers, ForcedEject(u) PROVE TellInv'
  BY <1>24 DEF ForcedEject
<1>25. ASSUME NEW u \in Writers, StoreRefused(u) PROVE TellInv'
  BY <1>25 DEF StoreRefused
<1>26. ASSUME NEW u \in Writers, StoreRoDownRead(u) PROVE TellInv'
  BY <1>26 DEF StoreRoDownRead
<1>27. ASSUME NEW u \in Writers, StoreDownWrite(u) PROVE TellInv'
  BY <1>27 DEF StoreDownWrite
<1>28. ASSUME NEW u \in Writers, StoreOpen(u) PROVE TellInv'
  BY <1>28 DEF StoreOpen
<1>29. ASSUME NEW u \in Writers, StoreAssign(u) PROVE TellInv'
  BY <1>29 DEF StoreAssign
<1>30. ASSUME NEW u \in Writers, StoreClose(u) PROVE TellInv'
  BY <1>30 DEF StoreClose
<1>31. ASSUME NEW u \in Writers, StoreNotify(u) PROVE TellInv'
  BY <1>31 DEF StoreNotify
<1>32. ASSUME NEW u \in Writers, StoreUpWrite(u) PROVE TellInv'
  BY <1>32 DEF StoreUpWrite
<1>33. ASSUME NEW u \in Writers, StoreRoUpRead(u) PROVE TellInv'
  BY <1>33 DEF StoreRoUpRead
<1>34. ASSUME NEW u \in Writers, NEW f \in Media \union {NoFile}, StoreFile(u, f)
      PROVE TellInv'
  BY <1>34 DEF StoreFile
<1>35. ASSUME NEW u \in Writers, NEW value \in RoValues, StoreRo(u, value)
      PROVE TellInv'
  BY <1>35 DEF StoreRo
<1>36. ASSUME NEW t \in Writers \union {Kthread}, Handoff(t) PROVE TellInv'
  BY <1>36 DEF Handoff
<1>37. CASE UNCHANGED vars
  BY <1>37
<1> QED
  BY <1>1, <1>2, <1>3, <1>4, <1>5, <1>6, <1>7, <1>8, <1>9, <1>10, <1>11,
     <1>12, <1>13, <1>14, <1>15, <1>16, <1>17, <1>18, <1>19, <1>20, <1>21,
     <1>22, <1>23, <1>24, <1>25, <1>26, <1>27, <1>28, <1>29, <1>30, <1>31,
     <1>32, <1>33, <1>34, <1>35, <1>36, <1>37
  DEF Next, KthreadStep, HostStep, BeginStore, FinishStore

-----------------------------------------------------------------------------
SafetyInv == TypeOK /\ LockInv /\ MediumInv

(* The initial state satisfies every part of the invariant.                *)
LEMMA InitInv == Init => SafetyInv /\ CommandInv /\ TellInv
<1> SUFFICES ASSUME Init PROVE SafetyInv /\ CommandInv /\ TellInv
  OBVIOUS
<1> USE FloppyLunAssumption DEF Init
<1>1. TypeOK
  BY DEF TypeOK, Commands, MediumSense, Sense, States, KPcs, Pcs
<1>2. LockInv
  BY DEF LockInv
<1>3. MediumInv
  BY DEF MediumInv, DoorHoldsForLaterStores, ReadOnlyAsOpened,
         MediumHeldDuringCommand, IsOpen
<1>4. CommandInv
  BY DEF CommandInv, Working, StatusDue
<1>5. TellInv
  BY DEF TellInv, IsOpen
<1> QED
  BY <1>1, <1>2, <1>3, <1>4, <1>5 DEF SafetyInv

(* The types, the discipline of filesem and the three invariants that rest *)
(* on it hold in every behaviour, whatever the host does after a reset.    *)
THEOREM Safety == Spec => []SafetyInv
<1>1. Init => SafetyInv
  BY InitInv
<1>2. SafetyInv /\ [Next]_vars => SafetyInv'
  BY TypeStep, LockStep, MediumStep DEF SafetyInv
<1> QED
  BY <1>1, <1>2, PTL DEF Spec

(* Type correctness of the drive, its kthread and its stores.              *)
THEOREM TypeCorrect == Spec => []TypeOK
BY Safety, PTL DEF SafetyInv

(* do_read and do_write never find the backing file closed under them.     *)
THEOREM MediumHeld == Spec => []MediumHeldDuringCommand
BY Safety, PTL DEF SafetyInv, MediumInv

(* After the host has locked the door, fsg_store_file lets no store pass   *)
(* that had not passed its check before.                                   *)
THEOREM DoorHolds == Spec => []DoorHoldsForLaterStores
BY Safety, PTL DEF SafetyInv, MediumInv

(* fsg_store_ro never changes the status of a medium in the drive.         *)
THEOREM ReadOnlyStays == Spec => []ReadOnlyAsOpened
BY Safety, PTL DEF SafetyInv, MediumInv

-----------------------------------------------------------------------------
(* A command that has been accepted while the invariant holds finds the    *)
(* medium the host knows: a stale view would need a notice, and check_     *)
(* command lets no medium command past a notice.                           *)
LEMMA KnownMedium ==
    SafetyInv /\ CommandInv /\ TellInv => ServedKnownMedium
<1> SUFFICES ASSUME SafetyInv, CommandInv, TellInv,
                    kpc = "execute", cmnd \in NeedsMedium
             PROVE  hostView \in {NoFile, filp}
  BY DEF ServedKnownMedium
<1>1. IsOpen
  BY DEF SafetyInv, MediumInv, MediumHeldDuringCommand
<1>2. ~NoticeLeft
  BY DEF SafetyInv, TypeOK, LockInv, CommandInv, NoticeLeft, NeedsMedium
<1>3. ~NoticeOnItsWay
  BY DEF CommandInv, NoticeOnItsWay, StatusDue, NeedsMedium
<1> QED
  BY <1>1, <1>2, <1>3 DEF TellInv

(* The whole invariant holds if a host that resets the device revalidates. *)
LEMMA HostInvariant ==
    ASSUME HostForgetsOnReset
    PROVE  Spec => [](SafetyInv /\ CommandInv /\ TellInv)
<1>1. Init => SafetyInv /\ CommandInv /\ TellInv
  BY InitInv
<1>2. SafetyInv /\ CommandInv /\ TellInv /\ [Next]_vars
        => (SafetyInv /\ CommandInv /\ TellInv)'
  BY TypeStep, LockStep, MediumStep, CommandStep, TellStep DEF SafetyInv
<1> QED
  BY <1>1, <1>2, PTL DEF Spec

(* The host is never served from a medium it does not know, if it          *)
(* revalidates after the bulk resets it issues itself.                     *)
THEOREM ServedKnown ==
    ASSUME HostForgetsOnReset
    PROVE  Spec => []ServedKnownMedium
BY HostInvariant, KnownMedium, PTL
-----------------------------------------------------------------------------
(* Every step of the unit is a step of FloppyDrive or leaves what the host *)
(* can see alone.                                                          *)
LEMMA DriveStep ==
    ASSUME SafetyInv, CommandInv, TellInv, HostForgetsOnReset, [Next]_vars
    PROVE  Drive!Next \/ UNCHANGED <<filp, hostView, served>>
<1> DEFINE Drives == Drive!Next \/ UNCHANGED <<filp, hostView, served>>
<1> USE FloppyLunAssumption, HostForgetsOnReset
    DEF lunVars, scsiVars, semVars, cmdVars, userVars, hostVars, KStep, UStep,
        NoCommand
<1>1. TypeOK /\ LockInv /\ MediumHeldDuringCommand /\ ServedKnownMedium
  BY KnownMedium DEF SafetyInv, MediumInv
<1>2. ASSUME filp' \in Media \union {NoFile}, UNCHANGED <<hostView, served>>
      PROVE  Drives
  BY <1>2 DEF Drive!Next, Drive!Swap
<1>3. ASSUME served' = NoFile, UNCHANGED <<filp, hostView>>
      PROVE  Drives
  BY <1>3 DEF Drive!Next, Drive!NoStatus
<1>4. ASSUME hostView' = NoFile, UNCHANGED <<filp, served>>
      PROVE  Drives
  BY <1>4 DEF Drive!Next, Drive!Forget
<1>5. CASE DoRead \/ DoWrite
  <2>1. filp # NoFile /\ hostView \in {NoFile, filp}
    BY <1>1, <1>5 DEF DoRead, DoWrite, MediumHeldDuringCommand,
       ServedKnownMedium, NeedsMedium, IsOpen
  <2>2. served' \in {filp, served} /\ UNCHANGED <<filp, hostView>>
    BY <1>5 DEF DoRead, DoWrite
  <2> QED
    BY <2>1, <2>2 DEF Drive!Next, Drive!Serve
<1>6. CASE SendStatus
  <2>1. served' = NoFile /\ filp' = filp
    BY <1>6 DEF SendStatus
  <2>2. CASE hostView' = hostView
    BY <1>3, <2>1, <2>2
  <2>3. CASE hostView' = served /\ cmnd \in {"READ", "WRITE"}
    BY <2>1, <2>3 DEF Drive!Next, Drive!Believe, Drive!Forget
  <2>4. CASE hostView' = NoFile /\ cmnd \notin {"READ", "WRITE"}
    BY <1>4, <2>1, <2>4 DEF CommandInv
  <2> QED
    BY <1>6, <2>2, <2>3, <2>4 DEF SendStatus
<1>7. CASE Interrupted \/ \E c \in HostCommands : ReceivedCbw(c)
  BY <1>3, <1>7 DEF Interrupted, ReceivedCbw
<1>8. CASE BulkReset \/ SetAlt \/ KillThread
  BY <1>4, <1>8 DEF BulkReset, SetAlt, KillThread
<1>9. CASE EjectClose \/ ExitThread
  BY <1>1, <1>2, <1>9 DEF EjectClose, ExitThread, TypeOK
<1>10. ASSUME NEW u \in Writers, StoreOpen(u) \/ StoreAssign(u) \/ StoreClose(u)
       PROVE  Drives
  BY <1>1, <1>2, <1>10 DEF StoreOpen, StoreAssign, StoreClose, TypeOK
<1>11. CASE CommandDownRead \/ ReportUnitAttention \/ ReportNoMedium
            \/ AcceptCommand \/ DoNothing \/ DoRequestSense
            \/ DoPreventAllow \/ DoStartStop \/ EjectLocking
            \/ CommandUpRead \/ FinishReply \/ HandleException
            \/ DoSetInterface
  BY <1>11 DEF CommandDownRead, ReportUnitAttention, ReportNoMedium,
     AcceptCommand, DoNothing, DoRequestSense, DoPreventAllow, DoStartStop,
     EjectLocking, CommandUpRead, FinishReply, HandleException,
     DoSetInterface
<1>12. ASSUME NEW u \in Writers,
              ForcedEject(u) \/ StoreRefused(u) \/ StoreRoDownRead(u)
              \/ (\E f \in Media \union {NoFile} : StoreFile(u, f))
              \/ StoreDownWrite(u) \/ StoreNotify(u) \/ StoreUpWrite(u)
              \/ (\E value \in RoValues : StoreRo(u, value))
              \/ StoreRoUpRead(u)
       PROVE  Drives
  BY <1>12 DEF ForcedEject, StoreRefused, StoreRoDownRead, StoreFile,
     StoreDownWrite, StoreNotify, StoreUpWrite, StoreRo, StoreRoUpRead
<1>13. ASSUME NEW t \in Writers \union {Kthread}, Handoff(t)
       PROVE  Drives
  BY <1>13 DEF Handoff
<1>14. CASE UNCHANGED vars
  BY <1>14 DEF vars
<1> QED
  BY <1>5, <1>6, <1>7, <1>8, <1>9, <1>10, <1>11, <1>12, <1>13, <1>14
  DEF Next, KthreadStep, HostStep, BeginStore, FinishStore

(* The kthread and the userspace threads implement the abstract drive, for *)
(* a host that revalidates after the bulk resets it issues itself.         *)
THEOREM Implements ==
    ASSUME HostForgetsOnReset
    PROVE  Spec => ImplementsDrive
<1>1. Init => Drive!Init
  BY DEF Init, Drive!Init
<1>2. SafetyInv /\ CommandInv /\ TellInv /\ [Next]_vars
        => [Drive!Next]_(Drive!vars)
  BY DriveStep DEF Drive!vars
<1> QED
  BY <1>1, <1>2, HostInvariant, PTL DEF Spec, ImplementsDrive, Drive!Spec
=============================================================================
