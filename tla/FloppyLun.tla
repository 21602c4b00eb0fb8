------------------------------ MODULE FloppyLun ------------------------------
(***************************************************************************)
(* The logical unit of the gadget driver: the medium in the drive, the     *)
(* filesem that protects it, the kthread that executes the host's SCSI     *)
(* commands against it, and the userspace threads that change the medium   *)
(* through sysfs (kernel/storage_common.c, kernel/f_floppy.c).             *)
(*                                                                         *)
(* The host is the environment.  It fetches the sense data after each      *)
(* command that fails, as usb-storage does, and forgets what it knew of    *)
(* the medium when it re-enumerates the device.                            *)
(*                                                                         *)
(* Every flag of struct fsg_lun is a variable of its own here: that they   *)
(* are bit-fields of one machine word is not modelled.                     *)
(*                                                                         *)
(* A definition right before one it resembles, and used by none, is the    *)
(* mistake the code avoids there: with it a property below fails.          *)
(***************************************************************************)
EXTENDS Naturals, FiniteSets

CONSTANTS
    Media,              \* the image files userspace can insert
    ReadOnlyFiles,      \* those that cannot be opened for writing
    NoFile,             \* filp = NULL, and "the host knows of no medium"
    Writers,            \* userspace threads that write the sysfs attributes
    Kthread,            \* fsg_main_thread
    HostCommands,       \* the commands the host sends
    Exceptions,         \* the exceptions raised from outside the kthread
    RoValues,           \* the values userspace stores to lun0_ro
    HostForgetsOnReset  \* does a host that issues a bulk reset revalidate?

\* READ stands for the commands that return data of the medium, READ and
\* READ CAPACITY among them; TEST_UNIT_READY for those that need a medium
\* and return nothing of it.
Commands == {"INQUIRY", "REQUEST_SENSE", "TEST_UNIT_READY", "READ", "WRITE",
             "PREVENT", "ALLOW", "START", "STOP", "EJECT"}

NeedsMedium == {"TEST_UNIT_READY", "READ", "WRITE"}

ASSUME FloppyLunAssumption ==
    /\ ReadOnlyFiles \subseteq Media
    /\ NoFile \notin Media
    /\ Kthread \notin Writers
    /\ HostCommands \subseteq Commands
    /\ Exceptions \subseteq {"PROTOCOL_RESET", "CONFIG_CHANGE", "EXIT"}
    /\ RoValues \subseteq BOOLEAN
    /\ HostForgetsOnReset \in BOOLEAN

VARIABLES
    filp,                   \* the open backing file, or NoFile
    ro, initially_ro,       \* the medium is / is to be opened read-only
    prevent_medium_removal, \* the host has locked the door
    sense_data, unit_attention_data,
    semReaders, semWriter,  \* who holds filesem for reading, for writing
    semHandoff,             \* the waiter it is handed over to
    state,                  \* common->state: the exception in progress
    kpc,                    \* where the kthread is
    cmnd,                   \* the command it works on
    served,                 \* the medium the command read or wrote
    answer,                 \* the sense data REQUEST SENSE returns
    pc,                     \* where each userspace thread is in its store
    file,                   \* the file it stores, NoFile for an eject
    hostView,               \* the medium the host has cached data of
    hostAsk,                \* the host's next command is REQUEST SENSE
    graced                  \* stores in flight when the door was last locked

lunVars  == <<filp, ro, initially_ro>>
scsiVars == <<prevent_medium_removal, sense_data, unit_attention_data>>
semVars  == <<semReaders, semWriter, semHandoff>>
cmdVars  == <<cmnd, served, answer>>
userVars == <<pc, file>>
hostVars == <<hostView, hostAsk>>
vars == <<lunVars, scsiVars, semVars, state, kpc, cmdVars, userVars,
          hostVars, graced>>

-----------------------------------------------------------------------------
MediumSense == {"NOT_READY_TO_READY_TRANSITION", "MEDIUM_NOT_PRESENT",
                "RESET_OCCURRED"}

Sense == MediumSense \union {"NO_SENSE", "MEDIUM_REMOVAL_PREVENTED",
                             "WRITE_PROTECTED", "UNRECOVERED_READ_ERROR",
                             "WRITE_ERROR"}

States == {"NORMAL", "ABORT_BULK_OUT", "PROTOCOL_RESET", "CONFIG_CHANGE",
           "EXIT", "TERMINATED"}

\* The order of enum fsg_state: the exceptions a new one may preempt.
Preempts(new) ==
    CASE new = "ABORT_BULK_OUT" -> {"NORMAL", "ABORT_BULK_OUT"}
      [] new = "PROTOCOL_RESET" -> {"NORMAL", "ABORT_BULK_OUT",
                                    "PROTOCOL_RESET"}
      [] new = "CONFIG_CHANGE"  -> {"NORMAL", "ABORT_BULK_OUT",
                                    "PROTOCOL_RESET", "CONFIG_CHANGE"}
      [] OTHER -> States

KPcs == {"idle", "down", "check", "execute", "ejectUp", "ejectDown",
         "ejectClose", "ejectUpWrite", "ejectDownRead", "up", "finish",
         "status", "reconfigure", "exitDown", "exitClose", "exitUp", "dead"}

Pcs == {"idle", "forced", "down", "open", "assign", "notify", "up",
        "setRo", "upRead"}

IsOpen == filp # NoFile

\* Past the door check of fsg_store_file, and not yet done with the medium.
PastCheck == {u \in Writers : pc[u] \in {"down", "open", "assign", "notify"}}

TypeOK ==
    /\ filp \in Media \union {NoFile}
    /\ ro \in BOOLEAN /\ initially_ro \in BOOLEAN
    /\ prevent_medium_removal \in BOOLEAN
    /\ sense_data \in Sense
    /\ unit_attention_data \in MediumSense \union {"NO_SENSE"}
    /\ semReaders \subseteq Writers \union {Kthread}
    /\ semWriter \subseteq Writers \union {Kthread}
    /\ semHandoff \subseteq Writers \union {Kthread}
    /\ semReaders = {} \/ semWriter = {}
    /\ state \in States
    /\ kpc \in KPcs
    /\ cmnd \in Commands \union {"NONE"}
    /\ served \in Media \union {NoFile}
    /\ answer \in Sense
    /\ pc \in [Writers -> Pcs]
    /\ file \in [Writers -> Media \union {NoFile}]
    /\ hostView \in Media \union {NoFile}
    /\ hostAsk \in BOOLEAN
    /\ graced \subseteq Writers

\* The gadget has just been configured: do_set_interface has run.
Init ==
    /\ filp = NoFile /\ ro = FALSE /\ initially_ro = FALSE
    /\ prevent_medium_removal = FALSE
    /\ sense_data = "NO_SENSE" /\ unit_attention_data = "RESET_OCCURRED"
    /\ semReaders = {} /\ semWriter = {} /\ semHandoff = {}
    /\ state = "NORMAL" /\ kpc = "idle"
    /\ cmnd = "NONE" /\ served = NoFile /\ answer = "NO_SENSE"
    /\ pc = [u \in Writers |-> "idle"]
    /\ file = [u \in Writers |-> NoFile]
    /\ hostView = NoFile /\ hostAsk = FALSE
    /\ graced = {}

-----------------------------------------------------------------------------
(* filesem, a rw_semaphore of the kernel: a thread may take it past those   *)
(* that wait, but a waiter that finds it busy can have it handed over, and *)
(* nobody else takes it then before that waiter has.                       *)
DownReadIgnoringWriter(t) ==
    /\ semReaders' = semReaders \union {t}
    /\ semHandoff' = {} /\ UNCHANGED semWriter

DownRead(t) ==
    /\ semWriter = {} /\ semHandoff \subseteq {t}
    /\ semReaders' = semReaders \union {t}
    /\ semHandoff' = {} /\ UNCHANGED semWriter

UpRead(t) == semReaders' = semReaders \ {t} /\ UNCHANGED <<semWriter, semHandoff>>

DownWrite(t) ==
    /\ semWriter = {} /\ semReaders = {} /\ semHandoff \subseteq {t}
    /\ semWriter' = {t}
    /\ semHandoff' = {} /\ UNCHANGED semReaders

UpWrite(t) == semWriter' = semWriter \ {t} /\ UNCHANGED <<semReaders, semHandoff>>

KStep(from, to) == kpc = from /\ kpc' = to

\* What the kthread keeps of a command is dead once it is done with it.
NoCommand == cmnd' = "NONE" /\ served' = NoFile /\ answer' = "NO_SENSE"

-----------------------------------------------------------------------------
(* The kthread: one command from CBW to CSW.                               *)

\* get_next_command: a CBW arrives.
ReceivedCbw(c) ==
    /\ KStep("idle", "down")
    /\ state = "NORMAL"
    /\ hostAsk => c = "REQUEST_SENSE"
    /\ cmnd' = c /\ served' = NoFile /\ answer' = "NO_SENSE"
    /\ UNCHANGED <<lunVars, scsiVars, semVars, state, userVars, hostVars,
                   graced>>

CommandDownRead ==
    /\ KStep("down", "check")
    /\ DownRead(Kthread)
    /\ UNCHANGED <<lunVars, scsiVars, state, cmdVars, userVars, hostVars,
                   graced>>

\* check_command clears the sense data, but not for REQUEST SENSE.
ClearedSense == IF cmnd = "REQUEST_SENSE" THEN sense_data ELSE "NO_SENSE"

\* check_command: a pending unit attention fails all but two commands.
MustReportAttention ==
    /\ unit_attention_data # "NO_SENSE"
    /\ cmnd \notin {"INQUIRY", "REQUEST_SENSE"}

AttentionWithoutSense ==
    /\ KStep("check", "up")
    /\ MustReportAttention
    /\ sense_data' = "NO_SENSE"
    /\ unit_attention_data' = "NO_SENSE"
    /\ UNCHANGED <<lunVars, prevent_medium_removal, semVars, state, cmdVars,
                   userVars, hostVars, graced>>

ReportUnitAttention ==
    /\ KStep("check", "up")
    /\ MustReportAttention
    /\ sense_data' = unit_attention_data
    /\ unit_attention_data' = "NO_SENSE"
    /\ UNCHANGED <<lunVars, prevent_medium_removal, semVars, state, cmdVars,
                   userVars, hostVars, graced>>

ReportNoMedium ==
    /\ KStep("check", "up")
    /\ ~MustReportAttention
    /\ ~IsOpen /\ cmnd \in NeedsMedium
    /\ sense_data' = "MEDIUM_NOT_PRESENT"
    /\ UNCHANGED <<lunVars, prevent_medium_removal, unit_attention_data,
                   semVars, state, cmdVars, userVars, hostVars, graced>>

AcceptCommand ==
    /\ KStep("check", "execute")
    /\ ~MustReportAttention
    /\ IsOpen \/ cmnd \notin NeedsMedium
    /\ sense_data' = ClearedSense
    /\ UNCHANGED <<lunVars, prevent_medium_removal, unit_attention_data,
                   semVars, state, cmdVars, userVars, hostVars, graced>>

\* INQUIRY and TEST UNIT READY have no effect on the unit.
DoNothing ==
    /\ KStep("execute", "up")
    /\ cmnd \in {"INQUIRY", "TEST_UNIT_READY"}
    /\ UNCHANGED <<lunVars, scsiVars, semVars, state, cmdVars, userVars,
                   hostVars, graced>>

DoRequestSense ==
    /\ KStep("execute", "up")
    /\ cmnd = "REQUEST_SENSE"
    /\ answer' = sense_data
    /\ sense_data' = "NO_SENSE"
    /\ UNCHANGED <<lunVars, prevent_medium_removal, unit_attention_data,
                   semVars, state, cmnd, served, userVars, hostVars, graced>>

\* do_read: the data comes from the open file, or the file cannot be read.
DoRead ==
    /\ KStep("execute", "up")
    /\ cmnd = "READ"
    /\ \/ served' = filp /\ UNCHANGED sense_data
       \/ sense_data' = "UNRECOVERED_READ_ERROR" /\ UNCHANGED served
    /\ UNCHANGED <<lunVars, prevent_medium_removal, unit_attention_data,
                   semVars, state, cmnd, answer, userVars, hostVars, graced>>

DoWrite ==
    /\ KStep("execute", "up")
    /\ cmnd = "WRITE"
    /\ \/ ro /\ sense_data' = "WRITE_PROTECTED" /\ UNCHANGED served
       \/ ~ro /\ served' = filp /\ UNCHANGED sense_data
       \/ ~ro /\ sense_data' = "WRITE_ERROR" /\ UNCHANGED served
    /\ UNCHANGED <<lunVars, prevent_medium_removal, unit_attention_data,
                   semVars, state, cmnd, answer, userVars, hostVars, graced>>

\* do_prevent_allow.  Locking the door over a medium fixes who is let off.
DoPreventAllow ==
    /\ KStep("execute", "up")
    /\ cmnd \in {"PREVENT", "ALLOW"}
    /\ prevent_medium_removal' = (cmnd = "PREVENT")
    /\ graced' = IF cmnd = "PREVENT" /\ ~prevent_medium_removal /\ IsOpen
                 THEN PastCheck ELSE graced
    /\ UNCHANGED <<lunVars, sense_data, unit_attention_data, semVars, state,
                   cmdVars, userVars, hostVars>>

\* do_start_stop up to the point where it lets go of filesem.
DoStartStop ==
    /\ kpc = "execute"
    /\ \/ /\ cmnd = "START"
          /\ kpc' = "up"
          /\ sense_data' = IF IsOpen THEN sense_data ELSE "MEDIUM_NOT_PRESENT"
       \/ /\ cmnd \in {"STOP", "EJECT"} /\ prevent_medium_removal
          /\ kpc' = "up"
          /\ sense_data' = "MEDIUM_REMOVAL_PREVENTED"
       \/ /\ cmnd = "STOP" /\ ~prevent_medium_removal
          /\ kpc' = "up" /\ UNCHANGED sense_data
       \/ /\ cmnd = "EJECT" /\ ~prevent_medium_removal
          /\ kpc' = "ejectUp" /\ UNCHANGED sense_data
    /\ UNCHANGED <<lunVars, prevent_medium_removal, unit_attention_data,
                   semVars, state, cmdVars, userVars, hostVars, graced>>

EjectKeepingReadLock ==
    /\ \/ KStep("ejectUp", "ejectDown") /\ UNCHANGED semVars
       \/ KStep("ejectDown", "ejectClose") /\ DownWrite(Kthread)
       \/ KStep("ejectUpWrite", "ejectDownRead") /\ UpWrite(Kthread)
       \/ KStep("ejectDownRead", "up") /\ DownRead(Kthread)
    /\ UNCHANGED <<lunVars, scsiVars, state, cmdVars, userVars, hostVars,
                   graced>>

\* The rest of do_start_stop: it gives up the read lock, takes the write
\* lock, closes what is then in the drive, and goes back to the read lock.
EjectLocking ==
    /\ \/ KStep("ejectUp", "ejectDown") /\ UpRead(Kthread)
       \/ KStep("ejectDown", "ejectClose") /\ DownWrite(Kthread)
       \/ KStep("ejectUpWrite", "ejectDownRead") /\ UpWrite(Kthread)
       \/ KStep("ejectDownRead", "up") /\ DownRead(Kthread)
    /\ UNCHANGED <<lunVars, scsiVars, state, cmdVars, userVars, hostVars,
                   graced>>

EjectClose ==
    /\ KStep("ejectClose", "ejectUpWrite")
    /\ filp' = NoFile
    /\ UNCHANGED <<ro, initially_ro, scsiVars, semVars, state, cmdVars,
                   userVars, hostVars, graced>>

CommandUpRead ==
    /\ KStep("up", "finish")
    /\ UpRead(Kthread)
    /\ UNCHANGED <<lunVars, scsiVars, state, cmdVars, userVars, hostVars,
                   graced>>

\* finish_reply: a host that stops sending early ends in ABORT_BULK_OUT,
\* whose handler sends the status.
FinishReply ==
    /\ kpc = "finish"
    /\ \/ kpc' = "status" /\ UNCHANGED state
       \/ /\ cmnd = "WRITE"
          /\ state' = IF state \in Preempts("ABORT_BULK_OUT")
                      THEN "ABORT_BULK_OUT" ELSE state
          /\ kpc' = "idle"
    /\ UNCHANGED <<lunVars, scsiVars, semVars, cmdVars, userVars, hostVars,
                   graced>>

\* send_status, and what the host makes of the CSW if it still waits for it.
SendStatus ==
    /\ KStep("status", "idle")
    /\ IF state # "NORMAL" THEN UNCHANGED hostVars
       ELSE IF sense_data # "NO_SENSE" /\ cmnd # "REQUEST_SENSE"
            THEN hostAsk' = TRUE /\ UNCHANGED hostView
            ELSE /\ hostAsk' = FALSE
                 /\ hostView' =
                      CASE cmnd \in {"READ", "WRITE"} -> served
                        [] cmnd = "EJECT" -> NoFile
                        [] cmnd = "REQUEST_SENSE" /\ answer \in MediumSense
                             -> NoFile
                        [] OTHER -> hostView
    /\ NoCommand
    /\ UNCHANGED <<lunVars, scsiVars, semVars, state, userVars, graced>>

\* A signal sends the kthread back to its main loop without a status.
Interrupted ==
    /\ kpc \in {"down", "finish", "status"}
    /\ kpc = "down" => Kthread \notin semHandoff   \* down_read cannot be
    /\ state # "NORMAL"
    /\ kpc' = "idle"
    /\ NoCommand
    /\ UNCHANGED <<lunVars, scsiVars, semVars, state, userVars, hostVars,
                   graced>>

-----------------------------------------------------------------------------
(* Exceptions.                                                             *)

\* __raise_exception.
RaiseException(new) ==
    state' = IF state \in Preempts(new) THEN new ELSE state

\* fsg_setup: the host's Bulk-Only Mass Storage Reset.
BulkReset ==
    /\ "PROTOCOL_RESET" \in Exceptions
    /\ kpc \notin {"exitDown", "exitClose", "exitUp", "dead"}
    /\ RaiseException("PROTOCOL_RESET")
    /\ hostAsk' = FALSE
    /\ hostView' = IF HostForgetsOnReset THEN NoFile ELSE hostView
    /\ UNCHANGED <<lunVars, scsiVars, semVars, kpc, cmdVars, userVars, graced>>

\* fsg_set_alt: the host (re-)enumerates the device.
SetAlt ==
    /\ "CONFIG_CHANGE" \in Exceptions
    /\ kpc \notin {"exitDown", "exitClose", "exitUp", "dead"}
    /\ RaiseException("CONFIG_CHANGE")
    /\ hostAsk' = FALSE /\ hostView' = NoFile
    /\ UNCHANGED <<lunVars, scsiVars, semVars, kpc, cmdVars, userVars, graced>>

\* A signal other than SIGUSR1 ends the thread; the device disappears.
KillThread ==
    /\ "EXIT" \in Exceptions
    /\ kpc \notin {"exitDown", "exitClose", "exitUp", "dead"}
    /\ state' = "EXIT"
    /\ hostAsk' = FALSE /\ hostView' = NoFile
    /\ UNCHANGED <<lunVars, scsiVars, semVars, kpc, cmdVars, userVars, graced>>

\* handle_exception: all exceptions but one reset the SCSI state.
ClearsAlways(old) == TRUE
ClearsScsiState(old) == old # "ABORT_BULK_OUT"

\* handle_exception up to the reset of the SCSI state, which holds
\* common->lock and not filesem, and the status of an ABORT_BULK_OUT.
HandleException ==
    /\ kpc = "idle" /\ state \notin {"NORMAL", "TERMINATED"}
    /\ state' = IF state = "EXIT" THEN "TERMINATED" ELSE "NORMAL"
    /\ kpc' = CASE state = "ABORT_BULK_OUT" -> "status"
                [] state = "PROTOCOL_RESET" -> "idle"
                [] state = "CONFIG_CHANGE"  -> "reconfigure"
                [] OTHER -> "exitDown"
    /\ IF ClearsScsiState(state)
       THEN /\ prevent_medium_removal' = FALSE
            /\ sense_data' = "NO_SENSE"
            /\ unit_attention_data' = "NO_SENSE"
       ELSE UNCHANGED scsiVars
    /\ UNCHANGED <<lunVars, semVars, cmdVars, userVars, hostVars, graced>>

\* do_set_interface, after a CONFIG_CHANGE.
DoSetInterface ==
    /\ KStep("reconfigure", "idle")
    /\ unit_attention_data' = "RESET_OCCURRED"
    /\ UNCHANGED <<lunVars, prevent_medium_removal, sense_data, semVars,
                   state, cmdVars, userVars, hostVars, graced>>

\* fsg_main_thread ejects the medium on its way out.
ExitThread ==
    /\ \/ KStep("exitDown", "exitClose") /\ DownWrite(Kthread)
          /\ UNCHANGED filp
       \/ KStep("exitClose", "exitUp") /\ filp' = NoFile
          /\ UNCHANGED semVars
       \/ KStep("exitUp", "dead") /\ UpWrite(Kthread) /\ UNCHANGED filp
    /\ UNCHANGED <<ro, initially_ro, scsiVars, state, cmdVars, userVars,
                   hostVars, graced>>

-----------------------------------------------------------------------------
(* Userspace: the stores to lun0_file, lun0_ro and forced_eject.           *)

UStep(u, from, to) == pc[u] = from /\ pc' = [pc EXCEPT ![u] = to]

\* fsg_store_file looks at the door before it takes filesem.
DoorForgotten == FALSE
DoorIsLocked == prevent_medium_removal /\ IsOpen

\* fsg_store_forced_eject unlocks the door, then stores an empty name.
ForcedEject(u) ==
    /\ UStep(u, "idle", "forced")
    /\ prevent_medium_removal' = FALSE
    /\ UNCHANGED <<lunVars, sense_data, unit_attention_data, semVars, state,
                   kpc, cmdVars, file, hostVars, graced>>

StoreRefused(u) ==
    /\ pc[u] \in {"idle", "forced"}
    /\ DoorIsLocked
    /\ pc' = [pc EXCEPT ![u] = "idle"]
    /\ UNCHANGED <<lunVars, scsiVars, semVars, state, kpc, cmdVars, file,
                   hostVars, graced>>

StoreFile(u, f) ==
    /\ pc[u] \in {"idle", "forced"}
    /\ pc[u] = "forced" => f = NoFile
    /\ ~DoorIsLocked
    /\ pc' = [pc EXCEPT ![u] = "down"]
    /\ file' = [file EXCEPT ![u] = f]
    /\ UNCHANGED <<lunVars, scsiVars, semVars, state, kpc, cmdVars, hostVars,
                   graced>>

StoreSharingLock(u) ==
    /\ UStep(u, "down", "open")
    /\ DownRead(u)
    /\ UNCHANGED <<lunVars, scsiVars, state, kpc, cmdVars, file, hostVars,
                   graced>>

StoreDownWrite(u) ==
    /\ UStep(u, "down", "open")
    /\ DownWrite(u)
    /\ UNCHANGED <<lunVars, scsiVars, state, kpc, cmdVars, file, hostVars,
                   graced>>

StoreOpenKeepingLock(u) ==
    /\ pc[u] = "open" /\ file[u] # NoFile
    /\ \/ pc' = [pc EXCEPT ![u] = "idle"] /\ UNCHANGED filp
       \/ pc' = [pc EXCEPT ![u] = "assign"] /\ filp' = NoFile
    /\ UNCHANGED <<ro, initially_ro, scsiVars, semVars, state, kpc, cmdVars,
                   file, hostVars, graced>>

\* fsg_lun_open: the file is refused, or the old one is closed ...
StoreOpen(u) ==
    /\ pc[u] = "open" /\ file[u] # NoFile
    /\ \/ pc' = [pc EXCEPT ![u] = "up"] /\ UNCHANGED filp
       \/ pc' = [pc EXCEPT ![u] = "assign"] /\ filp' = NoFile
    /\ UNCHANGED <<ro, initially_ro, scsiVars, semVars, state, kpc, cmdVars,
                   file, hostVars, graced>>

\* ... and the new one takes its place, read-only if it must be.
StoreAssign(u) ==
    /\ UStep(u, "assign", "notify")
    /\ filp' = file[u]
    /\ ro' = (initially_ro \/ file[u] \in ReadOnlyFiles)
    /\ graced' = IF prevent_medium_removal THEN PastCheck ELSE graced
    /\ UNCHANGED <<initially_ro, scsiVars, semVars, state, kpc, cmdVars,
                   file, hostVars>>

StoreClose(u) ==
    /\ pc[u] = "open" /\ file[u] = NoFile
    /\ pc' = [pc EXCEPT ![u] = IF IsOpen THEN "notify" ELSE "up"]
    /\ filp' = NoFile
    /\ UNCHANGED <<ro, initially_ro, scsiVars, semVars, state, kpc, cmdVars,
                   file, hostVars, graced>>

StoreSilently(u) ==
    /\ UStep(u, "notify", "up")
    /\ UNCHANGED <<lunVars, scsiVars, semVars, state, kpc, cmdVars, file,
                   hostVars, graced>>

StoreNotify(u) ==
    /\ UStep(u, "notify", "up")
    /\ unit_attention_data' = IF file[u] = NoFile
                              THEN "MEDIUM_NOT_PRESENT"
                              ELSE "NOT_READY_TO_READY_TRANSITION"
    /\ UNCHANGED <<lunVars, prevent_medium_removal, sense_data, semVars,
                   state, kpc, cmdVars, file, hostVars, graced>>

StoreUpWrite(u) ==
    /\ UStep(u, "up", "idle")
    /\ UpWrite(u)
    /\ file' = [file EXCEPT ![u] = NoFile]
    /\ UNCHANGED <<lunVars, scsiVars, state, kpc, cmdVars, hostVars, graced>>

StoreRoDownRead(u) ==
    /\ UStep(u, "idle", "setRo")
    /\ DownRead(u)
    /\ UNCHANGED <<lunVars, scsiVars, state, kpc, cmdVars, file, hostVars,
                   graced>>

\* _fsg_store_ro refuses while a file is open.
RoAlwaysChanges == TRUE
RoMayChange == ~IsOpen

StoreRo(u, value) ==
    /\ UStep(u, "setRo", "upRead")
    /\ IF RoMayChange THEN ro' = value /\ initially_ro' = value
                      ELSE UNCHANGED <<ro, initially_ro>>
    /\ UNCHANGED <<filp, scsiVars, semVars, state, kpc, cmdVars, file,
                   hostVars, graced>>

StoreRoUpRead(u) ==
    /\ UStep(u, "upRead", "idle")
    /\ UpRead(u)
    /\ UNCHANGED <<lunVars, scsiVars, state, kpc, cmdVars, file, hostVars,
                   graced>>

-----------------------------------------------------------------------------
Waiters == {u \in Writers : pc[u] = "down"} \union
           (IF kpc \in {"down", "ejectDown", "ejectDownRead", "exitDown"}
            THEN {Kthread} ELSE {})

Handoff(t) ==
    /\ t \in Waiters
    /\ semReaders \union semWriter # {} /\ semHandoff = {}
    /\ semHandoff' = {t}
    /\ UNCHANGED <<lunVars, scsiVars, semReaders, semWriter, state, kpc,
                   cmdVars, userVars, hostVars, graced>>

\* The kthread's own steps, once it has a command or an exception.
KthreadStep ==
    \/ CommandDownRead \/ ReportUnitAttention \/ ReportNoMedium
    \/ AcceptCommand \/ DoNothing \/ DoRequestSense \/ DoRead \/ DoWrite
    \/ DoPreventAllow \/ DoStartStop \/ EjectLocking \/ EjectClose
    \/ CommandUpRead \/ FinishReply \/ SendStatus \/ Interrupted
    \/ HandleException \/ DoSetInterface \/ ExitThread

HostStep == (\E c \in HostCommands : ReceivedCbw(c)) \/ BulkReset \/ SetAlt

\* The steps of a store that has begun.
FinishStore(u) ==
    \/ StoreDownWrite(u) \/ StoreOpen(u) \/ StoreAssign(u) \/ StoreClose(u)
    \/ StoreNotify(u) \/ StoreUpWrite(u)
    \/ (\E value \in RoValues : StoreRo(u, value)) \/ StoreRoUpRead(u)

BeginStore(u) ==
    \/ ForcedEject(u) \/ StoreRefused(u) \/ StoreRoDownRead(u)
    \/ \E f \in Media \union {NoFile} : StoreFile(u, f)

Next ==
    \/ KthreadStep \/ HostStep \/ KillThread
    \/ \E u \in Writers : BeginStore(u) \/ FinishStore(u)
    \/ \E t \in Writers \union {Kthread} : Handoff(t)

Spec == Init /\ [][Next]_vars

(* The kthread and a store inside the kernel run until they return; where  *)
(* they wait for filesem they are only now and then able to take it, and   *)
(* are handed it in the end.  Neither the host nor userspace need ever     *)
(* begin anything.                                                         *)
Fairness ==
    /\ SF_vars(KthreadStep)
    /\ \A u \in Writers : SF_vars(FinishStore(u))
    /\ \A t \in Writers \union {Kthread} : SF_vars(Handoff(t))

FairSpec == Spec /\ Fairness

(* A host that keeps polling for a medium, as a desktop does: TEST UNIT    *)
(* READY, and REQUEST SENSE when that fails.                               *)
HostPolls ==
    /\ SF_vars(ReceivedCbw("TEST_UNIT_READY"))
    /\ SF_vars(ReceivedCbw("REQUEST_SENSE"))

PollingSpec == FairSpec /\ HostPolls

-----------------------------------------------------------------------------
(* Properties.                                                             *)

(* Once check_command has accepted a command that needs the medium, the    *)
(* backing file is there until the command is done: neither a store nor    *)
(* the exit of the thread closes it underneath do_read or do_write.        *)
MediumHeldDuringCommand ==
    kpc = "execute" /\ cmnd \in NeedsMedium => IsOpen

(* The host is never served from a medium other than the one it has cached *)
(* data of: the unit attention that fsg_store_file leaves reaches it       *)
(* first, through whatever commands, aborts and resets come between.       *)
ServedKnownMedium ==
    kpc = "execute" /\ cmnd \in NeedsMedium => hostView \in {NoFile, filp}

(* The door check of fsg_store_file is made before filesem is taken, so a  *)
(* store that had passed it when the host locked the door may still take   *)
(* the medium away; but no store that came later gets past it.             *)
DoorHoldsForLaterStores ==
    prevent_medium_removal /\ IsOpen => PastCheck \subseteq graced

(* While a medium is in the drive it is read-only exactly if userspace     *)
(* asked for that before it was inserted or its file cannot be written:    *)
(* no store to lun0_ro changes the status underneath the host.             *)
ReadOnlyAsOpened ==
    IsOpen => ro = (initially_ro \/ filp \in ReadOnlyFiles)

(* The kthread and the userspace threads implement FloppyDrive.            *)
Drive == INSTANCE FloppyDrive WITH medium <- filp
ImplementsDrive == Drive!Spec

(* Every store that got past the door check returns, even against a host   *)
(* that never stops sending commands.                                      *)
StoreCompletes ==
    \A u \in Writers : pc[u] \notin {"idle", "forced"} ~> pc[u] = "idle"

(* The kthread always comes back from a command or an exception, however   *)
(* the locks of do_start_stop and of the stores interleave.                *)
CommandCompletes ==
    kpc \notin {"idle", "dead"} ~> kpc \in {"idle", "dead"}

(* A polling host whose cached medium has been replaced finds out.         *)
HostLearnsOfChange ==
    (IsOpen /\ hostView \notin {NoFile, filp})
        ~> (hostView \in {NoFile, filp} \/ ~IsOpen)
=============================================================================
