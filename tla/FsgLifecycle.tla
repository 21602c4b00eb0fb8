----------------------------- MODULE FsgLifecycle -----------------------------
(***************************************************************************)
(* The life of the mass storage function: g_floppy loads it and unloads    *)
(* it, the host configures, resets and loses it, its kthread puts the      *)
(* interface up and down, and userspace writes to the LUN through the      *)
(* sysfs class of g_floppy and through the device of the LUN itself.       *)
(*                                                                         *)
(* The module thread, the kthread, the interrupt handlers of the           *)
(* controller and the stores interleave at every access to what they       *)
(* share.  What the kthread does with the interface once it is up is       *)
(* reduced to requests that it queues and waits for (DataPath has them),   *)
(* the LUN to whether its file is open (FloppyLun).                        *)
(*                                                                         *)
(* A host that has not got the status of SET_CONFIGURATION waits or resets *)
(* the bus; one that has not got that of a bulk reset may ask for          *)
(* something else.  The kthread may be killed once.                        *)
(***************************************************************************)
EXTENDS Naturals

CONSTANTS
    Users,      \* threads of userspace that write to a file attribute:
    LunUsers,   \* these to that of the LUN's device, the others to lun0_file
    MaxLost,    \* how often fsg_alloc_inst may fail halfway
    LoadFaults, \* the steps of loading that may fail
    UsbFaults   \* the steps of putting the interface up that may fail

Endpoints == {"in", "out"}
\* The device is the one of the LUN, under the controller's.
Objects == {"common", "buffers", "lun", "device", "fsg"}

FallibleLoadSteps == {"allocBuffers", "createLun", "setBuffers", "setCdev",
                      "createLuns", "openLun", "strings", "getFunction",
                      "runThread", "autoconf", "register"}

ASSUME FsgLifecycleAssumption ==
    /\ LunUsers \subseteq Users
    /\ MaxLost \in Nat
    /\ LoadFaults \subseteq FallibleLoadSteps
    /\ UsbFaults \subseteq {"enable", "allocate"}

VARIABLES
    mpc,        \* the module thread: between the calls of msg_bind, msg_unbind
    alive,      \* the objects that are allocated
    active,     \* floppy_active_common points to the common
    class,      \* the sysfs class device can be opened
    notify,     \* notify_kobj points to that device
    refs,       \* floppy_throttle_refcnt
    file,       \* the LUN has a file open
    upc,        \* the stores: "idle" or, with the LUN in hand, "store"
    state,      \* common->state
    arg,        \* exception_arg is the function, not NULL
    fresh,      \* exception_req_tag = ep0_req_tag
    signals,    \* those pending for the kthread: "USR1", "KILL"
    task,       \* thread_task is set
    notified,   \* thread_notifier has been completed
    kpc,        \* the kthread
    old,        \* its old_state
    newFsg,     \* its new_fsg is the function, not NULL
    failed,     \* its rc of the last do_set_interface
    mine,       \* its exception_req_tag = ep0_req_tag
    iface,      \* common->fsg is the function
    running,    \* common->running
    enabled,    \* the endpoints that fsg->bulk_*_enabled say are enabled
    hardware,   \* those that the controller has enabled
    reqs,       \* the usb_requests are allocated
    queued,     \* the endpoints with a request in flight
    attached,   \* the controller delivers what the host does
    configured, \* cdev->config is set
    delayed,    \* cdev->delayed_status
    ctrl,       \* the control request that the host waits for
    irq,        \* fsg_disable: "idle", or "raise" when it is half done
    killed,     \* history: userspace has sent SIGKILL, SIGTERM or SIGINT
    raced,      \* history: fsg_unbind looked while new_fsg was on its way in
    overtaken,  \* history: a request was given up while it was being answered
    aborted,    \* history: the last load failed in fsg_alloc_inst
    lost,       \* history: how many did
    reopened    \* history: a store has opened a file in a LUN being released

objectVars == <<alive, active, class, notify, refs, file>>
excVars    == <<state, arg, fresh, signals>>
threadVars == <<task, notified>>
localVars  == <<old, newFsg, failed, mine>>
ifaceVars  == <<iface, running, enabled, hardware, reqs, queued>>
lossVars   == <<aborted, lost, reopened>>
historyVars == <<killed, raced, overtaken, lossVars>>
hostVars   == <<attached, configured, delayed, ctrl, irq>>
vars == <<mpc, objectVars, upc, excVars, threadVars, kpc, localVars,
          ifaceVars, hostVars, historyVars>>

States == {"NORMAL", "PROTOCOL_RESET", "CONFIG_CHANGE", "EXIT", "TERMINATED"}

Loading == FallibleLoadSteps \union
    {"assignTask", "exitBind", "joinBind", "putFunction", "removeLuns",
     "failLun", "closeLun", "freeBuffers"}
Unloading == {"sync", "unbind", "raise", "waitIface", "dropKobj", "destroy",
              "drain", "freeFunction"}
Releasing == {"release", "join", "free", "dropLun", "drainLun"}

TypeOK ==
    /\ mpc \in {"unloaded", "up"} \union Loading \union Unloading
                  \union Releasing
    /\ alive \subseteq Objects
    /\ active \in BOOLEAN /\ class \in BOOLEAN /\ notify \in BOOLEAN
    /\ refs \in 0..(MaxLost + 1) /\ file \in BOOLEAN
    /\ upc \in [Users -> {"idle", "store"}]
    /\ state \in States
    /\ arg \in BOOLEAN /\ fresh \in BOOLEAN
    /\ signals \subseteq {"USR1", "KILL"}
    /\ task \in BOOLEAN /\ notified \in BOOLEAN
    /\ kpc \in {"none", "start", "top", "sleep", "io", "notify", "cancel",
                "reset", "ep0", "drop", "disable", "unset", "down", "in",
                "inFlag", "out", "outFlag", "allocate", "done", "continue",
                "close", "complete"}
    /\ old \in States
    /\ newFsg \in BOOLEAN /\ failed \in BOOLEAN /\ mine \in BOOLEAN
    /\ iface \in BOOLEAN /\ running \in BOOLEAN /\ reqs \in BOOLEAN
    /\ enabled \subseteq Endpoints /\ hardware \subseteq Endpoints
    /\ queued \subseteq Endpoints
    /\ attached \in BOOLEAN /\ configured \in BOOLEAN /\ delayed \in BOOLEAN
    /\ ctrl \in {"none", "config", "reset"}
    /\ irq \in {"idle", "raise"}
    /\ killed \in BOOLEAN /\ raced \in BOOLEAN /\ overtaken \in BOOLEAN
    /\ aborted \in BOOLEAN /\ lost \in 0..MaxLost /\ reopened \in BOOLEAN

\* g_floppy is not loaded.
Init ==
    /\ mpc = "unloaded" /\ alive = {} /\ active = FALSE /\ class = FALSE
    /\ notify = FALSE /\ refs = 0 /\ file = FALSE
    /\ upc = [u \in Users |-> "idle"]
    /\ state = "TERMINATED" /\ arg = FALSE /\ fresh = FALSE /\ signals = {}
    /\ task = FALSE /\ notified = FALSE
    /\ kpc = "none" /\ old = "NORMAL" /\ newFsg = FALSE /\ failed = FALSE
    /\ mine = FALSE
    /\ iface = FALSE /\ running = FALSE /\ enabled = {} /\ hardware = {}
    /\ reqs = FALSE /\ queued = {}
    /\ attached = FALSE /\ configured = FALSE /\ delayed = FALSE
    /\ ctrl = "none" /\ irq = "idle"
    /\ killed = FALSE /\ raced = FALSE /\ overtaken = FALSE
    /\ aborted = FALSE /\ lost = 0 /\ reopened = FALSE

MGoto(to) == mpc' = to
MStep(from, to) == mpc = from /\ MGoto(to)
KGoto(to) == kpc' = to
KStep(from, to) == kpc = from /\ KGoto(to)

-----------------------------------------------------------------------------
(* Exceptions.                                                             *)

\* The order of enum fsg_state.
Rank == [NORMAL |-> 0, PROTOCOL_RESET |-> 2, CONFIG_CHANGE |-> 3, EXIT |-> 4,
         TERMINATED |-> 5]

PreemptsLower(new) == Rank[state] < Rank[new]

Preempts(new) == Rank[state] <= Rank[new]

\* __raise_exception.  tag says whether exception_req_tag is ep0_req_tag if
\* the exception is not taken.  SIGUSR1 is lost before allow_signal.
Raise(new, isFsg, tag) ==
    IF Preempts(new)
    THEN /\ state' = new /\ arg' = isFsg /\ fresh' = TRUE
         /\ signals' = IF task /\ kpc # "start"
                       THEN signals \union {"USR1"} ELSE signals
    ELSE fresh' = tag /\ UNCHANGED <<state, arg, signals>>

\* The kthread is at work on a control request: the host gives it up.
Answering == kpc \in {"reset", "ep0"} \/ newFsg

\* fsg_disable first disables the endpoints, and then raises (IrqRaise).
\* The controller gives their requests back.
DisableFromIrq ==
    /\ hardware' = hardware \ enabled
    /\ queued' = queued \ enabled
    /\ enabled' = {}
    /\ irq' = "raise"

\* composite_disconnect, which also ends the control request.
LoseHost ==
    /\ configured' = FALSE /\ delayed' = FALSE /\ ctrl' = "none"
    /\ overtaken' = (overtaken \/ Answering)
    /\ IF configured THEN DisableFromIrq
       ELSE UNCHANGED <<hardware, queued, enabled, irq>>

-----------------------------------------------------------------------------
(* Loading: msg_bind.                                                      *)

\* usb_get_function_instance: fsg_alloc_inst, to where it has the common and
\* has counted itself.  What a killed thread does that outlives its common is
\* not pursued.
Load ==
    /\ kpc = "none"
    /\ MStep("unloaded", "allocBuffers")
    /\ alive' = {"common"} /\ active' = TRUE /\ file' = FALSE
    /\ refs' = refs + 1
    /\ state' = "TERMINATED" /\ arg' = FALSE /\ fresh' = FALSE
    /\ signals' = {} /\ task' = FALSE /\ notified' = FALSE
    /\ notify' = FALSE /\ failed' = FALSE
    /\ killed' = FALSE /\ raced' = FALSE /\ overtaken' = FALSE
    /\ aborted' = FALSE /\ reopened' = FALSE
    /\ UNCHANGED <<class, upc, kpc, old, newFsg, mine, ifaceVars, hostVars,
                   lost>>

SkipsToTheEnd(step, to) == step \in LoadFaults /\ MStep(step, "release")
FailAt(step, to) == step \in LoadFaults /\ MStep(step, to)

\* The rest of fsg_alloc_inst, whose LUN has no device and no file.
AllocInst ==
    /\ \/ /\ MStep("allocBuffers", "createLun")
          /\ alive' = alive \union {"buffers"}
       \/ /\ MStep("createLun", "setBuffers")
          /\ alive' = alive \union {"lun"}
    /\ UNCHANGED <<active, class, notify, refs, file, upc, excVars, threadVars,
                   kpc, localVars, ifaceVars, hostVars, historyVars>>

\* Its release_buffers and release_common free what there is, but neither
\* clear floppy_active_common nor take back the reference to the throttle.
LoseInst ==
    /\ FailAt("allocBuffers", "unloaded") \/ FailAt("createLun", "unloaded")
    /\ lost < MaxLost
    /\ alive' = {}
    /\ aborted' = TRUE /\ lost' = lost + 1
    /\ UNCHANGED <<active, class, notify, refs, file, upc, excVars, threadVars,
                   kpc, localVars, ifaceVars, hostVars, killed, raced,
                   overtaken, reopened>>

\* The calls that change nothing of this when they succeed or fail.
Attempt ==
    /\ \/ MStep("setBuffers", "setCdev") \/ FailAt("setBuffers", "release")
       \/ MStep("setCdev", "createLuns") \/ FailAt("setCdev", "freeBuffers")
       \/ MStep("strings", "getFunction") \/ FailAt("strings", "removeLuns")
       \/ FailAt("getFunction", "removeLuns")
       \/ FailAt("runThread", "putFunction")
       \/ MStep("autoconf", "register") \/ FailAt("autoconf", "exitBind")
    /\ UNCHANGED <<objectVars, upc, excVars, threadVars, kpc, localVars,
                   ifaceVars, hostVars, historyVars>>

\* fsg_common_create_luns removes the LUN of fsg_alloc_inst first, and makes
\* one with a device.
CreateLuns ==
    /\ \/ MStep("createLuns", "openLun") /\ alive' = alive \union {"device"}
       \/ FailAt("createLuns", "freeBuffers") /\ alive' = alive \ {"lun"}
    /\ file' = FALSE
    /\ UNCHANGED <<active, class, notify, refs, upc, excVars, threadVars, kpc,
                   localVars, ifaceVars, hostVars, historyVars>>

\* Its file, if one is configured.  A store may have opened another already;
\* error_lun removes the device, but does not close that.
OpenLun ==
    /\ \/ MStep("openLun", "strings") /\ file' \in {file, TRUE}
          /\ UNCHANGED <<alive, reopened>>
       \/ FailAt("openLun", "failLun") /\ alive' = alive \ {"device"}
          /\ reopened' = (reopened \/ file) /\ UNCHANGED file
    /\ UNCHANGED <<active, class, notify, refs, upc, excVars, threadVars, kpc,
                   localVars, ifaceVars, hostVars, killed, raced, overtaken,
                   aborted, lost>>

GetFunction ==
    /\ MStep("getFunction", "runThread")
    /\ alive' = alive \union {"fsg"}
    /\ UNCHANGED <<active, class, notify, refs, file, upc, excVars,
                   threadVars, kpc, localVars, ifaceVars, hostVars,
                   historyVars>>

\* fsg_bind: the thread may run before thread_task is set.
RunThread ==
    /\ MStep("runThread", "assignTask")
    /\ state' = "NORMAL"
    /\ kpc' = "start"
    /\ UNCHANGED <<objectVars, upc, arg, fresh, signals, threadVars, localVars,
                   ifaceVars, hostVars, historyVars>>

AssignTask ==
    /\ MStep("assignTask", "autoconf")
    /\ task' = TRUE
    /\ UNCHANGED <<objectVars, upc, excVars, notified, kpc, localVars,
                   ifaceVars, hostVars, historyVars>>

\* If the thread has not ended, tell it to exit, and wait for it.
EndThread(from, join, next) ==
    IF state # "TERMINATED"
    THEN MStep(from, join) /\ Raise("EXIT", FALSE, fresh)
    ELSE MStep(from, next) /\ UNCHANGED excVars

ExitBind ==
    /\ EndThread("exitBind", "joinBind", "putFunction")
    /\ UNCHANGED <<objectVars, upc, threadVars, kpc, localVars, ifaceVars,
                   hostVars, historyVars>>

\* wait_for_completion(&common->thread_notifier).
Join ==
    /\ MStep("joinBind", "putFunction") \/ MStep("join", "free")
    /\ notified /\ notified' = FALSE
    /\ UNCHANGED <<objectVars, upc, excVars, task, kpc, localVars, ifaceVars,
                   hostVars, historyVars>>

\* device_unregister waits for the stores that came through the device.
NoLunStore == \A u \in LunUsers : upc[u] = "idle"

\* The function, its LUNs and its buffers go one after the other;
\* fsg_common_remove_luns closes a LUN that has no device any more.
Undo ==
    /\ \/ /\ \/ MStep("putFunction", "removeLuns")
             \/ MStep("freeFunction", "release")
          /\ alive' = alive \ {"fsg"} /\ UNCHANGED file
       \/ /\ MStep("removeLuns", "closeLun")
          /\ alive' = alive \ {"device"} /\ UNCHANGED file
       \/ /\ MStep("closeLun", "freeBuffers") /\ NoLunStore
          /\ alive' = alive \ {"lun"} /\ file' = FALSE
       \/ /\ MStep("failLun", "freeBuffers") /\ NoLunStore
          /\ alive' = alive \ {"lun"} /\ UNCHANGED file
       \/ /\ MStep("freeBuffers", "release")
          /\ alive' = alive \ {"buffers"} /\ UNCHANGED file
    /\ UNCHANGED <<active, class, notify, refs, upc, excVars, threadVars, kpc,
                   localVars, ifaceVars, hostVars, historyVars>>

\* usb_floppy_sysfs_register, after which the controller is started.
Register ==
    /\ MStep("register", "up")
    /\ \/ class' = TRUE /\ notify' = TRUE
       \/ "register" \in LoadFaults /\ UNCHANGED <<class, notify>>
    /\ attached' = TRUE
    /\ UNCHANGED <<alive, active, refs, file, upc, excVars, threadVars, kpc,
                   localVars, ifaceVars, configured, delayed, ctrl, irq,
                   historyVars>>

-----------------------------------------------------------------------------
(* Unloading: the composite framework, then msg_unbind.                    *)

Unload ==
    /\ irq = "idle"
    /\ MStep("up", "sync")
    /\ attached' = FALSE
    /\ LoseHost
    /\ UNCHANGED <<objectVars, upc, excVars, threadVars, kpc, localVars,
                   iface, running, reqs, killed, raced, lossVars>>

\* The function is about to become the interface, although fsg_unbind has
\* seen that it is not.
ComingUp ==
    newFsg /\ ~failed /\ kpc \in {"drop", "disable", "unset", "down"}

GoneAtOnce == TRUE
Gone == ~iface

\* fsg_unbind, once no interrupt handler runs any more.
Unbind ==
    /\ \/ MStep("sync", "unbind") /\ irq = "idle" /\ UNCHANGED raced
       \/ MStep("unbind", "raise") /\ ~Gone /\ UNCHANGED raced
       \/ /\ MStep("unbind", "dropKobj") \/ MStep("waitIface", "dropKobj")
          /\ Gone /\ raced' = (raced \/ ComingUp)
    /\ UNCHANGED <<objectVars, upc, excVars, threadVars, kpc, localVars,
                   ifaceVars, hostVars, killed, overtaken, lossVars>>

UnbindRaise ==
    /\ MStep("raise", "waitIface")
    /\ Raise("CONFIG_CHANGE", FALSE, fresh)
    /\ UNCHANGED <<objectVars, upc, threadVars, kpc, localVars, ifaceVars,
                   hostVars, historyVars>>

\* usb_floppy_sysfs_unregister: device_destroy waits for running stores.
Unregister ==
    /\ \/ MStep("dropKobj", "destroy") /\ notify' = FALSE /\ UNCHANGED class
       \/ MStep("destroy", "drain") /\ class' = FALSE /\ UNCHANGED notify
       \/ /\ MStep("drain", "freeFunction")
          /\ \A u \in Users \ LunUsers : upc[u] = "idle"
          /\ UNCHANGED <<class, notify>>
    /\ UNCHANGED <<alive, active, refs, file, upc, excVars, threadVars, kpc,
                   localVars, ifaceVars, hostVars, historyVars>>

\* usb_put_function_instance: fsg_free_inst, fsg_common_release.
Release ==
    /\ EndThread("release", "join", "free")
    /\ active' = FALSE
    /\ UNCHANGED <<alive, class, notify, refs, file, upc, threadVars, kpc,
                   localVars, ifaceVars, hostVars, historyVars>>

InstancesForgotten == refs
InstancesLeft == refs - 1

\* The rest of fsg_common_release: the LUN is closed, its device goes, and
\* what a store has opened between the two stays open.
Free ==
    /\ \/ /\ MStep("free", "dropLun")
          /\ file' = (file /\ "lun" \notin alive) /\ UNCHANGED <<alive, refs>>
       \/ /\ MStep("dropLun", "drainLun")
          /\ alive' = alive \ {"device"} /\ UNCHANGED <<file, refs>>
       \/ /\ MStep("drainLun", "unloaded") /\ NoLunStore
          /\ alive' = alive \ {"common", "buffers", "lun"}
          /\ refs' = InstancesLeft /\ UNCHANGED file
    /\ UNCHANGED <<active, class, notify, upc, excVars, threadVars, kpc,
                   localVars, ifaceVars, hostVars, historyVars>>

-----------------------------------------------------------------------------
(* The kthread: fsg_main_thread.                                           *)

Exception == state # "NORMAL"

CalledBySignal == signals # {}
Called == Exception \/ signals # {}

KStart ==
    /\ KStep("start", "top")
    /\ UNCHANGED <<mpc, objectVars, upc, excVars, threadVars, localVars,
                   ifaceVars, hostVars, historyVars>>

\* The head of the loop; handle_exception takes the signals first.
KHead ==
    /\ kpc = "top"
    /\ \/ /\ state = "TERMINATED"
          /\ task' = FALSE
          /\ KGoto("close") /\ UNCHANGED <<state, signals>>
       \/ /\ state # "TERMINATED" /\ Called
          /\ signals' = {}
          /\ state' = IF "KILL" \in signals THEN "EXIT" ELSE state
          /\ KGoto("cancel") /\ UNCHANGED task
       \/ /\ state # "TERMINATED" /\ ~Called /\ ~running
          /\ KGoto("sleep") /\ UNCHANGED <<state, signals, task>>
    /\ UNCHANGED <<mpc, objectVars, upc, arg, fresh, notified, localVars,
                   ifaceVars, hostVars, historyVars>>

\* A command: requests are queued, waited for, and accounted for.
KServe ==
    /\ kpc = "top" /\ ~Called /\ running
    /\ \E es \in (SUBSET hardware) \ {{}} : queued' = queued \union es
    /\ KGoto("io")
    /\ UNCHANGED <<mpc, objectVars, upc, excVars, threadVars, localVars,
                   iface, running, enabled, hardware, reqs, hostVars,
                   historyVars>>

\* sleep_thread, and floppy_io_event_record with the notify_kobj it has read.
KWait ==
    /\ \/ KStep("sleep", "top") /\ signals # {}
       \/ KStep("io", "top") /\ (signals # {} \/ queued = {})
       \/ KStep("io", "notify") /\ queued = {} /\ notify
       \/ KStep("notify", "top")
    /\ UNCHANGED <<mpc, objectVars, upc, excVars, threadVars, localVars,
                   ifaceVars, hostVars, historyVars>>

SomeIdle == \E e \in Endpoints : e \notin queued
AllIdle == queued = {}

\* The requests in flight are dequeued; a signal starts it again.
KCancelInterrupted ==
    /\ KStep("cancel", "top")
    /\ ~AllIdle /\ signals # {}
    /\ UNCHANGED <<mpc, objectVars, upc, excVars, threadVars, localVars,
                   ifaceVars, hostVars, historyVars>>

Handler(exc) ==
    IF exc = "NORMAL" THEN "top"
    ELSE IF exc = "PROTOCOL_RESET" THEN "reset" ELSE "drop"

\* A disconnect has ended the request, but not yet raised its exception.
HalfDisconnected == irq = "raise" /\ (state = "PROTOCOL_RESET" \/ newFsg')

\* When all is idle the exception is taken.
KTake ==
    /\ kpc = "cancel"
    /\ AllIdle
    /\ old' = state /\ newFsg' = (state = "CONFIG_CHANGE" /\ arg)
    /\ mine' = fresh
    /\ state' = "NORMAL"
    /\ KGoto(Handler(state))
    /\ failed' = (failed /\ state \notin {"CONFIG_CHANGE", "EXIT"})
    /\ overtaken' = (overtaken \/ HalfDisconnected)
    /\ UNCHANGED <<mpc, objectVars, upc, arg, fresh, signals, threadVars,
                   ifaceVars, hostVars, killed, raced, lossVars>>

AnyRequest == TRUE
SameRequest == mine

\* The status stage of a bulk reset is completed if no other request came.
KReset ==
    /\ KStep("reset", IF iface /\ SameRequest THEN "ep0" ELSE "top")
    /\ UNCHANGED <<mpc, objectVars, upc, excVars, threadVars, localVars,
                   ifaceVars, hostVars, historyVars>>

\* ep0_queue, and usb_composite_setup_continue, which answers only if a
\* status is delayed.
KAnswer ==
    /\ \/ KStep("ep0", "top") /\ ctrl' = "none" /\ UNCHANGED delayed
       \/ /\ KStep("continue", "top")
          /\ ctrl' = IF delayed THEN "none" ELSE ctrl
          /\ delayed' = FALSE
    /\ newFsg' = FALSE
    /\ UNCHANGED <<mpc, objectVars, upc, excVars, threadVars, old, failed,
                   mine, ifaceVars, attached, configured, irq, historyVars>>

\* do_set_interface: the requests, the endpoints, the interface.
KDrop ==
    /\ \/ KStep("drop", "disable") /\ iface /\ reqs' = FALSE
          /\ UNCHANGED <<hardware, queued, enabled, iface>>
       \/ KStep("drop", "down") /\ ~iface
          /\ UNCHANGED <<reqs, hardware, queued, enabled, iface>>
       \/ KStep("disable", "unset")
          /\ hardware' = hardware \ enabled /\ queued' = queued \ enabled
          /\ enabled' = {} /\ UNCHANGED <<reqs, iface>>
       \/ KStep("unset", "down") /\ iface' = FALSE
          /\ UNCHANGED <<reqs, hardware, queued, enabled>>
    /\ UNCHANGED <<mpc, objectVars, upc, excVars, threadVars, localVars,
                   running, hostVars, historyVars>>

KDown ==
    /\ kpc = "down"
    /\ running' = FALSE
    /\ IF newFsg /\ ~failed THEN iface' = TRUE /\ KGoto("in")
       ELSE KGoto("done") /\ UNCHANGED iface
    /\ UNCHANGED <<mpc, objectVars, upc, excVars, threadVars, localVars,
                   enabled, hardware, reqs, queued, hostVars, historyVars>>

\* usb_ep_enable, then the flag that says so.
KEnable ==
    /\ \/ /\ KStep("in", "inFlag")
          /\ hardware' = hardware \union {"in"} /\ UNCHANGED enabled
       \/ /\ KStep("out", "outFlag")
          /\ hardware' = hardware \union {"out"} /\ UNCHANGED enabled
       \/ /\ KStep("inFlag", "out")
          /\ enabled' = enabled \union {"in"} /\ UNCHANGED hardware
       \/ /\ KStep("outFlag", "allocate")
          /\ enabled' = enabled \union {"out"} /\ UNCHANGED hardware
    /\ UNCHANGED <<mpc, objectVars, upc, excVars, threadVars, localVars,
                   iface, running, reqs, queued, hostVars, historyVars>>

KAllocate ==
    /\ KStep("allocate", "done")
    /\ reqs' = TRUE /\ running' = TRUE
    /\ UNCHANGED <<mpc, objectVars, upc, excVars, threadVars, localVars,
                   iface, enabled, hardware, queued, hostVars, historyVars>>

\* goto reset; what was allocated before the failure is still there.
KFail ==
    /\ \/ /\ KStep("in", "drop") \/ KStep("out", "drop")
          /\ "enable" \in UsbFaults /\ UNCHANGED reqs
       \/ /\ KStep("allocate", "drop")
          /\ "allocate" \in UsbFaults /\ reqs' = TRUE
    /\ failed' = TRUE
    /\ UNCHANGED <<mpc, objectVars, upc, excVars, threadVars, old, newFsg,
                   mine, iface, running, enabled, hardware, queued, hostVars,
                   historyVars>>

ContinuesIfUp == newFsg /\ ~failed
Continues == newFsg

\* The rest of handle_exception, which does not look at rc.
KDone ==
    /\ kpc = "done"
    /\ KGoto(IF Continues THEN "continue" ELSE "top")
    /\ state' = IF old = "EXIT" THEN "TERMINATED" ELSE state
    /\ UNCHANGED <<mpc, objectVars, upc, arg, fresh, signals, threadVars,
                   localVars, ifaceVars, hostVars, historyVars>>

\* The end of the thread: the LUNs are closed, whoever waits is told.
KExit ==
    /\ \/ KStep("close", "complete") /\ file' = FALSE /\ UNCHANGED notified
       \/ KStep("complete", "none") /\ notified' = TRUE /\ UNCHANGED file
    /\ UNCHANGED <<mpc, alive, active, class, notify, refs, upc, excVars,
                   task, localVars, ifaceVars, hostVars, historyVars>>

-----------------------------------------------------------------------------
(* The host, through the composite framework, in interrupt.                *)

HostMayAct == attached /\ irq = "idle"

\* fsg_set_alt, with a status that is delayed.
SetConfig ==
    /\ HostMayAct /\ ~configured
    /\ configured' = TRUE /\ ctrl' = "config" /\ delayed' = TRUE
    /\ Raise("CONFIG_CHANGE", TRUE, fresh)
    /\ UNCHANGED <<mpc, objectVars, upc, threadVars, kpc, localVars,
                   ifaceVars, attached, irq, historyVars>>

\* A bus reset, an unplugged cable, or configuration 0.
Disconnect ==
    /\ HostMayAct /\ configured
    /\ LoseHost
    /\ UNCHANGED <<mpc, objectVars, upc, excVars, threadVars, kpc, localVars,
                   iface, running, reqs, attached, killed, raced, lossVars>>

\* The second half of fsg_disable.
IrqRaise ==
    /\ irq = "raise" /\ irq' = "idle"
    /\ Raise("CONFIG_CHANGE", FALSE, fresh)
    /\ UNCHANGED <<mpc, objectVars, upc, threadVars, kpc, localVars,
                   ifaceVars, attached, configured, delayed, ctrl, historyVars>>

\* fsg_setup counts the request before it looks at it.
ClassRequest ==
    /\ HostMayAct /\ configured /\ iface
    /\ ctrl # "config"
    /\ mine' = FALSE
    /\ overtaken' = (overtaken \/ kpc = "ep0")
    /\ UNCHANGED <<mpc, objectVars, upc, threadVars, kpc, old, newFsg, failed,
                   ifaceVars, attached, configured, delayed, irq, killed, raced,
                   lossVars>>

BulkReset ==
    /\ ClassRequest
    /\ ctrl' = "reset"
    /\ Raise("PROTOCOL_RESET", FALSE, FALSE)

\* Answered at once.
GetMaxLun ==
    /\ ClassRequest
    /\ ctrl' = "none"
    /\ fresh' = FALSE
    /\ UNCHANGED <<state, arg, signals>>

\* The host takes or sends the data, or the request has been dequeued.
Complete(e) ==
    /\ e \in queued
    /\ queued' = queued \ {e}
    /\ UNCHANGED <<mpc, objectVars, upc, excVars, threadVars, kpc, localVars,
                   iface, running, enabled, hardware, reqs, hostVars,
                   historyVars>>

-----------------------------------------------------------------------------
(* Userspace.                                                              *)

\* The thread has allowed SIGINT, SIGTERM and SIGKILL.
Kill ==
    /\ ~killed /\ kpc \notin {"none", "start"}
    /\ killed' = TRUE
    /\ signals' = signals \union {"KILL"}
    /\ UNCHANGED <<mpc, objectVars, upc, state, arg, fresh, threadVars, kpc,
                   localVars, ifaceVars, hostVars, raced, overtaken, lossVars>>

\* lun0_file_store: floppy_active_lun0, then floppy_lun_store_file; or
\* file_store of the LUN's device.
BeginStore(u) ==
    /\ upc[u] = "idle"
    /\ IF u \in LunUsers THEN "device" \in alive ELSE class /\ active
    /\ upc' = [upc EXCEPT ![u] = "store"]
    /\ UNCHANGED <<mpc, objectVars, excVars, threadVars, kpc, localVars,
                   ifaceVars, hostVars, historyVars>>

\* Nobody closes the LUN any more.
LunClosed == mpc \in {"failLun", "dropLun", "drainLun"}

FinishStore(u) ==
    /\ upc[u] = "store"
    /\ upc' = [upc EXCEPT ![u] = "idle"]
    /\ IF u \in LunUsers \/ active THEN file' \in BOOLEAN
       ELSE UNCHANGED file
    /\ reopened' = (reopened \/ (LunClosed /\ file'))
    /\ UNCHANGED <<mpc, alive, active, class, notify, refs, excVars,
                   threadVars, kpc, localVars, ifaceVars, hostVars,
                   killed, raced, overtaken, aborted, lost>>

-----------------------------------------------------------------------------
KthreadStep ==
    \/ KStart \/ KHead \/ KServe \/ KWait
    \/ KCancelInterrupted \/ KTake \/ KReset \/ KAnswer \/ KDrop \/ KDown
    \/ KEnable \/ KAllocate \/ KFail \/ KDone \/ KExit

\* What msg_bind and msg_unbind do once they have been called.
ModuleStep ==
    \/ AllocInst \/ LoseInst \/ Attempt \/ CreateLuns \/ OpenLun
    \/ GetFunction \/ RunThread \/ AssignTask
    \/ ExitBind \/ Join \/ Undo \/ Register
    \/ Unbind \/ UnbindRaise \/ Unregister \/ Release \/ Free

HostStep == SetConfig \/ Disconnect \/ BulkReset \/ GetMaxLun

Next ==
    \/ Load \/ Unload \/ ModuleStep
    \/ KthreadStep
    \/ HostStep \/ IrqRaise \/ (\E e \in Endpoints : Complete(e))
    \/ Kill \/ \E u \in Users : BeginStore(u) \/ FinishStore(u)

\* Threads run, interrupt handlers return, and a request that is dequeued
\* completes.  Nobody need load, unload, configure, or go on with a transfer.
Fairness ==
    /\ WF_vars(ModuleStep) /\ WF_vars(KthreadStep) /\ WF_vars(IrqRaise)
    /\ \A e \in Endpoints : WF_vars(kpc = "cancel" /\ Complete(e))
    /\ \A u \in Users : WF_vars(FinishStore(u))

Spec == Init /\ [][Next]_vars /\ Fairness

-----------------------------------------------------------------------------
(* Properties.                                                             *)

\* A killed thread has left its loop: it closes the LUN and ends.
EndUnawaited == killed /\ state = "TERMINATED"

(* Through every failed load, unload and disconnect: the kthread runs only *)
(* while the common, its buffers and its LUN exist (it closes the LUN as   *)
(* it ends), a store only while the LUN it has in hand does, and notifies  *)
(* only a device that is registered.  The function is there as long as it  *)
(* is the interface or on its way to be, but for one window: fsg_unbind    *)
(* does not wait for a kthread that has taken SET_CONFIGURATION and not    *)
(* yet set common->fsg (f_floppy.c:3295).  Nor does fsg_common_release     *)
(* wait for a thread that was killed and is about to end (3162).           *)
NoUseAfterFree ==
    /\ kpc # "none" /\ ~EndUnawaited =>
         {"common", "buffers", "lun"} \subseteq alive
    /\ (iface \/ ComingUp \/ (state = "CONFIG_CHANGE" /\ arg)) /\ ~raced =>
         "fsg" \in alive
    /\ \A u \in Users : upc[u] = "store" => {"common", "lun"} \subseteq alive
    /\ class /\ active => "common" \in alive
    /\ (notify \/ kpc = "notify") /\ ~raced => class

(* do_set_interface frees and disables only what is idle, although         *)
(* disconnects disable the same endpoints from an interrupt: a request in  *)
(* flight is allocated and its endpoint is on.                             *)
RequestsOutlived == queued # {} => reqs /\ queued \subseteq hardware

InterfaceUp == /\ iface /\ running /\ reqs
               /\ enabled = Endpoints /\ hardware = Endpoints
InterfaceDown == /\ ~iface /\ ~running /\ ~reqs
                 /\ enabled = {} /\ hardware = {}

(* No exception is lost to another: once the kthread has nothing left to   *)
(* handle, the interface is up, with both endpoints and their requests, if *)
(* and only if the host's last word was to configure it and nothing failed *)
(* - however configurations, disconnects and bulk resets overtook each     *)
(* other, and however fsg_disable cut into do_set_interface.               *)
InterfaceFollowsHost ==
    /\ kpc \in {"top", "sleep", "io", "notify"}
    /\ ~Exception /\ irq = "idle"
    => IF configured /\ ~failed THEN InterfaceUp ELSE InterfaceDown

(* Whichever step of loading failed, and whatever was in progress when the *)
(* module was unloaded, nothing remains: no object, no open file, no       *)
(* thread, no device, no endpoint, no pointer to what is gone and no       *)
(* reference to the throttle.  The code makes three exceptions.  The error *)
(* exits of fsg_alloc_inst (f_floppy.c:3712) leave floppy_active_common    *)
(* pointing to the common they have freed, until the next load, and the    *)
(* reference they had taken, for good.  A file that a store opens through  *)
(* the LUN's own device when it has been closed for the last time stays    *)
(* open (fsg_common_release closes before it unregisters the device, 3171; *)
(* error_lun of fsg_common_create_lun does not close at all, 3104).  And a *)
(* thread that was killed may not have ended yet.                          *)
NothingLeft ==
    mpc = "unloaded" =>
        /\ alive = {} /\ refs = lost
        /\ ~reopened => ~file
        /\ ~killed => kpc = "none" /\ ~task /\ ~notified
        /\ ~aborted => ~active
        /\ ~class /\ ~notify
        /\ InterfaceDown /\ queued = {}

(* The kthread completes the status stage of the request it has handled    *)
(* and of no other, for a host that gives up on a bulk reset and goes on   *)
(* to something else too (ep0_req_tag, f_floppy.c:2639); but for a request *)
(* that was given up between its last look and its answer.                 *)
AnswersItsRequest ==
    [][/\ kpc = "ep0" /\ kpc' # "ep0" /\ ~overtaken => ctrl = "reset"
       /\ kpc = "continue" /\ kpc' # "continue" /\ ~overtaken =>
            /\ ctrl = "config" /\ irq = "idle"
            /\ ~(state = "CONFIG_CHANGE" /\ arg)]_vars

(* msg_bind and msg_unbind return: a thread told to exit before it has     *)
(* allowed its signals exits too, and fsg_unbind, which cannot be          *)
(* interrupted (f_floppy.c:3297), gets the interface from a kthread that   *)
(* is in the middle of a transfer.                                         *)
ModuleReturns == mpc \notin {"unloaded", "up"} ~> mpc \in {"unloaded", "up"}

(* SET_CONFIGURATION is answered, whether the interface came up or not,    *)
(* unless the host resets the bus first or the thread is killed.           *)
ConfigAnswered == ctrl = "config" ~> ctrl # "config" \/ killed
===============================================================================
