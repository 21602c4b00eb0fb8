-------------------------- MODULE FsgLifecycleProofs --------------------------
(***************************************************************************)
(* Proofs about FsgLifecycle: nothing is used after it is freed, nothing   *)
(* is left, no exception is lost and no request gets the answer of         *)
(* another, for any number of threads of userspace, whichever steps of     *)
(* loading and of putting the interface up may fail.                       *)
(***************************************************************************)
EXTENDS FsgLifecycle, TLAPS

-----------------------------------------------------------------------------
(* The inductive invariant.                                                *)

Allocating == {"allocBuffers", "createLun"}
WithoutDevice == {"setBuffers", "setCdev", "createLuns"}
WithDevice == {"openLun", "strings", "getFunction", "runThread"}
BeforeThread == Allocating \union WithoutDevice \union WithDevice
Bound == {"assignTask", "autoconf", "register", "exitBind", "joinBind"}
WithFunction == {"up", "sync", "unbind", "raise", "waitIface"}
AfterUnbind == {"dropKobj", "destroy", "drain", "freeFunction"}
Ended == {"release", "join", "free", "dropLun"}

Enabling == {"in", "inFlag", "out", "outFlag", "allocate"}
Handling == {"drop", "disable", "unset", "down", "done", "continue"}
               \union Enabling

\* exception_arg is about to be taken as the new interface.
Pending == state = "CONFIG_CHANGE" /\ arg

\* The three parts of TypeOK: the provers want them apart.
Subsets ==
    /\ alive \subseteq Objects
    /\ signals \subseteq {"USR1", "KILL"}
    /\ enabled \subseteq Endpoints /\ hardware \subseteq Endpoints
    /\ queued \subseteq Endpoints

Elements ==
    /\ mpc \in {"unloaded", "up"} \union Loading \union Unloading
                  \union Releasing
    /\ upc \in [Users -> {"idle", "store"}]
    /\ state \in States
    /\ kpc \in {"none", "start", "top", "sleep", "io", "notify", "cancel",
                "reset", "ep0", "drop", "disable", "unset", "down", "in",
                "inFlag", "out", "outFlag", "allocate", "done", "continue",
                "close", "complete"}
    /\ old \in States
    /\ ctrl \in {"none", "config", "reset"}
    /\ irq \in {"idle", "raise"}

IsBoolean(x) == x = TRUE \/ x = FALSE

Booleans ==
    /\ IsBoolean(active) /\ IsBoolean(class) /\ IsBoolean(notify)
    /\ IsBoolean(file)
    /\ IsBoolean(arg) /\ IsBoolean(fresh)
    /\ IsBoolean(task) /\ IsBoolean(notified)
    /\ IsBoolean(newFsg) /\ IsBoolean(failed) /\ IsBoolean(mine)
    /\ IsBoolean(iface) /\ IsBoolean(running) /\ IsBoolean(reqs)
    /\ IsBoolean(attached) /\ IsBoolean(configured) /\ IsBoolean(delayed)
    /\ IsBoolean(killed) /\ IsBoolean(raced) /\ IsBoolean(overtaken)
    /\ IsBoolean(aborted) /\ IsBoolean(reopened)

\* The throttle is referred to by the instance there is, and by those that
\* fsg_alloc_inst has lost.
CountInv ==
    /\ lost \in 0..MaxLost
    /\ refs = IF mpc = "unloaded" THEN lost ELSE lost + 1

\* What is allocated while the module thread is at a step.
ObjectInv ==
    /\ mpc = "unloaded" => alive = {}
    /\ mpc \in Allocating => "common" \in alive
    /\ mpc = "createLun" => "buffers" \in alive
    /\ mpc \in WithoutDevice \union WithDevice \union Bound
                 \union WithFunction \union AfterUnbind
                 \union {"putFunction", "removeLuns", "failLun", "closeLun"}
         => {"common", "buffers", "lun"} \subseteq alive
    /\ "fsg" \in alive <=>
         mpc \in {"runThread", "putFunction"} \union Bound \union WithFunction
                   \union AfterUnbind
    /\ aborted => mpc = "unloaded"
    /\ active => aborted \/ mpc \notin {"unloaded", "join", "free", "dropLun",
                                        "drainLun"}

\* The device of the LUN, its stores, and the file that they may leave.
LunInv ==
    /\ "device" \in alive =>
         /\ {"common", "lun"} \subseteq alive
         /\ mpc \in WithDevice \union Bound \union WithFunction
                      \union AfterUnbind \union Ended
                      \union {"putFunction", "removeLuns"}
    /\ \A u \in LunUsers : upc[u] = "store" =>
         /\ {"common", "lun"} \subseteq alive
         /\ mpc \in WithDevice \union Bound \union WithFunction
                      \union AfterUnbind \union Ended
                      \union {"putFunction", "removeLuns", "failLun",
                              "closeLun", "drainLun"}
    /\ file => "lun" \in alive \/ reopened
    /\ file /\ LunClosed => reopened
    /\ mpc \in Allocating => ~file

\* The thread runs only between its start and its end, for which the module
\* thread waits unless it was killed.
ThreadInv ==
    /\ "KILL" \in signals => killed
    /\ mpc \in BeforeThread => kpc = "none" /\ ~notified
    /\ notified => kpc = "none"
    /\ kpc # "none" /\ ~EndUnawaited =>
         mpc \in Bound \union WithFunction \union AfterUnbind
                   \union {"release", "join"}
    /\ kpc # "none" /\ ~EndUnawaited =>
         {"common", "buffers", "lun"} \subseteq alive
    /\ ~killed /\ kpc # "none"
       /\ \/ state \in {"EXIT", "TERMINATED"}
          \/ old = "EXIT" /\ kpc \in Handling
         => mpc \in {"joinBind", "join"}
    /\ state = "TERMINATED" =>
         kpc \in {"none", "top", "continue", "close", "complete"}
    /\ kpc \in {"close", "complete"} => state = "TERMINATED"
    /\ ~killed /\ notified => mpc \in {"joinBind", "join"}
    /\ ~killed /\ kpc = "none" =>
         mpc \notin (Bound \ {"joinBind"}) \union WithFunction \union AfterUnbind
    /\ mpc \in BeforeThread => ~task
    /\ ~killed /\ kpc \in {"none", "close", "complete"} => ~task

\* do_set_interface.
InterfaceInv ==
    /\ kpc \in {"none", "start", "close", "complete", "down"} => ~iface
    /\ state = "TERMINATED" => ~iface
    /\ kpc \in Handling /\ old = "EXIT" => ~newFsg
    /\ kpc \in Enabling => newFsg /\ ~failed /\ iface
    /\ kpc = "done" => (iface <=> newFsg /\ ~failed)
    /\ kpc = "continue" => newFsg
    /\ newFsg => kpc \in Handling
    /\ running => iface \/ kpc = "down"
    /\ kpc \in {"io", "notify"} => iface
    /\ enabled # {} => iface /\ kpc # "unset"
    /\ enabled \subseteq hardware
    /\ kpc \in {"in", "inFlag"} => "in" \notin enabled
    /\ kpc \in {"in", "inFlag", "out", "outFlag"} => "out" \notin enabled
    /\ kpc = "inFlag" => "in" \in hardware
    /\ kpc = "outFlag" => "out" \in hardware
    /\ "in" \in hardware => "in" \in enabled \/ kpc = "inFlag"
    /\ "out" \in hardware => "out" \in enabled \/ kpc = "outFlag"
    /\ reqs => iface /\ kpc \notin {"disable", "unset"}
    /\ iface /\ kpc \notin Handling \ {"done", "continue"} => running /\ reqs

\* The host, and what of the function it has asked for.
HostInv ==
    /\ attached \/ configured => mpc = "up"
    /\ irq = "raise" => mpc \in {"up", "sync"}
    /\ Pending => configured \/ irq = "raise"
    /\ (iface \/ ComingUp \/ Pending) /\ ~raced => mpc \in WithFunction

\* The sysfs class, its stores and its notifications.
ClassInv ==
    /\ class => mpc \in WithFunction \union {"dropKobj", "destroy"}
    /\ \A u \in Users \ LunUsers : upc[u] = "store" =>
         mpc \in WithFunction \union {"dropKobj", "destroy", "drain"}
    /\ notify => class /\ mpc \in WithFunction \union {"dropKobj"}
    /\ kpc = "notify" /\ ~raced => class

\* The requests of the kthread.
RequestInv ==
    /\ queued \subseteq hardware
    /\ queued # {} => reqs
    /\ queued # {} => kpc \in {"io", "cancel"} \/ (kpc = "top" /\ signals # {})
    /\ queued # {} => state # "TERMINATED"
    /\ running => reqs \/ kpc \in {"disable", "unset", "down"}

\* The kthread has been told to end, and does.
Ending ==
    state \in {"EXIT", "TERMINATED"} \/ (old = "EXIT" /\ kpc \in Handling)

\* What the interface is going to be is what the host wants, unless fsg_disable
\* has still to say so.
FollowInv ==
    /\ configured => attached
    /\ irq = "raise" => ~configured
    /\ ~Ending /\ irq = "idle" =>
         /\ state = "CONFIG_CHANGE" => (arg <=> configured)
         /\ state # "CONFIG_CHANGE" /\ kpc \in Handling =>
              (newFsg <=> configured)
         /\ state # "CONFIG_CHANGE" /\ kpc \notin Handling \ {"done", "continue"}
              => (iface <=> configured /\ ~failed)
         /\ state # "CONFIG_CHANGE" /\ configured /\ ~failed =>
              /\ kpc \in {"out", "outFlag", "allocate"} => "in" \in enabled
              /\ kpc = "allocate" => "out" \in enabled
              /\ kpc \notin Handling \ {"done", "continue"} =>
                   enabled = Endpoints

\* The request that the kthread is about to answer is the one the host waits
\* for, unless it was given up on the way.
AnswerInv ==
    /\ ctrl # "none" => configured
    /\ ~overtaken =>
         /\ kpc = "ep0" \/ (kpc = "reset" /\ mine) =>
              ctrl = "reset" /\ ~(state = "PROTOCOL_RESET" /\ fresh)
         /\ state = "PROTOCOL_RESET" /\ fresh => ctrl = "reset" \/ irq = "raise"
         /\ newFsg => ctrl = "config" /\ irq = "idle" /\ ~Pending
         /\ Pending => ctrl = "config" \/ irq = "raise"

LifeInv == /\ Elements /\ Subsets /\ Booleans
           /\ CountInv /\ ObjectInv /\ LunInv
           /\ ThreadInv /\ InterfaceInv /\ HostInv
           /\ ClassInv /\ RequestInv /\ FollowInv /\ AnswerInv

-----------------------------------------------------------------------------
(* It is inductive: one lemma for each of its parts.                       *)

\* What raise_exception may replace.
LEMMA Priorities ==
  ASSUME Elements
  PROVE  /\ Preempts("EXIT") <=> state # "TERMINATED"
         /\ Preempts("CONFIG_CHANGE") <=> state \notin {"EXIT", "TERMINATED"}
         /\ Preempts("PROTOCOL_RESET") <=> state \in {"NORMAL", "PROTOCOL_RESET"}
<1>1. state \in States
  BY DEF Elements
<1> QED
  BY <1>1 DEF Preempts, Rank, States

\* fsg_alloc_inst, and the LUN that gets a device, touch neither the thread nor
\* the interface.
LEMMA InstanceSteps ==
  ASSUME AllocInst \/ LoseInst \/ OpenLun
  PROVE  /\ UNCHANGED <<class, notify, upc, kpc>>
         /\ UNCHANGED <<state, arg, fresh, signals, task, notified>>
         /\ UNCHANGED <<old, newFsg, failed, mine>>
         /\ UNCHANGED <<iface, running, enabled, hardware, reqs, queued>>
         /\ UNCHANGED <<attached, configured, delayed, ctrl, irq>>
         /\ UNCHANGED <<killed, raced, overtaken>>
         /\ mpc \in {"allocBuffers", "createLun", "openLun"}
         /\ mpc' \in {"createLun", "setBuffers", "strings", "failLun",
                      "unloaded"}
<1> USE DEF excVars, threadVars, localVars, ifaceVars, hostVars, MGoto, MStep,
        FailAt
<1>1. CASE AllocInst
  BY <1>1 DEF AllocInst, historyVars
<1>2. CASE LoseInst
  BY <1>2 DEF LoseInst
<1>3. CASE OpenLun
  BY <1>3 DEF OpenLun
<1> QED
  BY <1>1, <1>2, <1>3

\* Nor do the other steps that allocate, free or fail.
LEMMA ObjectSteps ==
  ASSUME Attempt \/ CreateLuns \/ GetFunction \/ Undo \/ Free
  PROVE  /\ UNCHANGED <<class, notify, upc, kpc>>
         /\ UNCHANGED <<state, arg, fresh, signals, task, notified>>
         /\ UNCHANGED <<old, newFsg, failed, mine>>
         /\ UNCHANGED <<iface, running, enabled, hardware, reqs, queued>>
         /\ UNCHANGED <<attached, configured, delayed, ctrl, irq>>
         /\ UNCHANGED <<killed, raced, overtaken>>
<1> USE DEF objectVars, excVars, threadVars, localVars, ifaceVars, hostVars,
        historyVars
<1>1. CASE Attempt
  BY <1>1 DEF Attempt
<1>2. CASE CreateLuns
  BY <1>2 DEF CreateLuns
<1>3. CASE GetFunction
  BY <1>3 DEF GetFunction
<1>4. CASE Undo
  BY <1>4 DEF Undo
<1>5. CASE Free
  BY <1>5 DEF Free
<1> QED
  BY <1>1, <1>2, <1>3, <1>4, <1>5

\* What is a set of names stays one.
LEMMA SubsetKept == LifeInv /\ [Next]_vars => Subsets'
<1> SUFFICES ASSUME LifeInv, [Next]_vars PROVE Subsets'
  OBVIOUS
<1> USE DEF vars, objectVars, excVars, threadVars, localVars, ifaceVars,
        historyVars, lossVars, hostVars, MGoto, MStep, KGoto, KStep, LifeInv,
        Subsets
<1>1. CASE Load
  BY <1>1 DEF Load, Objects
<1>2. CASE Unload
  BY <1>2 DEF Unload, LoseHost, DisableFromIrq
<1>3. CASE ModuleStep
  <2>1. CASE AllocInst \/ LoseInst \/ OpenLun
    BY <2>1, InstanceSteps DEF AllocInst, LoseInst, OpenLun, FailAt, Objects
  <2>2. CASE ~(AllocInst \/ LoseInst \/ OpenLun)
    BY <1>3, <2>2, Priorities DEF ModuleStep, Attempt, FailAt, CreateLuns,
        GetFunction, Objects, RunThread, AssignTask, ExitBind, EndThread,
        Raise, Join, Undo, Register, Unbind, Gone, UnbindRaise, Unregister,
        Release, Free, InstancesLeft
  <2> QED
    BY <2>1, <2>2
<1>4. CASE KthreadStep
  BY <1>4 DEF KthreadStep, KStart, KHead, Called, Exception, KServe, KWait,
      KCancelInterrupted, AllIdle, KTake, Handler, KReset, SameRequest,
      KAnswer, KDrop, KDown, KEnable, Endpoints, KAllocate, KFail, KDone,
      Continues, KExit
<1>5. CASE HostStep
  BY <1>5, Priorities DEF HostStep, SetConfig, HostMayAct, Raise, Disconnect,
      LoseHost, DisableFromIrq, BulkReset, ClassRequest, GetMaxLun
<1>6. CASE IrqRaise
  BY <1>6, Priorities DEF IrqRaise, Raise
<1>7. CASE Kill
  BY <1>7 DEF Kill
<1>8. ASSUME NEW e \in Endpoints, Complete(e) PROVE Subsets'
  BY <1>8 DEF Complete
<1>9. ASSUME NEW u \in Users, BeginStore(u) PROVE Subsets'
  BY <1>9 DEF BeginStore
<1>10. ASSUME NEW u \in Users, FinishStore(u) PROVE Subsets'
  BY <1>10 DEF FinishStore, LunClosed
<1>11. CASE UNCHANGED vars
  BY <1>11
<1> QED
  BY <1>1, <1>2, <1>3, <1>4, <1>5, <1>6, <1>7, <1>8, <1>9, <1>10, <1>11 DEF
      Next

\* What has one of several values keeps one of them.
LEMMA ElementKept == LifeInv /\ [Next]_vars => Elements'
<1> SUFFICES ASSUME LifeInv, [Next]_vars PROVE Elements'
  OBVIOUS
<1> USE DEF vars, objectVars, excVars, threadVars, localVars, ifaceVars,
        historyVars, lossVars, hostVars, MGoto, MStep, KGoto, KStep, LifeInv,
        Elements, States, Loading, Unloading, Releasing, FallibleLoadSteps
<1>1. CASE Load
  BY <1>1 DEF Load, ObjectInv
<1>2. CASE Unload
  BY <1>2 DEF Unload, LoseHost, DisableFromIrq
<1>3. CASE ModuleStep
  <2>1. CASE AllocInst \/ LoseInst \/ OpenLun
    BY <2>1, InstanceSteps
  <2>2. CASE ~(AllocInst \/ LoseInst \/ OpenLun)
    BY <1>3, <2>2, Priorities DEF ModuleStep, Attempt, FailAt, CreateLuns,
        GetFunction, RunThread, AssignTask, ExitBind, EndThread, Raise, Join,
        Undo, Register, Unbind, Gone, UnbindRaise, Unregister, Release, Free,
        InstancesLeft, ObjectInv
  <2> QED
    BY <2>1, <2>2
<1>4. CASE KthreadStep
  BY <1>4 DEF KthreadStep, KStart, KHead, Called, Exception, KServe, KWait,
      KCancelInterrupted, AllIdle, KTake, Handler, KReset, SameRequest,
      KAnswer, KDrop, KDown, KEnable, KAllocate, KFail, KDone, Continues, KExit
<1>5. CASE HostStep
  BY <1>5, Priorities DEF HostStep, SetConfig, HostMayAct, Raise, Disconnect,
      LoseHost, DisableFromIrq, BulkReset, ClassRequest, GetMaxLun
<1>6. CASE IrqRaise
  BY <1>6, Priorities DEF IrqRaise, Raise
<1>7. CASE Kill
  BY <1>7 DEF Kill
<1>8. ASSUME NEW e \in Endpoints, Complete(e) PROVE Elements'
  BY <1>8 DEF Complete
<1>9. ASSUME NEW u \in Users, BeginStore(u) PROVE Elements'
  BY <1>9 DEF BeginStore
<1>10. ASSUME NEW u \in Users, FinishStore(u) PROVE Elements'
  BY <1>10 DEF FinishStore, LunClosed
<1>11. CASE UNCHANGED vars
  BY <1>11
<1> QED
  BY <1>1, <1>2, <1>3, <1>4, <1>5, <1>6, <1>7, <1>8, <1>9, <1>10, <1>11 DEF
      Next

\* What is true or false stays so.
LEMMA BoolKept == LifeInv /\ [Next]_vars => Booleans'
<1> SUFFICES ASSUME LifeInv, [Next]_vars PROVE Booleans'
  OBVIOUS
<1> USE DEF vars, objectVars, excVars, threadVars, localVars, ifaceVars,
        historyVars, lossVars, hostVars, MGoto, MStep, KGoto, KStep, LifeInv,
        Booleans, IsBoolean
<1>1. CASE Load
  BY <1>1 DEF Load
<1>2. CASE Unload
  BY <1>2 DEF Unload, LoseHost, DisableFromIrq
<1>3. CASE ModuleStep
  <2>1. CASE AllocInst \/ LoseInst \/ OpenLun
    BY <2>1, InstanceSteps
  <2>2. CASE ~(AllocInst \/ LoseInst \/ OpenLun)
    BY <1>3, <2>2, Priorities DEF ModuleStep, Attempt, FailAt, CreateLuns,
        GetFunction, RunThread, AssignTask, ExitBind, EndThread, Raise, Join,
        Undo, Register, Unbind, Gone, UnbindRaise, Unregister, Release, Free,
        InstancesLeft
  <2> QED
    BY <2>1, <2>2
<1>4. CASE KthreadStep
  BY <1>4 DEF KthreadStep, KStart, KHead, Called, Exception, KServe, KWait,
      KCancelInterrupted, AllIdle, KTake, Handler, KReset, SameRequest,
      KAnswer, KDrop, KDown, KEnable, KAllocate, KFail, KDone, Continues, KExit
<1>5. CASE HostStep
  BY <1>5, Priorities DEF HostStep, SetConfig, HostMayAct, Raise, Disconnect,
      LoseHost, DisableFromIrq, BulkReset, ClassRequest, GetMaxLun
<1>6. CASE IrqRaise
  BY <1>6, Priorities DEF IrqRaise, Raise
<1>7. CASE Kill
  BY <1>7 DEF Kill
<1>8. ASSUME NEW e \in Endpoints, Complete(e) PROVE Booleans'
  BY <1>8 DEF Complete
<1>9. ASSUME NEW u \in Users, BeginStore(u) PROVE Booleans'
  BY <1>9 DEF BeginStore
<1>10. ASSUME NEW u \in Users, FinishStore(u) PROVE Booleans'
  BY <1>10 DEF FinishStore, LunClosed
<1>11. CASE UNCHANGED vars
  BY <1>11
<1> QED
  BY <1>1, <1>2, <1>3, <1>4, <1>5, <1>6, <1>7, <1>8, <1>9, <1>10, <1>11 DEF
      Next

\* Each instance that is released gives back one reference, its own.
LEMMA CountKept == LifeInv /\ [Next]_vars => CountInv'
<1> SUFFICES ASSUME LifeInv, [Next]_vars PROVE CountInv'
  OBVIOUS
<1> USE FsgLifecycleAssumption
    DEF vars, objectVars, excVars, threadVars, localVars, ifaceVars,
        historyVars, lossVars, hostVars, MGoto, MStep, KGoto, KStep, LifeInv,
        CountInv, FsgLifecycleAssumption
<1>1. CASE Load
  BY <1>1 DEF Load
<1>2. CASE Unload
  BY <1>2 DEF Unload, LoseHost
<1>3. CASE ModuleStep
  <2>1. CASE LoseInst
    BY <2>1 DEF LoseInst, FailAt
  <2>2. CASE Free
    BY <2>2 DEF Free, InstancesLeft
  <2>3. CASE ~LoseInst /\ ~Free
    <3>1. UNCHANGED <<refs, lost>> /\ mpc # "unloaded" /\ mpc' # "unloaded"
      BY <1>3, <2>3 DEF ModuleStep, AllocInst, Attempt, FailAt, CreateLuns,
          OpenLun, GetFunction, RunThread, AssignTask, ExitBind, EndThread,
          Join, Undo, Register, Unbind, UnbindRaise, Unregister, Release
    <3> QED
      BY <3>1
  <2> QED
    BY <2>1, <2>2, <2>3
<1>4. CASE KthreadStep
  <2>1. UNCHANGED <<mpc, refs, lost>>
    BY <1>4 DEF KthreadStep, KStart, KHead, KServe, KWait, KCancelInterrupted,
        KTake, KReset, KAnswer, KDrop, KDown, KEnable, KAllocate, KFail, KDone,
        KExit
  <2> QED
    BY <2>1
<1>5. CASE HostStep
  <2>1. UNCHANGED <<mpc, refs, lost>>
    BY <1>5 DEF HostStep, SetConfig, Disconnect, BulkReset, ClassRequest,
        GetMaxLun
  <2> QED
    BY <2>1
<1>6. CASE IrqRaise
  BY <1>6 DEF IrqRaise
<1>7. CASE Kill
  BY <1>7 DEF Kill
<1>8. ASSUME NEW e \in Endpoints, Complete(e) PROVE CountInv'
  BY <1>8 DEF Complete
<1>9. ASSUME NEW u \in Users, BeginStore(u) PROVE CountInv'
  BY <1>9 DEF BeginStore
<1>10. ASSUME NEW u \in Users, FinishStore(u) PROVE CountInv'
  BY <1>10 DEF FinishStore
<1>11. CASE UNCHANGED vars
  BY <1>11
<1> QED
  BY <1>1, <1>2, <1>3, <1>4, <1>5, <1>6, <1>7, <1>8, <1>9, <1>10, <1>11 DEF
      Next

\* msg_bind and msg_unbind allocate and free in step.
LEMMA ObjectKept == LifeInv /\ [Next]_vars => ObjectInv'
<1> SUFFICES ASSUME LifeInv, [Next]_vars PROVE ObjectInv'
  OBVIOUS
<1> USE DEF vars, objectVars, excVars, threadVars, localVars, ifaceVars,
        historyVars, lossVars, hostVars, MGoto, MStep, KGoto, KStep, LifeInv,
        ObjectInv, Subsets, Objects, BeforeThread, Bound, WithFunction,
        AfterUnbind, Allocating, WithoutDevice, WithDevice
<1>1. CASE Load
  BY <1>1 DEF Load
<1>2. CASE Unload
  BY <1>2 DEF Unload, LoseHost, DisableFromIrq
<1>3. CASE ModuleStep
  <2>1. CASE Attempt
    BY <2>1 DEF Attempt, FailAt
  <2>2. CASE CreateLuns
    BY <2>2 DEF CreateLuns, FailAt
  <2>3. CASE GetFunction
    BY <2>3 DEF GetFunction
  <2>4. CASE RunThread
    BY <2>4 DEF RunThread
  <2>5. CASE AssignTask
    BY <2>5 DEF AssignTask
  <2>6. CASE ExitBind
    BY <2>6, Priorities DEF ExitBind, EndThread, Raise
  <2>7. CASE Join
    BY <2>7 DEF Join
  <2>8. CASE Undo
    BY <2>8 DEF Undo
  <2>9. CASE Register
    BY <2>9 DEF Register
  <2>10. CASE Unbind
    BY <2>10 DEF Unbind, Gone
  <2>11. CASE UnbindRaise
    BY <2>11, Priorities DEF UnbindRaise, Raise
  <2>12. CASE Unregister
    BY <2>12 DEF Unregister
  <2>13. CASE Release
    BY <2>13, Priorities DEF Release, EndThread, Raise
  <2>14. CASE Free
    BY <2>14 DEF Free, InstancesLeft, LunInv, Ended
  <2>15. CASE AllocInst
    BY <2>15 DEF AllocInst
  <2>16. CASE LoseInst
    BY <2>16 DEF LoseInst, FailAt
  <2>17. CASE OpenLun
    BY <2>17 DEF OpenLun, FailAt
  <2> QED
    BY <1>3, <2>1, <2>2, <2>3, <2>4, <2>5, <2>6, <2>7, <2>8, <2>9, <2>10,
        <2>11, <2>12, <2>13, <2>14, <2>15, <2>16, <2>17 DEF ModuleStep
<1>4. CASE KthreadStep
  <2>1. UNCHANGED <<mpc, alive, active, aborted>>
    BY <1>4 DEF KthreadStep, KStart, KHead, Called, Exception, KServe, KWait,
        KCancelInterrupted, AllIdle, KTake, Handler, KReset, SameRequest,
        KAnswer, KDrop, KDown, KEnable, KAllocate, KFail, KDone, Continues,
        KExit
  <2> QED
    BY <2>1
<1>5. CASE HostStep
  <2>1. UNCHANGED <<mpc, alive, active, aborted>>
    BY <1>5, Priorities DEF HostStep, SetConfig, HostMayAct, Raise, Disconnect,
        LoseHost, DisableFromIrq, BulkReset, ClassRequest, GetMaxLun
  <2> QED
    BY <2>1
<1>6. CASE IrqRaise
  BY <1>6, Priorities DEF IrqRaise, Raise
<1>7. CASE Kill
  BY <1>7 DEF Kill
<1>8. ASSUME NEW e \in Endpoints, Complete(e) PROVE ObjectInv'
  BY <1>8 DEF Complete
<1>9. ASSUME NEW u \in Users, BeginStore(u) PROVE ObjectInv'
  BY <1>9 DEF BeginStore
<1>10. ASSUME NEW u \in Users, FinishStore(u) PROVE ObjectInv'
  BY <1>10 DEF FinishStore, ClassInv
<1>11. CASE UNCHANGED vars
  BY <1>11
<1> QED
  BY <1>1, <1>2, <1>3, <1>4, <1>5, <1>6, <1>7, <1>8, <1>9, <1>10, <1>11 DEF
      Next

\* The device goes before the LUN, which waits for the stores that came through
\* it; a file that one of them leaves open was opened too late.
LEMMA LunKept == LifeInv /\ [Next]_vars => LunInv'
<1> SUFFICES ASSUME LifeInv, [Next]_vars PROVE LunInv'
  OBVIOUS
<1> USE DEF vars, objectVars, excVars, threadVars, localVars, ifaceVars,
        historyVars, lossVars, hostVars, MGoto, MStep, KGoto, KStep, LifeInv,
        LunInv, ObjectInv, LunClosed, NoLunStore, Ended, Subsets, Objects,
        BeforeThread, Bound, WithFunction, AfterUnbind, Allocating,
        WithoutDevice, WithDevice
<1>1. CASE Load
  BY <1>1 DEF Load
<1>2. CASE Unload
  BY <1>2 DEF Unload, LoseHost, DisableFromIrq
<1>3. CASE ModuleStep
  <2>1. CASE Attempt
    BY <2>1 DEF Attempt, FailAt
  <2>2. CASE CreateLuns
    BY <2>2 DEF CreateLuns, FailAt
  <2>3. CASE GetFunction
    BY <2>3 DEF GetFunction
  <2>4. CASE RunThread
    BY <2>4 DEF RunThread
  <2>5. CASE AssignTask
    BY <2>5 DEF AssignTask
  <2>6. CASE ExitBind
    BY <2>6, Priorities DEF ExitBind, EndThread, Raise
  <2>7. CASE Join
    BY <2>7 DEF Join
  <2>8. CASE Undo
    BY <2>8 DEF Undo
  <2>9. CASE Register
    BY <2>9 DEF Register
  <2>10. CASE Unbind
    BY <2>10 DEF Unbind, Gone
  <2>11. CASE UnbindRaise
    BY <2>11, Priorities DEF UnbindRaise, Raise
  <2>12. CASE Unregister
    BY <2>12 DEF Unregister
  <2>13. CASE Release
    BY <2>13, Priorities DEF Release, EndThread, Raise
  <2>14. CASE Free
    <3>1. CASE mpc = "free"
      BY <2>14, <3>1 DEF Free, Booleans, IsBoolean
    <3>2. CASE mpc = "dropLun"
      BY <2>14, <3>2 DEF Free
    <3>3. CASE mpc = "drainLun"
      BY <2>14, <3>3 DEF Free
    <3> QED
      BY <2>14, <3>1, <3>2, <3>3 DEF Free
  <2>15. CASE AllocInst
    BY <2>15 DEF AllocInst
  <2>16. CASE LoseInst
    BY <2>16 DEF LoseInst, FailAt
  <2>17. CASE OpenLun
    <3>1. CASE mpc' = "strings"
      BY <2>17, <3>1 DEF OpenLun, FailAt
    <3>2. CASE mpc' = "failLun"
      <4>1. UNCHANGED <<upc, file>> /\ alive' = alive \ {"device"}
        BY <2>17, <3>2 DEF OpenLun, FailAt
      <4>2. file => reopened'
        BY <2>17, <3>2 DEF OpenLun, FailAt
      <4>3. mpc = "openLun"
        BY <2>17 DEF OpenLun, FailAt
      <4> QED
        BY <3>2, <4>1, <4>2, <4>3
    <3> QED
      BY <2>17, <3>1, <3>2 DEF OpenLun, FailAt
  <2> QED
    BY <1>3, <2>1, <2>2, <2>3, <2>4, <2>5, <2>6, <2>7, <2>8, <2>9, <2>10,
        <2>11, <2>12, <2>13, <2>14, <2>15, <2>16, <2>17 DEF ModuleStep
<1>4. CASE KthreadStep
  <2>1. /\ UNCHANGED <<mpc, alive, upc, reopened>>
        /\ file' = file \/ file' = FALSE
    BY <1>4 DEF KthreadStep, KStart, KHead, Called, Exception, KServe, KWait,
        KCancelInterrupted, AllIdle, KTake, Handler, KReset, SameRequest,
        KAnswer, KDrop, KDown, KEnable, KAllocate, KFail, KDone, Continues,
        KExit
  <2> QED
    BY <2>1
<1>5. CASE HostStep
  <2>1. UNCHANGED <<mpc, alive, upc, reopened, file>>
    BY <1>5, Priorities DEF HostStep, SetConfig, HostMayAct, Raise, Disconnect,
        LoseHost, DisableFromIrq, BulkReset, ClassRequest, GetMaxLun
  <2> QED
    BY <2>1
<1>6. CASE IrqRaise
  BY <1>6, Priorities DEF IrqRaise, Raise
<1>7. CASE Kill
  BY <1>7 DEF Kill
<1>8. ASSUME NEW e \in Endpoints, Complete(e) PROVE LunInv'
  BY <1>8 DEF Complete
<1>9. ASSUME NEW u \in Users, BeginStore(u) PROVE LunInv'
  BY <1>9 DEF BeginStore
<1>10. ASSUME NEW u \in Users, FinishStore(u) PROVE LunInv'
  BY <1>10 DEF FinishStore, ClassInv
<1>11. CASE UNCHANGED vars
  BY <1>11
<1> QED
  BY <1>1, <1>2, <1>3, <1>4, <1>5, <1>6, <1>7, <1>8, <1>9, <1>10, <1>11 DEF
      Next

\* The thread ends before what it uses does, and it is waited for.
LEMMA ThreadKept == LifeInv /\ [Next]_vars => ThreadInv'
<1> SUFFICES ASSUME LifeInv, [Next]_vars PROVE ThreadInv'
  OBVIOUS
<1> USE DEF vars, objectVars, excVars, threadVars, localVars, ifaceVars,
        historyVars, lossVars, hostVars, MGoto, MStep, KGoto, KStep, LifeInv,
        ThreadInv, ObjectInv, EndUnawaited, Handling, Enabling, BeforeThread,
        Bound, WithFunction, AfterUnbind, Allocating, WithoutDevice, WithDevice
<1>1. CASE Load
  BY <1>1 DEF Load
<1>2. CASE Unload
  BY <1>2 DEF Unload, LoseHost, DisableFromIrq
<1>3. CASE ModuleStep
  <2>1. CASE Attempt
    BY <2>1 DEF Attempt, FailAt
  <2>2. CASE CreateLuns
    BY <2>2 DEF CreateLuns, FailAt
  <2>3. CASE GetFunction
    BY <2>3 DEF GetFunction
  <2>4. CASE RunThread
    BY <2>4 DEF RunThread
  <2>5. CASE AssignTask
    BY <2>5 DEF AssignTask
  <2>6. CASE ExitBind
    BY <2>6, Priorities DEF ExitBind, EndThread, Raise
  <2>7. CASE Join
    BY <2>7 DEF Join
  <2>8. CASE Undo
    BY <2>8 DEF Undo
  <2>9. CASE Register
    BY <2>9 DEF Register
  <2>10. CASE Unbind
    BY <2>10 DEF Unbind, Gone
  <2>11. CASE UnbindRaise
    BY <2>11, Priorities DEF UnbindRaise, Raise
  <2>12. CASE Unregister
    BY <2>12 DEF Unregister
  <2>13. CASE Release
    BY <2>13, Priorities DEF Release, EndThread, Raise
  <2>14. CASE Free
    BY <2>14 DEF Free, InstancesLeft
  <2>15. CASE AllocInst
    BY <2>15 DEF AllocInst
  <2>16. CASE LoseInst
    BY <2>16 DEF LoseInst, FailAt
  <2>17. CASE OpenLun
    BY <2>17 DEF OpenLun, FailAt
  <2> QED
    BY <1>3, <2>1, <2>2, <2>3, <2>4, <2>5, <2>6, <2>7, <2>8, <2>9, <2>10,
        <2>11, <2>12, <2>13, <2>14, <2>15, <2>16, <2>17 DEF ModuleStep
<1>4. CASE KthreadStep
  <2>1. CASE KStart
    BY <2>1 DEF KStart
  <2>2. CASE KHead
    BY <2>2 DEF KHead, Called, Exception
  <2>3. CASE KServe
    BY <2>3 DEF KServe, Called, Exception
  <2>4. CASE KWait
    BY <2>4 DEF KWait
  <2>5. CASE KCancelInterrupted
    BY <2>5 DEF KCancelInterrupted, AllIdle
  <2>6. CASE KTake
    BY <2>6 DEF KTake, AllIdle, Handler
  <2>7. CASE KReset
    BY <2>7 DEF KReset, SameRequest
  <2>8. CASE KAnswer
    BY <2>8 DEF KAnswer
  <2>9. CASE KDrop
    BY <2>9 DEF KDrop
  <2>10. CASE KDown
    BY <2>10 DEF KDown
  <2>11. CASE KEnable
    BY <2>11 DEF KEnable
  <2>12. CASE KAllocate
    BY <2>12 DEF KAllocate
  <2>13. CASE KFail
    BY <2>13 DEF KFail
  <2>14. CASE KDone
    BY <2>14 DEF KDone, Continues
  <2>15. CASE KExit
    BY <2>15 DEF KExit
  <2> QED
    BY <1>4, <2>1, <2>2, <2>3, <2>4, <2>5, <2>6, <2>7, <2>8, <2>9, <2>10,
        <2>11, <2>12, <2>13, <2>14, <2>15 DEF KthreadStep
<1>5. CASE HostStep
  BY <1>5, Priorities DEF HostStep, SetConfig, HostMayAct, Raise, Disconnect,
      LoseHost, DisableFromIrq, BulkReset, ClassRequest, GetMaxLun
<1>6. CASE IrqRaise
  BY <1>6, Priorities DEF IrqRaise, Raise
<1>7. CASE Kill
  BY <1>7 DEF Kill
<1>8. ASSUME NEW e \in Endpoints, Complete(e) PROVE ThreadInv'
  BY <1>8 DEF Complete
<1>9. ASSUME NEW u \in Users, BeginStore(u) PROVE ThreadInv'
  BY <1>9 DEF BeginStore
<1>10. ASSUME NEW u \in Users, FinishStore(u) PROVE ThreadInv'
  BY <1>10 DEF FinishStore, LunClosed
<1>11. CASE UNCHANGED vars
  BY <1>11
<1> QED
  BY <1>1, <1>2, <1>3, <1>4, <1>5, <1>6, <1>7, <1>8, <1>9, <1>10, <1>11 DEF
      Next

\* do_set_interface puts the interface up and down, and fsg_disable cuts in.
LEMMA InterfaceKept == LifeInv /\ [Next]_vars => InterfaceInv'
<1> SUFFICES ASSUME LifeInv, [Next]_vars PROVE InterfaceInv'
  OBVIOUS
<1> USE DEF vars, objectVars, excVars, threadVars, localVars, ifaceVars,
        historyVars, lossVars, hostVars, MGoto, MStep, KGoto, KStep, LifeInv,
        InterfaceInv, Handling, Enabling
<1>1. CASE Load
  BY <1>1 DEF Load
<1>2. CASE Unload
  BY <1>2 DEF Unload, LoseHost, DisableFromIrq
<1>3. CASE ModuleStep
  <2>1. CASE AllocInst \/ LoseInst \/ OpenLun
    BY <2>1, InstanceSteps
  <2>2. CASE Attempt \/ CreateLuns \/ GetFunction \/ Undo \/ Free
    BY <2>2, ObjectSteps
  <2>3. CASE \/ RunThread \/ AssignTask \/ ExitBind \/ Join \/ Register
            \/ Unbind \/ UnbindRaise \/ Unregister \/ Release
    BY <2>3, Priorities DEF RunThread, ThreadInv, BeforeThread, WithDevice,
        AssignTask, ExitBind, EndThread, Raise, Join, Register, Unbind, Gone,
        UnbindRaise, Unregister, Release
  <2> QED
    BY <1>3, <2>1, <2>2, <2>3 DEF ModuleStep
<1>4. CASE KthreadStep
  <2>1. CASE KStart
    BY <2>1 DEF KStart
  <2>2. CASE KHead
    BY <2>2 DEF KHead, Called, Exception
  <2>3. CASE KServe
    BY <2>3 DEF KServe, Called, Exception
  <2>4. CASE KWait
    BY <2>4 DEF KWait
  <2>5. CASE KCancelInterrupted
    BY <2>5 DEF KCancelInterrupted, AllIdle
  <2>6. CASE KTake
    BY <2>6 DEF KTake, AllIdle, Handler
  <2>7. CASE KReset
    BY <2>7 DEF KReset, SameRequest
  <2>8. CASE KAnswer
    BY <2>8 DEF KAnswer
  <2>9. CASE KDrop
    BY <2>9 DEF KDrop
  <2>10. CASE KDown
    BY <2>10 DEF KDown, ThreadInv
  <2>11. CASE KEnable
    BY <2>11 DEF KEnable, Subsets, Endpoints
  <2>12. CASE KAllocate
    BY <2>12 DEF KAllocate
  <2>13. CASE KFail
    BY <2>13 DEF KFail
  <2>14. CASE KDone
    BY <2>14 DEF KDone, Continues
  <2>15. CASE KExit
    BY <2>15 DEF KExit
  <2> QED
    BY <1>4, <2>1, <2>2, <2>3, <2>4, <2>5, <2>6, <2>7, <2>8, <2>9, <2>10,
        <2>11, <2>12, <2>13, <2>14, <2>15 DEF KthreadStep
<1>5. CASE HostStep
  BY <1>5, Priorities DEF HostStep, SetConfig, HostMayAct, Raise, Disconnect,
      LoseHost, DisableFromIrq, BulkReset, ClassRequest, GetMaxLun
<1>6. CASE IrqRaise
  BY <1>6, Priorities DEF IrqRaise, Raise
<1>7. CASE Kill
  BY <1>7 DEF Kill
<1>8. ASSUME NEW e \in Endpoints, Complete(e) PROVE InterfaceInv'
  BY <1>8 DEF Complete
<1>9. ASSUME NEW u \in Users, BeginStore(u) PROVE InterfaceInv'
  BY <1>9 DEF BeginStore
<1>10. ASSUME NEW u \in Users, FinishStore(u) PROVE InterfaceInv'
  BY <1>10 DEF FinishStore, LunClosed
<1>11. CASE UNCHANGED vars
  BY <1>11
<1> QED
  BY <1>1, <1>2, <1>3, <1>4, <1>5, <1>6, <1>7, <1>8, <1>9, <1>10, <1>11 DEF
      Next

\* Once fsg_unbind is through, no one wants the interface any more.
LEMMA HostKept == LifeInv /\ [Next]_vars => HostInv'
<1> SUFFICES ASSUME LifeInv, [Next]_vars PROVE HostInv'
  OBVIOUS
<1> USE DEF vars, objectVars, excVars, threadVars, localVars, ifaceVars,
        historyVars, lossVars, hostVars, MGoto, MStep, KGoto, KStep, LifeInv,
        HostInv, InterfaceInv, WithFunction, Pending, ComingUp, Enabling,
        Handling
<1>1. CASE Load
  BY <1>1 DEF Load
<1>2. CASE Unload
  BY <1>2 DEF Unload, LoseHost, DisableFromIrq
<1>3. CASE ModuleStep
  <2>1. CASE Attempt
    BY <2>1 DEF Attempt, FailAt
  <2>2. CASE CreateLuns
    BY <2>2 DEF CreateLuns, FailAt
  <2>3. CASE GetFunction
    BY <2>3 DEF GetFunction
  <2>4. CASE RunThread
    BY <2>4 DEF RunThread
  <2>5. CASE AssignTask
    BY <2>5 DEF AssignTask
  <2>6. CASE ExitBind
    BY <2>6, Priorities DEF ExitBind, EndThread, Raise
  <2>7. CASE Join
    BY <2>7 DEF Join
  <2>8. CASE Undo
    BY <2>8 DEF Undo
  <2>9. CASE Register
    BY <2>9 DEF Register
  <2>10. CASE Unbind
    BY <2>10 DEF Unbind, Gone
  <2>11. CASE UnbindRaise
    BY <2>11, Priorities DEF UnbindRaise, Raise
  <2>12. CASE Unregister
    BY <2>12 DEF Unregister
  <2>13. CASE Release
    BY <2>13, Priorities DEF Release, EndThread, Raise
  <2>14. CASE Free
    BY <2>14 DEF Free, InstancesLeft
  <2>15. CASE AllocInst
    BY <2>15 DEF AllocInst
  <2>16. CASE LoseInst
    BY <2>16 DEF LoseInst, FailAt
  <2>17. CASE OpenLun
    BY <2>17 DEF OpenLun, FailAt
  <2> QED
    BY <1>3, <2>1, <2>2, <2>3, <2>4, <2>5, <2>6, <2>7, <2>8, <2>9, <2>10,
        <2>11, <2>12, <2>13, <2>14, <2>15, <2>16, <2>17 DEF ModuleStep
<1>4. CASE KthreadStep
  <2>1. CASE KStart
    BY <2>1 DEF KStart
  <2>2. CASE KHead
    BY <2>2 DEF KHead, Called, Exception
  <2>3. CASE KServe
    BY <2>3 DEF KServe, Called, Exception
  <2>4. CASE KWait
    BY <2>4 DEF KWait
  <2>5. CASE KCancelInterrupted
    BY <2>5 DEF KCancelInterrupted, AllIdle
  <2>6. CASE KTake
    BY <2>6 DEF KTake, AllIdle, Handler
  <2>7. CASE KReset
    BY <2>7 DEF KReset, SameRequest
  <2>8. CASE KAnswer
    BY <2>8 DEF KAnswer
  <2>9. CASE KDrop
    BY <2>9 DEF KDrop
  <2>10. CASE KDown
    BY <2>10 DEF KDown
  <2>11. CASE KEnable
    BY <2>11 DEF KEnable
  <2>12. CASE KAllocate
    BY <2>12 DEF KAllocate
  <2>13. CASE KFail
    BY <2>13 DEF KFail
  <2>14. CASE KDone
    BY <2>14 DEF KDone, Continues
  <2>15. CASE KExit
    BY <2>15 DEF KExit
  <2> QED
    BY <1>4, <2>1, <2>2, <2>3, <2>4, <2>5, <2>6, <2>7, <2>8, <2>9, <2>10,
        <2>11, <2>12, <2>13, <2>14, <2>15 DEF KthreadStep
<1>5. CASE HostStep
  BY <1>5, Priorities DEF HostStep, SetConfig, HostMayAct, Raise, Disconnect,
      LoseHost, DisableFromIrq, BulkReset, ClassRequest, GetMaxLun
<1>6. CASE IrqRaise
  BY <1>6, Priorities DEF IrqRaise, Raise
<1>7. CASE Kill
  BY <1>7 DEF Kill
<1>8. ASSUME NEW e \in Endpoints, Complete(e) PROVE HostInv'
  BY <1>8 DEF Complete
<1>9. ASSUME NEW u \in Users, BeginStore(u) PROVE HostInv'
  BY <1>9 DEF BeginStore
<1>10. ASSUME NEW u \in Users, FinishStore(u) PROVE HostInv'
  BY <1>10 DEF FinishStore, LunClosed
<1>11. CASE UNCHANGED vars
  BY <1>11
<1> QED
  BY <1>1, <1>2, <1>3, <1>4, <1>5, <1>6, <1>7, <1>8, <1>9, <1>10, <1>11 DEF
      Next

\* The sysfs class goes after its notifications and before the LUN.
LEMMA ClassKept == LifeInv /\ [Next]_vars => ClassInv'
<1> SUFFICES ASSUME LifeInv, [Next]_vars PROVE ClassInv'
  OBVIOUS
<1> USE DEF vars, objectVars, excVars, threadVars, localVars, ifaceVars,
        historyVars, lossVars, hostVars, MGoto, MStep, KGoto, KStep, LifeInv,
        ClassInv, HostInv, InterfaceInv, WithFunction
<1>1. CASE Load
  BY <1>1 DEF Load
<1>2. CASE Unload
  BY <1>2 DEF Unload, LoseHost, DisableFromIrq
<1>3. CASE ModuleStep
  <2>1. CASE Attempt
    BY <2>1 DEF Attempt, FailAt
  <2>2. CASE CreateLuns
    BY <2>2 DEF CreateLuns, FailAt
  <2>3. CASE GetFunction
    BY <2>3 DEF GetFunction
  <2>4. CASE RunThread
    BY <2>4 DEF RunThread
  <2>5. CASE AssignTask
    BY <2>5 DEF AssignTask
  <2>6. CASE ExitBind
    BY <2>6, Priorities DEF ExitBind, EndThread, Raise
  <2>7. CASE Join
    BY <2>7 DEF Join
  <2>8. CASE Undo
    BY <2>8 DEF Undo
  <2>9. CASE Register
    BY <2>9 DEF Register
  <2>10. CASE Unbind
    BY <2>10 DEF Unbind, Gone
  <2>11. CASE UnbindRaise
    BY <2>11, Priorities DEF UnbindRaise, Raise
  <2>12. CASE Unregister
    BY <2>12 DEF Unregister
  <2>13. CASE Release
    BY <2>13, Priorities DEF Release, EndThread, Raise
  <2>14. CASE Free
    BY <2>14 DEF Free, InstancesLeft
  <2>15. CASE AllocInst
    BY <2>15 DEF AllocInst
  <2>16. CASE LoseInst
    BY <2>16 DEF LoseInst, FailAt
  <2>17. CASE OpenLun
    BY <2>17 DEF OpenLun, FailAt
  <2> QED
    BY <1>3, <2>1, <2>2, <2>3, <2>4, <2>5, <2>6, <2>7, <2>8, <2>9, <2>10,
        <2>11, <2>12, <2>13, <2>14, <2>15, <2>16, <2>17 DEF ModuleStep
<1>4. CASE KthreadStep
  BY <1>4 DEF KthreadStep, KStart, KHead, Called, Exception, KServe, KWait,
      KCancelInterrupted, AllIdle, KTake, Handler, KReset, SameRequest,
      KAnswer, KDrop, KDown, KEnable, KAllocate, KFail, KDone, Continues, KExit
<1>5. CASE HostStep
  BY <1>5, Priorities DEF HostStep, SetConfig, HostMayAct, Raise, Disconnect,
      LoseHost, DisableFromIrq, BulkReset, ClassRequest, GetMaxLun
<1>6. CASE IrqRaise
  BY <1>6, Priorities DEF IrqRaise, Raise
<1>7. CASE Kill
  BY <1>7 DEF Kill
<1>8. ASSUME NEW e \in Endpoints, Complete(e) PROVE ClassInv'
  BY <1>8 DEF Complete
<1>9. ASSUME NEW u \in Users, BeginStore(u) PROVE ClassInv'
  BY <1>9 DEF BeginStore
<1>10. ASSUME NEW u \in Users, FinishStore(u) PROVE ClassInv'
  BY <1>10 DEF FinishStore, LunClosed
<1>11. CASE UNCHANGED vars
  BY <1>11
<1> QED
  BY <1>1, <1>2, <1>3, <1>4, <1>5, <1>6, <1>7, <1>8, <1>9, <1>10, <1>11 DEF
      Next

\* Requests are queued by the command and gone before do_set_interface.
LEMMA RequestKept == LifeInv /\ [Next]_vars => RequestInv'
<1> SUFFICES ASSUME LifeInv, [Next]_vars PROVE RequestInv'
  OBVIOUS
<1> USE DEF vars, objectVars, excVars, threadVars, localVars, ifaceVars,
        historyVars, lossVars, hostVars, MGoto, MStep, KGoto, KStep, LifeInv,
        RequestInv
<1>1. CASE Load
  BY <1>1 DEF Load
<1>2. CASE Unload
  BY <1>2 DEF Unload, LoseHost, DisableFromIrq
<1>3. CASE ModuleStep
  <2>1. CASE AllocInst \/ LoseInst \/ OpenLun
    BY <2>1, InstanceSteps
  <2>2. CASE Attempt \/ CreateLuns \/ GetFunction \/ Undo \/ Free
    BY <2>2, ObjectSteps
  <2>3. CASE \/ RunThread \/ AssignTask \/ ExitBind \/ Join \/ Register
            \/ Unbind \/ UnbindRaise \/ Unregister \/ Release
    BY <2>3, Priorities DEF RunThread, ThreadInv, BeforeThread, WithDevice,
        AssignTask, ExitBind, EndThread, Raise, Join, Register, Unbind, Gone,
        UnbindRaise, Unregister, Release
  <2> QED
    BY <1>3, <2>1, <2>2, <2>3 DEF ModuleStep
<1>4. CASE KthreadStep
  <2>1. CASE KStart
    BY <2>1 DEF KStart
  <2>2. CASE KHead
    BY <2>2 DEF KHead, Called, Exception
  <2>3. CASE KServe
    BY <2>3 DEF KServe, Called, Exception
  <2>4. CASE KWait
    BY <2>4 DEF KWait
  <2>5. CASE KCancelInterrupted
    BY <2>5 DEF KCancelInterrupted, AllIdle
  <2>6. CASE KTake
    BY <2>6 DEF KTake, AllIdle, Handler
  <2>7. CASE KReset
    BY <2>7 DEF KReset, SameRequest
  <2>8. CASE KAnswer
    BY <2>8 DEF KAnswer
  <2>9. CASE KDrop
    BY <2>9 DEF KDrop
  <2>10. CASE KDown
    BY <2>10 DEF KDown
  <2>11. CASE KEnable
    BY <2>11 DEF KEnable
  <2>12. CASE KAllocate
    BY <2>12 DEF KAllocate
  <2>13. CASE KFail
    BY <2>13 DEF KFail
  <2>14. CASE KDone
    BY <2>14 DEF KDone, Continues
  <2>15. CASE KExit
    BY <2>15 DEF KExit
  <2> QED
    BY <1>4, <2>1, <2>2, <2>3, <2>4, <2>5, <2>6, <2>7, <2>8, <2>9, <2>10,
        <2>11, <2>12, <2>13, <2>14, <2>15 DEF KthreadStep
<1>5. CASE HostStep
  BY <1>5, Priorities DEF HostStep, SetConfig, HostMayAct, Raise, Disconnect,
      LoseHost, DisableFromIrq, BulkReset, ClassRequest, GetMaxLun
<1>6. CASE IrqRaise
  BY <1>6, Priorities DEF IrqRaise, Raise
<1>7. CASE Kill
  BY <1>7 DEF Kill
<1>8. ASSUME NEW e \in Endpoints, Complete(e) PROVE RequestInv'
  BY <1>8 DEF Complete
<1>9. ASSUME NEW u \in Users, BeginStore(u) PROVE RequestInv'
  BY <1>9 DEF BeginStore
<1>10. ASSUME NEW u \in Users, FinishStore(u) PROVE RequestInv'
  BY <1>10 DEF FinishStore, LunClosed
<1>11. CASE UNCHANGED vars
  BY <1>11
<1> QED
  BY <1>1, <1>2, <1>3, <1>4, <1>5, <1>6, <1>7, <1>8, <1>9, <1>10, <1>11 DEF
      Next

\* An exception is replaced only by one that says more.
LEMMA FollowKept == LifeInv /\ [Next]_vars => FollowInv'
<1> SUFFICES ASSUME LifeInv, [Next]_vars PROVE FollowInv'
  OBVIOUS
<1> USE DEF vars, objectVars, excVars, threadVars, localVars, ifaceVars,
        historyVars, lossVars, hostVars, MGoto, MStep, KGoto, KStep, LifeInv,
        FollowInv, Booleans, IsBoolean, InterfaceInv, HostInv, ThreadInv,
        Ending, Handling, Enabling, BeforeThread, WithFunction, Pending
<1>1. CASE Load
  BY <1>1 DEF Load
<1>2. CASE Unload
  BY <1>2 DEF Unload, LoseHost, DisableFromIrq
<1>3. CASE ModuleStep
  <2>1. CASE AllocInst \/ LoseInst \/ OpenLun
    BY <2>1, InstanceSteps
  <2>2. CASE Attempt \/ CreateLuns \/ GetFunction \/ Undo \/ Free
    BY <2>2, ObjectSteps
  <2>3. CASE \/ RunThread \/ AssignTask \/ ExitBind \/ Join \/ Register
            \/ Unbind \/ UnbindRaise \/ Unregister \/ Release
    BY <2>3, Priorities DEF RunThread, WithDevice, AssignTask, ExitBind,
        EndThread, Raise, Join, Register, Unbind, Gone, UnbindRaise,
        Unregister, Release
  <2> QED
    BY <1>3, <2>1, <2>2, <2>3 DEF ModuleStep
<1>4. CASE KthreadStep
  <2>1. CASE KStart
    BY <2>1 DEF KStart
  <2>2. CASE KHead
    BY <2>2 DEF KHead, Called, Exception
  <2>3. CASE KServe
    BY <2>3 DEF KServe, Called, Exception
  <2>4. CASE KWait
    BY <2>4 DEF KWait
  <2>5. CASE KCancelInterrupted
    BY <2>5 DEF KCancelInterrupted, AllIdle
  <2>6. CASE KTake
    <3>1. CASE state = "CONFIG_CHANGE"
      <4>1. IsBoolean(arg) /\ IsBoolean(configured)
        BY DEF Booleans
      <4>2. newFsg' = arg
        BY <2>6, <3>1, <4>1 DEF IsBoolean, KTake
      <4> QED
        BY <2>6, <3>1, <4>1, <4>2 DEF IsBoolean, KTake, Handler
    <3>2. CASE state = "EXIT"
      BY <2>6, <3>2 DEF KTake, Handler
    <3>3. CASE state \in {"NORMAL", "PROTOCOL_RESET"}
      BY <2>6, <3>3, Priorities DEF KTake, Handler
    <3>4. CASE state = "TERMINATED"
      BY <2>6, <3>4 DEF ThreadInv, KTake
    <3> QED
      BY <3>1, <3>2, <3>3, <3>4 DEF Elements, States
  <2>7. CASE KReset
    BY <2>7 DEF KReset, SameRequest
  <2>8. CASE KAnswer
    BY <2>8 DEF KAnswer
  <2>9. CASE KDrop
    BY <2>9 DEF KDrop
  <2>10. CASE KDown
    BY <2>10 DEF KDown
  <2>11. CASE KEnable
    BY <2>11 DEF KEnable
  <2>12. CASE KAllocate
    BY <2>12 DEF KAllocate, Subsets, Endpoints
  <2>13. CASE KFail
    BY <2>13 DEF KFail
  <2>14. CASE KDone
    BY <2>14 DEF KDone, Continues
  <2>15. CASE KExit
    BY <2>15 DEF KExit
  <2> QED
    BY <1>4, <2>1, <2>2, <2>3, <2>4, <2>5, <2>6, <2>7, <2>8, <2>9, <2>10,
        <2>11, <2>12, <2>13, <2>14, <2>15 DEF KthreadStep
<1>5. CASE HostStep
  BY <1>5, Priorities DEF HostStep, SetConfig, HostMayAct, Raise, Disconnect,
      LoseHost, DisableFromIrq, BulkReset, ClassRequest, GetMaxLun
<1>6. CASE IrqRaise
  BY <1>6, Priorities DEF IrqRaise, Raise
<1>7. CASE Kill
  BY <1>7 DEF Kill
<1>8. ASSUME NEW e \in Endpoints, Complete(e) PROVE FollowInv'
  BY <1>8 DEF Complete
<1>9. ASSUME NEW u \in Users, BeginStore(u) PROVE FollowInv'
  BY <1>9 DEF BeginStore
<1>10. ASSUME NEW u \in Users, FinishStore(u) PROVE FollowInv'
  BY <1>10 DEF FinishStore, LunClosed
<1>11. CASE UNCHANGED vars
  BY <1>11
<1> QED
  BY <1>1, <1>2, <1>3, <1>4, <1>5, <1>6, <1>7, <1>8, <1>9, <1>10, <1>11 DEF
      Next

\* A request that comes after another one is not taken for it.
LEMMA AnswerKept == LifeInv /\ [Next]_vars => AnswerInv'
<1> SUFFICES ASSUME LifeInv, [Next]_vars PROVE AnswerInv'
  OBVIOUS
<1> USE DEF vars, objectVars, excVars, threadVars, localVars, ifaceVars,
        historyVars, lossVars, hostVars, MGoto, MStep, KGoto, KStep, LifeInv,
        AnswerInv, FollowInv, InterfaceInv, Handling, Enabling, Pending,
        Answering, HalfDisconnected
<1>1. CASE Load
  BY <1>1 DEF Load
<1>2. CASE Unload
  BY <1>2 DEF Unload, LoseHost, DisableFromIrq
<1>3. CASE ModuleStep
  <2>1. CASE AllocInst \/ LoseInst \/ OpenLun
    BY <2>1, InstanceSteps
  <2>2. CASE Attempt \/ CreateLuns \/ GetFunction \/ Undo \/ Free
    BY <2>2, ObjectSteps
  <2>3. CASE RunThread \/ AssignTask \/ Join \/ Register \/ Unbind \/ Unregister
    BY <2>3 DEF RunThread, AssignTask, Join, Register, Unbind, Gone, Unregister
  <2>4. CASE ExitBind \/ UnbindRaise \/ Release
    BY <2>4, Priorities DEF ExitBind, EndThread, UnbindRaise, Release, Raise
  <2> QED
    BY <1>3, <2>1, <2>2, <2>3, <2>4 DEF ModuleStep
<1>4. CASE KthreadStep
  <2>1. CASE KStart
    BY <2>1 DEF KStart
  <2>2. CASE KHead
    BY <2>2 DEF KHead, Called, Exception
  <2>3. CASE KServe
    BY <2>3 DEF KServe, Called, Exception
  <2>4. CASE KWait
    BY <2>4 DEF KWait
  <2>5. CASE KCancelInterrupted
    BY <2>5 DEF KCancelInterrupted, AllIdle
  <2>6. CASE KTake
    <3>1. IsBoolean(arg) /\ IsBoolean(fresh) /\ IsBoolean(overtaken)
      BY DEF Booleans
    <3>2. CASE Pending
      <4>1. newFsg' = TRUE
        BY <2>6, <3>1, <3>2 DEF IsBoolean, KTake
      <4>2. overtaken' = TRUE \/ (~overtaken /\ irq # "raise")
        BY <2>6, <3>1, <3>2, <4>1 DEF IsBoolean, HalfDisconnected, KTake
      <4>3. CASE overtaken' = TRUE
        BY <2>6, <4>3 DEF FollowInv, KTake
      <4>4. CASE ~overtaken /\ irq # "raise"
        <5>1. ctrl = "config" /\ irq = "idle"
          BY <3>2, <4>4 DEF Elements
        <5> QED
          BY <2>6, <3>2, <5>1 DEF KTake, Handler
      <4> QED
        BY <4>2, <4>3, <4>4
    <3>3. CASE state = "PROTOCOL_RESET"
      BY <2>6, <3>1, <3>3 DEF IsBoolean, HalfDisconnected, KTake, Handler
    <3>4. CASE ~Pending /\ state # "PROTOCOL_RESET"
      BY <2>6, <3>1, <3>4 DEF IsBoolean, HalfDisconnected, KTake, Handler
    <3> QED
      BY <3>2, <3>3, <3>4
  <2>7. CASE KReset
    BY <2>7 DEF KReset, SameRequest
  <2>8. CASE KAnswer
    BY <2>8 DEF KAnswer
  <2>9. CASE KDrop
    BY <2>9 DEF KDrop
  <2>10. CASE KDown
    BY <2>10 DEF KDown
  <2>11. CASE KEnable
    BY <2>11 DEF KEnable
  <2>12. CASE KAllocate
    BY <2>12 DEF KAllocate
  <2>13. CASE KFail
    BY <2>13 DEF KFail
  <2>14. CASE KDone
    BY <2>14 DEF KDone, Continues
  <2>15. CASE KExit
    BY <2>15 DEF KExit
  <2> QED
    BY <1>4, <2>1, <2>2, <2>3, <2>4, <2>5, <2>6, <2>7, <2>8, <2>9, <2>10,
        <2>11, <2>12, <2>13, <2>14, <2>15 DEF KthreadStep
<1>5. CASE HostStep
  <2>1. CASE SetConfig
    BY <2>1, Priorities DEF SetConfig, HostMayAct, Raise
  <2>2. CASE Disconnect
    BY <2>2 DEF Disconnect, HostMayAct, LoseHost, DisableFromIrq
  <2>3. CASE BulkReset
    <3>1. CASE kpc = "ep0"
      BY <2>3, <3>1, Priorities DEF BulkReset, ClassRequest, HostMayAct, Raise
    <3>2. CASE kpc # "ep0"
      <4>1. overtaken' = overtaken
        BY <2>3, <3>2 DEF Booleans, IsBoolean, BulkReset, ClassRequest
      <4>2. CASE Preempts("PROTOCOL_RESET")
        BY <2>3, <3>2, <4>1, <4>2, Priorities
           DEF BulkReset, ClassRequest, HostMayAct, Raise
      <4>3. CASE ~Preempts("PROTOCOL_RESET")
        BY <2>3, <3>2, <4>1, <4>3, Priorities
           DEF BulkReset, ClassRequest, HostMayAct, Raise
      <4> QED
        BY <4>2, <4>3
    <3> QED
      BY <3>1, <3>2
  <2>4. CASE GetMaxLun
    BY <2>4 DEF GetMaxLun, ClassRequest, HostMayAct
  <2> QED
    BY <1>5, <2>1, <2>2, <2>3, <2>4 DEF HostStep
<1>6. CASE IrqRaise
  BY <1>6, Priorities DEF IrqRaise, Raise
<1>7. CASE Kill
  BY <1>7 DEF Kill
<1>8. ASSUME NEW e \in Endpoints, Complete(e) PROVE AnswerInv'
  BY <1>8 DEF Complete
<1>9. ASSUME NEW u \in Users, BeginStore(u) PROVE AnswerInv'
  BY <1>9 DEF BeginStore
<1>10. ASSUME NEW u \in Users, FinishStore(u) PROVE AnswerInv'
  BY <1>10 DEF FinishStore, LunClosed
<1>11. CASE UNCHANGED vars
  BY <1>11
<1> QED
  BY <1>1, <1>2, <1>3, <1>4, <1>5, <1>6, <1>7, <1>8, <1>9, <1>10, <1>11 DEF
      Next

\* All of it holds before g_floppy is first loaded.
LEMMA LifeInvInitially == Init => LifeInv
<1> SUFFICES ASSUME Init PROVE LifeInv
  OBVIOUS
<1> USE DEF Init
<1>1. Elements
  BY DEF Elements, Loading, Unloading, Releasing, States
<1>2. Subsets /\ Booleans
  BY DEF Subsets, Booleans, IsBoolean
<1>3. CountInv /\ ObjectInv /\ LunInv /\ ThreadInv
  BY FsgLifecycleAssumption
     DEF FsgLifecycleAssumption, CountInv, ObjectInv, LunInv, LunClosed, Ended,
         ThreadInv, Allocating, WithoutDevice, WithDevice, BeforeThread, Bound,
         WithFunction, AfterUnbind, EndUnawaited
<1>4. InterfaceInv /\ HostInv /\ ClassInv
  BY DEF InterfaceInv, HostInv, ClassInv, Handling, Enabling, ComingUp,
         Pending, WithFunction
<1>5. RequestInv /\ FollowInv /\ AnswerInv
  BY DEF RequestInv, FollowInv, AnswerInv, Ending, Pending
<1> QED
  BY <1>1, <1>2, <1>3, <1>4, <1>5 DEF LifeInv

LEMMA LifeInvKept == LifeInv /\ [Next]_vars => LifeInv'
BY ElementKept, SubsetKept, BoolKept, CountKept, ObjectKept, LunKept,
   ThreadKept, InterfaceKept, HostKept, ClassKept, RequestKept, FollowKept,
   AnswerKept DEF LifeInv

LEMMA LifeInvHolds == Spec => []LifeInv
BY LifeInvInitially, LifeInvKept, PTL DEF Spec

-----------------------------------------------------------------------------
(* The theorems.                                                           *)

\* TLA+ has one set of truth values.
LEMMA BooleanTypes ==
  ASSUME NEW x
  PROVE  IsBoolean(x) <=> x \in BOOLEAN
BY DEF IsBoolean

\* Types, of every variable.
THEOREM TypeCorrect == Spec => []TypeOK
<1>1. LifeInv => TypeOK
  <2> SUFFICES ASSUME LifeInv PROVE TypeOK
    OBVIOUS
  <2>1. Elements /\ Subsets
    BY DEF LifeInv
  <2>2. /\ active \in BOOLEAN /\ class \in BOOLEAN /\ notify \in BOOLEAN
        /\ file \in BOOLEAN /\ arg \in BOOLEAN /\ fresh \in BOOLEAN
        /\ task \in BOOLEAN /\ notified \in BOOLEAN
    BY BooleanTypes DEF LifeInv, Booleans
  <2>3. /\ newFsg \in BOOLEAN /\ failed \in BOOLEAN /\ mine \in BOOLEAN
        /\ iface \in BOOLEAN /\ running \in BOOLEAN /\ reqs \in BOOLEAN
    BY BooleanTypes DEF LifeInv, Booleans
  <2>4. /\ attached \in BOOLEAN /\ configured \in BOOLEAN
        /\ delayed \in BOOLEAN
        /\ killed \in BOOLEAN /\ raced \in BOOLEAN /\ overtaken \in BOOLEAN
        /\ aborted \in BOOLEAN /\ reopened \in BOOLEAN
    BY BooleanTypes DEF LifeInv, Booleans
  <2>5. lost \in 0..MaxLost /\ refs \in 0..(MaxLost + 1)
    BY FsgLifecycleAssumption DEF FsgLifecycleAssumption, LifeInv, CountInv
  <2> QED
    BY <2>1, <2>2, <2>3, <2>4, <2>5 DEF TypeOK, Elements, Subsets
<1> QED
  BY <1>1, LifeInvHolds, PTL

\* Nothing is used after it is freed: the kthread, the stores and the
\* notifications end, or are waited for, before fsg_common_release and
\* fsg_unbind let go of what they use, but for the two windows that
\* NoUseAfterFree names.
THEOREM NothingUsedTooLate == Spec => []NoUseAfterFree
<1>1. LifeInv => NoUseAfterFree
  <2> SUFFICES ASSUME LifeInv PROVE NoUseAfterFree
    OBVIOUS
  <2> USE DEF LifeInv, WithFunction, AfterUnbind
  <2>1. kpc # "none" /\ ~EndUnawaited =>
          {"common", "buffers", "lun"} \subseteq alive
    BY DEF ThreadInv
  <2>2. (iface \/ ComingUp \/ (state = "CONFIG_CHANGE" /\ arg)) /\ ~raced =>
          "fsg" \in alive
    BY DEF HostInv, ObjectInv, Pending
  <2>3. \A u \in Users : upc[u] = "store" => {"common", "lun"} \subseteq alive
    BY DEF ClassInv, LunInv, ObjectInv, WithoutDevice, WithDevice
  <2>4. class /\ active => "common" \in alive
    BY DEF ClassInv, ObjectInv
  <2>5. (notify \/ kpc = "notify") /\ ~raced => class
    BY DEF ClassInv
  <2> QED
    BY <2>1, <2>2, <2>3, <2>4, <2>5 DEF NoUseAfterFree
<1> QED
  BY <1>1, LifeInvHolds, PTL

\* do_set_interface frees no request in flight, and no request is in flight on
\* an endpoint that fsg_disable has turned off.
THEOREM RequestsAreOutlived == Spec => []RequestsOutlived
<1>1. LifeInv => RequestsOutlived
  BY DEF LifeInv, RequestInv, RequestsOutlived
<1> QED
  BY <1>1, LifeInvHolds, PTL

\* Without an interface there is nothing of one left.
LEMMA DownIsDown ==
  ASSUME LifeInv, ~iface, kpc \notin {"inFlag", "outFlag", "down"}
  PROVE  InterfaceDown
<1>1. enabled = {} /\ ~reqs /\ ~running
  BY DEF LifeInv, InterfaceInv
<1>2. hardware = {}
  BY <1>1 DEF LifeInv, InterfaceInv, Subsets, Endpoints
<1> QED
  BY <1>1, <1>2 DEF InterfaceDown

\* Exceptions overtake each other (__raise_exception), and fsg_disable cuts
\* into do_set_interface: what is left in the end is what the host wanted.
THEOREM FollowsHost == Spec => []InterfaceFollowsHost
<1>1. LifeInv => InterfaceFollowsHost
  <2> SUFFICES ASSUME LifeInv, kpc \in {"top", "sleep", "io", "notify"},
                      ~Exception, irq = "idle"
               PROVE  IF configured /\ ~failed THEN InterfaceUp
                      ELSE InterfaceDown
    BY DEF InterfaceFollowsHost
  <2>1. iface <=> configured /\ ~failed
    BY DEF LifeInv, FollowInv, Ending, Exception, Handling, Enabling
  <2>2. CASE configured /\ ~failed
    <3>1. enabled = Endpoints /\ running /\ reqs
      BY <2>1, <2>2 DEF LifeInv, FollowInv, InterfaceInv, Ending, Exception,
                        Handling, Enabling
    <3>2. hardware = Endpoints
      BY <3>1 DEF LifeInv, InterfaceInv, Subsets
    <3> QED
      BY <2>1, <2>2, <3>1, <3>2 DEF InterfaceUp
  <2>3. CASE ~(configured /\ ~failed)
    BY <2>1, <2>3, DownIsDown
  <2> QED
    BY <2>2, <2>3
<1> QED
  BY <1>1, LifeInvHolds, PTL

\* Nothing remains of the module once it is unloaded or has failed to load, at
\* whichever step, but for what NothingLeft names: the pointer and the reference
\* that fsg_alloc_inst leaves when it fails halfway, a file that was opened too
\* late, and a thread that was killed.
THEOREM NothingRemains == Spec => []NothingLeft
<1>1. LifeInv => NothingLeft
  <2> SUFFICES ASSUME LifeInv, mpc = "unloaded" PROVE NothingLeft
    BY DEF NothingLeft
  <2> USE DEF LifeInv, Bound, WithFunction, AfterUnbind
  <2>1. /\ alive = {} /\ refs = lost
        /\ ~aborted => ~active
        /\ ~reopened => ~file
    BY DEF CountInv, ObjectInv, LunInv
  <2>2. ~class /\ ~notify
    BY DEF ClassInv
  <2>3. kpc = "none" \/ EndUnawaited
    BY DEF ThreadInv
  <2>4. ~killed => kpc = "none" /\ ~task /\ ~notified
    BY <2>3 DEF ThreadInv, EndUnawaited
  <2>5. ~iface /\ kpc \notin {"inFlag", "outFlag", "down"}
    BY <2>3 DEF ThreadInv, InterfaceInv, EndUnawaited
  <2>6. InterfaceDown
    BY <2>5, DownIsDown
  <2>7. queued = {}
    BY <2>6 DEF RequestInv, InterfaceDown
  <2> QED
    BY <2>1, <2>2, <2>4, <2>6, <2>7 DEF NothingLeft
<1> QED
  BY <1>1, LifeInvHolds, PTL

\* The kthread answers the request it has handled, and no other (ep0_req_tag).
THEOREM AnswersOnlyItsRequest == Spec => AnswersItsRequest
<1>1. LifeInv => (kpc = "ep0" /\ ~overtaken => ctrl = "reset")
  BY DEF LifeInv, AnswerInv
<1>2. LifeInv => (kpc = "continue" /\ ~overtaken =>
                    ctrl = "config" /\ irq = "idle"
                    /\ ~(state = "CONFIG_CHANGE" /\ arg))
  BY DEF LifeInv, AnswerInv, InterfaceInv, Pending
<1>3. LifeInv =>
        [/\ kpc = "ep0" /\ kpc' # "ep0" /\ ~overtaken => ctrl = "reset"
         /\ kpc = "continue" /\ kpc' # "continue" /\ ~overtaken =>
              /\ ctrl = "config" /\ irq = "idle"
              /\ ~(state = "CONFIG_CHANGE" /\ arg)]_vars
  BY <1>1, <1>2
<1> QED
  BY <1>3, LifeInvHolds, PTL DEF AnswersItsRequest
=============================================================================
