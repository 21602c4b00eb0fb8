------------------------ MODULE GadgetControllerProofs ------------------------
(***************************************************************************)
(* Proofs about GadgetController, for any number of images and of requests *)
(* in flight: what the clients are shown is what the drive holds, the      *)
(* records that outlive the service agree with it, and a start restores    *)
(* the last mount.                                                         *)
(***************************************************************************)
EXTENDS GadgetController, TLAPS, SequenceTheorems

-----------------------------------------------------------------------------
(* The parts of TypeOK: the provers want them apart.                       *)

DiskTypes ==
    /\ link \in Files \union {None}
    /\ saved \in Disks \union {None}
    /\ temp \in [Temps -> Disks \union {None}]
    /\ undersize \subseteq Disks
    /\ marker \subseteq Disks
    /\ library \subseteq Disks

DriveTypes ==
    /\ lun \in [file : Files \union {None}, image : Disks \union {Blank, None}]
    /\ lunRo \in BOOLEAN /\ door \in BOOLEAN
    /\ service \in {"down", "starting", "up"} /\ current \in Jobs

ReqType == req \in [Handlers -> Jobs]

LoopTypes ==
    /\ pc \in [Handlers -> Pcs]
    /\ target \in [Handlers -> Files]

SleepType == sleeping \in Seq(Requests)

-----------------------------------------------------------------------------
(* The inductive invariant: what the handlers are about to do.             *)

Waiting == {"idle", "sleep"}

\* A handler that is to mount an image, and knows the file.
HasJob(job) == job.disk \in Disks /\ job.file \in Disks \union Temps

\* What each step of mount() and eject() relies on.
JobInv ==
    /\ current = NoImage \/ HasJob(current)
    /\ \A h \in Handlers :
         /\ req[h] = NoImage \/ HasJob(req[h])
         /\ pc[h] \in {"prepare", "copy", "sleep", "setRo", "attach", "commit"}
              => HasJob(req[h])
         /\ pc[h] = "prepare" => req[h].file = req[h].disk
         /\ pc[h] = "copy" => req[h].file \in Temps
         /\ pc[h] \in {"setRo", "attach", "commit"} => target[h] = req[h].file
         /\ pc[h] \in {"unlink", "relink", "detach"} =>
              target[h] = Blank \/ (HasJob(req[h]) /\ target[h] = req[h].file)

\* One handler runs at a time; the startup runs alone.
LoopInv ==
    /\ \A g, h \in Handlers :
         g # h => pc[g] \in Waiting \/ pc[h] \in Waiting
    /\ service = "starting" <=> pc[Boot] # "idle"
    /\ service # "up" => current = NoImage
    /\ service # "up" => \A r \in Requests : pc[r] = "idle"

\* A handler sleeps once.
SleepInv ==
    /\ \A i \in 1..Len(sleeping) : pc[sleeping[i]] = "sleep"
    /\ \A i, j \in 1..Len(sleeping) :
         i # j => sleeping[i] # sleeping[j]

\* The startup mounts the saved image, with nothing to eject first.
BootInv ==
    pc[Boot] # "idle" =>
        /\ pc[Boot] \notin {"sleep", "ejected", "persist"}
        /\ HasJob(req[Boot]) /\ req[Boot].disk = saved
        /\ pc[Boot] \in {"unlink", "relink", "detach"} =>
             target[Boot] = req[Boot].file

ControlInv == TypeOK /\ JobInv /\ LoopInv /\ SleepInv /\ BootInv

-----------------------------------------------------------------------------
(* What the drive holds, while no file in the session directory is shared. *)

\* No sessions, and no undersize image: no copy is ever made.
InPlace == Sessions \subseteq {FALSE} /\ UndersizeDisks = {}

InPlaceInv ==
    /\ undersize = {}
    /\ current.file = current.disk /\ current.session = FALSE
    /\ \A h \in Handlers :
         /\ pc[h] # "copy"
         /\ req[h].file = req[h].disk /\ req[h].session = FALSE

HoldsMedium == current # NoImage /\ lun # NoMedium

\* Between the ro flag and the commit the drive is ahead of what is shown.
DriveInv ==
    /\ (\A h \in Handlers : pc[h] \notin {"setRo", "attach", "commit"}) =>
         (HoldsMedium =>
            /\ lun = [file |-> current.file, image |-> current.disk]
            /\ lunRo = current.ro)
    /\ \A h \in Handlers :
         /\ pc[h] \in {"setRo", "attach", "ejected"} => lun = NoMedium
         /\ pc[h] \in {"attach", "commit"} => lunRo = req[h].ro
         /\ pc[h] = "commit" =>
              \/ lun = NoMedium
              \/ lun = [file |-> req[h].file, image |-> req[h].disk]

\* The symlink runs ahead of the drive from its removal to the commit.
LinkInv ==
    /\ door = FALSE
    /\ (\A h \in Handlers :
          pc[h] \notin {"relink", "detach", "setRo", "attach", "commit"}) =>
         (HoldsMedium => link = lun.file)
    /\ \A h \in Handlers :
         pc[h] \in {"detach", "setRo", "attach", "commit"} =>
           link = target[h]

\* config.json lags between the commit and its own write.
SavedInv ==
    (\A h \in Handlers : pc[h] # "persist") =>
      (current # NoImage => saved = current.disk)

-----------------------------------------------------------------------------
(* What the startup has done so far, if nothing empties the drive.         *)

RestoreInv ==
    /\ pc[Boot] \in {"unlink", "relink", "detach", "setRo", "attach"} =>
         ImageIn(req[Boot].file) = saved
    /\ pc[Boot] \in {"setRo", "attach"} => lun = NoMedium
    /\ pc[Boot] = "commit" => lun.image = saved

-----------------------------------------------------------------------------
(* What the actions do, in the forms the proofs need.                      *)

\* Who is woken is asleep, and nobody else in the queue is it.
LEMMA Sleeper ==
  ASSUME TypeOK, SleepInv, sleeping # <<>>
  PROVE  /\ Head(sleeping) \in Requests /\ pc[Head(sleeping)] = "sleep"
         /\ Tail(sleeping) \in Seq(Requests)
         /\ \A i \in 1..Len(Tail(sleeping)) :
              /\ pc[Tail(sleeping)[i]] = "sleep"
              /\ Tail(sleeping)[i] # Head(sleeping)
              /\ \A j \in 1..Len(Tail(sleeping)) :
                   i # j => Tail(sleeping)[i] # Tail(sleeping)[j]
<1>1. sleeping \in Seq(Requests)
  BY DEF TypeOK
<1>2. /\ Head(sleeping) = sleeping[1] /\ Len(sleeping) \in Nat \ {0}
      /\ Head(sleeping) \in Requests
      /\ Tail(sleeping) \in Seq(Requests)
      /\ Len(Tail(sleeping)) = Len(sleeping) - 1
      /\ \A i \in 1..Len(Tail(sleeping)) : Tail(sleeping)[i] = sleeping[i+1]
  BY <1>1, HeadTailProperties
<1>3. \A i \in 1..Len(Tail(sleeping)) :
        i+1 \in 1..Len(sleeping) /\ i+1 # 1
  BY <1>2
<1>4. 1 \in 1..Len(sleeping)
  BY <1>2
<1> QED
  BY <1>2, <1>3, <1>4 DEF SleepInv

\* What Prepare does, in the two forms the proofs need.
PrepareCopy(h) ==
    /\ req[h].session \/ req[h].disk \in undersize
    /\ pc' = [pc EXCEPT ![h] = "copy"]
    /\ req' \in [Handlers -> Jobs]
    /\ req'[h].file \in Temps
    /\ req'[h].disk = req[h].disk
    /\ req'[h].session = req[h].session
    /\ \A g \in Handlers \ {h} : req'[g] = req[g]
    /\ temp' = EmptyTemps
    /\ UNCHANGED <<undersize, target>>

PrepareImage(h) ==
    /\ pc' = [pc EXCEPT ![h] = "unlink"]
    /\ target' = [target EXCEPT ![h] = IF current # NoImage THEN Blank
                                       ELSE req[h].disk]
    /\ undersize' = undersize \ {req[h].disk}
    /\ UNCHANGED <<temp, req>>

\* Prepare makes a copy or takes the image itself.
LEMMA PrepareForms ==
  ASSUME TypeOK, NEW h \in Handlers, Prepare(h)
  PROVE  /\ pc[h] = "prepare"
         /\ PrepareCopy(h) \/ PrepareImage(h)
         /\ UNCHANGED <<link, saved, marker, lun, lunRo, door, service,
                        library, current, sleeping>>
<1>1. pc[h] = "prepare"
      /\ UNCHANGED <<link, saved, marker, lun, lunRo, door, service,
                     library, current, sleeping>>
  BY DEF Prepare, lunVars
<1>2. ASSUME NEW f \in Temps,
             req[h].session \/ (req[h].disk \in undersize /\ req[h].ro),
             temp' = EmptyTemps, req' = [req EXCEPT ![h].file = f],
             Goto(h, "copy"), UNCHANGED <<undersize, target>>
      PROVE  PrepareCopy(h)
  <2>1. req \in [Handlers -> Jobs] /\ req[h] \in Jobs
    BY DEF TypeOK
  <2>2. req'[h] = [req[h] EXCEPT !.file = f]
        /\ \A g \in Handlers \ {h} : req'[g] = req[g]
    BY <1>2, <2>1
  <2>3. [req[h] EXCEPT !.file = f] \in Jobs
    <3>1. f \in Files \union {None}
      BY DEF Files
    <3> QED
      BY <2>1, <3>1 DEF Jobs
  <2>4. /\ [req[h] EXCEPT !.file = f].file = f
        /\ [req[h] EXCEPT !.file = f].disk = req[h].disk
        /\ [req[h] EXCEPT !.file = f].session = req[h].session
    BY <2>1 DEF Jobs
  <2>5. req' \in [Handlers -> Jobs]
    BY <1>2, <2>1, <2>3
  <2> QED
    BY <1>2, <2>2, <2>4, <2>5 DEF PrepareCopy, Goto
<1>3. CASE req[h].session \/ (req[h].disk \in undersize /\ req[h].ro)
  <2>1. PICK f \in Temps :
          /\ temp' = EmptyTemps /\ req' = [req EXCEPT ![h].file = f]
          /\ Goto(h, "copy") /\ UNCHANGED <<undersize, target>>
    BY <1>3 DEF Prepare, Temps
  <2> QED
    BY <1>1, <1>2, <1>3, <2>1
<1>4. CASE ~(req[h].session \/ (req[h].disk \in undersize /\ req[h].ro))
  <2>1. PrepareImage(h)
    BY <1>4 DEF Prepare, PrepareImage, AfterPrepare, Configure, Goto
  <2> QED
    BY <1>1, <2>1
<1> QED
  BY <1>3, <1>4

\* The four ways in which the write of "\n" ends.
DetachForms(h) ==
    \/ DoorIsLocked /\ Fail(h) /\ UNCHANGED <<lun, sleeping>>
    \/ /\ lun' = NoMedium /\ UNCHANGED <<service, req, target>>
       /\ \/ /\ target[h] # Blank /\ pc' = [pc EXCEPT ![h] = "setRo"]
             /\ UNCHANGED sleeping
          \/ /\ h # Boot /\ req[h] = NoImage
             /\ pc' = [pc EXCEPT ![h] = "ejected"]
             /\ UNCHANGED sleeping
          \/ /\ h \in Requests /\ req[h] # NoImage
             /\ pc' = [pc EXCEPT ![h] = "sleep"]
             /\ sleeping' = Append(sleeping, h)

\* The startup never sleeps: it has nothing to eject.
LEMMA DetachEnds ==
  ASSUME BootInv, JobInv, NEW h \in Handlers, Detach(h)
  PROVE  /\ pc[h] = "detach" /\ DetachForms(h)
         /\ UNCHANGED <<diskVars, lunRo, door, library, current>>
<1>1. /\ pc[h] = "detach"
      /\ UNCHANGED <<diskVars, lunRo, door, library, current>>
  BY DEF Detach
<1>2. target[h] = Blank => h # Boot
  BY <1>1, GadgetControllerAssumption DEF BootInv, HasJob
<1>3. target[h] = Blank => h \in Requests
  BY <1>2 DEF Handlers
<1> QED
  BY <1>1, <1>2, <1>3 DEF Detach, DetachForms, Goto

\* A handler that falls asleep was not in the queue.
LEMMA FallAsleep ==
  ASSUME NEW h \in Requests, TypeOK, SleepInv, pc[h] = "detach",
         sleeping' = Append(sleeping, h), pc' = [pc EXCEPT ![h] = "sleep"]
  PROVE  SleepInv' /\ SleepType'
<1>1. /\ sleeping \in Seq(Requests) /\ pc \in [Handlers -> Pcs]
      /\ Len(sleeping) \in Nat
      /\ \A i \in 1..Len(sleeping) : sleeping[i] \in Requests
  BY DEF TypeOK
<1>2. /\ sleeping' \in Seq(Requests)
      /\ Len(sleeping') = Len(sleeping) + 1
      /\ sleeping'[Len(sleeping) + 1] = h
      /\ \A i \in 1..Len(sleeping) : sleeping'[i] = sleeping[i]
  BY <1>1, AppendProperties
<1>3. \A i \in 1..Len(sleeping) : pc[sleeping[i]] = "sleep" /\ sleeping[i] # h
  BY DEF SleepInv
<1>4. \A i \in 1..Len(sleeping) : pc'[sleeping[i]] = "sleep"
  BY <1>1, <1>3 DEF Handlers
<1>5. pc'[h] = "sleep"
  BY <1>1 DEF Handlers
<1>6. \A i \in 1..Len(sleeping') :
        i \in 1..Len(sleeping) \/ i = Len(sleeping) + 1
  BY <1>1, <1>2
<1>7. \A i \in 1..Len(sleeping') : pc'[sleeping'[i]] = "sleep"
  BY <1>2, <1>4, <1>5, <1>6
<1>8. \A i, j \in 1..Len(sleeping') : i # j => sleeping'[i] # sleeping'[j]
  BY <1>2, <1>3, <1>6 DEF SleepInv
<1> QED
  BY <1>2, <1>7, <1>8 DEF SleepInv, SleepType

\* Nothing to do is a job too.
LEMMA NoImageIsJob ==
  /\ NoImage \in Jobs
  /\ NoImage.disk = None /\ NoImage.file = None /\ NoImage.session = FALSE
BY DEF NoImage, Jobs

\* The jobs that the requests and the startup begin with.
LEMMA NewJob ==
  ASSUME NEW d \in Disks, NEW ro \in BOOLEAN, NEW session \in BOOLEAN
  PROVE  LET job == [disk |-> d, file |-> d, ro |-> ro, session |-> session]
         IN  /\ job \in Jobs
             /\ job.disk = d /\ job.file = d /\ job.session = session
BY DEF Jobs, Files

\* h takes on a job of mounting d.
TakesJob(h, d, session) ==
    /\ pc' = [pc EXCEPT ![h] = "prepare"]
    /\ \E job \in Jobs : /\ req' = [req EXCEPT ![h] = job]
                         /\ job.disk = d /\ job.file = d
                         /\ job.session = session

MountForm(r, d, session) ==
    /\ service = "up" /\ LoopFree /\ pc[r] = "idle"
    /\ TakesJob(r, d, session)
    /\ UNCHANGED <<diskVars, lunVars, service, library, current, target,
                   sleeping>>

ReadOnlyForm(r, d) ==
    /\ service = "up" /\ LoopFree /\ pc[r] = "idle"
    /\ TakesJob(r, d, FALSE) \/ UNCHANGED <<pc, req>>
    /\ UNCHANGED <<link, saved, temp, undersize, lunVars, service, library,
                   current, target, sleeping>>

StartForm ==
    /\ service = "down"
    /\ \/ UNCHANGED <<pc, req>> /\ service' = "up"
       \/ /\ saved \in Disks /\ service' = "starting"
          /\ TakesJob(Boot, saved, FALSE)
    /\ UNCHANGED <<diskVars, lunVars, current, target, sleeping>>

\* A mount, a session, or the re-mount of post_readonly and of the startup
\* takes on a job.
LEMMA MountBegins ==
  ASSUME NEW r \in Requests, NEW d \in Disks, NEW session \in Sessions,
         BeginMount(r, d, session)
  PROVE  MountForm(r, d, session)
<1> DEFINE job == [disk |-> d, file |-> d, ro |-> d \in library,
                   session |-> session]
<1>1. (d \in library) \in BOOLEAN /\ session \in BOOLEAN
  BY GadgetControllerAssumption
<1>2. job \in Jobs /\ job.disk = d /\ job.file = d /\ job.session = session
  BY <1>1, NewJob
<1>3. req' = [req EXCEPT ![r] = job]
  BY DEF BeginMount
<1>4. /\ service = "up" /\ LoopFree /\ pc[r] = "idle"
      /\ pc' = [pc EXCEPT ![r] = "prepare"]
      /\ UNCHANGED <<diskVars, lunVars, service, library, current, target,
                     sleeping>>
  BY DEF BeginMount, HStep, Goto
<1> HIDE DEF job
<1> QED
  BY <1>2, <1>3, <1>4 DEF MountForm, TakesJob

LEMMA ReadOnlyBegins ==
  ASSUME NEW r \in Requests, NEW d \in Disks, NEW ro \in BOOLEAN,
         BeginReadOnly(r, d, ro)
  PROVE  ReadOnlyForm(r, d)
<1> DEFINE job == [disk |-> d, file |-> d, ro |-> ro, session |-> FALSE]
<1>1. FALSE \in BOOLEAN
  OBVIOUS
<1>2. job \in Jobs /\ job.disk = d /\ job.file = d /\ job.session = FALSE
  BY <1>1, NewJob
<1>3. \/ UNCHANGED <<pc, req>>
      \/ pc' = [pc EXCEPT ![r] = "prepare"] /\ req' = [req EXCEPT ![r] = job]
  BY DEF BeginReadOnly, Goto
<1>4. /\ service = "up" /\ LoopFree /\ pc[r] = "idle"
      /\ UNCHANGED <<link, saved, temp, undersize, lunVars, service, library,
                     current, target, sleeping>>
  BY DEF BeginReadOnly
<1> HIDE DEF job
<1> QED
  BY <1>2, <1>3, <1>4 DEF ReadOnlyForm, TakesJob

LEMMA StartBegins ==
  ASSUME TypeOK, Start
  PROVE  StartForm
<1> DEFINE job == [disk |-> saved, file |-> saved, ro |-> saved \in marker,
                   session |-> FALSE]
<1>1. (saved \in marker) \in BOOLEAN /\ FALSE \in BOOLEAN
  OBVIOUS
<1>2. saved \in Disks =>
        /\ job \in Jobs /\ job.disk = saved /\ job.file = saved
        /\ job.session = FALSE
  BY <1>1, NewJob
<1>3. \/ UNCHANGED <<pc, req>> /\ service' = "up"
      \/ /\ service' = "starting" /\ saved \in Disks
         /\ pc' = [pc EXCEPT ![Boot] = "prepare"]
         /\ req' = [req EXCEPT ![Boot] = job]
  BY DEF Start, Goto, TypeOK
<1>4. service = "down"
      /\ UNCHANGED <<diskVars, lunVars, current, target, sleeping>>
  BY DEF Start
<1> HIDE DEF job
<1> QED
  BY <1>2, <1>3, <1>4 DEF StartForm, TakesJob

\* What a commit shows.
LEMMA MountedIsJob ==
  ASSUME TypeOK, NEW h \in Handlers
  PROVE  /\ Mounted(h) \in Jobs
         /\ Mounted(h).disk = req[h].disk
         /\ Mounted(h).file = req[h].file
         /\ Mounted(h).session = req[h].session
         /\ req[h].session = FALSE => Mounted(h).ro = req[h].ro
<1>1. req[h] \in Jobs /\ req[h].ro \in BOOLEAN
  BY DEF TypeOK, Jobs
<1>2. (req[h].ro /\ ~req[h].session) \in BOOLEAN
  OBVIOUS
<1>3. /\ Mounted(h) \in Jobs
      /\ Mounted(h).disk = req[h].disk
      /\ Mounted(h).file = req[h].file
      /\ Mounted(h).session = req[h].session
      /\ Mounted(h).ro = (req[h].ro /\ ~req[h].session)
  BY <1>1, <1>2 DEF Mounted, Jobs
<1>4. req[h].session = FALSE => (req[h].ro /\ ~req[h].session) = req[h].ro
  BY <1>1
<1> QED
  BY <1>3, <1>4

\* The ends of the write of lun0_ro.
SetRoForm(h) ==
    /\ pc[h] = "setRo"
    /\ \/ lun # NoMedium /\ Fail(h) /\ lunRo' = lunRo
       \/ /\ lun = NoMedium /\ lunRo' = req[h].ro
          /\ pc' = [pc EXCEPT ![h] = "attach"]
          /\ UNCHANGED <<service, req, target>>
    /\ UNCHANGED <<link, saved, temp, undersize, marker, lun, door, library,
                   current, sleeping>>

\* Without a session the flag is the one asked for.
LEMMA RoAsAsked ==
  ASSUME TypeOK, NEW h \in Handlers, SetRo(h), req[h].session = FALSE
  PROVE  SetRoForm(h)
<1>1. req[h].ro \in BOOLEAN
  BY DEF TypeOK, Jobs
<1>2. (req[h].ro /\ ~req[h].session) = req[h].ro
  BY <1>1
<1> QED
  BY <1>2 DEF SetRo, SetRoForm, Goto, diskVars

-----------------------------------------------------------------------------
(* Types are kept.                                                         *)

\* What is on the disk.
LEMMA DiskTypesStep ==
  ASSUME TypeOK, JobInv, BootInv, [Next]_vars
  PROVE  DiskTypes'
<1> USE DEF DiskTypes, TypeOK, diskVars, lunVars, loopVars
<1>1. ASSUME NEW h \in Handlers, Prepare(h) PROVE DiskTypes'
  BY <1>1, PrepareForms DEF PrepareCopy, PrepareImage, EmptyTemps
<1>2. ASSUME NEW h \in Handlers, Copy(h) PROVE DiskTypes'
  BY <1>2 DEF Copy, Configure, Goto, AfterPrepare, JobInv, HasJob
<1>3. ASSUME NEW h \in Handlers, Relink(h) PROVE DiskTypes'
  BY <1>3 DEF Relink, HStep, Goto, Files
<1>4. ASSUME NEW h \in Handlers, Detach(h) PROVE DiskTypes'
  BY <1>4, DetachEnds DEF DetachForms, Fail, Finish, Goto
<1>5. ASSUME NEW h \in Handlers, Ejected(h) PROVE DiskTypes'
  BY <1>5 DEF Ejected, HStep, Goto, EmptyTemps
<1>6. ASSUME NEW h \in Handlers, Persist(h) PROVE DiskTypes'
  BY <1>6 DEF Persist, Finish, Goto, LastMounted, Jobs
<1>7. ASSUME NEW r \in Requests, NEW d \in Disks, NEW session \in Sessions,
             BeginMount(r, d, session)
      PROVE  DiskTypes'
  BY <1>7 DEF BeginMount, LoopFree, HStep, Goto
<1>8. ASSUME NEW r \in Requests, BeginEject(r) PROVE DiskTypes'
  BY <1>8 DEF BeginEject, LoopFree, Configure, Goto
<1>9. ASSUME NEW r \in Requests, NEW d \in Disks, NEW ro \in BOOLEAN,
             BeginReadOnly(r, d, ro)
      PROVE  DiskTypes'
  BY <1>9 DEF BeginReadOnly, LoopFree, Goto
<1>10. CASE Shutdown \/ PowerFailure
  BY <1>10 DEF Shutdown, Quiet, PowerFailure, Stopped, EmptyTemps
<1>11. ASSUME NEW h \in Handlers, Wake(h) \/ SetRo(h) \/ Attach(h) \/
             Commit(h)
      PROVE  DiskTypes'
  BY <1>11, Sleeper
  DEF Wake, Configure, Goto, LoopFree, SetRo, Fail, Finish, Attach, Commit
<1>12. CASE Rescan \/ Start \/ Kill \/ HostEject \/ HostLock
  BY <1>12
  DEF Rescan, LoopFree, Start, Goto, Kill, Stopped, HostEject, HostLock
<1>13. CASE UNCHANGED vars
  BY <1>13 DEF vars
<1> QED
  BY <1>1, <1>2, <1>3, <1>4, <1>5, <1>6, <1>7, <1>8, <1>9, <1>10, <1>11,
    <1>12, <1>13
  DEF Next, HandlerStep, Request

\* The LUN, the service and what it shows.
LEMMA DriveTypesStep ==
  ASSUME TypeOK, JobInv, BootInv, [Next]_vars
  PROVE  DriveTypes'
<1> USE DEF DriveTypes, TypeOK, diskVars, lunVars, loopVars
<1>1. ASSUME NEW h \in Handlers, Prepare(h) PROVE DriveTypes'
  BY <1>1, PrepareForms, NoImageIsJob DEF PrepareCopy, PrepareImage
<1>2. ASSUME NEW h \in Handlers, Detach(h) PROVE DriveTypes'
  BY <1>2, DetachEnds, NoImageIsJob
  DEF DetachForms, Fail, Finish, Goto, NoMedium
<1>3. ASSUME NEW h \in Handlers, SetRo(h) PROVE DriveTypes'
  BY <1>3, NoImageIsJob DEF SetRo, Goto, Fail, Finish
<1>4. ASSUME NEW h \in Handlers, Attach(h) PROVE DriveTypes'
  BY <1>4, NoImageIsJob DEF Attach, Goto, Fail, Finish, ImageIn, Files
<1>5. ASSUME NEW h \in Handlers, Commit(h) PROVE DriveTypes'
  BY <1>5, NoImageIsJob, MountedIsJob DEF Commit, Goto, Finish
<1>6. CASE Shutdown \/ Kill
  BY <1>6, NoImageIsJob DEF Shutdown, Quiet, Kill, Stopped
<1>7. CASE PowerFailure
  BY <1>7, NoImageIsJob DEF PowerFailure, Stopped, NoMedium, Files
<1>8. CASE HostEject
  BY <1>8, NoImageIsJob DEF HostEject, NoMedium
<1>9. ASSUME NEW h \in Handlers, Copy(h) \/ Relink(h) \/ Wake(h) \/ Ejected(h)
             \/ Persist(h)
      PROVE  DriveTypes'
  BY <1>9, Sleeper, NoImageIsJob
  DEF Copy, Configure, Goto, AfterPrepare, Relink, HStep, Wake, LoopFree,
    Ejected, Persist, Finish
<1>10. ASSUME NEW r \in Requests, Request(r) PROVE DriveTypes'
  BY <1>10, NoImageIsJob
  DEF Request, BeginMount, LoopFree, HStep, Goto, BeginEject, Configure,
    BeginReadOnly
<1>11. CASE Rescan \/ Start \/ HostLock
  BY <1>11, NoImageIsJob
  DEF Rescan, LoopFree, Start, Goto, HostLock, NoMedium, Files
<1>12. CASE UNCHANGED vars
  BY <1>12 DEF vars
<1> QED
  BY <1>1, <1>2, <1>3, <1>4, <1>5, <1>6, <1>7, <1>8, <1>9, <1>10, <1>11, <1>12
  DEF Next, HandlerStep, Request

\* What the handlers are to do.
LEMMA ReqTypeStep ==
  ASSUME TypeOK, JobInv, BootInv, [Next]_vars
  PROVE  ReqType'
<1> USE DEF ReqType, TypeOK, diskVars, lunVars, loopVars
<1>1. ASSUME NEW h \in Handlers, Prepare(h) PROVE ReqType'
  BY <1>1, PrepareForms, NoImageIsJob DEF PrepareCopy, PrepareImage
<1>2. ASSUME NEW h \in Handlers, Detach(h) PROVE ReqType'
  BY <1>2, DetachEnds, NoImageIsJob DEF DetachForms, Fail, Finish, Goto
<1>3. ASSUME NEW r \in Requests, NEW d \in Disks, NEW session \in Sessions,
             BeginMount(r, d, session)
      PROVE  ReqType'
  <2>1. MountForm(r, d, session)
    BY <1>3, MountBegins
  <2> QED
    BY <2>1, NoImageIsJob DEF MountForm, TakesJob, LoopFree
<1>4. ASSUME NEW r \in Requests, NEW d \in Disks, NEW ro \in BOOLEAN,
             BeginReadOnly(r, d, ro)
      PROVE  ReqType'
  <2>1. ReadOnlyForm(r, d)
    BY <1>4, ReadOnlyBegins
  <2> QED
    BY <2>1, NoImageIsJob DEF ReadOnlyForm, TakesJob, LoopFree
<1>5. CASE Start
  <2>1. StartForm
    BY <1>5, StartBegins
  <2> QED
    BY <2>1, NoImageIsJob DEF StartForm, TakesJob, LoopFree, Handlers
<1>6. CASE Kill \/ PowerFailure
  BY <1>6, NoImageIsJob DEF Kill, Stopped, PowerFailure
<1>7. ASSUME NEW h \in Handlers, Copy(h) \/ Relink(h) \/ Wake(h) \/ SetRo(h)
             \/ Attach(h) \/ Commit(h) \/ Ejected(h) \/ Persist(h)
      PROVE  ReqType'
  BY <1>7, Sleeper, NoImageIsJob
  DEF Copy, Configure, Goto, AfterPrepare, Relink, HStep, Wake, LoopFree,
    SetRo, Fail, Finish, Attach, Commit, Ejected, Persist
<1>8. ASSUME NEW r \in Requests, BeginEject(r) PROVE ReqType'
  BY <1>8, NoImageIsJob DEF BeginEject, LoopFree, Configure, Goto
<1>9. CASE Rescan \/ Shutdown \/ HostEject \/ HostLock
  BY <1>9, NoImageIsJob
  DEF Rescan, LoopFree, Shutdown, Quiet, HostEject, HostLock
<1>10. CASE UNCHANGED vars
  BY <1>10 DEF vars
<1> QED
  BY <1>1, <1>2, <1>3, <1>4, <1>5, <1>6, <1>7, <1>8, <1>9, <1>10
  DEF Next, HandlerStep, Request

\* Where the handlers are.
LEMMA LoopTypesStep ==
  ASSUME TypeOK, JobInv, BootInv, SleepInv, [Next]_vars
  PROVE  LoopTypes'
<1> USE DEF LoopTypes, TypeOK, Pcs, JobInv, HasJob, Files, Handlers, diskVars,
  lunVars, loopVars
<1>1. ASSUME NEW h \in Handlers, Prepare(h) PROVE LoopTypes'
  BY <1>1, PrepareForms DEF PrepareCopy, PrepareImage
<1>2. ASSUME NEW h \in Handlers, Copy(h) PROVE LoopTypes'
  BY <1>2 DEF Copy, Configure, Goto, AfterPrepare
<1>3. ASSUME NEW h \in Handlers, Relink(h) PROVE LoopTypes'
  BY <1>3 DEF Relink, HStep, Goto
<1>4. ASSUME NEW h \in Handlers, Detach(h) PROVE LoopTypes'
  BY <1>4, DetachEnds DEF DetachForms, Fail, Finish, Goto
<1>5. ASSUME NEW h \in Handlers, Wake(h) PROVE LoopTypes'
  BY <1>5, Sleeper DEF Wake, Configure, Goto, LoopFree
<1>6. ASSUME NEW h \in Handlers, SetRo(h) \/ Attach(h) PROVE LoopTypes'
  BY <1>6 DEF SetRo, Goto, Fail, Finish, Attach
<1>7. ASSUME NEW h \in Handlers, Commit(h) \/ Ejected(h) \/ Persist(h)
      PROVE  LoopTypes'
  BY <1>7 DEF Commit, Goto, Finish, Ejected, HStep, Persist
<1>8. ASSUME NEW r \in Requests, NEW d \in Disks, NEW session \in Sessions,
             BeginMount(r, d, session)
      PROVE  LoopTypes'
  BY <1>8 DEF BeginMount, LoopFree, HStep, Goto
<1>9. ASSUME NEW r \in Requests, BeginEject(r) PROVE LoopTypes'
  BY <1>9 DEF BeginEject, LoopFree, Configure, Goto
<1>10. ASSUME NEW r \in Requests, NEW d \in Disks, NEW ro \in BOOLEAN,
             BeginReadOnly(r, d, ro)
      PROVE  LoopTypes'
  BY <1>10 DEF BeginReadOnly, LoopFree, Goto
<1>11. CASE Rescan \/ Start \/ Shutdown \/ Kill \/ PowerFailure \/ HostEject
          \/ HostLock
  BY <1>11
  DEF Rescan, LoopFree, Start, Goto, Shutdown, Quiet, Kill, Stopped,
    PowerFailure, HostEject, HostLock
<1>12. CASE UNCHANGED vars
  BY <1>12 DEF vars
<1> QED
  BY <1>1, <1>2, <1>3, <1>4, <1>5, <1>6, <1>7, <1>8, <1>9, <1>10, <1>11, <1>12
  DEF Next, HandlerStep, Request

\* Who sleeps.
LEMMA SleepTypeStep ==
  ASSUME TypeOK, JobInv, BootInv, SleepInv, [Next]_vars
  PROVE  SleepType'
<1> USE DEF SleepType, TypeOK, diskVars, lunVars, loopVars
<1>1. ASSUME NEW h \in Handlers, Prepare(h) PROVE SleepType'
  BY <1>1, PrepareForms DEF PrepareCopy, PrepareImage
<1>2. ASSUME NEW h \in Handlers, Detach(h) PROVE SleepType'
  BY <1>2, DetachEnds, FallAsleep DEF DetachForms, Fail, Finish, Goto
<1>3. ASSUME NEW h \in Handlers, Wake(h) PROVE SleepType'
  BY <1>3, Sleeper DEF Wake, Configure, Goto, LoopFree
<1>4. CASE Kill \/ PowerFailure
  <2>1. <<>> \in Seq(Requests)
    BY EmptySeq
  <2> QED
    BY <1>4, <2>1 DEF Kill, PowerFailure, Stopped
<1>5. ASSUME NEW h \in Handlers, Copy(h) \/ Relink(h) \/ SetRo(h) \/ Attach(h)
             \/ Commit(h) \/ Ejected(h) \/ Persist(h)
      PROVE  SleepType'
  BY <1>5
  DEF Copy, Configure, Goto, AfterPrepare, Relink, HStep, SetRo, Fail, Finish,
    Attach, Commit, Ejected, Persist
<1>6. ASSUME NEW r \in Requests, Request(r) PROVE SleepType'
  BY <1>6
  DEF Request, BeginMount, LoopFree, HStep, Goto, BeginEject, Configure,
    BeginReadOnly
<1>7. CASE Rescan \/ Start \/ Shutdown \/ HostEject \/ HostLock
  BY <1>7
  DEF Rescan, LoopFree, Start, Goto, Shutdown, Quiet, HostEject, HostLock
<1>8. CASE UNCHANGED vars
  BY <1>8 DEF vars
<1> QED
  BY <1>1, <1>2, <1>3, <1>4, <1>5, <1>6, <1>7, <1>8
  DEF Next, HandlerStep, Request

-----------------------------------------------------------------------------
(* The handlers keep to their steps.                                       *)

\* Each step finds the job it needs.
LEMMA JobStep ==
  ASSUME TypeOK, JobInv, BootInv, SleepInv, [Next]_vars
  PROVE  JobInv'
<1> USE GadgetControllerAssumption DEF JobInv, HasJob, TypeOK, diskVars,
  lunVars, loopVars
<1>1. ASSUME NEW h \in Handlers, Prepare(h) PROVE JobInv'
  BY <1>1, PrepareForms DEF PrepareCopy, PrepareImage
<1>2. ASSUME NEW h \in Handlers, Copy(h) PROVE JobInv'
  BY <1>2 DEF Copy, Configure, Goto, AfterPrepare
<1>3. ASSUME NEW h \in Handlers, Relink(h) PROVE JobInv'
  BY <1>3 DEF Relink, HStep, Goto
<1>4. ASSUME NEW h \in Handlers, Detach(h) PROVE JobInv'
  BY <1>4, DetachEnds DEF DetachForms, Fail, Finish, Goto
<1>5. ASSUME NEW h \in Handlers, Wake(h) PROVE JobInv'
  BY <1>5, Sleeper DEF Wake, Configure, Goto, LoopFree
<1>6. ASSUME NEW h \in Handlers, SetRo(h) \/ Attach(h) PROVE JobInv'
  BY <1>6 DEF SetRo, Goto, Fail, Finish, Attach
<1>7. ASSUME NEW h \in Handlers, Commit(h) PROVE JobInv'
  <2>1. /\ Mounted(h).disk = req[h].disk
        /\ Mounted(h).file = req[h].file
        /\ Mounted(h).session = req[h].session
    BY MountedIsJob
  <2>2. req[h].session = FALSE => Mounted(h).ro = req[h].ro
    BY MountedIsJob
  <2> QED
    BY <1>7, <2>1, <2>2 DEF Commit, Goto, Finish
<1>8. ASSUME NEW h \in Handlers, Ejected(h) \/ Persist(h) PROVE JobInv'
  BY <1>8 DEF Ejected, HStep, Goto, Persist, Finish
<1>9. ASSUME NEW r \in Requests, NEW d \in Disks, NEW session \in Sessions,
             BeginMount(r, d, session)
      PROVE  JobInv'
  <2>1. MountForm(r, d, session)
    BY <1>9, MountBegins
  <2> QED
    BY <2>1 DEF MountForm, TakesJob, LoopFree
<1>10. ASSUME NEW r \in Requests, BeginEject(r) PROVE JobInv'
  BY <1>10 DEF BeginEject, LoopFree, Configure, Goto
<1>11. ASSUME NEW r \in Requests, NEW d \in Disks, NEW ro \in BOOLEAN,
             BeginReadOnly(r, d, ro)
      PROVE  JobInv'
  <2>1. ReadOnlyForm(r, d)
    BY <1>11, ReadOnlyBegins
  <2> QED
    BY <2>1 DEF ReadOnlyForm, TakesJob, LoopFree
<1>12. CASE Start
  <2>1. StartForm
    BY <1>12, StartBegins
  <2> QED
    BY <2>1 DEF StartForm, TakesJob, LoopFree
<1>13. CASE Rescan \/ Shutdown \/ HostEject \/ HostLock
  BY <1>13 DEF Rescan, LoopFree, Shutdown, Quiet, HostEject, HostLock
<1>14. CASE Kill \/ PowerFailure
  BY <1>14 DEF Kill, Stopped, PowerFailure
<1>15. CASE UNCHANGED vars
  BY <1>15 DEF vars
<1> QED
  BY <1>1, <1>2, <1>3, <1>4, <1>5, <1>6, <1>7, <1>8, <1>9, <1>10, <1>11,
    <1>12, <1>13, <1>14, <1>15
  DEF Next, HandlerStep, Request

\* One handler runs at a time.
LEMMA LoopStep ==
  ASSUME TypeOK, JobInv, LoopInv, SleepInv, BootInv, [Next]_vars
  PROVE  LoopInv'
<1> USE GadgetControllerAssumption DEF LoopInv, Waiting, TypeOK, Handlers,
  BootInv, diskVars, lunVars, loopVars
<1>1. ASSUME NEW h \in Handlers, Prepare(h) PROVE LoopInv'
  BY <1>1, PrepareForms DEF PrepareCopy, PrepareImage
<1>2. ASSUME NEW h \in Handlers, Copy(h) PROVE LoopInv'
  BY <1>2 DEF Copy, Configure, Goto, AfterPrepare
<1>3. ASSUME NEW h \in Handlers, Relink(h) PROVE LoopInv'
  BY <1>3 DEF Relink, HStep, Goto
<1>4. ASSUME NEW h \in Handlers, Detach(h) PROVE LoopInv'
  BY <1>4, DetachEnds DEF DetachForms, Fail, Finish, Goto
<1>5. ASSUME NEW h \in Handlers, Wake(h) PROVE LoopInv'
  BY <1>5, Sleeper DEF Wake, Configure, Goto, LoopFree
<1>6. ASSUME NEW h \in Handlers, SetRo(h) \/ Attach(h) PROVE LoopInv'
  BY <1>6 DEF SetRo, Goto, Fail, Finish, Attach
<1>7. ASSUME NEW h \in Handlers, Commit(h) PROVE LoopInv'
  <2>1. /\ Mounted(h).disk = req[h].disk
        /\ Mounted(h).file = req[h].file
        /\ Mounted(h).session = req[h].session
    BY MountedIsJob
  <2>2. req[h].session = FALSE => Mounted(h).ro = req[h].ro
    BY MountedIsJob
  <2> QED
    BY <1>7, <2>1, <2>2 DEF Commit, Goto, Finish
<1>8. ASSUME NEW h \in Handlers, Ejected(h) \/ Persist(h) PROVE LoopInv'
  BY <1>8 DEF Ejected, HStep, Goto, Persist, Finish
<1>9. ASSUME NEW r \in Requests, NEW d \in Disks, NEW session \in Sessions,
             BeginMount(r, d, session)
      PROVE  LoopInv'
  <2>1. MountForm(r, d, session)
    BY <1>9, MountBegins
  <2> QED
    BY <2>1 DEF MountForm, TakesJob, LoopFree
<1>10. ASSUME NEW r \in Requests, BeginEject(r) PROVE LoopInv'
  BY <1>10 DEF BeginEject, LoopFree, Configure, Goto
<1>11. ASSUME NEW r \in Requests, NEW d \in Disks, NEW ro \in BOOLEAN,
             BeginReadOnly(r, d, ro)
      PROVE  LoopInv'
  <2>1. ReadOnlyForm(r, d)
    BY <1>11, ReadOnlyBegins
  <2> QED
    BY <2>1 DEF ReadOnlyForm, TakesJob, LoopFree
<1>12. CASE Start
  <2>1. StartForm
    BY <1>12, StartBegins
  <2> QED
    BY <2>1 DEF StartForm, TakesJob, LoopFree
<1>13. CASE Rescan \/ Shutdown \/ HostEject \/ HostLock
  BY <1>13 DEF Rescan, LoopFree, Shutdown, Quiet, HostEject, HostLock
<1>14. CASE Kill \/ PowerFailure
  BY <1>14 DEF Kill, Stopped, PowerFailure
<1>15. CASE UNCHANGED vars
  BY <1>15 DEF vars
<1> QED
  BY <1>1, <1>2, <1>3, <1>4, <1>5, <1>6, <1>7, <1>8, <1>9, <1>10, <1>11,
    <1>12, <1>13, <1>14, <1>15
  DEF Next, HandlerStep, Request

\* Nobody sleeps twice.
LEMMA SleepStep ==
  ASSUME TypeOK, JobInv, LoopInv, SleepInv, BootInv, [Next]_vars
  PROVE  SleepInv'
<1> USE DEF SleepInv, TypeOK, Handlers, diskVars, lunVars, loopVars
<1>1. ASSUME NEW h \in Handlers, Prepare(h) PROVE SleepInv'
  BY <1>1, PrepareForms DEF PrepareCopy, PrepareImage
<1>2. ASSUME NEW h \in Handlers, Detach(h) PROVE SleepInv'
  <2>1. pc[h] = "detach" /\ DetachForms(h)
    BY <1>2, DetachEnds
  <2>2. CASE h \in Requests /\ sleeping' = Append(sleeping, h)
             /\ pc' = [pc EXCEPT ![h] = "sleep"]
    BY <2>1, <2>2, FallAsleep
  <2>3. ASSUME NEW to, pc' = [pc EXCEPT ![h] = to], UNCHANGED sleeping
        PROVE  SleepInv'
    BY <2>1, <2>3 DEF SleepInv, TypeOK, Handlers
  <2> QED
    BY <2>1, <2>2, <2>3 DEF DetachForms, Fail, Finish, Goto
<1>3. ASSUME NEW h \in Handlers, Wake(h) PROVE SleepInv'
  BY <1>3, Sleeper DEF Wake, Configure, Goto, LoopFree
<1>4. CASE Start
  BY <1>4, GadgetControllerAssumption, StartBegins DEF Start, Goto
<1>5. CASE Kill \/ PowerFailure
  BY <1>5, EmptySeq DEF Kill, Stopped, PowerFailure
<1>6. ASSUME NEW h \in Handlers, Copy(h) \/ Relink(h) \/ SetRo(h) \/ Attach(h)
             \/ Commit(h) \/ Ejected(h) \/ Persist(h)
      PROVE  SleepInv'
  BY <1>6
  DEF Copy, Configure, Goto, AfterPrepare, Relink, HStep, SetRo, Fail, Finish,
    Attach, Commit, Ejected, Persist
<1>7. ASSUME NEW r \in Requests, Request(r) PROVE SleepInv'
  BY <1>7
  DEF Request, BeginMount, LoopFree, HStep, Goto, BeginEject, Configure,
    BeginReadOnly
<1>8. CASE Rescan \/ Shutdown \/ HostEject \/ HostLock
  BY <1>8 DEF Rescan, LoopFree, Shutdown, Quiet, HostEject, HostLock
<1>9. CASE UNCHANGED vars
  BY <1>9 DEF vars
<1> QED
  BY <1>1, <1>2, <1>3, <1>4, <1>5, <1>6, <1>7, <1>8, <1>9
  DEF Next, HandlerStep, Request

\* The startup has nothing to eject.
LEMMA BootStep ==
  ASSUME TypeOK, JobInv, LoopInv, BootInv, SleepInv, [Next]_vars
  PROVE  BootInv'
<1> USE GadgetControllerAssumption DEF BootInv, LoopInv, Waiting, HasJob,
  TypeOK, Handlers, JobInv, diskVars, lunVars, loopVars
<1>1. ASSUME NEW h \in Handlers, Prepare(h) PROVE BootInv'
  BY <1>1, PrepareForms DEF PrepareCopy, PrepareImage
<1>2. ASSUME NEW h \in Handlers, Copy(h) PROVE BootInv'
  BY <1>2 DEF Copy, Configure, Goto, AfterPrepare
<1>3. ASSUME NEW h \in Handlers, Relink(h) PROVE BootInv'
  BY <1>3 DEF Relink, HStep, Goto
<1>4. ASSUME NEW h \in Handlers, Detach(h) PROVE BootInv'
  BY <1>4, DetachEnds DEF DetachForms, Fail, Finish, Goto
<1>5. ASSUME NEW h \in Handlers, Wake(h) PROVE BootInv'
  BY <1>5, Sleeper DEF Wake, Configure, Goto, LoopFree
<1>6. ASSUME NEW h \in Handlers, SetRo(h) \/ Attach(h) PROVE BootInv'
  BY <1>6 DEF SetRo, Goto, Fail, Finish, Attach
<1>7. ASSUME NEW h \in Handlers, Commit(h) PROVE BootInv'
  <2>1. /\ Mounted(h).disk = req[h].disk
        /\ Mounted(h).file = req[h].file
        /\ Mounted(h).session = req[h].session
    BY MountedIsJob
  <2>2. req[h].session = FALSE => Mounted(h).ro = req[h].ro
    BY MountedIsJob
  <2> QED
    BY <1>7, <2>1, <2>2 DEF Commit, Goto, Finish
<1>8. ASSUME NEW h \in Handlers, Ejected(h) \/ Persist(h) PROVE BootInv'
  BY <1>8 DEF Ejected, HStep, Goto, Persist, Finish
<1>9. ASSUME NEW r \in Requests, NEW d \in Disks, NEW session \in Sessions,
             BeginMount(r, d, session)
      PROVE  BootInv'
  <2>1. MountForm(r, d, session)
    BY <1>9, MountBegins
  <2> QED
    BY <2>1 DEF MountForm, TakesJob, LoopFree
<1>10. ASSUME NEW r \in Requests, BeginEject(r) PROVE BootInv'
  BY <1>10 DEF BeginEject, LoopFree, Configure, Goto
<1>11. ASSUME NEW r \in Requests, NEW d \in Disks, NEW ro \in BOOLEAN,
             BeginReadOnly(r, d, ro)
      PROVE  BootInv'
  <2>1. ReadOnlyForm(r, d)
    BY <1>11, ReadOnlyBegins
  <2> QED
    BY <2>1 DEF ReadOnlyForm, TakesJob, LoopFree
<1>12. CASE Start
  <2>1. StartForm
    BY <1>12, StartBegins
  <2> QED
    BY <2>1 DEF StartForm, TakesJob, LoopFree
<1>13. CASE Rescan \/ Shutdown \/ HostEject \/ HostLock
  BY <1>13 DEF Rescan, LoopFree, Shutdown, Quiet, HostEject, HostLock
<1>14. CASE Kill \/ PowerFailure
  BY <1>14 DEF Kill, Stopped, PowerFailure
<1>15. CASE UNCHANGED vars
  BY <1>15 DEF vars
<1> QED
  BY <1>1, <1>2, <1>3, <1>4, <1>5, <1>6, <1>7, <1>8, <1>9, <1>10, <1>11,
    <1>12, <1>13, <1>14, <1>15
  DEF Next, HandlerStep, Request

\* install.sh leaves nothing in progress.
LEMMA ControlInit == Init => ControlInv
<1> SUFFICES ASSUME Init PROVE ControlInv
  OBVIOUS
<1>1. /\ Blank \in Files /\ NoImage \in Jobs
      /\ \A h \in Handlers : pc[h] = "idle" /\ req[h] = NoImage
      /\ Boot \in Handlers /\ "idle" \in Pcs /\ sleeping = <<>>
  BY NoImageIsJob DEF Init, Files, Handlers, Pcs
<1>2. TypeOK
  <2>1. sleeping \in Seq(Requests)
    BY <1>1, EmptySeq
  <2>2. /\ pc \in [Handlers -> Pcs] /\ target \in [Handlers -> Files]
        /\ req \in [Handlers -> Jobs] /\ current \in Jobs
    BY <1>1 DEF Init
  <2>3. /\ link \in Files \union {None} /\ saved \in Disks \union {None}
        /\ temp \in [Temps -> Disks \union {None}]
        /\ undersize \subseteq Disks /\ marker \subseteq Disks
        /\ library \subseteq Disks
        /\ lunRo \in BOOLEAN /\ door \in BOOLEAN
        /\ service \in {"down", "starting", "up"}
    BY <1>1, GadgetControllerAssumption DEF Init, EmptyTemps
  <2>4. lun \in [file : Files \union {None},
                 image : Disks \union {Blank, None}]
    BY <1>1 DEF Init
  <2> QED
    BY <2>1, <2>2, <2>3, <2>4 DEF TypeOK
<1>3. JobInv
  BY <1>1 DEF Init, JobInv
<1>4. LoopInv
  BY <1>1 DEF Init, LoopInv, Waiting, Handlers
<1>5. SleepInv
  BY <1>1, EmptySeq DEF SleepInv
<1>6. BootInv
  BY <1>1 DEF BootInv
<1> QED
  BY <1>2, <1>3, <1>4, <1>5, <1>6 DEF ControlInv

\* The handlers keep to their steps.
LEMMA ControlStep ==
  ASSUME ControlInv, [Next]_vars
  PROVE  ControlInv'
<1> USE DEF ControlInv
<1>1. TypeOK'
  <2>1. DiskTypes' /\ DriveTypes' /\ ReqType' /\ LoopTypes' /\ SleepType'
    BY DiskTypesStep, DriveTypesStep, ReqTypeStep, LoopTypesStep,
       SleepTypeStep
  <2> QED
    BY <2>1 DEF TypeOK, DiskTypes, DriveTypes, ReqType, LoopTypes, SleepType
<1> QED
  BY <1>1, JobStep, LoopStep, SleepStep, BootStep

\* At every moment.
LEMMA ControlHolds == Spec => []ControlInv
<1> QED
  BY ControlInit, ControlStep, PTL DEF Spec

\* Every variable keeps its type, whichever faults happen.
THEOREM TypeCorrect == Spec => []TypeOK
<1>1. ControlInv => TypeOK
  BY DEF ControlInv
<1> QED
  BY <1>1, ControlHolds, PTL

-----------------------------------------------------------------------------
(* What is shown is what is in the drive.                                  *)

\* No copy is made where none is needed.
LEMMA InPlaceStep ==
  ASSUME InPlace, TypeOK, JobInv, BootInv, SleepInv, InPlaceInv, [Next]_vars
  PROVE  InPlaceInv'
<1> USE DEF InPlace, InPlaceInv, TypeOK, Handlers, diskVars, lunVars, loopVars
<1>1. ASSUME NEW h \in Handlers, Prepare(h) PROVE InPlaceInv'
  BY <1>1, PrepareForms, NoImageIsJob DEF PrepareCopy, PrepareImage
<1>2. ASSUME NEW h \in Handlers, Copy(h) PROVE InPlaceInv'
  BY <1>2, NoImageIsJob DEF Copy, Configure, Goto, AfterPrepare
<1>3. ASSUME NEW h \in Handlers, Relink(h) PROVE InPlaceInv'
  BY <1>3, NoImageIsJob DEF Relink, HStep, Goto
<1>4. ASSUME NEW h \in Handlers, Detach(h) PROVE InPlaceInv'
  BY <1>4, DetachEnds, NoImageIsJob DEF DetachForms, Fail, Finish, Goto
<1>5. ASSUME NEW h \in Handlers, Wake(h) PROVE InPlaceInv'
  BY <1>5, Sleeper, NoImageIsJob DEF Wake, Configure, Goto, LoopFree
<1>6. ASSUME NEW h \in Handlers, SetRo(h) \/ Attach(h) PROVE InPlaceInv'
  BY <1>6, NoImageIsJob DEF SetRo, Goto, Fail, Finish, Attach
<1>7. ASSUME NEW h \in Handlers, Commit(h) PROVE InPlaceInv'
  <2>1. /\ Mounted(h).disk = req[h].disk
        /\ Mounted(h).file = req[h].file
        /\ Mounted(h).session = req[h].session
    BY MountedIsJob
  <2>2. req[h].session = FALSE => Mounted(h).ro = req[h].ro
    BY MountedIsJob
  <2> QED
    BY <1>7, <2>1, <2>2, NoImageIsJob DEF Commit, Goto, Finish
<1>8. ASSUME NEW h \in Handlers, Ejected(h) \/ Persist(h) PROVE InPlaceInv'
  BY <1>8, NoImageIsJob DEF Ejected, HStep, Goto, Persist, Finish
<1>9. ASSUME NEW r \in Requests, NEW d \in Disks, NEW session \in Sessions,
             BeginMount(r, d, session)
      PROVE  InPlaceInv'
  <2>1. MountForm(r, d, session)
    BY <1>9, MountBegins
  <2> QED
    BY <2>1, NoImageIsJob DEF MountForm, TakesJob, LoopFree
<1>10. ASSUME NEW r \in Requests, BeginEject(r) PROVE InPlaceInv'
  BY <1>10, NoImageIsJob DEF BeginEject, LoopFree, Configure, Goto
<1>11. ASSUME NEW r \in Requests, NEW d \in Disks, NEW ro \in BOOLEAN,
             BeginReadOnly(r, d, ro)
      PROVE  InPlaceInv'
  <2>1. ReadOnlyForm(r, d)
    BY <1>11, ReadOnlyBegins
  <2> QED
    BY <2>1, NoImageIsJob DEF ReadOnlyForm, TakesJob, LoopFree
<1>12. CASE Start
  <2>1. StartForm
    BY <1>12, StartBegins
  <2> QED
    BY <2>1, NoImageIsJob DEF StartForm, TakesJob, LoopFree
<1>13. CASE Rescan \/ Shutdown \/ HostEject \/ HostLock
  BY <1>13, NoImageIsJob
  DEF Rescan, LoopFree, Shutdown, Quiet, HostEject, HostLock
<1>14. CASE Kill \/ PowerFailure
  BY <1>14, NoImageIsJob DEF Kill, Stopped, PowerFailure
<1>15. CASE UNCHANGED vars
  BY <1>15 DEF vars
<1> QED
  BY <1>1, <1>2, <1>3, <1>4, <1>5, <1>6, <1>7, <1>8, <1>9, <1>10, <1>11,
    <1>12, <1>13, <1>14, <1>15
  DEF Next, HandlerStep, Request

\* The drive follows the handler that runs.
LEMMA DriveStep ==
  ASSUME TypeOK, JobInv, LoopInv, BootInv, SleepInv, InPlaceInv, DriveInv,
         [Next]_vars
  PROVE  DriveInv'
<1> USE GadgetControllerAssumption DEF DriveInv, InPlaceInv, HoldsMedium,
  LoopInv, Waiting, TypeOK, Handlers, JobInv, HasJob, diskVars, lunVars,
  loopVars
<1>1. ASSUME NEW h \in Handlers, Prepare(h) PROVE DriveInv'
  BY <1>1, PrepareForms, NoImageIsJob DEF PrepareCopy, PrepareImage
<1>2. ASSUME NEW h \in Handlers, Copy(h) PROVE DriveInv'
  BY <1>2, NoImageIsJob DEF Copy, Configure, Goto, AfterPrepare
<1>3. ASSUME NEW h \in Handlers, Relink(h) PROVE DriveInv'
  BY <1>3, NoImageIsJob DEF Relink, HStep, Goto
<1>4. ASSUME NEW h \in Handlers, Detach(h) PROVE DriveInv'
  BY <1>4, DetachEnds, NoImageIsJob
  DEF DetachForms, Fail, Finish, Goto, NoMedium
<1>5. ASSUME NEW h \in Handlers, Wake(h) PROVE DriveInv'
  BY <1>5, Sleeper, NoImageIsJob DEF Wake, Configure, Goto, LoopFree
<1>6. ASSUME NEW h \in Handlers, SetRo(h) PROVE DriveInv'
  <2>1. req[h].session = FALSE
    BY DEF InPlaceInv
  <2>2. SetRoForm(h)
    BY <1>6, <2>1, RoAsAsked
  <2> QED
    BY <2>2 DEF SetRoForm, Fail, Finish, Goto
<1>7. ASSUME NEW h \in Handlers, Attach(h) PROVE DriveInv'
  BY <1>7, NoImageIsJob DEF Attach, Goto, Fail, Finish, ImageIn
<1>8. ASSUME NEW h \in Handlers, Commit(h) PROVE DriveInv'
  <2>1. /\ Mounted(h).disk = req[h].disk
        /\ Mounted(h).file = req[h].file
        /\ Mounted(h).session = req[h].session
    BY MountedIsJob
  <2>2. req[h].session = FALSE => Mounted(h).ro = req[h].ro
    BY MountedIsJob
  <2> QED
    BY <1>8, <2>1, <2>2, NoImageIsJob DEF Commit, Goto, Finish
<1>9. ASSUME NEW h \in Handlers, Ejected(h) \/ Persist(h) PROVE DriveInv'
  BY <1>9, NoImageIsJob DEF Ejected, HStep, Goto, Persist, Finish
<1>10. ASSUME NEW r \in Requests, NEW d \in Disks, NEW session \in Sessions,
             BeginMount(r, d, session)
      PROVE  DriveInv'
  <2>1. MountForm(r, d, session)
    BY <1>10, MountBegins
  <2> QED
    BY <2>1, NoImageIsJob DEF MountForm, TakesJob, LoopFree
<1>11. ASSUME NEW r \in Requests, BeginEject(r) PROVE DriveInv'
  BY <1>11, NoImageIsJob DEF BeginEject, LoopFree, Configure, Goto
<1>12. ASSUME NEW r \in Requests, NEW d \in Disks, NEW ro \in BOOLEAN,
             BeginReadOnly(r, d, ro)
      PROVE  DriveInv'
  <2>1. ReadOnlyForm(r, d)
    BY <1>12, ReadOnlyBegins
  <2> QED
    BY <2>1, NoImageIsJob DEF ReadOnlyForm, TakesJob, LoopFree
<1>13. CASE Start
  <2>1. StartForm
    BY <1>13, StartBegins
  <2> QED
    BY <2>1, NoImageIsJob DEF StartForm, TakesJob, LoopFree
<1>14. CASE Rescan \/ Shutdown \/ HostEject \/ HostLock
  BY <1>14, NoImageIsJob
  DEF Rescan, LoopFree, Shutdown, Quiet, HostEject, HostLock
<1>15. CASE Kill \/ PowerFailure
  BY <1>15, NoImageIsJob DEF Kill, Stopped, PowerFailure
<1>16. CASE UNCHANGED vars
  BY <1>16 DEF vars
<1> HIDE DEF DriveInv
<1> QED
  BY <1>1, <1>2, <1>3, <1>4, <1>5, <1>6, <1>7, <1>8, <1>9, <1>10, <1>11,
    <1>12, <1>13, <1>14, <1>15, <1>16
  DEF Next, HandlerStep, Request

\* Without copies the drive is as the handlers left it.
LEMMA DriveHolds ==
  ASSUME InPlace
  PROVE  Spec => [](ControlInv /\ InPlaceInv /\ DriveInv)
<1>1. Init => InPlaceInv /\ DriveInv
  <2> SUFFICES ASSUME Init PROVE InPlaceInv /\ DriveInv
    OBVIOUS
  <2>1. \A h \in Handlers : pc[h] = "idle" /\ req[h] = NoImage
    BY DEF Init
  <2>2. current = NoImage /\ undersize = {}
    BY DEF Init, InPlace
  <2> QED
    BY <2>1, <2>2, NoImageIsJob DEF InPlaceInv, DriveInv, HoldsMedium
<1>2. ControlInv /\ InPlaceInv /\ DriveInv /\ [Next]_vars
        => InPlaceInv' /\ DriveInv'
  BY InPlaceStep, DriveStep DEF ControlInv
<1> QED
  BY <1>1, <1>2, ControlHolds, PTL DEF Spec

\* Whatever the requests, the host, the failed opens, the kills and the power
\* failures: a drive that holds a medium at rest holds what the clients are
\* shown, as read-only as they are shown it.
THEOREM DriveShown ==
  ASSUME InPlace
  PROVE  Spec => []DriveIsAsShown
<1>1. InPlaceInv /\ DriveInv => DriveIsAsShown
  BY DEF InPlaceInv, DriveInv, DriveIsAsShown, HoldsMedium, Quiet
<1> QED
  BY <1>1, DriveHolds, PTL

-----------------------------------------------------------------------------
(* The two records of what is mounted.                                     *)

\* So does the symlink.
LEMMA LinkStep ==
  ASSUME "lock" \notin HostActs, TypeOK, JobInv, LoopInv, BootInv, SleepInv,
         InPlaceInv, DriveInv, LinkInv, [Next]_vars
  PROVE  LinkInv'
<1> USE GadgetControllerAssumption DEF DriveInv, InPlaceInv, LinkInv,
  HoldsMedium, LoopInv, Waiting, TypeOK, Handlers, JobInv, diskVars, lunVars,
  loopVars
<1>1. ASSUME NEW h \in Handlers, Prepare(h) PROVE LinkInv'
  BY <1>1, PrepareForms, NoImageIsJob DEF PrepareCopy, PrepareImage
<1>2. ASSUME NEW h \in Handlers, Copy(h) PROVE LinkInv'
  BY <1>2, NoImageIsJob DEF Copy, Configure, Goto, AfterPrepare
<1>3. ASSUME NEW h \in Handlers, Relink(h) PROVE LinkInv'
  BY <1>3, NoImageIsJob DEF Relink, HStep, Goto
<1>4. ASSUME NEW h \in Handlers, Detach(h) PROVE LinkInv'
  BY <1>4, DetachEnds, NoImageIsJob
  DEF DetachForms, Fail, Finish, Goto, DoorIsLocked
<1>5. ASSUME NEW h \in Handlers, Wake(h) PROVE LinkInv'
  BY <1>5, Sleeper, NoImageIsJob DEF Wake, Configure, Goto, LoopFree
<1>6. ASSUME NEW h \in Handlers, SetRo(h) \/ Attach(h) PROVE LinkInv'
  BY <1>6, NoImageIsJob DEF SetRo, Goto, Fail, Finish, Attach
<1>7. ASSUME NEW h \in Handlers, Commit(h) PROVE LinkInv'
  <2>1. /\ Mounted(h).disk = req[h].disk
        /\ Mounted(h).file = req[h].file
        /\ Mounted(h).session = req[h].session
    BY MountedIsJob
  <2>2. req[h].session = FALSE => Mounted(h).ro = req[h].ro
    BY MountedIsJob
  <2> QED
    BY <1>7, <2>1, <2>2, NoImageIsJob DEF Commit, Goto, Finish
<1>8. ASSUME NEW h \in Handlers, Ejected(h) \/ Persist(h) PROVE LinkInv'
  BY <1>8, NoImageIsJob DEF Ejected, HStep, Goto, Persist, Finish
<1>9. ASSUME NEW r \in Requests, NEW d \in Disks, NEW session \in Sessions,
             BeginMount(r, d, session)
      PROVE  LinkInv'
  <2>1. MountForm(r, d, session)
    BY <1>9, MountBegins
  <2> QED
    BY <2>1, NoImageIsJob DEF MountForm, TakesJob, LoopFree
<1>10. ASSUME NEW r \in Requests, BeginEject(r) PROVE LinkInv'
  BY <1>10, NoImageIsJob DEF BeginEject, LoopFree, Configure, Goto
<1>11. ASSUME NEW r \in Requests, NEW d \in Disks, NEW ro \in BOOLEAN,
             BeginReadOnly(r, d, ro)
      PROVE  LinkInv'
  <2>1. ReadOnlyForm(r, d)
    BY <1>11, ReadOnlyBegins
  <2> QED
    BY <2>1, NoImageIsJob DEF ReadOnlyForm, TakesJob, LoopFree
<1>12. CASE Start
  <2>1. StartForm
    BY <1>12, StartBegins
  <2> QED
    BY <2>1, NoImageIsJob DEF StartForm, TakesJob, LoopFree
<1>13. CASE Rescan \/ Shutdown \/ HostEject \/ HostLock
  BY <1>13, NoImageIsJob
  DEF Rescan, LoopFree, Shutdown, Quiet, HostEject, HostLock
<1>14. CASE Kill \/ PowerFailure
  BY <1>14, NoImageIsJob DEF Kill, Stopped, PowerFailure
<1>15. CASE UNCHANGED vars
  BY <1>15 DEF vars
<1> HIDE DEF LinkInv
<1> QED
  BY <1>1, <1>2, <1>3, <1>4, <1>5, <1>6, <1>7, <1>8, <1>9, <1>10, <1>11,
    <1>12, <1>13, <1>14, <1>15
  DEF Next, HandlerStep, Request

\* config.json catches up before the next handler runs.
LEMMA SavedStep ==
  ASSUME TypeOK, JobInv, LoopInv, BootInv, SleepInv, InPlaceInv, SavedInv,
         [Next]_vars
  PROVE  SavedInv'
<1> USE GadgetControllerAssumption DEF InPlaceInv, SavedInv, LoopInv, BootInv,
  Waiting, TypeOK, Handlers, diskVars, lunVars, loopVars
<1>1. ASSUME NEW h \in Handlers, Prepare(h) PROVE SavedInv'
  BY <1>1, PrepareForms DEF PrepareCopy, PrepareImage
<1>2. ASSUME NEW h \in Handlers, Copy(h) PROVE SavedInv'
  BY <1>2 DEF Copy, Configure, Goto, AfterPrepare
<1>3. ASSUME NEW h \in Handlers, Relink(h) PROVE SavedInv'
  BY <1>3 DEF Relink, HStep, Goto
<1>4. ASSUME NEW h \in Handlers, Detach(h) PROVE SavedInv'
  BY <1>4, DetachEnds DEF DetachForms, Fail, Finish, Goto
<1>5. ASSUME NEW h \in Handlers, Wake(h) PROVE SavedInv'
  BY <1>5, Sleeper DEF Wake, Configure, Goto, LoopFree
<1>6. ASSUME NEW h \in Handlers, SetRo(h) \/ Attach(h) PROVE SavedInv'
  BY <1>6 DEF SetRo, Goto, Fail, Finish, Attach
<1>7. ASSUME NEW h \in Handlers, Commit(h) PROVE SavedInv'
  <2>1. /\ Mounted(h).disk = req[h].disk
        /\ Mounted(h).file = req[h].file
        /\ Mounted(h).session = req[h].session
    BY MountedIsJob
  <2>2. req[h].session = FALSE => Mounted(h).ro = req[h].ro
    BY MountedIsJob
  <2> QED
    BY <1>7, <2>1, <2>2 DEF Commit, Goto, Finish
<1>8. ASSUME NEW h \in Handlers, Ejected(h) \/ Persist(h) PROVE SavedInv'
  BY <1>8 DEF Ejected, HStep, Goto, Persist, Finish, LastMounted
<1>9. ASSUME NEW r \in Requests, NEW d \in Disks, NEW session \in Sessions,
             BeginMount(r, d, session)
      PROVE  SavedInv'
  <2>1. MountForm(r, d, session)
    BY <1>9, MountBegins
  <2> QED
    BY <2>1 DEF MountForm, TakesJob, LoopFree
<1>10. ASSUME NEW r \in Requests, BeginEject(r) PROVE SavedInv'
  BY <1>10 DEF BeginEject, LoopFree, Configure, Goto
<1>11. ASSUME NEW r \in Requests, NEW d \in Disks, NEW ro \in BOOLEAN,
             BeginReadOnly(r, d, ro)
      PROVE  SavedInv'
  <2>1. ReadOnlyForm(r, d)
    BY <1>11, ReadOnlyBegins
  <2> QED
    BY <2>1 DEF ReadOnlyForm, TakesJob, LoopFree
<1>12. CASE Start
  <2>1. StartForm
    BY <1>12, StartBegins
  <2> QED
    BY <2>1 DEF StartForm, TakesJob, LoopFree
<1>13. CASE Rescan \/ Shutdown \/ HostEject \/ HostLock
  BY <1>13 DEF Rescan, LoopFree, Shutdown, Quiet, HostEject, HostLock
<1>14. CASE Kill \/ PowerFailure
  BY <1>14 DEF Kill, Stopped, PowerFailure
<1>15. CASE UNCHANGED vars
  BY <1>15 DEF vars
<1> QED
  BY <1>1, <1>2, <1>3, <1>4, <1>5, <1>6, <1>7, <1>8, <1>9, <1>10, <1>11,
    <1>12, <1>13, <1>14, <1>15
  DEF Next, HandlerStep, Request

\* Without a locked door the records are too.
LEMMA RecordsHold ==
  ASSUME InPlace, "lock" \notin HostActs
  PROVE  Spec => [](/\ ControlInv /\ InPlaceInv /\ DriveInv
                    /\ LinkInv /\ SavedInv)
<1>1. Init => LinkInv /\ SavedInv
  <2> SUFFICES ASSUME Init PROVE LinkInv /\ SavedInv
    OBVIOUS
  <2>1. \A h \in Handlers : pc[h] = "idle"
    BY DEF Init
  <2>2. current = NoImage /\ door = FALSE
    BY DEF Init
  <2> QED
    BY <2>1, <2>2 DEF LinkInv, SavedInv, HoldsMedium
<1>2. ControlInv /\ InPlaceInv /\ DriveInv /\ LinkInv /\ SavedInv
        /\ [Next]_vars => LinkInv' /\ SavedInv'
  BY LinkStep, SavedStep DEF ControlInv
<1> QED
  BY <1>1, <1>2, DriveHolds, PTL DEF Spec

\* _update_current_symlink runs before the kernel is asked, and a failed open
\* leaves it where it is: at rest it leads to the medium all the same, if the
\* host locks no door.
THEOREM LinkFollows ==
  ASSUME InPlace, "lock" \notin HostActs
  PROVE  Spec => []LinkFollowsDrive
<1>1. LinkInv => LinkFollowsDrive
  BY DEF LinkInv, LinkFollowsDrive, HoldsMedium, Quiet
<1> QED
  BY <1>1, RecordsHold, PTL

\* The symlink and config.json agree at rest: the write of one and of the
\* other are steps apart, and handlers that sleep come between.
THEOREM RecordsAgreeAtRest ==
  ASSUME InPlace, "lock" \notin HostActs
  PROVE  Spec => []RecordsAgree
<1>1. InPlaceInv /\ DriveInv /\ LinkInv /\ SavedInv => RecordsAgree
  <2> SUFFICES ASSUME InPlaceInv, DriveInv, LinkInv, SavedInv, Quiet,
                      current # NoImage, lun # NoMedium
               PROVE  link = saved
    BY DEF RecordsAgree
  <2>1. link = lun.file /\ saved = current.disk
    BY DEF LinkInv, SavedInv, HoldsMedium, Quiet
  <2>2. lun.file = current.file
    BY DEF DriveInv, HoldsMedium, Quiet
  <2>3. current.file = current.disk
    BY DEF InPlaceInv
  <2> QED
    BY <2>1, <2>2, <2>3
<1> QED
  BY <1>1, RecordsHold, PTL

-----------------------------------------------------------------------------
(* What the startup restores.                                              *)

\* The startup goes through the steps of a mount.
LEMMA RestoreStep ==
  ASSUME "eject" \notin HostActs, TypeOK, JobInv, LoopInv, BootInv, SleepInv,
         RestoreInv, [Next]_vars
  PROVE  RestoreInv'
<1> USE GadgetControllerAssumption DEF RestoreInv, JobInv, LoopInv, BootInv,
  HasJob, TypeOK, Handlers, NoMedium, ImageIn, diskVars, lunVars, loopVars
<1>1. ASSUME NEW h \in Handlers, Prepare(h) PROVE RestoreInv'
  BY <1>1, PrepareForms DEF PrepareCopy, PrepareImage
<1>2. ASSUME NEW h \in Handlers, Copy(h) PROVE RestoreInv'
  BY <1>2 DEF Copy, Configure, Goto, AfterPrepare
<1>3. ASSUME NEW h \in Handlers, Relink(h) PROVE RestoreInv'
  BY <1>3 DEF Relink, HStep, Goto
<1>4. ASSUME NEW h \in Handlers, Detach(h) PROVE RestoreInv'
  BY <1>4, DetachEnds DEF DetachForms, Fail, Finish, Goto
<1>5. ASSUME NEW h \in Handlers, Wake(h) PROVE RestoreInv'
  BY <1>5, Sleeper DEF Wake, Configure, Goto, LoopFree
<1>6. ASSUME NEW h \in Handlers, SetRo(h) \/ Attach(h) PROVE RestoreInv'
  BY <1>6 DEF SetRo, Goto, Fail, Finish, Attach
<1>7. ASSUME NEW h \in Handlers, Commit(h) PROVE RestoreInv'
  <2>1. /\ Mounted(h).disk = req[h].disk
        /\ Mounted(h).file = req[h].file
        /\ Mounted(h).session = req[h].session
    BY MountedIsJob
  <2>2. req[h].session = FALSE => Mounted(h).ro = req[h].ro
    BY MountedIsJob
  <2> QED
    BY <1>7, <2>1, <2>2 DEF Commit, Goto, Finish
<1>8. ASSUME NEW h \in Handlers, Ejected(h) \/ Persist(h) PROVE RestoreInv'
  BY <1>8 DEF Ejected, HStep, Goto, Persist, Finish
<1>9. ASSUME NEW r \in Requests, NEW d \in Disks, NEW session \in Sessions,
             BeginMount(r, d, session)
      PROVE  RestoreInv'
  <2>1. MountForm(r, d, session)
    BY <1>9, MountBegins
  <2> QED
    BY <2>1 DEF MountForm, TakesJob, LoopFree
<1>10. ASSUME NEW r \in Requests, BeginEject(r) PROVE RestoreInv'
  BY <1>10 DEF BeginEject, LoopFree, Configure, Goto
<1>11. ASSUME NEW r \in Requests, NEW d \in Disks, NEW ro \in BOOLEAN,
             BeginReadOnly(r, d, ro)
      PROVE  RestoreInv'
  <2>1. ReadOnlyForm(r, d)
    BY <1>11, ReadOnlyBegins
  <2> QED
    BY <2>1 DEF ReadOnlyForm, TakesJob, LoopFree
<1>12. CASE Start
  <2>1. StartForm
    BY <1>12, StartBegins
  <2> QED
    BY <2>1 DEF StartForm, TakesJob, LoopFree
<1>13. CASE Rescan \/ Shutdown \/ HostEject \/ HostLock
  BY <1>13 DEF Rescan, LoopFree, Shutdown, Quiet, HostEject, HostLock
<1>14. CASE Kill \/ PowerFailure
  BY <1>14 DEF Kill, Stopped, PowerFailure
<1>15. CASE UNCHANGED vars
  BY <1>15 DEF vars
<1> QED
  BY <1>1, <1>2, <1>3, <1>4, <1>5, <1>6, <1>7, <1>8, <1>9, <1>10, <1>11,
    <1>12, <1>13, <1>14, <1>15
  DEF Next, HandlerStep, Request

\* The startup is undisturbed, if the host ejects nothing.
LEMMA RestoreHolds ==
  ASSUME "eject" \notin HostActs
  PROVE  Spec => [](ControlInv /\ RestoreInv)
<1>1. Init => RestoreInv
  BY DEF Init, RestoreInv, Handlers
<1>2. ControlInv /\ RestoreInv /\ [Next]_vars => RestoreInv'
  BY RestoreStep DEF ControlInv
<1> QED
  BY <1>1, <1>2, ControlHolds, PTL DEF Spec

\* Only the commit of the startup, or its refusal, ends the start.
BackAgain ==
    service = "starting" /\ service' = "up" =>
        \/ current'.disk = saved /\ lun.image = saved
        \/ current' = NoImage /\ DoorIsLocked

\* Fail and Commit are the only ways from one to the other.
LEMMA RestoredStep ==
  ASSUME "open" \notin Faults, TypeOK, JobInv, LoopInv, BootInv, SleepInv,
         RestoreInv, [Next]_vars
  PROVE  BackAgain
<1> USE GadgetControllerAssumption DEF BackAgain, RestoreInv, JobInv, LoopInv,
  BootInv, Waiting, TypeOK, Handlers, diskVars, lunVars, loopVars
<1>1. ASSUME NEW h \in Handlers, Prepare(h) PROVE BackAgain
  BY <1>1, PrepareForms DEF PrepareCopy, PrepareImage
<1>2. ASSUME NEW h \in Handlers, Detach(h) PROVE BackAgain
  BY <1>2, DetachEnds DEF DetachForms, Fail, Finish, Goto
<1>3. ASSUME NEW h \in Handlers, SetRo(h) PROVE BackAgain
  BY <1>3 DEF SetRo, Goto, Fail, Finish
<1>4. ASSUME NEW h \in Handlers, Attach(h) PROVE BackAgain
  BY <1>4 DEF Attach, Goto, Fail, Finish, ImageIn, HasJob, Files
<1>5. ASSUME NEW h \in Handlers, Commit(h) PROVE BackAgain
  <2>1. /\ Mounted(h).disk = req[h].disk
        /\ Mounted(h).file = req[h].file
        /\ Mounted(h).session = req[h].session
    BY MountedIsJob
  <2>2. req[h].session = FALSE => Mounted(h).ro = req[h].ro
    BY MountedIsJob
  <2> QED
    BY <1>5, <2>1, <2>2 DEF Commit, Goto, Finish
<1>6. ASSUME NEW h \in Handlers, Persist(h) PROVE BackAgain
  BY <1>6 DEF Persist, Finish, Goto
<1>7. ASSUME NEW h \in Handlers, Copy(h) \/ Relink(h) \/ Wake(h) \/ Ejected(h)
      PROVE  BackAgain
  BY <1>7, Sleeper
  DEF Copy, Configure, Goto, AfterPrepare, Relink, HStep, Wake, LoopFree,
    Ejected
<1>8. ASSUME NEW r \in Requests, NEW d \in Disks, NEW session \in Sessions,
             BeginMount(r, d, session)
      PROVE  BackAgain
  <2>1. MountForm(r, d, session)
    BY <1>8, MountBegins
  <2> QED
    BY <2>1 DEF MountForm, TakesJob, LoopFree
<1>9. ASSUME NEW r \in Requests, BeginEject(r) PROVE BackAgain
  BY <1>9 DEF BeginEject, LoopFree, Configure, Goto
<1>10. ASSUME NEW r \in Requests, NEW d \in Disks, NEW ro \in BOOLEAN,
             BeginReadOnly(r, d, ro)
      PROVE  BackAgain
  <2>1. ReadOnlyForm(r, d)
    BY <1>10, ReadOnlyBegins
  <2> QED
    BY <2>1 DEF ReadOnlyForm, TakesJob, LoopFree
<1>11. CASE Start
  BY <1>11 DEF Start, BackAgain
<1>12. CASE Rescan \/ Shutdown \/ Kill \/ PowerFailure \/ HostEject \/
          HostLock
  BY <1>12
  DEF Rescan, LoopFree, Shutdown, Quiet, Kill, Stopped, PowerFailure,
    HostEject, HostLock
<1>13. CASE UNCHANGED vars
  BY <1>13 DEF vars
<1> QED
  BY <1>1, <1>2, <1>3, <1>4, <1>5, <1>6, <1>7, <1>8, <1>9, <1>10, <1>11,
    <1>12, <1>13
  DEF Next, HandlerStep, Request

\* A start ends with the saved image in the drive, or with the door locked,
\* wherever a kill or a power failure had cut the work before it.
THEOREM Restored ==
  ASSUME "eject" \notin HostActs, "open" \notin Faults
  PROVE  Spec => RestoredOnBoot
<1>1. ControlInv /\ RestoreInv /\ [Next]_vars =>
        [service = "starting" /\ service' = "up" =>
           \/ current'.disk = saved /\ lun.image = saved
           \/ current' = NoImage /\ DoorIsLocked]_vars
  BY RestoredStep DEF ControlInv, BackAgain
<1> QED
  BY <1>1, RestoreHolds, PTL DEF Spec, RestoredOnBoot
=============================================================================
