--------------------------- MODULE GadgetController ---------------------------
(***************************************************************************)
(* The service that mounts images: GadgetController and SysfsBackend, the  *)
(* HTTP handlers that call them, the startup that restores the last mount, *)
(* and what survives the service - the current.img symlink, config.json,   *)
(* the session directory and the kernel's LUN.                             *)
(*                                                                         *)
(* Handlers are coroutines of one event loop: a handler runs alone until   *)
(* it sleeps between the eject and the mount of a swap.  The host, a kill  *)
(* and a power failure come between any two of its steps.                  *)
(*                                                                         *)
(* Every image is a set of its own here.  config.json is written in one    *)
(* step (ConfigStore has the steps), the LUN reduced to what its sysfs     *)
(* attributes do (FloppyLun has the kernel).                               *)
(***************************************************************************)
EXTENDS Naturals, Sequences

CONSTANTS
    Disks,          \* the images of the library
    UndersizeDisks, \* those smaller than 1.44 MB, to begin with
    Blank,          \* blank.img
    None,           \* no file, no medium, no saved mount
    Requests,       \* the HTTP requests in flight at a time
    Sessions,       \* the values of their session flag
    Boot,           \* the startup that restores the last mount
    HostActs,       \* what the host does: "eject", "lock"
    Faults          \* what goes wrong: "open", "kill", "power"

Temps == {"session.img", "ro-padded.img"}
Files == Disks \union Temps \union {Blank}
Handlers == Requests \union {Boot}

ASSUME GadgetControllerAssumption ==
    /\ UndersizeDisks \subseteq Disks
    /\ Blank \notin Disks \union Temps
    /\ None \notin Files
    /\ Disks \cap Temps = {}
    /\ Boot \notin Requests
    /\ Sessions \subseteq BOOLEAN
    /\ HostActs \subseteq {"eject", "lock"}
    /\ Faults \subseteq {"open", "kill", "power"}

VARIABLES
    link,       \* what current.img points to
    saved,      \* last_mounted of config.json
    temp,       \* of each file in the session directory: its source image
    undersize,  \* the images still to be padded
    marker,     \* the sets with an "ro" file
    lun, lunRo, \* the LUN: the path and the image it has open; read-only
    door,       \* the host has locked the medium in
    service,    \* the service: "down", "starting" or "up"
    library,    \* the sets that library.sets says are read-only
    current,    \* controller.current
    pc, req,    \* the handlers: where they are, what they are to do
    target,     \* the argument of the configure_lun in progress
    sleeping    \* the handlers in asyncio.sleep, by deadline

diskVars == <<link, saved, temp, undersize, marker>>
lunVars  == <<lun, lunRo, door>>
loopVars == <<pc, req, target, sleeping>>
vars == <<diskVars, lunVars, service, library, current, loopVars>>

NoMedium == [file |-> None, image |-> None]
NoImage  == [disk |-> None, file |-> None, ro |-> FALSE, session |-> FALSE]

Jobs == [disk : Disks \union {None}, file : Files \union {None},
         ro : BOOLEAN, session : BOOLEAN]

Pcs == {"idle", "prepare", "copy", "unlink", "relink", "detach", "sleep",
        "setRo", "attach", "commit", "ejected", "persist"}

TypeOK ==
    /\ link \in Files \union {None}
    /\ saved \in Disks \union {None}
    /\ temp \in [Temps -> Disks \union {None}]
    /\ undersize \subseteq Disks
    /\ marker \subseteq Disks
    /\ lun \in [file : Files \union {None}, image : Disks \union {Blank, None}]
    /\ lunRo \in BOOLEAN /\ door \in BOOLEAN
    /\ service \in {"down", "starting", "up"}
    /\ library \subseteq Disks
    /\ current \in Jobs
    /\ pc \in [Handlers -> Pcs]
    /\ req \in [Handlers -> Jobs]
    /\ target \in [Handlers -> Files]
    /\ sleeping \in Seq(Requests)

EmptyTemps == [t \in Temps |-> None]

\* install.sh has run and the module has been loaded.
Init ==
    /\ link = Blank /\ saved = None /\ temp = EmptyTemps
    /\ undersize = UndersizeDisks /\ marker = {}
    /\ lun = [file |-> Blank, image |-> Blank]
    /\ lunRo = FALSE /\ door = FALSE
    /\ service = "down" /\ library = {} /\ current = NoImage
    /\ pc = [h \in Handlers |-> "idle"]
    /\ req = [h \in Handlers |-> NoImage]
    /\ target = [h \in Handlers |-> Blank]
    /\ sleeping = <<>>

-----------------------------------------------------------------------------
\* What a path leads to, None if there is no such file.
ImageIn(file) == IF file \in Temps THEN temp[file]
                 ELSE IF file \in Disks \union {Blank} THEN file ELSE None

LoopFree == \A h \in Handlers : pc[h] \in {"idle", "sleep"}
Quiet    == \A h \in Handlers : pc[h] = "idle"

Goto(h, to) == pc' = [pc EXCEPT ![h] = to]
HStep(h, from, to) == pc[h] = from /\ Goto(h, to)

\* configure_lun(file) begins with the symlink.
Configure(h, file) ==
    /\ Goto(h, "unlink")
    /\ target' = [target EXCEPT ![h] = file]

Finish(h) ==
    /\ Goto(h, "idle")
    /\ req' = [req EXCEPT ![h] = NoImage]
    /\ target' = [target EXCEPT ![h] = Blank]

\* An exception ends the handler; the startup logs it and goes on.
Fail(h) == Finish(h) /\ service' = "up"

BeginMount(r, d, session) ==
    /\ service = "up" /\ LoopFree
    /\ HStep(r, "idle", "prepare")
    /\ req' = [req EXCEPT ![r] = [disk |-> d, file |-> d,
                                  ro |-> d \in library,
                                  session |-> session]]
    /\ UNCHANGED <<diskVars, lunVars, service, library, current, target,
                   sleeping>>

BeginEject(r) ==
    /\ service = "up" /\ LoopFree
    /\ pc[r] = "idle"
    /\ Configure(r, Blank)
    /\ req' = [req EXCEPT ![r] = NoImage]
    /\ UNCHANGED <<diskVars, lunVars, service, library, current, sleeping>>

\* post_readonly: the marker, and a re-mount if the set is mounted.
BeginReadOnly(r, d, ro) ==
    /\ service = "up" /\ LoopFree
    /\ pc[r] = "idle"
    /\ marker' = IF ro THEN marker \union {d} ELSE marker \ {d}
    /\ IF current.disk = d /\ ~current.session
       THEN /\ Goto(r, "prepare")
            /\ req' = [req EXCEPT ![r] = [disk |-> d, file |-> d, ro |-> ro,
                                          session |-> FALSE]]
       ELSE UNCHANGED <<pc, req>>
    /\ UNCHANGED <<link, saved, temp, undersize, lunVars, service, library,
                   current, target, sleeping>>

AfterPrepareOnImage(h, file) ==
    Configure(h, IF current # NoImage THEN Blank ELSE req[h].disk)

\* A swap ejects first, so that the host sees a media change.
AfterPrepare(h, file) ==
    Configure(h, IF current # NoImage THEN Blank ELSE file)

\* mount(): the backing file is the image, padded in place if that is
\* allowed, or a copy of it in the emptied session directory.
Prepare(h) ==
    /\ pc[h] = "prepare"
    /\ LET d == req[h].disk
           copy == IF req[h].session THEN "session.img" ELSE "ro-padded.img"
       IN IF req[h].session \/ (d \in undersize /\ req[h].ro)
          THEN /\ temp' = EmptyTemps
               /\ req' = [req EXCEPT ![h].file = copy]
               /\ Goto(h, "copy")
               /\ UNCHANGED <<undersize, target>>
          ELSE /\ undersize' = undersize \ {d}
               /\ AfterPrepare(h, d)
               /\ UNCHANGED <<temp, req>>
    /\ UNCHANGED <<link, saved, marker, lunVars, service, library, current,
                   sleeping>>

Copy(h) ==
    /\ pc[h] = "copy"
    /\ temp' = [temp EXCEPT ![req[h].file] = req[h].disk]
    /\ AfterPrepare(h, req[h].file)
    /\ UNCHANGED <<link, saved, undersize, marker, lunVars, service, library,
                   current, req, sleeping>>

\* _update_current_symlink.
Relink(h) ==
    /\ \/ HStep(h, "unlink", "relink") /\ link' = None
       \/ HStep(h, "relink", "detach") /\ link' = target[h]
    /\ UNCHANGED <<saved, temp, undersize, marker, lunVars, service, library,
                   current, req, target, sleeping>>

DoorIsLocked == door /\ lun # NoMedium

\* The write of "\n" to lun0_file, and what configure_lun returns to.
Detach(h) ==
    /\ pc[h] = "detach"
    /\ IF DoorIsLocked
       THEN Fail(h) /\ UNCHANGED <<lun, sleeping>>
       ELSE /\ lun' = NoMedium
            /\ \/ /\ target[h] # Blank
                  /\ Goto(h, "setRo") /\ UNCHANGED sleeping
               \/ /\ target[h] = Blank /\ req[h] = NoImage
                  /\ Goto(h, "ejected") /\ UNCHANGED sleeping
               \/ /\ target[h] = Blank /\ req[h] # NoImage
                  /\ Goto(h, "sleep") /\ sleeping' = Append(sleeping, h)
            /\ UNCHANGED <<service, req, target>>
    /\ UNCHANGED <<diskVars, lunRo, door, library, current>>

WakeUnlinked(h) ==
    /\ LoopFree
    /\ sleeping # <<>> /\ h = Head(sleeping)
    /\ sleeping' = Tail(sleeping)
    /\ HStep(h, "sleep", "detach")
    /\ target' = [target EXCEPT ![h] = req[h].file]
    /\ UNCHANGED <<diskVars, lunVars, service, library, current, req>>

Wake(h) ==
    /\ LoopFree
    /\ sleeping # <<>> /\ h = Head(sleeping)
    /\ sleeping' = Tail(sleeping)
    /\ Configure(h, req[h].file)
    /\ UNCHANGED <<diskVars, lunVars, service, library, current, req>>

\* lun0_ro: the kernel refuses it while a file is open.
SetRo(h) ==
    /\ pc[h] = "setRo"
    /\ IF lun # NoMedium THEN Fail(h) /\ UNCHANGED lunRo
       ELSE /\ lunRo' = (req[h].ro /\ ~req[h].session)
            /\ Goto(h, "attach") /\ UNCHANGED <<service, req, target>>
    /\ UNCHANGED <<diskVars, lun, door, library, current, sleeping>>

\* lun0_file: the kernel opens the path, if it leads to a file.
Attach(h) ==
    /\ pc[h] = "attach"
    /\ \/ /\ ImageIn(target[h]) # None
          /\ lun' = [file |-> target[h], image |-> ImageIn(target[h])]
          /\ Goto(h, "commit") /\ UNCHANGED <<service, req, target>>
       \/ /\ ImageIn(target[h]) = None \/ "open" \in Faults
          /\ Fail(h) /\ UNCHANGED lun
    /\ UNCHANGED <<diskVars, lunRo, door, library, current, sleeping>>

MountedReadingLibrary(h) ==
    [req[h] EXCEPT !.ro = req[h].disk \in library /\ ~req[h].session]

Mounted(h) == [req[h] EXCEPT !.ro = req[h].ro /\ ~req[h].session]

\* The startup mounts before mount() is wrapped, so it does not persist.
Commit(h) ==
    /\ pc[h] = "commit"
    /\ current' = Mounted(h)
    /\ IF h = Boot THEN Finish(h) /\ service' = "up"
       ELSE Goto(h, "persist") /\ UNCHANGED <<service, req, target>>
    /\ UNCHANGED <<diskVars, lunVars, library, sleeping>>

Ejected(h) ==
    /\ HStep(h, "ejected", "persist")
    /\ temp' = EmptyTemps
    /\ current' = NoImage
    /\ UNCHANGED <<link, saved, undersize, marker, lunVars, service, library,
                   req, target, sleeping>>

LastMountedByPath == IF current.session THEN None ELSE current.file
LastMounted == IF current.session THEN None ELSE current.disk

\* _persist_last_mounted.
Persist(h) ==
    /\ pc[h] = "persist"
    /\ Finish(h)
    /\ saved' = LastMounted
    /\ UNCHANGED <<link, temp, undersize, marker, lunVars, service, library,
                   current, sleeping>>

\* The watcher has seen the marker change and the rescan has run.
Rescan ==
    /\ service = "up" /\ LoopFree
    /\ library # marker
    /\ library' = marker
    /\ UNCHANGED <<diskVars, lunVars, service, current, loopVars>>

-----------------------------------------------------------------------------
(* The life of the service.                                                *)

\* build_runtime: scan the library, then restore the last mount.
Start ==
    /\ service = "down"
    /\ library' = marker
    /\ IF saved = None
       THEN service' = "up" /\ UNCHANGED <<pc, req>>
       ELSE /\ service' = "starting"
            /\ Goto(Boot, "prepare")
            /\ req' = [req EXCEPT ![Boot] =
                         [disk |-> saved, file |-> saved,
                          ro |-> saved \in marker, session |-> FALSE]]
    /\ UNCHANGED <<diskVars, lunVars, current, target, sleeping>>

\* The server has drained its requests; SysfsBackend leaves the LUN alone.
Shutdown ==
    /\ service = "up" /\ Quiet
    /\ service' = "down"
    /\ temp' = EmptyTemps
    /\ current' = NoImage
    /\ UNCHANGED <<link, saved, undersize, marker, lunVars, library, loopVars>>

\* The process is gone, whatever it was doing.
Stopped ==
    /\ service' = "down" /\ current' = NoImage
    /\ pc' = [h \in Handlers |-> "idle"]
    /\ req' = [h \in Handlers |-> NoImage]
    /\ target' = [h \in Handlers |-> Blank]
    /\ sleeping' = <<>>

Kill ==
    /\ "kill" \in Faults /\ service # "down"
    /\ Stopped
    /\ UNCHANGED <<diskVars, lunVars, library>>

\* The next boot empties /tmp and loads the module, which opens current.img.
PowerFailure ==
    /\ "power" \in Faults
    /\ Stopped
    /\ temp' = EmptyTemps
    /\ lun' = IF link \in Disks \union {Blank}
              THEN [file |-> link, image |-> link] ELSE NoMedium
    /\ lunRo' = FALSE /\ door' = FALSE
    /\ UNCHANGED <<link, saved, undersize, marker, library>>

HostEject ==
    /\ "eject" \in HostActs
    /\ lun # NoMedium /\ ~door
    /\ lun' = NoMedium
    /\ UNCHANGED <<diskVars, lunRo, door, service, library, current, loopVars>>

HostLock ==
    /\ "lock" \in HostActs
    /\ door' = ~door
    /\ UNCHANGED <<diskVars, lun, lunRo, service, library, current, loopVars>>

HandlerStep(h) ==
    \/ Prepare(h) \/ Copy(h) \/ Relink(h) \/ Detach(h) \/ Wake(h) \/ SetRo(h)
    \/ Attach(h) \/ Commit(h) \/ Ejected(h) \/ Persist(h)

Request(r) ==
    \/ \E d \in Disks, session \in Sessions : BeginMount(r, d, session)
    \/ \E d \in Disks, ro \in BOOLEAN : BeginReadOnly(r, d, ro)
    \/ BeginEject(r)

Next ==
    \/ \E h \in Handlers : HandlerStep(h)
    \/ \E r \in Requests : Request(r)
    \/ Rescan \/ Start \/ Shutdown \/ Kill \/ PowerFailure
    \/ HostEject \/ HostLock

Spec == Init /\ [][Next]_vars

-----------------------------------------------------------------------------
(* Properties.                                                             *)

(* Whatever interleaving of swaps, failed opens and host ejects led here,  *)
(* when no request is in progress a drive that holds a medium holds the    *)
(* one that GET /api/state shows (models.py:21), as read-only as it shows  *)
(* it, and never the user's own image behind what it calls a session.      *)
(* Overlapping sessions break it: they share session.img.                  *)
DriveIsAsShown ==
    Quiet /\ current # NoImage /\ lun # NoMedium =>
        /\ lun = [file |-> current.file, image |-> current.disk]
        /\ lunRo = current.ro
        /\ current.session => lun.file \notin Disks

(* When no request is in progress the symlink that the next modprobe reads *)
(* leads to the medium that is in the drive.                               *)
LinkFollowsDrive ==
    Quiet /\ current # NoImage /\ lun # NoMedium => link = lun.file

(* However the swaps, ejects and failed opens of several clients overlap,  *)
(* when the drive holds what is shown the two records that outlive the     *)
(* service agree: config.json names the image that the kernel will load    *)
(* through current.img.                                                    *)
RecordsAgree ==
    Quiet /\ current # NoImage /\ lun # NoMedium => link = saved

(* README.md:27: after startup the drive holds the last mounted image      *)
(* again, at whatever step of a request the service or the power went      *)
(* away, and whether or not a copy in the session directory backed it,     *)
(* unless the host had locked the medium in.                               *)
RestoredOnBoot ==
    [][service = "starting" /\ service' = "up" =>
         \/ current'.disk = saved /\ lun.image = saved
         \/ current' = NoImage /\ DoorIsLocked]_vars
===============================================================================
