# usb-floppy-pi in TLA+

A Raspberry Pi that poses as a USB floppy drive.  A kernel module, `g_floppy`
(a fork of the mass storage gadget), answers the host's SCSI commands from an
image file; a Python service lets a user choose the image from a web page,
remembers the choice, and plays the sound of a drive on a piezo.  This
directory holds TLA+ models of the parts of it that are hard to test, what TLC
finds about them on small instances, and proofs of the most important
properties for instances of every size.

Paths below are relative to `src/`; `kernel/` is the module, `pkg/` stands for
`src/usb_floppy_pi/`.

## 1. Inventory

| Part | State | Operations | What it talks to |
|---|---|---|---|
| Logical unit, `kernel/storage_common.c` | `struct fsg_lun`: `filp`, `ro`, `initially_ro`, `prevent_medium_removal`, `sense_data`, `unit_attention_data`; `filesem` | open, close, the stores to `file`, `ro`, `forced_eject`, `nofua`, `removable`, `cdrom` | shared memory with the kthread |
| SCSI kthread, `kernel/f_floppy.c` | `common->state`, the command, the buffer ring | CBW, check, execute, CSW; exceptions | the host by USB, the unit under `filesem`, UDC callbacks |
| Data pipeline, `do_read`, `do_write` | buffers EMPTY, FULL, SENDING, RECEIVING; residue | fill, drain, short packets, errors | UDC completion routines, the backing file |
| Function life, `fsg_alloc_inst` ... `fsg_common_release` | `common->fsg`, `exception_arg`, the ep0 tags, `thread_notifier`, what is allocated and enabled | bind, set_alt, setup, disable, unbind, release | composite core, kthread |
| `kernel/g_floppy_main.c` | the module parameters, the sysfs class, the lun0 attributes | load, unload, stores | function life, sysfs, the unit |
| `kernel/floppy_io_events.c` | counters, last track | record, show, notify | kthread writes, audio loop polls |
| `kernel/floppy_throttle.c` | the preset, last track | delays, set preset | kthread, sysfs |
| Controller, `pkg/gadget/controller.py` | `_current`, the session directory | mount, eject, shutdown | awaits between its steps; backend |
| sysfs backend, `pkg/gadget/sysfs_backend.py` | `current.img` | `configure_lun`: symlink, detach, ro, attach | the unit's attributes |
| Config store, `pkg/core/config.py` | `config.json`, its tmp file, the `Config` object | save, load | event loop and web threads; the file system |
| Library, `pkg/storage/` | the sets as last scanned | scan, watch, debounce, normalize | watcher thread, event loop |
| HTTP API, `pkg/web/api.py` | none of its own | mount, eject, read-only, upload, volume, mute, buzzer | controller (coroutines), buzzer (threads), config store |
| Audio, `pkg/audio/` | the detector's baseline, the PWM channel | wait, read, tick, render, play, silence | tracker, PWM attributes, web threads |
| Startup, `pkg/__main__.py` | - | restore the last mount, persist, cancel | all of the above |
| Deployment, `deploy/` | module parameters, unit file, first config | boot | kernel module opens `current.img` before the service runs |

How they interact.  The service and the kernel share only sysfs: the service
writes `lun0_file` and `lun0_ro`, the kernel takes `filesem` against its own
kthread.  Three things survive the service: the `current.img` symlink (the next
`modprobe` opens it), `config.json` (the next start restores it) and the LUN
itself (which keeps its medium when the service dies).  Inside the service the
handlers of mounts and ejects are coroutines of one event loop that interleave
where they `await`; the handlers of volume, mute and buzzer are synchronous, so
FastAPI runs them in threads.  The audio loop is a task of the event loop: its
tick reads the counters and renders there, and only the wait in `poll` is left to
an executor thread.

What makes each part correct, and hard:

* **Unit and kthread.** No file is closed under a command; a command is never
  answered from a medium that the host does not know it has; a door the host
  has locked stays locked for whoever comes later; the read-only status of a
  medium does not change while it is in; nobody waits for `filesem` for ever.
  Hard because `do_start_stop` drops the lock in the middle of a command,
  because door and file are looked at outside it, and because exceptions clear
  what the stores have left for the host.
* **Controller and backend.** What the API shows is in the drive; the records
  that outlive the service agree with it; after a restart at any point the drive
  holds what `config.json` names.  Hard because a swap sleeps in the middle,
  because any of its sysfs writes may be refused, and because kills and power
  failures come between any two.
* **Config store.** The file is whole after any crash and is what the service
  shows.  Hard because of what a file system may lose, and because two threads
  may save at once.
* **Audio.** No seek goes unheard, no tone gets stuck, mute is obeyed.  Hard
  because of the race of notify, drain and read, of check and write, and of
  accesses that fail.
* **Data pipeline.** Host and device agree where in a command they are; the
  residue is right whatever fails; every unit is written in its place; commands
  and resets are answered.  Hard because receiving and writing overlap in a ring
  that completion routines fill behind the kthread's back, because host and CDB
  may ask for different lengths and directions, and because a file error, a
  short packet or a reset may come with several transfers under way.
* **Function life.** The interface is up exactly when the host configured it
  last; every request of the host gets its own answer; nothing is used after it
  is freed, nothing is left after an unload or a failed load (but for what
  section 6 tells), and both return.
  Hard because exceptions replace each other, because the host takes the
  interface away in an interrupt in the middle of `do_set_interface`, because
  the kthread may not yet hear its signals or may have been killed, and because
  stores of userspace go on until the sysfs class, or the LUN's own device, is
  gone.
* **Library**: what the API shows of the directory ends up as the directory is,
  and no image changes under a mount.  Not modelled, section 9.

## 2. Modules

| Module | Models | Composes |
|---|---|---|
| `FloppyDrive` | abstract: what the drive promises its host | |
| `FloppyLun` | the unit, `filesem`, the kthread, exceptions, the stores | implements `FloppyDrive` |
| `FloppyLunProofs` | proofs about `FloppyLun` | extends it |
| `DataPath` | the buffer ring, `do_read`, `do_write`, `finish_reply`, the CSW, bulk resets | what `FloppyLun` takes as its step `execute` and the two after it |
| `DataPathInvariant` | the inductive invariant of `DataPath`, lemmas, and the parts that do not speak of the order of the data | extends it |
| `DataPathProofs` | the rings and queues of data, the status, and the theorems about `DataPath` | extends `DataPathInvariant` |
| `FsgLifecycle` | `fsg_bind` to `fsg_unbind`, `do_set_interface`, the exceptions as the host raises them, `g_floppy` loading and unloading | the requests of `DataPath` and the medium of `FloppyLun`, each reduced to whether there is one |
| `FsgLifecycleProofs` | proofs about `FsgLifecycle` | extends it |
| `GadgetController` | controller, sysfs backend, startup, API handlers, what survives | the LUN as `FloppyLun` has it, `config.json` as `ConfigStore` has it, each reduced to one step |
| `GadgetControllerProofs` | proofs about `GadgetController` | extends it |
| `AudioLoop` | tracker, notifier, loop, detector, renderer, PWM, settings | |
| `AudioLoopProofs` | proofs about `AudioLoop` | extends it |
| `ConfigStore` | `save_config` on a file system, `load_config` | |
| `ConfigStoreProofs` | proofs about `ConfigStore` | extends it |
| `MCFloppyLun`, `MCGadgetController`, `MCConfigStore` | the symmetry sets for TLC | |

A definition that stands right before one it resembles, and that nothing uses,
is the mistake the code avoids at that point: with it in place of the other the
property named in `PROJECT.json` fails.

### FloppyLun

Variables carry the names of the fields of `struct fsg_lun`.  `filesem` is
`semReaders`, `semWriter` and `semHandoff`, the waiter that the kernel's
rw-semaphore has promised it to; a thread may take it past the waiters, as
the kernel allows, unless it has been handed over.  The kthread's `kpc` goes
from `idle` (waiting for a CBW) through `down` (`down_read`), `check`
(`check_command`), `execute`, `up`, `finish` (`finish_reply`) and `status`
(`send_status`) back to `idle`; `eject*` are the lock operations of
`do_start_stop`, `reconfigure` is `do_set_interface`, `exit*` the end of
`fsg_main_thread`.  A store goes from `idle` through `down`, `open`, `assign`,
`notify` and `up`: `fsg_store_file` with `fsg_lun_open` in two steps, so that
the moment between closing the old file and having the new one is a state.

The host is the environment: it sends any command, and after one that fails it
fetches the sense data, as usb-storage and Windows do.  `hostView` is the
medium it has cached data of.  It forgets that when it is told of a change, when
it ejects and when it re-enumerates the device.  Whether it forgets on a bulk
reset of its own is the constant `HostForgetsOnReset`: with TRUE the safety
properties hold, with FALSE they do not (section 6).

### DataPath

`bh` is the array of `struct fsg_buffhd`, `fill` and `drain` the two pointers
into it; `inQ`, `outQ` and `ended` are the controller's: the requests queued on
each endpoint, and the transfers that have ended and whose completion routine
has still to run.  `kpc` follows `fsg_main_thread`: `next` and `cbw`
(`get_next_command`), `start` (`do_scsi_command`), `read`, `write` and `drain`
(the loops of `do_read` and `do_write`, the latter with its wait apart), `finish`,
`throw` and `toss` (`throw_away_data`), `status`, and `cancel`
(`handle_exception`, one buffer at a time).  The kthread looks for an exception
where the code does: between the calls of the main loop, after each access to
the file, and whenever it sleeps.

Data are counted in units, several to a block.  What is read from the file is
the positions it was read from, what the host sends is numbered, and `file` keeps
which numbers the command has left where; this is what lets the properties say
"in order" and "in its place".  Next to READ and WRITE there is VERIFY, whose
loop goes on after a short read and whose length is no length of data.  The
other commands are represented by INQUIRY (a reply in one buffer), MODE SELECT
(data to the device, always refused) and TEST UNIT READY (neither); any command
may be refused.  Sizes are u32: `U32` is how many units such a counter has, and
what a READ or WRITE asks for wraps there.

External, and assumed: the controller runs completion routines in the order in
which the transfers ended, and a transfer fails only when it is dequeued.  The
host sends no more than it announced and takes no more than it asked for.

### FsgLifecycle

`mpc` is between the calls of `msg_bind` and `msg_unbind` with what they call
(`Loading`, `Unloading`, `Releasing`: each name is the call about to be made),
`kpc` follows `fsg_main_thread`, `handle_exception` and `do_set_interface` at
every access to what they share with the others: `drop`, `disable` and `unset`
put the old interface down, `in`, `inFlag`, `out`, `outFlag` and `allocate` put
the new one up, `continue` and `ep0` answer the host.  `state`, `arg` and
`fresh` are what `__raise_exception` sets: the exception, whether
`exception_arg` is the function, and whether `exception_req_tag` still is
`ep0_req_tag`.  `enabled` is what the flags of the function say of its endpoints
and `hardware` what the controller has done; they differ between two statements,
and there `fsg_disable`, in two steps because it disables first and raises then,
may cut in.

The pointer `common->fsg` is the Boolean `iface`, since there is one function
only.  `alive` says which objects are allocated, the device of the LUN among
them.  A store is in `upc` from the moment it has the LUN in hand until it
returns: those of `LunUsers` come through the LUN's device (`file_store`), the
others through `lun0_file` of the class, which asks `floppy_active_common`.
`Free` and `Undo` take the file, the device and the LUN in the order of the code,
which is not the same in `fsg_common_release` and `fsg_common_remove_lun`.

`fsg_alloc_inst` is `Load`, up to where it has counted itself, and `AllocInst`;
its error exits are `LoseInst`.  What these leave is kept: `active` stays TRUE until
the next load, and `refs` is one more for good, as `lost` counts.

External, and assumed: the composite framework first disconnects the
controller, waits for interrupt handlers, and then calls `fsg_unbind` and
`msg_unbind`; a host whose SET_CONFIGURATION is not answered yet waits or resets
the bus.  It may give up on a bulk reset and go on.  Left out: SET_INTERFACE, of
which there is no other alternate setting, and allocations that fail before
`fsg_alloc_inst` has changed anything.

### GadgetController

A handler's `pc` names the sysfs write or file operation it is about to do:
`prepare` and `copy` (backing file), `unlink` and `relink` (the symlink),
`detach`, `setRo`, `attach` (the three writes of `configure_lun`), `commit`
(`_current`), `persist` (`config.json`), and `sleep`, the 150 ms between the
halves of a swap.  `LoopFree` says that no handler is between two awaits: only
then may another begin or wake up.  Sleepers wake in the order of their
deadlines.  The steps of a handler are still separate, because the host, a kill
and a power failure come between them.

### AudioLoop

The kthread's `record` in three steps (count, notify, account), the loop in one
step per sysfs access.  The detector looks only at differences of counters, so
the model keeps what the detector has not seen of them.  `now_us` is left out: a
tick that depends on it may go either way.  Tones take the two ends of their
frequency band, where the duty cycle is largest and the period smallest.

### ConfigStore

A file is the sequence of payloads that show in it: empty, one, or a payload
with the end of a longer one behind it.  `outcomes` holds, per inode, every
content that a power failure may leave of it: each write adds one, `fsync`
removes all but the last.  `durable` is the inode that `config.json` leads to
if the power fails before the directory is written.  Overlapping saves are
allowed or not by the constant `Overlaps`.

## 3. What the runs check

| Run | Question | Result |
|---|---|---|
| `lun_safety` | do stores, commands and exceptions keep the medium consistent, and implement `FloppyDrive`? | holds |
| `lun_progress` | does every store and command complete, and does a polling host learn of a swap? | holds |
| `lun_reset` | and if the host goes on after its own bulk reset? | violated, section 6 |
| `datapath` | every direction and length through a ring of two buffers, with file errors, a host that stops early, resets at any moment | holds |
| `datapath_empty` | and if the CDB asks for nothing where the CBW expects data? | violated, section 6 |
| `function_life` | load, failed load, unload, configuration, disconnects and bulk resets at every step of each other, with a kill: nothing used too late, nothing left but what `NothingLeft` names, no exception lost, every request answered | holds |
| `gadget_requests` | three overlapping requests, host ejects, refused opens | holds |
| `gadget_boot` | sessions, padding, door locks; kills and power failures at every step; is the last mount restored? | holds |
| `gadget_shared` | two sessions at once | violated, section 6 |
| `buzzer` | lost wakeups, stuck tones, duty and period, mute | holds |
| `config_crash` | crash consistency of `save_config`, one save at a time | holds |
| `config_overlap` | two saves at once | violated, section 6 |

The properties are stated, with the code each is about, at the end of the
modules.  In short:

* `MediumHeldDuringCommand`, `ServedKnownMedium`, `DoorHoldsForLaterStores`,
  `ReadOnlyAsOpened`, `ImplementsDrive`; `StoreCompletes`, `CommandCompletes`,
  `HostLearnsOfChange`.
* `InStep`, `TransferredAsTold`, `WrittenInPlace`, `DrainsReceived`;
  `CommandAnswered`, `ResetAnswered`.
* `NoUseAfterFree`, `RequestsOutlived`, `InterfaceFollowsHost`, `NothingLeft`;
  `AnswersItsRequest`, an action property on the two steps that answer the host;
  `ModuleReturns`, `ConfigAnswered`.
* `DriveIsAsShown`, `LinkFollowsDrive`, `RecordsAgree`; `RestoredOnBoot`, an
  action property on the step that ends the startup.
* `NoLostWakeup`, `NoStuckTone`, `DutyFitsPeriod`; `ToneEnds`, `MuteHolds`.
* `NeverPartial`, `SavedIsCurrent`.

Each was seen to fail under a plausible mistake in the code it is about
(`mutants` in `PROJECT.json`): a lock taken for reading instead of writing, a
unit attention that is not left, a symlink not remade after the sleep, an
`fsync` that is missing, an event drained after the read, an exception that only
replaces a lower one, an unbind that does not wait for the interface.

## 4. Bounds, and why they are enough

* `lun_safety`: one writable and one read-only medium, so that a swap can change
  the status; two userspace threads, enough for one to overtake the other
  between door check and `filesem`, while the kthread is the third party; five
  of the ten commands, those whose effects differ (`START`, `STOP`, `INQUIRY`,
  `ALLOW` and `TEST_UNIT_READY` run in the other two configurations, with one
  thread and all the exceptions).  Threads are symmetric; media are not.  The
  proofs cover every other size.
* `lun_progress`: one thread and two media; liveness is checked without symmetry.
* `datapath`: two buffers, the kernel's default; two blocks to a buffer and two
  units to a block, so that a file access can fail on, and within, a block
  boundary; transfers of up to three buffers, so that the ring goes round; lengths
  in the CBW of nothing, of all, and of an odd number between two of the CDB's;
  one length in the CDB that wraps to another one (`U32`).
  A command may begin at the start, where its second buffer runs past the end,
  where its first does, and at the end.  Sizes of READ, WRITE and VERIFY are in
  whole blocks, as in the code.
  Faults are not bounded, nor is the number of commands.
* `function_life`: two users, one of each route (`LunUsers`), so that one store can
  begin while another is waited for; all eleven steps of loading that can fail may
  fail, and `usb_ep_enable` and the allocation of requests too; `fsg_alloc_inst`
  fails halfway at most `MaxLost` = 1 time, because each failure adds to
  `floppy_throttle_refcnt`: once is enough to see what the loads after it find.
  The theorems hold for any `MaxLost`.  Any number of loads, configurations,
  disconnects, bulk resets and GET_MAX_LUN requests.  The kthread is killed at
  most once per load: it ends at the first.  A load waits until a killed thread
  of the previous one has ended (`Load`).
* `gadget_requests`: three requests, so that two can sleep in a swap while the
  third mounts, ejects or changes the read-only flag; two images.  Padding is
  left to `gadget_boot`, where one image is undersize.
* `gadget_boot`: two requests, because a crash needs one in progress and one in
  its sleep.  The number of crashes is not bounded.
* `buzzer`: `MaxUnheard` = 1 block and crossing that the detector has not seen,
  since only zero and more than zero make a difference to it; bursts of one
  click and spins of two, so that a command with several pulses occurs;
  `MaxFaults` = 2 failing accesses or kills: the write that ends a tone and the one
  that makes up for it, which `ToneEnds` is about.  `NoLostWakeup` speaks of
  behaviours without a fault and `NoStuckTone` of those with one, as their
  antecedents say.  The volume is the maximum, where the duty cycle is largest.
  With `MaxUnheard` = 1 TLC sees no seek that comes between the read of the
  crossings and the tick; `WakeupKept`, which is proved for every `MaxUnheard`,
  covers it (`EventInv`, and `WakeupInv` at `tick`).
* `config_crash`: three inodes are all that the saves of one writer at a time
  can use; `config_overlap` has a fourth.  Histories of saves, failures and
  crashes are not bounded.

No run needs a bound on the depth.  Deadlock is checked in all of them.

## 5. Fairness

* `FloppyLun`: the kthread and a store that has begun run until they return
  (`SF` on `KthreadStep` and on `FinishStore(u)`).  Strong, because `filesem`
  may be free only now and then; that this is enough rests on the hand-over of
  the kernel's rw-semaphore, which is an action of its own with `SF`: a waiter
  that has waited long enough is given the lock and cannot be overtaken.
  Without it a host that never stops starves the stores.  The host and
  userspace need never begin anything, except in `PollingSpec`, where the host
  keeps sending TEST UNIT READY, as hosts do to removable drives.
* `DataPath`: `WF` on the kthread (woken by the completion routines and by the
  signal of an exception), on completions, and on a host going on with the data
  or status phase it is in.  It need not begin a command or reset.
* `FsgLifecycle`: `WF` on the module thread, on the kthread and on interrupt
  handlers and stores that have begun, and on the completion of requests that
  have been dequeued.  A request that nobody dequeues need never complete, and
  nothing obliges the host or whoever loads the module.
* `AudioLoop`: `WF` on the loop's steps (it never blocks for more than a second
  in `poll`) and on a web thread's silence; `WF` on the restart after a kill
  (`Restart=on-failure` in the unit file).  Nothing obliges the kthread or the
  clients.
* The other specifications have no fairness: their properties are about safety.

## 6. Findings

Four runs show the code doing what a comment or a test of it says it does
not.

1. **A bulk reset forgets a swap** (`lun_reset`, `kernel/f_floppy.c:2611`).
   `handle_exception` clears `unit_attention_data` for every exception but
   `ABORT_BULK_OUT`, and only a configuration change sets `RESET_OCCURRED`
   again.  A swap between the host's last command and its bulk reset leaves no
   trace: the host reads on with what it has cached of the old medium.
   `controller.py:119` relies on the notice.
2. **Sessions share a file** (`gadget_shared`, `pkg/gadget/controller.py:104`).
   A session mount that sleeps in its swap finds `session.img` replaced by the
   next session when it wakes up; the drive then holds one image and the API
   shows another.
3. **Overlapping saves share a tmp file** (`config_overlap`,
   `pkg/core/config.py:56`).  `config.json` can be empty or hold the end of an
   older payload, against `tests/unit/test_config.py:57`.

4. **A READ of nothing** (`datapath_empty`, `kernel/f_floppy.c:746`).  A CDB
   that asks for 0 blocks in a CBW that expects data leaves `do_read` before a
   reply is set up; the comment at `f_floppy.c:2287` says that it is already
   set.  `finish_reply` sends the buffer with the length of an earlier
   transfer, and the residue does not count it.  With `EmptyCommands` TRUE
   `TransferredAsTold` fails too.

Also met while modelling, and within what the models allow, but not stated as
properties:

* A host that stops early, when the write of what it did send also fails, gets
  no CSW until it resets: `do_write` leaves at the error and does not see the
  short packet, and `throw_away_data` asks for the rest.  `CommandAnswered`
  excepts this case.
* A clean shutdown deletes `session.img` while `current.img` points to it
  (`controller.py:81`); `deploy/modprobe/usb-floppy-pi.conf:3` says that the
  link always resolves.  `RestoredOnBoot` holds because the service mounts
  the last image again.
* `sysfs_backend.py:102` says "replace the symlink atomically" of an unlink
  followed by a symlink.
* An eject during the sleep of a swap succeeds and is undone when it wakes up.
* When the second half of a swap fails, `controller.current` keeps naming the
  image that the first half has ejected (`controller.py:125`): the drive is
  empty, and the API shows a mount.  The properties of `GadgetController`
  speak of a drive that holds a medium for this reason.  A swap that the kernel
  refuses because the host has locked the door leaves `current.img` ahead of the
  drive (`sysfs_backend.py:107`) until the next request or start; `LinkFollowsDrive`
  is checked for a host that does not lock, `RestoredOnBoot` for one that does.
* `library.sets` keeps the old read-only flag after `post_readonly` until the
  rescan (`api.py:224`).
* `do_start_stop` closes whatever is in the drive when it gets the write lock,
  which may be a medium inserted after the host decided to eject.
* The audio loop's fallback announces polling every 20 ms (`loop.py:69`) and
  sleeps a second (`loop.py:117`).
* A torn read of the I/O counters makes the detector hear a motor spin before
  the seek that caused it.
* A pulse whose checks came before a mute sounds after it, for its duration.
* `fsg_unbind` does not wait for a kthread that has taken SET_CONFIGURATION off
  `common->state` and not yet set `common->fsg` (`f_floppy.c:3294`): the kthread
  goes on with a function that is freed.  `NoUseAfterFree` excepts it (`raced`).
* A killed kthread sets `TERMINATED` before it closes the LUN and ends;
  `fsg_common_release` takes that for "already dead" (`f_floppy.c:3161`) and
  frees what the thread still uses (`EndUnawaited`).
* `ep0_req_tag` counts only what reaches `fsg_setup`, not standard requests or
  disconnects, and nothing holds it between the check (`f_floppy.c:2639`) and
  `ep0_queue`: a stale status may then answer another request.  In the same way
  `usb_composite_setup_continue` may answer a newer SET_CONFIGURATION, whose
  exception is still pending (`overtaken`).
* A bulk reset that comes while CONFIG_CHANGE is pending is dropped: the host,
  which had no configuration then, has to reset the bus.  SET_CONFIGURATION is
  answered with success even when `do_set_interface` failed.
* `fsg_common_release` closes the file of the LUN before it unregisters the
  LUN's device (`f_floppy.c:3171`), `fsg_common_remove_lun` does it the other way
  round: a store through an attribute of that device may open a file that is
  never closed.  `error_lun` of `fsg_common_create_lun` (3104) does not close the
  LUN at all, whose device it has registered before it opened the file.
  `NothingLeft` excepts both (`reopened`).
* A failure late in `fsg_alloc_inst` (`f_floppy.c:3712`) leaves
  `floppy_active_common` pointing to what it frees, and the throttle's reference
  counted, so that the last `fsg_free_inst` does not tear the throttle down any more.
  `NothingLeft` excepts the pointer until the next load (`aborted`), and says
  that the references left over are those (`refs = lost`).
* The parameter `speed_preset` is applied after the sysfs class is there
  (`g_floppy_main.c`): it may undo a store that came earlier.
* The size of a READ or WRITE (12 or 16) of 2^23 blocks or more wraps
  (`f_floppy.c:1969`): the command moves what remains and reports success.
  `TransferredAsTold` excepts only that it moved all; the residue is still right.
* A WRITE whose last buffer runs past the end of the medium is cut short by the
  file (`f_floppy.c:998`): what fits is written, there is no error, and the
  command is answered with success and a residue, where one that starts a buffer
  at the end fails with `SS_LOGICAL_BLOCK_ADDRESS_OUT_OF_RANGE`
  (`f_floppy.c:931`).  `TransferredAsTold` asks for a whole transfer up to the end
  of the medium for this reason.
* The watcher may normalize an upload before it is complete
  (`pkg/web/api.py:303`): the part that was there stays as an image, and the
  upload is reported as ignored.

## 7. Proofs

All theorems are checked by TLAPS down to the leaves, for every value of the
constants that the modules' assumptions allow.

`FloppyLunProofs`:

* `TypeCorrect`, `MediumHeld`, `DoorHolds`, `ReadOnlyStays`.  The inductive
  invariant is `TypeOK`, `LockInv` (who is in `semReaders` and `semWriter` is
  exactly where its program counter says) and `MediumInv`.  None of the three
  properties is inductive alone: that the medium stays during `execute` needs
  that the kthread then holds the lock for reading, and that stores close files
  only with it for writing.
* `ServedKnown` and `Implements`, for a host that revalidates after its own bulk
  resets (`HostForgetsOnReset`).  `CommandInv` describes the command in
  progress; `TellInv` is the heart of it: whenever the medium is not the one
  the host has cached, the notice of that is somewhere on its way: in a store
  about to leave it, in the unit attention, in the sense data of a command
  that fails, or in the answer to REQUEST SENSE.  Every step that consumes it
  in one place is shown to put it in the next.  `Implements` maps each step
  to a step of `FloppyDrive` or to a stutter.

`ConfigStoreProofs`, for saves that do not overlap:

* `NeverPartialHolds` and `SavedIsCurrentHolds`.  `SaveInv` adds to the types
  that one save at a time is in progress and writes the current config
  (`AloneInv`), what the tmp file holds at each of its steps, with what a power
  failure may leave of it once it is synced (`TmpInv`), and that both inodes
  that `config.json` may turn out to be are whole in every outcome (`FileInv`).

`FsgLifecycleProofs`, for any number of threads of userspace on either route, any
set of steps that may fail and any number of instances lost halfway:

* `TypeCorrect`, `NothingUsedTooLate`, `RequestsAreOutlived`, `FollowsHost`,
  `NothingRemains`, `AnswersOnlyItsRequest`: every safety property of the module.
  They share one inductive invariant, `LifeInv`, with a lemma for each part.
  `CountInv` counts the references to the throttle, the lost ones included;
  `LunInv` says while which steps the LUN's device can be opened and its stores may
  run, and since when a file that they open is not closed any more.
  `ObjectInv` and `ThreadInv` tie what is allocated, and whether the kthread
  still runs, to the step the module thread is at; `InterfaceInv` says what each
  step of `do_set_interface` has done, also when `fsg_disable` has undone it;
  `HostInv` and `ClassInv` that after `fsg_unbind` and `device_destroy` no one
  comes in any more; `FollowInv` that the wish of the host is always somewhere:
  in the pending exception, in `new_fsg`, in `common->fsg`, or about to be raised
  by an interrupt; `AnswerInv` the same of the request to be answered.  TLC has
  checked `LifeInv` on the instance of `function_life`.

`GadgetControllerProofs`, for any number of images and of requests in flight:

* `TypeCorrect`, for every host and every fault.  `ControlInv` adds to the types
  what each step relies on: the job of a handler that mounts (`JobInv`), that
  one handler runs at a time and the startup alone (`LoopInv`), that no handler is
  in the queue of sleepers twice (`SleepInv`), and that the startup has nothing to
  eject (`BootInv`).
* `DriveShown`, if no copy is made (`InPlace`: no sessions, no undersize image; the
  run `gadget_shared` shows what happens otherwise), for every host and every
  fault.  `DriveInv` says how far the drive is ahead of `controller.current` from
  the `lun0_ro` store to the commit, and that a handler that fails in between
  leaves an empty drive.
* `LinkFollows` and `RecordsAgreeAtRest`, if besides that the host locks no door: a
  refused detach leaves the symlink changed and the old medium in the drive.  The
  symlink runs ahead of the drive (`LinkInv`), `config.json` lags behind
  (`SavedInv`), and the two meet when the handler ends.
* `Restored`, with sessions, undersize images, a locked door, kills and power
  failures, if the host ejects nothing while the service starts and the kernel
  refuses no open.  `RestoreInv` says which file the startup is to attach, and that
  the copy in the session directory that may back it is still there.

`AudioLoopProofs`, for any disk, any volumes a client may set, any burst and spin,
and any number of failed accesses and kills:

* `TypeCorrect`.  The detector only subtracts from the tracker's counters what it
  has read of them (`EventInv`): between the read and the tick they only grow.
* `WakeupKept`.  `WakeupInv` carries `NoLostWakeup` back to the drain of the
  descriptor: from the read of the counter on, a seek that it missed has been
  announced, or the kthread is about to.
* `ToneNotStuck`.  `ToneInv` says where a tone may sound: before the write of the
  silence that follows it, and after one fault until the except clause, the
  first tick of the new process or its shutdown makes up for it.
* `DutyFitsAlways`.  Of all tones of `renderer.py` at volumes up to 100 the longest
  duty cycle is 433 us and the shortest period 526 us (`DutyInv`); the lemmas
  `SeekFits`, `TickFits` and `SpinFits` compute them for the ends of each band.

`DataPathInvariant` and `DataPathProofs`, for any number and size of buffers, any
block size, any medium, and any command, host and fault of the specification:

* `DataInvariant`: the inductive invariant `DataInv`.  The properties share it,
  because none of them can be had alone: that the residue is right rests on the
  order of the data, that rests on the order of the requests in the
  controller's queues, and that on who may touch a buffer.  Its parts:
  * `TypeInv` and `QueueInv`: a buffer is busy exactly while it is in one of the
    queues, and it is in one of them once.
  * `ControlInv` and `HostInv`: where the kthread may be while the host sends,
    takes, waits for a status or resets, and what the command says of it.
  * `RestInv` and `FreshInv`: between two commands the only buffers in use are
    those the host has not taken yet and the one for the CBW, and a command
    begins with nothing moved.
  * `FileInv`: a unit in the file stands where its number says, and was sent.
  * `OutInv`, the ring on the way out: there are `k` buffers between `drain` and
    `fill`, and offsets `f[0] <= ... <= f[k]` such that the `i`-th holds the units
    from `f[i]` on.  The first of them are filled, the others are queued in order,
    and `f` joins what was written (`f[0]`) to what the host sends next.
  * `ReplyInv`, the queue on the way in: the queued buffers hold units from `g[i]`
    to `g[i + 1]`, and `g` joins what the host has received to the residue.
  * `StatusInv`: the CSW comes behind all data, carries the tag of the command, and
    its residue and status tell what became of it (`Outcome`).
  * `AmountInv`: how `left`, `usb_amount_left` and `residue` add up at every step of
    `do_read`, `do_write`, `do_verify` and `throw_away_data`.
* `TypeCorrect`, `DrainsOnlyReceived` and `WritesInPlace`, without exception.
* `HostInStep`, `ToldAsTransferred` and `ReplyAlreadySet`, for a host none of whose
  commands asks for nothing where its CBW expects data (`~EmptyCommands`).
  Without the condition none of the three holds: `datapath_empty` shows it of
  `AlreadySet`; with `EmptyCommands` TRUE in the configuration of `datapath`
  TLC finds `TransferredAsTold` violated, and with 1 among `HostLens` also
  `InStep`, because the stale reply is longer than what the host expects.

`DataInv` quantifies over functions into the naturals and cannot be a property of a
run; its parts were evaluated by TLC over the states of small instances, with the
naturals cut to the sizes that occur there, before they were proved.

Only model-checked: liveness (`StoreCompletes`, `CommandCompletes`,
`HostLearnsOfChange`, `CommandAnswered`, `ResetAnswered`, `ModuleReturns`,
`ConfigAnswered`, `ToneEnds`, `MuteHolds`), which rests on fairness and is out of
reach of the prover.  Every safety property of a passing run is a theorem.

## 8. Not modelled, and why

The configfs of the function and the configfs backend are not used by this
version.  The web client is any sequence of requests.  Throttling only delays.
Logging, argument parsing, GPIO and package installation have no state that
matters.  The library's scanner, watcher and uploads, and the bit-fields of
`struct fsg_lun`, are not modelled yet.  `PROJECT.json` lists every part with
what is left out of it, and every hazard that no property covers.

## 9. Plan

In the order of importance:

1. An abstract specification of a transfer (a prefix of what was asked, in order,
   and a residue that says how much is missing) that `DataPath` implements; a
   controller that refuses requests.
2. `Library`: scan, watcher thread, debounced rescan, uploads, normalization,
   deletion of mounted files.  Liveness: the sets end up as the directory is.
3. `LunFlags`: the bit-fields of `struct fsg_lun` as one word, with the load
   and store of each writer.
