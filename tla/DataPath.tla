------------------------------- MODULE DataPath -------------------------------
(***************************************************************************)
(* The bulk-only transport of f_floppy.c: the ring of buffers that the     *)
(* kthread and the completion routines of the USB device controller share, *)
(* and what the kthread does with it from a CBW to the CSW: do_read,       *)
(* do_write, do_verify, finish_reply, throw_away_data, send_status, and    *)
(* handle_exception when the host gives up.                                *)
(*                                                                         *)
(* A unit of data stands for part of a block.  Units read from the file    *)
(* are their positions in it; units that the host sends are counted from   *)
(* the first, and the file remembers which of them it holds.  The module   *)
(* is loaded with stall=0.  The controller calls the completion routines   *)
(* in the order in which the transfers ended, and a transfer fails only    *)
(* when it is cancelled.                                                   *)
(***************************************************************************)
EXTENDS Integers, Sequences

CONSTANTS
    NumBuffers,     \* fsg_num_buffers
    BufLen,         \* FSG_BUFLEN
    BlockLen,       \* the block size, and the maxpacket size
    FileLen,        \* file_length
    Starts,         \* the blocks' offsets that commands start at
    CdbLens,        \* what the CDB says
    U32,            \* how many units a u32 counts
    ReplyLen,       \* what do_inquiry and its like return
    HostLens,       \* DataTransferLength: what the CBW says
    EmptyCommands,  \* may the CDB ask for nothing when the CBW does not?
    Faults          \* "io": the file fails; "stop": the host stops early;
                    \* "reset": the host resets the device

Buffers == 0 .. NumBuffers - 1
NextOf(b) == (b + 1) % NumBuffers

ASSUME DataPathAssumption ==
    /\ NumBuffers \in Nat \ {0, 1}
    /\ BlockLen \in Nat \ {0}
    /\ BufLen \in Nat \ {0} /\ BufLen % BlockLen = 0
    /\ FileLen \in Nat /\ FileLen % BlockLen = 0
    /\ Starts \subseteq Nat /\ \A s \in Starts : s % BlockLen = 0
    /\ U32 \in Nat \ {0} /\ FileLen < U32
    /\ CdbLens \subseteq Nat /\ HostLens \subseteq 0 .. U32 - 1
    /\ ReplyLen \in 0 .. BufLen
    /\ EmptyCommands \in BOOLEAN
    /\ Faults \subseteq {"io", "stop", "reset"}

VARIABLES
    bh,             \* the buffers
    fill, drain,    \* next_buffhd_to_fill, next_buffhd_to_drain
    inQ, outQ,      \* the requests queued on bulk-in and bulk-out
    ended,          \* those that have ended, and are to be completed
    kpc,            \* where the kthread is
    common,         \* its struct fsg_common
    left, to_req,   \* amount_left(_to_write), amount_left_to_req
    more,           \* get_some_more
    cancelled,      \* the buffer handle_exception has come to
    state,          \* common->state
    file,           \* what the command has written to the backing file
    hpc,            \* the host
    cmd,            \* its command
    sent, received, stopped     \* how far it has come with the data

ringVars == <<bh, fill, drain>>
udcVars  == <<inQ, outQ, ended>>
ioVars   == <<left, to_req, more>>
hostVars == <<hpc, cmd, sent, received, stopped>>
vars == <<ringVars, udcVars, kpc, common, ioVars, cancelled, state,
          file, hostVars>>

-----------------------------------------------------------------------------
AtMost(n, m) == IF n < m THEN n ELSE m
WholeBlocks(n) == n - (n % BlockLen)

\* n units from the one at from.
Units(from, n) == [i \in 1 .. n |-> from + i - 1]

Old == -1   \* what the file held before, and what no one asked for

Free == [state |-> "EMPTY", kind |-> "none", data |-> <<>>, zero |-> FALSE,
         intended |-> 0]

Busy(b) == bh[b].state \in {"SENDING", "RECEIVING"}

Filled(data) == [Free EXCEPT !.state = "FULL", !.kind = "data", !.data = data]

Idle == [size |-> 0, residue |-> 0, usb_amount_left |-> 0,
         phase_error |-> FALSE, short |-> FALSE, sense |-> FALSE, tag |-> FALSE]

NoCommand == [op |-> "TEST_UNIT_READY", dir |-> "none", start |-> 0, size |-> 0,
              len |-> 0, tag |-> FALSE]

\* INQUIRY and TEST_UNIT_READY stand for all that only reply or do nothing.
Direction == [READ |-> "in", WRITE |-> "out", INQUIRY |-> "in",
              MODE_SELECT |-> "out", TEST_UNIT_READY |-> "none",
              VERIFY |-> "none"]

\* data_size_from_cmnd, which wraps when it is shifted left.  The length of a
\* VERIFY is no length of data.
CdbSize(c) == IF Direction[c.op] = "none" THEN 0 ELSE c.size % U32

\* The commands the host sends: direction and length are its own idea.
HostCommands ==
    {c \in [op : DOMAIN Direction, dir : {"in", "out"}, start : Starts,
            size : CdbLens, len : HostLens, tag : BOOLEAN] :
        /\ c.op = "TEST_UNIT_READY" => c.size = 0
        /\ c.op \notin {"READ", "WRITE"} => c.size < U32
        /\ c.op \in {"READ", "WRITE", "VERIFY"} => c.size % BlockLen = 0
        /\ c.op \notin {"READ", "WRITE", "VERIFY"} => c.start = 0
        /\ /\ c.op \in {"READ", "WRITE", "VERIFY"} /\ c.dir = "in"
           /\ c.size % U32 = 0 /\ c.len > 0
           => EmptyCommands}

Init ==
    /\ bh = [b \in Buffers |-> Free]
    /\ fill = 0 /\ drain = 0
    /\ inQ = <<>> /\ outQ = <<>> /\ ended = <<>>
    /\ kpc = "next" /\ common = Idle
    /\ left = 0 /\ to_req = 0 /\ more = FALSE
    /\ cancelled = 0 /\ state = "NORMAL"
    /\ file = [p \in 0 .. FileLen - 1 |-> Old]
    /\ hpc = "idle" /\ cmd = NoCommand
    /\ sent = 0 /\ received = <<>> /\ stopped = FALSE

-----------------------------------------------------------------------------
(* The ring.                                                               *)

\* start_in_transfer of the next buffer to fill.
StartIn(kind, data, zero) ==
    /\ bh' = [bh EXCEPT ![fill] = [Free EXCEPT !.state = "SENDING",
                  !.kind = kind, !.data = data, !.zero = zero]]
    /\ inQ' = Append(inQ, fill)
    /\ fill' = NextOf(fill)

\* start_out_transfer into it.
StartOut(kind, amount) ==
    /\ bh' = [bh EXCEPT ![fill] = [Free EXCEPT !.state = "RECEIVING",
                  !.kind = kind, !.intended = amount]]
    /\ outQ' = Append(outQ, fill)

\* The buffer drained is empty, and the next one is to be drained.
DrainBuffer ==
    /\ bh' = [bh EXCEPT ![drain] = Free]
    /\ drain' = NextOf(drain)

\* raise_exception leaves a more important exception alone.
RaiseAbort == state' = IF state = "NORMAL" THEN "ABORT_BULK_OUT" ELSE state

\* The kthread goes on, unless there is an exception when it looks.
Unless(to) == kpc' = IF state = "NORMAL" THEN to ELSE "cancel"

-----------------------------------------------------------------------------
(* A command, from CBW to CSW.                                             *)

\* get_next_command asks for a CBW ...
AskForCbw ==
    /\ kpc = "next" /\ kpc' = "cbw"
    /\ ~Busy(fill)
    /\ StartOut("cbw", 1)
    /\ common' = [Idle EXCEPT !.sense = common.sense]
    /\ left' = 0 /\ to_req' = 0 /\ more' = FALSE
    /\ UNCHANGED <<fill, drain, inQ, ended, cancelled, state, file, hostVars>>

\* ... and takes it.  The buffer can be reused at once.
ReceivedCbw ==
    /\ kpc = "cbw" /\ Unless("start")
    /\ ~Busy(fill)
    /\ bh' = [bh EXCEPT ![fill] = Free]
    /\ common' = [common EXCEPT !.tag = cmd.tag]
    /\ UNCHANGED <<fill, drain, udcVars, ioVars, cancelled, state, file,
                   hostVars>>

\* What the CBW says of the direction.
DataDir == IF cmd.len = 0 THEN "none" ELSE cmd.dir

\* check_command: the sizes, and whether host and CDB agree.
Size == AtMost(CdbSize(cmd), cmd.len)
Conflicting == Size > 0 /\ cmd.dir # Direction[cmd.op]

CheckedByCdb(sense) ==
    [common EXCEPT !.size = Size, !.residue = cmd.len, !.usb_amount_left = Size,
                   !.phase_error = cmd.len < CdbSize(cmd) \/ Conflicting,
                   !.sense = sense]

Checked(sense) ==
    [common EXCEPT !.size = Size, !.residue = cmd.len, !.usb_amount_left = cmd.len,
                   !.phase_error = cmd.len < CdbSize(cmd) \/ Conflicting,
                   !.sense = sense]

\* A command that has all its reply, of n units, in one buffer.
ReplyAtOnce(sense, n) ==
    /\ Unless("finish")
    /\ IF DataDir = "in"
       THEN /\ common' = [Checked(sense) EXCEPT !.residue = @ - n]
            /\ bh' = [bh EXCEPT ![fill] = Filled(Units(0, n))]
       ELSE common' = Checked(sense) /\ UNCHANGED bh
    /\ UNCHANGED ioVars

StartCommand ==
    /\ kpc = "start"
    /\ ~Busy(fill)
    /\ drain' = fill
    /\ \/ Conflicting /\ ReplyAtOnce(common.sense, 0)
       \/ ~Conflicting /\ ReplyAtOnce(TRUE, 0)         \* refused
       \/ /\ ~Conflicting /\ cmd.op \in {"INQUIRY", "TEST_UNIT_READY"}
          /\ ReplyAtOnce(FALSE, AtMost(ReplyLen, Size))
       \/ /\ ~Conflicting /\ cmd.op \in {"READ", "WRITE"}
          /\ cmd.start < FileLen
          /\ common' = Checked(FALSE)
          /\ left' = Size
          /\ to_req' = IF cmd.op = "WRITE" THEN Size ELSE 0
          /\ more' = (cmd.op = "WRITE" /\ Size > 0)
          /\ IF Size = 0 THEN Unless("finish")
             ELSE kpc' = IF cmd.op = "READ" THEN "read" ELSE "write"
          /\ UNCHANGED bh
       \/ /\ ~Conflicting /\ cmd.op = "VERIFY"
          /\ cmd.start < FileLen
          /\ common' = Checked(FALSE)
          /\ left' = cmd.size
          /\ IF cmd.size = 0 THEN Unless("finish") ELSE kpc' = "verify"
          /\ UNCHANGED <<bh, to_req, more>>
    /\ UNCHANGED <<fill, udcVars, cancelled, state, file, hostVars>>

FileOffsetAhead ==
    cmd.start + (common.size - IF cmd.op = "WRITE" THEN to_req ELSE left)

FileOffset == cmd.start + (common.size - left)
UsbOffset  == cmd.start + (common.size - to_req)

\* What kernel_read and kernel_write may do of n units.
Transferred(n) == IF "io" \in Faults THEN 0 .. n ELSE {n}

\* One round of do_read.  The last buffer is left to finish_reply.
ReadRound ==
    /\ kpc = "read"
    /\ ~Busy(fill)
    /\ LET amount == AtMost(AtMost(left, BufLen), FileLen - FileOffset) IN
       \E got \in Transferred(amount) :
         LET nread == IF got < amount THEN WholeBlocks(got) ELSE got
             data == Units(FileOffset, nread)
             failed == amount = 0 \/ nread < amount
         IN \/ /\ state # "NORMAL" /\ kpc' = "cancel"
               /\ UNCHANGED <<ringVars, inQ, common, left>>
            \/ /\ state = "NORMAL"
               /\ left' = left - nread
               /\ \/ /\ failed \/ nread = left
                     /\ kpc' = "finish"
                     /\ bh' = [bh EXCEPT ![fill] = Filled(data)]
                     /\ common' = [common EXCEPT !.residue = @ - nread,
                                                 !.sense = failed]
                     /\ UNCHANGED <<fill, inQ>>
                  \/ /\ ~failed /\ nread < left
                     /\ StartIn("data", data, FALSE)
                     /\ common' = [common EXCEPT !.residue = @ - nread]
                     /\ UNCHANGED kpc
               /\ UNCHANGED drain
    /\ UNCHANGED <<outQ, ended, to_req, more, cancelled, state, file,
                   hostVars>>

VerifyOffset == cmd.start + (cmd.size - left)

\* One round of do_verify, which reads into the buffer of its empty reply, and
\* goes on after a short read.
VerifyRound ==
    /\ kpc = "verify"
    /\ LET amount == AtMost(AtMost(left, BufLen), FileLen - VerifyOffset) IN
       \E got \in Transferred(amount) :
         LET nread == IF got < amount THEN WholeBlocks(got) ELSE got IN
         \/ /\ state # "NORMAL" /\ kpc' = "cancel"
            /\ UNCHANGED <<bh, common, left>>
         \/ /\ state = "NORMAL"
            /\ left' = left - nread
            /\ \/ nread > 0 /\ left' > 0 /\ UNCHANGED <<kpc, bh, common>>
               \/ /\ nread = 0 \/ left' = 0
                  /\ kpc' = "finish"
                  /\ common' = [common EXCEPT !.sense = nread = 0]
                  /\ bh' = IF DataDir = "in"
                           THEN [bh EXCEPT ![fill] = Filled(<<>>)] ELSE bh
    /\ UNCHANGED <<fill, drain, udcVars, to_req, more, cancelled, state, file,
                   hostVars>>

\* do_write asks for more while there is a buffer ...
MayRequest == bh[fill].state = "EMPTY" /\ more

WriteRequest ==
    /\ kpc = "write"
    /\ MayRequest
    /\ \/ /\ UsbOffset >= FileLen
          /\ more' = FALSE
          /\ common' = [common EXCEPT !.sense = TRUE]
          /\ UNCHANGED <<bh, fill, outQ, to_req>>
       \/ /\ UsbOffset < FileLen
          /\ LET amount == AtMost(to_req, BufLen) IN
               /\ StartOut("data", amount)
               /\ fill' = NextOf(fill)
               /\ common' = [common EXCEPT !.usb_amount_left = @ - amount]
               /\ to_req' = to_req - amount
               /\ more' = (to_req' > 0)
    /\ UNCHANGED <<kpc, drain, inQ, ended, left, cancelled, state, file,
                   hostVars>>

WriteWaitsAlways ==
    /\ kpc = "write" /\ kpc' = "drain"
    /\ ~MayRequest
    /\ UNCHANGED <<ringVars, udcVars, common, ioVars, cancelled, state, file,
                   hostVars>>

\* ... and otherwise waits for the oldest request, if there is one ...
WriteWaits ==
    /\ kpc = "write" /\ kpc' = "drain"
    /\ ~MayRequest
    /\ bh[drain].state = "EMPTY" => more
    /\ UNCHANGED <<ringVars, udcVars, common, ioVars, cancelled, state, file,
                   hostVars>>

WriteStopsEarly ==
    /\ kpc = "write" /\ Unless("finish")
    /\ ~MayRequest
    /\ bh[drain].state = "EMPTY" /\ ~more
    /\ UNCHANGED <<ringVars, udcVars, common, ioVars, cancelled, state, file,
                   hostVars>>

\* The units a buffer brought, at their place in the file.
Written(from, data, n) ==
    [p \in DOMAIN file |-> IF p \in from .. from + n - 1
                           THEN data[p - from + 1] ELSE file[p]]

IsShortIfEmpty(buffer) == Len(buffer.data) = 0 /\ buffer.intended > 0

\* The host has sent less than was requested.
IsShort(buffer) == Len(buffer.data) < buffer.intended

\* ... which it then writes.
WriteRound ==
    /\ kpc = "drain"
    /\ ~Busy(drain)
    /\ LET buffer == bh[drain]
           short == IsShort(buffer)
           amount == WholeBlocks(AtMost(Len(buffer.data), FileLen - FileOffset))
       IN \E put \in Transferred(amount) :
            LET nwritten == IF put < amount THEN WholeBlocks(put) ELSE put
                failed == nwritten < amount
            IN /\ file' = Written(FileOffset, buffer.data, put)
               /\ \/ /\ amount > 0 /\ state # "NORMAL" /\ kpc' = "cancel"
                     /\ UNCHANGED <<common, left>>
                  \/ /\ amount = 0 \/ state = "NORMAL"
                     /\ left' = left - nwritten
                     /\ common' = [common EXCEPT !.residue = @ - nwritten,
                                    !.sense = @ \/ failed,
                                    !.short = ~failed /\ short]
                     /\ IF failed \/ short \/ left' = 0
                        THEN Unless("finish") ELSE kpc' = "write"
    /\ DrainBuffer
    /\ UNCHANGED <<fill, udcVars, to_req, more, cancelled, state, hostVars>>

\* finish_reply.  Without a reply the buffer's length is left over from
\* whatever it was last used for.
SendLastBuffer ==
    \E last \in IF bh[fill].state = "FULL" THEN {bh[fill].data}
               ELSE {Units(FileLen, n) : n \in 0 .. BufLen} :
        StartIn("data", last, common.residue > 0)

FinishReply ==
    /\ kpc = "finish"
    /\ \/ /\ DataDir = "none" \/ (DataDir = "out" /\ common.residue = 0)
          /\ Unless("status")
          /\ UNCHANGED <<ringVars, inQ, state>>
       \/ /\ DataDir = "in"
          /\ SendLastBuffer
          /\ Unless("status")
          /\ UNCHANGED <<drain, state>>
       \/ /\ DataDir = "out" /\ common.residue > 0 /\ common.short
          /\ RaiseAbort /\ kpc' = "cancel"
          /\ UNCHANGED <<ringVars, inQ>>
       \/ /\ DataDir = "out" /\ common.residue > 0 /\ ~common.short
          /\ kpc' = "throw"
          /\ UNCHANGED <<ringVars, inQ, state>>
    /\ UNCHANGED <<outQ, ended, common, ioVars, cancelled, file, hostVars>>

\* throw_away_data: what the host still has to send goes nowhere.
MustRequest == bh[fill].state = "EMPTY" /\ common.usb_amount_left > 0

ThrowAwayRequest ==
    /\ kpc = "throw"
    /\ MustRequest
    /\ LET amount == AtMost(common.usb_amount_left, BufLen) IN
         /\ StartOut("data", amount)
         /\ fill' = NextOf(fill)
         /\ common' = [common EXCEPT !.usb_amount_left = @ - amount]
    /\ UNCHANGED <<kpc, drain, inQ, ended, ioVars, cancelled, state, file,
                   hostVars>>

ThrowAwayWaits ==
    /\ kpc = "throw" /\ kpc' = "toss"
    /\ ~MustRequest
    /\ bh[drain].state # "EMPTY" \/ common.usb_amount_left > 0
    /\ UNCHANGED <<ringVars, udcVars, common, ioVars, cancelled, state, file,
                   hostVars>>

ThrowAway ==
    /\ kpc = "toss"
    /\ ~Busy(drain)
    /\ IF IsShort(bh[drain])
       THEN RaiseAbort /\ kpc' = "cancel" ELSE kpc' = "throw" /\ UNCHANGED state
    /\ DrainBuffer
    /\ UNCHANGED <<fill, udcVars, common, ioVars, cancelled, file, hostVars>>

AllThrownAway ==
    /\ kpc = "throw" /\ Unless("status")
    /\ bh[drain].state = "EMPTY" /\ common.usb_amount_left = 0
    /\ UNCHANGED <<ringVars, udcVars, common, ioVars, cancelled, state, file, hostVars>>

CswOfRequest == [tag |-> common.tag, residue |-> left,
                 status |-> IF common.phase_error THEN "PHASE"
                            ELSE IF common.sense THEN "FAIL" ELSE "OK"]

Csw == [tag |-> common.tag, residue |-> common.residue,
        status |-> IF common.phase_error THEN "PHASE"
                   ELSE IF common.sense THEN "FAIL" ELSE "OK"]

SendStatus ==
    /\ kpc = "status" /\ Unless("next")
    /\ ~Busy(fill)
    /\ StartIn("csw", <<Csw>>, FALSE)
    /\ UNCHANGED <<drain, outQ, ended, common, ioVars, cancelled, state, file,
                   hostVars>>

-----------------------------------------------------------------------------
(* Exceptions.                                                             *)

AsleepOnFill == kpc \in {"next", "cbw", "start", "read", "status"} /\ Busy(fill)
AsleepOnDrain == kpc \in {"drain", "toss"} /\ Busy(drain)

AsleepButThrowing == AsleepOnFill \/ (AsleepOnDrain /\ kpc # "toss")

\* The signal of raise_exception ends the kthread's sleep.
Asleep == AsleepOnFill \/ AsleepOnDrain

Interrupted ==
    /\ Asleep
    /\ state # "NORMAL" /\ kpc' = "cancel"
    /\ UNCHANGED <<ringVars, udcVars, common, ioVars, cancelled, state, file, hostVars>>

IsIn(b, q) == \E i \in 1 .. Len(q) : q[i] = b

\* A queue holds a buffer once.
Without(b, q) ==
    IF IsIn(b, q)
    THEN LET at == CHOOSE i \in 1 .. Len(q) : q[i] = b
         IN [i \in 1 .. Len(q) - 1 |-> IF i < at THEN q[i] ELSE q[i + 1]]
    ELSE q

CancelWithoutWait ==
    /\ kpc = "cancel" /\ cancelled < NumBuffers
    /\ \/ /\ Busy(cancelled) /\ ~IsIn(cancelled, ended)
          /\ inQ' = Without(cancelled, inQ) /\ outQ' = Without(cancelled, outQ)
          /\ ended' = Append(ended, cancelled)
       \/ ~(Busy(cancelled) /\ ~IsIn(cancelled, ended)) /\ UNCHANGED udcVars
    /\ cancelled' = cancelled + 1
    /\ UNCHANGED <<ringVars, kpc, common, ioVars, state, file, hostVars>>

\* handle_exception: one buffer after the other is dequeued and waited for.
\* One that has already ended only needs the wait.  A second signal starts
\* this over, which finds the first buffers idle.
CancelTransfer ==
    /\ kpc = "cancel" /\ cancelled < NumBuffers
    /\ \/ /\ Busy(cancelled) /\ ~IsIn(cancelled, ended)
          /\ inQ' = Without(cancelled, inQ) /\ outQ' = Without(cancelled, outQ)
          /\ ended' = Append(ended, cancelled)
          /\ UNCHANGED cancelled
       \/ /\ ~Busy(cancelled)
          /\ cancelled' = cancelled + 1
          /\ UNCHANGED udcVars
    /\ UNCHANGED <<ringVars, kpc, common, ioVars, state, file, hostVars>>

\* The host is done with a command, and with it the history of what it moved.
HostIsIdle ==
    /\ hpc' = "idle"
    /\ cmd' = [NoCommand EXCEPT !.tag = cmd.tag]
    /\ sent' = 0 /\ received' = <<>> /\ stopped' = FALSE
    /\ file' = [p \in DOMAIN file |-> Old]

\* Then the ring, and what the exception itself asks for.  The status stage
\* of a reset is what the host waits for.
ResetRing ==
    /\ kpc = "cancel" /\ cancelled = NumBuffers
    /\ bh' = [b \in Buffers |-> Free]
    /\ fill' = 0 /\ drain' = 0
    /\ cancelled' = 0 /\ state' = "NORMAL"
    /\ \/ /\ state = "ABORT_BULK_OUT" /\ kpc' = "status"
          /\ UNCHANGED <<common, file, hostVars>>
       \/ /\ state = "PROTOCOL_RESET" /\ kpc' = "next" /\ HostIsIdle
          /\ common' = [common EXCEPT !.sense = FALSE]
    /\ UNCHANGED <<udcVars, ioVars>>

-----------------------------------------------------------------------------
(* The controller and the host.                                            *)

\* bulk_in_complete or bulk_out_complete of the transfer that ended first.
Complete ==
    /\ ended # <<>>
    /\ ended' = Tail(ended)
    /\ LET b == Head(ended) IN
         bh' = [bh EXCEPT ![b] = IF @.state = "SENDING" THEN Free
                                 ELSE [@ EXCEPT !.state = "FULL"]]
    /\ UNCHANGED <<fill, drain, inQ, outQ, kpc, common, ioVars, cancelled, state, file, hostVars>>

Sending(q, kind) == q # <<>> /\ bh[Head(q)].kind = kind

\* The transfer at the head of an endpoint's queue has ended.
EndIn  == inQ' = Tail(inQ) /\ ended' = Append(ended, Head(inQ)) /\ UNCHANGED outQ
EndOut == outQ' = Tail(outQ) /\ ended' = Append(ended, Head(outQ)) /\ UNCHANGED inQ

HostCbw ==
    /\ hpc = "idle" /\ outQ # <<>>
    /\ EndOut
    /\ \E c \in HostCommands :
         /\ c.tag # cmd.tag
         /\ cmd' = c
         /\ hpc' = IF c.len = 0 THEN "status" ELSE c.dir
    /\ UNCHANGED <<ringVars, kpc, common, ioVars, cancelled, state, file,
                   sent, received, stopped>>

\* The host sends what it has, or a short packet and then no more.
HostSendUnits(n) ==
    /\ bh' = [bh EXCEPT ![Head(outQ)].data = Units(sent, n)]
    /\ sent' = sent + n
    /\ EndOut
    /\ UNCHANGED <<fill, drain, kpc, common, ioVars, cancelled, state, file,
                   cmd, received>>

HostSend ==
    /\ hpc = "out" /\ outQ # <<>>
    /\ HostSendUnits(AtMost(bh[Head(outQ)].intended, cmd.len - sent))
    /\ hpc' = IF sent' = cmd.len THEN "status" ELSE "out"
    /\ UNCHANGED stopped

HostStops ==
    /\ hpc = "out" /\ outQ # <<>> /\ "stop" \in Faults
    /\ \E n \in 0 .. AtMost(bh[Head(outQ)].intended, cmd.len - sent) - 1 :
         HostSendUnits(n)
    /\ hpc' = "status" /\ stopped' = TRUE

\* A short packet ends the data phase of a read.
HostReceive ==
    /\ hpc = "in" /\ inQ # <<>>
    /\ LET buffer == bh[Head(inQ)]
           n == Len(buffer.data)
       IN /\ received' = received \o buffer.data
          /\ hpc' = IF \/ buffer.zero \/ n = 0 \/ n % BlockLen > 0
                       \/ Len(received') >= cmd.len
                    THEN "status" ELSE "in"
    /\ EndIn
    /\ UNCHANGED <<ringVars, kpc, common, ioVars, cancelled, state, file,
                   cmd, sent, stopped>>

HostStatus ==
    /\ hpc = "status" /\ inQ # <<>>
    /\ EndIn
    /\ HostIsIdle
    /\ UNCHANGED <<ringVars, kpc, common, ioVars, cancelled, state>>

\* The bulk-only reset request, in fsg_setup: the host gives up, also on an
\* earlier reset.
HostReset ==
    /\ "reset" \in Faults
    /\ state' = "PROTOCOL_RESET" /\ hpc' = "reset"
    /\ UNCHANGED <<ringVars, udcVars, kpc, common, ioVars, cancelled, file,
                   cmd, sent, received, stopped>>

Kthread ==
    \/ AskForCbw \/ ReceivedCbw \/ StartCommand \/ ReadRound \/ VerifyRound
    \/ WriteRequest \/ WriteWaits \/ WriteStopsEarly \/ WriteRound
    \/ FinishReply
    \/ ThrowAwayRequest \/ ThrowAwayWaits \/ ThrowAway \/ AllThrownAway
    \/ SendStatus \/ Interrupted \/ CancelTransfer \/ ResetRing

Next ==
    \/ Kthread \/ Complete
    \/ HostCbw \/ HostSend \/ HostStops \/ HostReceive \/ HostStatus \/ HostReset

\* A woken kthread runs, the controller ends and completes its transfers,
\* and a host that has begun a command goes on with it or resets.
Spec == Init /\ [][Next]_vars /\ WF_vars(Kthread) /\ WF_vars(Complete)
             /\ WF_vars(HostSend) /\ WF_vars(HostReceive) /\ WF_vars(HostStatus)

-----------------------------------------------------------------------------
(* Properties.                                                             *)

\* Types, and: a buffer is busy exactly while it is in one of the queues of the
\* controller or waits for its completion routine, also when handle_exception
\* has just emptied the ring.
TypeOK ==
    /\ fill \in Buffers /\ drain \in Buffers
    /\ \A b \in Buffers :
         /\ bh[b].state \in {"EMPTY", "SENDING", "RECEIVING", "FULL"}
         /\ IsIn(b, inQ) => bh[b].state = "SENDING"
         /\ IsIn(b, outQ) => bh[b].state = "RECEIVING"
         /\ Busy(b) <=> IsIn(b, inQ \o outQ \o ended)
    /\ Len(inQ \o outQ \o ended) <= NumBuffers
    /\ left \in Nat /\ to_req \in Nat /\ common.residue \in Nat
    /\ common.usb_amount_left \in Nat
    /\ state \in {"NORMAL", "ABORT_BULK_OUT", "PROTOCOL_RESET"}
    /\ cancelled \in 0 .. NumBuffers

\* The CSW at the head of the bulk-in pipe.
CswAhead == bh[Head(inQ)].data[1]

\* Host and device agree where in a command they are: what waits at the end
\* of a pipe is what the host is about to take or to send, data never runs
\* over DataTransferLength, and a CSW is the one for this command
\* (do_scsi_command, finish_reply, send_status).
InStep ==
    /\ hpc = "out" => outQ = <<>> \/ Sending(outQ, "data")
    /\ hpc = "idle" => outQ = <<>> \/ Sending(outQ, "cbw")
    /\ hpc = "in" => inQ = <<>> \/ Sending(inQ, "data")
    /\ hpc = "status" /\ inQ # <<>> => 
         Sending(inQ, "csw") /\ CswAhead.tag = cmd.tag
    /\ Len(received) <= cmd.len /\ sent <= cmd.len

\* When the host takes the CSW, the residue in it is right: that much less
\* than DataTransferLength was read to the host, in order, or written to the
\* file, and a command that reports success moved, or verified, all it was
\* asked for, unless that was more than a u32 counts.  Only a write may say so
\* when its last buffer ran past the end of the medium: then it wrote up to it.
TransferredAsTold ==
    hpc = "status" /\ Sending(inQ, "csw") =>
        LET n == cmd.len - CswAhead.residue IN
        /\ n >= 0
        /\ cmd.dir = "in" =>
             received = Units(IF cmd.op = "READ" THEN cmd.start ELSE 0, n)
        /\ cmd.dir = "out" =>
             \A i \in 0 .. n - 1 : /\ cmd.start + i \in DOMAIN file
                                   /\ file[cmd.start + i] = i
        /\ CswAhead.status = "OK" /\ cmd.op \in {"READ", "WRITE"}
           /\ cmd.size < U32 /\ ~stopped =>
             n = AtMost(cmd.size, FileLen - cmd.start)
        /\ CswAhead.status = "OK" /\ cmd.op \in {"READ", "VERIFY"}
           /\ cmd.size < U32 =>
             cmd.start + cmd.size <= FileLen

\* A unit that is written goes to its own place, and is one the host has sent
\* for this command (do_write, with several buffers under way).
WrittenInPlace ==
    \A p \in DOMAIN file : file[p] # Old =>
        /\ cmd.op = "WRITE" /\ p = cmd.start + file[p]
        /\ file[p] < sent

\* The buffer that do_write or throw_away_data waits for, and then takes, is one
\* the host was asked to fill with data: not a CBW, and not one that is empty
\* or still sends a reply (sleep_thread returns for those too).
DrainsReceived ==
    kpc \in {"drain", "toss"} =>
        bh[drain].state \in {"RECEIVING", "FULL"} /\ bh[drain].kind = "data"

\* finish_reply finds the last buffer of a reply set up, as the comment that
\* ends do_scsi_command has it.
AlreadySet == kpc = "finish" /\ DataDir = "in" => bh[fill].state = "FULL"

\* A command that the host has begun is answered or reset, unless the host
\* stopped early and the write of what it did send failed: then
\* throw_away_data waits for the rest until there is a reset.
CommandAnswered ==
    hpc \in {"in", "out", "status"} ~>
        hpc \in {"idle", "reset"} \/ (stopped /\ common.sense)

\* A reset is answered, whatever was under way (handle_exception).
ResetAnswered == hpc = "reset" ~> hpc = "idle"
=============================================================================
