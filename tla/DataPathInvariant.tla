------------------------- MODULE DataPathInvariant -------------------------
(***************************************************************************)
(* The inductive invariant of DataPath, the lemmas about its operators and *)
(* its actions, and the proof that every step keeps the parts that do not  *)
(* speak of the order of the data: types, queues, control, the host, the   *)
(* file, the time between commands, and the amounts.  DataPathProofs goes  *)
(* on with the rest.                                                       *)
(***************************************************************************)
EXTENDS DataPath, TLAPS, SequenceTheorems, FiniteSetTheorems

-----------------------------------------------------------------------------
(* The inductive invariant.                                                *)

Told == [tag : BOOLEAN, residue : Nat, status : {"OK", "FAIL", "PHASE"}]

\* What a buffer may carry.
Contents == Seq(Int \union Told)

Buffer ==
    [state : {"EMPTY", "SENDING", "RECEIVING", "FULL"},
     kind : {"none", "cbw", "data", "csw"}, data : Contents, zero : BOOLEAN,
     intended : Nat]

Commons == [size : Nat, residue : Nat, usb_amount_left : Nat,
            phase_error : BOOLEAN, short : BOOLEAN, sense : BOOLEAN,
            tag : BOOLEAN]

States == {"NORMAL", "ABORT_BULK_OUT", "PROTOCOL_RESET"}

\* Where the kthread is with a command.
Working == {"read", "verify", "write", "drain", "finish", "throw", "toss",
            "status"}

TypeInv ==
    /\ bh \in [Buffers -> Buffer] /\ fill \in Buffers /\ drain \in Buffers
    /\ kpc \in Working \union {"next", "cbw", "start", "cancel"}
    /\ common \in Commons
    /\ left \in Nat /\ to_req \in Nat /\ more \in BOOLEAN
    /\ cancelled \in 0 .. NumBuffers /\ state \in States
    /\ file \in [0 .. FileLen - 1 -> Int]
    /\ hpc \in {"idle", "in", "out", "status", "reset"}
    /\ cmd \in [op : DOMAIN Direction, dir : {"none", "in", "out"}, start : Nat,
                size : Nat, len : Nat, tag : BOOLEAN]
    /\ sent \in Nat /\ received \in Contents /\ stopped \in BOOLEAN

\* A queue holds a buffer at most once.
Once(q) == \A i, j \in 1 .. Len(q) : q[i] = q[j] => i = j

QueueInv ==
    /\ inQ \in Seq(Buffers) /\ outQ \in Seq(Buffers) /\ ended \in Seq(Buffers)
    /\ Once(inQ) /\ Once(outQ) /\ Once(ended)
    /\ \A b \in Buffers :
         /\ IsIn(b, inQ) => bh[b].state = "SENDING" /\ ~IsIn(b, ended)
         /\ IsIn(b, outQ) => bh[b].state = "RECEIVING" /\ ~IsIn(b, ended)
         /\ IsIn(b, ended) => Busy(b)
         /\ Busy(b) => IsIn(b, inQ) \/ IsIn(b, outQ) \/ IsIn(b, ended)

\* Who waits for whom, and what the host asks for.
ControlInv ==
    /\ hpc = "reset" <=> state = "PROTOCOL_RESET"
    /\ kpc = "cancel" => state # "NORMAL"
    /\ state = "ABORT_BULK_OUT" => kpc = "cancel" /\ inQ = <<>> /\ stopped
    /\ kpc # "cancel" => cancelled = 0
    /\ \A b \in Buffers : b < cancelled => ~Busy(b)
    /\ hpc = "idle" => kpc \in {"next", "cbw"}

HostInv ==
    /\ cmd.start % BlockLen = 0
    /\ cmd.op \in {"READ", "WRITE", "VERIFY"} => cmd.size % BlockLen = 0
    /\ cmd.op \in {"READ", "WRITE", "VERIFY"} /\ cmd.dir = "in" /\ cmd.len > 0
       /\ cmd.size % U32 = 0 => EmptyCommands
    /\ hpc \notin {"idle", "reset"} =>
         /\ cmd.op \notin {"READ", "WRITE"} => cmd.size < U32
         /\ cmd.op = "TEST_UNIT_READY" => cmd.size = 0
         /\ cmd.op \notin {"READ", "WRITE", "VERIFY"} => cmd.start = 0
         /\ cmd.dir \in {"in", "out"} /\ cmd.len < U32
    /\ hpc = "idle" => DataDir = "none"
    /\ hpc = "in" => DataDir = "in"
    /\ hpc = "out" => DataDir = "out" /\ sent < cmd.len /\ ~stopped
    /\ hpc = "status" /\ DataDir = "out" => stopped \/ sent = cmd.len
    /\ DataDir # "in" => received = <<>>
    /\ DataDir # "out" => sent = 0 /\ ~stopped
    /\ sent <= cmd.len

\* No data yet.
Untouched ==
    /\ sent = 0 /\ received = <<>> /\ ~stopped
    /\ \A p \in DOMAIN file : file[p] = Old

\* The host waits for what the command says.
Begun == hpc \in {"reset", IF cmd.len = 0 THEN "status" ELSE cmd.dir}

AllEmpty == \A b \in Buffers : bh[b].state = "EMPTY"

\* What is written is in its place, and was sent.
FileInv ==
    \A p \in DOMAIN file : file[p] # Old =>
        cmd.op = "WRITE" /\ p = cmd.start + file[p] /\ file[p] \in 0 .. sent - 1

Asked == kpc = "cbw" /\ IsIn(fill, outQ)
Commanded == kpc = "cbw" /\ ~IsIn(fill, outQ)

\* Between two commands: buffers that are still being sent, and the CBW.
RestInv ==
    /\ kpc = "next" => outQ = <<>>
    /\ kpc \in {"next", "cbw"} =>
         \A b \in Buffers : kpc = "next" \/ b # fill =>
                                bh[b].state \in {"EMPTY", "SENDING"}
    /\ kpc = "cbw" =>
         bh[fill].kind = "cbw" /\ bh[fill].state \in {"RECEIVING", "FULL"}
    /\ Asked => outQ = <<fill>>
    /\ Commanded =>
         /\ inQ = <<>> /\ outQ = <<>> /\ Begun /\ Untouched
         /\ ended # <<>> => ended[Len(ended)] = fill
         /\ bh[fill].state = "FULL" => ended = <<>>
    /\ hpc = "idle" => ~Commanded /\ inQ = <<>> /\ Untouched

\* Nothing has moved yet.
FreshInv ==
    /\ kpc \in {"start", "verify"} => AllEmpty /\ Begun /\ Untouched
    /\ kpc = "verify" => drain = fill

-----------------------------------------------------------------------------
(* Replies.                                                                *)

Base == IF cmd.op = "READ" THEN cmd.start ELSE 0

\* The first m of the queued buffers are the reply, from g[0] to g[m].
Flow(g, m) ==
    /\ g[0] = Len(received)
    /\ \A j \in 1 .. m : /\ bh[inQ[j]].kind = "data"
                         /\ Len(bh[inQ[j]].data) = g[j] - g[j - 1]

\* ... with the units of the file, or of the reply, in order.
InOrder(g, m) ==
    /\ received = Units(Base, g[0])
    /\ \A j \in 1 .. m :
         bh[inQ[j]].data = Units(Base + g[j - 1], g[j] - g[j - 1])

\* The host goes on after this buffer ...
Going(g, j) ==
    /\ ~bh[inQ[j]].zero /\ g[j - 1] < g[j] /\ g[j] < cmd.len
    /\ (g[j] - g[j - 1]) % BlockLen = 0

\* ... or knows it as the last.
Ending(g, j) == bh[inQ[j]].zero \/ g[j] >= cmd.len

Moved == cmd.len - common.residue

\* The last buffer of the reply waits for finish_reply.
Pending == IF kpc = "finish" THEN Len(bh[fill].data) ELSE 0

ReplyRing ==
    /\ outQ = <<>>
    /\ \A b \in Buffers :
         bh[b].state \in {"EMPTY", "SENDING"}
         \/ (b = fill /\ kpc = "finish" /\ bh[b].state = "FULL")
    /\ kpc = "finish" => ~Busy(fill)

ReplyInv ==
    /\ kpc \in {"read", "finish", "status"} /\ DataDir = "in" => ReplyRing
    /\ /\ kpc = "read" \/ (kpc = "finish" /\ bh[fill].state = "FULL")
       /\ DataDir = "in" /\ hpc # "reset"
       =>
         /\ hpc = "in"
         /\ \E g \in [0 .. Len(inQ) -> Nat] :
              /\ Flow(g, Len(inQ)) /\ InOrder(g, Len(inQ))
              /\ \A j \in 1 .. Len(inQ) : Going(g, j)
              /\ g[Len(inQ)] + Pending = Moved
              /\ kpc = "finish" => bh[fill].data = Units(Base + g[Len(inQ)], Pending)
    /\ kpc = "finish" /\ DataDir = "in" /\ bh[fill].state # "FULL" =>
         EmptyCommands /\ common.residue = cmd.len
         /\ AllEmpty /\ Begun /\ Untouched
    /\ EmptyCommands \/ Len(received) <= cmd.len

\* m buffers of the reply are still queued, and it was told as done.
Replied(m, residue) ==
    /\ hpc = IF m > 0 THEN "in" ELSE "status"
    /\ \E g \in [0 .. m -> Nat] :
         /\ Flow(g, m)
         /\ \A j \in 1 .. m - 1 : Going(g, j)
         /\ m > 0 => Ending(g, m)
         /\ EmptyCommands \/ (InOrder(g, m) /\ g[m] = cmd.len - residue)

\* What the CSW says of a command is so.
Outcome(residue, status) ==
    LET n == cmd.len - residue IN
    /\ n \in 0 .. cmd.len
    /\ DataDir # "in" => \A i \in 0 .. n - 1 : 
           cmd.start + i \in DOMAIN file /\ file[cmd.start + i] = i
    /\ status = "OK" /\ cmd.op \in {"READ", "WRITE"} /\ cmd.size < U32 /\ ~stopped
         => n = AtMost(cmd.size, FileLen - cmd.start)
    /\ status = "OK" /\ cmd.op \in {"READ", "VERIFY"} /\ cmd.size < U32
         => cmd.start + cmd.size <= FileLen

\* The CSW that waits behind the reply.
Last == bh[inQ[Len(inQ)]]

OutcomeInv ==
    kpc \in {"finish", "throw", "toss", "status"} \/ state = "ABORT_BULK_OUT" =>
        (hpc # "reset" => Outcome(common.residue, Csw.status))

TagInv ==
    kpc \in Working \union {"start"} \/ state = "ABORT_BULK_OUT" =>
        common.tag = cmd.tag

EmptiedInv ==
    /\ kpc = "finish" /\ DataDir = "none" => AllEmpty
    /\ kpc = "status" /\ DataDir # "in" => AllEmpty /\ hpc \in {"status", "reset"}

RepliedInv ==
    kpc = "status" /\ DataDir = "in" /\ hpc # "reset" =>
        Replied(Len(inQ), common.residue)

\* The CSW of the command is all that waits, or follows what waits of the reply.
Answered ==
    /\ inQ # <<>> /\ Last.kind = "csw"
    /\ \E t \in Told :
         /\ Last.data = <<t>> /\ t.tag = cmd.tag
         /\ Outcome(t.residue, t.status)
         /\ IF DataDir = "in" THEN Replied(Len(inQ) - 1, t.residue)
            ELSE hpc = "status" /\ Len(inQ) = 1

AnsweredInv == (kpc = "next" \/ Asked) /\ hpc \notin {"idle", "reset"} => Answered

StatusInv ==
    OutcomeInv /\ TagInv /\ EmptiedInv /\ RepliedInv /\ AnsweredInv

-----------------------------------------------------------------------------
(* Data from the host.                                                     *)

\* The i-th buffer from the one at d.
Slot(d, i) == IF d + i < NumBuffers THEN d + i ELSE d + i - NumBuffers

\* k buffers have been asked for and not been drained: the i-th for what the
\* host sends from f[i] to f[i + 1].
Ring(k, f) ==
    /\ fill = Slot(drain, k)
    /\ \A i \in 0 .. k - 1 :
         LET b == bh[Slot(drain, i)] IN
         /\ b.state \in {"RECEIVING", "FULL"} /\ b.kind = "data"
         /\ b.intended = f[i + 1] - f[i]
    /\ \A i \in k .. NumBuffers - 1 : bh[Slot(drain, i)].state = "EMPTY"
    /\ \A i, j \in 0 .. k : i < j => f[i] < f[j]
    /\ f[k] = cmd.len - common.usb_amount_left

\* The last of them are still queued; the host has filled the first e.
SentUpTo(e, f) ==
    /\ \A j \in 1 .. Len(outQ) : outQ[j] = Slot(drain, e + j - 1)
    /\ \A i \in 0 .. e - 1 :
         LET n == Len(bh[Slot(drain, i)].data) IN
         /\ bh[Slot(drain, i)].data = Units(f[i], n)
         /\ n <= f[i + 1] - f[i] /\ f[i] + n <= sent
         /\ ~stopped => n = f[i + 1] - f[i]
    /\ ~stopped => sent = f[e]

Sent(k, f) ==
    inQ = <<>> /\ \E e \in 0 .. k : k = e + Len(outQ) /\ SentUpTo(e, f)

\* do_write: where the file, the requests and the host are.
Writing(k, f) ==
    /\ f[k] = common.size - to_req
    /\ k > 0 => f[0] = common.size - left
    /\ \A i \in 0 .. k - 1 : f[i] % BlockLen = 0 /\ cmd.start + f[i] < FileLen
    /\ \A i \in 0 .. k - 1 : i < k - 1 \/ to_req > 0 => f[i + 1] - f[i] = BufLen
    /\ to_req > 0 => f[k] % BlockLen = 0
    /\ more => to_req > 0
    /\ ~more /\ to_req > 0 => common.sense /\ cmd.start + f[k] >= FileLen
    /\ k = 0 /\ to_req > 0 => left = to_req \/ cmd.start + f[k] >= FileLen
    /\ /\ k = 0 /\ to_req = 0 /\ common.size = cmd.size /\ ~stopped
       => common.size - left = AtMost(cmd.size, FileLen - cmd.start)

Taking == kpc \in {"write", "drain", "throw", "toss"}
          \/ (kpc = "finish" /\ DataDir = "out")

OutInv ==
    Taking =>
        /\ DataDir = "out"
        /\ \E k \in 0 .. NumBuffers : \E f \in [0 .. k -> Nat] :
             /\ Ring(k, f) /\ Sent(k, f)
             /\ kpc \in {"write", "drain"} => Writing(k, f)
             /\ kpc \in {"drain", "toss"} => k > 0
             /\ kpc = "finish" /\ common.residue = 0 =>
                  k = 0 /\ common.usb_amount_left = 0

AmountInv ==
    /\ kpc \in Working => common.residue <= cmd.len
    /\ kpc \in Working \ {"status"} => common.usb_amount_left <= cmd.len
    /\ kpc \in {"cbw", "start", "verify", "read", "write", "drain"} =>
         ~common.short
    /\ kpc \in {"read", "write", "drain"} =>
         /\ DataDir = Direction[cmd.op] /\ common.size = Size
         /\ 0 < left /\ left <= Size /\ common.residue = cmd.len - Size + left
         /\ common.phase_error = (cmd.len < CdbSize(cmd))
         /\ cmd.start + Size - left <= FileLen
         /\ cmd.op = IF kpc = "read" THEN "READ" ELSE "WRITE"
    /\ kpc = "read" => (Size - left) % BlockLen = 0 /\ ~common.sense
    /\ kpc \in {"write", "drain"} =>
         /\ to_req <= left
         /\ \A i \in 0 .. Size - left - 1 : file[cmd.start + i] = i
    /\ kpc = "verify" =>
         /\ cmd.op = "VERIFY" /\ common.residue = cmd.len
         /\ common.usb_amount_left = cmd.len
         /\ 0 < left /\ left <= cmd.size
         /\ cmd.start + cmd.size - left <= FileLen
    /\ kpc = "finish" /\ common.short => stopped

DataInv ==
    /\ TypeInv /\ QueueInv /\ ControlInv /\ HostInv /\ FileInv /\ RestInv
    /\ FreshInv /\ ReplyInv /\ StatusInv /\ OutInv /\ AmountInv
\* A multiple of n leaves no remainder.
LEMMA ModMultiple ==
  ASSUME NEW n \in Nat \ {0}, NEW a \in Int
  PROVE  (n * a) % n = 0
  OBVIOUS

\* A number without remainder is a multiple.
LEMMA ModDivides ==
  ASSUME NEW n \in Nat \ {0}, NEW a \in Nat, a % n = 0
  PROVE  a = n * (a \div n) /\ a \div n \in Nat
  OBVIOUS

\* Multiples of n add up to multiples, and so do their differences.
LEMMA ModAdd ==
  ASSUME NEW n \in Nat \ {0}, NEW a \in Nat, NEW b \in Nat,
         a % n = 0, b % n = 0
  PROVE  (a + b) % n = 0 /\ (a - b) % n = 0
<1> DEFINE p == a \div n
<1> DEFINE q == b \div n
<1>1. a = n * p /\ b = n * q /\ p \in Nat /\ q \in Nat
  BY ModDivides
<1> HIDE DEF p, q
<1>2. a + b = n * (p + q) /\ a - b = n * (p - q)
  BY <1>1
<1>3. p + q \in Int /\ p - q \in Int
  BY <1>1
<1> QED
  BY <1>2, <1>3, ModMultiple

\* A number less its remainder leaves none.
LEMMA ModWhole ==
  ASSUME NEW n \in Nat \ {0}, NEW a \in Nat
  PROVE  (a - (a % n)) % n = 0
<1> DEFINE p == a \div n
<1> DEFINE r == a % n
<1>1. a = n * p + r /\ p \in Nat /\ r \in Nat
  OBVIOUS
<1>2. (a - r) % n = 0
  <2> HIDE DEF p, r
  <2>1. a - r = n * p
    BY <1>1
  <2> QED
    BY <1>1, <2>1, ModMultiple
<1> QED
  BY <1>2

\* WholeBlocks cuts off what does not fill a block.
LEMMA WholeBlocksIs ==
  ASSUME NEW n \in Nat
  PROVE  /\ WholeBlocks(n) \in 0 .. n
         /\ WholeBlocks(n) % BlockLen = 0
         /\ n % BlockLen = 0 => WholeBlocks(n) = n
<1>1. BlockLen \in Nat \ {0}
  BY DataPathAssumption
<1>2. n % BlockLen \in 0 .. BlockLen - 1 /\ n % BlockLen <= n
  BY <1>1
<1>3. (n - (n % BlockLen)) % BlockLen = 0
  BY <1>1, ModWhole
<1>4. n - (n % BlockLen) \in 0 .. n
  BY <1>1, <1>2
<1>5. n % BlockLen = 0 => n - (n % BlockLen) = n
  BY <1>1
<1> QED
  BY <1>3, <1>4, <1>5, Zenon DEF WholeBlocks

\* The buffer after the last one is the first.
LEMMA NextOfIs ==
  ASSUME NEW b \in Buffers
  PROVE  /\ NextOf(b) \in Buffers
         /\ NextOf(b) = IF b = NumBuffers - 1 THEN 0 ELSE b + 1
  BY DataPathAssumption DEF NextOf, Buffers
\* What is in a queue to which a buffer is added.
LEMMA InAppend ==
  ASSUME NEW q \in Seq(Buffers), NEW b \in Buffers
  PROVE  /\ Append(q, b) \in Seq(Buffers) /\ Append(q, b) # <<>>
         /\ Len(Append(q, b)) = Len(q) + 1
         /\ \A i \in 1 .. Len(q) : Append(q, b)[i] = q[i]
         /\ Append(q, b)[Len(q) + 1] = b
         /\ \A x \in Buffers : IsIn(x, Append(q, b)) <=> IsIn(x, q) \/ x = b
         /\ Once(q) /\ ~IsIn(b, q) => Once(Append(q, b))
<1> DEFINE r == Append(q, b)
<1>1. r \in Seq(Buffers) /\ Len(r) = Len(q) + 1 /\ r # <<>>
  BY AppendProperties
<1>2. \A i \in 1 .. Len(r) : r[i] = IF i <= Len(q) THEN q[i] ELSE b
  OBVIOUS
<1>3. Len(q) \in Nat
  OBVIOUS
<1> HIDE DEF r
<1>4. \A x \in Buffers : IsIn(x, r) <=> IsIn(x, q) \/ x = b
  BY <1>1, <1>2, <1>3 DEF IsIn
<1>5. Once(q) /\ ~IsIn(b, q) => Once(r)
  BY <1>1, <1>2, <1>3 DEF IsIn, Once
<1> QED
  BY <1>1, <1>2, <1>3, <1>4, <1>5 DEF r

\* What is in a queue that lost its head.
LEMMA InTail ==
  ASSUME NEW q \in Seq(Buffers), q # <<>>
  PROVE  /\ Tail(q) \in Seq(Buffers) /\ Len(Tail(q)) = Len(q) - 1
         /\ Len(q) \in Nat /\ Len(q) > 0
         /\ \A i \in 1 .. Len(q) - 1 : Tail(q)[i] = q[i + 1]
         /\ Head(q) \in Buffers /\ Head(q) = q[1] /\ IsIn(Head(q), q)
         /\ \A x \in Buffers : IsIn(x, Tail(q)) => IsIn(x, q)
         /\ \A x \in Buffers : IsIn(x, q) => IsIn(x, Tail(q)) \/ x = Head(q)
         /\ Once(q) => Once(Tail(q)) /\ ~IsIn(Head(q), Tail(q))
<1> DEFINE r == Tail(q)
<1>1. r \in Seq(Buffers) /\ Len(r) = Len(q) - 1 /\ Len(q) \in Nat /\ Len(q) > 0
  OBVIOUS
<1>2. \A i \in 1 .. Len(q) - 1 : r[i] = q[i + 1]
  OBVIOUS
<1>3. Head(q) \in Buffers /\ Head(q) = q[1]
  OBVIOUS
<1> HIDE DEF r
<1>4. IsIn(Head(q), q)
  BY <1>1, <1>3 DEF IsIn
<1>5. \A x \in Buffers : IsIn(x, r) => IsIn(x, q)
  <2> SUFFICES ASSUME NEW i \in 1 .. Len(r) PROVE IsIn(r[i], q)
    BY DEF IsIn
  <2>1. r[i] = q[i + 1] /\ i + 1 \in 1 .. Len(q)
    BY <1>1, <1>2
  <2> QED
    BY <2>1 DEF IsIn
<1>6. \A x \in Buffers : IsIn(x, q) => IsIn(x, r) \/ x = Head(q)
  <2> SUFFICES ASSUME NEW i \in 1 .. Len(q), i # 1 PROVE IsIn(q[i], r)
    BY <1>3 DEF IsIn
  <2>1. r[i - 1] = q[i] /\ i - 1 \in 1 .. Len(r)
    BY <1>1, <1>2
  <2> QED
    BY <2>1 DEF IsIn
<1>7. Once(q) => Once(r)
  <2> SUFFICES ASSUME Once(q), NEW i \in 1 .. Len(r), NEW j \in 1 .. Len(r),
                      r[i] = r[j]
               PROVE  i = j
    BY DEF Once
  <2>1. q[i + 1] = q[j + 1] /\ i + 1 \in 1 .. Len(q) /\ j + 1 \in 1 .. Len(q)
    BY <1>1, <1>2
  <2>2. i + 1 = j + 1
    BY <2>1 DEF Once
  <2> QED
    BY <2>2
<1>8. Once(q) => ~IsIn(Head(q), r)
  <2> SUFFICES ASSUME Once(q), NEW i \in 1 .. Len(r), r[i] = q[1] PROVE FALSE
    BY <1>3 DEF IsIn
  <2>1. q[i + 1] = q[1] /\ i + 1 \in 1 .. Len(q) /\ 1 \in 1 .. Len(q)
    BY <1>1, <1>2
  <2>2. i + 1 = 1
    BY <2>1 DEF Once
  <2> QED
    BY <2>2
<1> QED
  BY <1>1, <1>2, <1>3, <1>4, <1>5, <1>6, <1>7, <1>8 DEF r

\* What is in a queue from which a buffer is dequeued.
LEMMA InWithout ==
  ASSUME NEW q \in Seq(Buffers), Once(q), NEW b \in Buffers
  PROVE  /\ Without(b, q) \in Seq(Buffers) /\ Once(Without(b, q))
         /\ \A x \in Buffers : IsIn(x, Without(b, q)) <=> IsIn(x, q) /\ x # b
         /\ q = <<>> => Without(b, q) = <<>>
<1>1. CASE ~IsIn(b, q)
  BY <1>1 DEF Without
<1>2. CASE IsIn(b, q)
  <2> DEFINE at == CHOOSE i \in 1 .. Len(q) : q[i] = b
  <2> DEFINE r == [i \in 1 .. Len(q) - 1 |-> IF i < at THEN q[i] ELSE q[i + 1]]
  <2>1. at \in 1 .. Len(q) /\ q[at] = b
    BY <1>2 DEF IsIn
  <2>2. Without(b, q) = r
    BY <1>2 DEF Without
  <2> HIDE DEF at
  <2>3. Len(q) \in Nat /\ \A i \in 1 .. Len(q) : q[i] \in Buffers
    OBVIOUS
  <2>4. r \in Seq(Buffers) /\ Len(r) = Len(q) - 1
    <3>1. r \in [1 .. Len(q) - 1 -> Buffers]
      BY <2>1, <2>3
    <3>2. Len(q) - 1 \in Nat
      BY <2>1, <2>3
    <3> QED
      BY <3>1, <3>2, IsASeq
  <2>5. \A i \in 1 .. Len(r) :
          /\ i < at => r[i] = q[i]
          /\ i >= at => r[i] = q[i + 1]
    BY <2>1, <2>4
  <2> HIDE DEF r
  <2>6. \A i \in 1 .. Len(q) : i # at => q[i] # b
    BY <2>1 DEF Once
  <2>7. \A i, j \in 1 .. Len(r) : r[i] = r[j] => i = j
    <3> SUFFICES ASSUME NEW i \in 1 .. Len(r), NEW j \in 1 .. Len(r),
                        r[i] = r[j]
                 PROVE  i = j
      OBVIOUS
    <3>1. PICK a \in 1 .. Len(q) :
             r[i] = q[a] /\ a = IF i < at THEN i ELSE i + 1
      BY <2>1, <2>3, <2>4, <2>5
    <3>2. PICK c \in 1 .. Len(q) :
             r[j] = q[c] /\ c = IF j < at THEN j ELSE j + 1
      BY <2>1, <2>3, <2>4, <2>5, SMTT(30)
    <3>3. a = c
      BY <3>1, <3>2 DEF Once
    <3> QED
      BY <2>1, <3>1, <3>2, <3>3
  <2>8. \A x \in Buffers : IsIn(x, r) => IsIn(x, q) /\ x # b
    <3> SUFFICES ASSUME NEW i \in 1 .. Len(r)
                 PROVE  IsIn(r[i], q) /\ r[i] # b
      BY DEF IsIn
    <3>1. PICK a \in 1 .. Len(q) :
             r[i] = q[a] /\ a = IF i < at THEN i ELSE i + 1
      BY <2>1, <2>3, <2>4, <2>5, SMTT(30)
    <3>2. a # at
      BY <2>1, <3>1
    <3> QED
      BY <2>6, <3>1, <3>2 DEF IsIn
  <2>9. \A x \in Buffers : IsIn(x, q) /\ x # b => IsIn(x, r)
    <3> SUFFICES ASSUME NEW a \in 1 .. Len(q), q[a] # b
                 PROVE  IsIn(q[a], r)
      BY DEF IsIn
    <3>1. a # at
      BY <2>1
    <3>2. PICK i \in 1 .. Len(r) : r[i] = q[a]
      <4>1. CASE a < at
        BY <2>1, <2>3, <2>4, <2>5, <4>1
      <4>2. CASE a > at
        <5>1. a - 1 \in 1 .. Len(r) /\ a - 1 >= at /\ a - 1 + 1 = a
          BY <2>1, <2>3, <2>4, <4>2
        <5> QED
          BY <2>5, <5>1
      <4> QED
        BY <2>1, <3>1, <4>1, <4>2
    <3> QED
      BY <3>2 DEF IsIn
  <2> QED
    BY <1>2, <2>1, <2>2, <2>4, <2>7, <2>8, <2>9 DEF Once
<1> QED
  BY <1>1, <1>2
-----------------------------------------------------------------------------
(* What the steps do to the ring.                                          *)

\* No buffer but b changes.
OnlyAt(b) == \A x \in Buffers : x # b => bh'[x] = bh[x]

\* Units from an offset are a sequence of integers.
LEMMA UnitsAre ==
  ASSUME NEW from \in Int, NEW n \in Nat
  PROVE  /\ Units(from, n) \in Contents /\ Units(from, n) \in Seq(Int)
         /\ Len(Units(from, n)) = n
         /\ \A i \in 1 .. n : Units(from, n)[i] = from + i - 1
<1>1. Units(from, n) \in [1 .. n -> Int]
  BY DEF Units
<1>2. Units(from, n) \in Seq(Int)
  BY <1>1
<1>3. Units(from, n) \in Contents
  BY <1>2, SeqMonotonic, Int \subseteq Int \union Told DEF Contents
<1> QED
  BY <1>1, <1>2, <1>3 DEF Units

\* A free buffer holds nothing.
LEMMA FreeIs ==
  /\ Free \in Buffer /\ Free.state = "EMPTY" /\ Free.kind = "none"
  BY EmptySeq DEF Free, Buffer, Contents

\* A reply is sent from the buffer to fill.
LEMMA StartInForm ==
  ASSUME TypeInv, NEW kind \in {"data", "csw"}, NEW data \in Contents,
         NEW zero \in BOOLEAN, StartIn(kind, data, zero)
  PROVE  /\ bh' \in [Buffers -> Buffer] /\ OnlyAt(fill)
         /\ bh'[fill].state = "SENDING" /\ bh'[fill].kind = kind
         /\ bh'[fill].data = data /\ bh'[fill].zero = zero
         /\ inQ' = Append(inQ, fill) /\ fill' = NextOf(fill)
         /\ fill' \in Buffers
<1> DEFINE r == [Free EXCEPT !.state = "SENDING", !.kind = kind,
                             !.data = data, !.zero = zero]
<1>1. bh' = [bh EXCEPT ![fill] = r]
  BY DEF StartIn
<1>2. r \in Buffer
  BY FreeIs DEF Buffer
<1>3. /\ r.state = "SENDING" /\ r.kind = kind /\ r.data = data /\ r.zero = zero
  BY DEF Free
<1> HIDE DEF r
<1>4. bh \in [Buffers -> Buffer] /\ fill \in Buffers
  BY DEF TypeInv
<1>5. bh' \in [Buffers -> Buffer] /\ OnlyAt(fill) /\ bh'[fill] = r
  BY <1>1, <1>2, <1>4 DEF OnlyAt
<1> QED
  BY <1>3, <1>4, <1>5, NextOfIs DEF StartIn

\* Data is asked for, into the buffer to fill.
LEMMA StartOutForm ==
  ASSUME TypeInv, NEW kind \in {"data", "cbw"}, NEW amount \in Nat,
         StartOut(kind, amount)
  PROVE  /\ bh' \in [Buffers -> Buffer] /\ OnlyAt(fill)
         /\ bh'[fill].state = "RECEIVING" /\ bh'[fill].kind = kind
         /\ bh'[fill].intended = amount /\ bh'[fill].data = <<>>
         /\ outQ' = Append(outQ, fill)
<1> DEFINE r == [Free EXCEPT !.state = "RECEIVING", !.kind = kind,
                             !.intended = amount]
<1>1. bh' = [bh EXCEPT ![fill] = r]
  BY DEF StartOut
<1>2. r \in Buffer
  BY FreeIs DEF Buffer
<1>3. /\ r.state = "RECEIVING" /\ r.kind = kind /\ r.intended = amount
      /\ r.data = <<>>
  BY DEF Free
<1> HIDE DEF r
<1>4. bh \in [Buffers -> Buffer] /\ fill \in Buffers
  BY DEF TypeInv
<1>5. bh' \in [Buffers -> Buffer] /\ OnlyAt(fill) /\ bh'[fill] = r
  BY <1>1, <1>2, <1>4 DEF OnlyAt
<1> QED
  BY <1>3, <1>5 DEF StartOut

\* A buffer is emptied.
LEMMA EmptiedForm ==
  ASSUME TypeInv, NEW b \in Buffers, bh' = [bh EXCEPT ![b] = Free]
  PROVE  /\ bh' \in [Buffers -> Buffer] /\ OnlyAt(b)
         /\ bh'[b].state = "EMPTY"
<1>1. bh \in [Buffers -> Buffer]
  BY DEF TypeInv
<1> QED
  BY <1>1, FreeIs DEF OnlyAt

\* A buffer is left for finish_reply.
LEMMA FilledForm ==
  ASSUME TypeInv, NEW data \in Contents,
         bh' = [bh EXCEPT ![fill] = Filled(data)]
  PROVE  /\ bh' \in [Buffers -> Buffer] /\ OnlyAt(fill)
         /\ bh'[fill].state = "FULL" /\ bh'[fill].data = data
<1> DEFINE r == [Free EXCEPT !.state = "FULL", !.kind = "data",
                             !.data = data]
<1>1. bh' = [bh EXCEPT ![fill] = r]
  BY DEF Filled
<1>2. r \in Buffer
  BY FreeIs DEF Buffer
<1>3. r.state = "FULL" /\ r.data = data
  BY DEF Free
<1> HIDE DEF r
<1>4. bh \in [Buffers -> Buffer] /\ fill \in Buffers
  BY DEF TypeInv
<1> QED
  BY <1>1, <1>2, <1>3, <1>4 DEF OnlyAt

\* The completion routine empties a buffer that was sent, and hands over one
\* that was received.
LEMMA CompleteForm ==
  ASSUME TypeInv, ended \in Seq(Buffers), Complete
  PROVE  /\ Head(ended) \in Buffers /\ ended # <<>>
         /\ bh' \in [Buffers -> Buffer] /\ OnlyAt(Head(ended))
         /\ bh[Head(ended)].state = "SENDING" =>
              bh'[Head(ended)].state = "EMPTY"
         /\ bh[Head(ended)].state # "SENDING" =>
              /\ bh'[Head(ended)].state = "FULL"
              /\ bh'[Head(ended)].kind = bh[Head(ended)].kind
              /\ bh'[Head(ended)].data = bh[Head(ended)].data
              /\ bh'[Head(ended)].intended = bh[Head(ended)].intended
         /\ ended' = Tail(ended)
<1>1. ended # <<>> /\ ended' = Tail(ended) /\ Head(ended) \in Buffers
  BY DEF Complete
<1> DEFINE b == Head(ended)
<1>2. bh \in [Buffers -> Buffer]
  BY DEF TypeInv
<1>3. bh' = [bh EXCEPT ![b] = IF bh[b].state = "SENDING" THEN Free
                              ELSE [bh[b] EXCEPT !.state = "FULL"]]
  BY DEF Complete
<1> HIDE DEF b
<1>4. b \in Buffers
  BY <1>1 DEF b
<1>5. CASE bh[b].state = "SENDING"
  BY <1>1, <1>2, <1>3, <1>4, <1>5, FreeIs DEF OnlyAt, b
<1>6. CASE bh[b].state # "SENDING"
  <2> DEFINE r == [bh[b] EXCEPT !.state = "FULL"]
  <2>1. bh[b] \in Buffer
    BY <1>2, <1>4
  <2>2. /\ r \in Buffer /\ r.state = "FULL" /\ r.kind = bh[b].kind
        /\ r.data = bh[b].data /\ r.intended = bh[b].intended
    BY <2>1 DEF Buffer
  <2>3. bh' = [bh EXCEPT ![b] = r]
    BY <1>3, <1>6
  <2> HIDE DEF r
  <2>4. bh' \in [Buffers -> Buffer] /\ OnlyAt(b) /\ bh'[b] = r
    BY <1>2, <1>4, <2>2, <2>3 DEF OnlyAt
  <2> QED
    BY <1>1, <1>6, <2>2, <2>4 DEF b
<1> QED
  BY <1>5, <1>6

\* The host fills the buffer at the head of the bulk-out pipe.
LEMMA SendForm ==
  ASSUME TypeInv, outQ \in Seq(Buffers), outQ # <<>>, NEW n \in Nat,
         HostSendUnits(n)
  PROVE  /\ Head(outQ) \in Buffers
         /\ bh' \in [Buffers -> Buffer] /\ OnlyAt(Head(outQ))
         /\ bh'[Head(outQ)].state = bh[Head(outQ)].state
         /\ bh'[Head(outQ)].kind = bh[Head(outQ)].kind
         /\ bh'[Head(outQ)].intended = bh[Head(outQ)].intended
         /\ bh'[Head(outQ)].data = Units(sent, n)
<1>1. Head(outQ) \in Buffers
  OBVIOUS
<1>2. bh \in [Buffers -> Buffer] /\ sent \in Nat
  BY DEF TypeInv
<1>3. Units(sent, n) \in Contents
  BY <1>2, UnitsAre
<1> DEFINE b == Head(outQ)
<1> DEFINE r == [bh[b] EXCEPT !.data = Units(sent, n)]
<1>4. bh' = [bh EXCEPT ![b] = r]
  BY DEF HostSendUnits
<1>5. /\ r \in Buffer /\ r.state = bh[b].state /\ r.kind = bh[b].kind
      /\ r.data = Units(sent, n) /\ r.intended = bh[b].intended
  <2>1. bh[b] \in Buffer
    BY <1>1, <1>2
  <2> QED
    BY <1>3, <2>1 DEF Buffer
<1> HIDE DEF r
<1>6. bh' \in [Buffers -> Buffer] /\ OnlyAt(b) /\ bh'[b] = r
  BY <1>1, <1>2, <1>4, <1>5 DEF OnlyAt
<1> QED
  BY <1>1, <1>5, <1>6
-----------------------------------------------------------------------------
(* The queues.                                                             *)

\* A buffer that is not with the controller may change, if it stays so.
LEMMA QueueIdle ==
  ASSUME QueueInv, NEW b \in Buffers, ~Busy(b), OnlyAt(b), UNCHANGED udcVars,
         bh'[b].state \in {"EMPTY", "FULL"}
  PROVE  QueueInv'
<1>1. UNCHANGED <<inQ, outQ, ended>>
  BY DEF udcVars
<1>2. \A x \in Buffers : x # b => bh'[x].state = bh[x].state
  BY DEF OnlyAt
<1>3. ~IsIn(b, inQ) /\ ~IsIn(b, outQ) /\ ~IsIn(b, ended)
  BY DEF QueueInv, Busy
<1>4. \A x \in Buffers :
         /\ IsIn(x, inQ') => bh'[x].state = "SENDING" /\ ~IsIn(x, ended')
         /\ IsIn(x, outQ') => bh'[x].state = "RECEIVING" /\ ~IsIn(x, ended')
         /\ IsIn(x, ended') => bh'[x].state \in {"SENDING", "RECEIVING"}
         /\ bh'[x].state \in {"SENDING", "RECEIVING"} =>
              IsIn(x, inQ') \/ IsIn(x, outQ') \/ IsIn(x, ended')
  BY <1>1, <1>2, <1>3 DEF QueueInv, Busy
<1> QED
  BY <1>1, <1>4 DEF QueueInv, Busy, Once, IsIn

\* What has to be shown of a step that queues or dequeues.
LEMMA QueueMoved ==
  ASSUME inQ' \in Seq(Buffers), outQ' \in Seq(Buffers), ended' \in Seq(Buffers),
         Once(inQ'), Once(outQ'), Once(ended'),
         \A x \in Buffers :
           /\ IsIn(x, inQ') => bh'[x].state = "SENDING" /\ ~IsIn(x, ended')
           /\ IsIn(x, outQ') => bh'[x].state = "RECEIVING" /\ ~IsIn(x, ended')
           /\ IsIn(x, ended') => bh'[x].state \in {"SENDING", "RECEIVING"}
           /\ bh'[x].state \in {"SENDING", "RECEIVING"} =>
                IsIn(x, inQ') \/ IsIn(x, outQ') \/ IsIn(x, ended')
  PROVE  QueueInv'
  BY DEF QueueInv, Busy, Once, IsIn

\* Nothing that the queues are about changes.
LEMMA QueueSame ==
  ASSUME QueueInv, UNCHANGED <<bh, inQ, outQ, ended>>
  PROVE  QueueInv'
<1>1. bh' = bh /\ inQ' = inQ /\ outQ' = outQ /\ ended' = ended
  OBVIOUS
<1>2. \A x \in Buffers :
         /\ IsIn(x, inQ) => bh[x].state = "SENDING" /\ ~IsIn(x, ended)
         /\ IsIn(x, outQ) => bh[x].state = "RECEIVING" /\ ~IsIn(x, ended)
         /\ IsIn(x, ended) => bh[x].state \in {"SENDING", "RECEIVING"}
         /\ bh[x].state \in {"SENDING", "RECEIVING"} =>
              IsIn(x, inQ) \/ IsIn(x, outQ) \/ IsIn(x, ended)
  BY DEF QueueInv, Busy
<1> QED
  BY <1>1, <1>2, QueueMoved DEF QueueInv

\* A buffer is sent.
LEMMA QueueIn ==
  ASSUME QueueInv, fill \in Buffers, ~Busy(fill), OnlyAt(fill),
         bh'[fill].state = "SENDING", inQ' = Append(inQ, fill),
         outQ' = outQ, ended' = ended
  PROVE  QueueInv'
<1>1. /\ inQ \in Seq(Buffers) /\ outQ \in Seq(Buffers) /\ ended \in Seq(Buffers)
      /\ Once(inQ) /\ Once(outQ) /\ Once(ended)
      /\ ~IsIn(fill, inQ) /\ ~IsIn(fill, outQ) /\ ~IsIn(fill, ended)
  BY DEF QueueInv, Busy
<1>2. /\ inQ' \in Seq(Buffers) /\ Once(inQ')
      /\ \A x \in Buffers : IsIn(x, inQ') <=> IsIn(x, inQ) \/ x = fill
  BY <1>1, InAppend
<1>3. \A x \in Buffers : x # fill => bh'[x].state = bh[x].state
  BY DEF OnlyAt
<1>4. \A x \in Buffers :
         /\ IsIn(x, inQ') => bh'[x].state = "SENDING" /\ ~IsIn(x, ended')
         /\ IsIn(x, outQ') => bh'[x].state = "RECEIVING" /\ ~IsIn(x, ended')
         /\ IsIn(x, ended') => bh'[x].state \in {"SENDING", "RECEIVING"}
         /\ bh'[x].state \in {"SENDING", "RECEIVING"} =>
              IsIn(x, inQ') \/ IsIn(x, outQ') \/ IsIn(x, ended')
  BY <1>1, <1>2, <1>3 DEF QueueInv, Busy
<1> QED
  BY <1>1, <1>2, <1>4, QueueMoved

\* A buffer is to be filled.
LEMMA QueueOut ==
  ASSUME QueueInv, fill \in Buffers, ~Busy(fill), OnlyAt(fill),
         bh'[fill].state = "RECEIVING", outQ' = Append(outQ, fill),
         inQ' = inQ, ended' = ended
  PROVE  QueueInv'
<1>1. /\ inQ \in Seq(Buffers) /\ outQ \in Seq(Buffers) /\ ended \in Seq(Buffers)
      /\ Once(inQ) /\ Once(outQ) /\ Once(ended)
      /\ ~IsIn(fill, inQ) /\ ~IsIn(fill, outQ) /\ ~IsIn(fill, ended)
  BY DEF QueueInv, Busy
<1>2. /\ outQ' \in Seq(Buffers) /\ Once(outQ')
      /\ \A x \in Buffers : IsIn(x, outQ') <=> IsIn(x, outQ) \/ x = fill
  BY <1>1, InAppend
<1>3. \A x \in Buffers : x # fill => bh'[x].state = bh[x].state
  BY DEF OnlyAt
<1>4. \A x \in Buffers :
         /\ IsIn(x, inQ') => bh'[x].state = "SENDING" /\ ~IsIn(x, ended')
         /\ IsIn(x, outQ') => bh'[x].state = "RECEIVING" /\ ~IsIn(x, ended')
         /\ IsIn(x, ended') => bh'[x].state \in {"SENDING", "RECEIVING"}
         /\ bh'[x].state \in {"SENDING", "RECEIVING"} =>
              IsIn(x, inQ') \/ IsIn(x, outQ') \/ IsIn(x, ended')
  BY <1>1, <1>2, <1>3 DEF QueueInv, Busy
<1> QED
  BY <1>1, <1>2, <1>4, QueueMoved

\* A transfer to the host ends.
LEMMA QueueEndIn ==
  ASSUME QueueInv, inQ # <<>>, EndIn,
         \A x \in Buffers : bh'[x].state = bh[x].state
  PROVE  QueueInv'
<1>1. /\ inQ \in Seq(Buffers) /\ outQ \in Seq(Buffers) /\ ended \in Seq(Buffers)
      /\ Once(inQ) /\ Once(outQ) /\ Once(ended)
      /\ \A x \in Buffers : IsIn(x, inQ) => ~IsIn(x, ended)
  BY DEF QueueInv
<1> DEFINE b == Head(inQ)
<1>2. /\ inQ' \in Seq(Buffers) /\ Once(inQ') /\ b \in Buffers /\ IsIn(b, inQ)
      /\ \A x \in Buffers : IsIn(x, inQ') <=> IsIn(x, inQ) /\ x # b
  BY <1>1, InTail DEF EndIn
<1>3. /\ ended' \in Seq(Buffers) /\ Once(ended')
      /\ \A x \in Buffers : IsIn(x, ended') <=> IsIn(x, ended) \/ x = b
  BY <1>1, <1>2, InAppend DEF EndIn
<1>4. outQ' = outQ
  BY DEF EndIn
<1> HIDE DEF b
<1>5. \A x \in Buffers :
         /\ IsIn(x, inQ') => bh'[x].state = "SENDING" /\ ~IsIn(x, ended')
         /\ IsIn(x, outQ') => bh'[x].state = "RECEIVING" /\ ~IsIn(x, ended')
         /\ IsIn(x, ended') => bh'[x].state \in {"SENDING", "RECEIVING"}
         /\ bh'[x].state \in {"SENDING", "RECEIVING"} =>
              IsIn(x, inQ') \/ IsIn(x, outQ') \/ IsIn(x, ended')
  BY <1>2, <1>3, <1>4 DEF QueueInv, Busy
<1> QED
  BY <1>1, <1>2, <1>3, <1>4, <1>5, QueueMoved

\* A transfer from the host ends.
LEMMA QueueEndOut ==
  ASSUME QueueInv, outQ # <<>>, EndOut,
         \A x \in Buffers : bh'[x].state = bh[x].state
  PROVE  QueueInv'
<1>1. /\ inQ \in Seq(Buffers) /\ outQ \in Seq(Buffers) /\ ended \in Seq(Buffers)
      /\ Once(inQ) /\ Once(outQ) /\ Once(ended)
      /\ \A x \in Buffers : IsIn(x, outQ) => ~IsIn(x, ended)
  BY DEF QueueInv
<1> DEFINE b == Head(outQ)
<1>2. /\ outQ' \in Seq(Buffers) /\ Once(outQ') /\ b \in Buffers /\ IsIn(b, outQ)
      /\ \A x \in Buffers : IsIn(x, outQ') <=> IsIn(x, outQ) /\ x # b
  BY <1>1, InTail DEF EndOut
<1>3. /\ ended' \in Seq(Buffers) /\ Once(ended')
      /\ \A x \in Buffers : IsIn(x, ended') <=> IsIn(x, ended) \/ x = b
  BY <1>1, <1>2, InAppend DEF EndOut
<1>4. inQ' = inQ
  BY DEF EndOut
<1> HIDE DEF b
<1>5. \A x \in Buffers :
         /\ IsIn(x, inQ') => bh'[x].state = "SENDING" /\ ~IsIn(x, ended')
         /\ IsIn(x, outQ') => bh'[x].state = "RECEIVING" /\ ~IsIn(x, ended')
         /\ IsIn(x, ended') => bh'[x].state \in {"SENDING", "RECEIVING"}
         /\ bh'[x].state \in {"SENDING", "RECEIVING"} =>
              IsIn(x, inQ') \/ IsIn(x, outQ') \/ IsIn(x, ended')
  BY <1>2, <1>3, <1>4 DEF QueueInv, Busy
<1> QED
  BY <1>1, <1>2, <1>3, <1>4, <1>5, QueueMoved

\* handle_exception takes a buffer from its queue.
LEMMA QueueCancel ==
  ASSUME QueueInv, NEW b \in Buffers, Busy(b), ~IsIn(b, ended), bh' = bh,
         inQ' = Without(b, inQ), outQ' = Without(b, outQ),
         ended' = Append(ended, b)
  PROVE  QueueInv'
<1>1. /\ inQ \in Seq(Buffers) /\ outQ \in Seq(Buffers) /\ ended \in Seq(Buffers)
      /\ Once(inQ) /\ Once(outQ) /\ Once(ended)
  BY DEF QueueInv
<1>2. /\ inQ' \in Seq(Buffers) /\ Once(inQ')
      /\ \A x \in Buffers : IsIn(x, inQ') <=> IsIn(x, inQ) /\ x # b
  BY <1>1, InWithout
<1>3. /\ outQ' \in Seq(Buffers) /\ Once(outQ')
      /\ \A x \in Buffers : IsIn(x, outQ') <=> IsIn(x, outQ) /\ x # b
  BY <1>1, InWithout
<1>4. /\ ended' \in Seq(Buffers) /\ Once(ended')
      /\ \A x \in Buffers : IsIn(x, ended') <=> IsIn(x, ended) \/ x = b
  BY <1>1, InAppend
<1>5. \A x \in Buffers :
         /\ IsIn(x, inQ') => bh'[x].state = "SENDING" /\ ~IsIn(x, ended')
         /\ IsIn(x, outQ') => bh'[x].state = "RECEIVING" /\ ~IsIn(x, ended')
         /\ IsIn(x, ended') => bh'[x].state \in {"SENDING", "RECEIVING"}
         /\ bh'[x].state \in {"SENDING", "RECEIVING"} =>
              IsIn(x, inQ') \/ IsIn(x, outQ') \/ IsIn(x, ended')
  BY <1>2, <1>3, <1>4 DEF QueueInv, Busy
<1> QED
  BY <1>2, <1>3, <1>4, <1>5, QueueMoved

\* A completion routine runs.
LEMMA QueueComplete ==
  ASSUME TypeInv, QueueInv, Complete
  PROVE  QueueInv'
<1>1. /\ inQ \in Seq(Buffers) /\ outQ \in Seq(Buffers) /\ ended \in Seq(Buffers)
      /\ Once(inQ) /\ Once(outQ) /\ Once(ended)
      /\ UNCHANGED <<inQ, outQ>>
  BY DEF QueueInv, Complete
<1> DEFINE b == Head(ended)
<1>2. /\ b \in Buffers /\ OnlyAt(b) /\ ended # <<>> /\ ended' = Tail(ended)
      /\ bh'[b].state \notin {"SENDING", "RECEIVING"}
  BY <1>1, CompleteForm
<1>3. /\ ended' \in Seq(Buffers) /\ Once(ended') /\ IsIn(b, ended)
      /\ \A x \in Buffers : IsIn(x, ended') <=> IsIn(x, ended) /\ x # b
  BY <1>1, <1>2, InTail
<1> HIDE DEF b
<1>4. \A x \in Buffers :
         /\ IsIn(x, inQ') => bh'[x].state = "SENDING" /\ ~IsIn(x, ended')
         /\ IsIn(x, outQ') => bh'[x].state = "RECEIVING" /\ ~IsIn(x, ended')
         /\ IsIn(x, ended') => bh'[x].state \in {"SENDING", "RECEIVING"}
         /\ bh'[x].state \in {"SENDING", "RECEIVING"} =>
              IsIn(x, inQ') \/ IsIn(x, outQ') \/ IsIn(x, ended')
  BY <1>1, <1>2, <1>3 DEF QueueInv, Busy, OnlyAt
<1> QED
  BY <1>1, <1>3, <1>4, QueueMoved
-----------------------------------------------------------------------------
(* What the steps do to the command.                                       *)

\* The constants, for the provers.
LEMMA ConstantsAre ==
  /\ NumBuffers \in Nat /\ NumBuffers >= 2
  /\ BlockLen \in Nat \ {0} /\ BufLen \in Nat \ {0} /\ BufLen % BlockLen = 0
  /\ FileLen \in Nat /\ FileLen % BlockLen = 0
  /\ U32 \in Nat \ {0} /\ FileLen < U32
  /\ ReplyLen \in Nat /\ ReplyLen <= BufLen
  /\ EmptyCommands \in BOOLEAN
  BY DataPathAssumption

\* The smaller of two numbers.
LEMMA AtMostIs ==
  ASSUME NEW a \in Int, NEW b \in Int
  PROVE  /\ AtMost(a, b) \in Int /\ AtMost(a, b) <= a /\ AtMost(a, b) <= b
         /\ AtMost(a, b) = a \/ AtMost(a, b) = b
  BY DEF AtMost

\* What check_command makes of the sizes.
LEMMA SizeIs ==
  ASSUME TypeInv
  PROVE  /\ cmd.len \in Nat /\ cmd.start \in Nat /\ cmd.size \in Nat
         /\ CdbSize(cmd) \in Nat /\ CdbSize(cmd) < U32
         /\ Size \in Nat /\ Size <= cmd.len /\ Size <= CdbSize(cmd)
         /\ Size = cmd.len \/ Size = CdbSize(cmd)
         /\ cmd.op \in {"READ", "WRITE"} /\ cmd.size < U32 =>
              CdbSize(cmd) = cmd.size
         /\ DataDir \in {"none", "in", "out"} /\ cmd.tag \in BOOLEAN
         /\ cmd.op \in DOMAIN Direction
<1>1. /\ cmd.op \in DOMAIN Direction /\ cmd.dir \in {"none", "in", "out"}
      /\ cmd.start \in Nat /\ cmd.size \in Nat /\ cmd.len \in Nat
      /\ cmd.tag \in BOOLEAN
  BY DEF TypeInv
<1>2. U32 \in Nat \ {0}
  BY ConstantsAre
<1>3. cmd.size % U32 \in Nat /\ cmd.size % U32 < U32
  BY <1>1, <1>2
<1>4. cmd.size < U32 => cmd.size % U32 = cmd.size
  BY <1>1, <1>2
<1>5. CdbSize(cmd) \in Nat /\ CdbSize(cmd) < U32
  BY <1>2, <1>3 DEF CdbSize
<1>6. cmd.op \in {"READ", "WRITE"} /\ cmd.size < U32 => CdbSize(cmd) = cmd.size
  BY <1>4 DEF CdbSize, Direction
<1>7. /\ Size \in Nat /\ Size <= cmd.len /\ Size <= CdbSize(cmd)
      /\ Size = cmd.len \/ Size = CdbSize(cmd)
  BY <1>1, <1>5, AtMostIs DEF Size, AtMost
<1> QED
  BY <1>1, <1>5, <1>6, <1>7 DEF DataDir

\* What check_command stores.
LEMMA CheckedIs ==
  ASSUME TypeInv, NEW sense \in BOOLEAN
  PROVE  /\ Checked(sense) \in Commons
         /\ Checked(sense).size = Size /\ Checked(sense).residue = cmd.len
         /\ Checked(sense).usb_amount_left = cmd.len
         /\ Checked(sense).phase_error = (cmd.len < CdbSize(cmd) \/ Conflicting)
         /\ Checked(sense).sense = sense
         /\ Checked(sense).tag = common.tag
         /\ Checked(sense).short = common.short
<1> DEFINE e == cmd.len < CdbSize(cmd) \/ Conflicting
<1>1. common \in Commons /\ Size \in Nat /\ cmd.len \in Nat /\ e \in BOOLEAN
  BY SizeIs DEF TypeInv
<1>2. Checked(sense) = [common EXCEPT !.size = Size, !.residue = cmd.len,
                          !.usb_amount_left = cmd.len, !.phase_error = e,
                          !.sense = sense]
  BY DEF Checked
<1> HIDE DEF e
<1>3. /\ Checked(sense) \in Commons
      /\ Checked(sense).size = Size /\ Checked(sense).residue = cmd.len
      /\ Checked(sense).usb_amount_left = cmd.len
      /\ Checked(sense).phase_error = e
      /\ Checked(sense).sense = sense
      /\ Checked(sense).tag = common.tag
      /\ Checked(sense).short = common.short
  BY <1>1, <1>2 DEF Commons
<1> QED
  BY <1>3 DEF e

-----------------------------------------------------------------------------
(* What the rounds of the kthread do.                                      *)

\* What kernel_read and kernel_write may do of n units, cut to whole blocks
\* when it is less.
LEMMA TransferredIs ==
  ASSUME NEW n \in Nat, NEW got \in Transferred(n)
  PROVE  /\ got \in 0 .. n /\ WholeBlocks(got) \in 0 .. got
         /\ (IF got < n THEN WholeBlocks(got) ELSE got) \in 0 .. got
         /\ (IF got < n THEN WholeBlocks(got) ELSE got) < n =>
              (IF got < n THEN WholeBlocks(got) ELSE got) % BlockLen = 0
<1>1. got \in 0 .. n
  BY DEF Transferred
<1>2. got \in Nat
  BY <1>1
<1>3. WholeBlocks(got) \in 0 .. got /\ WholeBlocks(got) % BlockLen = 0
  BY <1>2, WholeBlocksIs
<1> QED
  BY <1>1, <1>3

\* do_read reads n units, sends them or leaves them to finish_reply, and
\* notes when they are not all that could be read.
ReadMoves(n) ==
  /\ n \in Nat /\ n <= left /\ n <= BufLen /\ FileOffset + n <= FileLen
  /\ left' = left - n
  /\ common' \in Commons /\ common'.size = common.size
  /\ common'.residue = common.residue - n
  /\ common'.usb_amount_left = common.usb_amount_left
  /\ common'.phase_error = common.phase_error
  /\ common'.short = common.short /\ common'.tag = common.tag
  /\ bh' \in [Buffers -> Buffer] /\ OnlyAt(fill)
  /\ bh'[fill].data = Units(FileOffset, n)

\* The last round of do_read ...
ReadEnds(n) ==
  /\ kpc' = "finish" /\ ReadMoves(n)
  /\ bh'[fill].state = "FULL"
  /\ ~common'.sense => n = left
  /\ UNCHANGED <<fill, inQ>>

\* ... and one that another follows.
ReadGoesOn(n) ==
  /\ kpc' = "read" /\ ReadMoves(n) /\ common'.sense = common.sense
  /\ n > 0 /\ n < left /\ n % BlockLen = 0
  /\ bh'[fill].state = "SENDING" /\ bh'[fill].kind = "data"
  /\ bh'[fill].zero = FALSE
  /\ inQ' = Append(inQ, fill) /\ fill' = NextOf(fill) /\ fill' \in Buffers

\* A round of do_read is one of these, or finds an exception.
LEMMA ReadRoundForm ==
  ASSUME TypeInv, AmountInv, HostInv, ControlInv, ReadRound
  PROVE  /\ kpc = "read" /\ ~Busy(fill)
         /\ UNCHANGED <<drain, outQ, ended, to_req, more, cancelled, state, file,
                        hostVars>>
         /\ \/ /\ state # "NORMAL" /\ kpc' = "cancel"
               /\ UNCHANGED <<ringVars, inQ, common, left>>
            \/ /\ state = "NORMAL"
               /\ (\E n \in Nat : ReadEnds(n)) \/ (\E n \in Nat : ReadGoesOn(n))
<1>1. /\ kpc = "read" /\ ~Busy(fill)
      /\ UNCHANGED <<drain, outQ, ended, to_req, more, cancelled, state, file,
                     hostVars>>
  BY DEF ReadRound, ringVars
<1>2. CASE state # "NORMAL"
  BY <1>1, <1>2 DEF ReadRound
<1>3. CASE state = "NORMAL"
  <2> DEFINE amount == AtMost(AtMost(left, BufLen), FileLen - FileOffset)
  <2>1. PICK got \in Transferred(amount) :
          LET nread == IF got < amount THEN WholeBlocks(got) ELSE got
              data == Units(FileOffset, nread)
              failed == amount = 0 \/ nread < amount
          IN /\ left' = left - nread
             /\ \/ /\ failed \/ nread = left
                   /\ kpc' = "finish"
                   /\ bh' = [bh EXCEPT ![fill] = Filled(data)]
                   /\ common' = [common EXCEPT !.residue = @ - nread,
                                               !.sense = failed]
                   /\ UNCHANGED <<fill, inQ>>
                \/ /\ ~failed /\ nread < left
                   /\ StartIn("data", data, FALSE)
                   /\ common' = [common EXCEPT !.residue = @ - nread]
                   /\ UNCHANGED kpc
    BY <1>3 DEF ReadRound
  <2> DEFINE nread == IF got < amount THEN WholeBlocks(got) ELSE got
  <2> DEFINE data == Units(FileOffset, nread)
  <2> DEFINE failed == amount = 0 \/ nread < amount
  <2>2. /\ left \in Nat /\ common \in Commons /\ common.size = Size /\ left <= Size
        /\ FileOffset \in Nat /\ FileOffset <= FileLen
        /\ cmd.start \in Nat /\ (Size - left) % BlockLen = 0 /\ Size \in Nat
        /\ FileOffset = cmd.start + (Size - left)
        /\ left <= common.residue
    BY <1>1, SizeIs, SMTT(30) DEF TypeInv, AmountInv, FileOffset, Commons
  <2>3. /\ amount \in Nat /\ amount <= left /\ amount <= BufLen
        /\ amount <= FileLen - FileOffset
        /\ amount = left \/ amount = BufLen \/ amount = FileLen - FileOffset
    BY <2>2, ConstantsAre, AtMostIs DEF AtMost
  <2>4. FileOffset % BlockLen = 0 /\ (FileLen - FileOffset) % BlockLen = 0
    <3>1. hpc # "idle" /\ hpc # "reset"
      BY <1>1, <1>3 DEF ControlInv
    <3>2. cmd.start % BlockLen = 0
      BY <3>1 DEF HostInv
    <3>3. BlockLen \in Nat \ {0} /\ cmd.start \in Nat /\ Size - left \in Nat
      BY <2>2, ConstantsAre
    <3>4. (cmd.start + (Size - left)) % BlockLen = 0
      BY <2>2, <3>2, <3>3, ModAdd
    <3>5. FileOffset % BlockLen = 0
      BY <2>2, <3>4
    <3> QED
      BY <2>2, <3>3, <3>5, ConstantsAre, ModAdd
  <2> HIDE DEF amount
  <2>5. /\ nread \in Nat /\ nread <= amount
        /\ nread < amount => nread % BlockLen = 0
    BY <2>3, TransferredIs
  <2>6. data \in Contents
    <3> HIDE DEF nread
    <3> QED
      BY <2>2, <2>5, UnitsAre
  <2>7. /\ left' = left - nread
        /\ \/ /\ failed \/ nread = left
              /\ kpc' = "finish"
              /\ bh' = [bh EXCEPT ![fill] = Filled(data)]
              /\ common' = [common EXCEPT !.residue = @ - nread,
                                          !.sense = failed]
              /\ UNCHANGED <<fill, inQ>>
           \/ /\ ~failed /\ nread < left
              /\ StartIn("data", data, FALSE)
              /\ common' = [common EXCEPT !.residue = @ - nread]
              /\ UNCHANGED kpc
    BY <2>1
  <2>8. nread \in Nat /\ nread <= left /\ nread <= BufLen
        /\ FileOffset + nread <= FileLen
    BY <2>2, <2>3, <2>5, ConstantsAre
  <2> HIDE DEF nread, failed, data
  <2>9. CASE /\ failed \/ nread = left
             /\ kpc' = "finish"
             /\ bh' = [bh EXCEPT ![fill] = Filled(data)]
             /\ common' = [common EXCEPT !.residue = @ - nread, !.sense = failed]
             /\ UNCHANGED <<fill, inQ>>
    <3>0. PICK s \in BOOLEAN :
             /\ common' = [common EXCEPT !.residue = @ - nread, !.sense = s]
             /\ s <=> failed
      <4>1. failed \in BOOLEAN
        BY DEF failed
      <4> WITNESS failed \in BOOLEAN
      <4> QED
        BY <2>9
    <3>1. /\ bh' \in [Buffers -> Buffer] /\ OnlyAt(fill)
          /\ bh'[fill].state = "FULL" /\ bh'[fill].data = data
      BY <2>6, <2>9, FilledForm
    <3>2. /\ common' \in Commons /\ common'.residue = common.residue - nread
          /\ common'.size = common.size
          /\ common'.usb_amount_left = common.usb_amount_left
          /\ common'.phase_error = common.phase_error
          /\ common'.short = common.short
          /\ common'.sense = s /\ common'.tag = common.tag
      <4>1. nread <= common.residue
        BY <2>2, <2>3, <2>5 DEF Commons
      <4>2. common \in Commons /\ nread \in Nat
        BY <2>2, <2>5
      <4> QED
        <5>1. common' = [common EXCEPT !.residue = @ - nread, !.sense = s]
          BY <3>0
        <5>2. common.residue - nread \in Nat
          BY <4>1, <4>2 DEF Commons
        <5>3. /\ common'.residue = common.residue - nread
              /\ common'.size = common.size
              /\ common'.usb_amount_left = common.usb_amount_left
          BY <4>2, <5>1 DEF Commons
        <5>4. /\ common'.phase_error = common.phase_error
              /\ common'.short = common.short
              /\ common'.sense = s /\ common'.tag = common.tag
          BY <4>2, <5>1 DEF Commons
        <5>5. common' \in Commons
          BY <4>2, <5>1, <5>2 DEF Commons
        <5> QED
          BY <5>3, <5>4, <5>5
    <3>3. ~common'.sense => nread = left
      BY <2>9, <3>0, <3>2
    <3>4. ReadMoves(nread)
      BY <2>7, <2>8, <3>1, <3>2, Zenon DEF ReadMoves, data
    <3> QED
      BY <1>1, <1>3, <2>5, <2>9, <3>1, <3>3, <3>4 DEF ReadEnds
  <2>10. CASE /\ ~failed /\ nread < left
              /\ StartIn("data", data, FALSE)
              /\ common' = [common EXCEPT !.residue = @ - nread]
              /\ UNCHANGED kpc
    <3>1. /\ bh' \in [Buffers -> Buffer] /\ OnlyAt(fill)
          /\ bh'[fill].state = "SENDING" /\ bh'[fill].kind = "data"
          /\ bh'[fill].data = data /\ bh'[fill].zero = FALSE
          /\ inQ' = Append(inQ, fill) /\ fill' = NextOf(fill)
          /\ fill' \in Buffers
      BY <2>6, <2>10, StartInForm
    <3>2. /\ common' \in Commons /\ common'.residue = common.residue - nread
          /\ common'.size = common.size
          /\ common'.usb_amount_left = common.usb_amount_left
          /\ common'.phase_error = common.phase_error
          /\ common'.short = common.short
          /\ common'.sense = common.sense /\ common'.tag = common.tag
      <4>1. nread <= common.residue
        BY <2>2, <2>3, <2>5 DEF Commons
      <4> QED
        BY <2>2, <2>5, <2>10, <4>1 DEF Commons
    <3>3. nread = amount /\ nread > 0
      BY <2>3, <2>5, <2>10 DEF failed
    <3>4. nread % BlockLen = 0
      BY <2>3, <2>4, <2>10, <3>3, ConstantsAre
    <3>5. ReadMoves(nread)
      BY <2>7, <2>8, <3>1, <3>2, Zenon DEF ReadMoves, data
    <3> QED
      BY <1>1, <1>3, <2>5, <2>10, <3>1, <3>2, <3>3, <3>4, <3>5 DEF ReadGoesOn
  <2> QED
    BY <2>7, <2>9, <2>10
<1> QED
  BY <1>2, <1>3
\* do_verify reads n units, and goes on or ends.
VerifyMoves(n) ==
  /\ n \in Nat /\ n <= left /\ VerifyOffset + n <= FileLen
  /\ left' = left - n /\ left' \in Nat

VerifyEnds(n) ==
  /\ kpc' = "finish" /\ VerifyMoves(n)
  /\ common' \in Commons /\ common'.size = common.size
  /\ common'.residue = common.residue
  /\ common'.usb_amount_left = common.usb_amount_left
  /\ common'.phase_error = common.phase_error
  /\ common'.short = common.short /\ common'.tag = common.tag
  /\ ~common'.sense => n = left
  /\ bh' \in [Buffers -> Buffer] /\ OnlyAt(fill)
  /\ DataDir # "in" => bh' = bh
  /\ DataDir = "in" => bh'[fill].state = "FULL" /\ bh'[fill].data = <<>>

VerifyGoesOn(n) ==
  /\ kpc' = "verify" /\ VerifyMoves(n) /\ left' > 0
  /\ UNCHANGED <<bh, common>>

\* A round of do_verify is one of these, or finds an exception.
LEMMA VerifyRoundForm ==
  ASSUME TypeInv, AmountInv, VerifyRound
  PROVE  /\ kpc = "verify"
         /\ UNCHANGED <<fill, drain, inQ, outQ, ended, to_req, more, cancelled,
                        state, file, hostVars>>
         /\ \/ /\ state # "NORMAL" /\ kpc' = "cancel"
               /\ UNCHANGED <<bh, common, left>>
            \/ /\ state = "NORMAL"
               /\ (\E n \in Nat : VerifyEnds(n)) \/ (\E n \in Nat : VerifyGoesOn(n))
<1>1. /\ kpc = "verify"
      /\ UNCHANGED <<fill, drain, inQ, outQ, ended, to_req, more, cancelled,
                     state, file, hostVars>>
  BY DEF VerifyRound, udcVars
<1>2. CASE state # "NORMAL"
  BY <1>1, <1>2 DEF VerifyRound
<1>3. CASE state = "NORMAL"
  <2> DEFINE amount == AtMost(AtMost(left, BufLen), FileLen - VerifyOffset)
  <2>1. PICK got \in Transferred(amount) :
          LET nread == IF got < amount THEN WholeBlocks(got) ELSE got IN
          /\ left' = left - nread
          /\ \/ nread > 0 /\ left' > 0 /\ UNCHANGED <<kpc, bh, common>>
             \/ /\ nread = 0 \/ left' = 0
                /\ kpc' = "finish"
                /\ common' = [common EXCEPT !.sense = nread = 0]
                /\ bh' = IF DataDir = "in"
                         THEN [bh EXCEPT ![fill] = Filled(<<>>)] ELSE bh
    BY <1>3 DEF VerifyRound
  <2> DEFINE nread == IF got < amount THEN WholeBlocks(got) ELSE got
  <2>2. /\ left \in Nat /\ left > 0 /\ left <= cmd.size /\ common \in Commons
        /\ VerifyOffset \in Nat /\ VerifyOffset <= FileLen
    BY <1>1, SizeIs DEF TypeInv, AmountInv, VerifyOffset
  <2>3. /\ amount \in Nat /\ amount <= left
        /\ amount <= FileLen - VerifyOffset
    BY <2>2, ConstantsAre, AtMostIs DEF AtMost
  <2> HIDE DEF amount
  <2>4. nread \in Nat /\ nread <= amount
    BY <2>3, TransferredIs
  <2>5. /\ left' = left - nread
        /\ \/ nread > 0 /\ left' > 0 /\ UNCHANGED <<kpc, bh, common>>
           \/ /\ nread = 0 \/ left' = 0
              /\ kpc' = "finish"
              /\ common' = [common EXCEPT !.sense = nread = 0]
              /\ bh' = IF DataDir = "in"
                       THEN [bh EXCEPT ![fill] = Filled(<<>>)] ELSE bh
    BY <2>1
  <2> HIDE DEF nread
  <2>6. VerifyMoves(nread)
    BY <2>2, <2>3, <2>4, <2>5, ConstantsAre, SMTT(30) DEF VerifyMoves
  <2>7. CASE nread > 0 /\ left' > 0 /\ UNCHANGED <<kpc, bh, common>>
    <3>1. VerifyGoesOn(nread)
      BY <1>1, <2>6, <2>7 DEF VerifyGoesOn
    <3> QED
      BY <1>1, <1>3, <2>4, <3>1
  <2>8. CASE /\ nread = 0 \/ left' = 0
             /\ kpc' = "finish"
             /\ common' = [common EXCEPT !.sense = nread = 0]
             /\ bh' = IF DataDir = "in"
                      THEN [bh EXCEPT ![fill] = Filled(<<>>)] ELSE bh
    <3>1. PICK s \in BOOLEAN : /\ common' = [common EXCEPT !.sense = s]
                               /\ s <=> nread = 0
      <4> DEFINE s == nread = 0
      <4>1. s \in BOOLEAN
        OBVIOUS
      <4> WITNESS s \in BOOLEAN
      <4> QED
        BY <2>8
    <3>2. common' = [common EXCEPT !.sense = s]
      BY <3>1
    <3>3. /\ common'.residue = common.residue
          /\ common'.size = common.size
          /\ common'.usb_amount_left = common.usb_amount_left
      BY <2>2, <3>2 DEF Commons
    <3>4. /\ common'.phase_error = common.phase_error
          /\ common'.short = common.short
          /\ common'.sense = s /\ common'.tag = common.tag
      BY <2>2, <3>2 DEF Commons
    <3>5. common' \in Commons
      BY <2>2, <3>2 DEF Commons
    <3>6. ~common'.sense => nread = left
      BY <2>2, <2>4, <2>5, <2>8, <3>1, <3>4
    <3>7. /\ bh' \in [Buffers -> Buffer] /\ OnlyAt(fill)
          /\ DataDir # "in" => bh' = bh
          /\ DataDir = "in" => bh'[fill].state = "FULL" /\ bh'[fill].data = <<>>
      <4>1. CASE DataDir = "in"
        <5>1. <<>> \in Contents
          BY EmptySeq DEF Contents
        <5> QED
          BY <2>8, <4>1, <5>1, FilledForm
      <4>2. CASE DataDir # "in"
        BY <2>8, <4>2 DEF TypeInv, OnlyAt
      <4> QED
        BY <4>1, <4>2
    <3>8. VerifyEnds(nread)
      BY <2>6, <2>8, <3>3, <3>4, <3>5, <3>6, <3>7, Zenon DEF VerifyEnds
    <3> QED
      BY <1>1, <1>3, <2>4, <3>8
  <2> QED
    BY <2>5, <2>7, <2>8
<1> QED
  BY <1>2, <1>3

\* do_write, or throw_away_data, asks for n units.
Requests(n) ==
  /\ n \in Nat /\ n > 0 /\ n <= BufLen
  /\ common' \in Commons
  /\ common'.usb_amount_left = common.usb_amount_left - n
  /\ common'.size = common.size /\ common'.residue = common.residue
  /\ common'.phase_error = common.phase_error /\ common'.short = common.short
  /\ common'.sense = common.sense /\ common'.tag = common.tag
  /\ bh' \in [Buffers -> Buffer] /\ OnlyAt(fill)
  /\ bh'[fill].state = "RECEIVING" /\ bh'[fill].kind = "data"
  /\ bh'[fill].intended = n
  /\ outQ' = Append(outQ, fill)
  /\ fill' = NextOf(fill) /\ fill' \in Buffers

AskFor(n) ==
  /\ StartOut("data", n)
  /\ fill' = NextOf(fill)
  /\ common' = [common EXCEPT !.usb_amount_left = @ - n]

\* start_out_transfer asks for what is wanted, or for a whole buffer of it.
LEMMA RequestsIs ==
  ASSUME TypeInv, NEW m \in Nat, m > 0, m <= common.usb_amount_left,
         AskFor(AtMost(m, BufLen))
  PROVE  \E n \in Nat : /\ Requests(n) /\ n = AtMost(m, BufLen)
                        /\ n <= m /\ (n < m => n = BufLen)
<1> DEFINE n == AtMost(m, BufLen)
<1>1. n \in Nat /\ n > 0 /\ n <= BufLen /\ n <= m /\ (n < m => n = BufLen)
  BY ConstantsAre DEF AtMost
<1>2. /\ StartOut("data", n) /\ fill' = NextOf(fill)
      /\ common' = [common EXCEPT !.usb_amount_left = @ - n]
  BY DEF AskFor
<1> HIDE DEF n
<1>3. common \in Commons /\ common.usb_amount_left - n \in Nat /\ fill \in Buffers
  BY <1>1 DEF TypeInv, Commons
<1>4. common' \in Commons
  BY <1>2, <1>3 DEF Commons
<1>5. /\ common'.usb_amount_left = common.usb_amount_left - n
      /\ common'.size = common.size /\ common'.residue = common.residue
  BY <1>2, <1>3 DEF Commons
<1>6. /\ common'.phase_error = common.phase_error /\ common'.short = common.short
      /\ common'.sense = common.sense /\ common'.tag = common.tag
  BY <1>2, <1>3 DEF Commons
<1>7. /\ bh' \in [Buffers -> Buffer] /\ OnlyAt(fill)
      /\ bh'[fill].state = "RECEIVING" /\ bh'[fill].kind = "data"
      /\ bh'[fill].intended = n /\ outQ' = Append(outQ, fill)
  BY <1>1, <1>2, StartOutForm
<1>8. fill' \in Buffers
  BY <1>2, <1>3, NextOfIs
<1>9. Requests(n)
  BY <1>1, <1>2, <1>4, <1>5, <1>6, <1>7, <1>8, Zenon DEF Requests
<1>10. n = AtMost(m, BufLen)
  BY DEF n
<1> QED
  BY <1>1, <1>9, <1>10

\* do_write finds that the medium ends before what it would ask for.
WriteRefuses ==
  /\ UsbOffset >= FileLen /\ more' = FALSE
  /\ common' \in Commons /\ common'.sense = TRUE
  /\ common'.usb_amount_left = common.usb_amount_left
  /\ common'.size = common.size /\ common'.residue = common.residue
  /\ common'.phase_error = common.phase_error /\ common'.short = common.short
  /\ common'.tag = common.tag
  /\ UNCHANGED <<bh, fill, outQ, to_req>>

\* ... or asks for n units of it.
WriteAsks(n) ==
  /\ UsbOffset < FileLen /\ Requests(n)
  /\ n <= to_req /\ (n < to_req => n = BufLen)
  /\ to_req' = to_req - n /\ (more' <=> to_req' > 0) /\ more' \in BOOLEAN

\* What do_write may do while there is a buffer.
LEMMA WriteRequestForm ==
  ASSUME TypeInv, WriteRequest, to_req > 0, to_req <= common.usb_amount_left
  PROVE  /\ kpc = "write" /\ bh[fill].state = "EMPTY" /\ more
         /\ UNCHANGED <<kpc, drain, inQ, ended, left, cancelled, state, file,
                        hostVars>>
         /\ WriteRefuses \/ (\E n \in Nat : WriteAsks(n))
<1>1. /\ kpc = "write" /\ bh[fill].state = "EMPTY" /\ more
      /\ UNCHANGED <<kpc, drain, inQ, ended, left, cancelled, state, file,
                     hostVars>>
  BY DEF WriteRequest, MayRequest
<1>2. to_req \in Nat /\ common \in Commons
  BY DEF TypeInv
<1>3. CASE /\ UsbOffset >= FileLen
           /\ more' = FALSE
           /\ common' = [common EXCEPT !.sense = TRUE]
           /\ UNCHANGED <<bh, fill, outQ, to_req>>
  <2>1. common' = [common EXCEPT !.sense = TRUE]
    BY <1>3
  <2>2. common' \in Commons
    BY <1>2, <2>1 DEF Commons
  <2>3. /\ common'.usb_amount_left = common.usb_amount_left
        /\ common'.size = common.size /\ common'.residue = common.residue
    BY <1>2, <2>1 DEF Commons
  <2>4. /\ common'.phase_error = common.phase_error
        /\ common'.short = common.short /\ common'.sense = TRUE
        /\ common'.tag = common.tag
    BY <1>2, <2>1 DEF Commons
  <2>5. WriteRefuses
    BY <1>3, <2>2, <2>3, <2>4, Zenon DEF WriteRefuses
  <2> QED
    BY <1>1, <2>5
<1>4. CASE /\ UsbOffset < FileLen
           /\ LET amount == AtMost(to_req, BufLen) IN
                /\ StartOut("data", amount)
                /\ fill' = NextOf(fill)
                /\ common' = [common EXCEPT !.usb_amount_left = @ - amount]
                /\ to_req' = to_req - amount
                /\ more' = (to_req' > 0)
  <2>1. PICK m \in Nat : m = to_req
    BY <1>2
  <2>2. AskFor(AtMost(m, BufLen))
    BY <1>4, <2>1 DEF AskFor
  <2>3. m > 0 /\ m <= common.usb_amount_left
    BY <1>2, <2>1
  <2>4. PICK n \in Nat : /\ Requests(n) /\ n = AtMost(m, BufLen)
                        /\ n <= m /\ (n < m => n = BufLen)
    BY <2>2, <2>3, RequestsIs
  <2>5. to_req' = to_req - n
    BY <1>4, <2>1, <2>4
  <2>6. (more' <=> to_req' > 0) /\ more' \in BOOLEAN
    <3>1. more' \in BOOLEAN
      BY <1>4
    <3>2. more' => to_req' > 0
      BY <1>4
    <3>3. to_req' > 0 => more'
      BY <1>4
    <3> QED
      BY <3>1, <3>2, <3>3
  <2>7. WriteAsks(n)
    BY <1>4, <2>1, <2>4, <2>5, <2>6 DEF WriteAsks
  <2> QED
    BY <1>1, <2>7
<1> QED
  BY <1>3, <1>4 DEF WriteRequest
LEMMA ThrowAwayRequestForm ==
  ASSUME TypeInv, ThrowAwayRequest
  PROVE  /\ kpc = "throw" /\ bh[fill].state = "EMPTY"
         /\ UNCHANGED <<kpc, drain, inQ, ended, left, to_req, more, cancelled,
                        state, file, hostVars>>
         /\ \E n \in Nat : Requests(n) /\ n <= common.usb_amount_left
<1>1. /\ kpc = "throw" /\ bh[fill].state = "EMPTY" /\ common.usb_amount_left > 0
      /\ UNCHANGED <<kpc, drain, inQ, ended, left, to_req, more, cancelled,
                     state, file, hostVars>>
  BY DEF ThrowAwayRequest, MustRequest, ioVars
<1>2. PICK m \in Nat : m = common.usb_amount_left
  BY DEF TypeInv, Commons
<1>3. AskFor(AtMost(m, BufLen))
  BY <1>2 DEF ThrowAwayRequest, AskFor
<1>4. m > 0 /\ m <= common.usb_amount_left
  BY <1>1, <1>2
<1>5. PICK n \in Nat : /\ Requests(n) /\ n = AtMost(m, BufLen)
                       /\ n <= m /\ (n < m => n = BufLen)
  BY <1>3, <1>4, RequestsIs
<1> QED
  BY <1>1, <1>2, <1>5

\* The oldest buffer asked for, once it is complete: the host has sent what it
\* holds, from its place.
LEMMA OldestIs ==
  ASSUME TypeInv, QueueInv, NEW k \in 1 .. NumBuffers, NEW f \in [0 .. k -> Nat],
         Ring(k, f), Sent(k, f), ~Busy(drain)
  PROVE  /\ bh[drain].state = "FULL" /\ bh[drain].kind = "data"
         /\ Len(outQ) < k /\ Len(outQ) \in Nat
         /\ bh[drain].intended = f[1] - f[0] /\ f[0] < f[1]
         /\ \E n \in Nat :
              /\ bh[drain].data = Units(f[0], n) /\ Len(bh[drain].data) = n
              /\ n <= f[1] - f[0] /\ f[0] + n <= sent
              /\ ~stopped => n = f[1] - f[0]
<1>1. /\ k \in Nat /\ k > 0 /\ f[0] \in Nat /\ f[1] \in Nat /\ drain \in Buffers
      /\ NumBuffers \in Nat /\ drain < NumBuffers /\ drain \in Nat
  BY ConstantsAre DEF TypeInv, Buffers
<1>2. Slot(drain, 0) = drain
  BY <1>1 DEF Slot
<1>3. /\ bh[drain].state \in {"RECEIVING", "FULL"} /\ bh[drain].kind = "data"
      /\ bh[drain].intended = f[1] - f[0]
  <2>1. 0 \in 0 .. k - 1 /\ 0 + 1 = 1
    BY <1>1
  <2> QED
    BY <1>2, <2>1 DEF Ring
<1>4. f[0] < f[1]
  <2>1. 0 \in 0 .. k /\ 1 \in 0 .. k /\ 0 < 1
    BY <1>1
  <2> QED
    BY <2>1 DEF Ring
<1>5. bh[drain].state = "FULL"
  BY <1>3 DEF Busy
<1>6. outQ \in Seq(Buffers) /\ Len(outQ) \in Nat
  BY DEF QueueInv
<1>7. PICK e \in 0 .. k : k = e + Len(outQ) /\ SentUpTo(e, f)
  BY DEF Sent
<1>8. e > 0
  <2> SUFFICES ASSUME e = 0 PROVE FALSE
    BY <1>1
  <2>1. 1 \in 1 .. Len(outQ)
    BY <1>1, <1>6, <1>7
  <2>2. outQ[1] = Slot(drain, 0 + 1 - 1)
    BY <1>7, <2>1 DEF SentUpTo
  <2>3. outQ[1] = drain
    BY <1>2, <2>2
  <2>4. IsIn(drain, outQ)
    BY <2>1, <2>3 DEF IsIn
  <2> QED
    BY <1>1, <1>5, <2>4 DEF QueueInv
<1>9. Len(outQ) < k
  BY <1>1, <1>6, <1>7, <1>8
<1>10. LET n == Len(bh[drain].data) IN
       /\ bh[drain].data = Units(f[0], n)
       /\ n <= f[1] - f[0] /\ f[0] + n <= sent
       /\ ~stopped => n = f[1] - f[0]
  <2>1. 0 \in 0 .. e - 1 /\ 0 + 1 = 1
    BY <1>1, <1>7, <1>8
  <2> QED
    BY <1>2, <1>7, <2>1 DEF SentUpTo
<1>11. Len(bh[drain].data) \in Nat
  BY <1>1, SMTT(30) DEF TypeInv, Buffer, Contents
<1> QED
  BY <1>1, <1>3, <1>4, <1>5, <1>6, <1>9, <1>10, <1>11

\* do_write writes put of the n units of a buffer, from the one at a, and
\* counts nw of them.
WriteMoves(a, n, put, nw) ==
  LET amount == WholeBlocks(AtMost(n, FileLen - (cmd.start + a)))
      failed == nw < amount
      short == n < bh[drain].intended
  IN
  /\ put <= amount /\ nw <= put /\ nw % BlockLen = 0 /\ amount <= n
  /\ cmd.start + a + amount <= FileLen
  /\ nw < amount \/ nw = amount
  /\ file' \in [0 .. FileLen - 1 -> Int]
  /\ \A p \in 0 .. FileLen - 1 :
       file'[p] = IF cmd.start + a <= p /\ p < cmd.start + a + put
                  THEN p - cmd.start ELSE file[p]
  /\ \/ /\ amount > 0 /\ state # "NORMAL" /\ kpc' = "cancel"
        /\ UNCHANGED <<common, left>>
     \/ /\ amount = 0 \/ state = "NORMAL"
        /\ left' = left - nw
        /\ common' \in Commons /\ common'.size = common.size
        /\ common'.residue = common.residue - nw
        /\ common'.usb_amount_left = common.usb_amount_left
        /\ common'.phase_error = common.phase_error
        /\ common'.tag = common.tag
        /\ common'.sense <=> common.sense \/ failed
        /\ common'.short <=> ~failed /\ short
        /\ IF failed \/ short \/ left' = 0
           THEN kpc' = IF state = "NORMAL" THEN "finish" ELSE "cancel"
           ELSE kpc' = "write"

\* What do_write takes from a buffer is cut to whole blocks of the medium.
LEMMA AmountIs ==
  ASSUME NEW n \in Nat, NEW m \in Nat
  PROVE  /\ WholeBlocks(AtMost(n, m)) \in Nat
         /\ WholeBlocks(AtMost(n, m)) <= n /\ WholeBlocks(AtMost(n, m)) <= m
         /\ WholeBlocks(AtMost(n, m)) % BlockLen = 0
<1>1. AtMost(n, m) \in Nat /\ AtMost(n, m) <= n /\ AtMost(n, m) <= m
  BY DEF AtMost
<1> QED
  BY <1>1, WholeBlocksIs

\* The i-th unit of a buffer of units from a goes to its own place.
LEMMA PlaceIs ==
  ASSUME NEW a \in Int, NEW i \in Int, NEW p \in Int, NEW s \in Int,
         i = p - (s + a) + 1
  PROVE  a + i - 1 = p - s
  OBVIOUS

\* do_write takes a buffer of n units from the one at a.
LEMMA WriteRoundForm ==
  ASSUME TypeInv, WriteRound, NEW a \in Nat, NEW n \in Nat,
         bh[drain].data = Units(a, n), Len(bh[drain].data) = n,
         FileOffset = cmd.start + a, cmd.start + a <= FileLen,
         n <= left, left <= common.residue
  PROVE  /\ kpc = "drain" /\ ~Busy(drain)
         /\ UNCHANGED <<fill, inQ, outQ, ended, to_req, more, cancelled, state,
                        hostVars>>
         /\ bh' \in [Buffers -> Buffer] /\ OnlyAt(drain)
         /\ bh'[drain].state = "EMPTY"
         /\ drain' = NextOf(drain) /\ drain' \in Buffers
         /\ \E put, nw \in Nat : WriteMoves(a, n, put, nw)
<1>1. /\ kpc = "drain" /\ ~Busy(drain)
      /\ UNCHANGED <<fill, inQ, outQ, ended, to_req, more, cancelled, state,
                     hostVars>>
  BY DEF WriteRound, udcVars
<1>2. drain \in Buffers /\ cmd.start \in Nat /\ left \in Nat /\ common \in Commons
      /\ file \in [0 .. FileLen - 1 -> Int]
  BY SizeIs DEF TypeInv
<1>3. /\ bh' \in [Buffers -> Buffer] /\ OnlyAt(drain)
      /\ bh'[drain].state = "EMPTY"
      /\ drain' = NextOf(drain) /\ drain' \in Buffers
  BY <1>2, EmptiedForm, NextOfIs DEF WriteRound, DrainBuffer
<1>4. PICK m \in Nat : m = FileLen - (cmd.start + a)
  BY <1>2, ConstantsAre, SMTT(30)
<1> DEFINE amount == WholeBlocks(AtMost(n, m))
<1>5. /\ amount \in Nat /\ amount <= n /\ amount <= m
      /\ amount % BlockLen = 0
  BY AmountIs
<1>6. WholeBlocks(AtMost(n, FileLen - (cmd.start + a))) = amount
  BY <1>4
<1>7. PICK put \in Transferred(amount) :
        LET nwritten == IF put < amount THEN WholeBlocks(put) ELSE put
            failed == nwritten < amount
            short == n < bh[drain].intended
        IN /\ file' = Written(FileOffset, bh[drain].data, put)
           /\ \/ /\ amount > 0 /\ state # "NORMAL" /\ kpc' = "cancel"
                 /\ UNCHANGED <<common, left>>
              \/ /\ amount = 0 \/ state = "NORMAL"
                 /\ left' = left - nwritten
                 /\ common' = [common EXCEPT !.residue = @ - nwritten,
                                !.sense = @ \/ failed,
                                !.short = ~failed /\ short]
                 /\ IF failed \/ short \/ left' = 0
                    THEN Unless("finish") ELSE kpc' = "write"
  BY <1>6 DEF WriteRound, IsShort
<1> HIDE DEF amount
<1>8. PICK nw \in Nat : nw = IF put < amount THEN WholeBlocks(put) ELSE put
  BY <1>5, TransferredIs
<1>9. /\ put \in Nat /\ put <= amount /\ nw <= put
      /\ nw < amount \/ nw = amount
      /\ nw % BlockLen = 0
  BY <1>5, <1>8, TransferredIs
<1>10. cmd.start + a + amount <= FileLen
  BY <1>2, <1>4, <1>5, ConstantsAre, SMTT(30)
<1>11. /\ file' \in [0 .. FileLen - 1 -> Int]
       /\ \A p \in 0 .. FileLen - 1 :
            file'[p] = IF cmd.start + a <= p /\ p < cmd.start + a + put
                       THEN p - cmd.start ELSE file[p]
  <2>1. file' = Written(FileOffset, bh[drain].data, put)
    BY <1>7
  <2>2. DOMAIN file = 0 .. FileLen - 1
    BY <1>2
  <2>3. file' = [p \in 0 .. FileLen - 1 |->
                   IF p \in FileOffset .. FileOffset + put - 1
                   THEN bh[drain].data[p - FileOffset + 1] ELSE file[p]]
    BY <2>1, <2>2 DEF Written
  <2>4. \A p \in 0 .. FileLen - 1 :
           file'[p] = IF cmd.start + a <= p /\ p < cmd.start + a + put
                      THEN p - cmd.start ELSE file[p]
    <3> SUFFICES ASSUME NEW p \in 0 .. FileLen - 1
                 PROVE  file'[p] = IF cmd.start + a <= p /\ p < cmd.start + a + put
                                   THEN p - cmd.start ELSE file[p]
      OBVIOUS
    <3>1. /\ p \in Int /\ FileOffset \in Int /\ put \in Nat /\ put <= n
          /\ cmd.start \in Nat /\ FileOffset = cmd.start + a
      BY <1>2, <1>5, <1>9, ConstantsAre, SMTT(30)
    <3>2. CASE cmd.start + a <= p /\ p < cmd.start + a + put
      <4>1. PICK i \in 1 .. n : i = p - FileOffset + 1
        <5>1. p - (cmd.start + a) + 1 \in 1 .. n
          BY <3>1, <3>2, SMTT(30)
        <5> QED
          BY <3>1, <5>1
      <4>2. Units(a, n)[i] = a + i - 1
        BY DEF Units
      <4>3. p \in FileOffset .. FileOffset + put - 1
        BY <1>2, <1>9, <3>1, <3>2, SMTT(30)
      <4>4. file'[p] = bh[drain].data[i]
        BY <2>3, <4>1, <4>3
      <4>5. a + i - 1 = p - cmd.start
        <5>1. /\ i = p - (cmd.start + a) + 1 /\ a \in Int /\ i \in Int
              /\ p \in Int /\ cmd.start \in Int
          BY <3>1, <4>1
        <5> QED
          BY <5>1, PlaceIs, SMTT(30)
      <4> QED
        BY <3>2, <4>2, <4>4, <4>5
    <3>3. CASE ~(cmd.start + a <= p /\ p < cmd.start + a + put)
      <4>1. p \notin FileOffset .. FileOffset + put - 1
        BY <1>2, <1>9, <3>1, <3>3, SMTT(30)
      <4> QED
        BY <2>3, <3>3, <4>1
    <3> QED
      BY <3>2, <3>3
  <2>5. \A p \in 0 .. FileLen - 1 : file'[p] \in Int
    BY <1>2, <2>4, ConstantsAre, SMTT(30)
  <2> QED
    BY <2>3, <2>4, <2>5
<1> DEFINE failed == nw < amount
<1> DEFINE short == n < bh[drain].intended
<1>12. CASE /\ amount > 0 /\ state # "NORMAL" /\ kpc' = "cancel"
            /\ UNCHANGED <<common, left>>
  <2>1. WriteMoves(a, n, put, nw)
    BY <1>5, <1>6, <1>9, <1>10, <1>11, <1>12, Zenon DEF WriteMoves
  <2> QED
    BY <1>1, <1>3, <1>9, <2>1
<1>13. CASE /\ amount = 0 \/ state = "NORMAL"
            /\ left' = left - nw
            /\ common' = [common EXCEPT !.residue = @ - nw,
                           !.sense = @ \/ failed,
                           !.short = ~failed /\ short]
            /\ IF failed \/ short \/ left' = 0
               THEN Unless("finish") ELSE kpc' = "write"
  <2> HIDE DEF failed, short
  <2>1. PICK s \in BOOLEAN, t \in BOOLEAN :
           /\ common' = [common EXCEPT !.residue = @ - nw, !.sense = s,
                                       !.short = t]
           /\ s <=> common.sense \/ failed
           /\ t <=> ~failed /\ short
    <3> DEFINE s == common.sense \/ failed
    <3> DEFINE t == ~failed /\ short
    <3>1. s \in BOOLEAN /\ t \in BOOLEAN
      OBVIOUS
    <3> WITNESS s \in BOOLEAN, t \in BOOLEAN
    <3> QED
      BY <1>13
  <2>2. common' = [common EXCEPT !.residue = @ - nw, !.sense = s, !.short = t]
    BY <2>1
  <2>3. nw <= common.residue /\ common.residue - nw \in Nat
    BY <1>2, <1>5, <1>9, SMTT(30) DEF Commons
  <2>4. /\ common'.residue = common.residue - nw
        /\ common'.size = common.size
        /\ common'.usb_amount_left = common.usb_amount_left
    BY <1>2, <2>2 DEF Commons
  <2>5. /\ common'.phase_error = common.phase_error
        /\ common'.short = t
        /\ common'.sense = s /\ common'.tag = common.tag
    BY <1>2, <2>2 DEF Commons
  <2>6. common' \in Commons
    BY <1>2, <2>2, <2>3 DEF Commons
  <2>7. IF failed \/ short \/ left' = 0
        THEN kpc' = IF state = "NORMAL" THEN "finish" ELSE "cancel"
        ELSE kpc' = "write"
    BY <1>13 DEF Unless
  <2>8. (common'.sense <=> common.sense \/ failed)
        /\ (common'.short <=> ~failed /\ short)
    BY <2>1, <2>5
  <2>9. WriteMoves(a, n, put, nw)
    BY <1>5, <1>6, <1>9, <1>10, <1>11, <1>13, <2>4, <2>5, <2>6, <2>7, <2>8, Zenon
       DEF WriteMoves, failed, short
  <2> QED
    BY <1>1, <1>3, <1>9, <2>9
<1> QED
  <2> HIDE DEF failed, short
  <2> QED
    BY <1>7, <1>8, <1>12, <1>13 DEF failed, short
\* finish_reply sends the last buffer: the one that was left to it, or one
\* whose length no one set.
LEMMA SendLastForm ==
  ASSUME TypeInv, SendLastBuffer
  PROVE  /\ fill' = NextOf(fill) /\ fill' \in Buffers
         /\ inQ' = Append(inQ, fill)
         /\ bh' \in [Buffers -> Buffer] /\ OnlyAt(fill)
         /\ bh'[fill].state = "SENDING" /\ bh'[fill].kind = "data"
         /\ bh'[fill].zero <=> common.residue > 0
         /\ bh[fill].state = "FULL" => bh'[fill].data = bh[fill].data
         /\ bh[fill].state # "FULL" =>
              \E n \in Nat : bh'[fill].data = Units(FileLen, n)
<1>1. PICK last \in IF bh[fill].state = "FULL" THEN {bh[fill].data}
                    ELSE {Units(FileLen, n) : n \in 0 .. BufLen} :
        StartIn("data", last, common.residue > 0)
  BY DEF SendLastBuffer
<1>2. PICK zero \in BOOLEAN : (zero <=> common.residue > 0)
                                /\ StartIn("data", last, zero)
  <2> DEFINE z == common.residue > 0
  <2>1. z \in BOOLEAN
    OBVIOUS
  <2> WITNESS z \in BOOLEAN
  <2> QED
    BY <1>1
<1>3. last \in Contents
  <2>1. CASE bh[fill].state = "FULL"
    BY <1>1, <2>1 DEF TypeInv, Buffer
  <2>2. CASE bh[fill].state # "FULL"
    <3>1. PICK n \in 0 .. BufLen : last = Units(FileLen, n)
      BY <1>1, <2>2
    <3>2. FileLen \in Int /\ n \in Nat
      BY ConstantsAre
    <3> QED
      BY <3>1, <3>2, UnitsAre
  <2> QED
    BY <2>1, <2>2
<1>4. /\ bh' \in [Buffers -> Buffer] /\ OnlyAt(fill)
      /\ bh'[fill].state = "SENDING" /\ bh'[fill].kind = "data"
      /\ bh'[fill].data = last /\ bh'[fill].zero = zero
      /\ inQ' = Append(inQ, fill) /\ fill' = NextOf(fill)
      /\ fill' \in Buffers
  BY <1>2, <1>3, StartInForm
<1>5. bh[fill].state = "FULL" => bh'[fill].data = bh[fill].data
  BY <1>1, <1>4
<1>6. bh[fill].state # "FULL" => \E n \in Nat : bh'[fill].data = Units(FileLen, n)
  <2> SUFFICES ASSUME bh[fill].state # "FULL"
               PROVE  \E n \in Nat : bh'[fill].data = Units(FileLen, n)
    OBVIOUS
  <2>1. PICK n \in 0 .. BufLen : last = Units(FileLen, n)
    BY <1>1
  <2>2. n \in Nat
    BY ConstantsAre
  <2> QED
    BY <1>4, <2>1, <2>2
<1> QED
  BY <1>2, <1>4, <1>5, <1>6

\* What a command starts with, whatever it is.
Started ==
  /\ kpc = "start" /\ ~Busy(fill) /\ drain' = fill
  /\ UNCHANGED <<fill, inQ, outQ, ended, cancelled, state, file, hostVars>>
  /\ common' \in Commons /\ common'.size = Size
  /\ common'.usb_amount_left = cmd.len
  /\ common'.phase_error = (cmd.len < CdbSize(cmd) \/ Conflicting)
  /\ common'.tag = common.tag /\ common'.short = common.short

ToFinish == kpc' = IF state = "NORMAL" THEN "finish" ELSE "cancel"

\* A command that has its reply of n units at once.
StartsReply(n) ==
  /\ Started /\ ToFinish /\ UNCHANGED ioVars
  /\ n \in Nat /\ n <= cmd.len /\ n <= BufLen
  /\ \/ common'.sense \/ Conflicting
     \/ cmd.op \in {"INQUIRY", "TEST_UNIT_READY"}
  /\ bh' \in [Buffers -> Buffer] /\ OnlyAt(fill)
  /\ IF DataDir = "in"
     THEN /\ common'.residue = cmd.len - n
          /\ bh'[fill].state = "FULL" /\ bh'[fill].data = Units(0, n)
          /\ n > 0 => cmd.op \in {"INQUIRY", "TEST_UNIT_READY"}
     ELSE common'.residue = cmd.len /\ bh' = bh

\* A READ or a WRITE.
StartsTransfer ==
  /\ Started /\ ~Conflicting /\ cmd.op \in {"READ", "WRITE"}
  /\ cmd.start < FileLen
  /\ common'.residue = cmd.len /\ common'.sense = FALSE
  /\ left' = Size /\ left' \in Nat /\ to_req' \in Nat /\ more' \in BOOLEAN
  /\ to_req' = IF cmd.op = "WRITE" THEN Size ELSE 0
  /\ more' <=> cmd.op = "WRITE" /\ Size > 0
  /\ IF Size = 0 THEN ToFinish
     ELSE kpc' = IF cmd.op = "READ" THEN "read" ELSE "write"
  /\ UNCHANGED bh

\* A VERIFY.
StartsVerify ==
  /\ Started /\ cmd.op = "VERIFY" /\ cmd.start < FileLen
  /\ common'.residue = cmd.len /\ common'.sense = FALSE
  /\ left' = cmd.size
  /\ IF cmd.size = 0 THEN ToFinish ELSE kpc' = "verify"
  /\ UNCHANGED <<bh, to_req, more>>

\* What all commands have in common.
LEMMA StartedIs ==
  ASSUME TypeInv, kpc = "start", ~Busy(fill), drain' = fill,
         UNCHANGED <<fill, udcVars, cancelled, state, file, hostVars>>,
         NEW sense \in BOOLEAN, NEW n \in Nat, n <= cmd.len,
         \/ common' = Checked(sense)
         \/ common' = [Checked(sense) EXCEPT !.residue = @ - n]
  PROVE  /\ Started /\ common'.sense = sense
         /\ common' = Checked(sense) => common'.residue = cmd.len
         /\ common' = [Checked(sense) EXCEPT !.residue = @ - n] =>
              common'.residue = cmd.len - n
<1> DEFINE c == Checked(sense)
<1> DEFINE e == cmd.len < CdbSize(cmd) \/ Conflicting
<1>1. /\ c \in Commons
      /\ c.size = Size /\ c.residue = cmd.len
      /\ c.usb_amount_left = cmd.len
      /\ c.phase_error = e
      /\ c.sense = sense
      /\ c.tag = common.tag
      /\ c.short = common.short
  BY CheckedIs
<1> HIDE DEF c, e
<1>2. cmd.len \in Nat /\ cmd.len - n \in Nat
  BY SizeIs
<1>3. CASE common' = c
  <2>1. /\ common' \in Commons /\ common'.size = Size
        /\ common'.usb_amount_left = cmd.len
        /\ common'.phase_error = e
        /\ common'.tag = common.tag /\ common'.short = common.short
        /\ common'.sense = sense /\ common'.residue = cmd.len
    BY <1>1, <1>3
  <2>2. Started
    BY <2>1 DEF Started, udcVars, e
  <2>3. common' = [c EXCEPT !.residue = @ - n] => n = 0
    <3>1. [c EXCEPT !.residue = @ - n].residue = cmd.len - n
      BY <1>1 DEF Commons
    <3> QED
      BY <1>2, <2>1, <3>1
  <2> QED
    BY <1>2, <2>1, <2>2, <2>3 DEF c
<1>4. CASE common' = [c EXCEPT !.residue = @ - n]
  <2>1. /\ common'.size = Size /\ common'.usb_amount_left = cmd.len
        /\ common'.residue = cmd.len - n
    BY <1>1, <1>4 DEF Commons
  <2>2. /\ common'.phase_error = c.phase_error /\ common'.tag = c.tag
        /\ common'.short = c.short /\ common'.sense = c.sense
    BY <1>1, <1>4 DEF Commons
  <2>3. common' \in Commons
    BY <1>1, <1>2, <1>4 DEF Commons
  <2>4. common'.phase_error = e
    BY <1>1, <2>2, Zenon
  <2>5. Started
    BY <1>1, <2>1, <2>2, <2>3, <2>4, Zenon DEF Started, udcVars, e
  <2>6. common' = c => n = 0
    BY <1>1, <1>2, <2>1
  <2> QED
    BY <1>1, <1>2, <2>1, <2>2, <2>5, <2>6 DEF c
<1> QED
  BY <1>3, <1>4 DEF c
LEMMA ReplyAtOnceForm ==
  ASSUME TypeInv, kpc = "start", ~Busy(fill), drain' = fill,
         UNCHANGED <<fill, udcVars, cancelled, state, file, hostVars>>,
         NEW sense \in BOOLEAN, NEW n \in Nat, n <= cmd.len, n <= BufLen,
         sense \/ Conflicting \/ cmd.op \in {"INQUIRY", "TEST_UNIT_READY"},
         n > 0 => cmd.op \in {"INQUIRY", "TEST_UNIT_READY"},
         ReplyAtOnce(sense, n)
  PROVE  StartsReply(n)
<1>1. ToFinish /\ UNCHANGED ioVars
  BY DEF ReplyAtOnce, Unless, ToFinish
<1>2. CASE DataDir = "in"
  <2>1. /\ common' = [Checked(sense) EXCEPT !.residue = @ - n]
        /\ bh' = [bh EXCEPT ![fill] = Filled(Units(0, n))]
    BY <1>2 DEF ReplyAtOnce
  <2>2. Started /\ common'.sense = sense /\ common'.residue = cmd.len - n
    BY <2>1, StartedIs
  <2>3. Units(0, n) \in Contents
    BY UnitsAre
  <2>4. /\ bh' \in [Buffers -> Buffer] /\ OnlyAt(fill)
        /\ bh'[fill].state = "FULL" /\ bh'[fill].data = Units(0, n)
    BY <2>1, <2>3, FilledForm
  <2>5. common'.sense \/ Conflicting \/ cmd.op \in {"INQUIRY", "TEST_UNIT_READY"}
    BY <2>2
  <2> QED
    BY <1>1, <1>2, <2>2, <2>4, <2>5 DEF StartsReply
<1>3. CASE DataDir # "in"
  <2>1. common' = Checked(sense) /\ bh' = bh
    BY <1>3 DEF ReplyAtOnce
  <2>2. Started /\ common'.sense = sense /\ common'.residue = cmd.len
    <3>1. 0 \in Nat /\ 0 <= cmd.len
      BY SizeIs
    <3> QED
      BY <2>1, <3>1, StartedIs
  <2>3. bh' \in [Buffers -> Buffer] /\ OnlyAt(fill)
    BY <2>1 DEF TypeInv, OnlyAt
  <2>4. common'.sense \/ Conflicting \/ cmd.op \in {"INQUIRY", "TEST_UNIT_READY"}
    BY <2>2
  <2> QED
    BY <1>1, <1>3, <2>1, <2>2, <2>3, <2>4 DEF StartsReply
<1> QED
  BY <1>2, <1>3

\* do_scsi_command starts every command in one of these ways.
LEMMA StartCommandForm ==
  ASSUME TypeInv, StartCommand
  PROVE  (\E n \in Nat : StartsReply(n)) \/ StartsTransfer \/ StartsVerify
<1>1. /\ kpc = "start" /\ ~Busy(fill) /\ drain' = fill
      /\ UNCHANGED <<fill, udcVars, cancelled, state, file, hostVars>>
  BY DEF StartCommand
<1>2. /\ Size \in Nat /\ cmd.len \in Nat /\ Size <= cmd.len
      /\ common.sense \in BOOLEAN /\ common \in Commons
      /\ 0 \in Nat /\ 0 <= cmd.len /\ 0 <= BufLen
  BY SizeIs, ConstantsAre DEF TypeInv, Commons
<1>3. CASE Conflicting /\ ReplyAtOnce(common.sense, 0)
  <2>1. PICK s \in BOOLEAN : s = common.sense
    BY <1>2
  <2>2. ReplyAtOnce(s, 0)
    <3>1. Checked(s) = Checked(common.sense)
      BY <2>1
    <3> QED
      BY <1>3, <3>1, Zenon DEF ReplyAtOnce
  <2>3. StartsReply(0)
    BY <1>1, <1>2, <1>3, <2>2, ReplyAtOnceForm
  <2> QED
    BY <1>2, <2>3
<1>4. CASE ReplyAtOnce(TRUE, 0)
  <2>1. PICK s \in BOOLEAN : s /\ ReplyAtOnce(s, 0)
    BY <1>4
  <2>2. 0 > 0 => cmd.op \in {"INQUIRY", "TEST_UNIT_READY"}
    OBVIOUS
  <2>3. StartsReply(0)
    BY <1>1, <1>2, <2>1, <2>2, ReplyAtOnceForm, Zenon
  <2> QED
    BY <1>2, <2>3
<1>5. CASE /\ cmd.op \in {"INQUIRY", "TEST_UNIT_READY"}
           /\ ReplyAtOnce(FALSE, AtMost(ReplyLen, Size))
  <2>1. PICK n \in Nat : n = AtMost(ReplyLen, Size) /\ n <= BufLen /\ n <= cmd.len
    BY <1>2, ConstantsAre DEF AtMost
  <2>2. ReplyAtOnce(FALSE, n)
    BY <1>5, <2>1 DEF ReplyAtOnce
  <2>3. StartsReply(n)
    BY <1>1, <1>5, <2>1, <2>2, ReplyAtOnceForm
  <2> QED
    BY <2>3
<1>6. CASE /\ ~Conflicting /\ cmd.op \in {"READ", "WRITE"}
           /\ cmd.start < FileLen
           /\ common' = Checked(FALSE)
           /\ left' = Size
           /\ to_req' = (IF cmd.op = "WRITE" THEN Size ELSE 0)
           /\ more' = (cmd.op = "WRITE" /\ Size > 0)
           /\ IF Size = 0 THEN Unless("finish")
              ELSE kpc' = IF cmd.op = "READ" THEN "read" ELSE "write"
           /\ UNCHANGED bh
  <2>1. Started /\ common'.sense = FALSE /\ common'.residue = cmd.len
    BY <1>1, <1>2, <1>6, StartedIs
  <2>2. more' \in BOOLEAN /\ (more' <=> cmd.op = "WRITE" /\ Size > 0)
    <3>1. more' \in BOOLEAN
      BY <1>6
    <3>2. more' => cmd.op = "WRITE" /\ Size > 0
      BY <1>6
    <3>3. cmd.op = "WRITE" /\ Size > 0 => more'
      BY <1>6
    <3> QED
      BY <3>1, <3>2, <3>3
  <2>3. left' \in Nat /\ to_req' \in Nat
    BY <1>2, <1>6
  <2>4. IF Size = 0 THEN ToFinish
        ELSE kpc' = IF cmd.op = "READ" THEN "read" ELSE "write"
    BY <1>6 DEF Unless, ToFinish
  <2>5. StartsTransfer
    BY <1>6, <2>1, <2>2, <2>3, <2>4, Zenon DEF StartsTransfer
  <2> QED
    BY <2>5
<1>7. CASE /\ cmd.op = "VERIFY"
           /\ cmd.start < FileLen
           /\ common' = Checked(FALSE)
           /\ left' = cmd.size
           /\ IF cmd.size = 0 THEN Unless("finish") ELSE kpc' = "verify"
           /\ UNCHANGED <<bh, to_req, more>>
  <2>1. Started /\ common'.sense = FALSE /\ common'.residue = cmd.len
    BY <1>1, <1>2, <1>7, StartedIs
  <2>2. StartsVerify
    BY <1>7, <2>1, Zenon DEF StartsVerify, Unless, ToFinish
  <2> QED
    BY <2>2
<1> QED
  BY <1>3, <1>4, <1>5, <1>6, <1>7 DEF StartCommand
\* The CSW that send_status sends.
LEMMA CswIs ==
  ASSUME TypeInv
  PROVE  /\ Csw \in Told /\ <<Csw>> \in Contents /\ Len(<<Csw>>) = 1
         /\ Csw.tag = common.tag /\ Csw.residue = common.residue
         /\ Csw.status = IF common.phase_error THEN "PHASE"
                         ELSE IF common.sense THEN "FAIL" ELSE "OK"
<1>1. common \in Commons
  BY DEF TypeInv
<1>2. common.tag \in BOOLEAN /\ common.residue \in Nat
  BY <1>1 DEF Commons
<1> DEFINE s == IF common.phase_error THEN "PHASE"
                ELSE IF common.sense THEN "FAIL" ELSE "OK"
<1>3. s \in {"OK", "FAIL", "PHASE"}
  OBVIOUS
<1>4. Csw = [tag |-> common.tag, residue |-> common.residue, status |-> s]
  BY DEF Csw
<1> HIDE DEF s
<1>5. /\ Csw \in Told /\ Csw.tag = common.tag
      /\ Csw.residue = common.residue /\ Csw.status = s
  BY <1>2, <1>3, <1>4 DEF Told
<1>6. <<Csw>> \in Contents /\ Len(<<Csw>>) = 1
  <2>1. Csw \in Int \union Told
    BY <1>5
  <2> QED
    BY <2>1 DEF Contents
<1> QED
  BY <1>5, <1>6 DEF s

\* send_status queues it.
LEMMA SendStatusForm ==
  ASSUME TypeInv, SendStatus
  PROVE  /\ kpc = "status" /\ ~Busy(fill)
         /\ kpc' = IF state = "NORMAL" THEN "next" ELSE "cancel"
         /\ UNCHANGED <<drain, outQ, ended, common, left, to_req, more,
                        cancelled, state, file, hostVars>>
         /\ bh' \in [Buffers -> Buffer] /\ OnlyAt(fill)
         /\ bh'[fill].state = "SENDING" /\ bh'[fill].kind = "csw"
         /\ bh'[fill].data = <<Csw>>
         /\ inQ' = Append(inQ, fill) /\ fill' = NextOf(fill)
         /\ fill' \in Buffers
<1>1. PICK d \in Contents : d = <<Csw>>
  BY CswIs
<1>2. StartIn("csw", d, FALSE)
  BY <1>1 DEF SendStatus, StartIn
<1>3. /\ bh' \in [Buffers -> Buffer] /\ OnlyAt(fill)
      /\ bh'[fill].state = "SENDING" /\ bh'[fill].kind = "csw"
      /\ bh'[fill].data = d
      /\ inQ' = Append(inQ, fill) /\ fill' = NextOf(fill)
      /\ fill' \in Buffers
  BY <1>2, StartInForm
<1> QED
  BY <1>1, <1>3 DEF SendStatus, Unless, ioVars

\* Between do_write and its requests: what is left to be asked for.
LEMMA WriteAmounts ==
  ASSUME TypeInv, OutInv, AmountInv, kpc \in {"write", "drain"}
  PROVE  /\ common.size = Size /\ left <= Size /\ to_req <= left /\ left > 0
         /\ common.usb_amount_left = cmd.len - Size + to_req
         /\ common.residue = cmd.len - Size + left
         /\ to_req <= common.usb_amount_left /\ left <= common.residue
         /\ cmd.start + Size - left <= FileLen
         /\ more => to_req > 0
         /\ DataDir = "out" /\ cmd.op = "WRITE"
<1>1. PICK k \in 0 .. NumBuffers : \E f \in [0 .. k -> Nat] :
             Ring(k, f) /\ Sent(k, f) /\ Writing(k, f)
  BY DEF OutInv, Taking
<1>2. PICK f \in [0 .. k -> Nat] :
             Ring(k, f) /\ Sent(k, f) /\ Writing(k, f)
  BY <1>1
<1>3. k \in Nat /\ f[k] \in Nat
  BY <1>1, ConstantsAre
<1>4. f[k] = cmd.len - common.usb_amount_left /\ f[k] = common.size - to_req
      /\ (more => to_req > 0)
  BY <1>2 DEF Ring, Writing
<1>5. /\ Size \in Nat /\ Size <= cmd.len /\ cmd.len \in Nat /\ left \in Nat
      /\ to_req \in Nat /\ common.usb_amount_left \in Nat
      /\ common.residue \in Nat /\ more \in BOOLEAN
  BY SizeIs DEF TypeInv, Commons
<1>6. /\ common.size = Size /\ left <= Size /\ to_req <= left /\ 0 < left
      /\ common.residue = cmd.len - Size + left
      /\ cmd.start + Size - left <= FileLen
      /\ cmd.op = "WRITE"
  BY DEF AmountInv
<1>7. DataDir = "out"
  BY DEF OutInv, Taking
<1>8. /\ common.usb_amount_left = cmd.len - Size + to_req
      /\ to_req <= common.usb_amount_left
  <2>1. f[k] = cmd.len - common.usb_amount_left /\ f[k] = Size - to_req
    BY <1>4, <1>6
  <2>2. /\ Size \in Nat /\ Size <= cmd.len /\ cmd.len \in Nat
        /\ to_req \in Nat /\ common.usb_amount_left \in Nat
    BY <1>5
  <2> QED
    BY <1>3, <2>1, <2>2, SMTT(30)
<1>9. left <= common.residue
  BY <1>5, <1>6
<1> QED
  BY <1>4, <1>6, <1>7, <1>8, <1>9

\* What the host has to fill.
LEMMA HeadOutIs ==
  ASSUME TypeInv, QueueInv, HostInv, hpc = "out", outQ # <<>>
  PROVE  /\ sent \in Nat /\ cmd.len \in Nat /\ sent < cmd.len
         /\ bh[Head(outQ)].intended \in Nat /\ Head(outQ) \in Buffers
<1>1. Head(outQ) \in Buffers
  BY InTail DEF QueueInv
<1>2. bh[Head(outQ)] \in Buffer
  BY <1>1 DEF TypeInv
<1> QED
  BY <1>1, <1>2, SizeIs DEF TypeInv, HostInv, Buffer

\* The host sends what it has.
LEMMA HostSendIs ==
  ASSUME TypeInv, QueueInv, HostInv, HostSend
  PROVE  /\ outQ # <<>> /\ hpc = "out" /\ stopped' = stopped
         /\ \E n \in Nat :
              /\ HostSendUnits(n) /\ n <= bh[Head(outQ)].intended
              /\ n <= cmd.len - sent
              /\ n = bh[Head(outQ)].intended \/ sent + n = cmd.len
              /\ hpc' = IF sent + n = cmd.len THEN "status" ELSE "out"
<1>1. outQ # <<>> /\ hpc = "out" /\ stopped' = stopped
  BY DEF HostSend
<1>2. PICK n \in Nat : n = AtMost(bh[Head(outQ)].intended, cmd.len - sent)
  BY <1>1, HeadOutIs DEF AtMost
<1>3. HostSendUnits(n)
  BY <1>2 DEF HostSend, HostSendUnits
<1>4. /\ n <= bh[Head(outQ)].intended /\ n <= cmd.len - sent
      /\ n = bh[Head(outQ)].intended \/ n = cmd.len - sent
  BY <1>1, <1>2, HeadOutIs DEF AtMost
<1>5. n = bh[Head(outQ)].intended \/ sent + n = cmd.len
  BY <1>1, <1>4, HeadOutIs
<1>6. hpc' = IF sent + n = cmd.len THEN "status" ELSE "out"
  BY <1>3 DEF HostSend, HostSendUnits
<1> QED
  BY <1>1, <1>3, <1>4, <1>5, <1>6

\* ... or less, and then no more.
LEMMA HostStopsIs ==
  ASSUME TypeInv, QueueInv, HostInv, HostStops
  PROVE  /\ outQ # <<>> /\ hpc = "out" /\ stopped' = TRUE /\ hpc' = "status"
         /\ \E n \in Nat :
              /\ HostSendUnits(n) /\ n < bh[Head(outQ)].intended
              /\ n < cmd.len - sent
<1>1. outQ # <<>> /\ hpc = "out" /\ stopped' = TRUE /\ hpc' = "status"
  BY DEF HostStops
<1>2. PICK n \in 0 .. AtMost(bh[Head(outQ)].intended, cmd.len - sent) - 1 :
         HostSendUnits(n)
  BY DEF HostStops
<1>3. /\ n \in Nat /\ n < bh[Head(outQ)].intended /\ n < cmd.len - sent
  BY <1>1, <1>2, HeadOutIs, SMTT(30) DEF AtMost
<1> QED
  BY <1>1, <1>2, <1>3

\* The queues hold what is busy, after every step.
LEMMA QueueStep ==
  ASSUME DataInv, Next
  PROVE  QueueInv'
<1>0. /\ TypeInv /\ QueueInv /\ ControlInv /\ HostInv /\ FileInv /\ RestInv
      /\ FreshInv /\ ReplyInv /\ StatusInv /\ OutInv /\ AmountInv
  BY DEF DataInv
<1>1. CASE AskForCbw
  <2>1. /\ StartOut("cbw", 1) /\ ~Busy(fill) /\ inQ' = inQ /\ ended' = ended
    BY <1>1 DEF AskForCbw
  <2>2. /\ OnlyAt(fill) /\ bh'[fill].state = "RECEIVING"
        /\ outQ' = Append(outQ, fill)
    BY <1>0, <2>1, StartOutForm
  <2> QED
    BY <1>0, <2>1, <2>2, QueueOut DEF TypeInv
<1>2. CASE ReceivedCbw
  <2>1. ~Busy(fill) /\ bh' = [bh EXCEPT ![fill] = Free] /\ UNCHANGED udcVars
    BY <1>2 DEF ReceivedCbw
  <2>2. fill \in Buffers
    BY <1>0 DEF TypeInv
  <2>3. OnlyAt(fill) /\ bh'[fill].state = "EMPTY"
    BY <1>0, <2>1, <2>2, EmptiedForm
  <2> QED
    BY <1>0, <2>1, <2>2, <2>3, QueueIdle
<1>3. CASE StartCommand
  <2>1. fill \in Buffers
    BY <1>0 DEF TypeInv
  <2>2. CASE \E n \in Nat : StartsReply(n)
    <3>1. PICK n \in Nat : StartsReply(n)
      BY <2>2
    <3>2. ~Busy(fill) /\ UNCHANGED <<inQ, outQ, ended>> /\ OnlyAt(fill)
      BY <3>1 DEF StartsReply, Started
    <3>3. bh'[fill].state = "FULL" \/ bh' = bh
      BY <3>1 DEF StartsReply
    <3> QED
      BY <1>0, <2>1, <3>2, <3>3, QueueIdle, QueueSame DEF udcVars
  <2>3. CASE StartsTransfer \/ StartsVerify
    BY <1>0, <2>3, QueueSame DEF StartsTransfer, StartsVerify, Started
  <2> QED
    BY <1>0, <1>3, <2>2, <2>3, StartCommandForm
<1>4. CASE ReadRound
  <2>1. fill \in Buffers
    BY <1>0 DEF TypeInv
  <2>2. ~Busy(fill) /\ UNCHANGED <<outQ, ended>>
    BY <1>0, <1>4, ReadRoundForm
  <2>3. CASE UNCHANGED <<ringVars, inQ>>
    BY <1>0, <2>2, <2>3, QueueSame DEF ringVars
  <2>4. CASE \E n \in Nat : ReadEnds(n)
    <3>1. OnlyAt(fill) /\ bh'[fill].state = "FULL" /\ inQ' = inQ
      BY <2>4 DEF ReadEnds, ReadMoves
    <3> QED
      BY <1>0, <2>1, <2>2, <3>1, QueueIdle DEF udcVars
  <2>5. CASE \E n \in Nat : ReadGoesOn(n)
    <3>1. /\ OnlyAt(fill) /\ bh'[fill].state = "SENDING"
          /\ inQ' = Append(inQ, fill)
      BY <2>5 DEF ReadGoesOn, ReadMoves
    <3> QED
      BY <1>0, <2>1, <2>2, <3>1, QueueIn
  <2> QED
    BY <1>0, <1>4, <2>3, <2>4, <2>5, ReadRoundForm
<1>5. CASE VerifyRound
  <2>1. fill \in Buffers
    BY <1>0 DEF TypeInv
  <2>2. UNCHANGED <<inQ, outQ, ended>> /\ kpc = "verify"
    BY <1>0, <1>5, VerifyRoundForm
  <2>3. CASE bh' = bh
    BY <1>0, <2>2, <2>3, QueueSame
  <2>4. CASE \E n \in Nat : VerifyEnds(n)
    <3>1. ~Busy(fill)
      BY <1>0, <2>1, <2>2 DEF FreshInv, AllEmpty, Busy
    <3>2. OnlyAt(fill) /\ (bh' = bh \/ bh'[fill].state = "FULL")
      BY <2>4 DEF VerifyEnds
    <3> QED
      BY <1>0, <2>1, <2>2, <2>3, <3>1, <3>2, QueueIdle DEF udcVars
  <2> QED
    BY <1>0, <1>5, <2>3, <2>4, VerifyRoundForm DEF VerifyGoesOn
<1>6. CASE WriteRequest
  <2>1. fill \in Buffers
    BY <1>0 DEF TypeInv
  <2>2. kpc = "write" /\ more
    BY <1>6 DEF WriteRequest, MayRequest
  <2>3. to_req > 0 /\ to_req <= common.usb_amount_left
    BY <1>0, <2>2, WriteAmounts
  <2>4. /\ bh[fill].state = "EMPTY" /\ inQ' = inQ /\ ended' = ended
        /\ WriteRefuses \/ (\E n \in Nat : WriteAsks(n))
    BY <1>0, <1>6, <2>3, WriteRequestForm
  <2>5. CASE WriteRefuses
    BY <1>0, <2>4, <2>5, QueueSame DEF WriteRefuses
  <2>6. CASE \E n \in Nat : WriteAsks(n)
    <3>1. /\ OnlyAt(fill) /\ bh'[fill].state = "RECEIVING"
          /\ outQ' = Append(outQ, fill)
      BY <2>6 DEF WriteAsks, Requests
    <3>2. ~Busy(fill)
      BY <2>4 DEF Busy
    <3> QED
      BY <1>0, <2>1, <2>4, <3>1, <3>2, QueueOut
  <2> QED
    BY <2>4, <2>5, <2>6
<1>7. CASE WriteWaits \/ WriteStopsEarly
  BY <1>0, <1>7, QueueSame DEF WriteWaits, WriteStopsEarly, ringVars, udcVars
<1>8. CASE WriteRound
  <2>1. drain \in Buffers
    BY <1>0 DEF TypeInv
  <2>2. /\ ~Busy(drain) /\ bh' = [bh EXCEPT ![drain] = Free]
        /\ UNCHANGED udcVars
    BY <1>8 DEF WriteRound, DrainBuffer
  <2>3. OnlyAt(drain) /\ bh'[drain].state = "EMPTY"
    BY <1>0, <2>1, <2>2, EmptiedForm
  <2> QED
    BY <1>0, <2>1, <2>2, <2>3, QueueIdle
<1>9. CASE FinishReply
  <2>1. fill \in Buffers
    BY <1>0 DEF TypeInv
  <2>2. outQ' = outQ /\ ended' = ended /\ kpc = "finish"
    BY <1>9 DEF FinishReply
  <2>3. CASE UNCHANGED <<ringVars, inQ>>
    BY <1>0, <2>2, <2>3, QueueSame DEF ringVars
  <2>4. CASE DataDir = "in" /\ SendLastBuffer
    <3>1. ~Busy(fill)
      BY <1>0, <2>2, <2>4 DEF ReplyInv, ReplyRing
    <3>2. /\ OnlyAt(fill) /\ bh'[fill].state = "SENDING"
          /\ inQ' = Append(inQ, fill)
      BY <1>0, <2>4, SendLastForm
    <3> QED
      BY <1>0, <2>1, <2>2, <3>1, <3>2, QueueIn
  <2> QED
    BY <1>9, <2>3, <2>4 DEF FinishReply
<1>10. CASE ThrowAwayRequest
  <2>1. fill \in Buffers
    BY <1>0 DEF TypeInv
  <2>2. bh[fill].state = "EMPTY" /\ inQ' = inQ /\ ended' = ended
    BY <1>0, <1>10, ThrowAwayRequestForm
  <2>3. /\ OnlyAt(fill) /\ bh'[fill].state = "RECEIVING"
        /\ outQ' = Append(outQ, fill)
    BY <1>0, <1>10, ThrowAwayRequestForm DEF Requests
  <2>4. ~Busy(fill)
    BY <2>2 DEF Busy
  <2> QED
    BY <1>0, <2>1, <2>2, <2>3, <2>4, QueueOut
<1>11. CASE ThrowAwayWaits
  BY <1>0, <1>11, QueueSame DEF ThrowAwayWaits, ringVars, udcVars
<1>12. CASE ThrowAway
  <2>1. drain \in Buffers
    BY <1>0 DEF TypeInv
  <2>2. /\ ~Busy(drain) /\ bh' = [bh EXCEPT ![drain] = Free]
        /\ UNCHANGED udcVars
    BY <1>12 DEF ThrowAway, DrainBuffer
  <2>3. OnlyAt(drain) /\ bh'[drain].state = "EMPTY"
    BY <1>0, <2>1, <2>2, EmptiedForm
  <2> QED
    BY <1>0, <2>1, <2>2, <2>3, QueueIdle
<1>13. CASE AllThrownAway
  BY <1>0, <1>13, QueueSame DEF AllThrownAway, ringVars, udcVars
<1>14. CASE SendStatus
  <2>1. fill \in Buffers
    BY <1>0 DEF TypeInv
  <2>2. /\ ~Busy(fill) /\ outQ' = outQ /\ ended' = ended /\ OnlyAt(fill)
        /\ bh'[fill].state = "SENDING" /\ inQ' = Append(inQ, fill)
    BY <1>0, <1>14, SendStatusForm
  <2> QED
    BY <1>0, <2>1, <2>2, QueueIn
<1>15. CASE Interrupted
  BY <1>0, <1>15, QueueSame DEF Interrupted, ringVars, udcVars
<1>16. CASE CancelTransfer
  <2>1. bh' = bh
    BY <1>16 DEF CancelTransfer, ringVars
  <2>2. CASE UNCHANGED udcVars
    BY <1>0, <2>1, <2>2, QueueSame DEF udcVars
  <2>3. CASE /\ Busy(cancelled) /\ ~IsIn(cancelled, ended)
             /\ inQ' = Without(cancelled, inQ) /\ outQ' = Without(cancelled, outQ)
             /\ ended' = Append(ended, cancelled)
    <3>1. PICK b \in Buffers : b = cancelled
      BY <1>0, <1>16, ConstantsAre DEF CancelTransfer, TypeInv, Buffers
    <3> QED
      BY <1>0, <2>1, <2>3, <3>1, QueueCancel
  <2> QED
    BY <1>16, <2>2, <2>3 DEF CancelTransfer
<1>17. CASE ResetRing
  <2>1. /\ bh' = [b \in Buffers |-> Free] /\ cancelled = NumBuffers
        /\ inQ' = inQ /\ outQ' = outQ /\ ended' = ended
    BY <1>17 DEF ResetRing, udcVars
  <2>2. \A b \in Buffers : ~Busy(b)
    <3>1. \A b \in Buffers : b < cancelled
      BY <2>1, ConstantsAre DEF Buffers
    <3> QED
      BY <1>0, <3>1 DEF ControlInv
  <2>3. \A b \in Buffers : ~IsIn(b, inQ) /\ ~IsIn(b, outQ) /\ ~IsIn(b, ended)
    BY <1>0, <2>2 DEF QueueInv, Busy
  <2>4. \A b \in Buffers : bh'[b].state = "EMPTY"
    BY <2>1, FreeIs
  <2>5. \A x \in Buffers :
           /\ IsIn(x, inQ') => bh'[x].state = "SENDING" /\ ~IsIn(x, ended')
           /\ IsIn(x, outQ') => bh'[x].state = "RECEIVING" /\ ~IsIn(x, ended')
           /\ IsIn(x, ended') => bh'[x].state \in {"SENDING", "RECEIVING"}
           /\ bh'[x].state \in {"SENDING", "RECEIVING"} =>
                IsIn(x, inQ') \/ IsIn(x, outQ') \/ IsIn(x, ended')
    BY <2>1, <2>3, <2>4
  <2> QED
    BY <1>0, <2>1, <2>5, QueueMoved DEF QueueInv
<1>18. CASE Complete
  BY <1>0, <1>18, QueueComplete
<1>19. CASE HostCbw
  BY <1>0, <1>19, QueueEndOut DEF HostCbw, ringVars
<1>20. CASE HostSend
  <2>1. outQ # <<>> /\ outQ \in Seq(Buffers)
    BY <1>0, <1>20 DEF HostSend, QueueInv
  <2>2. PICK n \in Nat : HostSendUnits(n)
    BY <1>0, <1>20, HostSendIs
  <2>3. /\ OnlyAt(Head(outQ)) /\ Head(outQ) \in Buffers
        /\ bh'[Head(outQ)].state = bh[Head(outQ)].state
    BY <1>0, <2>1, <2>2, SendForm
  <2>4. \A x \in Buffers : bh'[x].state = bh[x].state
    BY <2>3 DEF OnlyAt
  <2> QED
    BY <1>0, <2>1, <2>2, <2>4, QueueEndOut DEF HostSendUnits
<1>21. CASE HostStops
  <2>1. outQ # <<>> /\ outQ \in Seq(Buffers)
    BY <1>0, <1>21 DEF HostStops, QueueInv
  <2>2. PICK n \in Nat : HostSendUnits(n)
    BY <1>0, <1>21, HostStopsIs
  <2>3. /\ OnlyAt(Head(outQ)) /\ Head(outQ) \in Buffers
        /\ bh'[Head(outQ)].state = bh[Head(outQ)].state
    BY <1>0, <2>1, <2>2, SendForm
  <2>4. \A x \in Buffers : bh'[x].state = bh[x].state
    BY <2>3 DEF OnlyAt
  <2> QED
    BY <1>0, <2>1, <2>2, <2>4, QueueEndOut DEF HostSendUnits
<1>22. CASE HostReceive \/ HostStatus
  BY <1>0, <1>22, QueueEndIn DEF HostReceive, HostStatus, ringVars
<1>23. CASE HostReset
  BY <1>0, <1>23, QueueSame DEF HostReset, ringVars, udcVars
<1> QED
  BY <1>1, <1>2, <1>3, <1>4, <1>5, <1>6, <1>7, <1>8, <1>9, <1>10, <1>11,
     <1>12, <1>13, <1>14, <1>15, <1>16, <1>17, <1>18, <1>19, <1>20, <1>21,
     <1>22, <1>23 DEF Next, Kthread

\* What the host may ask for.
LEMMA HostCommandIs ==
  ASSUME NEW c \in HostCommands
  PROVE  /\ c \in [op : DOMAIN Direction, dir : {"none", "in", "out"}, start : Nat,
                  size : Nat, len : Nat, tag : BOOLEAN]
         /\ c.dir \in {"in", "out"} /\ c.len < U32 /\ c.start % BlockLen = 0
         /\ c.op \in {"READ", "WRITE", "VERIFY"} => c.size % BlockLen = 0
         /\ c.op \notin {"READ", "WRITE"} => c.size < U32
         /\ c.op = "TEST_UNIT_READY" => c.size = 0
         /\ c.op \notin {"READ", "WRITE", "VERIFY"} => c.start = 0
         /\ c.op \in {"READ", "WRITE", "VERIFY"} /\ c.dir = "in" /\ c.len > 0
            /\ c.size % U32 = 0 => EmptyCommands
<1>1. c \in [op : DOMAIN Direction, dir : {"in", "out"}, start : Starts,
            size : CdbLens, len : HostLens, tag : BOOLEAN]
  BY DEF HostCommands
<1>2. /\ c.op = "TEST_UNIT_READY" => c.size = 0
      /\ c.op \notin {"READ", "WRITE"} => c.size < U32
      /\ c.op \in {"READ", "WRITE", "VERIFY"} => c.size % BlockLen = 0
      /\ c.op \notin {"READ", "WRITE", "VERIFY"} => c.start = 0
      /\ c.op \in {"READ", "WRITE", "VERIFY"} /\ c.dir = "in" /\ c.len > 0
         /\ c.size % U32 = 0 => EmptyCommands
  BY DEF HostCommands
<1>3. c.start \in Nat /\ c.start % BlockLen = 0 /\ c.size \in Nat
  BY <1>1, DataPathAssumption
<1>4. c.len \in Nat /\ c.len < U32
  <2>1. c.len \in 0 .. U32 - 1
    BY <1>1, DataPathAssumption
  <2> QED
    BY <2>1, ConstantsAre
<1> QED
  BY <1>1, <1>2, <1>3, <1>4

\* The host is done with a command.
LEMMA HostIsIdleIs ==
  ASSUME TypeInv, HostIsIdle
  PROVE  /\ hpc' = "idle" /\ sent' = 0 /\ received' = <<>> /\ stopped' = FALSE
         /\ cmd' \in [op : DOMAIN Direction, dir : {"none", "in", "out"},
                      start : Nat, size : Nat, len : Nat, tag : BOOLEAN]
         /\ cmd'.len = 0 /\ cmd'.tag = cmd.tag /\ cmd'.start = 0
         /\ cmd'.op = "TEST_UNIT_READY"
         /\ file' \in [0 .. FileLen - 1 -> Int] /\ received' \in Contents
         /\ \A p \in 0 .. FileLen - 1 : file'[p] = Old
<1>1. PICK t \in BOOLEAN : t = cmd.tag
  BY SizeIs
<1>2. cmd' = [NoCommand EXCEPT !.tag = t]
  BY <1>1 DEF HostIsIdle
<1>3. /\ cmd' \in [op : DOMAIN Direction, dir : {"none", "in", "out"},
                   start : Nat, size : Nat, len : Nat, tag : BOOLEAN]
      /\ cmd'.len = 0 /\ cmd'.tag = t /\ cmd'.start = 0
      /\ cmd'.op = "TEST_UNIT_READY"
  BY <1>2 DEF NoCommand, Direction
<1>4. DOMAIN file = 0 .. FileLen - 1
  BY DEF TypeInv
<1>5. /\ file' \in [0 .. FileLen - 1 -> Int]
      /\ \A p \in 0 .. FileLen - 1 : file'[p] = Old
  BY <1>4 DEF HostIsIdle, Old
<1>6. <<>> \in Contents
  BY EmptySeq DEF Contents
<1> QED
  BY <1>1, <1>3, <1>5, <1>6 DEF HostIsIdle

\* do_write writes the oldest buffer, of n units from a.
WroteFrom(a, n) ==
  /\ kpc = "drain" /\ ~Busy(drain) /\ bh[drain].state = "FULL"
  /\ bh[drain].data = Units(a, n) /\ Len(bh[drain].data) = n
  /\ a = Size - left /\ n <= bh[drain].intended /\ a + n <= sent
  /\ ~stopped => n = bh[drain].intended
  /\ n <= left /\ n <= Size - a /\ a + bh[drain].intended <= Size - to_req
  /\ cmd.start + a < FileLen /\ a % BlockLen = 0
  /\ UNCHANGED <<fill, inQ, outQ, ended, to_req, more, cancelled, state,
                 hostVars>>
  /\ bh' \in [Buffers -> Buffer] /\ OnlyAt(drain)
  /\ bh'[drain].state = "EMPTY"
  /\ drain' = NextOf(drain) /\ drain' \in Buffers
  /\ \E put, nw \in Nat : WriteMoves(a, n, put, nw)

\* When do_write takes a buffer, it is the oldest it asked for.
LEMMA WriteRoundIs ==
  ASSUME TypeInv, QueueInv, OutInv, AmountInv, WriteRound
  PROVE  \E a, n \in Nat : WroteFrom(a, n)
<1>1. kpc = "drain" /\ ~Busy(drain)
  BY DEF WriteRound
<1>2. PICK k \in 0 .. NumBuffers : \E f \in [0 .. k -> Nat] :
         Ring(k, f) /\ Sent(k, f) /\ Writing(k, f) /\ k > 0
  BY <1>1 DEF OutInv, Taking
<1>3. PICK f \in [0 .. k -> Nat] :
         Ring(k, f) /\ Sent(k, f) /\ Writing(k, f) /\ k > 0
  BY <1>2
<1>4. /\ k \in 1 .. NumBuffers /\ k \in Nat /\ f[0] \in Nat /\ f[1] \in Nat
      /\ f[k] \in Nat
  BY <1>3, ConstantsAre
<1>5. /\ bh[drain].state = "FULL"
      /\ bh[drain].intended = f[1] - f[0] /\ f[0] < f[1]
      /\ \E n \in Nat :
           /\ bh[drain].data = Units(f[0], n) /\ Len(bh[drain].data) = n
           /\ n <= f[1] - f[0] /\ f[0] + n <= sent
           /\ ~stopped => n = f[1] - f[0]
  BY <1>1, <1>3, <1>4, OldestIs
<1>6. PICK n \in Nat :
         /\ bh[drain].data = Units(f[0], n) /\ Len(bh[drain].data) = n
         /\ n <= f[1] - f[0] /\ f[0] + n <= sent
         /\ ~stopped => n = f[1] - f[0]
  BY <1>5
<1>7. f[1] <= f[k]
  <2>1. CASE k = 1
    BY <1>4, <2>1
  <2>2. CASE 1 < k
    <3>1. 1 \in 0 .. k /\ k \in 0 .. k
      BY <1>4
    <3>2. f[1] < f[k]
      BY <1>3, <2>2, <3>1 DEF Ring
    <3> QED
      BY <1>4, <3>2
  <2> QED
    BY <1>4, <2>1, <2>2
<1>8. /\ left \in Nat /\ to_req \in Nat /\ Size \in Nat /\ cmd.start \in Nat
      /\ common.residue \in Nat /\ sent \in Nat
  BY SizeIs DEF TypeInv, Commons
<1>9. /\ common.size = Size /\ left <= Size /\ left <= common.residue
      /\ left > 0 /\ to_req <= left
  BY <1>1, WriteAmounts
<1>10. f[k] = Size - to_req /\ f[0] = Size - left
  BY <1>3, <1>4, <1>9 DEF Writing
<1>11. f[0] % BlockLen = 0 /\ cmd.start + f[0] < FileLen
  <2>1. 0 \in 0 .. k - 1
    BY <1>4
  <2> QED
    BY <1>3, <2>1 DEF Writing
<1>12. FileOffset = cmd.start + f[0]
  BY <1>8, <1>9, <1>10 DEF FileOffset
<1>13. n <= left /\ n <= Size - f[0] /\ f[0] + bh[drain].intended <= Size - to_req
  BY <1>4, <1>5, <1>6, <1>7, <1>8, <1>9, <1>10, SMTT(30)
<1> DEFINE a == f[0]
<1>14. a \in Nat /\ cmd.start + a <= FileLen
  BY <1>4, <1>8, <1>11, ConstantsAre
<1>15. /\ UNCHANGED <<fill, inQ, outQ, ended, to_req, more, cancelled, state,
                      hostVars>>
       /\ bh' \in [Buffers -> Buffer] /\ OnlyAt(drain)
       /\ bh'[drain].state = "EMPTY"
       /\ drain' = NextOf(drain) /\ drain' \in Buffers
       /\ \E put, nw \in Nat : WriteMoves(a, n, put, nw)
  BY <1>6, <1>9, <1>12, <1>13, <1>14, WriteRoundForm
<1>16. WroteFrom(a, n)
  <2>1. n <= bh[drain].intended /\ (~stopped => n = bh[drain].intended)
    BY <1>5, <1>6
  <2> QED
    BY <1>1, <1>5, <1>6, <1>10, <1>11, <1>13, <1>15, <2>1, Zenon DEF WroteFrom
<1> QED
  BY <1>14, <1>16

\* It counts no more than is left.
LEMMA WroteAmounts ==
  ASSUME TypeInv, NEW a \in Nat, NEW n \in Nat, WroteFrom(a, n),
         NEW put \in Nat, NEW nw \in Nat, WriteMoves(a, n, put, nw)
  PROVE  /\ nw <= put /\ put <= n /\ nw <= left /\ n <= left
         /\ WholeBlocks(AtMost(n, FileLen - (cmd.start + a))) \in Nat
         /\ WholeBlocks(AtMost(n, FileLen - (cmd.start + a))) <= n
<1>1. PICK m \in Nat : m = FileLen - (cmd.start + a)
  <2>1. cmd.start + a < FileLen /\ cmd.start \in Nat
    BY SizeIs DEF WroteFrom
  <2> QED
    BY <2>1, ConstantsAre
<1>2. WholeBlocks(AtMost(n, m)) \in Nat /\ WholeBlocks(AtMost(n, m)) <= n
  BY AmountIs
<1>3. put <= WholeBlocks(AtMost(n, m)) /\ nw <= put
  BY <1>1 DEF WriteMoves
<1>4. n <= left /\ left \in Nat
  BY DEF WroteFrom, TypeInv
<1> QED
  BY <1>1, <1>2, <1>3, <1>4

\* Every step keeps the types.
LEMMA TypeStep ==
  ASSUME DataInv, Next
  PROVE  TypeInv'
<1>0. /\ TypeInv /\ QueueInv /\ ControlInv /\ HostInv /\ FileInv /\ RestInv
      /\ FreshInv /\ ReplyInv /\ StatusInv /\ OutInv /\ AmountInv
  BY DEF DataInv
<1>1. CASE AskForCbw
  <2>1. StartOut("cbw", 1)
    BY <1>1 DEF AskForCbw
  <2>2. bh' \in [Buffers -> Buffer]
    BY <1>0, <2>1, StartOutForm
  <2>3. PICK s \in BOOLEAN : s = common.sense
    BY <1>0 DEF TypeInv, Commons
  <2>4. common' = [Idle EXCEPT !.sense = s]
    BY <1>1, <2>3 DEF AskForCbw
  <2>5. common' \in Commons
    BY <2>4 DEF Idle, Commons
  <2>6. left' \in Nat /\ to_req' \in Nat /\ more' \in BOOLEAN
    BY <1>1 DEF AskForCbw
  <2> QED
    BY <1>0, <1>1, <2>2, <2>5, <2>6 DEF AskForCbw, TypeInv, hostVars
<1>2. CASE ReceivedCbw
  <2>1. bh' = [bh EXCEPT ![fill] = Free] /\ fill \in Buffers
    BY <1>0, <1>2 DEF ReceivedCbw, TypeInv
  <2>2. bh' \in [Buffers -> Buffer]
    BY <1>0, <2>1, EmptiedForm
  <2>3. cmd.tag \in BOOLEAN /\ common \in Commons
    BY <1>0, SizeIs DEF TypeInv
  <2>4. common' \in Commons
    BY <1>2, <2>3 DEF ReceivedCbw, Commons
  <2> QED
    BY <1>0, <1>2, <2>2, <2>4 DEF ReceivedCbw, TypeInv, Unless, ioVars, hostVars
<1>3. CASE StartCommand
  <2>1. CASE \E n \in Nat : StartsReply(n)
    <3>1. PICK n \in Nat : StartsReply(n)
      BY <2>1
    <3>2. Started /\ ToFinish /\ UNCHANGED ioVars /\ bh' \in [Buffers -> Buffer]
      BY <3>1 DEF StartsReply
    <3> QED
      BY <1>0, <3>2 DEF Started, ToFinish, TypeInv, Working, ioVars, hostVars
  <2>2. CASE StartsTransfer
    <3>1. kpc' \in Working \union {"cancel"}
      BY <2>2 DEF StartsTransfer, ToFinish, Working
    <3> QED
      BY <1>0, <2>2, <3>1 DEF StartsTransfer, Started, TypeInv, hostVars
  <2>3. CASE StartsVerify
    <3>1. kpc' \in Working \union {"cancel"}
      BY <2>3 DEF StartsVerify, ToFinish, Working
    <3>2. left' \in Nat
      BY <1>0, <2>3, SizeIs DEF StartsVerify
    <3> QED
      BY <1>0, <2>3, <3>1, <3>2 DEF StartsVerify, Started, TypeInv, hostVars
  <2> QED
    BY <1>0, <1>3, <2>1, <2>2, <2>3, StartCommandForm
<1>4. CASE ReadRound
  <2>1. UNCHANGED <<drain, to_req, more, cancelled, state, file, hostVars>>
    BY <1>0, <1>4, ReadRoundForm
  <2>2. CASE kpc' = "cancel" /\ UNCHANGED <<ringVars, inQ, common, left>>
    BY <1>0, <2>1, <2>2 DEF TypeInv, ringVars, hostVars
  <2>3. CASE \E n \in Nat : ReadEnds(n)
    <3>1. PICK n \in Nat : ReadEnds(n)
      BY <2>3
    <3>2. left' \in Nat
      BY <1>0, <3>1 DEF ReadEnds, ReadMoves, TypeInv
    <3> QED
      BY <1>0, <2>1, <3>1, <3>2
         DEF ReadEnds, ReadMoves, TypeInv, Working, hostVars
  <2>4. CASE \E n \in Nat : ReadGoesOn(n)
    <3>1. PICK n \in Nat : ReadGoesOn(n)
      BY <2>4
    <3>2. left' \in Nat
      BY <1>0, <3>1 DEF ReadGoesOn, ReadMoves, TypeInv
    <3> QED
      BY <1>0, <2>1, <3>1, <3>2
         DEF ReadGoesOn, ReadMoves, TypeInv, Working, hostVars
  <2> QED
    BY <1>0, <1>4, <2>2, <2>3, <2>4, ReadRoundForm
<1>5. CASE VerifyRound
  <2>1. UNCHANGED <<fill, drain, to_req, more, cancelled, state, file, hostVars>>
    BY <1>0, <1>5, VerifyRoundForm
  <2>2. CASE kpc' = "cancel" /\ UNCHANGED <<bh, common, left>>
    BY <1>0, <2>1, <2>2 DEF TypeInv, hostVars
  <2>3. CASE \E n \in Nat : VerifyEnds(n)
    BY <1>0, <2>1, <2>3 DEF VerifyEnds, VerifyMoves, TypeInv, Working, hostVars
  <2>4. CASE \E n \in Nat : VerifyGoesOn(n)
    BY <1>0, <2>1, <2>4 DEF VerifyGoesOn, VerifyMoves, TypeInv, Working, hostVars
  <2> QED
    BY <1>0, <1>5, <2>2, <2>3, <2>4, VerifyRoundForm
<1>6. CASE WriteRequest
  <2>1. kpc = "write" /\ more
    BY <1>6 DEF WriteRequest, MayRequest
  <2>2. to_req > 0 /\ to_req <= common.usb_amount_left
    BY <1>0, <2>1, WriteAmounts
  <2>3. /\ UNCHANGED <<kpc, drain, left, cancelled, state, file, hostVars>>
        /\ WriteRefuses \/ (\E n \in Nat : WriteAsks(n))
    BY <1>0, <1>6, <2>2, WriteRequestForm
  <2>4. CASE WriteRefuses
    BY <1>0, <2>3, <2>4 DEF WriteRefuses, TypeInv, hostVars
  <2>5. CASE \E n \in Nat : WriteAsks(n)
    <3>1. PICK n \in Nat : WriteAsks(n)
      BY <2>5
    <3>2. to_req' \in Nat
      BY <1>0, <3>1 DEF WriteAsks, TypeInv
    <3> QED
      BY <1>0, <2>3, <3>1, <3>2 DEF WriteAsks, Requests, TypeInv, hostVars
  <2> QED
    BY <2>3, <2>4, <2>5
<1>7. CASE WriteWaits
  BY <1>0, <1>7 DEF WriteWaits, TypeInv, Working, ringVars, udcVars, ioVars,
     hostVars
<1>8. CASE WriteStopsEarly \/ ThrowAwayWaits
  BY <1>0, <1>8 DEF WriteStopsEarly, ThrowAwayWaits, TypeInv, Working, Unless,
     ringVars, udcVars, ioVars, hostVars
<1>9. CASE WriteRound
  <2>1. PICK a, n \in Nat : WroteFrom(a, n)
    BY <1>0, <1>9, WriteRoundIs
  <2>2. PICK put, nw \in Nat : WriteMoves(a, n, put, nw)
    BY <2>1 DEF WroteFrom
  <2>3. /\ UNCHANGED <<fill, to_req, more, cancelled, state, hostVars>>
        /\ bh' \in [Buffers -> Buffer] /\ drain' \in Buffers
    BY <2>1 DEF WroteFrom
  <2>4. file' \in [0 .. FileLen - 1 -> Int]
    BY <2>2 DEF WriteMoves
  <2>5. kpc' \in Working \union {"cancel"} /\ common' \in Commons /\ left' \in Nat
    <3>1. CASE kpc' = "cancel" /\ UNCHANGED <<common, left>>
      BY <1>0, <3>1 DEF TypeInv
    <3>2. CASE ~(kpc' = "cancel" /\ UNCHANGED <<common, left>>)
      <4>1. left' = left - nw /\ common' \in Commons
              /\ kpc' \in {"write", "finish", "cancel"}
        BY <2>2, <3>2 DEF WriteMoves
      <4>2. nw <= left
        BY <1>0, <2>1, <2>2, WroteAmounts
      <4> QED
        BY <1>0, <4>1, <4>2 DEF TypeInv, Working
    <3> QED
      BY <3>1, <3>2
  <2> QED
    BY <1>0, <2>3, <2>4, <2>5 DEF TypeInv, hostVars
<1>10. CASE FinishReply
  <2>1. UNCHANGED <<common, left, to_req, more, cancelled, file, hostVars>>
    BY <1>10 DEF FinishReply, ioVars
  <2>2. kpc' \in Working \union {"cancel"} /\ state' \in States /\ drain' = drain
    BY <1>0, <1>10 DEF FinishReply, Unless, RaiseAbort, Working,
                         TypeInv, States, ringVars
  <2>3. bh' \in [Buffers -> Buffer] /\ fill' \in Buffers
    BY <1>0, <1>10, SendLastForm DEF FinishReply, ringVars, TypeInv
  <2> QED
    BY <1>0, <2>1, <2>2, <2>3 DEF TypeInv, hostVars
<1>11. CASE ThrowAwayRequest
  <2>1. /\ UNCHANGED <<kpc, drain, left, to_req, more, cancelled, state, file,
                       hostVars>>
        /\ \E n \in Nat : Requests(n)
    BY <1>0, <1>11, ThrowAwayRequestForm
  <2> QED
    BY <1>0, <2>1 DEF Requests, TypeInv, hostVars
<1>12. CASE ThrowAway
  <2>1. /\ bh' = [bh EXCEPT ![drain] = Free] /\ drain \in Buffers
        /\ drain' = NextOf(drain)
    BY <1>0, <1>12 DEF ThrowAway, DrainBuffer, TypeInv
  <2>2. bh' \in [Buffers -> Buffer] /\ drain' \in Buffers
    BY <1>0, <2>1, EmptiedForm, NextOfIs
  <2>3. kpc' \in Working \union {"cancel"} /\ state' \in States
    BY <1>0, <1>12 DEF ThrowAway, RaiseAbort, Working, TypeInv, States
  <2> QED
    BY <1>0, <1>12, <2>2, <2>3 DEF ThrowAway, TypeInv, ioVars, hostVars
<1>13. CASE AllThrownAway \/ Interrupted
  BY <1>0, <1>13 DEF AllThrownAway, Interrupted, TypeInv, Working, Unless,
     ringVars, udcVars, ioVars, hostVars
<1>14. CASE SendStatus
  <2>1. /\ kpc' \in {"next", "cancel"}
        /\ UNCHANGED <<drain, common, left, to_req, more, cancelled, state,
                       file, hostVars>>
        /\ bh' \in [Buffers -> Buffer] /\ fill' \in Buffers
    BY <1>0, <1>14, SendStatusForm
  <2> QED
    BY <1>0, <2>1 DEF TypeInv, hostVars
<1>15. CASE CancelTransfer
  <2>1. cancelled' \in 0 .. NumBuffers
    BY <1>0, <1>15, ConstantsAre DEF CancelTransfer, TypeInv
  <2> QED
    BY <1>0, <1>15, <2>1 DEF CancelTransfer, TypeInv, ringVars, ioVars, hostVars
<1>16. CASE ResetRing
  <2>1. bh' \in [Buffers -> Buffer] /\ fill' \in Buffers /\ drain' \in Buffers
    BY <1>16, FreeIs, ConstantsAre DEF ResetRing, Buffers
  <2>2. /\ cancelled' \in 0 .. NumBuffers /\ state' \in States
        /\ UNCHANGED <<left, to_req, more>>
    BY <1>16, ConstantsAre DEF ResetRing, States, ioVars
  <2>3. CASE kpc' = "status" /\ UNCHANGED <<common, file, hostVars>>
    BY <1>0, <2>1, <2>2, <2>3 DEF TypeInv, Working, hostVars
  <2>4. CASE /\ kpc' = "next" /\ HostIsIdle
             /\ common' = [common EXCEPT !.sense = FALSE]
    <3>1. common' \in Commons
      BY <1>0, <2>4 DEF TypeInv, Commons
    <3> QED
      BY <1>0, <2>1, <2>2, <2>4, <3>1, HostIsIdleIs DEF TypeInv
  <2> QED
    BY <1>16, <2>3, <2>4 DEF ResetRing
<1>17. CASE Complete
  <2>1. bh' \in [Buffers -> Buffer]
    BY <1>0, <1>17, CompleteForm DEF QueueInv
  <2> QED
    BY <1>0, <1>17, <2>1 DEF Complete, TypeInv, ioVars, hostVars
<1>18. CASE HostCbw
  <2>1. PICK c \in HostCommands : /\ cmd' = c
                                 /\ hpc' = IF c.len = 0 THEN "status" ELSE c.dir
    BY <1>18 DEF HostCbw
  <2>2. /\ cmd' \in [op : DOMAIN Direction, dir : {"none", "in", "out"},
                     start : Nat, size : Nat, len : Nat, tag : BOOLEAN]
        /\ hpc' \in {"status", "in", "out"}
    BY <2>1, HostCommandIs
  <2> QED
    BY <1>0, <1>18, <2>2 DEF HostCbw, TypeInv, ringVars, ioVars
<1>19. CASE HostSend
  <2>1. PICK n \in Nat : HostSendUnits(n)
    BY <1>0, <1>19, HostSendIs
  <2>2. outQ # <<>> /\ outQ \in Seq(Buffers)
    BY <1>0, <1>19 DEF HostSend, QueueInv
  <2>3. bh' \in [Buffers -> Buffer]
    BY <1>0, <2>1, <2>2, SendForm
  <2>4. sent' \in Nat
    BY <1>0, <2>1 DEF HostSendUnits, TypeInv
  <2>5. hpc' \in {"status", "out"} /\ stopped' \in BOOLEAN
    BY <1>0, <1>19 DEF HostSend, TypeInv
  <2> QED
    BY <1>0, <2>1, <2>3, <2>4, <2>5 DEF HostSendUnits, TypeInv, ioVars
<1>20. CASE HostStops
  <2>1. PICK n \in Nat : HostSendUnits(n)
    BY <1>0, <1>20, HostStopsIs
  <2>2. outQ # <<>> /\ outQ \in Seq(Buffers)
    BY <1>0, <1>20 DEF HostStops, QueueInv
  <2>3. bh' \in [Buffers -> Buffer]
    BY <1>0, <2>1, <2>2, SendForm
  <2>4. sent' \in Nat
    BY <1>0, <2>1 DEF HostSendUnits, TypeInv
  <2>5. hpc' \in {"status", "out"} /\ stopped' \in BOOLEAN
    BY <1>0, <1>20 DEF HostStops, TypeInv
  <2> QED
    BY <1>0, <2>1, <2>3, <2>4, <2>5 DEF HostSendUnits, TypeInv, ioVars
<1>21. CASE HostReceive
  <2>1. Head(inQ) \in Buffers
    BY <1>0, <1>21, InTail DEF HostReceive, QueueInv
  <2>2. bh[Head(inQ)].data \in Contents /\ received \in Contents
    BY <1>0, <2>1 DEF TypeInv, Buffer
  <2>3. received' \in Contents
    BY <1>21, <2>2, ConcatProperties DEF HostReceive, Contents
  <2>4. hpc' \in {"status", "in"}
    BY <1>21 DEF HostReceive
  <2> QED
    BY <1>0, <1>21, <2>3, <2>4 DEF HostReceive, TypeInv, ringVars, ioVars
<1>22. CASE HostStatus
  <2>1. HostIsIdle
    BY <1>22 DEF HostStatus
  <2> QED
    BY <1>0, <1>22, <2>1, HostIsIdleIs DEF HostStatus, TypeInv, ringVars, ioVars
<1>23. CASE HostReset
  BY <1>0, <1>23 DEF HostReset, TypeInv, States, ringVars, udcVars, ioVars,
     hostVars
<1> QED
  BY <1>1, <1>2, <1>3, <1>4, <1>5, <1>6, <1>7, <1>8, <1>9, <1>10, <1>11,
     <1>12, <1>13, <1>14, <1>15, <1>16, <1>17, <1>18, <1>19, <1>20, <1>21,
     <1>22, <1>23 DEF Next, Kthread

-----------------------------------------------------------------------------
(* Who waits for whom.                                                     *)

\* A queue with something in it holds a buffer.
LEMMA QueueHolds ==
  ASSUME NEW q \in Seq(Buffers), q # <<>>
  PROVE  \E b \in Buffers : IsIn(b, q)
  BY InTail

\* When no buffer is busy, nothing is queued.
LEMMA NothingQueued ==
  ASSUME QueueInv, \A b \in Buffers : ~Busy(b)
  PROVE  inQ = <<>> /\ outQ = <<>> /\ ended = <<>>
<1>1. inQ \in Seq(Buffers) /\ outQ \in Seq(Buffers) /\ ended \in Seq(Buffers)
  BY DEF QueueInv
<1>2. \A b \in Buffers : ~IsIn(b, inQ) /\ ~IsIn(b, outQ) /\ ~IsIn(b, ended)
  BY DEF QueueInv, Busy
<1> QED
  BY <1>1, <1>2, QueueHolds

\* No buffer is busy while all are empty.
LEMMA EmptyIsIdle ==
  ASSUME AllEmpty
  PROVE  \A b \in Buffers : ~Busy(b)
  BY DEF AllEmpty, Busy

\* The host takes something only when the kthread is past it.
LEMMA WhenTaken ==
  ASSUME DataInv, inQ # <<>>, hpc \in {"in", "status"}
  PROVE  \/ kpc = "next" \/ Asked
         \/ hpc = "in" /\ DataDir = "in" /\ kpc \in {"read", "finish", "status"}
<1>0. /\ TypeInv /\ QueueInv /\ ControlInv /\ HostInv /\ RestInv
      /\ FreshInv /\ ReplyInv /\ StatusInv /\ OutInv
  BY DEF DataInv
<1>1. ~AllEmpty
  BY <1>0, EmptyIsIdle, NothingQueued
<1>2. inQ \in Seq(Buffers) /\ Len(inQ) > 0
  BY <1>0, InTail DEF QueueInv
<1>3. kpc # "cancel"
  BY <1>0 DEF ControlInv, TypeInv, States
<1>4. ~Taking
  <2> SUFFICES ASSUME Taking PROVE FALSE
    OBVIOUS
  <2>1. \E k \in 0 .. NumBuffers : \E f \in [0 .. k -> Nat] : Sent(k, f)
    BY <1>0 DEF OutInv
  <2> QED
    BY <2>1 DEF Sent
<1>5. kpc \notin {"start", "verify"}
  BY <1>0, <1>1 DEF FreshInv
<1>6. kpc = "cbw" => Asked
  BY <1>0 DEF RestInv, Commanded, Asked
<1>7. ASSUME kpc = "finish" PROVE hpc = "in" /\ DataDir = "in"
  <2>1. DataDir = "in"
    BY <1>0, <1>1, <1>4, <1>7, SizeIs DEF StatusInv, EmptiedInv, Taking
  <2> QED
    BY <1>0, <1>1, <1>7, <2>1 DEF ReplyInv
<1>8. ASSUME kpc = "status" PROVE hpc = "in" /\ DataDir = "in"
  <2>1. DataDir = "in"
    BY <1>0, <1>1, <1>8 DEF StatusInv, EmptiedInv
  <2>2. Replied(Len(inQ), common.residue)
    BY <1>0, <1>8, <2>1 DEF StatusInv, RepliedInv
  <2> QED
    BY <1>2, <2>1, <2>2 DEF Replied
<1>9. ASSUME kpc = "read" PROVE hpc = "in" /\ DataDir = "in"
  <2>1. DataDir = "in"
    BY <1>0, <1>9 DEF DataInv, AmountInv, Direction
  <2> QED
    BY <1>0, <1>9, <2>1 DEF ReplyInv
<1> QED
  BY <1>0, <1>3, <1>4, <1>5, <1>6, <1>7, <1>8, <1>9 DEF TypeInv, Working, Taking

\* An idle host has sent no CBW yet, and no exception is pending.
LEMMA WhenIdle ==
  ASSUME DataInv, hpc = "idle"
  PROVE  /\ kpc = "next" \/ (Asked /\ Busy(fill))
         /\ state = "NORMAL"
         /\ inQ = <<>> /\ Untouched /\ DataDir = "none"
<1>0. /\ TypeInv /\ QueueInv /\ ControlInv /\ HostInv /\ RestInv
  BY DEF DataInv
<1>1. state = "NORMAL"
  BY <1>0 DEF ControlInv, TypeInv, States
<1>2. Asked => Busy(fill)
  BY <1>0 DEF Asked, QueueInv, TypeInv, Busy
<1> QED
  BY <1>0, <1>1, <1>2 DEF ControlInv, RestInv, Asked, Commanded, HostInv

\* A step of the kthread outside handle_exception.
LEMMA ControlGoesOn ==
  ASSUME TypeInv, ControlInv, kpc # "cancel", UNCHANGED <<hpc, state, cancelled>>,
         kpc' = "cancel" => state # "NORMAL",
         hpc = "idle" => kpc' \in {"next", "cbw"}
  PROVE  ControlInv'
<1>1. cancelled = 0 /\ state # "ABORT_BULK_OUT"
  BY DEF ControlInv
<1>2. \A b \in Buffers : ~(b < 0)
  BY ConstantsAre DEF Buffers
<1> QED
  BY <1>1, <1>2 DEF ControlInv

\* raise_exception of the kthread itself.
LEMMA ControlAborts ==
  ASSUME TypeInv, ControlInv, kpc # "cancel", UNCHANGED <<hpc, cancelled>>,
         kpc' = "cancel", RaiseAbort, hpc # "idle",
         inQ' = <<>>, stopped'
  PROVE  ControlInv'
<1>1. cancelled = 0 /\ state # "ABORT_BULK_OUT"
  BY DEF ControlInv
<1>2. \A b \in Buffers : ~(b < 0)
  BY ConstantsAre DEF Buffers
<1> QED
  BY <1>1, <1>2 DEF ControlInv, RaiseAbort

\* Every step keeps the flow of control.
LEMMA ControlStep ==
  ASSUME DataInv, Next
  PROVE  ControlInv'
<1>0. /\ TypeInv /\ QueueInv /\ ControlInv /\ HostInv /\ FileInv /\ RestInv
      /\ FreshInv /\ ReplyInv /\ StatusInv /\ OutInv /\ AmountInv
  BY DEF DataInv
<1>1. CASE AskForCbw \/ WriteWaits \/ WriteStopsEarly \/ ThrowAwayWaits \/
           AllThrownAway \/ SendStatus
  BY <1>0, <1>1, ControlGoesOn DEF AskForCbw, WriteWaits, WriteStopsEarly,
     ThrowAwayWaits, AllThrownAway, SendStatus, ControlInv, hostVars, Unless
<1>2. CASE ReceivedCbw
  BY <1>0, <1>2, ControlGoesOn, WhenIdle DEF ReceivedCbw, ControlInv,
     hostVars, Unless, Asked, RestInv
<1>3. CASE StartCommand
  <2>1. kpc = "start" /\ UNCHANGED <<hpc, state, cancelled>>
    BY <1>3 DEF StartCommand, hostVars
  <2>2. kpc' = "cancel" => state # "NORMAL"
    BY <1>3 DEF StartCommand, ReplyAtOnce, Unless
  <2> QED
    BY <1>0, <2>1, <2>2, ControlGoesOn DEF ControlInv
<1>4. CASE ReadRound
  <2>1. kpc = "read" /\ UNCHANGED <<hpc, state, cancelled>>
    BY <1>4 DEF ReadRound, hostVars
  <2>2. kpc' = "cancel" => state # "NORMAL"
    BY <1>4 DEF ReadRound
  <2> QED
    BY <1>0, <2>1, <2>2, ControlGoesOn DEF ControlInv
<1>5. CASE VerifyRound
  <2>1. kpc = "verify" /\ UNCHANGED <<hpc, state, cancelled>>
    BY <1>5 DEF VerifyRound, hostVars
  <2>2. kpc' = "cancel" => state # "NORMAL"
    BY <1>5 DEF VerifyRound
  <2> QED
    BY <1>0, <2>1, <2>2, ControlGoesOn DEF ControlInv
<1>6. CASE WriteRequest \/ ThrowAwayRequest
  BY <1>0, <1>6, ControlGoesOn DEF WriteRequest, ThrowAwayRequest, ControlInv,
     hostVars
<1>7. CASE WriteRound
  <2>1. kpc = "drain" /\ UNCHANGED <<hpc, state, cancelled>>
    BY <1>7 DEF WriteRound, hostVars
  <2>2. kpc' = "cancel" => state # "NORMAL"
    BY <1>7 DEF WriteRound, Unless
  <2> QED
    BY <1>0, <2>1, <2>2, ControlGoesOn DEF ControlInv
<1>8. CASE FinishReply
  <2>1. kpc = "finish" /\ UNCHANGED <<hpc, cancelled, stopped>> /\ hpc # "idle"
    BY <1>0, <1>8 DEF FinishReply, hostVars, ControlInv
  <2>2. CASE UNCHANGED state /\ (kpc' = "cancel" => state # "NORMAL")
    BY <1>0, <2>1, <2>2, ControlGoesOn
  <2>3. CASE /\ DataDir = "out" /\ common.short /\ RaiseAbort
             /\ kpc' = "cancel" /\ inQ' = inQ
    <3>1. inQ = <<>>
      <4>1. \E k \in 0 .. NumBuffers : \E f \in [0 .. k -> Nat] : Sent(k, f)
        BY <1>0, <2>1, <2>3 DEF OutInv, Taking
      <4> QED
        BY <4>1 DEF Sent
    <3>2. stopped
      BY <1>0, <2>1, <2>3 DEF AmountInv
    <3> QED
      BY <1>0, <2>1, <2>3, <3>1, <3>2, ControlAborts
  <2> QED
    BY <1>8, <2>2, <2>3 DEF FinishReply, Unless
<1>9. CASE ThrowAway
  <2>1. kpc = "toss" /\ UNCHANGED <<hpc, cancelled, stopped, inQ>>
        /\ hpc # "idle" /\ ~Busy(drain)
    BY <1>0, <1>9 DEF ThrowAway, hostVars, udcVars, ControlInv
  <2>2. CASE UNCHANGED state /\ kpc' = "throw"
    BY <1>0, <2>1, <2>2, ControlGoesOn
  <2>3. CASE IsShort(bh[drain]) /\ RaiseAbort /\ kpc' = "cancel"
    <3>0. PICK k \in 1 .. NumBuffers :
            \E f \in [0 .. k -> Nat] : Ring(k, f) /\ Sent(k, f)
      <4>1. \E k \in 0 .. NumBuffers : \E f \in [0 .. k -> Nat] :
              Ring(k, f) /\ Sent(k, f) /\ k > 0
        BY <1>0, <2>1 DEF OutInv, Taking
      <4> QED
        BY <4>1
    <3>1. PICK f \in [0 .. k -> Nat] : Ring(k, f) /\ Sent(k, f)
      BY <3>0
    <3>2. inQ = <<>>
      BY <3>1 DEF Sent
    <3>3. ~stopped => Len(bh[drain].data) = bh[drain].intended
      BY <1>0, <2>1, <3>1, OldestIs
    <3>4. bh[drain].intended \in Nat
      BY <1>0 DEF TypeInv, Buffer
    <3>5. stopped
      BY <1>0, <2>3, <3>3, <3>4 DEF IsShort, TypeInv
    <3> QED
      BY <1>0, <2>1, <2>3, <3>2, <3>5, ControlAborts
  <2> QED
    BY <1>9, <2>2, <2>3 DEF ThrowAway
<1>10. CASE Interrupted
  BY <1>0, <1>10, ControlGoesOn, WhenIdle DEF Interrupted, ControlInv,
     hostVars, Asleep, AsleepOnFill, AsleepOnDrain
<1>11. CASE CancelTransfer
  <2>1. kpc = "cancel" /\ UNCHANGED <<kpc, state, bh, hpc, stopped>>
        /\ cancelled < NumBuffers
    BY <1>11 DEF CancelTransfer, hostVars, ringVars
  <2>2. inQ = <<>> => inQ' = <<>>
    <3>1. cancelled \in Buffers
      BY <1>0, <2>1, ConstantsAre DEF TypeInv, Buffers
    <3> QED
      BY <1>0, <1>11, <3>1, InWithout DEF CancelTransfer, udcVars, QueueInv
  <2>3. \A b \in Buffers : b < cancelled' => ~Busy(b)'
    <3>1. cancelled' = cancelled
          \/ (~Busy(cancelled) /\ cancelled' = cancelled + 1)
      BY <1>11 DEF CancelTransfer
    <3>2. \A b \in Buffers : b < cancelled + 1 => b < cancelled \/ b = cancelled
      BY <1>0, ConstantsAre DEF Buffers, TypeInv
    <3> QED
      BY <1>0, <2>1, <3>1, <3>2 DEF Busy, ControlInv
  <2> QED
    BY <1>0, <2>1, <2>2, <2>3 DEF ControlInv
<1>12. CASE ResetRing
  <2>1. \A b \in Buffers : ~(b < 0)
    BY ConstantsAre DEF Buffers
  <2>2. state' = "NORMAL" /\ cancelled' = 0 /\ kpc' \in {"status", "next"}
    BY <1>12 DEF ResetRing
  <2>3. hpc' # "reset" /\ (hpc' = "idle" => kpc' = "next")
    BY <1>0, <1>12 DEF ResetRing, ControlInv, HostIsIdle, hostVars
  <2> QED
    BY <2>1, <2>2, <2>3 DEF ControlInv
<1>13. CASE Complete
  <2>1. UNCHANGED <<kpc, state, inQ, hpc, stopped, cancelled>>
    BY <1>13 DEF Complete, hostVars
  <2>2. \A b \in Buffers : Busy(b)' => Busy(b)
    BY <1>0, <1>13, CompleteForm DEF QueueInv, OnlyAt, Busy
  <2> QED
    BY <1>0, <2>1, <2>2 DEF ControlInv
<1>14. CASE HostCbw
  <2>1. hpc = "idle" /\ UNCHANGED <<bh, kpc, state, cancelled, inQ, stopped>>
    BY <1>14 DEF HostCbw, EndOut, ringVars
  <2>2. hpc' \in {"status", "in", "out"}
    BY <1>14, HostCommandIs DEF HostCbw
  <2>3. state = "NORMAL"
    BY <1>0, <2>1 DEF ControlInv, TypeInv, States
  <2> QED
    BY <1>0, <2>1, <2>2, <2>3 DEF ControlInv, Busy
<1>15. CASE HostSend
  <2>1. UNCHANGED <<kpc, state, cancelled>>
        /\ hpc = "out" /\ hpc' \in {"out", "status"}
    BY <1>15 DEF HostSend, HostSendUnits
  <2>2. \A b \in Buffers : Busy(b)' = Busy(b)
    BY <1>0, <1>15, HostSendIs, SendForm DEF QueueInv, OnlyAt, Busy
  <2>3. state = "NORMAL"
    BY <1>0, <2>1 DEF ControlInv, TypeInv, States, HostInv
  <2> QED
    BY <1>0, <2>1, <2>2, <2>3 DEF ControlInv
<1>16. CASE HostStops
  <2>1. UNCHANGED <<kpc, state, cancelled>>
        /\ hpc = "out" /\ hpc' = "status"
    BY <1>16 DEF HostStops, HostSendUnits
  <2>2. \A b \in Buffers : Busy(b)' = Busy(b)
    BY <1>0, <1>16, HostStopsIs, SendForm DEF QueueInv, OnlyAt, Busy
  <2>3. state = "NORMAL"
    BY <1>0, <2>1 DEF ControlInv, TypeInv, States, HostInv
  <2> QED
    BY <1>0, <2>1, <2>2, <2>3 DEF ControlInv
<1>17. CASE HostReceive
  <2>1. UNCHANGED <<bh, kpc, state, cancelled>> /\ inQ # <<>>
        /\ hpc = "in" /\ hpc' \in {"in", "status"}
    BY <1>17 DEF HostReceive, ringVars
  <2>2. state = "NORMAL"
    BY <1>0, <2>1 DEF ControlInv, TypeInv, States
  <2> QED
    BY <1>0, <2>1, <2>2 DEF ControlInv, Busy
<1>18. CASE HostStatus
  <2>1. UNCHANGED <<bh, kpc, state, cancelled>> /\ inQ # <<>>
        /\ hpc = "status" /\ hpc' = "idle"
    BY <1>18 DEF HostStatus, ringVars, HostIsIdle
  <2>2. state = "NORMAL"
    BY <1>0, <2>1 DEF ControlInv, TypeInv, States
  <2>3. kpc \in {"next", "cbw"}
    BY <2>1, WhenTaken DEF Asked
  <2> QED
    BY <1>0, <2>1, <2>2, <2>3 DEF ControlInv, Busy
<1>19. CASE HostReset
  BY <1>0, <1>19 DEF HostReset, ControlInv, ringVars, Busy
<1> QED
  BY <1>1, <1>2, <1>3, <1>4, <1>5, <1>6, <1>7, <1>8, <1>9, <1>10, <1>11,
     <1>12, <1>13, <1>14, <1>15, <1>16, <1>17, <1>18, <1>19 DEF Next, Kthread

\* The host, when nothing of it changes.
LEMMA HostSame ==
  ASSUME HostInv, UNCHANGED hostVars
  PROVE  HostInv'
  BY DEF HostInv, hostVars, DataDir

\* An idle host has moved no data.
LEMMA HostRests ==
  ASSUME TypeInv, HostIsIdle
  PROVE  HostInv' /\ DataDir' = "none"
<1>1. /\ hpc' = "idle" /\ sent' = 0 /\ received' = <<>> /\ stopped' = FALSE
      /\ cmd'.len = 0 /\ cmd'.start = 0 /\ cmd'.op = "TEST_UNIT_READY"
  BY HostIsIdleIs
<1>2. DataDir' = "none"
  BY <1>1 DEF DataDir
<1>3. 0 % BlockLen = 0
  BY ConstantsAre, ModMultiple
<1> QED
  BY <1>1, <1>2, <1>3 DEF HostInv

\* Every step keeps the host in step with its own command.
LEMMA HostStep ==
  ASSUME DataInv, Next
  PROVE  HostInv'
<1>0. /\ TypeInv /\ QueueInv /\ ControlInv /\ HostInv /\ FileInv /\ RestInv
      /\ FreshInv /\ ReplyInv /\ StatusInv /\ OutInv /\ AmountInv
  BY DEF DataInv
<1>1. CASE AskForCbw \/ ReceivedCbw \/ StartCommand \/ ReadRound \/ VerifyRound
           \/ WriteRequest \/ WriteWaits \/ WriteStopsEarly \/ WriteRound \/
           FinishReply \/ ThrowAwayRequest \/ ThrowAwayWaits \/ ThrowAway \/
           AllThrownAway \/ SendStatus \/ Interrupted \/ CancelTransfer \/
           Complete
  BY <1>0, <1>1, HostSame DEF AskForCbw, ReceivedCbw, StartCommand, ReadRound,
     VerifyRound, WriteRequest, WriteWaits, WriteStopsEarly, WriteRound,
     FinishReply, ThrowAwayRequest, ThrowAwayWaits, ThrowAway, AllThrownAway,
     SendStatus, Interrupted, CancelTransfer, Complete
<1>2. CASE ResetRing
  BY <1>0, <1>2, HostSame, HostRests DEF ResetRing
<1>3. CASE HostCbw
  <2>1. hpc = "idle" /\ UNCHANGED <<sent, received, stopped>>
    BY <1>3 DEF HostCbw
  <2>2. sent = 0 /\ received = <<>> /\ ~stopped
    BY <2>1, WhenIdle DEF Untouched
  <2>3. PICK c \in HostCommands :
          cmd' = c /\ hpc' = IF c.len = 0 THEN "status" ELSE c.dir
    BY <1>3 DEF HostCbw
  <2>4. /\ c.dir \in {"in", "out"} /\ c.len < U32 /\ c.start % BlockLen = 0
        /\ c.op \in {"READ", "WRITE", "VERIFY"} => c.size % BlockLen = 0
        /\ c.op \notin {"READ", "WRITE"} => c.size < U32
        /\ c.op = "TEST_UNIT_READY" => c.size = 0
        /\ c.op \notin {"READ", "WRITE", "VERIFY"} => c.start = 0
        /\ c.op \in {"READ", "WRITE", "VERIFY"} /\ c.dir = "in" /\ c.len > 0
           /\ c.size % U32 = 0 => EmptyCommands
        /\ c.len \in Nat
    BY HostCommandIs
  <2>5. DataDir' = IF c.len = 0 THEN "none" ELSE c.dir
    BY <2>3 DEF DataDir
  <2> QED
    BY <2>1, <2>2, <2>3, <2>4, <2>5 DEF HostInv
<1>4. CASE HostSend
  <2>1. hpc = "out" /\ UNCHANGED <<cmd, received>>
    BY <1>4 DEF HostSend, HostSendUnits
  <2>2. PICK n \in Nat : sent' = sent + n /\ n <= cmd.len - sent
          /\ hpc' = IF sent + n = cmd.len THEN "status" ELSE "out"
    BY <1>0, <1>4, HostSendIs DEF HostSendUnits
  <2>3. cmd.len \in Nat /\ sent \in Nat
    BY <1>0, SizeIs DEF TypeInv
  <2>4. DataDir' = DataDir /\ DataDir = "out" /\ sent < cmd.len /\ ~stopped
    BY <1>0, <2>1 DEF HostInv, DataDir
  <2>5. sent' \in Nat /\ sent' <= cmd.len /\ (sent' # cmd.len => sent' < cmd.len)
    BY <2>2, <2>3, <2>4
  <2>6. stopped' = stopped
    BY <1>0, <1>4, HostSendIs
  <2> QED
    BY <1>0, <2>1, <2>2, <2>4, <2>5, <2>6 DEF HostInv
<1>5. CASE HostStops
  <2>1. hpc = "out" /\ UNCHANGED <<cmd, received>>
    BY <1>5 DEF HostStops, HostSendUnits
  <2>2. PICK n \in Nat : sent' = sent + n /\ n < cmd.len - sent
    BY <1>0, <1>5, HostStopsIs DEF HostSendUnits
  <2>3. cmd.len \in Nat /\ sent \in Nat
    BY <1>0, SizeIs DEF TypeInv
  <2>4. DataDir' = DataDir /\ DataDir = "out" /\ sent < cmd.len /\ ~stopped
    BY <1>0, <2>1 DEF HostInv, DataDir
  <2>5. sent' \in Nat /\ sent' <= cmd.len /\ (sent' # cmd.len => sent' < cmd.len)
    BY <2>2, <2>3, <2>4
  <2>6. stopped' = TRUE /\ hpc' = "status"
    BY <1>0, <1>5, HostStopsIs
  <2> QED
    BY <1>0, <2>1, <2>2, <2>4, <2>5, <2>6 DEF HostInv
<1>6. CASE HostReceive
  <2>1. /\ hpc = "in" /\ hpc' \in {"in", "status"}
        /\ UNCHANGED <<cmd, sent, stopped>> /\ DataDir' = DataDir
    BY <1>6 DEF HostReceive, DataDir
  <2> QED
    BY <1>0, <2>1 DEF HostInv
<1>7. CASE HostStatus
  BY <1>0, <1>7, HostRests DEF HostStatus
<1>8. CASE HostReset
  BY <1>0, <1>8 DEF HostReset, HostInv, DataDir
<1> QED
  BY <1>1, <1>2, <1>3, <1>4, <1>5, <1>6, <1>7, <1>8 DEF Next, Kthread

\* The file, when nothing is written.
LEMMA FileSame ==
  ASSUME FileInv, UNCHANGED <<file, cmd, sent>>
  PROVE  FileInv'
  BY DEF FileInv

\* The file, between commands.
LEMMA FileRests ==
  ASSUME TypeInv, HostIsIdle
  PROVE  FileInv'
<1>1. file' \in [0 .. FileLen - 1 -> Int] /\ \A p \in 0 .. FileLen - 1 : file'[p] = Old
  BY HostIsIdleIs
<1> QED
  BY <1>1 DEF FileInv

\* Every step keeps what is written in its place.
LEMMA FileStep ==
  ASSUME DataInv, Next
  PROVE  FileInv'
<1>0. /\ TypeInv /\ QueueInv /\ ControlInv /\ HostInv /\ FileInv /\ RestInv
      /\ FreshInv /\ ReplyInv /\ StatusInv /\ OutInv /\ AmountInv
  BY DEF DataInv
<1>1. CASE AskForCbw \/ ReceivedCbw \/ StartCommand \/ ReadRound \/ VerifyRound
           \/ WriteRequest \/ WriteWaits \/ WriteStopsEarly \/ FinishReply
           \/ ThrowAwayRequest \/ ThrowAwayWaits \/ ThrowAway \/
           AllThrownAway \/ SendStatus \/ Interrupted \/ CancelTransfer \/
           Complete \/ HostReceive \/ HostReset
  BY <1>0, <1>1, FileSame DEF AskForCbw, ReceivedCbw, StartCommand, ReadRound,
     VerifyRound, WriteRequest, WriteWaits, WriteStopsEarly, FinishReply,
     ThrowAwayRequest, ThrowAwayWaits, ThrowAway, AllThrownAway, SendStatus,
     Interrupted, CancelTransfer, Complete, HostReceive, HostReset, hostVars
<1>2. CASE WriteRound
  <2>1. PICK a \in Nat : \E n \in Nat : WroteFrom(a, n)
    BY <1>0, <1>2, WriteRoundIs
  <2>2. PICK n \in Nat : WroteFrom(a, n)
    BY <2>1
  <2>3. PICK put \in Nat : \E nw \in Nat : WriteMoves(a, n, put, nw)
    BY <2>2 DEF WroteFrom
  <2>4. PICK nw \in Nat : WriteMoves(a, n, put, nw)
    BY <2>3
  <2>5. put <= n
    BY <1>0, <2>2, <2>4, WroteAmounts
  <2>6. a + n <= sent /\ cmd' = cmd /\ sent' = sent /\ kpc = "drain"
    BY <2>2 DEF WroteFrom, hostVars
  <2>7. cmd.op = "WRITE"
    BY <1>0, <2>6 DEF AmountInv
  <2>8. /\ file' \in [0 .. FileLen - 1 -> Int]
        /\ \A p \in 0 .. FileLen - 1 :
             file'[p] = IF cmd.start + a <= p /\ p < cmd.start + a + put
                        THEN p - cmd.start ELSE file[p]
    BY <2>4 DEF WriteMoves
  <2>9. cmd.start \in Nat /\ sent \in Nat /\ DOMAIN file = 0 .. FileLen - 1
        /\ DOMAIN file' = 0 .. FileLen - 1
    BY <1>0, <2>8, SizeIs DEF TypeInv
  <2>10. SUFFICES ASSUME NEW p \in 0 .. FileLen - 1, file'[p] # Old
                  PROVE  p = cmd.start + file'[p] /\ file'[p] \in 0 .. sent - 1
    BY <2>6, <2>7, <2>9 DEF FileInv
  <2>11. CASE cmd.start + a <= p /\ p < cmd.start + a + put
    <3>1. file'[p] = p - cmd.start
      BY <2>8, <2>11
    <3>2. p - cmd.start \in 0 .. sent - 1 /\ p = cmd.start + (p - cmd.start)
      BY <2>5, <2>6, <2>9, <2>11, ConstantsAre
    <3> QED
      BY <3>1, <3>2
  <2>12. CASE ~(cmd.start + a <= p /\ p < cmd.start + a + put)
    BY <1>0, <2>8, <2>9, <2>10, <2>12 DEF FileInv
  <2> QED
    BY <2>11, <2>12
<1>3. CASE ResetRing
  BY <1>0, <1>3, FileSame, FileRests DEF ResetRing, hostVars
<1>4. CASE HostCbw
  <2>1. hpc = "idle" /\ UNCHANGED file
    BY <1>4 DEF HostCbw
  <2> QED
    BY <2>1, WhenIdle DEF Untouched, FileInv
<1>5. CASE HostSend
  <2>1. UNCHANGED <<file, cmd>>
    BY <1>5 DEF HostSend, HostSendUnits
  <2>2. PICK n \in Nat : sent' = sent + n
    BY <1>0, <1>5, HostSendIs DEF HostSendUnits
  <2>3. \A u \in 0 .. sent - 1 : u \in 0 .. sent' - 1
    BY <1>0, <2>2 DEF TypeInv
  <2> QED
    BY <1>0, <2>1, <2>3 DEF FileInv
<1>6. CASE HostStops
  <2>1. UNCHANGED <<file, cmd>>
    BY <1>6 DEF HostStops, HostSendUnits
  <2>2. PICK n \in Nat : sent' = sent + n
    BY <1>0, <1>6, HostStopsIs DEF HostSendUnits
  <2>3. \A u \in 0 .. sent - 1 : u \in 0 .. sent' - 1
    BY <1>0, <2>2 DEF TypeInv
  <2> QED
    BY <1>0, <2>1, <2>3 DEF FileInv
<1>7. CASE HostStatus
  BY <1>0, <1>7, FileRests DEF HostStatus
<1> QED
  BY <1>1, <1>2, <1>3, <1>4, <1>5, <1>6, <1>7 DEF Next, Kthread

\* The last of a queue, when the first of it has gone.
LEMMA LastOfTail ==
  ASSUME NEW q \in Seq(Buffers), q # <<>>
  PROVE  /\ Len(q) = 1 => Tail(q) = <<>>
         /\ Tail(q) # <<>> => Tail(q)[Len(Tail(q))] = q[Len(q)]
         /\ Once(q) /\ q[Len(q)] = Head(q) => Tail(q) = <<>>
<1>1. /\ Tail(q) \in Seq(Buffers) /\ Len(Tail(q)) = Len(q) - 1
      /\ Len(q) \in Nat /\ Len(q) > 0 /\ Head(q) = q[1]
      /\ \A i \in 1 .. Len(q) - 1 : Tail(q)[i] = q[i + 1]
  BY InTail
<1>2. Len(q) = 1 => Tail(q) = <<>>
  <2> SUFFICES ASSUME Len(q) = 1 PROVE Tail(q) = <<>>
    OBVIOUS
  <2>1. PICK t \in Seq(Buffers) : t = Tail(q)
    BY <1>1
  <2>2. Len(t) = 0
    BY <1>1, <2>1
  <2>3. t = <<>>
    BY <2>2, EmptySeq
  <2> QED
    BY <2>1, <2>3
<1>3. Tail(q) # <<>> => Len(q) - 1 \in 1 .. Len(q) - 1
  BY <1>1, <1>2
<1>4. Once(q) /\ q[Len(q)] = q[1] => Len(q) = 1
  <2>1. 1 \in 1 .. Len(q) /\ Len(q) \in 1 .. Len(q)
    BY <1>1
  <2> QED
    BY <2>1 DEF Once
<1> QED
  BY <1>1, <1>2, <1>3, <1>4

\* With a command under way there is nothing to say of the rest.
LEMMA RestElsewhere ==
  ASSUME kpc' \notin {"next", "cbw"}, hpc' # "idle"
  PROVE  RestInv'
  BY DEF RestInv, Asked, Commanded

\* While the kthread works on a command, the host is not idle.
LEMMA BusyCommand ==
  ASSUME ControlInv, kpc \notin {"next", "cbw"}
  PROVE  hpc # "idle"
  BY DEF ControlInv

\* While the host sends data, a command is under way.
LEMMA WhenSending ==
  ASSUME DataInv, hpc = "out", outQ # <<>>
  PROVE  kpc \notin {"next", "cbw"} /\ DataDir = "out"
<1>1. DataDir = "out"
  BY DEF DataInv, HostInv
<1>2. kpc # "next" /\ ~Commanded
  BY DEF DataInv, RestInv
<1>3. ~Asked
  BY <1>1 DEF DataInv, StatusInv, AnsweredInv, Answered
<1> QED
  BY <1>1, <1>2, <1>3 DEF Commanded, Asked

\* When the host takes a CSW, nothing is queued behind it.
LEMMA WhenAnswered ==
  ASSUME DataInv, inQ # <<>>, hpc = "status"
  PROVE  /\ kpc = "next" \/ Asked
         /\ Len(inQ) = 1 /\ inQ \in Seq(Buffers) /\ Tail(inQ) = <<>>
<1>0. TypeInv /\ QueueInv /\ StatusInv
  BY DEF DataInv
<1>1. kpc = "next" \/ Asked
  BY WhenTaken
<1>2. inQ \in Seq(Buffers) /\ Len(inQ) \in Nat /\ Len(inQ) > 0
      /\ Tail(inQ) \in Seq(Buffers) /\ Len(Tail(inQ)) = Len(inQ) - 1
  BY <1>0, InTail DEF QueueInv
<1>3. Len(inQ) = 1
  <2>1. PICK t \in Told : IF DataDir = "in" THEN Replied(Len(inQ) - 1, t.residue)
                          ELSE hpc = "status" /\ Len(inQ) = 1
    BY <1>0, <1>1 DEF StatusInv, AnsweredInv, Answered
  <2>2. CASE DataDir = "in"
    <3>1. hpc = IF Len(inQ) - 1 > 0 THEN "in" ELSE "status"
      BY <2>1, <2>2 DEF Replied
    <3> QED
      BY <1>2, <3>1
  <2> QED
    BY <2>1, <2>2
<1>4. Tail(inQ) = <<>>
  BY <1>2, <1>3, LastOfTail
<1> QED
  BY <1>1, <1>2, <1>3, <1>4

\* Every step keeps what holds between two commands.
LEMMA RestStep ==
  ASSUME DataInv, Next
  PROVE  RestInv'
<1>0. /\ TypeInv /\ QueueInv /\ ControlInv /\ HostInv /\ FileInv /\ RestInv
      /\ FreshInv /\ ReplyInv /\ StatusInv /\ OutInv /\ AmountInv
  BY DEF DataInv
<1>1. CASE AskForCbw
  <2>1. /\ kpc = "next" /\ kpc' = "cbw" /\ ~Busy(fill) /\ StartOut("cbw", 1)
        /\ UNCHANGED <<fill, inQ, hpc, cmd, sent, received, stopped, file>>
    BY <1>1 DEF AskForCbw, hostVars
  <2>2. /\ OnlyAt(fill) /\ bh'[fill].state = "RECEIVING" /\ bh'[fill].kind = "cbw"
        /\ outQ' = Append(outQ, fill) /\ fill \in Buffers
    BY <1>0, <2>1, StartOutForm DEF TypeInv
  <2>3. outQ = <<>>
    BY <1>0, <2>1 DEF RestInv
  <2>4. outQ' = <<fill>>
    BY <2>2, <2>3
  <2>5. Asked' /\ ~Commanded'
    BY <2>1, <2>4 DEF Asked, Commanded, IsIn
  <2>6. \A b \in Buffers : b # fill => bh'[b].state \in {"EMPTY", "SENDING"}
    BY <1>0, <2>1, <2>2 DEF RestInv, OnlyAt
  <2>7. hpc = "idle" => inQ' = <<>> /\ Untouched'
    BY <1>0, <2>1 DEF RestInv, Untouched
  <2> QED
    BY <2>1, <2>2, <2>4, <2>5, <2>6, <2>7 DEF RestInv
<1>2. CASE ReceivedCbw
  BY <1>2, WhenIdle, RestElsewhere DEF ReceivedCbw, hostVars, Unless, Asked
<1>3. CASE StartCommand
  <2>1. kpc \notin {"next", "cbw"} /\ kpc' \notin {"next", "cbw"} /\ hpc' = hpc
    BY <1>3 DEF StartCommand, hostVars, ReplyAtOnce, Unless
  <2> QED
    BY <1>0, <2>1, BusyCommand, RestElsewhere
<1>4. CASE ReadRound
  <2>1. kpc \notin {"next", "cbw"} /\ kpc' \notin {"next", "cbw"} /\ hpc' = hpc
    BY <1>4 DEF ReadRound, hostVars
  <2> QED
    BY <1>0, <2>1, BusyCommand, RestElsewhere
<1>5. CASE VerifyRound
  <2>1. kpc \notin {"next", "cbw"} /\ kpc' \notin {"next", "cbw"} /\ hpc' = hpc
    BY <1>5 DEF VerifyRound, hostVars
  <2> QED
    BY <1>0, <2>1, BusyCommand, RestElsewhere
<1>6. CASE WriteRequest \/ WriteWaits \/ WriteStopsEarly \/ FinishReply \/
           ThrowAwayRequest \/ ThrowAwayWaits \/ ThrowAway \/ AllThrownAway
           \/ CancelTransfer
  BY <1>0, <1>6, BusyCommand, RestElsewhere DEF WriteRequest, WriteWaits,
     WriteStopsEarly, FinishReply, ThrowAwayRequest, ThrowAwayWaits,
     ThrowAway, AllThrownAway, CancelTransfer, hostVars, Unless
<1>7. CASE WriteRound
  <2>1. kpc \notin {"next", "cbw"} /\ kpc' \notin {"next", "cbw"} /\ hpc' = hpc
    BY <1>7 DEF WriteRound, hostVars, Unless
  <2> QED
    BY <1>0, <2>1, BusyCommand, RestElsewhere
<1>8. CASE SendStatus
  <2>1. /\ kpc = "status" /\ kpc' \in {"next", "cancel"} /\ UNCHANGED <<hpc, outQ>>
        /\ OnlyAt(fill) /\ bh'[fill].state = "SENDING" /\ hpc # "idle"
    BY <1>0, <1>8, SendStatusForm DEF hostVars, ControlInv
  <2>2. CASE kpc' = "cancel"
    BY <2>1, <2>2, RestElsewhere
  <2>3. CASE kpc' = "next"
    <3>1. outQ = <<>> /\ \A b \in Buffers : bh[b].state \in {"EMPTY", "SENDING"}
      <4>1. CASE DataDir = "in"
        BY <1>0, <2>1, <4>1 DEF ReplyInv, ReplyRing
      <4>2. CASE DataDir # "in"
        <5>1. AllEmpty
          BY <1>0, <2>1, <4>2 DEF StatusInv, EmptiedInv
        <5> QED
          BY <1>0, <5>1, EmptyIsIdle, NothingQueued DEF AllEmpty
      <4> QED
        BY <4>1, <4>2
    <3> QED
      BY <2>1, <2>3, <3>1 DEF RestInv, OnlyAt, Asked, Commanded
  <2> QED
    BY <2>1, <2>2, <2>3
<1>9. CASE Interrupted
  BY <1>9, WhenIdle, RestElsewhere DEF Interrupted, hostVars
<1>10. CASE ResetRing
  <2>1. CASE state = "ABORT_BULK_OUT" /\ kpc' = "status" /\ UNCHANGED hostVars
    BY <1>0, <1>10, <2>1, RestElsewhere DEF ResetRing, ControlInv, hostVars
  <2>2. CASE kpc' = "next" /\ HostIsIdle
    <3>1. inQ = <<>> /\ outQ = <<>>
      <4>1. \A b \in Buffers : ~Busy(b)
        <5>1. \A b \in Buffers : b < NumBuffers
          BY ConstantsAre DEF Buffers
        <5> QED
          BY <1>0, <1>10, <5>1 DEF ResetRing, ControlInv
      <4> QED
        BY <1>0, <4>1, NothingQueued
    <3>2. UNCHANGED <<inQ, outQ>> /\ \A b \in Buffers : bh'[b].state = "EMPTY"
      BY <1>10, FreeIs DEF ResetRing, udcVars
    <3>3. Untouched'
      <4>1. /\ sent' = 0 /\ received' = <<>> /\ stopped' = FALSE
            /\ file' \in [0 .. FileLen - 1 -> Int]
            /\ \A p \in 0 .. FileLen - 1 : file'[p] = Old
        BY <1>0, <2>2, HostIsIdleIs
      <4> QED
        BY <4>1 DEF Untouched
    <3> QED
      BY <2>2, <3>1, <3>2, <3>3 DEF RestInv, Asked, Commanded
  <2> QED
    BY <1>10, <2>1, <2>2 DEF ResetRing
<1>11. CASE Complete
  <2>1. UNCHANGED <<kpc, inQ, outQ, fill, hpc, cmd, sent, received, stopped, file>>
    BY <1>11 DEF Complete, hostVars
  <2>2. Untouched' = Untouched /\ Begun' = Begun /\ Asked' = Asked
        /\ Commanded' = Commanded
    BY <2>1 DEF Untouched, Begun, Asked, Commanded
  <2>3. CASE kpc \notin {"next", "cbw"}
    BY <1>0, <2>1, <2>3, BusyCommand, RestElsewhere
  <2>4. CASE kpc \in {"next", "cbw"}
    <3> DEFINE b0 == Head(ended)
    <3>1. /\ b0 \in Buffers /\ ended # <<>> /\ OnlyAt(b0)
          /\ ended \in Seq(Buffers) /\ ended' = Tail(ended)
          /\ bh[b0].state = "SENDING" => bh'[b0].state = "EMPTY"
          /\ bh[b0].state # "SENDING" =>
               bh'[b0].state = "FULL" /\ bh'[b0].kind = bh[b0].kind
      BY <1>0, <1>11, CompleteForm DEF QueueInv
    <3>2. Busy(b0) /\ IsIn(b0, ended) /\ Once(ended)
      BY <1>0, <3>1, InTail DEF QueueInv
    <3> HIDE DEF b0
    <3>3. \A b \in Buffers : kpc = "next" \/ b # fill =>
              bh'[b].state \in {"EMPTY", "SENDING"}
      BY <1>0, <2>4, <3>1, <3>2 DEF RestInv, OnlyAt, Busy
    <3>4. kpc = "cbw" =>
            bh'[fill].kind = "cbw" /\ bh'[fill].state \in {"RECEIVING", "FULL"}
      BY <1>0, <3>1 DEF RestInv, OnlyAt, TypeInv
    <3>5. ASSUME Commanded
          PROVE  /\ ended' # <<>> => ended'[Len(ended')] = fill
                 /\ bh'[fill].state = "FULL" => ended' = <<>>
      <4>1. ended[Len(ended)] = fill /\ bh[fill].state # "FULL"
        BY <1>0, <3>1, <3>5 DEF RestInv
      <4>2. ended' # <<>> => ended'[Len(ended')] = ended[Len(ended)]
        BY <3>1, LastOfTail
      <4>3. ASSUME bh'[fill].state = "FULL" PROVE ended' = <<>>
        <5>0. fill \in Buffers
          BY <1>0 DEF TypeInv
        <5>1. b0 = fill
          BY <3>1, <4>1, <4>3, <5>0 DEF OnlyAt
        <5> QED
          BY <3>1, <3>2, <4>1, <5>1, LastOfTail DEF b0
      <4> QED
        BY <4>1, <4>2, <4>3
    <3> QED
      BY <1>0, <2>1, <2>2, <3>3, <3>4, <3>5 DEF RestInv
  <2> QED
    BY <2>3, <2>4
<1>12. CASE HostCbw
  <2>1. /\ hpc = "idle" /\ outQ # <<>> /\ outQ' = Tail(outQ)
        /\ ended' = Append(ended, Head(outQ))
        /\ UNCHANGED <<bh, fill, kpc, inQ, file, sent, received, stopped>>
    BY <1>12 DEF HostCbw, EndOut, ringVars
  <2>2. Asked /\ outQ = <<fill>> /\ inQ = <<>> /\ Untouched
    BY <1>0, <2>1, WhenIdle DEF RestInv, Asked
  <2>3. Begun' /\ hpc' # "idle"
    <3>1. PICK c \in HostCommands :
            cmd' = c /\ hpc' = IF c.len = 0 THEN "status" ELSE c.dir
      BY <1>12 DEF HostCbw
    <3>2. c.dir \in {"in", "out"}
      BY HostCommandIs
    <3> QED
      BY <3>1, <3>2 DEF Begun
  <2>4. outQ' = <<>> /\ ended' = Append(ended, fill)
    BY <2>1, <2>2
  <2>5. ended'[Len(ended')] = fill
    BY <1>0, <2>4 DEF QueueInv, TypeInv
  <2>6. bh[fill].state = "RECEIVING"
    BY <1>0, <2>2 DEF QueueInv, Asked, TypeInv
  <2>7. Untouched'
    BY <2>1, <2>2 DEF Untouched
  <2>8. kpc = "cbw" /\ ~Asked'
    BY <2>1, <2>2, <2>4 DEF Asked, IsIn
  <2> QED
    BY <1>0, <2>1, <2>2, <2>3, <2>4, <2>5, <2>6, <2>7, <2>8 DEF RestInv
<1>13. CASE HostSend
  BY <1>13, WhenSending, RestElsewhere DEF HostSend, HostSendUnits
<1>14. CASE HostStops
  BY <1>14, WhenSending, RestElsewhere DEF HostStops, HostSendUnits
<1>15. CASE HostReceive
  <2>1. /\ inQ # <<>> /\ hpc' # "idle"
        /\ UNCHANGED <<bh, fill, kpc, outQ, cmd, sent, stopped>>
    BY <1>15 DEF HostReceive, EndIn, ringVars
  <2>2. ~Commanded
    BY <1>0, <2>1 DEF RestInv
  <2> QED
    BY <1>0, <2>1, <2>2 DEF RestInv, Asked, Commanded
<1>16. CASE HostStatus
  <2>1. /\ inQ # <<>> /\ hpc = "status" /\ inQ' = Tail(inQ) /\ HostIsIdle
        /\ UNCHANGED <<bh, fill, kpc, outQ>>
    BY <1>16 DEF HostStatus, EndIn, ringVars
  <2>2. (kpc = "next" \/ Asked) /\ inQ' = <<>>
    BY <2>1, WhenAnswered
  <2>3. Untouched'
    <3>1. /\ sent' = 0 /\ received' = <<>> /\ stopped' = FALSE
          /\ file' \in [0 .. FileLen - 1 -> Int]
          /\ \A p \in 0 .. FileLen - 1 : file'[p] = Old
      BY <1>0, <2>1, HostIsIdleIs
    <3> QED
      BY <3>1 DEF Untouched
  <2>4. ~Commanded'
    BY <2>1, <2>2 DEF Asked, Commanded
  <2> QED
    BY <1>0, <2>1, <2>2, <2>3, <2>4 DEF RestInv, Asked
<1>17. CASE HostReset
  <2>1. /\ hpc' = "reset"
        /\ UNCHANGED <<bh, fill, kpc, inQ, outQ, ended,
                       cmd, sent, received, stopped, file>>
    BY <1>17 DEF HostReset, ringVars, udcVars
  <2> QED
    BY <1>0, <2>1 DEF RestInv, Asked, Commanded, Begun, Untouched
<1> QED
  BY <1>1, <1>2, <1>3, <1>4, <1>5, <1>6, <1>7, <1>8, <1>9, <1>10, <1>11,
     <1>12, <1>13, <1>14, <1>15, <1>16, <1>17 DEF Next, Kthread

\* While no buffer is in use, nothing is queued, and no transfer can end.
LEMMA FreshIsQuiet ==
  ASSUME DataInv, kpc \in {"start", "verify"}
  PROVE  /\ AllEmpty /\ Begun /\ Untouched
         /\ inQ = <<>> /\ outQ = <<>> /\ ended = <<>> /\ hpc # "idle"
<1>0. QueueInv /\ FreshInv /\ ControlInv
  BY DEF DataInv
<1>1. AllEmpty /\ Begun /\ Untouched
  BY <1>0 DEF FreshInv
<1> QED
  BY <1>0, <1>1, EmptyIsIdle, NothingQueued DEF ControlInv

\* Every step keeps what holds before any data has moved.
LEMMA FreshStep ==
  ASSUME DataInv, Next
  PROVE  FreshInv'
<1>0. /\ TypeInv /\ QueueInv /\ ControlInv /\ HostInv /\ FileInv /\ RestInv
      /\ FreshInv /\ ReplyInv /\ StatusInv /\ OutInv /\ AmountInv
  BY DEF DataInv
<1>1. CASE AskForCbw \/ WriteRequest \/ WriteWaits \/ WriteStopsEarly \/
           FinishReply \/ ThrowAwayRequest \/ ThrowAwayWaits \/ ThrowAway \/
           AllThrownAway \/ SendStatus \/ Interrupted \/ CancelTransfer \/
           ResetRing
  BY <1>0, <1>1 DEF AskForCbw, WriteRequest, WriteWaits, WriteStopsEarly,
     FinishReply, ThrowAwayRequest, ThrowAwayWaits, ThrowAway, AllThrownAway,
     SendStatus, Interrupted, CancelTransfer, ResetRing, FreshInv, Unless
<1>2. CASE ReceivedCbw
  <2>1. /\ kpc = "cbw" /\ kpc' # "verify" /\ ~Busy(fill)
        /\ bh' = [bh EXCEPT ![fill] = Free]
        /\ UNCHANGED <<file, hpc, cmd, sent, received, stopped>>
    BY <1>2 DEF ReceivedCbw, hostVars, Unless
  <2>2. bh[fill].state = "FULL" /\ fill \in Buffers
    BY <1>0, <2>1 DEF RestInv, Busy, TypeInv
  <2>3. Commanded
    BY <1>0, <2>1, <2>2 DEF Commanded, QueueInv, Busy
  <2>4. inQ = <<>> /\ outQ = <<>> /\ ended = <<>> /\ Begun /\ Untouched
    BY <1>0, <2>2, <2>3 DEF RestInv
  <2>5. \A b \in Buffers : b # fill => bh[b].state = "EMPTY"
    <3>1. \A b \in Buffers : ~IsIn(b, inQ) /\ ~IsIn(b, outQ) /\ ~IsIn(b, ended)
      BY <2>4 DEF IsIn
    <3> QED
      BY <1>0, <2>1, <3>1 DEF QueueInv, RestInv, Busy
  <2>6. AllEmpty'
    BY <1>0, <2>1, <2>2, <2>5, EmptiedForm DEF AllEmpty, OnlyAt
  <2> QED
    BY <2>1, <2>4, <2>6 DEF FreshInv, Begun, Untouched
<1>3. CASE StartCommand
  <2>1. /\ kpc = "start"
        /\ UNCHANGED <<file, hpc, cmd, sent, received, stopped>>
    BY <1>3 DEF StartCommand, hostVars
  <2>2. /\ kpc' # "start" /\ (kpc' = "verify" => bh' = bh)
        /\ drain' = fill'
    BY <2>1, <1>3 DEF StartCommand, ReplyAtOnce, Unless
  <2> QED
    BY <1>0, <2>1, <2>2 DEF FreshInv, AllEmpty, Begun, Untouched
<1>4. CASE ReadRound
  BY <1>0, <1>4 DEF ReadRound, FreshInv
<1>5. CASE VerifyRound
  <2>1. /\ kpc = "verify"
        /\ UNCHANGED <<file, hpc, cmd, sent, received, stopped>>
    BY <1>5 DEF VerifyRound, hostVars
  <2>2. kpc' # "start" /\ (kpc' = "verify" => bh' = bh)
    BY <2>1, <1>5 DEF VerifyRound
  <2>3. UNCHANGED <<fill, drain>>
    BY <1>5 DEF VerifyRound
  <2> QED
    BY <1>0, <2>1, <2>2, <2>3 DEF FreshInv, AllEmpty, Begun, Untouched
<1>6. CASE WriteRound
  BY <1>0, <1>6 DEF WriteRound, FreshInv, Unless
<1>7. CASE HostSend \/ HostStops \/ HostReceive \/ HostStatus \/ Complete \/
           HostCbw
  BY <1>0, <1>7, FreshIsQuiet DEF HostSend, HostStops, HostReceive,
     HostStatus, Complete, HostCbw, HostSendUnits, FreshInv
<1>8. CASE HostReset
  <2>1. /\ hpc' = "reset"
        /\ UNCHANGED <<bh, fill, drain, kpc, cmd, sent, received, stopped, file>>
    BY <1>8 DEF HostReset, ringVars
  <2> QED
    BY <1>0, <2>1 DEF FreshInv, AllEmpty, Begun, Untouched
<1> QED
  BY <1>1, <1>2, <1>3, <1>4, <1>5, <1>6, <1>7, <1>8 DEF Next, Kthread

\* The amounts of a command, when the kthread stays where it is.
LEMMA AmountSame ==
  ASSUME AmountInv, UNCHANGED <<kpc, common, cmd, left, to_req, file>>,
         stopped => stopped'
  PROVE  AmountInv'
  BY DEF AmountInv, Size, CdbSize, DataDir

\* ... and when it is done with the data.
LEMMA AmountElsewhere ==
  ASSUME kpc' \notin Working,
         kpc' \in {"cbw", "start"} => ~common'.short
  PROVE  AmountInv'
  BY DEF AmountInv, Working

\* ... and while it finishes the command.
LEMMA AmountAfter ==
  ASSUME kpc' \in {"finish", "throw", "toss", "status"},
         common'.residue <= cmd'.len,
         kpc' # "status" => common'.usb_amount_left <= cmd'.len,
         kpc' = "finish" /\ common'.short => stopped'
  PROVE  AmountInv'
  BY DEF AmountInv, Working

\* Every step keeps the amounts that are left.
LEMMA AmountStep ==
  ASSUME DataInv, Next
  PROVE  AmountInv'
<1>0. /\ TypeInv /\ QueueInv /\ ControlInv /\ HostInv /\ FileInv /\ RestInv
      /\ FreshInv /\ ReplyInv /\ StatusInv /\ OutInv /\ AmountInv
  BY DEF DataInv
<1>1. CASE AskForCbw
  BY <1>0, <1>1, AmountElsewhere DEF AskForCbw, Idle, Working
<1>2. CASE ReceivedCbw
  <2>1. common'.short = common.short /\ kpc' \in {"start", "cancel"} /\ kpc = "cbw"
    BY <1>0, <1>2 DEF ReceivedCbw, Unless, TypeInv, Commons
  <2> QED
    BY <1>0, <2>1, AmountElsewhere DEF AmountInv, Working
<1>3. CASE StartCommand
  <2>1. /\ cmd.len \in Nat /\ cmd.start \in Nat /\ cmd.size \in Nat
        /\ Size \in Nat /\ Size <= cmd.len
    BY <1>0, SizeIs
  <2>2. kpc = "start" /\ ~common.short /\ UNCHANGED <<cmd, stopped, file>>
    BY <1>0, <1>3 DEF StartCommand, AmountInv, hostVars
  <2>3. ASSUME NEW n \in Nat, StartsReply(n) PROVE AmountInv'
    <3>1. /\ common'.short = common.short /\ common'.usb_amount_left = cmd.len
          /\ kpc' \in {"finish", "cancel"} /\ n <= cmd.len
          /\ common'.residue = cmd.len - n \/ common'.residue = cmd.len
      BY <2>3 DEF StartsReply, Started, ToFinish
    <3>2. common'.residue <= cmd.len
      BY <2>1, <3>1
    <3> QED
      BY <2>1, <2>2, <3>1, <3>2, AmountElsewhere, AmountAfter DEF Working
  <2>4. ASSUME StartsTransfer PROVE AmountInv'
    <3>1. /\ common'.short = common.short /\ common'.usb_amount_left = cmd.len
          /\ common'.size = Size /\ common'.residue = cmd.len /\ ~common'.sense
          /\ common'.phase_error = (cmd.len < CdbSize(cmd) \/ Conflicting)
          /\ ~Conflicting /\ cmd.op \in {"READ", "WRITE"} /\ cmd.start < FileLen
          /\ left' = Size /\ to_req' = IF cmd.op = "WRITE" THEN Size ELSE 0
      BY <2>4 DEF StartsTransfer, Started
    <3>2. CASE Size = 0
      BY <2>1, <2>2, <2>4, <3>1, <3>2, AmountElsewhere, AmountAfter
         DEF StartsTransfer, ToFinish, Working
    <3>3. CASE Size # 0
      <4>1. kpc' = IF cmd.op = "READ" THEN "read" ELSE "write"
        BY <2>4, <3>3 DEF StartsTransfer
      <4>2. Size > 0 /\ cmd.len # 0
        BY <2>1, <3>3
      <4>3. DataDir = Direction[cmd.op]
        BY <3>1, <4>2 DEF Conflicting, DataDir
      <4>4. UNCHANGED <<DataDir, Size, CdbSize(cmd)>>
        BY <2>2 DEF DataDir, Size, CdbSize
      <4>5. common'.phase_error = (cmd.len < CdbSize(cmd))
        BY <3>1
      <4>6. /\ 0 < left' /\ left' <= Size /\ Size - left' = 0
            /\ cmd.len = cmd.len - Size + left'
            /\ cmd.start + Size - left' <= FileLen /\ to_req' <= left'
        BY <2>1, <3>1, <4>2, ConstantsAre
      <4>7. 0 % BlockLen = 0
        BY ConstantsAre, ModMultiple
      <4>8. \A i \in 0 .. Size - left' - 1 : file'[cmd.start + i] = i
        BY <4>6
      <4> QED
        BY <2>1, <2>2, <3>1, <4>1, <4>3, <4>4, <4>5, <4>6, <4>7, <4>8
           DEF AmountInv, Working
    <3> QED
      BY <3>2, <3>3
  <2>5. ASSUME StartsVerify PROVE AmountInv'
    <3>1. /\ common'.short = common.short /\ common'.usb_amount_left = cmd.len
          /\ common'.residue = cmd.len /\ cmd.op = "VERIFY" /\ cmd.start < FileLen
          /\ left' = cmd.size
      BY <2>5 DEF StartsVerify, Started
    <3>2. CASE cmd.size = 0
      BY <2>1, <2>2, <2>5, <3>1, <3>2, AmountElsewhere, AmountAfter
         DEF StartsVerify, ToFinish, Working
    <3>3. CASE cmd.size # 0
      <4>1. kpc' = "verify"
        BY <2>5, <3>3 DEF StartsVerify
      <4>2. 0 < left' /\ left' <= cmd.size /\ cmd.start + cmd.size - left' <= FileLen
        BY <2>1, <3>1, <3>3, ConstantsAre
      <4> QED
        BY <2>1, <2>2, <3>1, <4>1, <4>2 DEF AmountInv, Working
    <3> QED
      BY <3>2, <3>3
  <2> QED
    BY <1>0, <1>3, <2>3, <2>4, <2>5, StartCommandForm
<1>4. CASE ReadRound
  <2>1. kpc = "read" /\ UNCHANGED <<to_req, file, cmd, stopped>>
    BY <1>4 DEF ReadRound, hostVars
  <2>2. /\ DataDir = Direction[cmd.op] /\ common.size = Size /\ left > 0
        /\ left <= Size /\ common.residue = cmd.len - Size + left
        /\ common.phase_error = (cmd.len < CdbSize(cmd)) /\ cmd.op = "READ"
        /\ (Size - left) % BlockLen = 0 /\ ~common.sense /\ ~common.short
        /\ common.residue <= cmd.len /\ common.usb_amount_left <= cmd.len
    BY <1>0, <2>1 DEF AmountInv, Working
  <2>3. /\ cmd.len \in Nat /\ Size \in Nat /\ left \in Nat /\ cmd.start \in Nat
        /\ common.residue \in Nat
    BY <1>0, SizeIs DEF TypeInv, Commons
  <2>4. ASSUME NEW n \in Nat, ReadEnds(n) PROVE AmountInv'
    <3>1. /\ kpc' = "finish" /\ common'.short = common.short
          /\ common'.residue = common.residue - n
          /\ common'.usb_amount_left = common.usb_amount_left
      BY <2>4 DEF ReadEnds, ReadMoves
    <3> QED
      BY <2>1, <2>2, <2>3, <3>1, AmountAfter
  <2>5. ASSUME NEW n \in Nat, ReadGoesOn(n) PROVE AmountInv'
    <3>1. /\ kpc' = "read" /\ common'.short = common.short
          /\ common'.sense = common.sense /\ common'.size = common.size
          /\ common'.phase_error = common.phase_error
          /\ common'.residue = common.residue - n
          /\ common'.usb_amount_left = common.usb_amount_left
          /\ left' = left - n /\ n < left /\ n % BlockLen = 0
          /\ FileOffset + n <= FileLen
      BY <2>5 DEF ReadGoesOn, ReadMoves
    <3>2. UNCHANGED <<DataDir, Size, CdbSize(cmd)>>
      BY <2>1 DEF DataDir, Size, CdbSize
    <3>3. /\ 0 < left' /\ left' <= Size /\ Size - left' = (Size - left) + n
          /\ common'.residue = cmd.len - Size + left'
          /\ common'.residue <= cmd.len
      BY <2>2, <2>3, <3>1
    <3>4. cmd.start + Size - left' <= FileLen
      BY <2>2, <2>3, <3>1, ConstantsAre DEF FileOffset
    <3>5. (Size - left') % BlockLen = 0
      <4>1. Size - left \in Nat
        BY <2>2, <2>3
      <4> QED
        BY <2>2, <3>1, <3>3, <4>1, ModAdd, ConstantsAre
    <3> QED
      BY <2>1, <2>2, <3>1, <3>2, <3>3, <3>4, <3>5 DEF AmountInv, Working
  <2>6. CASE kpc' = "cancel"
    BY <2>6, AmountElsewhere DEF Working
  <2> QED
    BY <1>0, <1>4, <2>4, <2>5, <2>6, ReadRoundForm
<1>5. CASE VerifyRound
  <2>1. kpc = "verify" /\ UNCHANGED <<to_req, file, cmd, stopped>>
    BY <1>5 DEF VerifyRound, hostVars
  <2>2. /\ cmd.op = "VERIFY" /\ common.residue = cmd.len /\ ~common.short
        /\ common.usb_amount_left = cmd.len /\ 0 < left /\ left <= cmd.size
    BY <1>0, <2>1 DEF AmountInv
  <2>3. cmd.len \in Nat /\ cmd.size \in Nat /\ left \in Nat /\ cmd.start \in Nat
    BY <1>0, SizeIs DEF TypeInv
  <2>4. ASSUME NEW n \in Nat, VerifyEnds(n) PROVE AmountInv'
    <3>1. /\ kpc' = "finish" /\ common'.short = common.short
          /\ common'.residue = common.residue
          /\ common'.usb_amount_left = common.usb_amount_left
      BY <2>4 DEF VerifyEnds
    <3> QED
      BY <2>1, <2>2, <2>3, <3>1, AmountAfter
  <2>5. ASSUME NEW n \in Nat, VerifyGoesOn(n) PROVE AmountInv'
    <3>1. /\ kpc' = "verify" /\ common' = common /\ left' > 0 /\ left' = left - n
          /\ VerifyOffset + n <= FileLen
      BY <2>5 DEF VerifyGoesOn, VerifyMoves
    <3>2. left' <= cmd.size /\ 0 < left'
      BY <2>2, <2>3, <3>1
    <3>3. cmd.start + cmd.size - left' <= FileLen
      BY <2>3, <3>1, ConstantsAre DEF VerifyOffset
    <3> QED
      BY <2>1, <2>2, <2>3, <3>1, <3>2, <3>3 DEF AmountInv, Working
  <2>6. CASE kpc' = "cancel"
    BY <2>6, AmountElsewhere DEF Working
  <2> QED
    BY <1>0, <1>5, <2>4, <2>5, <2>6, VerifyRoundForm
<1>6. CASE WriteRequest
  <2>1. /\ kpc = "write" /\ UNCHANGED <<kpc, left, file, cmd, stopped>>
    BY <1>6 DEF WriteRequest, hostVars
  <2>2. to_req > 0 /\ to_req <= common.usb_amount_left /\ to_req <= left
    BY <1>0, <2>1, <1>6, WriteAmounts DEF WriteRequest, MayRequest
  <2>3. WriteRefuses \/ (\E n \in Nat : WriteAsks(n))
    BY <1>0, <2>2, <1>6, WriteRequestForm
  <2>4. /\ common'.residue = common.residue /\ common'.size = common.size
        /\ common'.phase_error = common.phase_error /\ common'.short = common.short
        /\ common'.usb_amount_left <= common.usb_amount_left
        /\ common'.usb_amount_left \in Nat /\ to_req' <= to_req /\ to_req' \in Nat
    <3>1. common.usb_amount_left \in Nat /\ to_req \in Nat
      BY <1>0 DEF TypeInv, Commons
    <3>2. CASE WriteRefuses
      BY <3>1, <3>2 DEF WriteRefuses
    <3>3. ASSUME NEW n \in Nat, WriteAsks(n)
          PROVE  /\ common'.residue = common.residue /\ common'.size = common.size
                 /\ common'.phase_error = common.phase_error
                 /\ common'.short = common.short
                 /\ common'.usb_amount_left <= common.usb_amount_left
                 /\ common'.usb_amount_left \in Nat
                 /\ to_req' <= to_req /\ to_req' \in Nat
      <4>1. /\ common'.residue = common.residue /\ common'.size = common.size
            /\ common'.phase_error = common.phase_error
            /\ common'.short = common.short
            /\ common'.usb_amount_left = common.usb_amount_left - n
            /\ to_req' = to_req - n /\ n <= to_req
        BY <3>3 DEF WriteAsks, Requests
      <4> QED
        BY <2>2, <3>1, <4>1
    <3> QED
      BY <2>3, <3>2, <3>3
  <2>5. common.usb_amount_left \in Nat /\ cmd.len \in Nat /\ to_req \in Nat
        /\ left \in Nat
    BY <1>0, SizeIs DEF TypeInv, Commons
  <2>6. common.usb_amount_left <= cmd.len
    BY <1>0, <2>1 DEF AmountInv, Working
  <2>7. common'.usb_amount_left <= cmd.len /\ to_req' <= left
    BY <2>2, <2>4, <2>5, <2>6
  <2>8. UNCHANGED <<DataDir, Size, CdbSize(cmd)>>
    BY <2>1 DEF DataDir, Size, CdbSize
  <2> QED
    BY <1>0, <2>1, <2>4, <2>7, <2>8 DEF AmountInv, Working
<1>7. CASE WriteWaits
  <2>1. /\ kpc = "write" /\ kpc' = "drain"
        /\ UNCHANGED <<common, left, to_req, file, cmd, stopped>>
    BY <1>7 DEF WriteWaits, hostVars, ioVars
  <2>2. UNCHANGED <<DataDir, Size, CdbSize(cmd)>>
    BY <2>1 DEF DataDir, Size, CdbSize
  <2> QED
    BY <1>0, <2>1, <2>2 DEF AmountInv, Working
<1>8. CASE WriteStopsEarly
  <2>1. /\ kpc = "write" /\ kpc' \in {"finish", "cancel"}
        /\ UNCHANGED <<common, cmd, stopped>>
    BY <1>8 DEF WriteStopsEarly, hostVars, Unless
  <2>2. /\ common.residue <= cmd.len /\ common.usb_amount_left <= cmd.len
        /\ ~common.short
    BY <1>0, <2>1 DEF AmountInv, Working
  <2> QED
    BY <2>1, <2>2, AmountAfter, AmountElsewhere DEF Working
<1>9. CASE WriteRound
  <2>1. PICK a \in Nat : \E n \in Nat : WroteFrom(a, n)
    BY <1>0, <1>9, WriteRoundIs
  <2>2. PICK n \in Nat : WroteFrom(a, n)
    BY <2>1
  <2>3. PICK put \in Nat : \E nw \in Nat : WriteMoves(a, n, put, nw)
    BY <2>2 DEF WroteFrom
  <2>4. PICK nw \in Nat : WriteMoves(a, n, put, nw)
    BY <2>3
  <2>5. PICK amount \in Nat :
          amount = WholeBlocks(AtMost(n, FileLen - (cmd.start + a)))
    BY <1>0, <2>2, <2>4, WroteAmounts
  <2>6. nw <= put /\ put <= n /\ nw <= left /\ n <= left /\ amount <= n
    BY <1>0, <2>2, <2>4, <2>5, WroteAmounts
  <2>7. /\ UNCHANGED <<cmd, stopped, to_req>> /\ kpc = "drain"
        /\ a = Size - left /\ n <= bh[drain].intended
        /\ ~stopped => n = bh[drain].intended
        /\ a + bh[drain].intended <= Size - to_req
    BY <2>2 DEF WroteFrom, hostVars
  <2>8. /\ cmd.len \in Nat /\ Size \in Nat /\ left \in Nat /\ cmd.start \in Nat
        /\ common.residue \in Nat /\ to_req \in Nat
        /\ bh[drain].intended \in Nat
    BY <1>0, SizeIs DEF TypeInv, Commons, Buffer
  <2>9. /\ DataDir = Direction[cmd.op] /\ common.size = Size /\ cmd.op = "WRITE"
        /\ common.residue = cmd.len - Size + left
        /\ common.phase_error = (cmd.len < CdbSize(cmd)) /\ ~common.short
        /\ common.residue <= cmd.len /\ common.usb_amount_left <= cmd.len
        /\ \A i \in 0 .. Size - left - 1 : file[cmd.start + i] = i
    BY <1>0, <2>7 DEF AmountInv, Working
  <2>10. /\ put <= amount /\ cmd.start + a + amount <= FileLen
         /\ \A p \in 0 .. FileLen - 1 :
              file'[p] = IF cmd.start + a <= p /\ p < cmd.start + a + put
                         THEN p - cmd.start ELSE file[p]
    BY <2>4, <2>5 DEF WriteMoves
  <2>11. CASE kpc' = "cancel"
    BY <2>11, AmountElsewhere DEF Working
  <2>12. CASE kpc' # "cancel"
    <3>1. /\ left' = left - nw
          /\ common'.size = common.size
          /\ common'.residue = common.residue - nw
          /\ common'.usb_amount_left = common.usb_amount_left
          /\ common'.phase_error = common.phase_error
          /\ common'.short <=> ~(nw < amount) /\ n < bh[drain].intended
          /\ IF (nw < amount) \/ n < bh[drain].intended \/ left' = 0
             THEN kpc' = IF state = "NORMAL" THEN "finish" ELSE "cancel"
             ELSE kpc' = "write"
      BY <2>4, <2>5, <2>12 DEF WriteMoves
    <3>2. common'.residue <= cmd.len
      BY <2>8, <2>9, <3>1
    <3>3. CASE kpc' = "finish"
      <4>1. common'.short => stopped'
        BY <2>7, <2>8, <3>1
      <4> QED
        BY <2>7, <2>9, <3>1, <3>2, <3>3, <4>1, AmountAfter
    <3>4. CASE kpc' = "write"
      <4>1. nw = amount /\ ~(n < bh[drain].intended) /\ left' # 0
        BY <2>6, <2>10, <3>1, <3>4
      <4>2. ~common'.short
        BY <3>1, <4>1
      <4>3. /\ 0 < left' /\ left' <= Size /\ to_req' <= left'
            /\ common'.residue = cmd.len - Size + left'
            /\ Size - left' = a + nw
        BY <2>6, <2>7, <2>8, <2>9, <3>1, <4>1
      <4>4. cmd.start + Size - left' <= FileLen
        BY <2>8, <2>10, <4>1, <4>3, ConstantsAre
      <4>5. ASSUME NEW i \in 0 .. Size - left' - 1 PROVE file'[cmd.start + i] = i
        <5>1. PICK p \in 0 .. FileLen - 1 : p = cmd.start + i
          <6>1. cmd.start + i \in 0 .. FileLen - 1
            BY <2>8, <2>10, <4>1, <4>3, ConstantsAre
          <6> QED
            BY <6>1
        <5>2. CASE i < a
          <6>1. ~(cmd.start + a <= p)
            BY <2>8, <5>1, <5>2
          <6>2. i \in 0 .. Size - left - 1
            BY <2>7, <2>8, <5>2
          <6> QED
            BY <2>9, <2>10, <5>1, <6>1, <6>2
        <5>3. CASE a <= i
          <6>1. cmd.start + a <= p /\ p < cmd.start + a + put
            BY <2>6, <2>8, <4>3, <5>1, <5>3
          <6>2. p - cmd.start = i
            BY <2>8, <5>1
          <6> QED
            BY <2>10, <5>1, <6>1, <6>2
        <5> QED
          BY <5>2, <5>3
      <4>6. UNCHANGED <<DataDir, Size, CdbSize(cmd)>>
        BY <2>7 DEF DataDir, Size, CdbSize
      <4> QED
        BY <2>7, <2>9, <3>1, <3>2, <3>4, <4>2, <4>3, <4>4, <4>5, <4>6
           DEF AmountInv, Working
    <3> QED
      BY <2>12, <3>1, <3>3, <3>4
  <2> QED
    BY <2>11, <2>12
<1>10. CASE FinishReply
  <2>1. kpc = "finish" /\ kpc' \in {"status", "throw", "cancel"}
        /\ UNCHANGED <<common, cmd>>
    BY <1>10 DEF FinishReply, Unless, hostVars
  <2>2. common.residue <= cmd.len /\ common.usb_amount_left <= cmd.len
    BY <1>0, <2>1 DEF AmountInv, Working
  <2> QED
    BY <2>1, <2>2, AmountAfter, AmountElsewhere DEF Working
<1>11. CASE ThrowAwayRequest
  <2>1. kpc = "throw" /\ UNCHANGED <<kpc, cmd>>
    BY <1>11 DEF ThrowAwayRequest, hostVars
  <2>2. PICK n \in Nat : Requests(n) /\ n <= common.usb_amount_left
    BY <1>0, <1>11, ThrowAwayRequestForm
  <2>3. common'.residue = common.residue
        /\ common'.usb_amount_left = common.usb_amount_left - n
    BY <2>2 DEF Requests
  <2>4. common.residue <= cmd.len /\ common.usb_amount_left <= cmd.len
    BY <1>0, <2>1 DEF AmountInv, Working
  <2>5. cmd.len \in Nat /\ common.usb_amount_left \in Nat
    BY <1>0, SizeIs DEF TypeInv, Commons
  <2>6. common'.usb_amount_left <= cmd.len
    BY <2>3, <2>4, <2>5
  <2> QED
    BY <2>1, <2>3, <2>4, <2>6, AmountAfter
<1>12. CASE ThrowAwayWaits
  <2>1. kpc \in {"throw", "toss"} /\ kpc' \in {"throw", "toss", "status", "cancel"}
        /\ UNCHANGED <<common, cmd>>
    BY <1>12 DEF ThrowAwayWaits, Unless, hostVars
  <2>2. common.residue <= cmd.len /\ common.usb_amount_left <= cmd.len
    BY <1>0, <2>1 DEF AmountInv, Working
  <2> QED
    BY <2>1, <2>2, AmountAfter, AmountElsewhere DEF Working
<1>13. CASE ThrowAway
  <2>1. kpc \in {"throw", "toss"} /\ kpc' \in {"throw", "toss", "status", "cancel"}
        /\ UNCHANGED <<common, cmd>>
    BY <1>13 DEF ThrowAway, Unless, hostVars
  <2>2. common.residue <= cmd.len /\ common.usb_amount_left <= cmd.len
    BY <1>0, <2>1 DEF AmountInv, Working
  <2> QED
    BY <2>1, <2>2, AmountAfter, AmountElsewhere DEF Working
<1>14. CASE AllThrownAway
  <2>1. kpc \in {"throw", "toss"} /\ kpc' \in {"throw", "toss", "status", "cancel"}
        /\ UNCHANGED <<common, cmd>>
    BY <1>14 DEF AllThrownAway, Unless, hostVars
  <2>2. common.residue <= cmd.len /\ common.usb_amount_left <= cmd.len
    BY <1>0, <2>1 DEF AmountInv, Working
  <2> QED
    BY <2>1, <2>2, AmountAfter, AmountElsewhere DEF Working
<1>15. CASE Interrupted \/ CancelTransfer \/ SendStatus
  BY <1>0, <1>15, AmountElsewhere DEF Interrupted, CancelTransfer, SendStatus,
     Unless, Working
<1>16. CASE ResetRing
  <2>1. CASE state = "ABORT_BULK_OUT" /\ kpc' = "status"
             /\ UNCHANGED <<common, hostVars>>
    <3>1. hpc # "reset"
      BY <1>0, <2>1 DEF ControlInv
    <3>2. Outcome(common.residue, Csw.status)
      BY <1>0, <2>1, <3>1 DEF StatusInv, OutcomeInv
    <3>3. common.residue <= cmd.len
      <4>1. cmd.len - common.residue \in 0 .. cmd.len
        BY <3>2 DEF Outcome
      <4>2. common.residue \in Nat /\ cmd.len \in Nat
        BY <1>0, SizeIs DEF TypeInv, Commons
      <4> QED
        BY <4>1, <4>2
    <3> QED
      BY <2>1, <3>3, AmountAfter DEF hostVars
  <2>2. CASE kpc' = "next"
    BY <2>2, AmountElsewhere DEF Working
  <2> QED
    BY <1>16, <2>1, <2>2 DEF ResetRing
<1>17. CASE Complete \/ HostReceive \/ HostReset
  BY <1>0, <1>17, AmountSame DEF Complete, HostReceive, HostReset, hostVars,
     ioVars
<1>18. CASE HostCbw
  <2>1. kpc \in {"next", "cbw"} /\ UNCHANGED <<kpc, common>>
    BY <1>0, <1>18 DEF HostCbw, ControlInv, Asked
  <2> QED
    BY <1>0, <2>1, AmountElsewhere DEF AmountInv, Working
<1>19. CASE HostSend
  <2>1. UNCHANGED <<kpc, common, cmd, left, to_req, file>>
    BY <1>19 DEF HostSend, HostSendUnits, ioVars
  <2>2. stopped => stopped'
    BY <1>19 DEF HostSend
  <2> QED
    BY <1>0, <2>1, <2>2, AmountSame
<1>20. CASE HostStops
  <2>1. UNCHANGED <<kpc, common, cmd, left, to_req, file>>
    BY <1>20 DEF HostStops, HostSendUnits, ioVars
  <2>2. stopped => stopped'
    BY <1>20 DEF HostStops
  <2> QED
    BY <1>0, <2>1, <2>2, AmountSame
<1>21. CASE HostStatus
  <2>1. kpc \in {"next", "cbw"} /\ UNCHANGED <<kpc, common>>
    BY <1>0, <1>21, WhenTaken DEF HostStatus, ControlInv, Asked
  <2> QED
    BY <1>0, <2>1, AmountElsewhere DEF AmountInv, Working
<1> QED
  BY <1>1, <1>2, <1>3, <1>4, <1>5, <1>6, <1>7, <1>8, <1>9, <1>10, <1>11,
     <1>12, <1>13, <1>14, <1>15, <1>16, <1>17, <1>18, <1>19, <1>20, <1>21 DEF
     Next, Kthread
=============================================================================
