--------------------------- MODULE DataPathProofs ---------------------------
(***************************************************************************)
(* What of DataPath holds for every number and size of buffers, every      *)
(* medium and every command.  The proof follows the data: out to the file, *)
(* as a ring of buffers; in to the host, as a queue of buffers that joins  *)
(* up with what the host has received; and then the CSW that tells of it.  *)
(***************************************************************************)
EXTENDS DataPathInvariant

-----------------------------------------------------------------------------
(* The buffers that hold data from the host, as a ring.                    *)

\* The buffers in the order in which they are drained.
LEMMA SlotIs ==
  ASSUME NEW d \in Buffers
  PROVE  /\ \A i \in 0 .. NumBuffers : Slot(d, i) \in Buffers
         /\ Slot(d, 0) = d /\ Slot(d, NumBuffers) = d
         /\ \A i, j \in 0 .. NumBuffers - 1 : Slot(d, i) = Slot(d, j) => i = j
         /\ \A i \in 0 .. NumBuffers - 1 :
              /\ NextOf(Slot(d, i)) = Slot(d, i + 1)
              /\ Slot(NextOf(d), i) = Slot(d, i + 1)
<1>1. NumBuffers \in Nat /\ NumBuffers >= 2 /\ d \in 0 .. NumBuffers - 1
  BY ConstantsAre DEF Buffers
<1>2. \A b \in Buffers : NextOf(b) = IF b = NumBuffers - 1 THEN 0 ELSE b + 1
  BY NextOfIs
<1>3. \A i \in 0 .. NumBuffers : Slot(d, i) \in Buffers
  BY <1>1 DEF Slot, Buffers
<1>4. \A i, j \in 0 .. NumBuffers - 1 : Slot(d, i) = Slot(d, j) => i = j
  BY <1>1 DEF Slot
<1>5. ASSUME NEW i \in 0 .. NumBuffers - 1
      PROVE  NextOf(Slot(d, i)) = Slot(d, i + 1)
  <2>1. PICK b \in Buffers : b = Slot(d, i)
    <3>1. i \in 0 .. NumBuffers
      BY <1>1
    <3> QED
      BY <1>3, <3>1
  <2>2. NextOf(b) = IF b = NumBuffers - 1 THEN 0 ELSE b + 1
    BY <1>2
  <2>3. (IF b = NumBuffers - 1 THEN 0 ELSE b + 1) = Slot(d, i + 1)
    BY <1>1, <2>1 DEF Slot
  <2> QED
    BY <2>1, <2>2, <2>3
<1>6. ASSUME NEW i \in 0 .. NumBuffers - 1
      PROVE  Slot(NextOf(d), i) = Slot(d, i + 1)
  <2>1. PICK b \in Buffers : b = NextOf(d)
                          /\ b = IF d = NumBuffers - 1 THEN 0 ELSE d + 1
    BY <1>2, NextOfIs
  <2>2. Slot(b, i) = Slot(d, i + 1)
    BY <1>1, <2>1 DEF Slot
  <2> QED
    BY <2>1, <2>2
<1>7. Slot(d, 0) = d /\ Slot(d, NumBuffers) = d
  BY <1>1 DEF Slot
<1> QED
  BY <1>3, <1>4, <1>5, <1>6, <1>7

\* What is said of the ring does not depend on the rest.
LEMMA RingSame ==
  ASSUME NEW k \in 0 .. NumBuffers, NEW f \in [0 .. k -> Nat],
         Ring(k, f), Sent(k, f),
         UNCHANGED <<bh, fill, drain, inQ, outQ, cmd, sent, stopped>>,
         common'.usb_amount_left = common.usb_amount_left
  PROVE  Ring(k, f)' /\ Sent(k, f)'
  BY DEF Ring, Sent, SentUpTo

\* Without a buffer in use there is no data.
LEMMA RingStarts ==
  ASSUME fill' \in Buffers, AllEmpty', inQ' = <<>>, outQ' = <<>>, drain' = fill',
         common'.usb_amount_left = cmd'.len, cmd'.len \in Nat, sent' = 0
  PROVE  \E f \in [0 .. 0 -> Nat] : f[0] = 0 /\ Ring(0, f)' /\ Sent(0, f)'
<1> DEFINE f == [i \in 0 .. 0 |-> 0]
<1>1. f \in [0 .. 0 -> Nat] /\ f[0] = 0
  OBVIOUS
<1>2. \A i \in 0 .. NumBuffers - 1 : Slot(fill', i) \in Buffers
  BY SlotIs, ConstantsAre
<1>3. Slot(fill', 0) = fill'
  BY SlotIs
<1> HIDE DEF f
<1>4. Ring(0, f)'
  <2>1. \A i \in 0 .. NumBuffers - 1 : bh'[Slot(drain', i)].state = "EMPTY"
    BY <1>2 DEF AllEmpty
  <2>2. f[0] = cmd'.len - common'.usb_amount_left
    BY <1>1
  <2>3. \A i, j \in 0 .. 0 : i < j => f[i] < f[j]
    OBVIOUS
  <2>4. \A i \in 0 .. 0 - 1 : FALSE
    OBVIOUS
  <2> QED
    BY <1>3, <2>1, <2>2, <2>3, <2>4 DEF Ring
<1>5. Sent(0, f)'
  <2>1. Len(outQ') = 0
    BY EmptySeq
  <2>2. SentUpTo(0, f)'
    BY <1>1, <2>1 DEF SentUpTo
  <2>3. 0 \in 0 .. 0 /\ 0 = 0 + Len(outQ')
    BY <2>1
  <2> QED
    BY <2>2, <2>3 DEF Sent
<1> QED
  BY <1>1, <1>4, <1>5

\* The ring, with one more buffer for n units.
RingGrows(k, f, n) ==
  \E f2 \in [0 .. k + 1 -> Nat] :
    /\ \A i \in 0 .. k : f2[i] = f[i]
    /\ f2[k + 1] = f[k] + n
    /\ Ring(k + 1, f2)' /\ Sent(k + 1, f2)'

\* One more buffer is asked for.
LEMMA RingRequest ==
  ASSUME TypeInv, QueueInv,
         NEW k \in 0 .. NumBuffers, NEW f \in [0 .. k -> Nat],
         Ring(k, f), Sent(k, f), bh[fill].state = "EMPTY",
         NEW n \in Nat, Requests(n),
         UNCHANGED <<drain, inQ, cmd, sent, stopped>>
  PROVE  /\ k + 1 \in 0 .. NumBuffers /\ k < NumBuffers
         /\ RingGrows(k, f, n)
<1>1. /\ drain \in Buffers /\ fill \in Buffers /\ fill = Slot(drain, k)
      /\ NumBuffers \in Nat /\ NumBuffers >= 2
  BY ConstantsAre DEF TypeInv, Ring
<1>2. /\ n > 0 /\ common'.usb_amount_left = common.usb_amount_left - n
      /\ OnlyAt(fill)
      /\ bh'[fill].state = "RECEIVING" /\ bh'[fill].kind = "data"
      /\ bh'[fill].intended = n
      /\ outQ' = Append(outQ, fill) /\ fill' = NextOf(fill)
  BY DEF Requests
<1>3. k < NumBuffers
  <2> SUFFICES ASSUME k = NumBuffers PROVE FALSE
    BY <1>1
  <2>1. fill = Slot(drain, 0)
    BY <1>1, SlotIs
  <2>2. 0 \in 0 .. k - 1
    BY <1>1
  <2>3. bh[Slot(drain, 0)].state \in {"RECEIVING", "FULL"}
    BY <2>2 DEF Ring
  <2> QED
    BY <2>1, <2>3
<1>4. \A i \in 0 .. NumBuffers - 1 : Slot(drain, i) \in Buffers
  BY <1>1, SlotIs
<1>5. ASSUME NEW i \in 0 .. NumBuffers - 1, i # k
      PROVE  Slot(drain, i) # fill /\ bh'[Slot(drain, i)] = bh[Slot(drain, i)]
  <2>1. Slot(drain, i) # fill
    BY <1>1, <1>3, <1>5, SlotIs
  <2> QED
    BY <1>2, <1>4, <2>1 DEF OnlyAt
<1> DEFINE f2 == [i \in 0 .. k + 1 |-> IF i <= k THEN f[i] ELSE f[k] + n]
<1>6. /\ f2 \in [0 .. k + 1 -> Nat] /\ \A i \in 0 .. k : f2[i] = f[i]
      /\ f2[k + 1] = f[k] + n
  OBVIOUS
<1> HIDE DEF f2
<1>7. Ring(k + 1, f2)'
  <2>1. fill' = Slot(drain', k + 1)
    BY <1>1, <1>2, <1>3, SlotIs
  <2>2. ASSUME NEW i \in 0 .. k
        PROVE  /\ bh'[Slot(drain, i)].state \in {"RECEIVING", "FULL"}
               /\ bh'[Slot(drain, i)].kind = "data"
               /\ bh'[Slot(drain, i)].intended = f2[i + 1] - f2[i]
    <3>1. CASE i = k
      <4>1. f2[k + 1] - f2[k] = n
        BY <1>6
      <4> QED
        BY <1>1, <1>2, <3>1, <4>1
    <3>2. CASE i # k
      <4>1. i \in 0 .. k - 1 /\ i \in 0 .. NumBuffers - 1 /\ i + 1 \in 0 .. k
        BY <1>1, <1>3, <3>2
      <4>2. /\ bh[Slot(drain, i)].state \in {"RECEIVING", "FULL"}
            /\ bh[Slot(drain, i)].kind = "data"
            /\ bh[Slot(drain, i)].intended = f[i + 1] - f[i]
        BY <4>1 DEF Ring
      <4>3. f2[i + 1] - f2[i] = f[i + 1] - f[i]
        BY <1>6, <4>1
      <4> QED
        BY <1>5, <3>2, <4>1, <4>2, <4>3
    <3> QED
      BY <3>1, <3>2
  <2>3. ASSUME NEW i \in k + 1 .. NumBuffers - 1
        PROVE  bh'[Slot(drain, i)].state = "EMPTY"
    <3>1. i \in 0 .. NumBuffers - 1 /\ i # k /\ i \in k .. NumBuffers - 1
      BY <1>1
    <3>2. bh[Slot(drain, i)].state = "EMPTY"
      BY <3>1 DEF Ring
    <3> QED
      BY <1>5, <3>1, <3>2
  <2>4. ASSUME NEW i \in 0 .. k + 1, NEW j \in 0 .. k + 1, i < j
        PROVE  f2[i] < f2[j]
    <3>1. \A x, y \in 0 .. k : x < y => f[x] < f[y]
      BY DEF Ring
    <3>2. i \in 0 .. k /\ f2[i] = f[i] /\ f[i] \in Nat /\ f[k] \in Nat
      BY <1>6, <2>4
    <3>3. CASE j = k + 1
      <4>1. i = k \/ f[i] < f[k]
        BY <3>1, <3>2
      <4> QED
        BY <1>2, <1>6, <3>2, <3>3, <4>1
    <3>4. CASE j \in 0 .. k
      BY <1>6, <2>4, <3>1, <3>2, <3>4
    <3> QED
      BY <3>3, <3>4
  <2>5. f2[k + 1] = cmd'.len - common'.usb_amount_left
    <3>1. f[k] = cmd.len - common.usb_amount_left
      BY DEF Ring
    <3>2. cmd.len \in Nat /\ common.usb_amount_left \in Nat
      BY SizeIs DEF TypeInv, Commons
    <3> QED
      BY <1>2, <1>6, <3>1, <3>2, SMTT(30)
  <2>6. \A i \in 0 .. k + 1 - 1 : i \in 0 .. k
    OBVIOUS
  <2> QED
    BY <2>1, <2>2, <2>3, <2>4, <2>5, <2>6 DEF Ring
<1>8. Sent(k + 1, f2)'
  <2>1. /\ outQ \in Seq(Buffers) /\ Len(outQ) \in Nat /\ Len(outQ') = Len(outQ) + 1
        /\ \A j \in 1 .. Len(outQ) : outQ'[j] = outQ[j]
        /\ outQ'[Len(outQ) + 1] = fill
    BY <1>1, <1>2, InAppend DEF QueueInv
  <2>2. PICK e \in 0 .. k : k = e + Len(outQ) /\ SentUpTo(e, f)
    BY DEF Sent
  <2>3. /\ \A j \in 1 .. Len(outQ) : outQ[j] = Slot(drain, e + j - 1)
        /\ \A i \in 0 .. e - 1 :
             /\ bh[Slot(drain, i)].data = Units(f[i], Len(bh[Slot(drain, i)].data))
             /\ Len(bh[Slot(drain, i)].data) <= f[i + 1] - f[i]
             /\ f[i] + Len(bh[Slot(drain, i)].data) <= sent
             /\ ~stopped => Len(bh[Slot(drain, i)].data) = f[i + 1] - f[i]
        /\ ~stopped => sent = f[e]
    BY <2>2 DEF SentUpTo
  <2>4. e \in 0 .. k + 1 /\ k + 1 = e + Len(outQ') /\ inQ = <<>>
    BY <2>1, <2>2 DEF Sent
  <2>5. ASSUME NEW j \in 1 .. Len(outQ') PROVE outQ'[j] = Slot(drain, e + j - 1)
    <3>1. CASE j = Len(outQ) + 1
      <4>1. e + j - 1 = k
        BY <2>1, <2>2, <3>1
      <4> QED
        BY <1>1, <2>1, <3>1, <4>1
    <3>2. CASE j \in 1 .. Len(outQ)
      BY <2>1, <2>3, <3>2
    <3> QED
      BY <2>1, <3>1, <3>2, SMTT(30)
  <2>6. ASSUME NEW i \in 0 .. e - 1
        PROVE  /\ bh'[Slot(drain, i)] = bh[Slot(drain, i)]
               /\ f2[i] = f[i] /\ f2[i + 1] = f[i + 1]
    <3>1. i \in 0 .. NumBuffers - 1 /\ i # k /\ i \in 0 .. k /\ i + 1 \in 0 .. k
      BY <1>1, <1>3, <2>2
    <3> QED
      BY <1>5, <1>6, <3>1
  <2>7. f2[e] = f[e]
    BY <1>6, <2>2
  <2>8. SentUpTo(e, f2)'
    BY <2>3, <2>5, <2>6, <2>7 DEF SentUpTo
  <2> QED
    BY <2>4, <2>8 DEF Sent
<1> QED
  BY <1>1, <1>3, <1>6, <1>7, <1>8, SMTT(30) DEF RingGrows

\* The ring, without its oldest buffer.
RingShrinks(k, f) ==
  \E f2 \in [0 .. k - 1 -> Nat] :
    /\ \A i \in 0 .. k - 1 : f2[i] = f[i + 1]
    /\ Ring(k - 1, f2)' /\ Sent(k - 1, f2)'

\* The oldest buffer is emptied.
LEMMA RingDrain ==
  ASSUME TypeInv, QueueInv,
         NEW k \in 1 .. NumBuffers, NEW f \in [0 .. k -> Nat],
         Ring(k, f), Sent(k, f), ~Busy(drain),
         OnlyAt(drain), bh'[drain].state = "EMPTY", drain' = NextOf(drain),
         UNCHANGED <<fill, inQ, outQ, cmd, sent, stopped>>,
         common'.usb_amount_left = common.usb_amount_left
  PROVE  /\ k - 1 \in 0 .. NumBuffers
         /\ RingShrinks(k, f)
<1>1. /\ drain \in Buffers /\ fill = Slot(drain, k) /\ drain' = NextOf(drain)
      /\ NumBuffers \in Nat /\ NumBuffers >= 2 /\ k \in Nat /\ k >= 1
      /\ k <= NumBuffers
  BY ConstantsAre DEF TypeInv, Ring
<1>2. /\ \A i \in 0 .. NumBuffers : Slot(drain, i) \in Buffers
      /\ Slot(drain, 0) = drain /\ Slot(drain, NumBuffers) = drain
      /\ \A i, j \in 0 .. NumBuffers - 1 : Slot(drain, i) = Slot(drain, j) => i = j
      /\ \A i \in 0 .. NumBuffers - 1 : Slot(NextOf(drain), i) = Slot(drain, i + 1)
  BY <1>1, SlotIs
<1>3. ASSUME NEW i \in 1 .. NumBuffers - 1
      PROVE  bh'[Slot(drain, i)] = bh[Slot(drain, i)]
  <2>1. i \in 0 .. NumBuffers - 1 /\ i \in 0 .. NumBuffers /\ i # 0
        /\ 0 \in 0 .. NumBuffers - 1
    BY <1>1
  <2>2. Slot(drain, i) # drain /\ Slot(drain, i) \in Buffers
    BY <1>2, <2>1
  <2> QED
    BY <2>2 DEF OnlyAt
<1>4. \A i \in 0 .. NumBuffers - 1 : Slot(drain', i) = Slot(drain, i + 1)
  BY <1>1, <1>2
<1> DEFINE f2 == [i \in 0 .. k - 1 |-> f[i + 1]]
<1>5. f2 \in [0 .. k - 1 -> Nat] /\ \A i \in 0 .. k - 1 : f2[i] = f[i + 1]
  <2>1. \A i \in 0 .. k - 1 : i + 1 \in 0 .. k
    BY <1>1
  <2> QED
    BY <2>1
<1> HIDE DEF f2
<1>6. Ring(k - 1, f2)'
  <2>1. fill' = Slot(drain', k - 1)
    <3>1. k - 1 \in 0 .. NumBuffers - 1 /\ k - 1 + 1 = k
      BY <1>1
    <3> QED
      BY <1>1, <1>4, <3>1
  <2>2. ASSUME NEW i \in 0 .. k - 1 - 1
        PROVE  /\ bh'[Slot(drain', i)].state \in {"RECEIVING", "FULL"}
               /\ bh'[Slot(drain', i)].kind = "data"
               /\ bh'[Slot(drain', i)].intended = f2[i + 1] - f2[i]
    <3>1. /\ i + 1 \in 0 .. k - 1 /\ i + 1 \in 1 .. NumBuffers - 1
          /\ i \in 0 .. NumBuffers - 1 /\ i \in 0 .. k - 1
      BY <1>1, SMTT(30)
    <3>2. /\ bh[Slot(drain, i + 1)].state \in {"RECEIVING", "FULL"}
          /\ bh[Slot(drain, i + 1)].kind = "data"
          /\ bh[Slot(drain, i + 1)].intended = f[i + 1 + 1] - f[i + 1]
      BY <3>1 DEF Ring
    <3>3. f2[i + 1] = f[i + 1 + 1] /\ f2[i] = f[i + 1]
      BY <1>5, <3>1
    <3>4. bh'[Slot(drain, i + 1)] = bh[Slot(drain, i + 1)]
      BY <1>3, <3>1
    <3>5. Slot(drain', i) = Slot(drain, i + 1)
      BY <1>4, <3>1
    <3> QED
      BY <3>2, <3>3, <3>4, <3>5
  <2>3. ASSUME NEW i \in k - 1 .. NumBuffers - 1
        PROVE  bh'[Slot(drain', i)].state = "EMPTY"
    <3>1. i \in 0 .. NumBuffers - 1
      BY <1>1
    <3>2. Slot(drain', i) = Slot(drain, i + 1)
      BY <1>4, <3>1
    <3>3. CASE i = NumBuffers - 1
      <4>1. i + 1 = NumBuffers
        BY <1>1, <3>3
      <4> QED
        BY <1>2, <3>2, <4>1
    <3>4. CASE i # NumBuffers - 1
      <4>1. i + 1 \in k .. NumBuffers - 1 /\ i + 1 \in 1 .. NumBuffers - 1
        BY <1>1, <3>4
      <4>2. bh[Slot(drain, i + 1)].state = "EMPTY"
        BY <4>1 DEF Ring
      <4>3. bh'[Slot(drain, i + 1)] = bh[Slot(drain, i + 1)]
        BY <1>3, <4>1
      <4> QED
        BY <3>2, <4>2, <4>3
    <3> QED
      BY <3>3, <3>4
  <2>4. ASSUME NEW i \in 0 .. k - 1, NEW j \in 0 .. k - 1, i < j
        PROVE  f2[i] < f2[j]
    <3>1. i + 1 \in 0 .. k /\ j + 1 \in 0 .. k /\ i + 1 < j + 1
      BY <1>1, <2>4
    <3>2. f[i + 1] < f[j + 1]
      BY <3>1 DEF Ring
    <3> QED
      BY <1>5, <3>2
  <2>5. f2[k - 1] = cmd'.len - common'.usb_amount_left
    <3>1. f[k] = cmd.len - common.usb_amount_left
      BY DEF Ring
    <3>2. k - 1 \in 0 .. k - 1 /\ k - 1 + 1 = k
      BY <1>1
    <3> QED
      BY <1>5, <3>1, <3>2
  <2> QED
    BY <2>1, <2>2, <2>3, <2>4, <2>5 DEF Ring
<1>7. Sent(k - 1, f2)'
  <2>1. Len(outQ) \in Nat /\ Len(outQ) < k
    BY OldestIs
  <2>2. PICK e \in 0 .. k : k = e + Len(outQ) /\ SentUpTo(e, f)
    BY DEF Sent
  <2>3. /\ \A j \in 1 .. Len(outQ) : outQ[j] = Slot(drain, e + j - 1)
        /\ \A i \in 0 .. e - 1 :
             /\ bh[Slot(drain, i)].data = Units(f[i], Len(bh[Slot(drain, i)].data))
             /\ Len(bh[Slot(drain, i)].data) <= f[i + 1] - f[i]
             /\ f[i] + Len(bh[Slot(drain, i)].data) <= sent
             /\ ~stopped => Len(bh[Slot(drain, i)].data) = f[i + 1] - f[i]
        /\ ~stopped => sent = f[e]
    BY <2>2 DEF SentUpTo
  <2>4. /\ e - 1 \in 0 .. k - 1 /\ k - 1 = e - 1 + Len(outQ') /\ inQ = <<>>
        /\ e > 0 /\ e <= k /\ e \in Nat
    <3>1. inQ = <<>>
      BY DEF Sent
    <3>2. PICK l \in Nat : l = Len(outQ)
      BY <2>1, Zenon
    <3>3. l < k
      BY <2>1, <3>2, Zenon
    <3>4. k = e + l
      BY <2>2, <3>2, Zenon
    <3>5. outQ' = outQ
      OBVIOUS
    <3>6. Len(outQ') = l
      BY <3>2, <3>5, Zenon
    <3>7. /\ e - 1 \in 0 .. k - 1 /\ k - 1 = e - 1 + l
          /\ e > 0 /\ e <= k /\ e \in Nat
      BY <1>1, <3>3, <3>4
    <3> QED
      BY <3>1, <3>6, <3>7
  <2>5. ASSUME NEW j \in 1 .. Len(outQ') PROVE outQ'[j] = Slot(drain', e - 1 + j - 1)
    <3>1. PICK l \in Nat : l = Len(outQ)
      BY <2>1, Zenon
    <3>2. outQ' = outQ
      OBVIOUS
    <3>3. j \in 1 .. l
      BY <3>1, <3>2, Zenon
    <3>4. e + l <= NumBuffers
      BY <1>1, <2>2, <3>1
    <3>5. /\ e - 1 + j - 1 \in 0 .. NumBuffers - 1
          /\ e - 1 + j - 1 + 1 = e + j - 1
      BY <1>1, <2>4, <3>3, <3>4
    <3>6. Slot(drain', e - 1 + j - 1) = Slot(drain, e + j - 1)
      BY <1>4, <3>5
    <3>7. outQ[j] = Slot(drain, e + j - 1)
      BY <2>3, <3>1, <3>3
    <3> QED
      BY <3>2, <3>6, <3>7
  <2>6. ASSUME NEW i \in 0 .. e - 1 - 1
        PROVE  /\ bh'[Slot(drain', i)].data
                    = Units(f2[i], Len(bh'[Slot(drain', i)].data))
               /\ Len(bh'[Slot(drain', i)].data) <= f2[i + 1] - f2[i]
               /\ f2[i] + Len(bh'[Slot(drain', i)].data) <= sent
               /\ ~stopped => Len(bh'[Slot(drain', i)].data) = f2[i + 1] - f2[i]
    <3>1. /\ i + 1 \in 0 .. e - 1 /\ i + 1 \in 1 .. NumBuffers - 1
          /\ i \in 0 .. NumBuffers - 1 /\ i \in 0 .. k - 1 /\ i + 1 \in 0 .. k - 1
      BY <1>1, <2>4, SMTT(30)
    <3>2. bh'[Slot(drain', i)] = bh[Slot(drain, i + 1)]
      BY <1>3, <1>4, <3>1
    <3>3. f2[i] = f[i + 1] /\ f2[i + 1] = f[i + 1 + 1]
      BY <1>5, <3>1
    <3>4. LET n == Len(bh[Slot(drain, i + 1)].data) IN
          /\ bh[Slot(drain, i + 1)].data = Units(f[i + 1], n)
          /\ n <= f[i + 1 + 1] - f[i + 1] /\ f[i + 1] + n <= sent
          /\ ~stopped => n = f[i + 1 + 1] - f[i + 1]
      BY <2>3, <3>1
    <3> QED
      BY <3>2, <3>3, <3>4
  <2>7. f2[e - 1] = f[e]
    <3>1. e - 1 \in 0 .. k - 1 /\ e - 1 + 1 = e
      BY <2>4
    <3> QED
      BY <1>5, <3>1
  <2>8. SentUpTo(e - 1, f2)'
    <3>1. ~stopped' => sent' = f2[e - 1]
      BY <2>3, <2>7
    <3> QED
      BY <2>5, <2>6, <3>1 DEF SentUpTo
  <2> QED
    BY <2>4, <2>8 DEF Sent
<1>8. k - 1 \in 0 .. NumBuffers
  BY <1>1
<1> QED
  BY <1>5, <1>6, <1>7, <1>8 DEF RingShrinks

\* A buffer asked for is complete.
LEMMA RingComplete ==
  ASSUME TypeInv, QueueInv,
         NEW k \in 0 .. NumBuffers, NEW f \in [0 .. k -> Nat],
         Ring(k, f), Sent(k, f), Complete
  PROVE  Ring(k, f)' /\ Sent(k, f)'
<1>1. /\ drain \in Buffers /\ NumBuffers \in Nat
      /\ UNCHANGED <<fill, drain, inQ, outQ, cmd, sent, stopped, common>>
  BY ConstantsAre DEF TypeInv, Complete, hostVars
<1>2. PICK b0 \in Buffers :
        /\ Busy(b0) /\ OnlyAt(b0)
        /\ bh[b0].state # "SENDING" =>
             /\ bh'[b0].state = "FULL" /\ bh'[b0].kind = bh[b0].kind
             /\ bh'[b0].data = bh[b0].data
             /\ bh'[b0].intended = bh[b0].intended
  <2>1. /\ Head(ended) \in Buffers /\ IsIn(Head(ended), ended)
        /\ ended \in Seq(Buffers) /\ ended # <<>>
    BY InTail DEF QueueInv, Complete
  <2>2. Busy(Head(ended))
    BY <2>1 DEF QueueInv
  <2> QED
    BY <2>1, <2>2, CompleteForm
<1>3. \A i \in 0 .. NumBuffers - 1 : Slot(drain, i) \in Buffers
  BY <1>1, SlotIs
<1>4. ASSUME NEW i \in 0 .. k - 1
      PROVE  /\ bh'[Slot(drain, i)].state \in {"RECEIVING", "FULL"}
             /\ bh'[Slot(drain, i)].kind = bh[Slot(drain, i)].kind
             /\ bh'[Slot(drain, i)].data = bh[Slot(drain, i)].data
             /\ bh'[Slot(drain, i)].intended = bh[Slot(drain, i)].intended
  <2>1. PICK b \in Buffers : b = Slot(drain, i)
    BY <1>1, <1>3
  <2>2. bh[b].state \in {"RECEIVING", "FULL"}
    BY <2>1 DEF Ring
  <2> QED
    BY <1>2, <2>1, <2>2 DEF OnlyAt
<1>5. ASSUME NEW i \in k .. NumBuffers - 1
      PROVE  bh'[Slot(drain, i)].state = "EMPTY"
  <2>1. PICK b \in Buffers : b = Slot(drain, i)
    BY <1>1, <1>3
  <2>2. bh[b].state = "EMPTY"
    BY <2>1 DEF Ring
  <2> QED
    BY <1>2, <2>1, <2>2 DEF OnlyAt, Busy
<1>6. Ring(k, f)'
  <2>1. \A i \in 0 .. k - 1 : /\ bh[Slot(drain, i)].kind = "data"
                              /\ bh[Slot(drain, i)].intended = f[i + 1] - f[i]
    BY DEF Ring
  <2>2. /\ fill = Slot(drain, k) /\ \A i, j \in 0 .. k : i < j => f[i] < f[j]
        /\ f[k] = cmd.len - common.usb_amount_left
    BY DEF Ring
  <2> QED
    BY <1>1, <1>4, <1>5, <2>1, <2>2 DEF Ring
<1>7. Sent(k, f)'
  <2>1. PICK e \in 0 .. k : k = e + Len(outQ) /\ SentUpTo(e, f)
    BY DEF Sent
  <2>2. \A i \in 0 .. e - 1 : bh'[Slot(drain, i)].data = bh[Slot(drain, i)].data
    BY <1>4, <2>1
  <2>3. SentUpTo(e, f)'
    BY <1>1, <2>1, <2>2 DEF SentUpTo
  <2> QED
    BY <1>1, <2>1, <2>3 DEF Sent
<1> QED
  BY <1>6, <1>7

\* The host sends n units into the oldest buffer that is queued: all that is
\* intended, or, when it stops, less.
LEMMA RingSent ==
  ASSUME TypeInv, QueueInv,
         NEW k \in 0 .. NumBuffers, NEW f \in [0 .. k -> Nat],
         Ring(k, f), Sent(k, f), outQ # <<>>, ~stopped,
         NEW n \in Nat, HostSendUnits(n), n <= cmd.len - sent,
         \/ /\ ~stopped' /\ n <= bh[Head(outQ)].intended
            /\ n = bh[Head(outQ)].intended \/ sent + n = cmd.len
         \/ stopped' /\ n < bh[Head(outQ)].intended
  PROVE  Ring(k, f)' /\ Sent(k, f)'
<1>1. /\ drain \in Buffers /\ NumBuffers \in Nat /\ sent \in Nat
      /\ cmd.len \in Nat /\ common.usb_amount_left \in Nat
      /\ UNCHANGED <<fill, drain, inQ, cmd, common>>
      /\ sent' = sent + n /\ outQ' = Tail(outQ)
  BY ConstantsAre, SizeIs DEF TypeInv, Commons, HostSendUnits, EndOut
<1>2. /\ outQ \in Seq(Buffers) /\ Len(outQ) \in Nat /\ Len(outQ) > 0
      /\ Head(outQ) = outQ[1] /\ Len(outQ') = Len(outQ) - 1
      /\ \A j \in 1 .. Len(outQ) - 1 : outQ'[j] = outQ[j + 1]
  BY <1>1, InTail DEF QueueInv
<1>3. PICK e \in 0 .. k : k = e + Len(outQ) /\ SentUpTo(e, f)
  BY DEF Sent
<1>4. /\ e \in Nat /\ e < k /\ e \in 0 .. k - 1 /\ e \in 0 .. NumBuffers - 1
      /\ e + 1 \in 0 .. k /\ k <= NumBuffers
  BY <1>1, <1>2, <1>3
<1>5. /\ \A j \in 1 .. Len(outQ) : outQ[j] = Slot(drain, e + j - 1)
      /\ \A i \in 0 .. e - 1 :
           /\ bh[Slot(drain, i)].data = Units(f[i], Len(bh[Slot(drain, i)].data))
           /\ Len(bh[Slot(drain, i)].data) <= f[i + 1] - f[i]
           /\ f[i] + Len(bh[Slot(drain, i)].data) <= sent
           /\ Len(bh[Slot(drain, i)].data) = f[i + 1] - f[i]
      /\ sent = f[e]
  BY <1>3 DEF SentUpTo
<1>6. PICK b0 \in Buffers : b0 = Head(outQ) /\ b0 = Slot(drain, e)
  <2>1. 1 \in 1 .. Len(outQ) /\ e + 1 - 1 = e
    BY <1>2, <1>4
  <2>2. outQ[1] = Slot(drain, e)
    BY <1>5, <2>1
  <2> QED
    BY <1>1, <1>2, <1>4, <2>2, SlotIs
<1>7. /\ OnlyAt(b0) /\ bh'[b0].state = bh[b0].state
      /\ bh'[b0].kind = bh[b0].kind /\ bh'[b0].intended = bh[b0].intended
      /\ bh'[b0].data = Units(sent, n)
  BY <1>2, <1>6, SendForm
<1>8. \A i \in 0 .. NumBuffers - 1 :
        Slot(drain, i) \in Buffers /\ (i # e => Slot(drain, i) # b0)
  BY <1>1, <1>4, <1>6, SlotIs, SMTT(30)
<1>9. ASSUME NEW i \in 0 .. NumBuffers - 1
      PROVE  /\ bh'[Slot(drain, i)].state = bh[Slot(drain, i)].state
             /\ bh'[Slot(drain, i)].kind = bh[Slot(drain, i)].kind
             /\ bh'[Slot(drain, i)].intended = bh[Slot(drain, i)].intended
             /\ i # e => bh'[Slot(drain, i)].data = bh[Slot(drain, i)].data
  <2>1. PICK b \in Buffers : b = Slot(drain, i) /\ (i # e => b # b0)
    BY <1>8
  <2> QED
    BY <1>7, <2>1 DEF OnlyAt
<1>10. Ring(k, f)'
  <2>1. \A i \in 0 .. k - 1 :
          LET b == bh[Slot(drain, i)] IN
          /\ b.state \in {"RECEIVING", "FULL"} /\ b.kind = "data"
          /\ b.intended = f[i + 1] - f[i]
    BY DEF Ring
  <2>2. /\ fill = Slot(drain, k) /\ \A i, j \in 0 .. k : i < j => f[i] < f[j]
        /\ f[k] = cmd.len - common.usb_amount_left
        /\ \A i \in k .. NumBuffers - 1 : bh[Slot(drain, i)].state = "EMPTY"
    BY DEF Ring
  <2>3. /\ \A i \in 0 .. k - 1 : i \in 0 .. NumBuffers - 1
        /\ \A i \in k .. NumBuffers - 1 : i \in 0 .. NumBuffers - 1
    BY <1>1, <1>4, SMTT(30)
  <2> QED
    BY <1>1, <1>9, <2>1, <2>2, <2>3 DEF Ring
<1>11. /\ bh[b0].intended = f[e + 1] - f[e] /\ f[e] < f[e + 1]
       /\ f[e + 1] <= cmd.len /\ f[e] \in Nat /\ f[e + 1] \in Nat
  <2>1. bh[b0].intended = f[e + 1] - f[e]
    BY <1>4, <1>6 DEF Ring
  <2>2. f[e] < f[e + 1] /\ (e + 1 = k \/ f[e + 1] < f[k])
    BY <1>4 DEF Ring
  <2>3. f[k] = cmd.len - common.usb_amount_left /\ f[k] \in Nat
    BY <1>4 DEF Ring
  <2>4. f[e] \in Nat /\ f[e + 1] \in Nat
    BY <1>4
  <2>5. f[e + 1] <= f[k]
    BY <2>2, <2>3, <2>4
  <2>6. f[k] <= cmd.len
    BY <1>1, <2>3
  <2>7. f[e + 1] <= cmd.len
    BY <1>1, <2>3, <2>4, <2>5, <2>6, SMTT(30)
  <2> QED
    BY <2>1, <2>2, <2>4, <2>7
<1>12. n <= f[e + 1] - f[e] /\ (~stopped' => n = f[e + 1] - f[e])
  BY <1>1, <1>5, <1>6, <1>11, SMTT(30)
<1>13. SentUpTo(e + 1, f)'
  <2>1. ASSUME NEW j \in 1 .. Len(outQ') PROVE outQ'[j] = Slot(drain, e + 1 + j - 1)
    <3>1. /\ j \in 1 .. Len(outQ) - 1 /\ j + 1 \in 1 .. Len(outQ)
          /\ e + (j + 1) - 1 = e + 1 + j - 1
      BY <1>2, <1>4
    <3> QED
      BY <1>2, <1>5, <3>1
  <2>2. ASSUME NEW i \in 0 .. e + 1 - 1
        PROVE  /\ bh'[Slot(drain, i)].data
                    = Units(f[i], Len(bh'[Slot(drain, i)].data))
               /\ Len(bh'[Slot(drain, i)].data) <= f[i + 1] - f[i]
               /\ f[i] + Len(bh'[Slot(drain, i)].data) <= sent'
               /\ ~stopped' => Len(bh'[Slot(drain, i)].data) = f[i + 1] - f[i]
    <3>1. CASE i = e
      <4>1. bh'[Slot(drain, i)].data = Units(f[i], n)
        BY <1>5, <1>6, <1>7, <3>1
      <4>2. Len(Units(f[i], n)) = n
        <5>1. PICK a \in Nat : a = f[i]
          BY <1>11, <3>1
        <5>2. a \in Int /\ Len(Units(a, n)) = n
          BY UnitsAre
        <5> QED
          BY <5>1, <5>2
      <4>3. f[i] + n <= sent'
        BY <1>1, <1>5, <1>11, <3>1
      <4> QED
        BY <1>12, <3>1, <4>1, <4>2, <4>3
    <3>2. CASE i # e
      <4>1. i \in 0 .. e - 1 /\ i \in 0 .. NumBuffers - 1
        BY <1>1, <1>4, <3>2
      <4>2. LET m == Len(bh[Slot(drain, i)].data) IN
            /\ bh[Slot(drain, i)].data = Units(f[i], m)
            /\ m <= f[i + 1] - f[i] /\ f[i] + m <= sent /\ m = f[i + 1] - f[i]
        BY <1>5, <4>1
      <4>3. bh'[Slot(drain, i)].data = bh[Slot(drain, i)].data
        BY <1>9, <3>2, <4>1
      <4>4. PICK m \in Int : m = Len(bh[Slot(drain, i)].data)
        <5>1. i \in 0 .. k /\ i + 1 \in 0 .. k
          BY <1>4, <4>1, SMTT(30)
        <5>2. f[i + 1] - f[i] \in Int
          BY <5>1
        <5> QED
          BY <4>2, <5>2
      <4>5. f[i] \in Nat
        BY <1>4, <4>1
      <4>6. f[i] + m <= sent'
        BY <1>1, <4>2, <4>4, <4>5, SMTT(30)
      <4> QED
        BY <4>2, <4>3, <4>4, <4>6
    <3> QED
      BY <3>1, <3>2
  <2>3. ~stopped' => sent' = f[e + 1]
    BY <1>1, <1>5, <1>11, <1>12, SMTT(30)
  <2> QED
    BY <1>1, <2>1, <2>2, <2>3 DEF SentUpTo
<1>14. Sent(k, f)'
  <2>1. k = e + 1 + Len(outQ')
    BY <1>2, <1>3, <1>4
  <2>2. inQ' = <<>>
    BY <1>1 DEF Sent
  <2> QED
    BY <1>4, <1>13, <2>1, <2>2 DEF Sent
<1> QED
  BY <1>10, <1>14
\* What the host sends for, while the kthread takes it.
OutAt(k, f) ==
  /\ Ring(k, f) /\ Sent(k, f)
  /\ kpc \in {"write", "drain"} => Writing(k, f)
  /\ kpc \in {"drain", "toss"} => k > 0
  /\ kpc = "finish" /\ common.residue = 0 => k = 0 /\ common.usb_amount_left = 0

\* While it does, this is so.
LEMMA OutHas ==
  ASSUME OutInv, Taking
  PROVE  /\ DataDir = "out"
         /\ \E k \in 0 .. NumBuffers : \E f \in [0 .. k -> Nat] : OutAt(k, f)
  BY DEF OutInv, OutAt

\* ... and it is so again after a step.
LEMMA OutAgain ==
  ASSUME NEW k \in 0 .. NumBuffers, NEW f \in [0 .. k -> Nat],
         DataDir' = "out", Ring(k, f)', Sent(k, f)',
         kpc' \in {"write", "drain"} => Writing(k, f)',
         kpc' \in {"drain", "toss"} => k > 0,
         kpc' = "finish" /\ common'.residue = 0 =>
             k = 0 /\ common'.usb_amount_left = 0
  PROVE  OutInv'
  BY DEF OutInv

\* When the kthread takes nothing, there is nothing to say.
LEMMA OutElsewhere ==
  ASSUME kpc' \notin {"write", "drain", "throw", "toss"},
         kpc' # "finish" \/ DataDir' # "out"
  PROVE  OutInv'
  BY DEF OutInv, Taking

\* The ring starts with nothing in it.
LEMMA OutStarts ==
  ASSUME fill' \in Buffers, AllEmpty', inQ' = <<>>, outQ' = <<>>, drain' = fill',
         common'.usb_amount_left = cmd'.len, cmd'.len \in Nat, sent' = 0,
         kpc' = "finish", common'.residue = cmd'.len
  PROVE  OutInv'
<1>1. CASE DataDir' # "out"
  BY <1>1, OutElsewhere
<1>2. CASE DataDir' = "out"
  <2>1. cmd'.len # 0
    BY <1>2 DEF DataDir
  <2>2. PICK f \in [0 .. 0 -> Nat] : f[0] = 0 /\ Ring(0, f)' /\ Sent(0, f)'
    BY RingStarts
  <2>3. 0 \in 0 .. NumBuffers
    BY ConstantsAre
  <2>4. kpc' \notin {"write", "drain", "toss"}
    OBVIOUS
  <2>5. common'.residue # 0
    BY <2>1
  <2>6. DataDir' = "out" /\ Ring(0, f)' /\ Sent(0, f)'
    BY <1>2, <2>2
  <2> QED
    BY <2>3, <2>4, <2>5, <2>6, OutAgain
<1> QED
  BY <1>1, <1>2

\* do_write has asked for n units more.
LEMMA WritingAsks ==
  ASSUME TypeInv, NEW k \in Nat, NEW f \in [0 .. k -> Nat],
         NEW f2 \in [0 .. k + 1 -> Nat], NEW n \in Nat,
         Writing(k, f), to_req > 0, WriteAsks(n),
         \A i \in 0 .. k : f2[i] = f[i], f2[k + 1] = f[k] + n,
         UNCHANGED <<left, cmd, stopped>>, common.size \in Nat
  PROVE  Writing(k + 1, f2)'
<1>1. /\ cmd.start + (common.size - to_req) < FileLen
      /\ n <= to_req /\ (n < to_req => n = BufLen) /\ to_req' = to_req - n
      /\ (more' <=> to_req' > 0) /\ common'.size = common.size
      /\ UNCHANGED <<left, cmd, stopped>>
  BY DEF WriteAsks, Requests, UsbOffset
<1>2. /\ k \in Nat /\ k \in 0 .. k /\ k + 1 \in 0 .. k + 1 /\ 0 \in 0 .. k
      /\ f[k] \in Nat /\ f[0] \in Nat /\ left \in Nat /\ to_req \in Nat
      /\ common.size \in Nat /\ cmd.start \in Nat
  BY SizeIs DEF TypeInv
<1>3. /\ f[k] = common.size - to_req /\ f[k] % BlockLen = 0
      /\ cmd.start + f[k] < FileLen
  BY <1>1, <1>2 DEF Writing
<1>4. f2[k + 1] = common'.size - to_req'
  BY <1>1, <1>2, <1>3
<1>5. f2[0] = common'.size - left'
  <2>1. CASE k > 0
    BY <1>1, <1>2, <2>1 DEF Writing
  <2>2. CASE k = 0
    <3>1. left = to_req \/ cmd.start + f[k] >= FileLen
      BY <2>2 DEF Writing
    <3>2. left = to_req
      BY <1>2, <1>3, <3>1, ConstantsAre, SMTT(30)
    <3> QED
      BY <1>1, <1>2, <1>3, <2>2, <3>2
  <2> QED
    BY <1>2, <2>1, <2>2
<1>6. ASSUME NEW i \in 0 .. k + 1 - 1
      PROVE  f2[i] % BlockLen = 0 /\ cmd'.start + f2[i] < FileLen
  <2>1. i \in 0 .. k /\ (i = k \/ i \in 0 .. k - 1)
    BY <1>2
  <2>2. f[i] % BlockLen = 0 /\ cmd.start + f[i] < FileLen
    BY <1>3, <2>1 DEF Writing
  <2> QED
    BY <1>1, <2>1, <2>2
<1>7. ASSUME NEW i \in 0 .. k + 1 - 1, i < k + 1 - 1 \/ to_req' > 0
      PROVE  f2[i + 1] - f2[i] = BufLen
  <2>1. CASE i = k
    <3>1. n = BufLen
      BY <1>1, <1>2, <1>7, <2>1
    <3>2. f2[i] = f[k] /\ f2[i + 1] = f[k] + BufLen
      BY <1>2, <2>1, <3>1
    <3> QED
      BY <1>2, <3>2, ConstantsAre
  <2>2. CASE i # k
    <3>1. i \in 0 .. k - 1 /\ i \in 0 .. k /\ i + 1 \in 0 .. k
      BY <1>2, <2>2
    <3>2. f[i + 1] - f[i] = BufLen
      BY <3>1 DEF Writing
    <3> QED
      BY <3>1, <3>2
  <2> QED
    BY <2>1, <2>2
<1>8. to_req' > 0 => f2[k + 1] % BlockLen = 0
  <2> SUFFICES ASSUME to_req' > 0 PROVE f2[k + 1] % BlockLen = 0
    OBVIOUS
  <2>1. n = BufLen
    BY <1>1, <1>2
  <2>2. (f[k] + BufLen) % BlockLen = 0
    BY <1>2, <1>3, ConstantsAre, ModAdd
  <2> QED
    BY <2>1, <2>2
<1>9. ~(k + 1 = 0) /\ k + 1 > 0
  BY <1>2
<1> QED
  BY <1>1, <1>4, <1>5, <1>6, <1>7, <1>8, <1>9 DEF Writing

\* What a whole buffer brings is written, up to the end of the medium.
LEMMA WholeAmount ==
  ASSUME NEW n \in Nat, NEW m \in Nat, n % BlockLen = 0, m % BlockLen = 0
  PROVE  WholeBlocks(AtMost(n, m)) = AtMost(n, m)
<1>1. AtMost(n, m) \in Nat /\ AtMost(n, m) % BlockLen = 0
  BY DEF AtMost
<1> QED
  BY <1>1, WholeBlocksIs

\* What is left of the medium is whole blocks.
LEMMA RestOfMedium ==
  ASSUME TypeInv, HostInv, NEW a \in Nat, a % BlockLen = 0, cmd.start + a < FileLen
  PROVE  \E m \in Nat : m = FileLen - (cmd.start + a) /\ m % BlockLen = 0
<1>1. /\ cmd.start % BlockLen = 0 /\ cmd.start \in Nat
      /\ BlockLen \in Nat \ {0} /\ FileLen \in Nat /\ FileLen % BlockLen = 0
  BY SizeIs, ConstantsAre DEF HostInv
<1>2. (cmd.start + a) % BlockLen = 0 /\ cmd.start + a \in Nat
  BY <1>1, ModAdd
<1>3. (FileLen - (cmd.start + a)) % BlockLen = 0
  BY <1>1, <1>2, ModAdd
<1>4. FileLen - (cmd.start + a) \in Nat
  BY <1>1, <1>2
<1> QED
  BY <1>3, <1>4

\* The end of the oldest buffer, and of what was written of it.
LEMMA WholeAmounts ==
  ASSUME NEW x \in Nat, NEW y \in Nat, NEW m \in Nat, NEW s \in Nat,
         x < y, x % BlockLen = 0, y % BlockLen = 0, m % BlockLen = 0,
         s + x < FileLen, s + x + m = FileLen
  PROVE  /\ WholeBlocks(AtMost(y - x, m)) = AtMost(y - x, m)
         /\ s + y < FileLen => AtMost(y - x, m) = y - x
         /\ x + AtMost(y - x, m) = AtMost(y, FileLen - s)
<1>1. BlockLen \in Nat \ {0} /\ FileLen \in Nat
  BY ConstantsAre
<1>2. PICK n \in Nat : n = y - x
  OBVIOUS
<1>3. (y - x) % BlockLen = 0
  BY <1>1, ModAdd
<1>4. n % BlockLen = 0
  BY <1>1, <1>2, <1>3
<1>5. WholeBlocks(AtMost(n, m)) = AtMost(n, m)
  BY <1>4, WholeAmount
<1>6. s + y < FileLen => AtMost(n, m) = n
  BY <1>1, <1>2 DEF AtMost
<1>7. x + AtMost(n, m) = AtMost(y, FileLen - s)
  BY <1>1, <1>2 DEF AtMost
<1> QED
  BY <1>2, <1>5, <1>6, <1>7

\* do_write has written the oldest buffer.
LEMMA WritingWrote ==
  ASSUME TypeInv, HostInv, cmd.op = "WRITE", common.size \in Nat,
         NEW k \in Nat \ {0}, NEW f \in [0 .. k -> Nat],
         NEW f2 \in [0 .. k - 1 -> Nat], NEW m \in Nat, NEW amount \in Nat,
         Writing(k, f), \A i \in 0 .. k - 1 : f2[i] = f[i + 1],
         f[0] < f[1], m % BlockLen = 0,
         common'.size = common.size, common.sense => common'.sense,
         UNCHANGED <<to_req, more, cmd, stopped>>
  PROVE  /\ cmd.start + f[0] < FileLen /\ m = FileLen - (cmd.start + f[0])
         /\ amount = WholeBlocks(AtMost(f[1] - f[0], m))
         /\ left' = left - amount
         => Writing(k - 1, f2)'
<1>0. SUFFICES ASSUME cmd.start + f[0] < FileLen,
                      m = FileLen - (cmd.start + f[0]),
                      amount = WholeBlocks(AtMost(f[1] - f[0], m)),
                      left' = left - amount
               PROVE  Writing(k - 1, f2)'
  OBVIOUS
<1>1. /\ k >= 1 /\ 0 \in 0 .. k /\ 1 \in 0 .. k /\ 0 \in 0 .. k - 1
      /\ k - 1 \in 0 .. k - 1 /\ k - 1 + 1 = k /\ k \in 0 .. k
      /\ f[0] \in Nat /\ f[1] \in Nat /\ f[k] \in Nat
      /\ left \in Nat /\ to_req \in Nat /\ cmd.start \in Nat /\ cmd.size \in Nat
  BY SizeIs DEF TypeInv
<1>2. cmd.size % BlockLen = 0
  BY DEF HostInv
<1>3. /\ f[k] = common.size - to_req /\ f[0] = common.size - left
      /\ f[0] % BlockLen = 0
  BY <1>1 DEF Writing
<1>4. f2[0] = f[1] /\ f2[k - 1] = f[k]
  BY <1>1
<1>5. PICK x \in Nat : x = f[0]
  BY <1>1
<1>6. PICK y \in Nat : y = f[1]
  BY <1>1
<1>7. PICK s \in Nat : s = cmd.start
  BY <1>1
<1>8. x < y /\ s + x < FileLen /\ s + x + m = FileLen
  <2>1. FileLen \in Nat
    BY ConstantsAre
  <2>2. x < y /\ s + x < FileLen /\ m = FileLen - (s + x)
    BY <1>0, <1>5, <1>6, <1>7
  <2> QED
    BY <2>1, <2>2
<1>9. x % BlockLen = 0
  BY <1>3, <1>5
<1>10. amount = WholeBlocks(AtMost(y - x, m))
  BY <1>0, <1>5, <1>6
<1>11. PICK z \in Nat : z = common.size
  OBVIOUS
<1>12. left' = (z - x) - amount
  <2>1. left = z - x
    BY <1>1, <1>3, <1>5, <1>11, SMTT(30)
  <2> QED
    BY <1>0, <2>1
<1>13. ASSUME f[1] % BlockLen = 0
       PROVE  /\ y % BlockLen = 0 /\ amount = AtMost(y - x, m)
              /\ s + y < FileLen => amount = y - x
              /\ x + amount = AtMost(y, FileLen - s)
  <2>1. y % BlockLen = 0
    BY <1>6, <1>13
  <2>2. /\ WholeBlocks(AtMost(y - x, m)) = AtMost(y - x, m)
        /\ s + y < FileLen => AtMost(y - x, m) = y - x
        /\ x + AtMost(y - x, m) = AtMost(y, FileLen - s)
    BY <1>8, <1>9, <2>1, WholeAmounts, SMTT(30)
  <2>3. amount = AtMost(y - x, m)
    BY <1>10, <2>2, Zenon
  <2> QED
    BY <2>1, <2>2, <2>3, Zenon
<1>14. ASSUME f[1] % BlockLen = 0, cmd.start + f[1] < FileLen
       PROVE  y = z - left'
  <2>1. s + y < FileLen
    BY <1>6, <1>7, <1>14
  <2>2. amount = y - x
    BY <1>13, <1>14, <2>1
  <2> QED
    BY <1>12, <2>2
<1>15. k - 1 > 0 => f2[0] = common'.size - left'
  <2>1. ASSUME k > 1 PROVE f[1] % BlockLen = 0 /\ cmd.start + f[1] < FileLen
    BY <1>1, <2>1 DEF Writing
  <2> QED
    BY <1>1, <1>4, <1>6, <1>11, <1>14, <2>1
<1>16. ASSUME NEW i \in 0 .. k - 1 - 1
       PROVE  f2[i] % BlockLen = 0 /\ cmd'.start + f2[i] < FileLen
  <2>1. i + 1 \in 0 .. k - 1 /\ i \in 0 .. k - 1
    BY <1>1
  <2> QED
    BY <2>1 DEF Writing
<1>17. ASSUME NEW i \in 0 .. k - 1 - 1, i < k - 1 - 1 \/ to_req' > 0
       PROVE  f2[i + 1] - f2[i] = BufLen
  <2>1. /\ i + 1 \in 0 .. k - 1 /\ i \in 0 .. k - 1
        /\ i + 1 < k - 1 \/ to_req > 0
    BY <1>1, <1>17
  <2>2. f[i + 1 + 1] - f[i + 1] = BufLen
    BY <2>1 DEF Writing
  <2> QED
    BY <2>1, <2>2
<1>18. to_req' > 0 => f2[k - 1] % BlockLen = 0
  BY <1>4 DEF Writing
<1>19. /\ more' => to_req' > 0
       /\ ~more' /\ to_req' > 0 => common'.sense /\ cmd'.start + f2[k - 1] >= FileLen
  BY <1>4 DEF Writing
<1>20. ASSUME k - 1 = 0, to_req' > 0
       PROVE  left' = to_req' \/ cmd'.start + f2[k - 1] >= FileLen
  <2>1. k = 1 /\ f[1] % BlockLen = 0 /\ f[1] = common.size - to_req
    BY <1>1, <1>3, <1>20 DEF Writing
  <2>2. CASE cmd.start + f[1] < FileLen
    <3>1. y = z - left' /\ y = z - to_req
      BY <1>6, <1>11, <1>14, <2>1, <2>2
    <3>2. PICK l \in Int : l = left'
      BY <1>12
    <3>3. PICK t \in Int : t = to_req
      BY <1>1
    <3>4. y = z - l
      BY <3>1, <3>2, Zenon
    <3>5. y = z - t
      BY <3>1, <3>3, Zenon
    <3>6. l = z - y
      BY <3>4
    <3>7. t = z - y
      BY <3>5
    <3> QED
      BY <3>2, <3>3, <3>6, <3>7, Zenon
  <2>3. CASE ~(cmd.start + f[1] < FileLen)
    <3>1. FileLen \in Nat
      BY ConstantsAre
    <3>2. f2[k - 1] = f[1]
      BY <1>4, <2>1
    <3> QED
      BY <1>1, <2>3, <3>1, <3>2, SMTT(30)
  <2> QED
    BY <2>2, <2>3
<1>21. ASSUME k - 1 = 0, to_req' = 0, common'.size = cmd'.size, ~stopped'
       PROVE  common'.size - left' = AtMost(cmd'.size, FileLen - cmd'.start)
  <2>1. k = 1 /\ to_req = 0 /\ common.size = cmd.size
    BY <1>1, <1>21
  <2>2. f[1] = cmd.size
    BY <1>1, <1>3, <2>1
  <2>3. y = cmd.size /\ z = y
    BY <1>6, <1>11, <2>1, <2>2
  <2>4. x + amount = AtMost(y, FileLen - s)
    BY <1>2, <1>13, <2>2
  <2>5. z - left' = x + amount
    BY <1>12
  <2>6. z - left' = AtMost(y, FileLen - s)
    BY <2>4, <2>5
  <2> QED
    BY <1>7, <1>11, <2>3, <2>6
<1>22. f2[k - 1] = common'.size - to_req'
  BY <1>3, <1>4
<1> QED
  BY <1>15, <1>16, <1>17, <1>18, <1>19, <1>20, <1>21, <1>22 DEF Writing

\* The oldest buffer that do_write has asked for.
LEMMA WroteOldest ==
  ASSUME TypeInv, QueueInv, HostInv, OutInv, AmountInv, WriteRound,
         kpc' \in {"write", "finish"}
  PROVE  OutInv'
<1>1. /\ kpc = "drain" /\ Taking
  BY DEF WriteRound, Taking
<1>2. PICK k \in 0 .. NumBuffers : \E f \in [0 .. k -> Nat] : OutAt(k, f)
  BY <1>1, OutHas
<1>3. PICK f \in [0 .. k -> Nat] : OutAt(k, f)
  BY <1>2
<1>4. /\ Ring(k, f) /\ Sent(k, f) /\ Writing(k, f) /\ k > 0
      /\ k \in 1 .. NumBuffers /\ k \in Nat \ {0} /\ DataDir = "out"
      /\ 0 \in 0 .. k /\ 1 \in 0 .. k /\ k \in 0 .. k
      /\ f[0] \in Nat /\ f[1] \in Nat /\ f[k] \in Nat
  BY <1>1, <1>3, OutHas, ConstantsAre DEF OutAt
<1>5. PICK a \in Nat : \E n \in Nat : WroteFrom(a, n)
  BY WriteRoundIs
<1>6. PICK n \in Nat : WroteFrom(a, n)
  BY <1>5
<1>7. PICK put \in Nat : \E nw \in Nat : WriteMoves(a, n, put, nw)
  BY <1>6 DEF WroteFrom
<1>8. PICK nw \in Nat : WriteMoves(a, n, put, nw)
  BY <1>7
<1>9. /\ a = Size - left /\ n <= bh[drain].intended /\ n <= left
      /\ cmd.start + a < FileLen /\ a % BlockLen = 0 /\ ~Busy(drain)
      /\ UNCHANGED <<fill, inQ, outQ, to_req, more, state, hostVars>>
      /\ OnlyAt(drain) /\ bh'[drain].state = "EMPTY" /\ drain' = NextOf(drain)
  BY <1>6 DEF WroteFrom
<1>10. UNCHANGED <<cmd, sent, stopped, hpc>>
  BY <1>9 DEF hostVars
<1>11. PICK m \in Nat : m = FileLen - (cmd.start + a) /\ m % BlockLen = 0
  BY <1>9, RestOfMedium
<1>12. PICK amount \in Nat : amount = WholeBlocks(AtMost(n, m)) /\ amount <= n
  BY AmountIs
<1>13. /\ common'.size = common.size /\ left' = left - nw
       /\ common'.residue = common.residue - nw
       /\ common'.usb_amount_left = common.usb_amount_left
       /\ common.sense => common'.sense
       /\ nw <= amount
       /\ kpc' = "write" => nw = amount /\ ~(n < bh[drain].intended)
  BY <1>8, <1>11, <1>12, SMTT(30) DEF WriteMoves
<1>14. /\ common.size = Size /\ common.residue = cmd.len - Size + left
       /\ Size \in Nat /\ Size <= cmd.len /\ cmd.len \in Nat /\ left \in Nat
       /\ cmd.op = "WRITE" /\ common.size \in Nat /\ left <= Size /\ to_req \in Nat
       /\ common.usb_amount_left \in Nat
  BY <1>1, SizeIs DEF AmountInv, TypeInv, Commons
<1>15. bh[drain].intended = f[1] - f[0] /\ f[0] < f[1]
  BY <1>4, <1>9, OldestIs, SMTT(30)
<1>16. UNCHANGED <<fill, inQ, outQ, cmd, sent, stopped>>
  BY <1>9, <1>10
<1>17. common'.usb_amount_left = common.usb_amount_left
  BY <1>13
<1>18. /\ k - 1 \in 0 .. NumBuffers
       /\ RingShrinks(k, f)
  BY <1>4, <1>9, <1>17, <1>16, RingDrain
<1>19. PICK f2 \in [0 .. k - 1 -> Nat] :
         /\ \A i \in 0 .. k - 1 : f2[i] = f[i + 1]
         /\ Ring(k - 1, f2)' /\ Sent(k - 1, f2)'
  BY <1>18 DEF RingShrinks
<1>20. f[0] = common.size - left /\ f[k] = common.size - to_req
  BY <1>4 DEF Writing
<1>21. f[0] = a
  BY <1>9, <1>14, <1>20
<1>22. DataDir' = "out"
  BY <1>4, <1>10 DEF DataDir
<1>23. CASE kpc' = "write"
  <2>1. n = f[1] - f[0]
    <3>1. PICK d \in Nat : d = f[1] - f[0]
      BY <1>4, <1>15
    <3>2. n <= d /\ ~(n < d)
      BY <1>9, <1>13, <1>15, <1>23, <3>1
    <3>3. n = d
      BY <3>2
    <3> QED
      BY <3>1, <3>3
  <2>2. /\ cmd.start + f[0] < FileLen /\ m = FileLen - (cmd.start + f[0])
        /\ amount = WholeBlocks(AtMost(f[1] - f[0], m))
        /\ left' = left - amount
    BY <1>9, <1>11, <1>12, <1>13, <1>21, <1>23, <2>1
  <2>3. Writing(k - 1, f2)'
    BY <1>4, <1>9, <1>10, <1>11, <1>13, <1>14, <1>15, <1>19, <2>2, WritingWrote
  <2> QED
    BY <1>18, <1>19, <1>22, <1>23, <2>3, OutAgain
<1>24. CASE kpc' = "finish"
  <2>1. ASSUME common'.residue = 0
        PROVE  k - 1 = 0 /\ common'.usb_amount_left = 0
    <3>1. cmd.len - Size + left - nw = 0
      BY <1>13, <1>14, <2>1, SMTT(30)
    <3>2. nw <= n
      BY <1>12, <1>13
    <3>3. Size = cmd.len /\ n = left
      BY <1>9, <1>14, <3>1, <3>2, SMTT(30)
    <3>4. PICK x \in Nat : x = f[0]
      BY <1>4
    <3>5. PICK y \in Nat : y = f[1]
      BY <1>4
    <3>6. PICK e \in Nat : e = f[k]
      BY <1>4
    <3>7. n <= y - x /\ x = Size - left /\ e = Size - to_req
      <4>1. n <= y - x
        BY <1>9, <1>15, <3>4, <3>5
      <4>2. x = Size - left /\ e = Size - to_req
        BY <1>14, <1>20, <3>4, <3>6
      <4> QED
        BY <4>1, <4>2
    <3>8. e <= Size /\ Size <= y
      <4>1. PICK z \in Nat : z = Size
        BY <1>14
      <4>2. PICK l \in Nat : l = left /\ l <= z
        BY <1>14, <4>1
      <4>3. n = l /\ n <= y - x /\ x = z - l
        BY <3>3, <3>7, <4>1, <4>2
      <4>4. z <= y
        BY <4>3
      <4>5. e <= z
        BY <1>14, <3>7, <4>1
      <4> QED
        BY <4>1, <4>4, <4>5
    <3>9. ~(1 < k)
      <4>1. 1 < k => y < e
        BY <1>4, <3>5, <3>6 DEF Ring
      <4> QED
        BY <1>14, <3>8, <4>1
    <3>10. k = 1
      BY <1>4, <3>9
    <3>11. e = Size
      BY <1>14, <3>5, <3>6, <3>8, <3>10
    <3>12. e = cmd.len - common.usb_amount_left
      BY <1>4, <3>6 DEF Ring
    <3>13. common.usb_amount_left = 0
      <4>1. PICK u \in Nat : u = common.usb_amount_left
        BY <1>14
      <4>2. e = cmd.len /\ e = cmd.len - u
        BY <3>3, <3>11, <3>12, <4>1
      <4>3. u = 0
        BY <4>2
      <4> QED
        BY <4>1, <4>3
    <3> QED
      BY <1>13, <3>10, <3>13
  <2> QED
    BY <1>18, <1>19, <1>22, <1>24, <2>1, OutAgain
<1> QED
  BY <1>23, <1>24

\* Every step keeps the ring of what the host sends.
LEMMA OutStep ==
  ASSUME DataInv, Next
  PROVE  OutInv'
<1>0. /\ TypeInv /\ QueueInv /\ ControlInv /\ HostInv /\ FileInv /\ RestInv
      /\ FreshInv /\ ReplyInv /\ StatusInv /\ OutInv /\ AmountInv
  BY DEF DataInv
<1>1. CASE AskForCbw \/ ReceivedCbw \/ AllThrownAway \/ SendStatus \/
           Interrupted \/ CancelTransfer \/ ResetRing
  BY <1>0, <1>1, OutElsewhere DEF AskForCbw, ReceivedCbw, AllThrownAway,
     SendStatus, Interrupted, CancelTransfer, ResetRing, Unless
<1>2. CASE StartCommand
  <2>1. /\ kpc = "start" /\ drain' = fill
        /\ UNCHANGED <<fill, udcVars, hostVars>>
    BY <1>2 DEF StartCommand
  <2>2. /\ inQ' = <<>> /\ outQ' = <<>> /\ sent' = 0 /\ cmd' = cmd
        /\ fill' = fill /\ fill \in Buffers /\ cmd.len \in Nat
    BY <1>0, <2>1, FreshIsQuiet, SizeIs DEF udcVars, hostVars, TypeInv, Untouched
  <2>3. DataDir' = DataDir
    BY <2>2 DEF DataDir
  <2>4. bh' = bh => AllEmpty'
    BY <2>1, FreshIsQuiet DEF AllEmpty
  <2>5. ASSUME NEW n \in Nat, StartsReply(n) PROVE OutInv'
    <3>1. /\ kpc' \in {"finish", "cancel"} /\ common'.usb_amount_left = cmd.len
          /\ DataDir # "in" => bh' = bh /\ common'.residue = cmd.len
      BY <2>5 DEF StartsReply, Started, ToFinish
    <3> QED
      BY <2>1, <2>2, <2>3, <2>4, <3>1, OutElsewhere, OutStarts
  <2>6. ASSUME StartsTransfer PROVE OutInv'
    <3>1. /\ common'.usb_amount_left = cmd.len /\ common'.residue = cmd.len
          /\ common'.size = Size /\ bh' = bh
          /\ ~Conflicting /\ cmd.op \in {"READ", "WRITE"}
          /\ left' = Size /\ to_req' = IF cmd.op = "WRITE" THEN Size ELSE 0
          /\ more' <=> cmd.op = "WRITE" /\ Size > 0
          /\ Size = 0 => kpc' \in {"finish", "cancel"}
          /\ Size # 0 => kpc' = IF cmd.op = "READ" THEN "read" ELSE "write"
      BY <2>6 DEF StartsTransfer, Started, ToFinish
    <3>2. CASE kpc' = "write"
      <4>1. cmd.op = "WRITE" /\ Size # 0 /\ Size \in Nat /\ Size <= cmd.len
        BY <1>0, <3>1, <3>2, SizeIs
      <4>2. Size > 0 /\ cmd.len # 0
        BY <2>2, <4>1
      <4>3. DataDir = "out"
        BY <3>1, <4>1, <4>2 DEF Conflicting, DataDir, Direction
      <4>4. PICK f \in [0 .. 0 -> Nat] : f[0] = 0 /\ Ring(0, f)' /\ Sent(0, f)'
        BY <2>1, <2>2, <2>4, <3>1, RingStarts
      <4>5. 0 \in 0 .. NumBuffers /\ 0 % BlockLen = 0
        BY ConstantsAre, ModMultiple
      <4>6. /\ left' = Size /\ to_req' = Size /\ more' /\ to_req' > 0
            /\ common'.size - to_req' = 0
        BY <3>1, <4>1, <4>2
      <4>7. Writing(0, f)'
        BY <4>4, <4>5, <4>6 DEF Writing
      <4> QED
        BY <2>3, <3>2, <4>3, <4>4, <4>5, <4>7, OutAgain
    <3>3. CASE kpc' = "finish"
      BY <2>1, <2>2, <2>4, <3>1, <3>3, OutStarts
    <3> QED
      BY <3>1, <3>2, <3>3, OutElsewhere
  <2>7. ASSUME StartsVerify PROVE OutInv'
    <3>1. /\ kpc' \in {"verify", "finish", "cancel"} /\ bh' = bh
          /\ common'.usb_amount_left = cmd.len /\ common'.residue = cmd.len
      BY <2>7 DEF StartsVerify, Started, ToFinish
    <3> QED
      BY <2>1, <2>2, <2>3, <2>4, <3>1, OutElsewhere, OutStarts
  <2> QED
    BY <1>0, <1>2, <2>5, <2>6, <2>7, StartCommandForm
<1>3. CASE ReadRound
  <2>1. kpc = "read" /\ kpc' \in {"cancel", "finish", "read"} /\ UNCHANGED cmd
    BY <1>3 DEF ReadRound, hostVars
  <2>2. DataDir = "in"
    BY <1>0, <2>1 DEF AmountInv, Direction
  <2>3. DataDir' = "in"
    BY <2>1, <2>2 DEF DataDir
  <2> QED
    BY <2>1, <2>3, OutElsewhere
<1>4. CASE VerifyRound
  <2>1. kpc = "verify" /\ UNCHANGED <<fill, drain, inQ, outQ, hostVars>>
    BY <1>4 DEF VerifyRound, udcVars
  <2>2. /\ inQ' = <<>> /\ outQ' = <<>> /\ sent' = 0 /\ cmd' = cmd
        /\ fill' = fill /\ fill \in Buffers /\ cmd.len \in Nat /\ drain' = fill
    BY <1>0, <2>1, FreshIsQuiet, SizeIs DEF hostVars, TypeInv, Untouched, FreshInv
  <2>3. DataDir' = DataDir
    BY <2>2 DEF DataDir
  <2>4. bh' = bh => AllEmpty'
    BY <2>1, FreshIsQuiet DEF AllEmpty
  <2>5. common.residue = cmd.len /\ common.usb_amount_left = cmd.len
    BY <1>0, <2>1 DEF AmountInv
  <2>6. ASSUME NEW n \in Nat, VerifyEnds(n) PROVE OutInv'
    <3>1. /\ kpc' = "finish" /\ common'.usb_amount_left = cmd.len
          /\ common'.residue = cmd.len
          /\ DataDir # "in" => bh' = bh
      BY <2>5, <2>6 DEF VerifyEnds
    <3> QED
      BY <2>1, <2>2, <2>3, <2>4, <3>1, OutElsewhere, OutStarts
  <2>7. ASSUME NEW n \in Nat, VerifyGoesOn(n) PROVE OutInv'
    BY <2>7, OutElsewhere DEF VerifyGoesOn
  <2>8. CASE kpc' = "cancel"
    BY <2>8, OutElsewhere
  <2> QED
    BY <1>0, <1>4, <2>6, <2>7, <2>8, VerifyRoundForm
<1>5. CASE WriteRequest
  <2>1. /\ kpc = "write" /\ UNCHANGED <<kpc, drain, inQ, left, cmd, sent, stopped>>
        /\ bh[fill].state = "EMPTY"
    BY <1>5 DEF WriteRequest, hostVars, MayRequest
  <2>2. Taking
    BY <2>1 DEF Taking
  <2>3. DataDir = "out" /\ DataDir' = "out"
    BY <1>0, <2>1, <2>2, OutHas DEF DataDir
  <2>4. PICK k \in 0 .. NumBuffers : \E f \in [0 .. k -> Nat] : OutAt(k, f)
    BY <1>0, <2>2, OutHas
  <2>5. PICK f \in [0 .. k -> Nat] : OutAt(k, f)
    BY <2>4
  <2>6. Ring(k, f) /\ Sent(k, f)
    BY <2>5 DEF OutAt
  <2>7. Writing(k, f) /\ k \in Nat
    BY <2>1, <2>5 DEF OutAt
  <2>8. to_req > 0 /\ to_req <= common.usb_amount_left
    BY <1>0, <2>1, <1>5, WriteAmounts DEF WriteRequest, MayRequest
  <2>9. WriteRefuses \/ (\E n \in Nat : WriteAsks(n))
    BY <1>0, <2>8, <1>5, WriteRequestForm
  <2>10. CASE WriteRefuses
    <3>1. /\ UNCHANGED <<bh, fill, outQ, to_req>> /\ ~more' /\ common'.sense
          /\ common'.usb_amount_left = common.usb_amount_left
          /\ common'.size = common.size
          /\ cmd.start + (common.size - to_req) >= FileLen
      BY <2>10 DEF WriteRefuses, UsbOffset
    <3>2. Ring(k, f)' /\ Sent(k, f)'
      BY <2>1, <2>6, <3>1, RingSame
    <3>3. f[k] = common.size - to_req
      BY <2>7 DEF Writing
    <3>4. Writing(k, f)'
      BY <2>1, <2>7, <3>1, <3>3 DEF Writing
    <3> QED
      BY <2>1, <2>3, <3>2, <3>4, OutAgain
  <2>11. ASSUME NEW n \in Nat, WriteAsks(n) PROVE OutInv'
    <3>1. Requests(n)
      BY <2>11 DEF WriteAsks
    <3>2. UNCHANGED <<drain, inQ, cmd, sent, stopped>>
      BY <2>1
    <3>3. /\ k + 1 \in 0 .. NumBuffers /\ k < NumBuffers
          /\ RingGrows(k, f, n)
      BY <1>0, <2>1, <2>6, <3>1, <3>2, RingRequest
    <3>4. PICK f2 \in [0 .. k + 1 -> Nat] :
            /\ \A i \in 0 .. k : f2[i] = f[i]
            /\ f2[k + 1] = f[k] + n
            /\ Ring(k + 1, f2)' /\ Sent(k + 1, f2)'
      BY <3>3 DEF RingGrows
    <3>5. common.size \in Nat
      BY <1>0 DEF TypeInv, Commons
    <3>6. Writing(k + 1, f2)'
      BY <1>0, <2>1, <2>7, <2>8, <2>11, <3>4, <3>5, WritingAsks
    <3> QED
      BY <2>1, <2>3, <3>3, <3>4, <3>6, OutAgain
  <2> QED
    BY <2>9, <2>10, <2>11
<1>6. CASE WriteWaits
  <2>1. /\ kpc = "write" /\ kpc' = "drain"
        /\ UNCHANGED <<bh, fill, drain, inQ, outQ, common, left, to_req, more,
                       cmd, sent, stopped>>
    BY <1>6 DEF WriteWaits, ringVars, udcVars, ioVars, hostVars
  <2>2. Taking
    BY <2>1 DEF Taking
  <2>3. DataDir = "out" /\ DataDir' = "out"
    BY <1>0, <2>1, <2>2, OutHas DEF DataDir
  <2>4. PICK k \in 0 .. NumBuffers : \E f \in [0 .. k -> Nat] : OutAt(k, f)
    BY <1>0, <2>2, OutHas
  <2>5. PICK f \in [0 .. k -> Nat] : OutAt(k, f)
    BY <2>4
  <2>6. Ring(k, f) /\ Sent(k, f)
    BY <2>5 DEF OutAt
  <2>7. Ring(k, f)' /\ Sent(k, f)'
    BY <2>1, <2>6, RingSame
  <2>8. k > 0
    <3>1. SUFFICES ASSUME k = 0 PROVE FALSE
      BY ConstantsAre
    <3>2. /\ drain \in Buffers /\ 0 \in 0 .. NumBuffers - 1
          /\ Slot(drain, 0) = drain
      BY <1>0, SlotIs, ConstantsAre DEF TypeInv
    <3>3. fill = drain /\ bh[drain].state = "EMPTY"
      BY <2>6, <3>1, <3>2 DEF Ring
    <3> QED
      BY <1>6, <3>3 DEF WriteWaits, MayRequest
  <2>9. Writing(k, f)'
    BY <2>1, <2>5 DEF OutAt, Writing
  <2> QED
    BY <2>1, <2>3, <2>7, <2>8, <2>9, OutAgain
<1>7. CASE WriteStopsEarly
  <2>1. /\ kpc = "write" /\ kpc' \in {"finish", "cancel"}
        /\ UNCHANGED <<bh, fill, drain, inQ, outQ, common, cmd, sent, stopped>>
    BY <1>7 DEF WriteStopsEarly, ringVars, udcVars, hostVars, Unless
  <2>2. Taking
    BY <2>1 DEF Taking
  <2>3. DataDir = "out" /\ DataDir' = "out"
    BY <1>0, <2>1, <2>2, OutHas DEF DataDir
  <2>4. PICK k \in 0 .. NumBuffers : \E f \in [0 .. k -> Nat] : OutAt(k, f)
    BY <1>0, <2>2, OutHas
  <2>5. PICK f \in [0 .. k -> Nat] : OutAt(k, f)
    BY <2>4
  <2>6. Ring(k, f) /\ Sent(k, f)
    BY <2>5 DEF OutAt
  <2>7. Ring(k, f)' /\ Sent(k, f)'
    BY <2>1, <2>6, RingSame
  <2>8. common.residue # 0
    <3>1. /\ common.residue = cmd.len - Size + left /\ 0 < left /\ left \in Nat
          /\ Size <= cmd.len /\ Size \in Nat /\ cmd.len \in Nat
      BY <1>0, <2>1, SizeIs DEF AmountInv, TypeInv
    <3> QED
      BY <3>1
  <2> QED
    BY <2>1, <2>3, <2>7, <2>8, OutAgain, OutElsewhere
<1>8. CASE WriteRound
  <2>1. kpc' \in {"write", "finish", "cancel"}
    BY <1>8 DEF WriteRound, Unless
  <2> QED
    BY <1>0, <1>8, <2>1, WroteOldest, OutElsewhere
<1>9. CASE FinishReply
  <2>1. kpc = "finish" /\ UNCHANGED <<outQ, common, cmd, sent, stopped>>
    BY <1>9 DEF FinishReply, hostVars
  <2>2. CASE kpc' # "throw"
    <3>1. kpc' \in {"status", "cancel"}
      BY <1>9, <2>2 DEF FinishReply, Unless
    <3> QED
      BY <3>1, OutElsewhere
  <2>3. CASE kpc' = "throw"
    <3>1. DataDir = "out" /\ UNCHANGED <<bh, fill, drain, inQ>>
      BY <1>9, <2>3 DEF FinishReply, Unless, ringVars
    <3>2. Taking /\ DataDir' = "out"
      BY <2>1, <3>1 DEF Taking, DataDir
    <3>3. PICK k \in 0 .. NumBuffers : \E f \in [0 .. k -> Nat] : OutAt(k, f)
      BY <1>0, <3>2, OutHas
    <3>4. PICK f \in [0 .. k -> Nat] : OutAt(k, f)
      BY <3>3
    <3>5. Ring(k, f)' /\ Sent(k, f)'
      BY <2>1, <3>1, <3>4, RingSame DEF OutAt
    <3> QED
      BY <2>3, <3>2, <3>5, OutAgain
  <2> QED
    BY <2>2, <2>3
<1>10. CASE ThrowAwayRequest
  <2>1. /\ kpc = "throw" /\ UNCHANGED <<kpc, drain, inQ, cmd, sent, stopped>>
        /\ bh[fill].state = "EMPTY"
    BY <1>10 DEF ThrowAwayRequest, hostVars, MustRequest
  <2>2. Taking
    BY <2>1 DEF Taking
  <2>3. DataDir = "out" /\ DataDir' = "out"
    BY <1>0, <2>1, <2>2, OutHas DEF DataDir
  <2>4. PICK k \in 0 .. NumBuffers : \E f \in [0 .. k -> Nat] : OutAt(k, f)
    BY <1>0, <2>2, OutHas
  <2>5. PICK f \in [0 .. k -> Nat] : OutAt(k, f)
    BY <2>4
  <2>6. Ring(k, f) /\ Sent(k, f)
    BY <2>5 DEF OutAt
  <2>7. PICK n \in Nat : Requests(n)
    BY <1>0, <1>10, ThrowAwayRequestForm
  <2>8. k + 1 \in 0 .. NumBuffers /\ \E f2 \in [0 .. k + 1 -> Nat] :
            Ring(k + 1, f2)' /\ Sent(k + 1, f2)'
    BY <1>0, <2>1, <2>6, <2>7, RingRequest DEF RingGrows
  <2> QED
    BY <2>1, <2>3, <2>8, OutAgain
<1>11. CASE ThrowAwayWaits
  <2>1. /\ kpc = "throw" /\ kpc' = "toss"
        /\ UNCHANGED <<bh, fill, drain, inQ, outQ, common, left, to_req, more,
                       cmd, sent, stopped>>
    BY <1>11 DEF ThrowAwayWaits, ringVars, udcVars, ioVars, hostVars
  <2>2. Taking
    BY <2>1 DEF Taking
  <2>3. DataDir = "out" /\ DataDir' = "out"
    BY <1>0, <2>1, <2>2, OutHas DEF DataDir
  <2>4. PICK k \in 0 .. NumBuffers : \E f \in [0 .. k -> Nat] : OutAt(k, f)
    BY <1>0, <2>2, OutHas
  <2>5. PICK f \in [0 .. k -> Nat] : OutAt(k, f)
    BY <2>4
  <2>6. Ring(k, f) /\ Sent(k, f)
    BY <2>5 DEF OutAt
  <2>7. Ring(k, f)' /\ Sent(k, f)'
    BY <2>1, <2>6, RingSame
  <2>8. k > 0
    <3>1. SUFFICES ASSUME k = 0 PROVE FALSE
      BY ConstantsAre
    <3>2. /\ drain \in Buffers /\ 0 \in 0 .. NumBuffers - 1
          /\ Slot(drain, 0) = drain
      BY <1>0, SlotIs, ConstantsAre DEF TypeInv
    <3>3. fill = drain /\ bh[drain].state = "EMPTY"
      BY <2>6, <3>1, <3>2 DEF Ring
    <3> QED
      BY <1>11, <3>3 DEF ThrowAwayWaits, MustRequest
  <2> QED
    BY <2>1, <2>3, <2>7, <2>8, OutAgain
<1>12. CASE ThrowAway
  <2>1. /\ kpc = "toss" /\ kpc' \in {"throw", "cancel"} /\ ~Busy(drain)
        /\ bh' = [bh EXCEPT ![drain] = Free] /\ drain' = NextOf(drain)
        /\ UNCHANGED <<fill, inQ, outQ, common, cmd, sent, stopped>>
    BY <1>12 DEF ThrowAway, DrainBuffer, udcVars, hostVars
  <2>2. Taking
    BY <2>1 DEF Taking
  <2>3. DataDir = "out" /\ DataDir' = "out"
    BY <1>0, <2>1, <2>2, OutHas DEF DataDir
  <2>4. PICK k \in 0 .. NumBuffers : \E f \in [0 .. k -> Nat] : OutAt(k, f)
    BY <1>0, <2>2, OutHas
  <2>5. PICK f \in [0 .. k -> Nat] : OutAt(k, f)
    BY <2>4
  <2>6. Ring(k, f) /\ Sent(k, f)
    BY <2>5 DEF OutAt
  <2>7. k \in 1 .. NumBuffers
    BY <2>1, <2>5 DEF OutAt
  <2>8. OnlyAt(drain) /\ bh'[drain].state = "EMPTY"
    BY <1>0, <2>1, EmptiedForm DEF TypeInv
  <2>9. k - 1 \in 0 .. NumBuffers /\ \E f2 \in [0 .. k - 1 -> Nat] :
            Ring(k - 1, f2)' /\ Sent(k - 1, f2)'
    BY <1>0, <2>1, <2>6, <2>7, <2>8, RingDrain DEF RingShrinks
  <2> QED
    BY <2>1, <2>3, <2>9, OutAgain, OutElsewhere
<1>13. CASE Complete
  <2>1. /\ UNCHANGED <<kpc, cmd, common, left, to_req, more>>
        /\ stopped => stopped'
    BY <1>13 DEF Complete, ioVars, hostVars
  <2>2. CASE ~Taking
    BY <2>1, <2>2, OutElsewhere DEF Taking, DataDir
  <2>3. CASE Taking
    <3>1. PICK k \in 0 .. NumBuffers : \E f \in [0 .. k -> Nat] : OutAt(k, f)
      BY <1>0, <2>3, OutHas
    <3>2. PICK f \in [0 .. k -> Nat] : OutAt(k, f)
      BY <3>1
    <3>3. Ring(k, f) /\ Sent(k, f) /\ DataDir' = "out"
      BY <1>0, <2>1, <2>3, <3>2, OutHas DEF OutAt, DataDir
    <3>4. kpc' \in {"write", "drain"} => Writing(k, f)'
      BY <2>1, <3>2 DEF OutAt, Writing
    <3>5. Ring(k, f)' /\ Sent(k, f)'
      BY <1>0, <1>13, <3>3, RingComplete
    <3> QED
      BY <2>1, <3>2, <3>3, <3>4, <3>5, OutAgain DEF OutAt
  <2> QED
    BY <2>2, <2>3
<1>14. CASE HostCbw
  <2>1. kpc \in {"next", "cbw"} /\ UNCHANGED kpc
    BY <1>0, <1>14 DEF HostCbw, ControlInv, Asked
  <2> QED
    BY <2>1, OutElsewhere
<1>15. CASE HostSend
  <2>1. /\ UNCHANGED <<kpc, cmd, common, left, to_req, more>>
        /\ stopped => stopped'
    BY <1>15 DEF HostSend, HostSendUnits, ioVars
  <2>2. CASE ~Taking
    BY <2>1, <2>2, OutElsewhere DEF Taking, DataDir
  <2>3. CASE Taking
    <3>1. PICK k \in 0 .. NumBuffers : \E f \in [0 .. k -> Nat] : OutAt(k, f)
      BY <1>0, <2>3, OutHas
    <3>2. PICK f \in [0 .. k -> Nat] : OutAt(k, f)
      BY <3>1
    <3>3. Ring(k, f) /\ Sent(k, f) /\ DataDir' = "out"
      BY <1>0, <2>1, <2>3, <3>2, OutHas DEF OutAt, DataDir
    <3>4. kpc' \in {"write", "drain"} => Writing(k, f)'
      BY <2>1, <3>2 DEF OutAt, Writing
    <3>5. Ring(k, f)' /\ Sent(k, f)'
      <4>1. /\ outQ # <<>> /\ hpc = "out" /\ stopped' = stopped
            /\ \E n \in Nat :
                 /\ HostSendUnits(n) /\ n <= bh[Head(outQ)].intended
                 /\ n <= cmd.len - sent
                 /\ n = bh[Head(outQ)].intended \/ sent + n = cmd.len
        BY <1>0, <1>15, HostSendIs
      <4>2. ~stopped
        BY <1>0, <4>1 DEF HostInv
      <4> QED
        BY <1>0, <3>3, <4>1, <4>2, RingSent
    <3> QED
      BY <2>1, <3>2, <3>3, <3>4, <3>5, OutAgain DEF OutAt
  <2> QED
    BY <2>2, <2>3
<1>16. CASE HostStops
  <2>1. /\ UNCHANGED <<kpc, cmd, common, left, to_req, more>>
        /\ stopped => stopped'
    BY <1>16 DEF HostStops, HostSendUnits, ioVars
  <2>2. CASE ~Taking
    BY <2>1, <2>2, OutElsewhere DEF Taking, DataDir
  <2>3. CASE Taking
    <3>1. PICK k \in 0 .. NumBuffers : \E f \in [0 .. k -> Nat] : OutAt(k, f)
      BY <1>0, <2>3, OutHas
    <3>2. PICK f \in [0 .. k -> Nat] : OutAt(k, f)
      BY <3>1
    <3>3. Ring(k, f) /\ Sent(k, f) /\ DataDir' = "out"
      BY <1>0, <2>1, <2>3, <3>2, OutHas DEF OutAt, DataDir
    <3>4. kpc' \in {"write", "drain"} => Writing(k, f)'
      BY <2>1, <3>2 DEF OutAt, Writing
    <3>5. Ring(k, f)' /\ Sent(k, f)'
      <4>1. /\ outQ # <<>> /\ hpc = "out" /\ stopped' = TRUE
        BY <1>0, <1>16, HostStopsIs
      <4>2. PICK n \in Nat :
                 /\ HostSendUnits(n) /\ n < bh[Head(outQ)].intended
                 /\ n < cmd.len - sent
        BY <1>0, <1>16, HostStopsIs
      <4>3. ~stopped /\ cmd.len \in Nat /\ sent \in Nat
        BY <1>0, <4>1, SizeIs DEF HostInv, TypeInv
      <4>4. n <= cmd.len - sent
        BY <4>2, <4>3
      <4> QED
        BY <1>0, <3>3, <4>1, <4>2, <4>3, <4>4, RingSent
    <3> QED
      BY <2>1, <3>2, <3>3, <3>4, <3>5, OutAgain DEF OutAt
  <2> QED
    BY <2>2, <2>3
<1>17. CASE HostReceive
  <2>1. hpc = "in" /\ UNCHANGED <<kpc, cmd>>
    BY <1>17 DEF HostReceive
  <2>2. DataDir = "in"
    BY <1>0, <2>1 DEF HostInv
  <2>3. ~Taking
    BY <1>0, <2>2, OutHas
  <2> QED
    BY <2>1, <2>3, OutElsewhere DEF Taking, DataDir
<1>18. CASE HostStatus
  <2>1. kpc \in {"next", "cbw"} /\ UNCHANGED kpc
    BY <1>0, <1>18, WhenTaken DEF HostStatus, ControlInv, Asked
  <2> QED
    BY <2>1, OutElsewhere
<1>19. CASE HostReset
  <2>1. /\ UNCHANGED <<kpc, cmd, common, left, to_req, more>>
        /\ stopped => stopped'
    BY <1>19 DEF HostReset, ioVars
  <2>2. CASE ~Taking
    BY <2>1, <2>2, OutElsewhere DEF Taking, DataDir
  <2>3. CASE Taking
    <3>1. PICK k \in 0 .. NumBuffers : \E f \in [0 .. k -> Nat] : OutAt(k, f)
      BY <1>0, <2>3, OutHas
    <3>2. PICK f \in [0 .. k -> Nat] : OutAt(k, f)
      BY <3>1
    <3>3. Ring(k, f) /\ Sent(k, f) /\ DataDir' = "out"
      BY <1>0, <2>1, <2>3, <3>2, OutHas DEF OutAt, DataDir
    <3>4. kpc' \in {"write", "drain"} => Writing(k, f)'
      BY <2>1, <3>2 DEF OutAt, Writing
    <3>5. Ring(k, f)' /\ Sent(k, f)'
      <4>1. UNCHANGED <<bh, fill, drain, inQ, outQ, cmd, sent, stopped>>
        BY <1>19 DEF HostReset, ringVars, udcVars
      <4> QED
        BY <2>1, <3>3, <4>1, RingSame
    <3> QED
      BY <2>1, <3>2, <3>3, <3>4, <3>5, OutAgain DEF OutAt
  <2> QED
    BY <2>2, <2>3
<1> QED
  BY <1>1, <1>2, <1>3, <1>4, <1>5, <1>6, <1>7, <1>8, <1>9, <1>10, <1>11,
     <1>12, <1>13, <1>14, <1>15, <1>16, <1>17, <1>18, <1>19 DEF Next, Kthread

-----------------------------------------------------------------------------
(* The reply, as it is queued for the host.                                *)

\* Units that follow units are units.
LEMMA UnitsJoin ==
  ASSUME NEW from \in Int, NEW a \in Nat, NEW b \in Nat
  PROVE  Units(from, a) \o Units(from + a, b) = Units(from, a + b)
<1>1. PICK s \in Seq(Int) : /\ s = Units(from, a) /\ Len(s) = a
                            /\ \A i \in 1 .. a : s[i] = from + i - 1
  BY UnitsAre
<1>2. PICK t \in Seq(Int) : /\ t = Units(from + a, b) /\ Len(t) = b
                            /\ \A i \in 1 .. b : t[i] = from + a + i - 1
  <2>1. PICK c \in Int : c = from + a
    OBVIOUS
  <2>2. /\ Units(c, b) \in Seq(Int) /\ Len(Units(c, b)) = b
        /\ \A i \in 1 .. b : Units(c, b)[i] = c + i - 1
    BY UnitsAre
  <2> QED
    BY <2>1, <2>2
<1>3. PICK u \in Seq(Int) : /\ u = Units(from, a + b) /\ Len(u) = a + b
                            /\ \A i \in 1 .. a + b : u[i] = from + i - 1
  <2>1. PICK n \in Nat : n = a + b
    OBVIOUS
  <2>2. /\ Units(from, n) \in Seq(Int) /\ Len(Units(from, n)) = n
        /\ \A i \in 1 .. n : Units(from, n)[i] = from + i - 1
    BY UnitsAre, Zenon
  <2> QED
    BY <2>1, <2>2, Zenon
<1>4. /\ s \o t \in Seq(Int) /\ Len(s \o t) = a + b
      /\ \A i \in 1 .. a + b : (s \o t)[i] = IF i <= a THEN s[i] ELSE t[i - a]
  <2>1. /\ s \o t \in Seq(Int) /\ Len(s \o t) = Len(s) + Len(t)
        /\ \A i \in 1 .. Len(s) + Len(t) :
             (s \o t)[i] = IF i <= Len(s) THEN s[i] ELSE t[i - Len(s)]
    BY ConcatProperties, Zenon
  <2>2. Len(s) = a /\ Len(t) = b
    BY <1>1, <1>2, Zenon
  <2> QED
    BY <2>1, <2>2, Zenon
<1>5. ASSUME NEW i \in 1 .. a + b PROVE (s \o t)[i] = u[i]
  <2>1. CASE i <= a
    <3>1. i \in 1 .. a
      BY <2>1
    <3>2. (s \o t)[i] = s[i]
      BY <1>4, <2>1
    <3> QED
      BY <1>1, <1>3, <3>1, <3>2
  <2>2. CASE ~(i <= a)
    <3>1. i - a \in 1 .. b /\ from + a + (i - a) - 1 = from + i - 1
      BY <2>2
    <3>2. (s \o t)[i] = t[i - a]
      BY <1>4, <2>2
    <3>3. t[i - a] = from + a + (i - a) - 1
      BY <1>2, <3>1
    <3> QED
      BY <1>3, <3>1, <3>2, <3>3
  <2> QED
    BY <2>1, <2>2
<1>6. s \o t = u
  <2>1. PICK v \in Seq(Int) : v = s \o t
    BY <1>4
  <2>2. Len(v) = Len(u) /\ \A i \in 1 .. Len(v) : v[i] = u[i]
    BY <1>3, <1>4, <1>5, <2>1
  <2>3. v = u
    BY <2>2, SeqEqual
  <2> QED
    BY <2>1, <2>3
<1> QED
  BY <1>1, <1>2, <1>3, <1>6

\* No units are an empty sequence, from wherever.
LEMMA NoUnits ==
  ASSUME NEW from \in Int
  PROVE  Units(from, 0) = <<>>
<1>1. Units(from, 0) \in Seq(Int) /\ Len(Units(from, 0)) = 0
  BY UnitsAre
<1> QED
  BY <1>1, EmptySeq

\* The first m buffers that are queued stay as they are.
KeepsQueue(m) == \A j \in 1 .. m : inQ'[j] = inQ[j] /\ bh'[inQ[j]] = bh[inQ[j]]

\* A buffer that is not queued may change.
LEMMA QueueKept ==
  ASSUME QueueInv, NEW b \in Buffers, ~IsIn(b, inQ), OnlyAt(b)
  PROVE  \A j \in 1 .. Len(inQ) : bh'[inQ[j]] = bh[inQ[j]]
<1> SUFFICES ASSUME NEW j \in 1 .. Len(inQ) PROVE bh'[inQ[j]] = bh[inQ[j]]
  OBVIOUS
<1>1. inQ[j] \in Buffers
  BY ElementOfSeq DEF QueueInv
<1>2. inQ[j] # b
  BY DEF IsIn
<1> QED
  BY <1>1, <1>2 DEF OnlyAt

\* What is said of the queued part of a reply does not depend on the rest.
LEMMA FlowKept ==
  ASSUME NEW m \in Nat, NEW g \in [0 .. m -> Nat], KeepsQueue(m),
         UNCHANGED <<received, cmd>>
  PROVE  /\ Flow(g, m) => Flow(g, m)'
         /\ InOrder(g, m) => InOrder(g, m)'
         /\ \A j \in 1 .. m : Going(g, j) => Going(g, j)'
         /\ \A j \in 1 .. m : Ending(g, j) => Ending(g, j)'
<1>1. Base' = Base
  BY DEF Base
<1>2. \A j \in 1 .. m : bh'[inQ'[j]] = bh[inQ[j]]
  BY DEF KeepsQueue
<1>3. Flow(g, m) => Flow(g, m)'
  BY <1>2 DEF Flow
<1>4. InOrder(g, m) => InOrder(g, m)'
  BY <1>1, <1>2 DEF InOrder
<1>5. ASSUME NEW j \in 1 .. m
      PROVE  (Going(g, j) => Going(g, j)') /\ (Ending(g, j) => Ending(g, j)')
  BY <1>2 DEF Going, Ending
<1> QED
  BY <1>3, <1>4, <1>5

\* A reply of m queued buffers, when the host has taken the first.
ReplyShifts(g, m) ==
  \E g2 \in [0 .. m - 1 -> Nat] :
    /\ \A j \in 0 .. m - 1 : g2[j] = g[j + 1]
    /\ Flow(g2, m - 1)'
    /\ InOrder(g, m) => InOrder(g2, m - 1)'
    /\ \A j \in 1 .. m - 1 : Going(g, j + 1) => Going(g2, j)'
    /\ \A j \in 1 .. m - 1 : Ending(g, j + 1) => Ending(g2, j)'

\* The host takes the first of the queued buffers.
LEMMA ReplyTaken ==
  ASSUME TypeInv, QueueInv, inQ # <<>>,
         NEW m \in 1 .. Len(inQ), NEW g \in [0 .. m -> Nat], Flow(g, m),
         inQ' = Tail(inQ), bh' = bh, cmd' = cmd,
         received' = received \o bh[Head(inQ)].data
  PROVE  ReplyShifts(g, m) /\ Len(received') = g[1]
<1>1. /\ inQ \in Seq(Buffers) /\ Len(inQ) \in Nat /\ Head(inQ) \in Buffers
      /\ Head(inQ) = inQ[1] /\ m \in Nat /\ m >= 1 /\ m <= Len(inQ)
      /\ \A j \in 1 .. m - 1 : inQ'[j] = inQ[j + 1]
  BY InTail DEF QueueInv
<1>2. PICK s \in Contents : s = received
  BY DEF TypeInv
<1>3. PICK t \in Contents : t = bh[Head(inQ)].data
  BY <1>1 DEF TypeInv, Buffer
<1>4. PICK a \in Nat : a = g[0]
  BY <1>1
<1>5. PICK b \in Nat : b = g[1]
  BY <1>1
<1>6. /\ Len(s) = a /\ Len(t) = b - a
      /\ \A j \in 1 .. m : /\ bh[inQ[j]].kind = "data"
                           /\ Len(bh[inQ[j]].data) = g[j] - g[j - 1]
  BY <1>1, <1>2, <1>3, <1>4, <1>5, SMTT(30) DEF Flow
<1>7. s \o t \in Contents /\ Len(s \o t) = b /\ Len(t) \in Nat
  <2>1. /\ s \in Seq(Int \union Told) /\ t \in Seq(Int \union Told)
    BY DEF Contents
  <2>2. /\ s \o t \in Seq(Int \union Told) /\ Len(s \o t) = Len(s) + Len(t)
        /\ Len(t) \in Nat
    BY <2>1, ConcatProperties, LenProperties
  <2> QED
    BY <1>6, <2>2 DEF Contents
<1>8. received' = s \o t
  BY <1>2, <1>3
<1>9. Len(received') = g[1]
  BY <1>5, <1>7, <1>8
<1> DEFINE g2 == [j \in 0 .. m - 1 |-> g[j + 1]]
<1>10. g2 \in [0 .. m - 1 -> Nat] /\ \A j \in 0 .. m - 1 : g2[j] = g[j + 1]
  <2>1. \A j \in 0 .. m - 1 : j + 1 \in 0 .. m
    BY <1>1
  <2> QED
    BY <2>1
<1> HIDE DEF g2
<1>11. ASSUME NEW j \in 1 .. m - 1
       PROVE  /\ bh'[inQ'[j]] = bh[inQ[j + 1]]
              /\ g2[j] = g[j + 1] /\ g2[j - 1] = g[j]
              /\ j + 1 \in 1 .. m /\ j + 1 - 1 = j
  <2>1. /\ j \in 0 .. m - 1 /\ j - 1 \in 0 .. m - 1 /\ j - 1 + 1 = j
        /\ j + 1 - 1 = j /\ j + 1 \in 1 .. m
    BY <1>1
  <2>2. g2[j] = g[j + 1] /\ g2[j - 1] = g[j - 1 + 1]
    BY <1>10, <2>1
  <2> QED
    BY <1>1, <2>1, <2>2
<1>12. g2[0] = g[1]
  <2>1. 0 \in 0 .. m - 1 /\ 0 + 1 = 1
    BY <1>1
  <2> QED
    BY <1>10, <2>1
<1>13. Flow(g2, m - 1)'
  <2>1. ASSUME NEW j \in 1 .. m - 1
        PROVE  /\ bh'[inQ'[j]].kind = "data"
               /\ Len(bh'[inQ'[j]].data) = g2[j] - g2[j - 1]
    <3>1. PICK i \in 1 .. m : i = j + 1 /\ i - 1 = j
      BY <1>11
    <3>2. /\ bh[inQ[i]].kind = "data"
          /\ Len(bh[inQ[i]].data) = g[i] - g[i - 1]
      BY <1>6
    <3>3. bh'[inQ'[j]] = bh[inQ[i]] /\ g2[j] = g[i] /\ g2[j - 1] = g[i - 1]
      BY <1>11, <3>1
    <3> QED
      BY <3>2, <3>3
  <2> QED
    BY <1>9, <1>12, <2>1 DEF Flow
<1>14. InOrder(g, m) => InOrder(g2, m - 1)'
  <2> SUFFICES ASSUME InOrder(g, m) PROVE InOrder(g2, m - 1)'
    OBVIOUS
  <2>1. PICK c \in Nat : c = Base
    BY SizeIs DEF Base
  <2>2. Base' = Base
    BY DEF Base
  <2>3. \A j \in 1 .. m :
          bh[inQ[j]].data = Units(Base + g[j - 1], g[j] - g[j - 1])
    BY DEF InOrder
  <2>4. s = Units(c, a)
    BY <1>2, <1>4, <2>1 DEF InOrder
  <2>5. t = Units(c + a, b - a)
    <3>1. 1 \in 1 .. m /\ 1 - 1 = 0
      BY <1>1
    <3>2. bh[inQ[1]].data = Units(Base + g[0], g[1] - g[0])
      BY <2>3, <3>1
    <3> QED
      BY <1>1, <1>3, <1>4, <1>5, <2>1, <3>2
  <2>6. s \o t = Units(c, b)
    <3>1. b - a \in Nat /\ a + (b - a) = b
      BY <1>6, <1>7
    <3>2. PICK d \in Nat : d = b - a
      BY <3>1
    <3>3. c \in Int
      OBVIOUS
    <3>4. Units(c, a) \o Units(c + a, d) = Units(c, a + d)
      BY <3>3, UnitsJoin, Zenon
    <3> QED
      BY <2>4, <2>5, <3>1, <3>2, <3>4
  <2>7. received' = Units(Base', g2[0])
    BY <1>5, <1>8, <1>12, <2>1, <2>2, <2>6
  <2>8. ASSUME NEW j \in 1 .. m - 1
        PROVE  bh'[inQ'[j]].data = Units(Base' + g2[j - 1], g2[j] - g2[j - 1])
    <3>1. PICK i \in 1 .. m : i = j + 1 /\ i - 1 = j
      BY <1>11
    <3>2. bh[inQ[i]].data = Units(Base + g[i - 1], g[i] - g[i - 1])
      BY <2>3
    <3>3. bh'[inQ'[j]] = bh[inQ[i]] /\ g2[j] = g[i] /\ g2[j - 1] = g[i - 1]
      BY <1>11, <3>1
    <3> QED
      BY <2>2, <3>2, <3>3
  <2> QED
    BY <2>7, <2>8 DEF InOrder
<1>15. ASSUME NEW j \in 1 .. m - 1
       PROVE  /\ Going(g, j + 1) => Going(g2, j)'
              /\ Ending(g, j + 1) => Ending(g2, j)'
  <2>1. /\ bh'[inQ'[j]] = bh[inQ[j + 1]] /\ cmd' = cmd
        /\ g2[j] = g[j + 1] /\ g2[j - 1] = g[j + 1 - 1]
    BY <1>11
  <2>2. Going(g, j + 1) => Going(g2, j)'
    BY <2>1 DEF Going
  <2>3. Ending(g, j + 1) => Ending(g2, j)'
    BY <2>1 DEF Ending
  <2> QED
    BY <2>2, <2>3
<1> QED
  BY <1>9, <1>10, <1>13, <1>14, <1>15 DEF ReplyShifts

\* A reply of m queued buffers, with one more of n units.
ReplyGrows(g, m, n) ==
  \E g2 \in [0 .. m + 1 -> Nat] :
    /\ \A j \in 0 .. m : g2[j] = g[j]
    /\ g2[m + 1] = g[m] + n
    /\ Flow(g2, m + 1)'
    /\ InOrder(g, m) /\ bh'[fill].data = Units(Base + g[m], n) =>
         InOrder(g2, m + 1)'
    /\ \A j \in 1 .. m : Going(g, j) => Going(g2, j)'
    /\ ~bh'[fill].zero /\ n > 0 /\ g[m] + n < cmd.len /\ n % BlockLen = 0 =>
         Going(g2, m + 1)'
    /\ bh'[fill].zero \/ g[m] + n >= cmd.len => Ending(g2, m + 1)'

\* The buffer to fill is queued, with n units.
LEMMA ReplyQueued ==
  ASSUME TypeInv, QueueInv, ~Busy(fill), OnlyAt(fill),
         NEW g \in [0 .. Len(inQ) -> Nat], Flow(g, Len(inQ)),
         bh'[fill].kind = "data",
         NEW n \in Nat, Len(bh'[fill].data) = n,
         inQ' = Append(inQ, fill), cmd' = cmd, received' = received
  PROVE  ReplyGrows(g, Len(inQ), n)
<1>1. PICK m \in Nat : m = Len(inQ)
  BY LenProperties DEF QueueInv
<1>2. /\ inQ \in Seq(Buffers) /\ fill \in Buffers /\ ~IsIn(fill, inQ)
  BY DEF TypeInv, QueueInv, Busy
<1>3. /\ \A j \in 1 .. m : inQ'[j] = inQ[j]
      /\ inQ'[m + 1] = fill
  BY <1>1, <1>2, InAppend
<1>4. \A j \in 1 .. m : bh'[inQ[j]] = bh[inQ[j]]
  BY <1>1, <1>2, QueueKept
<1>5. g \in [0 .. m -> Nat] /\ Flow(g, m) /\ g[m] \in Nat
  BY <1>1
<1> DEFINE g2 == [j \in 0 .. m + 1 |-> IF j <= m THEN g[j] ELSE g[m] + n]
<1>6. /\ g2 \in [0 .. m + 1 -> Nat] /\ \A j \in 0 .. m : g2[j] = g[j]
      /\ g2[m + 1] = g[m] + n
  BY <1>5
<1> HIDE DEF g2
<1>7. /\ \A j \in 1 .. m : /\ g2[j] = g[j] /\ g2[j - 1] = g[j - 1]
                           /\ bh'[inQ'[j]] = bh[inQ[j]]
      /\ g2[m + 1 - 1] = g[m] /\ g2[m + 1] = g[m] + n
      /\ g2[m + 1] - g2[m + 1 - 1] = n
      /\ bh'[inQ'[m + 1]] = bh'[fill] /\ g2[0] = g[0]
  <2>1. \A j \in 1 .. m : j \in 0 .. m /\ j - 1 \in 0 .. m
    OBVIOUS
  <2>2. m + 1 - 1 = m /\ m \in 0 .. m /\ 0 \in 0 .. m
    OBVIOUS
  <2>3. g2[m + 1 - 1] = g[m] /\ g2[m + 1] = g[m] + n
    BY <1>6, <2>2
  <2>4. PICK x \in Nat : x = g[m]
    BY <1>5
  <2>5. x + n - x = n
    OBVIOUS
  <2>6. g2[m + 1] - g2[m + 1 - 1] = n
    BY <2>3, <2>4, <2>5
  <2> QED
    BY <1>3, <1>4, <1>6, <2>1, <2>2, <2>6
<1>8. \A j \in 1 .. m + 1 : j \in 1 .. m \/ j = m + 1
  OBVIOUS
<1>9. PICK q \in Nat : q = m + 1
  OBVIOUS
<1>10. /\ g2[q] - g2[q - 1] = n /\ g2[q - 1] = g[m]
       /\ bh'[inQ'[q]] = bh'[fill]
       /\ \A j \in 1 .. q : j \in 1 .. m \/ j = q
  <2>1. q - 1 = m + 1 - 1 /\ \A j \in 1 .. q : j \in 1 .. m \/ j = q
    BY <1>9
  <2>2. g2[q] - g2[q - 1] = n /\ g2[q - 1] = g[m]
    BY <1>7, <1>9, <2>1, Zenon
  <2>3. bh'[inQ'[q]] = bh'[fill]
    BY <1>7, <1>9
  <2> QED
    BY <2>1, <2>2, <2>3
<1>11. Flow(g2, q)'
  <2>1. \A j \in 1 .. m : /\ bh[inQ[j]].kind = "data"
                          /\ Len(bh[inQ[j]].data) = g[j] - g[j - 1]
    BY <1>5 DEF Flow
  <2>2. received' = received /\ g[0] = Len(received)
    BY <1>5 DEF Flow
  <2>3. ASSUME NEW j \in 1 .. q
        PROVE  /\ bh'[inQ'[j]].kind = "data"
               /\ Len(bh'[inQ'[j]].data) = g2[j] - g2[j - 1]
    <3>1. CASE j \in 1 .. m
      BY <1>7, <2>1, <3>1
    <3>2. CASE j = q
      BY <1>10, <3>2
    <3> QED
      BY <1>10, <3>1, <3>2
  <2> QED
    BY <1>7, <2>2, <2>3 DEF Flow
<1>12. InOrder(g, m) /\ bh'[fill].data = Units(Base + g[m], n) =>
         InOrder(g2, q)'
  <2> SUFFICES ASSUME InOrder(g, m), bh'[fill].data = Units(Base + g[m], n)
               PROVE  InOrder(g2, q)'
    OBVIOUS
  <2>1. /\ received = Units(Base, g[0])
        /\ \A j \in 1 .. m :
             bh[inQ[j]].data = Units(Base + g[j - 1], g[j] - g[j - 1])
    BY DEF InOrder
  <2>2. Base' = Base
    BY DEF Base
  <2>3. ASSUME NEW j \in 1 .. q
        PROVE  bh'[inQ'[j]].data = Units(Base + g2[j - 1], g2[j] - g2[j - 1])
    <3>1. CASE j \in 1 .. m
      BY <1>7, <2>1, <3>1
    <3>2. CASE j = q
      BY <1>10, <3>2
    <3> QED
      BY <1>10, <3>1, <3>2
  <2> QED
    BY <1>7, <2>1, <2>2, <2>3 DEF InOrder
<1>13. ASSUME NEW j \in 1 .. m PROVE Going(g, j) => Going(g2, j)'
  BY <1>7 DEF Going
<1>14. ~bh'[fill].zero /\ n > 0 /\ g[m] + n < cmd.len /\ n % BlockLen = 0 =>
         Going(g2, m + 1)'
  <2>1. n > 0 => g[m] < g[m] + n
    BY <1>5
  <2>2. /\ g2[m + 1 - 1] = g[m] /\ g2[m + 1] = g[m] + n
        /\ bh'[inQ'[m + 1]] = bh'[fill] /\ g2[m + 1] - g2[m + 1 - 1] = n
    BY <1>7
  <2>3. n > 0 => g2[m + 1 - 1] < g2[m + 1]
    BY <2>1, <2>2
  <2> QED
    BY <2>2, <2>3, SMTT(30) DEF Going
<1>15. bh'[fill].zero \/ g[m] + n >= cmd.len => Ending(g2, m + 1)'
  BY <1>7 DEF Ending
<1>16. ReplyGrows(g, m, n)
  BY <1>6, <1>9, <1>11, <1>12, <1>13, <1>14, <1>15 DEF ReplyGrows
<1> QED
  BY <1>1, <1>16

\* Where a reply is while it is put together ...
ReadyAt(g) ==
  /\ Flow(g, Len(inQ)) /\ InOrder(g, Len(inQ))
  /\ \A j \in 1 .. Len(inQ) : Going(g, j)
  /\ g[Len(inQ)] + Pending = Moved
  /\ kpc = "finish" => bh[fill].data = Units(Base + g[Len(inQ)], Pending)

Ready == hpc = "in" /\ \E g \in [0 .. Len(inQ) -> Nat] : ReadyAt(g)

Replying ==
  /\ kpc = "read" \/ (kpc = "finish" /\ bh[fill].state = "FULL")
  /\ DataDir = "in" /\ hpc # "reset"

\* ... as ReplyInv says ...
LEMMA ReplyHas ==
  ASSUME ReplyInv, Replying
  PROVE  Ready
  BY DEF ReplyInv, Replying, Ready, ReadyAt

\* ... and where it is after a step.
LEMMA ReadyAgain ==
  ASSUME NEW m \in Nat, m = Len(inQ'), NEW g \in [0 .. m -> Nat],
         Flow(g, m)', InOrder(g, m)', \A j \in 1 .. m : Going(g, j)',
         g[m] + Pending' = Moved',
         kpc' = "finish" => bh'[fill'].data = Units(Base' + g[m], Pending'),
         hpc' = "in"
  PROVE  Ready'
<1>1. ReadyAt(g)'
  BY DEF ReadyAt
<1> QED
  BY <1>1 DEF Ready

\* The host has not been sent more than it asked for.
NotTooMuch == EmptyCommands \/ Len(received) <= cmd.len

\* What has to be shown of a reply that goes on, or waits for finish_reply.
LEMMA ReplyAgain ==
  ASSUME kpc' = "read" \/ (kpc' = "finish" /\ bh'[fill'].state = "FULL"),
         ReplyRing', hpc' # "reset" => Ready', NotTooMuch'
  PROVE  ReplyInv'
  BY DEF ReplyInv, Ready, ReadyAt, NotTooMuch

\* Without a reply there is little to say.
LEMMA ReplyElsewhere ==
  ASSUME kpc' \notin {"read", "finish", "status"} \/ DataDir' # "in", NotTooMuch'
  PROVE  ReplyInv'
  BY DEF ReplyInv, NotTooMuch

\* A command that asks for nothing, when the host expects data.
LEMMA ReplyNothing ==
  ASSUME kpc' = "finish", EmptyCommands, common'.residue = cmd'.len,
         AllEmpty', outQ' = <<>>, fill' \in Buffers, Begun', Untouched'
  PROVE  ReplyInv'
<1>1. bh'[fill'].state = "EMPTY"
  BY DEF AllEmpty
<1>2. ReplyRing'
  BY <1>1 DEF ReplyRing, AllEmpty, Busy
<1> QED
  BY <1>1, <1>2 DEF ReplyInv

\* A reply starts with nothing.
LEMMA ReplyStarts ==
  ASSUME TypeInv, cmd' = cmd, inQ' = <<>>, received' = <<>>
  PROVE  \E g \in [0 .. 0 -> Nat] : g[0] = 0 /\ Flow(g, 0)' /\ InOrder(g, 0)'
<1>1. PICK g \in [0 .. 0 -> Nat] : g[0] = 0
  <2>1. [j \in 0 .. 0 |-> 0] \in [0 .. 0 -> Nat] /\ [j \in 0 .. 0 |-> 0][0] = 0
    OBVIOUS
  <2> QED
    BY <2>1
<1>2. Flow(g, 0)'
  <2>1. Len(received') = 0
    BY EmptySeq
  <2> QED
    BY <1>1, <2>1 DEF Flow
<1>3. InOrder(g, 0)'
  <2>1. PICK c \in Int : c = Base'
    BY SizeIs DEF Base
  <2>2. Units(c, 0) = <<>>
    BY NoUnits
  <2> QED
    BY <1>1, <2>1, <2>2 DEF InOrder
<1> QED
  BY <1>1, <1>2, <1>3

\* The completion routine changes no buffer that is still queued.
LEMMA CompleteKeeps ==
  ASSUME TypeInv, QueueInv, Complete
  PROVE  /\ \E b \in Buffers :
              /\ Busy(b) /\ ~IsIn(b, inQ) /\ OnlyAt(b)
              /\ bh[b].state = "SENDING" => bh'[b].state = "EMPTY"
         /\ UNCHANGED <<fill, drain, inQ, outQ, kpc, common, left, to_req, more,
                        cancelled, state, file, hostVars>>
         /\ KeepsQueue(Len(inQ))
<1>1. /\ Head(ended) \in Buffers /\ IsIn(Head(ended), ended)
      /\ ended \in Seq(Buffers) /\ ended # <<>>
  BY InTail DEF QueueInv, Complete
<1>2. /\ Busy(Head(ended)) /\ ~IsIn(Head(ended), inQ)
      /\ OnlyAt(Head(ended))
      /\ bh[Head(ended)].state = "SENDING" => bh'[Head(ended)].state = "EMPTY"
  BY <1>1, CompleteForm DEF QueueInv
<1>3. UNCHANGED <<fill, drain, inQ, outQ, kpc, common, left, to_req, more,
                  cancelled, state, file, hostVars>>
  BY DEF Complete, ioVars
<1>4. \A j \in 1 .. Len(inQ) : bh'[inQ[j]] = bh[inQ[j]]
  BY <1>1, <1>2, QueueKept
<1> QED
  BY <1>1, <1>2, <1>3, <1>4 DEF KeepsQueue

\* What the host takes of a reply that is told as done, and what it expects then.
LEMMA RepliedTaken ==
  ASSUME TypeInv, QueueInv, NEW m \in 1 .. Len(inQ), NEW residue \in Nat,
         Replied(m, residue), HostReceive
  PROVE  Replied(m - 1, residue)' /\ NotTooMuch'
<1>1. /\ inQ # <<>> /\ inQ' = Tail(inQ) /\ bh' = bh /\ cmd' = cmd
      /\ received' = received \o bh[Head(inQ)].data
      /\ hpc' = IF \/ bh[Head(inQ)].zero \/ Len(bh[Head(inQ)].data) = 0
                   \/ Len(bh[Head(inQ)].data) % BlockLen > 0
                   \/ Len(received') >= cmd.len
                THEN "status" ELSE "in"
  BY DEF HostReceive, EndIn, ringVars
<1>2. /\ m \in Nat /\ m > 0 /\ Head(inQ) = inQ[1] /\ 1 \in 1 .. m /\ 1 - 1 = 0
  BY <1>1, InTail DEF QueueInv
<1>3. PICK g \in [0 .. m -> Nat] :
        /\ Flow(g, m)
        /\ \A j \in 1 .. m - 1 : Going(g, j)
        /\ Ending(g, m)
        /\ EmptyCommands \/ (InOrder(g, m) /\ g[m] = cmd.len - residue)
  BY <1>2 DEF Replied
<1>4. ReplyShifts(g, m) /\ Len(received') = g[1]
  BY <1>1, <1>3, ReplyTaken
<1>5. PICK g2 \in [0 .. m - 1 -> Nat] :
        /\ \A j \in 0 .. m - 1 : g2[j] = g[j + 1]
        /\ Flow(g2, m - 1)'
        /\ InOrder(g, m) => InOrder(g2, m - 1)'
        /\ \A j \in 1 .. m - 1 : Going(g, j + 1) => Going(g2, j)'
        /\ \A j \in 1 .. m - 1 : Ending(g, j + 1) => Ending(g2, j)'
  BY <1>4 DEF ReplyShifts
<1>6. g2[m - 1] = g[m]
  <2>1. m - 1 \in 0 .. m - 1 /\ m - 1 + 1 = m
    BY <1>2
  <2> QED
    BY <1>5, <2>1
<1>7. PICK a, b \in Nat : a = g[0] /\ b = g[1]
  BY <1>2
<1>8. Len(bh[Head(inQ)].data) = b - a
  BY <1>2, <1>3, <1>7 DEF Flow
<1>9. CASE m > 1
  <2>1. 1 \in 1 .. m - 1
    BY <1>2, <1>9
  <2>2. Going(g, 1)
    BY <1>3, <2>1
  <2>3. /\ ~bh[Head(inQ)].zero /\ a < b /\ b < cmd.len
        /\ (b - a) % BlockLen = 0
    BY <1>2, <1>7, <2>2 DEF Going
  <2>4. hpc' = "in" /\ Len(received') < cmd.len
    <3>1. PICK l \in Nat : l = cmd.len
      BY SizeIs
    <3>2. b < l /\ ~(b >= l) /\ b - a # 0
      BY <2>3, <3>1, SMTT(30)
    <3>3. Len(received') = b
      BY <1>4, <1>7
    <3>4. ~(Len(received') >= cmd.len) /\ Len(received') < cmd.len
      BY <3>1, <3>2, <3>3
    <3>5. /\ ~(Len(bh[Head(inQ)].data) = 0)
          /\ ~(Len(bh[Head(inQ)].data) % BlockLen > 0)
      <4>1. (b - a) % BlockLen = 0
        BY <2>3
      <4>2. ~((b - a) % BlockLen > 0)
        BY <4>1
      <4> QED
        BY <1>8, <3>2, <4>2, Zenon
    <3>6. ~bh[Head(inQ)].zero
      BY <2>3
    <3> QED
      BY <1>1, <3>4, <3>5, <3>6, Zenon
  <2>5. m - 1 > 0
    BY <1>2, <1>9
  <2>6. \A j \in 1 .. m - 1 - 1 : Going(g2, j)'
    <3> SUFFICES ASSUME NEW j \in 1 .. m - 1 - 1 PROVE Going(g2, j)'
      OBVIOUS
    <3>1. j \in 1 .. m - 1 /\ j + 1 \in 1 .. m - 1
      BY <1>2
    <3>2. Going(g, j + 1)
      BY <1>3, <3>1
    <3> QED
      BY <1>5, <3>1, <3>2
  <2>7. Ending(g2, m - 1)'
    <3>1. m - 1 \in 1 .. m - 1 /\ m - 1 + 1 = m
      BY <1>2, <2>5
    <3>2. Ending(g, m - 1 + 1)
      BY <1>3, <3>1
    <3> QED
      BY <1>5, <3>1, <3>2
  <2>8. Replied(m - 1, residue)'
    BY <1>1, <1>3, <1>5, <1>6, <2>4, <2>5, <2>6, <2>7 DEF Replied
  <2>9. NotTooMuch'
    <3>1. b <= cmd.len
      BY <2>3, SizeIs, SMTT(30)
    <3> QED
      BY <1>1, <1>4, <1>7, <3>1 DEF NotTooMuch
  <2> QED
    BY <2>8, <2>9
<1>10. CASE m = 1
  <2>1. hpc' = "status"
    <3>1. bh[Head(inQ)].zero \/ g[1] >= cmd.len
      BY <1>2, <1>3, <1>10 DEF Ending
    <3> QED
      BY <1>1, <1>4, <3>1
  <2>2. /\ ~(m - 1 > 0) /\ \A j \in 1 .. m - 1 - 1 : FALSE
    BY <1>10
  <2>3. Replied(m - 1, residue)'
    BY <1>1, <1>3, <1>5, <1>6, <2>1, <2>2 DEF Replied
  <2>4. NotTooMuch'
    <3>1. EmptyCommands \/ g[1] = cmd.len - residue
      BY <1>3, <1>10
    <3>2. cmd.len - residue <= cmd.len
      BY SizeIs, SMTT(30)
    <3> QED
      BY <1>1, <1>4, <3>1, <3>2 DEF NotTooMuch
  <2> QED
    BY <2>3, <2>4
<1> QED
  BY <1>2, <1>9, <1>10

\* The amounts of do_read.
LEMMA ReadAmounts ==
  ASSUME TypeInv, AmountInv, kpc = "read"
  PROVE  /\ DataDir = "in" /\ cmd.op = "READ" /\ common.size = Size
         /\ Moved = Size - left /\ Moved \in Nat /\ left <= Size
         /\ Size <= cmd.len /\ left > 0
         /\ FileOffset = Base + Moved
         /\ common.residue = cmd.len - Size + left /\ left \in Nat
<1>1. /\ DataDir = "in" /\ cmd.op = "READ" /\ common.size = Size
      /\ 0 < left /\ left <= Size /\ common.residue = cmd.len - Size + left
  BY DEF AmountInv, Direction
<1>2. /\ left \in Nat /\ Size \in Nat /\ cmd.len \in Nat /\ cmd.start \in Nat
      /\ Size <= cmd.len
  BY SizeIs DEF TypeInv
<1>3. Moved = Size - left
  BY <1>1, <1>2 DEF Moved
<1>4. Base = cmd.start
  BY <1>1 DEF Base
<1>5. FileOffset = Base + Moved
  BY <1>1, <1>3, <1>4 DEF FileOffset
<1>6. Moved \in Nat
  BY <1>1, <1>2, <1>3
<1> QED
  BY <1>1, <1>2, <1>3, <1>5, <1>6

\* The last round of do_read leaves its units to finish_reply.
LEMMA ReplyRead ==
  ASSUME TypeInv, QueueInv, AmountInv, kpc = "read", ~Busy(fill), Ready,
         NEW n \in Nat, ReadEnds(n), UNCHANGED <<cmd, hpc, received>>
  PROVE  Ready'
<1>1. PICK m \in Nat : m = Len(inQ)
  BY LenProperties DEF QueueInv
<1>2. PICK g \in [0 .. m -> Nat] : ReadyAt(g)
  BY <1>1 DEF Ready
<1>3. /\ OnlyAt(fill) /\ inQ' = inQ /\ fill' = fill /\ kpc' = "finish"
      /\ common'.residue = common.residue - n /\ n \in Nat
      /\ bh'[fill].data = Units(FileOffset, n)
  BY DEF ReadEnds, ReadMoves
<1>4. ~IsIn(fill, inQ) /\ fill \in Buffers
  BY DEF TypeInv, QueueInv, Busy
<1>5. KeepsQueue(m)
  BY <1>1, <1>3, <1>4, QueueKept DEF KeepsQueue
<1>6. Flow(g, m)' /\ InOrder(g, m)' /\ \A j \in 1 .. m : Going(g, j)'
  BY <1>1, <1>2, <1>5, FlowKept DEF ReadyAt
<1>7. PICK x \in Nat : x = Moved
  BY ReadAmounts
<1>8. g[m] = x
  <2>1. g[m] + 0 = x /\ g[m] \in Nat
    BY <1>1, <1>2, <1>7 DEF ReadyAt, Pending
  <2> QED
    BY <2>1
<1>9. PICK c \in Int : c = Base
  BY SizeIs DEF Base
<1>10. FileOffset = c + x /\ Base' = c
  <2>1. Base' = Base
    BY DEF Base
  <2> QED
    BY <1>7, <1>9, <2>1, ReadAmounts
<1>11. Pending' = n
  <2>1. Len(Units(c + x, n)) = n
    <3>1. c + x \in Int
      OBVIOUS
    <3> QED
      BY <3>1, UnitsAre
  <2> QED
    BY <1>3, <1>10, <2>1 DEF Pending
<1>12. Moved' = x + n
  <2>1. cmd.len \in Int /\ common.residue \in Int
    BY SizeIs DEF TypeInv, Commons
  <2>2. x = cmd.len - common.residue
    BY <1>7 DEF Moved
  <2> QED
    BY <1>3, <2>1, <2>2 DEF Moved
<1>13. bh'[fill'].data = Units(Base' + g[m], Pending')
  BY <1>3, <1>8, <1>10, <1>11
<1>14. g[m] + Pending' = Moved'
  BY <1>8, <1>11, <1>12
<1>15. hpc' = "in" /\ m = Len(inQ')
  BY <1>1, <1>3 DEF Ready
<1> QED
  BY <1>6, <1>13, <1>14, <1>15, ReadyAgain

\* A round of do_read that another follows queues its units.
LEMMA ReplyReadOn ==
  ASSUME TypeInv, QueueInv, AmountInv, kpc = "read", ~Busy(fill), Ready,
         NEW n \in Nat, ReadGoesOn(n), UNCHANGED <<cmd, hpc, received>>
  PROVE  Ready'
<1>1. PICK m \in Nat : m = Len(inQ)
  BY LenProperties DEF QueueInv
<1>2. PICK g \in [0 .. m -> Nat] : ReadyAt(g)
  BY <1>1 DEF Ready
<1>3. /\ OnlyAt(fill) /\ inQ' = Append(inQ, fill) /\ kpc' = "read"
      /\ common'.residue = common.residue - n
      /\ bh'[fill].data = Units(FileOffset, n) /\ bh'[fill].kind = "data"
      /\ bh'[fill].zero = FALSE /\ n > 0 /\ n < left /\ n % BlockLen = 0
  BY DEF ReadGoesOn, ReadMoves
<1>4. PICK x \in Nat : x = Moved
  BY ReadAmounts
<1>5. g[m] = x
  <2>1. g[m] + 0 = x /\ g[m] \in Nat
    BY <1>1, <1>2, <1>3, <1>4 DEF ReadyAt, Pending
  <2> QED
    BY <2>1
<1>6. PICK c \in Int : c = Base
  BY SizeIs DEF Base
<1>7. FileOffset = c + x
  BY <1>4, <1>6, ReadAmounts
<1>8. Len(bh'[fill].data) = n
  <2>1. c + x \in Int
    OBVIOUS
  <2>2. Len(Units(c + x, n)) = n
    BY <2>1, UnitsAre
  <2> QED
    BY <1>3, <1>7, <2>2
<1>9. ReplyGrows(g, m, n)
  BY <1>1, <1>2, <1>3, <1>8, ReplyQueued DEF ReadyAt
<1>10. PICK g2 \in [0 .. m + 1 -> Nat] :
         /\ \A j \in 0 .. m : g2[j] = g[j]
         /\ g2[m + 1] = g[m] + n
         /\ Flow(g2, m + 1)'
         /\ InOrder(g, m) /\ bh'[fill].data = Units(Base + g[m], n) =>
              InOrder(g2, m + 1)'
         /\ \A j \in 1 .. m : Going(g, j) => Going(g2, j)'
         /\ ~bh'[fill].zero /\ n > 0 /\ g[m] + n < cmd.len /\ n % BlockLen = 0
              => Going(g2, m + 1)'
  BY <1>9 DEF ReplyGrows
<1>11. x + n < cmd.len
  <2>1. /\ left \in Nat /\ Size \in Nat /\ cmd.len \in Nat
        /\ x = Size - left /\ Size <= cmd.len
    BY <1>4, ReadAmounts, SizeIs
  <2> QED
    BY <1>3, <2>1, SMTT(30)
<1>12. \A j \in 1 .. m + 1 : Going(g2, j)'
  <2>1. Going(g2, m + 1)'
    BY <1>3, <1>5, <1>10, <1>11
  <2>2. \A j \in 1 .. m : Going(g2, j)'
    BY <1>1, <1>2, <1>10 DEF ReadyAt
  <2>3. \A j \in 1 .. m + 1 : j \in 1 .. m \/ j = m + 1
    OBVIOUS
  <2> QED
    BY <2>1, <2>2, <2>3
<1>13. InOrder(g2, m + 1)'
  BY <1>1, <1>2, <1>3, <1>5, <1>6, <1>7, <1>10 DEF ReadyAt
<1>14. Moved' = x + n
  <2>1. cmd.len \in Int /\ common.residue \in Int
    BY SizeIs DEF TypeInv, Commons
  <2>2. x = cmd.len - common.residue
    BY <1>4 DEF Moved
  <2> QED
    BY <1>3, <2>1, <2>2, SMTT(30) DEF Moved
<1>15. g2[m + 1] + Pending' = Moved'
  <2>1. Pending' = 0
    BY <1>3 DEF Pending
  <2>2. g2[m + 1] = x + n
    BY <1>5, <1>10
  <2> QED
    BY <1>14, <2>1, <2>2
<1>16. m + 1 \in Nat /\ m + 1 = Len(inQ')
  <2>1. inQ \in Seq(Buffers) /\ fill \in Buffers
    BY DEF QueueInv, TypeInv
  <2> QED
    BY <1>1, <1>3, <2>1, InAppend
<1>17. hpc' = "in" /\ kpc' # "finish"
  BY <1>3 DEF Ready
<1> QED
  BY <1>10, <1>12, <1>13, <1>15, <1>16, <1>17, ReadyAgain

\* A command that has its reply at once leaves it to finish_reply.
LEMMA ReplyStarted ==
  ASSUME TypeInv, DataDir = "in", Begun, Untouched, AllEmpty,
         inQ = <<>>, outQ = <<>>,
         UNCHANGED <<fill, inQ, outQ, hostVars>>,
         kpc' = "finish", OnlyAt(fill), bh'[fill].state = "FULL",
         NEW n \in Nat, bh'[fill].data = Units(0, n), n > 0 => Base = 0,
         n <= cmd.len, common'.residue = cmd.len - n
  PROVE  ReplyInv'
<1>1. fill \in Buffers /\ cmd.len \in Nat /\ EmptyCommands \in BOOLEAN
  BY SizeIs, ConstantsAre DEF TypeInv
<1>2. ReplyRing'
  BY <1>1 DEF ReplyRing, AllEmpty, OnlyAt, Busy
<1>3. NotTooMuch'
  BY <1>1, EmptySeq DEF NotTooMuch, Untouched, hostVars
<1>4. hpc' # "reset" => Ready'
  <2> SUFFICES ASSUME hpc' # "reset" PROVE Ready'
    OBVIOUS
  <2>1. hpc' = "in"
    BY DEF Begun, DataDir, hostVars
  <2>2. PICK g \in [0 .. 0 -> Nat] : g[0] = 0 /\ Flow(g, 0)' /\ InOrder(g, 0)'
    BY ReplyStarts DEF Untouched, hostVars
  <2>3. Pending' = n
    <3>1. Len(Units(0, n)) = n
      BY UnitsAre
    <3> QED
      BY <3>1 DEF Pending
  <2>4. Moved' = n
    BY <1>1 DEF Moved, hostVars
  <2>5. bh'[fill'].data = Units(Base' + g[0], Pending')
    <3>1. PICK c \in Int : c = Base
      BY SizeIs DEF Base
    <3>2. Base' = c
      BY <3>1 DEF Base, hostVars
    <3>3. Units(0, n) = Units(c, n)
      <4>1. CASE n = 0
        BY <4>1, NoUnits
      <4>2. CASE n # 0
        BY <3>1, <4>2
      <4> QED
        BY <4>1, <4>2
    <3> QED
      BY <2>2, <2>3, <3>2, <3>3
  <2>6. 0 = Len(inQ') /\ \A j \in 1 .. 0 : Going(g, j)'
    BY EmptySeq
  <2>7. g[0] + Pending' = Moved'
    BY <2>2, <2>3, <2>4
  <2> QED
    BY <2>1, <2>2, <2>5, <2>6, <2>7, ReadyAgain
<1> QED
  BY <1>2, <1>3, <1>4, ReplyAgain

\* do_read starts with nothing queued.
LEMMA ReplyReads ==
  ASSUME TypeInv, DataDir = "in", Begun, Untouched, AllEmpty,
         inQ = <<>>, outQ = <<>>,
         UNCHANGED <<bh, fill, inQ, outQ, hostVars>>,
         kpc' = "read", common'.residue = cmd.len
  PROVE  ReplyInv'
<1>1. fill \in Buffers /\ cmd.len \in Nat /\ EmptyCommands \in BOOLEAN
  BY SizeIs, ConstantsAre DEF TypeInv
<1>2. ReplyRing'
  BY <1>1 DEF ReplyRing, AllEmpty
<1>3. NotTooMuch'
  BY <1>1, EmptySeq DEF NotTooMuch, Untouched, hostVars
<1>4. hpc' # "reset" => Ready'
  <2> SUFFICES ASSUME hpc' # "reset" PROVE Ready'
    OBVIOUS
  <2>1. hpc' = "in"
    BY DEF Begun, DataDir, hostVars
  <2>2. PICK g \in [0 .. 0 -> Nat] : g[0] = 0 /\ Flow(g, 0)' /\ InOrder(g, 0)'
    BY ReplyStarts DEF Untouched, hostVars
  <2>3. Pending' = 0 /\ Moved' = 0
    BY <1>1 DEF Pending, Moved, hostVars
  <2>4. 0 = Len(inQ') /\ \A j \in 1 .. 0 : Going(g, j)'
    BY EmptySeq
  <2>5. g[0] + Pending' = Moved'
    BY <2>2, <2>3
  <2> QED
    BY <2>1, <2>2, <2>4, <2>5, ReadyAgain
<1> QED
  BY <1>2, <1>3, <1>4, ReplyAgain

\* A command that may ask for nothing.
LEMMA AskedNothing ==
  ASSUME TypeInv, HostInv, DataDir = "in",
         \/ cmd.op \in {"READ", "WRITE"} /\ Size = 0
         \/ cmd.op = "VERIFY" /\ cmd.size = 0
  PROVE  EmptyCommands
<1>1. cmd.len > 0 /\ cmd.dir = "in" /\ cmd.len \in Nat /\ cmd.len # 0
  BY SizeIs DEF DataDir
<1>2. CASE cmd.op \in {"READ", "WRITE"} /\ Size = 0
  <2>1. CdbSize(cmd) = 0
    BY <1>1, <1>2, SizeIs
  <2>2. Direction[cmd.op] # "none"
    BY <1>2 DEF Direction
  <2>3. cmd.size % U32 = 0
    BY <2>1, <2>2 DEF CdbSize
  <2> QED
    BY <1>1, <1>2, <2>3 DEF HostInv
<1>3. CASE cmd.op = "VERIFY" /\ cmd.size = 0
  <2>1. 0 % U32 = 0
    BY ConstantsAre
  <2> QED
    BY <1>1, <1>3, <2>1 DEF HostInv
<1> QED
  BY <1>2, <1>3

\* A command starts.
LEMMA ReplyCommand ==
  ASSUME DataInv, StartCommand
  PROVE  ReplyInv'
<1>0. /\ TypeInv /\ QueueInv /\ ControlInv /\ HostInv /\ FileInv /\ RestInv
      /\ FreshInv /\ ReplyInv /\ StatusInv /\ OutInv /\ AmountInv
  BY DEF DataInv
<1>1. /\ kpc = "start" /\ UNCHANGED <<fill, inQ, outQ, hostVars>>
      /\ fill \in Buffers
  BY <1>0 DEF StartCommand, udcVars, TypeInv
<1>2. /\ AllEmpty /\ Begun /\ Untouched /\ inQ = <<>> /\ outQ = <<>>
  BY <1>1, FreshIsQuiet
<1>3. NotTooMuch' /\ DataDir' = DataDir
  BY <1>0, <1>1 DEF ReplyInv, NotTooMuch, DataDir, hostVars
<1>4. CASE DataDir # "in"
  BY <1>3, <1>4, ReplyElsewhere
<1>5. CASE DataDir = "in" /\ \E n \in Nat : StartsReply(n)
  <2>1. PICK n \in Nat : StartsReply(n)
    BY <1>5
  <2>2. /\ ToFinish /\ n <= cmd.len /\ OnlyAt(fill)
        /\ common'.residue = cmd.len - n
        /\ bh'[fill].state = "FULL" /\ bh'[fill].data = Units(0, n)
        /\ n > 0 => cmd.op \in {"INQUIRY", "TEST_UNIT_READY"}
    BY <1>5, <2>1 DEF StartsReply
  <2>3. n > 0 => Base = 0
    BY <2>2 DEF Base
  <2>4. CASE kpc' = "finish"
    BY <1>0, <1>1, <1>2, <1>5, <2>2, <2>3, <2>4, ReplyStarted
  <2>5. CASE kpc' # "finish"
    BY <1>3, <2>2, <2>5, ReplyElsewhere DEF ToFinish
  <2> QED
    BY <2>4, <2>5
<1>6. ASSUME DataDir = "in", kpc' = "finish", bh' = bh, EmptyCommands,
             common'.residue = cmd.len
      PROVE  ReplyInv'
  <2>1. AllEmpty' /\ Begun' /\ Untouched' /\ cmd' = cmd
    BY <1>1, <1>2, <1>6 DEF AllEmpty, Begun, Untouched, hostVars, StartCommand
  <2> QED
    BY <1>1, <1>2, <1>6, <2>1, ReplyNothing
<1>7. CASE DataDir = "in" /\ StartsTransfer
  <2>1. /\ cmd.op \in {"READ", "WRITE"} /\ common'.residue = cmd.len /\ bh' = bh
        /\ IF Size = 0 THEN ToFinish
           ELSE kpc' = IF cmd.op = "READ" THEN "read" ELSE "write"
    BY <1>7 DEF StartsTransfer
  <2>2. CASE kpc' = "finish"
    <3>1. Size = 0
      BY <2>1, <2>2
    <3>2. EmptyCommands
      BY <1>0, <1>7, <2>1, <3>1, AskedNothing
    <3> QED
      BY <1>6, <1>7, <2>1, <2>2, <3>2
  <2>3. CASE kpc' = "read"
    BY <1>0, <1>1, <1>2, <1>7, <2>1, <2>3, ReplyReads
  <2>4. CASE kpc' \notin {"finish", "read"}
    <3>1. kpc' # "status"
      BY <2>1 DEF ToFinish
    <3> QED
      BY <1>3, <2>4, <3>1, ReplyElsewhere
  <2> QED
    BY <2>2, <2>3, <2>4
<1>8. CASE DataDir = "in" /\ StartsVerify
  <2>1. /\ cmd.op = "VERIFY" /\ common'.residue = cmd.len /\ bh' = bh
        /\ IF cmd.size = 0 THEN ToFinish ELSE kpc' = "verify"
    BY <1>8 DEF StartsVerify
  <2>2. CASE kpc' = "finish"
    <3>1. cmd.size = 0
      BY <2>1, <2>2
    <3>2. EmptyCommands
      BY <1>0, <1>8, <2>1, <3>1, AskedNothing
    <3> QED
      BY <1>6, <1>8, <2>1, <2>2, <3>2
  <2>3. CASE kpc' # "finish"
    <3>1. kpc' \notin {"read", "finish", "status"}
      BY <2>1, <2>3 DEF ToFinish
    <3> QED
      BY <1>3, <3>1, ReplyElsewhere
  <2> QED
    BY <2>2, <2>3
<1>9. (\E n \in Nat : StartsReply(n)) \/ StartsTransfer \/ StartsVerify
  BY <1>0, StartCommandForm
<1> QED
  BY <1>4, <1>5, <1>7, <1>8, <1>9

\* A part of the reply is read.
LEMMA ReplyReadRound ==
  ASSUME DataInv, ReadRound
  PROVE  ReplyInv'
<1>0. /\ TypeInv /\ QueueInv /\ ControlInv /\ HostInv /\ FileInv /\ RestInv
      /\ FreshInv /\ ReplyInv /\ StatusInv /\ OutInv /\ AmountInv
  BY DEF DataInv
<1>1. /\ kpc = "read" /\ ~Busy(fill)
      /\ UNCHANGED <<drain, outQ, ended, to_req, more, cancelled, state, file,
                     hostVars>>
  BY <1>0, ReadRoundForm
<1>2. UNCHANGED <<cmd, hpc, received>> /\ DataDir' = DataDir /\ NotTooMuch'
  BY <1>0, <1>1 DEF ReplyInv, NotTooMuch, DataDir, hostVars
<1>3. DataDir = "in" /\ ReplyRing /\ fill \in Buffers
  BY <1>0, <1>1, ReadAmounts DEF ReplyInv, TypeInv
<1>4. hpc # "reset" => Ready
  BY <1>0, <1>1, <1>3, ReplyHas DEF Replying
<1>5. CASE state # "NORMAL" /\ kpc' = "cancel"
  BY <1>2, <1>5, ReplyElsewhere
<1>6. CASE \E n \in Nat : ReadEnds(n)
  <2>1. PICK n \in Nat : ReadEnds(n)
    BY <1>6
  <2>2. /\ kpc' = "finish" /\ OnlyAt(fill) /\ bh'[fill].state = "FULL"
        /\ fill' = fill
    BY <2>1 DEF ReadEnds, ReadMoves
  <2>3. ReplyRing'
    BY <1>1, <1>3, <2>2 DEF ReplyRing, OnlyAt, Busy
  <2>4. hpc' # "reset" => Ready'
    BY <1>0, <1>1, <1>2, <1>4, <2>1, ReplyRead
  <2> QED
    BY <1>2, <2>2, <2>3, <2>4, ReplyAgain
<1>7. CASE \E n \in Nat : ReadGoesOn(n)
  <2>1. PICK n \in Nat : ReadGoesOn(n)
    BY <1>7
  <2>2. /\ kpc' = "read" /\ OnlyAt(fill) /\ bh'[fill].state = "SENDING"
    BY <2>1 DEF ReadGoesOn, ReadMoves
  <2>3. ReplyRing'
    BY <1>1, <1>3, <2>2 DEF ReplyRing, OnlyAt
  <2>4. hpc' # "reset" => Ready'
    BY <1>0, <1>1, <1>2, <1>4, <2>1, ReplyReadOn
  <2> QED
    BY <1>2, <2>2, <2>3, <2>4, ReplyAgain
<1> QED
  BY <1>0, <1>5, <1>6, <1>7, ReadRoundForm

\* A command that only verifies has an empty reply.
LEMMA ReplyVerified ==
  ASSUME DataInv, VerifyRound
  PROVE  ReplyInv'
<1>0. /\ TypeInv /\ QueueInv /\ ControlInv /\ HostInv /\ FileInv /\ RestInv
      /\ FreshInv /\ ReplyInv /\ StatusInv /\ OutInv /\ AmountInv
  BY DEF DataInv
<1>1. /\ kpc = "verify"
      /\ UNCHANGED <<fill, drain, inQ, outQ, ended, to_req, more, cancelled,
                     state, file, hostVars>>
  BY <1>0, VerifyRoundForm
<1>2. DataDir' = DataDir /\ NotTooMuch'
  BY <1>0, <1>1 DEF ReplyInv, NotTooMuch, DataDir, hostVars
<1>3. CASE kpc' \in {"cancel", "verify"} \/ DataDir # "in"
  BY <1>2, <1>3, ReplyElsewhere
<1>4. CASE DataDir = "in" /\ \E n \in Nat : VerifyEnds(n)
  <2>1. /\ kpc' = "finish" /\ common'.residue = common.residue /\ OnlyAt(fill)
        /\ bh'[fill].state = "FULL" /\ bh'[fill].data = <<>>
    BY <1>4 DEF VerifyEnds
  <2>2. /\ AllEmpty /\ Begun /\ Untouched /\ inQ = <<>> /\ outQ = <<>>
    BY <1>1, FreshIsQuiet
  <2>3. bh'[fill].data = Units(0, 0) /\ cmd.len \in Nat
    BY <1>0, <2>1, NoUnits, SizeIs
  <2>4. common'.residue = cmd.len - 0 /\ 0 <= cmd.len
    BY <1>0, <1>1, <2>1, <2>3 DEF AmountInv
  <2>5. UNCHANGED <<fill, inQ, outQ, hostVars>> /\ 0 \in Nat
    BY <1>1
  <2>6. 0 > 0 => Base = 0
    OBVIOUS
  <2> QED
    BY <1>0, <1>4, <2>1, <2>2, <2>3, <2>4, <2>5, <2>6, ReplyStarted
<1> QED
  BY <1>0, <1>3, <1>4, VerifyRoundForm DEF VerifyGoesOn

\* A transfer ends, while a reply is put together.
LEMMA ReplyComplete ==
  ASSUME DataInv, Complete
  PROVE  ReplyInv'
<1>0. /\ TypeInv /\ QueueInv /\ ControlInv /\ HostInv /\ FileInv /\ RestInv
      /\ FreshInv /\ ReplyInv /\ StatusInv /\ OutInv /\ AmountInv
  BY DEF DataInv
<1>1. PICK b0 \in Buffers :
        /\ Busy(b0) /\ ~IsIn(b0, inQ) /\ OnlyAt(b0)
        /\ bh[b0].state = "SENDING" => bh'[b0].state = "EMPTY"
  BY <1>0, CompleteKeeps
<1>2. /\ UNCHANGED <<fill, inQ, outQ, kpc, common, file, hpc, cmd, sent, received,
                     stopped>>
      /\ KeepsQueue(Len(inQ)) /\ fill \in Buffers
  BY <1>0, CompleteKeeps DEF hostVars, TypeInv
<1>3. DataDir' = DataDir /\ NotTooMuch' /\ Base' = Base
  BY <1>0, <1>2 DEF ReplyInv, NotTooMuch, DataDir, Base
<1>4. CASE kpc \notin {"read", "finish", "status"} \/ DataDir # "in"
  BY <1>2, <1>3, <1>4, ReplyElsewhere
<1>5. CASE kpc \in {"read", "finish", "status"} /\ DataDir = "in"
  <2>1. ReplyRing
    BY <1>0, <1>5 DEF ReplyInv
  <2>2. bh[b0].state = "SENDING"
    BY <1>1, <2>1 DEF ReplyRing, Busy
  <2>3. kpc = "finish" => b0 # fill /\ bh'[fill] = bh[fill]
    BY <1>1, <1>2, <2>1 DEF ReplyRing, OnlyAt
  <2>4. ReplyRing'
    BY <1>1, <1>2, <2>1, <2>2, <2>3 DEF ReplyRing, OnlyAt, Busy
  <2>5. CASE kpc = "status"
    BY <1>2, <1>3, <2>4, <2>5 DEF ReplyInv, NotTooMuch
  <2>6. CASE kpc = "read" \/ (kpc = "finish" /\ bh[fill].state = "FULL")
    <3>1. hpc' # "reset" => Ready'
      <4> SUFFICES ASSUME hpc # "reset" PROVE Ready'
        BY <1>2
      <4>1. Ready
        BY <1>0, <1>5, <2>6, ReplyHas DEF Replying
      <4>2. PICK m \in Nat : m = Len(inQ)
        BY <1>0, LenProperties DEF QueueInv
      <4>3. PICK g \in [0 .. m -> Nat] : ReadyAt(g)
        BY <4>1, <4>2 DEF Ready
      <4>4. Flow(g, m)' /\ InOrder(g, m)' /\ \A j \in 1 .. m : Going(g, j)'
        BY <1>2, <4>2, <4>3, FlowKept DEF ReadyAt
      <4>5. Pending' = Pending /\ Moved' = Moved
        BY <1>2, <2>3 DEF Pending, Moved
      <4>6. /\ g[m] + Pending = Moved
            /\ kpc = "finish" => bh[fill].data = Units(Base + g[m], Pending)
        BY <4>2, <4>3 DEF ReadyAt
      <4>7. kpc' = "finish" => bh'[fill'].data = Units(Base' + g[m], Pending')
        BY <1>2, <1>3, <2>3, <4>5, <4>6
      <4>8. hpc' = "in" /\ m = Len(inQ') /\ g[m] + Pending' = Moved'
        BY <1>2, <4>1, <4>2, <4>5, <4>6 DEF Ready
      <4> QED
        BY <4>4, <4>7, <4>8, ReadyAgain
    <3> QED
      BY <1>2, <1>3, <2>3, <2>4, <2>6, <3>1, ReplyAgain
  <2>7. CASE kpc = "finish" /\ bh[fill].state # "FULL"
    <3>1. AllEmpty
      BY <1>0, <1>5, <2>7 DEF ReplyInv
    <3> QED
      BY <1>1, <3>1, EmptyIsIdle
  <2> QED
    BY <1>5, <2>5, <2>6, <2>7
<1> QED
  BY <1>4, <1>5

\* The host takes a part of the reply.
LEMMA ReplyReceived ==
  ASSUME DataInv, HostReceive
  PROVE  ReplyInv'
<1>0. /\ TypeInv /\ QueueInv /\ ControlInv /\ HostInv /\ FileInv /\ RestInv
      /\ FreshInv /\ ReplyInv /\ StatusInv /\ OutInv /\ AmountInv
  BY DEF DataInv
<1>1. /\ hpc = "in" /\ inQ # <<>> /\ inQ' = Tail(inQ)
      /\ received' = received \o bh[Head(inQ)].data
      /\ UNCHANGED <<bh, fill, outQ, kpc, common, cmd>>
      /\ hpc' = IF \/ bh[Head(inQ)].zero \/ Len(bh[Head(inQ)].data) = 0
                   \/ Len(bh[Head(inQ)].data) % BlockLen > 0
                   \/ Len(received') >= cmd.len
                THEN "status" ELSE "in"
  BY DEF HostReceive, EndIn, ringVars
<1>2. /\ DataDir = "in" /\ DataDir' = DataDir /\ Base' = Base
      /\ Pending' = Pending /\ Moved' = Moved
  BY <1>0, <1>1 DEF HostInv, DataDir, Base, Pending, Moved
<1>3. PICK l \in Nat : l = Len(inQ) /\ l > 0 /\ Len(inQ') = l - 1
                       /\ Head(inQ) = inQ[1]
  BY <1>0, <1>1, InTail DEF QueueInv
<1>4. ReplyRing => ReplyRing'
  BY <1>1 DEF ReplyRing, Busy
<1>5. CASE kpc \in {"next", "cbw"}
  <2>1. kpc = "next" \/ Asked
    BY <1>1, <1>5, WhenTaken
  <2>2. PICK t \in Told : Replied(l - 1, t.residue)
    BY <1>0, <1>1, <1>2, <1>3, <2>1 DEF StatusInv, AnsweredInv, Answered
  <2>3. PICK r \in Nat : r = t.residue
    BY DEF Told
  <2>4. l - 1 \in 1 .. Len(inQ)
    <3>1. hpc = IF l - 1 > 0 THEN "in" ELSE "status"
      BY <2>2 DEF Replied
    <3> QED
      BY <1>1, <1>3, <3>1
  <2>5. NotTooMuch'
    BY <1>0, <2>2, <2>3, <2>4, RepliedTaken
  <2> QED
    BY <1>1, <1>5, <2>5, ReplyElsewhere
<1>6. CASE kpc = "status"
  <2>1. PICK r \in Nat : r = common.residue
    BY <1>0 DEF TypeInv, Commons
  <2>2. Replied(l, r) /\ l \in 1 .. Len(inQ)
    BY <1>0, <1>1, <1>2, <1>3, <1>6, <2>1 DEF StatusInv, RepliedInv
  <2>3. NotTooMuch'
    BY <1>0, <2>2, RepliedTaken
  <2>4. ReplyRing'
    BY <1>0, <1>2, <1>4, <1>6 DEF ReplyInv
  <2> QED
    BY <1>1, <1>6, <2>3, <2>4 DEF ReplyInv, NotTooMuch
<1>7. CASE kpc = "read" \/ (kpc = "finish" /\ bh[fill].state = "FULL")
  <2>1. Ready
    BY <1>0, <1>1, <1>2, <1>7, ReplyHas DEF Replying
  <2>2. PICK g \in [0 .. l -> Nat] : ReadyAt(g)
    BY <1>3, <2>1 DEF Ready
  <2>3. /\ Flow(g, l) /\ InOrder(g, l) /\ \A j \in 1 .. l : Going(g, j)
        /\ g[l] + Pending = Moved
        /\ kpc = "finish" => bh[fill].data = Units(Base + g[l], Pending)
    BY <1>3, <2>2 DEF ReadyAt
  <2>4. ReplyShifts(g, l) /\ Len(received') = g[1] /\ l \in 1 .. Len(inQ)
    <3>1. l \in 1 .. Len(inQ)
      BY <1>3
    <3> QED
      BY <1>0, <1>1, <1>3, <2>3, <3>1, ReplyTaken
  <2>5. PICK g2 \in [0 .. l - 1 -> Nat] :
          /\ \A j \in 0 .. l - 1 : g2[j] = g[j + 1]
          /\ Flow(g2, l - 1)'
          /\ InOrder(g, l) => InOrder(g2, l - 1)'
          /\ \A j \in 1 .. l - 1 : Going(g, j + 1) => Going(g2, j)'
    BY <2>4 DEF ReplyShifts
  <2>6. \A j \in 1 .. l - 1 : Going(g2, j)'
    <3> SUFFICES ASSUME NEW j \in 1 .. l - 1 PROVE Going(g2, j)'
      OBVIOUS
    <3>1. j + 1 \in 1 .. l
      BY <1>3
    <3> QED
      BY <2>3, <2>5, <3>1
  <2>7. g2[l - 1] = g[l]
    <3>1. l - 1 \in 0 .. l - 1 /\ l - 1 + 1 = l
      BY <1>3
    <3> QED
      BY <2>5, <3>1
  <2>8. PICK a, b \in Nat : a = g[0] /\ b = g[1]
    <3>1. 0 \in 0 .. l /\ 1 \in 0 .. l
      BY <1>3
    <3> QED
      BY <3>1
  <2>9. /\ ~bh[Head(inQ)].zero /\ a < b /\ b < cmd.len
        /\ (b - a) % BlockLen = 0 /\ Len(bh[Head(inQ)].data) = b - a
    <3>1. 1 \in 1 .. l /\ 1 - 1 = 0
      BY <1>3
    <3>2. Going(g, 1)
      BY <2>3, <3>1
    <3>3. Len(bh[inQ[1]].data) = g[1] - g[0]
      BY <2>3, <3>1 DEF Flow
    <3> QED
      BY <1>3, <2>8, <3>1, <3>2, <3>3 DEF Going
  <2>10. hpc' = "in" /\ NotTooMuch'
    <3>1. b - a # 0 /\ ~(b >= cmd.len) /\ b <= cmd.len
      BY <1>0, <2>9, SizeIs, SMTT(30)
    <3> QED
      BY <1>1, <2>4, <2>8, <2>9, <3>1, SMTT(30) DEF NotTooMuch
  <2>11. Ready'
    <3>1. l - 1 \in Nat /\ l - 1 = Len(inQ')
      BY <1>3
    <3>2. /\ g2[l - 1] + Pending' = Moved'
          /\ kpc' = "finish" =>
               bh'[fill'].data = Units(Base' + g2[l - 1], Pending')
      BY <1>1, <1>2, <2>3, <2>7
    <3> QED
      BY <2>3, <2>5, <2>6, <2>10, <3>1, <3>2, ReadyAgain
  <2>12. ReplyRing'
    BY <1>0, <1>2, <1>4, <1>7 DEF ReplyInv
  <2> QED
    BY <1>1, <1>7, <2>10, <2>11, <2>12, ReplyAgain
<1>8. CASE kpc = "finish" /\ bh[fill].state # "FULL"
  <2>1. AllEmpty
    BY <1>0, <1>2, <1>8 DEF ReplyInv
  <2> QED
    BY <1>0, <1>1, <2>1, EmptyIsIdle, NothingQueued
<1> QED
  BY <1>1, <1>2, <1>5, <1>6, <1>7, <1>8, WhenTaken DEF Asked

\* Every step keeps the reply in order.
LEMMA ReplyStep ==
  ASSUME DataInv, Next
  PROVE  ReplyInv'
<1>0. /\ TypeInv /\ QueueInv /\ ControlInv /\ HostInv /\ FileInv /\ RestInv
      /\ FreshInv /\ ReplyInv /\ StatusInv /\ OutInv /\ AmountInv
  BY DEF DataInv
<1>1. ASSUME UNCHANGED <<cmd, received>>
      PROVE  NotTooMuch' /\ DataDir' = DataDir
  BY <1>0, <1>1 DEF ReplyInv, NotTooMuch, DataDir
<1>2. CASE AskForCbw \/ ReceivedCbw \/ SendStatus \/ Interrupted \/ CancelTransfer
  <2>1. /\ kpc' \notin {"read", "finish", "status"}
        /\ UNCHANGED <<cmd, received>>
    BY <1>2 DEF AskForCbw, ReceivedCbw, SendStatus, Interrupted,
       CancelTransfer, Unless, hostVars
  <2> QED
    BY <1>1, <2>1, ReplyElsewhere
<1>3. CASE WriteRequest \/ WriteWaits \/ WriteStopsEarly \/ WriteRound \/
           ThrowAwayRequest \/ ThrowAwayWaits \/ ThrowAway \/ AllThrownAway
  <2>1. Taking /\ UNCHANGED <<cmd, received>>
    BY <1>3 DEF Taking, WriteRequest, WriteWaits, WriteStopsEarly, WriteRound,
       ThrowAwayRequest, ThrowAwayWaits, ThrowAway, AllThrownAway, hostVars
  <2>2. DataDir = "out"
    BY <1>0, <2>1, OutHas
  <2> QED
    BY <1>1, <2>1, <2>2, ReplyElsewhere
<1>4. CASE StartCommand
  BY <1>4, ReplyCommand
<1>5. CASE ReadRound
  BY <1>5, ReplyReadRound
<1>6. CASE VerifyRound
  BY <1>6, ReplyVerified
<1>7. CASE FinishReply
  <2>1. /\ UNCHANGED <<cmd, received, outQ>> /\ kpc = "finish"
    BY <1>7 DEF FinishReply, hostVars
  <2>2. CASE DataDir # "in"
    BY <1>1, <2>1, <2>2, ReplyElsewhere
  <2>3. CASE DataDir = "in"
    <3>1. SendLastBuffer /\ Unless("status")
      BY <1>7, <2>3 DEF FinishReply
    <3>2. /\ fill' = NextOf(fill) /\ OnlyAt(fill) /\ bh'[fill].state = "SENDING"
      BY <1>0, <3>1, SendLastForm
    <3>3. ReplyRing
      BY <1>0, <2>1, <2>3 DEF ReplyInv
    <3>4. kpc' \in {"status", "cancel"}
      BY <3>1 DEF Unless
    <3>5. ReplyRing'
      BY <2>1, <3>2, <3>3, <3>4 DEF ReplyRing, OnlyAt
    <3> QED
      BY <1>1, <2>1, <3>4, <3>5 DEF ReplyInv, NotTooMuch
  <2> QED
    BY <2>2, <2>3
<1>8. CASE ResetRing
  <2>1. CASE kpc' = "status" /\ UNCHANGED hostVars
    <3>1. outQ = <<>> /\ outQ' = outQ /\ \A b \in Buffers : bh'[b] = Free
      <4>1. \A b \in Buffers : ~Busy(b)
        <5>1. \A b \in Buffers : b < NumBuffers
          BY ConstantsAre DEF Buffers
        <5> QED
          BY <1>0, <1>8, <5>1 DEF ResetRing, ControlInv
      <4> QED
        BY <1>0, <1>8, <4>1, NothingQueued DEF ResetRing, udcVars
    <3>2. ReplyRing'
      BY <2>1, <3>1, FreeIs DEF ReplyRing
    <3> QED
      BY <1>1, <2>1, <3>2 DEF ReplyInv, NotTooMuch, hostVars
  <2>2. CASE kpc' = "next" /\ HostIsIdle
    <3>1. received' = <<>> /\ cmd'.len = 0
      BY <1>0, <2>2, HostIsIdleIs
    <3>2. NotTooMuch'
      BY <3>1, EmptySeq DEF NotTooMuch
    <3> QED
      BY <2>2, <3>2, ReplyElsewhere
  <2> QED
    BY <1>8, <2>1, <2>2 DEF ResetRing
<1>9. CASE Complete
  BY <1>9, ReplyComplete
<1>10. CASE HostCbw
  <2>1. hpc = "idle" /\ kpc' = kpc /\ received' = received
    BY <1>10 DEF HostCbw
  <2>2. kpc \in {"next", "cbw"} /\ received = <<>>
    BY <2>1, WhenIdle DEF Asked, Untouched
  <2>3. NotTooMuch'
    <3>1. PICK c \in HostCommands : cmd' = c
      BY <1>10 DEF HostCbw
    <3>2. c.len \in Nat
      BY HostCommandIs
    <3> QED
      BY <2>1, <2>2, <3>1, <3>2, EmptySeq DEF NotTooMuch
  <2> QED
    BY <2>1, <2>2, <2>3, ReplyElsewhere
<1>11. CASE HostSend \/ HostStops
  <2>1. hpc = "out" /\ UNCHANGED <<cmd, received>>
    BY <1>11 DEF HostSend, HostStops, HostSendUnits
  <2>2. DataDir = "out"
    BY <1>0, <2>1 DEF HostInv
  <2> QED
    BY <1>1, <2>1, <2>2, ReplyElsewhere
<1>12. CASE HostReceive
  BY <1>12, ReplyReceived
<1>13. CASE HostStatus
  <2>1. hpc = "status" /\ inQ # <<>> /\ HostIsIdle /\ kpc' = kpc
    BY <1>13 DEF HostStatus
  <2>2. kpc \in {"next", "cbw"}
    BY <2>1, WhenAnswered DEF Asked
  <2>3. received' = <<>> /\ cmd'.len = 0
    BY <1>0, <2>1, HostIsIdleIs
  <2>4. NotTooMuch'
    BY <2>3, EmptySeq DEF NotTooMuch
  <2> QED
    BY <2>1, <2>2, <2>4, ReplyElsewhere
<1>14. CASE HostReset
  <2>1. /\ hpc' = "reset" /\ UNCHANGED <<bh, fill, inQ, outQ, kpc, common, file,
                                         cmd, sent, received, stopped>>
    BY <1>14 DEF HostReset, ringVars, udcVars
  <2>2. /\ ReplyRing' = ReplyRing /\ AllEmpty' = AllEmpty
        /\ Untouched' = Untouched /\ Begun' /\ DataDir' = DataDir
    BY <2>1 DEF ReplyRing, AllEmpty, Untouched, Begun, DataDir, Busy
  <2> QED
    BY <1>0, <2>1, <2>2 DEF ReplyInv
<1> QED
  BY <1>2, <1>3, <1>4, <1>5, <1>6, <1>7, <1>8, <1>9, <1>10, <1>11, <1>12,
     <1>13, <1>14 DEF Next, Kthread
-----------------------------------------------------------------------------
(* What the CSW tells.                                                     *)

\* The status that send_status would send.
Due == kpc \in {"finish", "throw", "toss", "status"} \/ state = "ABORT_BULK_OUT"

OutcomeNow == Outcome(common.residue, Csw.status)

\* An outcome stays so, when no more is written.
LEMMA OutcomeSame ==
  ASSUME NEW r \in Nat, NEW s, Outcome(r, s), UNCHANGED <<cmd, file>>,
         stopped => stopped'
  PROVE  Outcome(r, s)'
<1>1. DataDir' = DataDir
  BY DEF DataDir
<1> QED
  BY <1>1 DEF Outcome

\* The CSW, after a step that keeps what it is made of.
LEMMA CswSame ==
  ASSUME TypeInv, common'.residue = common.residue, common'.tag = common.tag,
         common'.sense <=> common.sense, common'.phase_error <=> common.phase_error
  PROVE  Csw' = Csw
BY DEF Csw

\* What the CSW will tell, after a step that changes nothing it is about.
LEMMA OutcomeKept ==
  ASSUME TypeInv, OutcomeInv, UNCHANGED <<cmd, file>>, stopped => stopped',
         common'.residue = common.residue, common'.tag = common.tag,
         common'.sense <=> common.sense, common'.phase_error <=> common.phase_error,
         Due' => Due, hpc' # "reset" => hpc # "reset"
  PROVE  OutcomeInv'
<1>1. Csw' = Csw
  BY CswSame
<1>2. PICK r \in Nat : r = common.residue
  BY DEF TypeInv, Commons
<1>3. PICK s : s = Csw.status
  OBVIOUS
<1>4. SUFFICES ASSUME Due, hpc # "reset"
               PROVE  OutcomeNow'
  BY DEF OutcomeInv, OutcomeNow, Due
<1>5. Outcome(r, s)
  BY <1>2, <1>3, <1>4 DEF OutcomeInv, Due
<1>6. Outcome(r, s)'
  BY <1>5, OutcomeSame
<1>7. r = common'.residue /\ s = Csw'.status
  BY <1>1, <1>2, <1>3
<1> QED
  BY <1>6, <1>7 DEF OutcomeNow, Outcome

\* What a new outcome, of n units moved, must be.
LEMMA OutcomeAgain ==
  ASSUME TypeInv, TypeInv', cmd' = cmd, NEW n \in Nat, n <= cmd.len,
         common'.residue = cmd.len - n,
         DataDir # "in" => \A i \in 0 .. n - 1 :
             cmd.start + i < FileLen /\ file'[cmd.start + i] = i,
         ~common'.phase_error /\ ~common'.sense =>
             /\ cmd.op \in {"READ", "WRITE"} /\ cmd.size < U32 /\ ~stopped' =>
                  n = AtMost(cmd.size, FileLen - cmd.start)
             /\ cmd.op \in {"READ", "VERIFY"} /\ cmd.size < U32 =>
                  cmd.start + cmd.size <= FileLen
  PROVE  OutcomeInv'
<1>1. PICK r \in Nat : r = common'.residue
  BY DEF TypeInv, Commons
<1>2. PICK s : s = Csw'.status
  OBVIOUS
<1>3. s = "OK" => ~common'.phase_error /\ ~common'.sense
  BY <1>2 DEF Csw
<1>4. PICK l \in Nat : l = cmd.len
  BY SizeIs
<1>5. r = l - n
  BY <1>1, <1>4
<1>6. l - r = n /\ n \in 0 .. l
  BY <1>4, <1>5
<1>7. DataDir' = DataDir /\ DOMAIN file' = 0 .. FileLen - 1
  BY DEF DataDir, TypeInv
<1>8. Outcome(r, s)'
  <2>1. (cmd.len - r) = n /\ n \in 0 .. cmd.len
    BY <1>4, <1>6
  <2>2. DataDir' # "in" => \A i \in 0 .. n - 1 :
            cmd.start + i \in DOMAIN file' /\ file'[cmd.start + i] = i
    <3>1. SUFFICES ASSUME DataDir # "in", NEW i \in 0 .. n - 1
                   PROVE  cmd.start + i \in DOMAIN file' /\ file'[cmd.start + i] = i
      BY <1>7
    <3>2. cmd.start \in Nat /\ FileLen \in Nat
      BY SizeIs, ConstantsAre
    <3>3. cmd.start + i < FileLen /\ file'[cmd.start + i] = i
      BY <3>1
    <3>4. cmd.start + i \in 0 .. FileLen - 1
      BY <3>2, <3>3
    <3> QED
      BY <1>7, <3>3, <3>4
  <2>3. s = "OK" /\ cmd.op \in {"READ", "WRITE"} /\ cmd.size < U32 /\ ~stopped'
        => n = AtMost(cmd.size, FileLen - cmd.start)
    BY <1>3
  <2>4. s = "OK" /\ cmd.op \in {"READ", "VERIFY"} /\ cmd.size < U32
        => cmd.start + cmd.size <= FileLen
    BY <1>3
  <2> QED
    BY <2>1, <2>2, <2>3, <2>4 DEF Outcome
<1> QED
  BY <1>1, <1>2, <1>8 DEF OutcomeInv, Outcome

\* Nothing has moved.
LEMMA OutcomeNothing ==
  ASSUME TypeInv, TypeInv', cmd' = cmd, common'.residue = cmd.len,
         ~common'.phase_error /\ ~common'.sense =>
             /\ cmd.op \in {"READ", "WRITE"} /\ cmd.size < U32 /\ ~stopped' =>
                  AtMost(cmd.size, FileLen - cmd.start) = 0
             /\ cmd.op \in {"READ", "VERIFY"} /\ cmd.size < U32 =>
                  cmd.start + cmd.size <= FileLen
  PROVE  OutcomeInv'
<1>1. common'.residue = cmd.len - 0 /\ 0 <= cmd.len
  BY SizeIs
<1>2. \A i \in 0 .. 0 - 1 : cmd.start + i < FileLen /\ file'[cmd.start + i] = i
  OBVIOUS
<1> QED
  BY <1>1, <1>2, OutcomeAgain

\* A command starts.
LEMMA OutcomeStarts ==
  ASSUME DataInv, TypeInv', StartCommand
  PROVE  OutcomeInv'
<1>0. TypeInv /\ ControlInv /\ cmd.len \in Nat /\ cmd.start \in Nat /\ cmd.size \in Nat
      /\ FileLen \in Nat /\ U32 \in Nat
  BY SizeIs, ConstantsAre DEF DataInv
<1>1. CASE \E n \in Nat : StartsReply(n)
  <2>1. PICK n \in Nat : StartsReply(n)
    BY <1>1
  <2>2. cmd' = cmd
    BY <2>1 DEF StartsReply, Started, hostVars
  <2>3. Conflicting => common'.phase_error
    BY <2>1 DEF StartsReply, Started
  <2>4. ~common'.phase_error /\ ~common'.sense =>
            cmd.op \notin {"READ", "WRITE", "VERIFY"}
    BY <2>1, <2>3 DEF StartsReply
  <2>5. CASE DataDir = "in"
    <3>1. common'.residue = cmd.len - n /\ n <= cmd.len
      BY <2>1, <2>5 DEF StartsReply
    <3> QED
      BY <1>0, <2>2, <2>4, <2>5, <3>1, OutcomeAgain
  <2>6. CASE DataDir # "in"
    <3>1. common'.residue = cmd.len
      BY <2>1, <2>6 DEF StartsReply
    <3> QED
      BY <1>0, <2>2, <2>4, <3>1, OutcomeNothing
  <2> QED
    BY <2>5, <2>6
<1>2. CASE StartsTransfer
  <2>1. CASE Size # 0
    <3>1. kpc' \in {"read", "write"} /\ state' = state
      BY <1>2, <2>1 DEF StartsTransfer, Started
    <3>2. state # "ABORT_BULK_OUT"
      BY <1>0, <1>2 DEF StartsTransfer, Started, ControlInv
    <3> QED
      BY <3>1, <3>2 DEF OutcomeInv
  <2>2. CASE Size = 0
    <3>1. cmd' = cmd /\ common'.residue = cmd.len
      BY <1>2 DEF StartsTransfer, Started, hostVars
    <3>2. ~common'.phase_error => Size = CdbSize(cmd)
      <4>1. ~common'.phase_error => ~(cmd.len < CdbSize(cmd))
        BY <1>2, Zenon DEF StartsTransfer, Started
      <4> QED
        BY <1>0, <4>1, SizeIs
    <3>3. ~common'.phase_error /\ cmd.size < U32 => cmd.size = 0
      BY <1>0, <1>2, <2>2, <3>2, SizeIs DEF StartsTransfer
    <3>4. cmd.start < FileLen
      BY <1>2 DEF StartsTransfer
    <3>5. cmd.size = 0 => AtMost(cmd.size, FileLen - cmd.start) = 0
                          /\ cmd.start + cmd.size <= FileLen
      BY <1>0, <3>4 DEF AtMost
    <3> QED
      BY <1>0, <3>1, <3>3, <3>5, OutcomeNothing
  <2> QED
    BY <2>1, <2>2
<1>3. CASE StartsVerify
  <2>1. CASE cmd.size # 0
    <3>1. kpc' = "verify" /\ state' = state
      BY <1>3, <2>1 DEF StartsVerify, Started
    <3>2. state # "ABORT_BULK_OUT"
      BY <1>0, <1>3 DEF StartsVerify, Started, ControlInv
    <3> QED
      BY <3>1, <3>2 DEF OutcomeInv
  <2>2. CASE cmd.size = 0
    <3>1. cmd' = cmd /\ common'.residue = cmd.len /\ cmd.op = "VERIFY"
          /\ cmd.start < FileLen
      BY <1>3 DEF StartsVerify, Started, hostVars
    <3>2. cmd.start + cmd.size <= FileLen
      BY <1>0, <2>2, <3>1
    <3> QED
      BY <1>0, <3>1, <3>2, OutcomeNothing
  <2> QED
    BY <2>1, <2>2
<1> QED
  BY <1>0, <1>1, <1>2, <1>3, StartCommandForm

\* do_read ends.
LEMMA OutcomeRead ==
  ASSUME DataInv, TypeInv', ReadRound
  PROVE  OutcomeInv'
<1>0. TypeInv /\ AmountInv /\ HostInv /\ ControlInv
  BY DEF DataInv
<1>1. kpc = "read" /\ UNCHANGED <<state, file, hostVars>>
  BY <1>0, ReadRoundForm
<1>2. state # "ABORT_BULK_OUT"
  BY <1>0, <1>1 DEF ControlInv
<1>3. CASE \E n \in Nat : ReadEnds(n)
  <2>1. PICK n \in Nat : ReadEnds(n)
    BY <1>3
  <2>2. /\ n <= left /\ FileOffset + n <= FileLen
        /\ common'.residue = common.residue - n
        /\ common'.phase_error = common.phase_error
        /\ (~common'.sense => n = left)
    BY <2>1 DEF ReadEnds, ReadMoves
  <2>3. /\ DataDir = "in" /\ left <= Size /\ Size <= cmd.len /\ left \in Nat
        /\ FileOffset = Base + Moved /\ Moved = Size - left
        /\ common.residue = cmd.len - Size + left
        /\ cmd.op = "READ"
    BY <1>0, <1>1, ReadAmounts
  <2>4. FileOffset = cmd.start + Size - left
    BY <2>3, SizeIs, <1>0 DEF Base
  <2>5. PICK m \in Nat : m = Size - left + n /\ m <= cmd.len
                         /\ common'.residue = cmd.len - m
    BY <2>2, <2>3, <1>0, SizeIs
  <2>6. cmd' = cmd
    BY <1>1 DEF hostVars
  <2>7. ~common'.phase_error => ~(cmd.len < CdbSize(cmd))
    BY <1>0, <1>1, <2>2, Zenon DEF AmountInv
  <2>8. ASSUME ~common'.phase_error, ~common'.sense, cmd.size < U32
        PROVE  m = AtMost(cmd.size, FileLen - cmd.start)
               /\ cmd.start + cmd.size <= FileLen
    <3>1. n = left /\ Size = CdbSize(cmd) /\ CdbSize(cmd) = cmd.size
      BY <1>0, <2>2, <2>3, <2>7, <2>8, SizeIs
    <3>2. m = cmd.size
      BY <1>0, <2>3, <2>5, <3>1, SizeIs
    <3>3. cmd.start + cmd.size <= FileLen
      BY <1>0, <2>2, <2>3, <2>4, <3>1, SizeIs, ConstantsAre
    <3> QED
      BY <1>0, <3>2, <3>3, SizeIs, ConstantsAre DEF AtMost
  <2> QED
    BY <1>0, <2>3, <2>5, <2>6, <2>8, OutcomeAgain
<1>4. CASE kpc' \in {"read", "cancel"}
  BY <1>1, <1>2, <1>4 DEF OutcomeInv
<1> QED
  BY <1>0, <1>3, <1>4, ReadRoundForm DEF ReadGoesOn

\* do_verify ends.
LEMMA OutcomeVerified ==
  ASSUME DataInv, TypeInv', VerifyRound
  PROVE  OutcomeInv'
<1>0. TypeInv /\ AmountInv /\ ControlInv
  BY DEF DataInv
<1>1. kpc = "verify" /\ UNCHANGED <<state, file, hostVars>>
  BY <1>0, VerifyRoundForm
<1>2. state # "ABORT_BULK_OUT"
  BY <1>0, <1>1 DEF ControlInv
<1>3. CASE \E n \in Nat : VerifyEnds(n)
  <2>1. PICK n \in Nat : VerifyEnds(n)
    BY <1>3
  <2>2. /\ n <= left /\ VerifyOffset + n <= FileLen
        /\ common'.residue = common.residue
        /\ (~common'.sense => n = left)
    BY <2>1 DEF VerifyEnds, VerifyMoves
  <2>3. cmd.op = "VERIFY" /\ common.residue = cmd.len
    BY <1>0, <1>1 DEF AmountInv
  <2>4. ~common'.sense => cmd.start + cmd.size <= FileLen
    BY <1>0, <2>2, SizeIs, ConstantsAre, SMTT(30) DEF VerifyOffset, TypeInv
  <2>5. cmd' = cmd
    BY <1>1 DEF hostVars
  <2> QED
    BY <1>0, <2>2, <2>3, <2>4, <2>5, OutcomeNothing
<1>4. CASE kpc' \in {"verify", "cancel"}
  BY <1>1, <1>2, <1>4 DEF OutcomeInv
<1> QED
  BY <1>0, <1>3, <1>4, VerifyRoundForm DEF VerifyGoesOn

\* do_write has taken all that it asked for.
LEMMA OutcomeStops ==
  ASSUME DataInv, TypeInv', WriteStopsEarly
  PROVE  OutcomeInv'
<1>0. TypeInv /\ AmountInv /\ ControlInv /\ OutInv
  BY DEF DataInv
<1>1. /\ kpc = "write" /\ bh[drain].state = "EMPTY" /\ ~more
      /\ UNCHANGED <<common, file, cmd, state, stopped>>
  BY DEF WriteStopsEarly, hostVars
<1>2. /\ common.residue = cmd.len - Size + left /\ left <= Size
      /\ cmd.start + Size - left <= FileLen /\ cmd.op = "WRITE"
      /\ common.size = Size
  BY <1>0, <1>1, WriteAmounts
<1>3. PICK m \in Nat : m = Size - left /\ m <= cmd.len
                       /\ common.residue = cmd.len - m
  <2>1. Size \in Nat /\ left \in Nat /\ cmd.len \in Nat /\ Size <= cmd.len
    BY <1>0, SizeIs DEF TypeInv
  <2>2. Size - left \in Nat /\ Size - left <= cmd.len
        /\ cmd.len - Size + left = cmd.len - (Size - left)
    BY <1>2, <2>1
  <2> QED
    BY <1>2, <2>2
<1>4. \A i \in 0 .. m - 1 : cmd.start + i < FileLen /\ file[cmd.start + i] = i
  <2>1. \A i \in 0 .. m - 1 : file[cmd.start + i] = i
    BY <1>0, <1>1, <1>3 DEF AmountInv
  <2>2. cmd.start + m <= FileLen /\ cmd.start \in Nat /\ FileLen \in Nat
    BY <1>0, <1>2, <1>3, SizeIs, ConstantsAre DEF TypeInv
  <2> QED
    BY <2>1, <2>2
<1>5. PICK k \in 0 .. NumBuffers : \E f \in [0 .. k -> Nat] : OutAt(k, f)
  BY <1>0, <1>1, OutHas DEF Taking
<1>6. PICK f \in [0 .. k -> Nat] : OutAt(k, f)
  BY <1>5
<1>7. k = 0
  <2>1. Slot(drain, 0) = drain
    BY <1>0, SlotIs DEF TypeInv
  <2>2. k > 0 => bh[Slot(drain, 0)].state \in {"RECEIVING", "FULL"}
    BY <1>6, ConstantsAre DEF OutAt, Ring
  <2> QED
    BY <1>1, <2>1, <2>2, ConstantsAre
<1>8. Writing(k, f)
  BY <1>1, <1>6 DEF OutAt
<1>9. ASSUME ~common.phase_error, ~common.sense, cmd.size < U32, ~stopped
      PROVE  m = AtMost(cmd.size, FileLen - cmd.start)
  <2>1. ~(cmd.len < CdbSize(cmd))
    BY <1>0, <1>1, <1>9, Zenon DEF AmountInv
  <2>2. Size = cmd.size
    BY <1>0, <1>2, <1>9, <2>1, SizeIs
  <2>3. to_req = 0
    BY <1>0, <1>1, <1>8, <1>9, SMTT(30) DEF Writing, TypeInv
  <2>4. common.size - left = AtMost(cmd.size, FileLen - cmd.start)
    BY <1>2, <1>7, <1>8, <1>9, <2>2, <2>3 DEF Writing
  <2> QED
    BY <1>2, <1>3, <2>4
<1>10. cmd' = cmd /\ common' = common /\ file' = file /\ stopped' = stopped
  BY <1>1
<1>11. common'.residue = cmd.len - m
  BY <1>3, <1>10
<1>12. \A i \in 0 .. m - 1 : cmd.start + i < FileLen /\ file'[cmd.start + i] = i
  BY <1>4, <1>10
<1>13. ~common'.phase_error /\ ~common'.sense /\ cmd.size < U32 /\ ~stopped'
       => m = AtMost(cmd.size, FileLen - cmd.start)
  BY <1>9, <1>10
<1> QED
  BY <1>0, <1>2, <1>3, <1>10, <1>11, <1>12, <1>13, OutcomeAgain

\* do_write ends with what it took from a buffer.
LEMMA OutcomeWrote ==
  ASSUME DataInv, TypeInv', WriteRound
  PROVE  OutcomeInv'
<1>0. TypeInv /\ QueueInv /\ AmountInv /\ ControlInv /\ OutInv
  BY DEF DataInv
<1>1. PICK a \in Nat, n \in Nat : WroteFrom(a, n)
  BY <1>0, WriteRoundIs
<1>2. PICK put \in Nat, nw \in Nat : WriteMoves(a, n, put, nw)
  BY <1>1 DEF WroteFrom
<1>3. /\ kpc = "drain" /\ UNCHANGED <<cmd, state, stopped>> /\ a = Size - left
      /\ (~stopped => n = bh[drain].intended)
  BY <1>1 DEF WroteFrom, hostVars
<1>4. state # "ABORT_BULK_OUT"
  BY <1>0, <1>3 DEF ControlInv
<1>5. CASE kpc' # "finish"
  <2>1. kpc' \in {"cancel", "write"}
    BY <1>2, <1>5 DEF WriteMoves
  <2> QED
    BY <1>3, <1>4, <2>1 DEF OutcomeInv
<1>6. CASE kpc' = "finish"
  <2>1. PICK amount \in Nat :
          /\ amount = WholeBlocks(AtMost(n, FileLen - (cmd.start + a)))
          /\ put <= amount /\ nw <= put /\ cmd.start + a + amount <= FileLen
    BY <1>0, <1>1, <1>2, WroteAmounts DEF WriteMoves
  <2>2. /\ left' = left - nw /\ common'.residue = common.residue - nw
        /\ common'.phase_error = common.phase_error
        /\ (common'.sense <=> common.sense \/ nw < amount)
        /\ nw < amount \/ n < bh[drain].intended \/ left' = 0
    BY <1>2, <1>6, <2>1 DEF WriteMoves
  <2>3. /\ common.residue = cmd.len - Size + left /\ left <= Size
        /\ cmd.start + Size - left <= FileLen /\ cmd.op = "WRITE"
    BY <1>0, <1>3, WriteAmounts
  <2>4. nw <= left
    BY <1>0, <1>1, <1>2, WroteAmounts
  <2>5. PICK m \in Nat : m = a + nw /\ m <= cmd.len
                         /\ common'.residue = cmd.len - m
    <3>1. Size \in Nat /\ left \in Nat /\ cmd.len \in Nat /\ Size <= cmd.len
      BY <1>0, SizeIs DEF TypeInv
    <3>2. a + nw \in Nat /\ a + nw <= cmd.len
      BY <1>3, <2>3, <2>4, <3>1
    <3>3. PICK r : r = common.residue
      OBVIOUS
    <3>4. common'.residue = r - nw
      <4>1. common'.residue = common.residue - nw
        BY <2>2
      <4> QED
        BY <3>3, <4>1, Zenon
    <3>5. r = cmd.len - Size + left
      BY <2>3, <3>3
    <3>6. r - nw = cmd.len - (a + nw)
      BY <1>3, <3>1, <3>5
    <3>7. common'.residue = cmd.len - (a + nw)
      BY <3>4, <3>6, Zenon
    <3> QED
      BY <3>2, <3>7, Zenon
  <2>6. cmd.start + m <= FileLen /\ cmd.start \in Nat /\ FileLen \in Nat
    BY <1>0, <2>1, <2>5, SizeIs, ConstantsAre
  <2>7. ASSUME NEW i \in 0 .. m - 1
        PROVE  cmd.start + i < FileLen /\ file'[cmd.start + i] = i
    <3>1. PICK p \in 0 .. FileLen - 1 : p = cmd.start + i
      BY <2>6, <2>7
    <3>2. file'[p] = IF cmd.start + a <= p /\ p < cmd.start + a + put
                     THEN p - cmd.start ELSE file[p]
      BY <1>2 DEF WriteMoves
    <3>3. CASE i < a
      <4>1. ~(cmd.start + a <= p)
        BY <2>6, <3>1, <3>3
      <4>2. file[cmd.start + i] = i
        BY <1>0, <1>3, <3>3 DEF AmountInv
      <4> QED
        BY <2>6, <3>1, <3>2, <4>1, <4>2
    <3>4. CASE ~(i < a)
      <4>1. cmd.start + a <= p /\ p < cmd.start + a + put /\ p - cmd.start = i
        BY <2>1, <2>5, <2>6, <3>1, <3>4
      <4>2. file'[p] = p - cmd.start
        BY <3>2, <4>1
      <4>3. file'[p] = i
        BY <4>1, <4>2
      <4> QED
        BY <2>6, <3>1, <4>3
    <3> QED
      BY <3>3, <3>4
  <2>8. ASSUME ~common'.phase_error, ~common'.sense, cmd.size < U32, ~stopped'
        PROVE  m = AtMost(cmd.size, FileLen - cmd.start)
    <3>1. ~(cmd.len < CdbSize(cmd))
      BY <1>0, <1>3, <2>2, <2>8, Zenon DEF AmountInv
    <3>2. Size = cmd.size
      BY <1>0, <2>3, <2>8, <3>1, SizeIs
    <3>3. ~(nw < amount) /\ n = bh[drain].intended
      BY <1>3, <2>2, <2>8
    <3>4. left' = 0
      BY <2>2, <3>3
    <3>5. m = cmd.size
      <4>1. PICK s \in Nat, l \in Nat : s = cmd.size /\ l = left
        BY <1>0, SizeIs DEF TypeInv
      <4>2. a = s - l
        BY <1>3, <3>2, <4>1
      <4>3. l - nw = 0
        BY <2>2, <3>4, <4>1
      <4>4. m = s
        BY <2>5, <4>1, <4>2, <4>3
      <4> QED
        BY <4>1, <4>4
    <3> QED
      BY <1>0, <2>6, <3>5, SizeIs DEF AtMost
  <2>9. cmd' = cmd
    BY <1>3
  <2> QED
    BY <1>0, <2>3, <2>5, <2>7, <2>8, <2>9, OutcomeAgain
<1> QED
  BY <1>5, <1>6

\* Every step keeps what the CSW will tell so.
LEMMA OutcomeStep ==
  ASSUME DataInv, Next, TypeInv'
  PROVE  OutcomeInv'
<1>0. TypeInv /\ QueueInv /\ ControlInv /\ HostInv /\ OutcomeInv
  BY DEF DataInv, StatusInv
<1>1. CASE StartCommand
  BY <1>1, OutcomeStarts
<1>2. CASE ReadRound
  BY <1>2, OutcomeRead
<1>3. CASE VerifyRound
  BY <1>3, OutcomeVerified
<1>4. CASE WriteStopsEarly
  BY <1>4, OutcomeStops
<1>5. CASE WriteRound
  BY <1>5, OutcomeWrote
<1>6. CASE AskForCbw \/ ReceivedCbw \/ WriteRequest \/ WriteWaits \/ SendStatus
           \/ Interrupted
  <2>1. kpc # "cancel" /\ state' = state
    BY <1>6 DEF AskForCbw, ReceivedCbw, WriteRequest, WriteWaits, SendStatus,
                Interrupted, Asleep, AsleepOnFill, AsleepOnDrain
  <2>2. kpc' \notin {"finish", "throw", "toss", "status"}
    BY <1>6 DEF AskForCbw, ReceivedCbw, WriteRequest, WriteWaits, SendStatus,
                Interrupted, Unless
  <2> QED
    BY <1>0, <2>1, <2>2 DEF ControlInv, OutcomeInv
<1>7. CASE FinishReply \/ ThrowAwayRequest \/ ThrowAwayWaits \/ ThrowAway
           \/ AllThrownAway
  <2>1. UNCHANGED <<cmd, file, stopped, hpc>> /\ Due
    BY <1>7 DEF FinishReply, ThrowAwayRequest, ThrowAwayWaits, ThrowAway,
                AllThrownAway, hostVars, Due
  <2>2. /\ common'.residue = common.residue /\ common'.tag = common.tag
        /\ (common'.sense <=> common.sense)
        /\ (common'.phase_error <=> common.phase_error)
    <3>1. CASE ThrowAwayRequest
      BY <1>0, <3>1, ThrowAwayRequestForm DEF Requests
    <3>2. CASE ~ThrowAwayRequest
      <4>1. common' = common
        BY <1>7, <3>2 DEF FinishReply, ThrowAwayWaits, ThrowAway, AllThrownAway
      <4> QED
        BY <4>1
    <3> QED
      BY <3>1, <3>2
  <2> QED
    BY <1>0, <2>1, <2>2, OutcomeKept
<1>8. CASE CancelTransfer \/ Complete \/ HostReceive
  <2>1. UNCHANGED <<cmd, file, stopped, common, state, kpc>>
        /\ (hpc' # "reset" => hpc # "reset")
    BY <1>8 DEF CancelTransfer, Complete, HostReceive, hostVars
  <2> QED
    BY <1>0, <2>1, OutcomeKept DEF Due
<1>9. CASE HostSend \/ HostStops
  <2>1. UNCHANGED <<cmd, file, common, state, kpc>> /\ hpc # "reset"
    BY <1>9 DEF HostSend, HostStops, HostSendUnits
  <2>2. stopped => stopped'
    BY <1>9, Zenon DEF HostSend, HostStops
  <2> QED
    BY <1>0, <2>1, <2>2, OutcomeKept DEF Due
<1>10. CASE ResetRing
  <2>1. CASE state = "ABORT_BULK_OUT" /\ UNCHANGED <<common, file, hostVars>>
    <3>1. Due /\ UNCHANGED <<cmd, file, stopped, common, hpc>>
      BY <2>1 DEF Due, hostVars
    <3> QED
      BY <1>0, <3>1, OutcomeKept
  <2>2. CASE kpc' = "next" /\ state' = "NORMAL"
    BY <2>2 DEF OutcomeInv
  <2> QED
    BY <1>10, <2>1, <2>2 DEF ResetRing
<1>11. CASE HostCbw \/ HostStatus
  <2>1. kpc \in {"next", "cbw"}
    <3>1. CASE HostCbw
      BY <1>0, <3>1 DEF HostCbw, ControlInv
    <3>2. CASE HostStatus
      BY <3>2, WhenAnswered DEF HostStatus, Asked
    <3> QED
      BY <1>11, <3>1, <3>2
  <2>2. UNCHANGED <<kpc, state>>
    BY <1>11 DEF HostCbw, HostStatus
  <2> QED
    BY <1>0, <2>1, <2>2 DEF ControlInv, OutcomeInv
<1>12. CASE HostReset
  BY <1>12 DEF HostReset, OutcomeInv
<1> QED
  BY <1>1, <1>2, <1>3, <1>4, <1>5, <1>6, <1>7, <1>8, <1>9, <1>10, <1>11, <1>12
     DEF Next, Kthread

\* The tag of the CBW is kept until the CSW carries it.
LEMMA TagStep ==
  ASSUME DataInv, Next
  PROVE  TagInv'
<1>0. TypeInv /\ QueueInv /\ ControlInv /\ HostInv /\ AmountInv /\ OutInv /\ TagInv
  BY DEF DataInv, StatusInv
<1>1. ASSUME common'.tag = common.tag, cmd' = cmd,
             \/ kpc \in Working \union {"start"} \/ state = "ABORT_BULK_OUT"
             \/ /\ kpc' \notin Working \union {"start"}
                /\ state' # "ABORT_BULK_OUT"
      PROVE  TagInv'
  BY <1>0, <1>1 DEF TagInv
<1>2. CASE ReceivedCbw
  <2>1. common'.tag = cmd.tag /\ cmd' = cmd
    BY <1>0, <1>2 DEF ReceivedCbw, hostVars, TypeInv, Commons
  <2> QED
    BY <2>1 DEF TagInv
<1>3. CASE AskForCbw
  <2>1. kpc' = "cbw" /\ state' = state /\ kpc # "cancel"
    BY <1>3 DEF AskForCbw
  <2> QED
    BY <1>0, <2>1 DEF TagInv, Working, ControlInv
<1>4. CASE StartCommand \/ ReadRound \/ VerifyRound \/ WriteRequest \/ WriteRound
           \/ ThrowAwayRequest
  <2>1. kpc \in Working \union {"start"} /\ cmd' = cmd
    BY <1>4 DEF StartCommand, ReadRound, VerifyRound, WriteRequest, WriteRound,
                ThrowAwayRequest, hostVars, Working
  <2>2. common'.tag = common.tag
    <3>1. CASE StartCommand
      BY <1>0, <3>1, StartCommandForm
         DEF StartsReply, StartsTransfer, StartsVerify, Started
    <3>2. CASE ReadRound
      BY <1>0, <3>2, ReadRoundForm DEF ReadEnds, ReadGoesOn, ReadMoves
    <3>3. CASE VerifyRound
      BY <1>0, <3>3, VerifyRoundForm DEF VerifyEnds, VerifyGoesOn
    <3>4. CASE WriteRequest
      BY <1>0, <3>4 DEF WriteRequest, TypeInv, Commons
    <3>5. CASE WriteRound
      <4>1. PICK a \in Nat, n \in Nat : WroteFrom(a, n)
        BY <1>0, <3>5, WriteRoundIs
      <4>2. PICK put \in Nat, nw \in Nat : WriteMoves(a, n, put, nw)
        BY <4>1 DEF WroteFrom
      <4> QED
        BY <4>2 DEF WriteMoves
    <3>6. CASE ThrowAwayRequest
      BY <1>0, <3>6, ThrowAwayRequestForm DEF Requests
    <3> QED
      BY <1>4, <3>1, <3>2, <3>3, <3>4, <3>5, <3>6
  <2> QED
    BY <1>1, <2>1, <2>2
<1>5. CASE WriteWaits \/ WriteStopsEarly \/ FinishReply \/ ThrowAwayWaits \/ ThrowAway
           \/ AllThrownAway \/ SendStatus
  <2>1. kpc \in Working /\ cmd' = cmd /\ common' = common
    BY <1>5 DEF WriteWaits, WriteStopsEarly, FinishReply, ThrowAwayWaits, ThrowAway,
                AllThrownAway, SendStatus, hostVars, Working
  <2> QED
    BY <1>1, <2>1
<1>6. CASE Interrupted
  <2>1. kpc' = "cancel" /\ state' = state /\ kpc # "cancel"
    BY <1>6 DEF Interrupted, Asleep, AsleepOnFill, AsleepOnDrain
  <2> QED
    BY <1>0, <2>1 DEF TagInv, Working, ControlInv
<1>7. CASE ResetRing
  <2>1. CASE state = "ABORT_BULK_OUT" /\ UNCHANGED <<common, file, hostVars>>
    <3>1. cmd' = cmd /\ common' = common
      BY <2>1 DEF hostVars
    <3> QED
      BY <1>1, <2>1, <3>1
  <2>2. CASE kpc' = "next" /\ state' = "NORMAL"
    BY <2>2 DEF TagInv, Working
  <2> QED
    BY <1>7, <2>1, <2>2 DEF ResetRing
<1>8. CASE CancelTransfer \/ Complete \/ HostSend \/ HostStops \/ HostReceive
  <2>1. UNCHANGED <<cmd, common, state, kpc>>
    BY <1>8 DEF CancelTransfer, Complete, HostSend, HostStops, HostSendUnits,
                HostReceive, hostVars
  <2> QED
    BY <1>1, <2>1
<1>9. CASE HostCbw \/ HostStatus
  <2>1. kpc \in {"next", "cbw"}
    <3>1. CASE HostCbw
      BY <1>0, <3>1 DEF HostCbw, ControlInv
    <3>2. CASE HostStatus
      BY <3>2, WhenAnswered DEF HostStatus, Asked
    <3> QED
      BY <1>9, <3>1, <3>2
  <2>2. UNCHANGED <<kpc, state>>
    BY <1>9 DEF HostCbw, HostStatus
  <2> QED
    BY <1>0, <2>1, <2>2 DEF ControlInv, TagInv, Working
<1>10. CASE HostReset
  <2>1. UNCHANGED <<cmd, common, kpc>> /\ state' = "PROTOCOL_RESET"
    BY <1>10 DEF HostReset
  <2> QED
    BY <1>1, <2>1
<1> QED
  BY <1>2, <1>3, <1>4, <1>5, <1>6, <1>7, <1>8, <1>9, <1>10 DEF Next, Kthread

\* All that the host has to send has been taken.
LEMMA AllTaken ==
  ASSUME TypeInv, HostInv, DataDir = "out", hpc # "idle",
         NEW f \in [0 .. 0 -> Nat], Ring(0, f), Sent(0, f),
         common.usb_amount_left = 0
  PROVE  AllEmpty /\ hpc \in {"status", "reset"}
<1>1. ASSUME NEW b \in Buffers
      PROVE  bh[b].state = "EMPTY"
  <2>1. PICK d \in Nat : d = drain /\ d < NumBuffers
    BY ConstantsAre DEF TypeInv, Buffers
  <2>2. b \in Nat /\ b < NumBuffers /\ NumBuffers \in Nat
    BY ConstantsAre DEF Buffers
  <2>3. PICK i \in 0 .. NumBuffers - 1 : d + i = b \/ d + i = b + NumBuffers
    <3>1. CASE d <= b
      <4>1. b - d \in 0 .. NumBuffers - 1 /\ d + (b - d) = b
        BY <2>1, <2>2, <3>1
      <4> QED
        BY <4>1
    <3>2. CASE ~(d <= b)
      <4>1. b + NumBuffers - d \in 0 .. NumBuffers - 1
            /\ d + (b + NumBuffers - d) = b + NumBuffers
        BY <2>1, <2>2, <3>2
      <4> QED
        BY <4>1
    <3> QED
      BY <3>1, <3>2
  <2>4. Slot(d, i) = b
    BY <2>1, <2>2, <2>3 DEF Slot
  <2>5. bh[Slot(drain, i)].state = "EMPTY"
    BY DEF Ring
  <2> QED
    BY <2>1, <2>4, <2>5
<1>2. hpc # "out"
  <2>1. f[0] = cmd.len
    BY SizeIs DEF Ring
  <2>2. PICK e \in 0 .. 0 : 0 = e + Len(outQ) /\ SentUpTo(e, f)
    BY DEF Sent
  <2>3. ~stopped => sent = f[0]
    BY <2>2 DEF SentUpTo
  <2> QED
    BY <2>1, <2>3, SizeIs DEF HostInv, TypeInv
<1> QED
  BY <1>1, <1>2 DEF AllEmpty, HostInv, TypeInv

\* Every step keeps the ring empty once the data is done with.
LEMMA EmptiedStep ==
  ASSUME DataInv, Next
  PROVE  EmptiedInv'
<1>0. TypeInv /\ QueueInv /\ ControlInv /\ HostInv /\ FreshInv /\ AmountInv
      /\ OutInv /\ EmptiedInv
  BY DEF DataInv, StatusInv
<1>1. ASSUME kpc' \notin {"finish", "status"} PROVE EmptiedInv'
  BY <1>1 DEF EmptiedInv
<1>2. ASSUME UNCHANGED <<bh, cmd>>, kpc' = kpc,
             hpc \in {"status", "reset"} => hpc' \in {"status", "reset"}
      PROVE  EmptiedInv'
  <2>1. DataDir' = DataDir
    BY <1>2 DEF DataDir
  <2> QED
    BY <1>0, <1>2, <2>1 DEF EmptiedInv, AllEmpty
<1>3. CASE StartCommand
  <2>1. AllEmpty /\ kpc = "start"
    BY <1>3, FreshIsQuiet DEF StartCommand
  <2>2. DataDir' = DataDir
    BY <1>3 DEF StartCommand, DataDir, hostVars
  <2>3. DataDir # "in" => bh' = bh
    BY <1>0, <1>3, StartCommandForm DEF StartsReply, StartsTransfer, StartsVerify
  <2>4. kpc' # "status"
    BY <1>0, <1>3, StartCommandForm
       DEF StartsReply, StartsTransfer, StartsVerify, ToFinish
  <2> QED
    BY <2>1, <2>2, <2>3, <2>4 DEF EmptiedInv, AllEmpty
<1>4. CASE VerifyRound
  <2>1. AllEmpty /\ kpc = "verify"
    BY <1>4, FreshIsQuiet DEF VerifyRound
  <2>2. DataDir' = DataDir
    BY <1>4 DEF VerifyRound, DataDir, hostVars
  <2>3. (DataDir # "in" => bh' = bh) /\ kpc' # "status"
    BY <1>0, <1>4, <2>1, VerifyRoundForm DEF VerifyEnds, VerifyGoesOn
  <2> QED
    BY <2>1, <2>2, <2>3 DEF EmptiedInv, AllEmpty
<1>5. CASE ReadRound \/ WriteStopsEarly \/ WriteRound
  <2>1. DataDir # "none" /\ cmd' = cmd
    <3>1. CASE ReadRound
      BY <1>0, <3>1, ReadAmounts DEF ReadRound, hostVars
    <3>2. CASE WriteStopsEarly \/ WriteRound
      <4>1. kpc \in {"write", "drain"} /\ cmd' = cmd
        BY <3>2 DEF WriteStopsEarly, WriteRound, hostVars
      <4> QED
        BY <1>0, <4>1, WriteAmounts
    <3> QED
      BY <1>5, <3>1, <3>2
  <2>2. DataDir' # "none"
    BY <2>1 DEF DataDir
  <2>3. kpc' # "status"
    BY <1>5 DEF ReadRound, WriteStopsEarly, WriteRound, Unless
  <2> QED
    BY <2>2, <2>3 DEF EmptiedInv
<1>6. CASE FinishReply
  <2>1. kpc = "finish" /\ kpc' # "finish" /\ UNCHANGED hostVars
    BY <1>6 DEF FinishReply, Unless
  <2>2. DataDir' = DataDir /\ hpc' = hpc /\ hpc # "idle"
    BY <1>0, <2>1, BusyCommand DEF DataDir, hostVars
  <2>3. CASE DataDir = "in"
    BY <2>1, <2>2, <2>3 DEF EmptiedInv
  <2>4. CASE DataDir = "none"
    <3>1. AllEmpty /\ bh' = bh
      BY <1>0, <1>6, <2>1, <2>4 DEF EmptiedInv, FinishReply, ringVars
    <3>2. hpc \in {"status", "reset"}
      BY <1>0, <2>2, <2>4 DEF HostInv, TypeInv
    <3> QED
      BY <2>1, <2>2, <3>1, <3>2 DEF EmptiedInv, AllEmpty
  <2>5. CASE DataDir = "out" /\ kpc' = "status"
    <3>1. common.residue = 0 /\ bh' = bh
      BY <1>0, <1>6, <2>5 DEF FinishReply, ringVars, TypeInv, Commons
    <3>2. PICK k \in 0 .. NumBuffers : \E f \in [0 .. k -> Nat] : OutAt(k, f)
      BY <1>0, <2>1, <2>5, OutHas DEF Taking
    <3>3. k = 0 /\ common.usb_amount_left = 0
      BY <2>1, <3>1, <3>2 DEF OutAt
    <3>4. PICK f \in [0 .. 0 -> Nat] : Ring(0, f) /\ Sent(0, f)
      BY <3>2, <3>3 DEF OutAt
    <3>5. AllEmpty /\ hpc \in {"status", "reset"}
      BY <1>0, <2>2, <2>5, <3>3, <3>4, AllTaken
    <3> QED
      BY <2>1, <2>2, <3>1, <3>5 DEF EmptiedInv, AllEmpty
  <2>6. DataDir \in {"none", "in", "out"}
    BY <1>0, SizeIs
  <2> QED
    BY <1>1, <2>1, <2>3, <2>4, <2>5, <2>6
<1>7. CASE AllThrownAway
  <2>1. /\ kpc = "throw" /\ kpc' # "finish" /\ UNCHANGED <<bh, hostVars>>
        /\ bh[drain].state = "EMPTY" /\ common.usb_amount_left = 0
    BY <1>7 DEF AllThrownAway, Unless, ringVars
  <2>2. DataDir' = DataDir /\ hpc' = hpc /\ hpc # "idle"
    BY <1>0, <2>1, BusyCommand DEF DataDir, hostVars
  <2>3. PICK k \in 0 .. NumBuffers : \E f \in [0 .. k -> Nat] : OutAt(k, f)
    BY <1>0, <2>1, OutHas DEF Taking
  <2>4. PICK f \in [0 .. k -> Nat] : OutAt(k, f)
    BY <2>3
  <2>5. k = 0
    <3>1. Slot(drain, 0) = drain
      BY <1>0, SlotIs DEF TypeInv
    <3>2. k > 0 => bh[Slot(drain, 0)].state \in {"RECEIVING", "FULL"}
      BY <2>4, ConstantsAre DEF OutAt, Ring
    <3> QED
      BY <2>1, <3>1, <3>2, ConstantsAre
  <2>6. DataDir = "out"
    BY <1>0, <2>1, OutHas DEF Taking
  <2>7. Ring(0, f) /\ Sent(0, f) /\ f \in [0 .. 0 -> Nat]
    BY <2>4, <2>5 DEF OutAt
  <2>8. AllEmpty /\ hpc \in {"status", "reset"}
    BY <1>0, <2>1, <2>2, <2>6, <2>7, AllTaken
  <2> QED
    BY <2>1, <2>2, <2>8 DEF EmptiedInv, AllEmpty
<1>8. CASE ResetRing
  <2>1. AllEmpty'
    BY <1>8, FreeIs DEF ResetRing, AllEmpty
  <2>2. CASE state = "ABORT_BULK_OUT" /\ UNCHANGED <<common, file, hostVars>>
             /\ kpc' = "status"
    <3>1. hpc \notin {"reset", "idle"} /\ stopped /\ hpc' = hpc
      BY <1>0, <2>2 DEF ControlInv, hostVars
    <3>2. DataDir = "out"
      BY <1>0, <3>1 DEF HostInv
    <3>3. hpc' = "status"
      BY <1>0, <3>1, <3>2 DEF HostInv, TypeInv
    <3> QED
      BY <2>1, <2>2, <3>3 DEF EmptiedInv
  <2> QED
    BY <1>1, <1>8, <2>2 DEF ResetRing
<1>9. CASE Complete
  <2>1. ~AllEmpty
    BY <1>0, <1>9, EmptyIsIdle, NothingQueued DEF Complete
  <2>2. kpc' = kpc /\ DataDir' = DataDir
    BY <1>9 DEF Complete, DataDir, hostVars
  <2> QED
    BY <1>0, <2>1, <2>2 DEF EmptiedInv
<1>10. CASE HostSend \/ HostStops \/ HostReceive
  <2>1. kpc' = kpc /\ DataDir' = DataDir /\ hpc \in {"in", "out"}
    BY <1>10 DEF HostSend, HostStops, HostSendUnits, HostReceive, DataDir
  <2> QED
    BY <1>0, <2>1 DEF EmptiedInv, HostInv
<1>11. CASE HostCbw \/ HostStatus
  <2>1. kpc \in {"next", "cbw"}
    <3>1. CASE HostCbw
      BY <1>0, <3>1 DEF HostCbw, ControlInv
    <3>2. CASE HostStatus
      BY <3>2, WhenAnswered DEF HostStatus, Asked
    <3> QED
      BY <1>11, <3>1, <3>2
  <2> QED
    BY <1>1, <1>11, <2>1 DEF HostCbw, HostStatus
<1>12. CASE HostReset
  BY <1>2, <1>12 DEF HostReset, ringVars
<1>13. CASE AskForCbw \/ ReceivedCbw \/ WriteRequest \/ WriteWaits
            \/ ThrowAwayRequest \/ ThrowAwayWaits \/ ThrowAway \/ SendStatus
            \/ Interrupted \/ CancelTransfer
  BY <1>1, <1>13 DEF AskForCbw, ReceivedCbw, WriteRequest, WriteWaits,
     ThrowAwayRequest, ThrowAwayWaits, ThrowAway, SendStatus, Interrupted,
     CancelTransfer, Unless
<1> QED
  BY <1>3, <1>4, <1>5, <1>6, <1>7, <1>8, <1>9, <1>10, <1>11, <1>12, <1>13
     DEF Next, Kthread

\* What is queued of a reply that is told as done, when no more of it is taken.
LEMMA RepliedKept ==
  ASSUME NEW m \in Nat, NEW r \in Nat, Replied(m, r), KeepsQueue(m),
         UNCHANGED <<received, cmd, hpc>>
  PROVE  Replied(m, r)'
<1>1. PICK g \in [0 .. m -> Nat] :
        /\ Flow(g, m)
        /\ \A j \in 1 .. m - 1 : Going(g, j)
        /\ m > 0 => Ending(g, m)
        /\ EmptyCommands \/ (InOrder(g, m) /\ g[m] = cmd.len - r)
  BY DEF Replied
<1>2. Flow(g, m)' /\ (InOrder(g, m) => InOrder(g, m)')
  BY <1>1, FlowKept
<1>3. \A j \in 1 .. m - 1 : Going(g, j)'
  <2>1. \A j \in 1 .. m - 1 : j \in 1 .. m
    OBVIOUS
  <2> QED
    BY <1>1, <2>1, FlowKept
<1>4. m > 0 => Ending(g, m)'
  <2>1. m > 0 => m \in 1 .. m
    OBVIOUS
  <2> QED
    BY <1>1, <2>1, FlowKept
<1>5. hpc' = IF m > 0 THEN "in" ELSE "status"
  BY DEF Replied
<1> QED
  BY <1>1, <1>2, <1>3, <1>4, <1>5 DEF Replied

\* finish_reply queues the last of a reply.
LEMMA RepliedLast ==
  ASSUME TypeInv, QueueInv, ~Busy(fill), OnlyAt(fill),
         NEW m \in Nat, m = Len(inQ), NEW g \in [0 .. m -> Nat], Flow(g, m),
         \A j \in 1 .. m : Going(g, j),
         NEW n \in Nat, Len(bh'[fill].data) = n, bh'[fill].kind = "data",
         NEW r \in Nat, bh'[fill].zero \/ g[m] + n >= cmd.len,
         EmptyCommands \/ (/\ InOrder(g, m) /\ g[m] + n = cmd.len - r
                           /\ bh'[fill].data = Units(Base + g[m], n)),
         inQ' = Append(inQ, fill), UNCHANGED <<cmd, received, hpc>>, hpc = "in"
  PROVE  Replied(m + 1, r)'
<1>1. ReplyGrows(g, m, n)
  BY ReplyQueued
<1>2. PICK g2 \in [0 .. m + 1 -> Nat] :
        /\ \A j \in 0 .. m : g2[j] = g[j]
        /\ g2[m + 1] = g[m] + n
        /\ Flow(g2, m + 1)'
        /\ InOrder(g, m) /\ bh'[fill].data = Units(Base + g[m], n) =>
             InOrder(g2, m + 1)'
        /\ \A j \in 1 .. m : Going(g, j) => Going(g2, j)'
        /\ bh'[fill].zero \/ g[m] + n >= cmd.len => Ending(g2, m + 1)'
  BY <1>1 DEF ReplyGrows
<1>3. PICK q \in Nat : q = m + 1 /\ q > 0
  OBVIOUS
<1>4. \A j \in 1 .. q - 1 : Going(g2, j)'
  <2>1. \A j \in 1 .. q - 1 : j \in 1 .. m
    BY <1>3
  <2> QED
    BY <1>2, <2>1
<1>5. Flow(g2, q)' /\ Ending(g2, q)' /\ g2 \in [0 .. q -> Nat]
  BY <1>2, <1>3
<1>6. EmptyCommands \/ (InOrder(g2, q)' /\ g2[q] = cmd'.len - r)
  BY <1>2, <1>3
<1>7. Replied(q, r)'
  BY <1>3, <1>4, <1>5, <1>6 DEF Replied
<1> QED
  BY <1>3, <1>7

\* finish_reply tells the reply as done.
LEMMA RepliedFinish ==
  ASSUME DataInv, FinishReply, kpc' = "status", DataDir = "in", hpc # "reset"
  PROVE  Replied(Len(inQ), common.residue)'
<1>0. TypeInv /\ QueueInv /\ HostInv /\ AmountInv /\ ReplyInv
  BY DEF DataInv
<1>1. /\ kpc = "finish" /\ SendLastBuffer
      /\ common' = common /\ UNCHANGED hostVars
  BY DEF FinishReply
<1>2. UNCHANGED <<cmd, received, hpc>>
  BY <1>1 DEF hostVars
<1>3. /\ inQ' = Append(inQ, fill) /\ OnlyAt(fill)
      /\ bh'[fill].kind = "data" /\ (bh'[fill].zero <=> common.residue > 0)
      /\ bh[fill].state = "FULL" => bh'[fill].data = bh[fill].data
      /\ bh[fill].state # "FULL" => \E n \in Nat : bh'[fill].data = Units(FileLen, n)
  BY <1>0, <1>1, SendLastForm
<1>4. ~Busy(fill) /\ fill \in Buffers
  BY <1>0, <1>1 DEF ReplyInv, ReplyRing, TypeInv
<1>5. PICK r \in Nat : r = common.residue /\ r <= cmd.len
  BY <1>0, <1>1 DEF TypeInv, Commons, AmountInv, Working
<1>6. PICK m \in Nat : m = Len(inQ) /\ Len(inQ') = m + 1
  BY <1>0, <1>3, <1>4, InAppend, LenProperties DEF QueueInv
<1>7. CASE bh[fill].state = "FULL"
  <2>1. Ready
    BY <1>0, <1>1, <1>7, ReplyHas DEF Replying
  <2>2. PICK g \in [0 .. m -> Nat] : ReadyAt(g)
    BY <1>6, <2>1 DEF Ready
  <2>3. PICK n \in Nat : n = Len(bh[fill].data)
    BY <1>0, <1>4, LenProperties DEF TypeInv, Buffer, Contents
  <2>4. Pending = n
    BY <1>1, <2>3 DEF Pending
  <2>5. /\ Flow(g, m) /\ InOrder(g, m) /\ \A j \in 1 .. m : Going(g, j)
        /\ g[m] + n = Moved /\ bh[fill].data = Units(Base + g[m], n)
    BY <1>1, <1>6, <2>2, <2>4 DEF ReadyAt
  <2>6. bh'[fill].data = Units(Base + g[m], n) /\ Len(bh'[fill].data) = n
    BY <1>3, <1>7, <2>3, <2>5
  <2>7. g[m] + n = cmd.len - r
    BY <1>5, <2>5 DEF Moved
  <2>8. bh'[fill].zero \/ g[m] + n >= cmd.len
    <3>1. CASE r > 0
      BY <1>3, <1>5, <3>1
    <3>2. CASE r = 0
      <4>1. g[m] + n >= cmd.len
        BY <2>7, <3>2, <1>0, SizeIs
      <4> QED
        BY <4>1
    <3> QED
      BY <3>1, <3>2
  <2>9. hpc = "in"
    BY <2>1 DEF Ready
  <2>10. Replied(m + 1, r)'
    BY <1>0, <1>2, <1>3, <1>4, <1>6, <2>5, <2>6, <2>7, <2>8, <2>9, RepliedLast
  <2> QED
    BY <1>1, <1>5, <1>6, <2>10
<1>8. CASE bh[fill].state # "FULL"
  <2>1. EmptyCommands /\ r = cmd.len /\ AllEmpty /\ Begun /\ Untouched
    BY <1>0, <1>1, <1>5, <1>8 DEF ReplyInv
  <2>2. inQ = <<>> /\ m = 0
    <3>1. inQ = <<>>
      BY <1>0, <2>1, EmptyIsIdle, NothingQueued
    <3> QED
      BY <1>6, <3>1
  <2>3. hpc = "in" /\ r > 0
    BY <1>0, <2>1, SizeIs DEF Begun, DataDir
  <2>4. PICK n \in Nat : bh'[fill].data = Units(FileLen, n)
    BY <1>3, <1>8
  <2>5. Len(bh'[fill].data) = n
    BY <2>4, UnitsAre, ConstantsAre
  <2>6. PICK g \in [0 .. 0 -> Nat] : g[0] = 0
    <3>1. [i \in 0 .. 0 |-> 0] \in [0 .. 0 -> Nat] /\ [i \in 0 .. 0 |-> 0][0] = 0
      OBVIOUS
    <3> QED
      BY <3>1
  <2>7. Flow(g, 0)
    BY <2>1, <2>6 DEF Flow, Untouched
  <2>8. g \in [0 .. m -> Nat] /\ Flow(g, m) /\ \A j \in 1 .. m : Going(g, j)
    BY <2>2, <2>6, <2>7
  <2>9. bh'[fill].zero
    BY <1>3, <1>5, <2>3
  <2>10. Replied(m + 1, r)'
    BY <1>0, <1>2, <1>3, <1>4, <1>6, <2>1, <2>3, <2>5, <2>8, <2>9, RepliedLast
  <2> QED
    BY <1>1, <1>5, <1>6, <2>10
<1> QED
  BY <1>7, <1>8

\* Every step keeps what is queued of a reply that is told as done.
LEMMA RepliedStep ==
  ASSUME DataInv, Next
  PROVE  RepliedInv'
<1>0. TypeInv /\ QueueInv /\ ControlInv /\ HostInv /\ AmountInv /\ OutInv /\ RepliedInv
  BY DEF DataInv, StatusInv
<1>1. ASSUME kpc' # "status" PROVE RepliedInv'
  BY <1>1 DEF RepliedInv
<1>2. CASE FinishReply
  <2>1. CASE kpc' = "status" /\ DataDir = "in" /\ hpc # "reset"
    <3>1. Replied(Len(inQ), common.residue)'
      BY <1>2, <2>1, RepliedFinish
    <3> QED
      BY <3>1 DEF RepliedInv
  <2>2. DataDir' = DataDir /\ hpc' = hpc
    BY <1>2 DEF FinishReply, DataDir, hostVars
  <2> QED
    BY <2>1, <2>2 DEF RepliedInv
<1>3. CASE AllThrownAway
  <2>1. DataDir = "out"
    BY <1>0, <1>3, OutHas DEF AllThrownAway, Taking
  <2>2. DataDir' = "out"
    BY <1>3, <2>1 DEF AllThrownAway, DataDir, hostVars
  <2> QED
    BY <2>2 DEF RepliedInv
<1>4. CASE ResetRing
  <2>1. CASE state = "ABORT_BULK_OUT" /\ UNCHANGED <<common, file, hostVars>>
    <3>1. DataDir = "out"
      BY <1>0, <2>1 DEF ControlInv, HostInv
    <3>2. DataDir' = "out"
      BY <2>1, <3>1 DEF DataDir, hostVars
    <3> QED
      BY <3>2 DEF RepliedInv
  <2>2. CASE kpc' = "next"
    BY <1>1, <2>2
  <2> QED
    BY <1>4, <2>1, <2>2 DEF ResetRing
<1>5. CASE Complete \/ HostReceive
  <2>1. SUFFICES ASSUME kpc' = "status", DataDir' = "in", hpc' # "reset"
                 PROVE  Replied(Len(inQ), common.residue)'
    BY DEF RepliedInv
  <2>2. kpc = "status" /\ DataDir = "in" /\ hpc # "reset" /\ common' = common
    BY <1>5, <2>1 DEF Complete, HostReceive, DataDir, hostVars
  <2>3. PICK r \in Nat : r = common.residue
    BY <1>0 DEF TypeInv, Commons
  <2>4. PICK m \in Nat : m = Len(inQ)
    BY <1>0, LenProperties DEF QueueInv
  <2>5. Replied(m, r)
    BY <1>0, <2>2, <2>3, <2>4 DEF RepliedInv
  <2>6. CASE Complete
    <3>1. KeepsQueue(m) /\ UNCHANGED <<inQ, received, cmd, hpc>>
      BY <1>0, <2>4, <2>6, CompleteKeeps DEF hostVars
    <3>2. Replied(m, r)'
      BY <2>5, <3>1, RepliedKept
    <3>3. r = common'.residue /\ m = Len(inQ')
      BY <2>2, <2>3, <2>4, <3>1
    <3> QED
      BY <3>2, <3>3
  <2>7. CASE HostReceive
    <3>1. inQ # <<>> /\ inQ' = Tail(inQ)
      BY <2>7 DEF HostReceive, EndIn
    <3>2. m \in 1 .. Len(inQ) /\ Len(inQ') = m - 1
      BY <1>0, <2>4, <3>1, InTail DEF QueueInv
    <3>3. Replied(m - 1, r)'
      BY <1>0, <2>5, <2>7, <3>2, RepliedTaken
    <3>4. r = common'.residue
      BY <2>2, <2>3
    <3> QED
      BY <3>2, <3>3, <3>4
  <2> QED
    BY <1>5, <2>6, <2>7
<1>6. CASE HostSend \/ HostStops
  <2>1. DataDir' = DataDir /\ hpc = "out"
    BY <1>6 DEF HostSend, HostStops, HostSendUnits, DataDir
  <2> QED
    BY <1>0, <2>1 DEF RepliedInv, HostInv
<1>7. CASE HostCbw \/ HostStatus
  <2>1. kpc \in {"next", "cbw"}
    <3>1. CASE HostCbw
      BY <1>0, <3>1 DEF HostCbw, ControlInv
    <3>2. CASE HostStatus
      BY <3>2, WhenAnswered DEF HostStatus, Asked
    <3> QED
      BY <1>7, <3>1, <3>2
  <2> QED
    BY <1>1, <1>7, <2>1 DEF HostCbw, HostStatus
<1>8. CASE HostReset
  BY <1>8 DEF HostReset, RepliedInv
<1>9. CASE AskForCbw \/ ReceivedCbw \/ StartCommand \/ ReadRound \/ VerifyRound
           \/ WriteRequest \/ WriteWaits \/ WriteStopsEarly \/ WriteRound
  <2>1. CASE StartCommand
    BY <1>0, <1>1, <2>1, StartCommandForm
       DEF StartsReply, StartsTransfer, StartsVerify, ToFinish
  <2>2. CASE ~StartCommand
    BY <1>1, <1>9, <2>2 DEF AskForCbw, ReceivedCbw, ReadRound, VerifyRound,
       WriteRequest, WriteWaits, WriteStopsEarly, WriteRound, Unless
  <2> QED
    BY <2>1, <2>2
<1>10. CASE ThrowAwayRequest \/ ThrowAwayWaits \/ ThrowAway \/ SendStatus
            \/ Interrupted \/ CancelTransfer
  BY <1>1, <1>10 DEF ThrowAwayRequest, ThrowAwayWaits, ThrowAway, SendStatus,
     Interrupted, CancelTransfer, Unless
<1> QED
  BY <1>2, <1>3, <1>4, <1>5, <1>6, <1>7, <1>8, <1>9, <1>10 DEF Next, Kthread

\* What waits for the host: m buffers of the reply, and the CSW of t.
AnsweredBy(m, t) ==
  /\ Len(inQ) = m + 1
  /\ bh[inQ[m + 1]].kind = "csw" /\ bh[inQ[m + 1]].data = <<t>>
  /\ t.tag = cmd.tag /\ Outcome(t.residue, t.status)
  /\ DataDir = "in" => Replied(m, t.residue)
  /\ DataDir # "in" => hpc = "status" /\ m = 0

\* What waits for the host once a command is answered ...
LEMMA AnsweredHas ==
  ASSUME inQ \in Seq(Buffers), Answered
  PROVE  \E m \in Nat : \E t \in Told : AnsweredBy(m, t)
<1>1. PICK m \in Nat : Len(inQ) = m + 1
  <2>1. Len(inQ) \in Nat /\ Len(inQ) > 0
    BY InTail DEF Answered
  <2>2. Len(inQ) - 1 \in Nat /\ Len(inQ) = (Len(inQ) - 1) + 1
    BY <2>1
  <2> QED
    BY <2>2
<1>2. PICK t \in Told :
        /\ Last.data = <<t>> /\ t.tag = cmd.tag
        /\ Outcome(t.residue, t.status)
        /\ IF DataDir = "in" THEN Replied(Len(inQ) - 1, t.residue)
           ELSE hpc = "status" /\ Len(inQ) = 1
  BY DEF Answered
<1>3. Len(inQ) - 1 = m /\ (Len(inQ) = 1 => m = 0)
  BY <1>1
<1>4. Last = bh[inQ[m + 1]] /\ Last.kind = "csw"
  BY <1>1 DEF Last, Answered
<1> QED
  BY <1>1, <1>2, <1>3, <1>4 DEF AnsweredBy

\* ... and again after a step.
LEMMA AnsweredAgain ==
  ASSUME NEW m \in Nat, NEW t \in Told, AnsweredBy(m, t)', inQ' \in Seq(Buffers)
  PROVE  Answered'
<1>1. Len(inQ') = m + 1 /\ Len(inQ') - 1 = m
  BY DEF AnsweredBy
<1>2. inQ' # <<>>
  BY <1>1
<1>3. Last' = bh'[inQ'[m + 1]]
  BY <1>1 DEF Last
<1>4. DataDir' = "in" => Replied(Len(inQ) - 1, t.residue)'
  BY <1>1 DEF AnsweredBy
<1> QED
  BY <1>1, <1>2, <1>3, <1>4 DEF AnsweredBy, Answered

\* While the host takes nothing, what waits for it stays.
LEMMA AnsweredKept ==
  ASSUME TypeInv, QueueInv, QueueInv', Answered, KeepsQueue(Len(inQ)),
         UNCHANGED <<inQ, received, cmd, hpc, file, stopped>>
  PROVE  Answered'
<1>1. PICK m \in Nat : \E t \in Told : AnsweredBy(m, t)
  BY AnsweredHas DEF QueueInv
<1>2. PICK t \in Told : AnsweredBy(m, t)
  BY <1>1
<1>3. PICK r \in Nat, s \in {"OK", "FAIL", "PHASE"} : r = t.residue /\ s = t.status
  BY DEF Told
<1>4. Len(inQ) = m + 1 /\ m + 1 \in 1 .. Len(inQ) /\ inQ'[m + 1] = inQ[m + 1]
      /\ DataDir' = DataDir
  BY <1>2 DEF AnsweredBy, DataDir
<1>5. bh'[inQ'[m + 1]] = bh[inQ[m + 1]]
  BY <1>4 DEF KeepsQueue
<1>6. Outcome(r, s)'
  <2>1. Outcome(r, s)
    BY <1>2, <1>3 DEF AnsweredBy
  <2> QED
    BY <2>1, OutcomeSame
<1>7. DataDir = "in" => Replied(m, r)'
  <2>1. KeepsQueue(m)
    <3>1. \A j \in 1 .. m : j \in 1 .. Len(inQ)
      BY <1>4
    <3> QED
      BY <3>1 DEF KeepsQueue
  <2>2. DataDir = "in" => Replied(m, r)
    BY <1>2, <1>3 DEF AnsweredBy
  <2> QED
    BY <2>1, <2>2, RepliedKept
<1>8. AnsweredBy(m, t)'
  BY <1>2, <1>3, <1>4, <1>5, <1>6, <1>7 DEF AnsweredBy
<1> QED
  BY <1>8, AnsweredAgain DEF QueueInv

\* The host takes a buffer of the reply.
LEMMA AnsweredTaken ==
  ASSUME TypeInv, QueueInv, QueueInv', HostInv, Answered, HostReceive
  PROVE  Answered'
<1>1. PICK m \in Nat : \E t \in Told : AnsweredBy(m, t)
  BY AnsweredHas DEF QueueInv
<1>2. PICK t \in Told : AnsweredBy(m, t)
  BY <1>1
<1>3. PICK r \in Nat, s \in {"OK", "FAIL", "PHASE"} : r = t.residue /\ s = t.status
  BY DEF Told
<1>4. /\ hpc = "in" /\ inQ # <<>> /\ inQ' = Tail(inQ)
      /\ UNCHANGED <<bh, cmd, file, stopped>>
  BY DEF HostReceive, EndIn, ringVars
<1>5. DataDir = "in" /\ DataDir' = "in"
  BY <1>4 DEF HostInv, DataDir
<1>6. Replied(m, r)
  BY <1>2, <1>3, <1>5 DEF AnsweredBy
<1>7. m > 0
  BY <1>4, <1>6 DEF Replied
<1>8. PICK l \in Nat : m = l + 1 /\ l = m - 1
  BY <1>7
<1>9. Len(inQ) = m + 1 /\ m \in 1 .. Len(inQ)
  BY <1>2, <1>7 DEF AnsweredBy
<1>10. Replied(l, r)'
  <2>1. Replied(m - 1, r)'
    BY <1>6, <1>9, RepliedTaken
  <2> QED
    BY <1>8, <2>1
<1>11. Len(inQ') = l + 1 /\ inQ'[l + 1] = inQ[m + 1]
  <2>1. /\ Len(Tail(inQ)) = Len(inQ) - 1
        /\ \A i \in 1 .. Len(inQ) - 1 : Tail(inQ)[i] = inQ[i + 1]
    BY <1>4, InTail DEF QueueInv
  <2>2. Len(inQ) - 1 = l + 1 /\ m \in 1 .. Len(inQ) - 1 /\ l + 1 = m
    BY <1>8, <1>9
  <2> QED
    BY <1>4, <2>1, <2>2
<1>12. Outcome(r, s)'
  <2>1. Outcome(r, s)
    BY <1>2, <1>3 DEF AnsweredBy
  <2> QED
    BY <1>4, <2>1, OutcomeSame
<1>13. AnsweredBy(l, t)'
  BY <1>2, <1>3, <1>4, <1>5, <1>10, <1>11, <1>12 DEF AnsweredBy
<1> QED
  BY <1>13, AnsweredAgain DEF QueueInv

\* send_status queues the CSW behind the reply.
LEMMA AnsweredStarts ==
  ASSUME DataInv, QueueInv', SendStatus, kpc' = "next"
  PROVE  Answered'
<1>0. TypeInv /\ QueueInv /\ ControlInv /\ OutcomeInv /\ TagInv /\ EmptiedInv
      /\ RepliedInv
  BY DEF DataInv, StatusInv
<1>1. /\ kpc = "status" /\ ~Busy(fill) /\ state = "NORMAL"
      /\ UNCHANGED <<common, file, hpc, cmd, sent, received, stopped>>
      /\ OnlyAt(fill) /\ bh'[fill].kind = "csw" /\ bh'[fill].data = <<Csw>>
      /\ inQ' = Append(inQ, fill) /\ fill \in Buffers
  BY <1>0, SendStatusForm DEF hostVars, TypeInv
<1>2. hpc # "reset"
  BY <1>0, <1>1 DEF ControlInv
<1>3. PICK t \in Told : t = Csw
  BY <1>0, CswIs
<1>4. PICK r \in Nat, s \in {"OK", "FAIL", "PHASE"} : r = t.residue /\ s = t.status
  BY DEF Told
<1>5. r = common.residue /\ s = Csw.status /\ t.tag = common.tag
  BY <1>0, <1>3, <1>4, CswIs
<1>6. t.tag = cmd.tag
  BY <1>0, <1>1, <1>5 DEF TagInv, Working
<1>7. Outcome(r, s)'
  <2>1. Outcome(r, s)
    BY <1>0, <1>1, <1>2, <1>5 DEF OutcomeInv
  <2> QED
    BY <1>1, <2>1, OutcomeSame
<1>8. PICK m \in Nat : m = Len(inQ)
  BY <1>0, LenProperties DEF QueueInv
<1>9. /\ Len(inQ') = m + 1 /\ inQ'[m + 1] = fill
      /\ \A i \in 1 .. m : inQ'[i] = inQ[i]
  BY <1>0, <1>1, <1>8, InAppend DEF QueueInv
<1>10. DataDir' = DataDir
  BY <1>1 DEF DataDir
<1>11. DataDir = "in" => Replied(m, r)'
  <2>1. KeepsQueue(m)
    <3>1. ~IsIn(fill, inQ)
      BY <1>0, <1>1 DEF QueueInv, Busy
    <3>2. \A j \in 1 .. m : bh'[inQ[j]] = bh[inQ[j]]
      BY <1>0, <1>1, <1>8, <3>1, QueueKept
    <3> QED
      BY <1>9, <3>2 DEF KeepsQueue
  <2>2. DataDir = "in" => Replied(m, r)
    BY <1>0, <1>1, <1>2, <1>5, <1>8 DEF RepliedInv
  <2> QED
    BY <1>1, <2>1, <2>2, RepliedKept
<1>12. DataDir # "in" => hpc = "status" /\ m = 0
  <2>1. SUFFICES ASSUME DataDir # "in" PROVE hpc = "status" /\ m = 0
    OBVIOUS
  <2>2. AllEmpty /\ hpc \in {"status", "reset"}
    BY <1>0, <1>1, <2>1 DEF EmptiedInv
  <2>3. inQ = <<>>
    BY <1>0, <2>2, EmptyIsIdle, NothingQueued
  <2> QED
    BY <1>2, <1>8, <2>2, <2>3
<1>13. bh'[inQ'[m + 1]].kind = "csw" /\ bh'[inQ'[m + 1]].data = <<t>>
  BY <1>1, <1>3, <1>9
<1>14. t.tag = cmd'.tag /\ hpc' = hpc
  BY <1>1, <1>6
<1>15. AnsweredBy(m, t)'
  BY <1>4, <1>7, <1>9, <1>10, <1>11, <1>12, <1>13, <1>14 DEF AnsweredBy
<1> QED
  BY <1>15, AnsweredAgain DEF QueueInv

\* Every step keeps the answer to a command.
LEMMA AnsweredStep ==
  ASSUME DataInv, Next, QueueInv'
  PROVE  AnsweredInv'
<1>0. TypeInv /\ QueueInv /\ ControlInv /\ HostInv /\ RestInv /\ AnsweredInv
  BY DEF DataInv, StatusInv
<1>1. ASSUME kpc' \notin {"next", "cbw"} PROVE AnsweredInv'
  BY <1>1 DEF AnsweredInv, Asked
<1>2. CASE SendStatus
  <2>1. CASE kpc' = "next"
    <3>1. Answered'
      BY <1>2, <2>1, AnsweredStarts
    <3> QED
      BY <3>1 DEF AnsweredInv
  <2>2. CASE kpc' = "cancel"
    BY <1>1, <2>2
  <2> QED
    BY <1>2, <2>1, <2>2 DEF SendStatus, Unless
<1>3. CASE AskForCbw
  <2>1. kpc = "next" /\ UNCHANGED <<inQ, received, cmd, hpc, file, stopped>>
    BY <1>3 DEF AskForCbw, hostVars
  <2>2. CASE hpc \in {"idle", "reset"}
    BY <2>1, <2>2 DEF AnsweredInv
  <2>3. CASE hpc \notin {"idle", "reset"}
    <3>1. ~Busy(fill) /\ fill \in Buffers /\ StartOut("cbw", 1)
      BY <1>0, <1>3 DEF AskForCbw, TypeInv
    <3>2. OnlyAt(fill)
      BY <1>0, <3>1, StartOutForm
    <3>3. ~IsIn(fill, inQ)
      BY <1>0, <3>1 DEF QueueInv, Busy
    <3>4. KeepsQueue(Len(inQ))
      BY <1>0, <2>1, <3>1, <3>2, <3>3, QueueKept DEF KeepsQueue
    <3>5. Answered
      BY <1>0, <2>1, <2>3 DEF AnsweredInv
    <3>6. Answered'
      BY <1>0, <2>1, <3>4, <3>5, AnsweredKept
    <3> QED
      BY <3>6 DEF AnsweredInv
  <2> QED
    BY <2>2, <2>3
<1>4. CASE Complete
  <2>1. /\ UNCHANGED <<inQ, received, cmd, hpc, file, stopped, kpc, fill, outQ>>
        /\ KeepsQueue(Len(inQ))
    BY <1>0, <1>4, CompleteKeeps DEF hostVars
  <2>2. SUFFICES ASSUME kpc = "next" \/ Asked, hpc \notin {"idle", "reset"}
                 PROVE  Answered'
    BY <2>1 DEF AnsweredInv, Asked, IsIn
  <2>3. Answered
    BY <1>0, <2>2 DEF AnsweredInv
  <2> QED
    BY <1>0, <2>1, <2>3, AnsweredKept
<1>5. CASE HostReceive
  <2>1. UNCHANGED <<kpc, fill, outQ>> /\ hpc = "in"
    BY <1>5 DEF HostReceive, EndIn, ringVars
  <2>2. SUFFICES ASSUME kpc = "next" \/ Asked
                 PROVE  Answered'
    BY <2>1 DEF AnsweredInv, Asked, IsIn
  <2>3. Answered
    BY <1>0, <2>1, <2>2 DEF AnsweredInv
  <2> QED
    BY <1>0, <1>5, <2>3, AnsweredTaken
<1>6. CASE HostCbw
  <2>1. /\ hpc = "idle" /\ outQ # <<>> /\ outQ' = Tail(outQ) /\ kpc' = kpc
        /\ fill' = fill
    BY <1>6 DEF HostCbw, EndOut, ringVars
  <2>2. kpc = "cbw" /\ outQ = <<fill>>
    BY <1>0, <2>1, WhenIdle DEF RestInv, Asked
  <2>3. outQ' = <<>>
    BY <1>0, <2>1, <2>2, LastOfTail DEF QueueInv
  <2>4. ~Asked' /\ kpc' # "next"
    BY <2>1, <2>2, <2>3 DEF Asked, IsIn
  <2> QED
    BY <2>4 DEF AnsweredInv
<1>7. CASE HostSend \/ HostStops
  <2>1. kpc' = kpc /\ kpc \notin {"next", "cbw"}
    BY <1>7, WhenSending DEF HostSend, HostStops, HostSendUnits
  <2> QED
    BY <1>1, <2>1
<1>8. CASE HostStatus \/ HostReset
  BY <1>8 DEF HostStatus, HostIsIdle, HostReset, AnsweredInv
<1>9. CASE ResetRing
  <2>1. CASE kpc' = "status"
    BY <1>1, <2>1
  <2>2. CASE HostIsIdle
    BY <2>2 DEF HostIsIdle, AnsweredInv
  <2> QED
    BY <1>9, <2>1, <2>2 DEF ResetRing
<1>10. CASE ReceivedCbw \/ StartCommand \/ ReadRound \/ VerifyRound
            \/ WriteRequest \/ WriteWaits \/ WriteStopsEarly \/ WriteRound
  <2>1. CASE StartCommand
    BY <1>0, <1>1, <2>1, StartCommandForm
       DEF StartsReply, StartsTransfer, StartsVerify, ToFinish
  <2>2. CASE ~StartCommand
    BY <1>1, <1>10, <2>2 DEF ReceivedCbw, ReadRound, VerifyRound,
       WriteRequest, WriteWaits, WriteStopsEarly, WriteRound, Unless
  <2> QED
    BY <2>1, <2>2
<1>11. CASE FinishReply \/ ThrowAwayRequest \/ ThrowAwayWaits \/ ThrowAway
            \/ AllThrownAway \/ Interrupted \/ CancelTransfer
  BY <1>1, <1>11 DEF FinishReply, ThrowAwayRequest, ThrowAwayWaits, ThrowAway,
     AllThrownAway, Interrupted, CancelTransfer, Unless
<1> QED
  BY <1>2, <1>3, <1>4, <1>5, <1>6, <1>7, <1>8, <1>9, <1>10, <1>11 DEF Next, Kthread

\* Every step keeps what is said of the status.
LEMMA StatusStep ==
  ASSUME DataInv, Next, TypeInv', QueueInv'
  PROVE  StatusInv'
BY OutcomeStep, TagStep, EmptiedStep, RepliedStep, AnsweredStep DEF StatusInv

-----------------------------------------------------------------------------
(* The invariant, and what it implies.                                     *)

\* Initially it holds: nothing is in use, and the host is idle.
LEMMA DataInit ==
  ASSUME Init
  PROVE  DataInv
<1>1. bh = [b \in Buffers |-> Free] /\ \A b \in Buffers : bh[b] = Free
  BY DEF Init
<1>2. /\ fill = 0 /\ drain = 0 /\ 0 \in Buffers
      /\ inQ = <<>> /\ outQ = <<>> /\ ended = <<>>
      /\ kpc = "next" /\ common = Idle
      /\ left = 0 /\ to_req = 0 /\ more = FALSE
      /\ cancelled = 0 /\ state = "NORMAL"
      /\ file = [p \in 0 .. FileLen - 1 |-> Old]
      /\ hpc = "idle" /\ cmd = NoCommand
      /\ sent = 0 /\ received = <<>> /\ stopped = FALSE
  BY ConstantsAre DEF Init, Buffers
<1>3. \A b \in Buffers : bh[b].state = "EMPTY" /\ ~Busy(b)
  BY <1>1, FreeIs DEF Busy
<1>4. Idle \in Commons
  BY DEF Idle, Commons
<1>5. /\ cmd \in [op : DOMAIN Direction, dir : {"none", "in", "out"}, start : Nat,
                  size : Nat, len : Nat, tag : BOOLEAN]
      /\ cmd.op = "TEST_UNIT_READY" /\ cmd.start = 0 /\ cmd.size = 0 /\ cmd.len = 0
  BY <1>2 DEF NoCommand, Direction
<1>6. DataDir = "none"
  BY <1>5 DEF DataDir
<1>7. <<>> \in Seq(Buffers) /\ <<>> \in Contents /\ Len(<<>>) = 0
  BY EmptySeq DEF Contents
<1>8. \A b : ~IsIn(b, <<>>)
  BY <1>7 DEF IsIn
<1>9. TypeInv
  <2>1. bh \in [Buffers -> Buffer]
    BY <1>1, FreeIs
  <2>2. file \in [0 .. FileLen - 1 -> Int]
    BY <1>2 DEF Old
  <2>3. cancelled \in 0 .. NumBuffers
    BY <1>2, ConstantsAre
  <2>4. fill \in Buffers /\ drain \in Buffers /\ common \in Commons
    BY <1>2, <1>4
  <2>5. left \in Nat /\ to_req \in Nat /\ more \in BOOLEAN /\ stopped \in BOOLEAN
        /\ sent \in Nat
    BY <1>2
  <2>6. kpc \in Working \union {"next", "cbw", "start", "cancel"}
        /\ state \in States /\ hpc \in {"idle", "in", "out", "status", "reset"}
    BY <1>2 DEF States
  <2>7. received \in Contents
    BY <1>2, <1>7
  <2> QED
    BY <1>5, <2>1, <2>2, <2>3, <2>4, <2>5, <2>6, <2>7, Zenon DEF TypeInv
<1>10. QueueInv
  BY <1>2, <1>3, <1>7, <1>8 DEF QueueInv, Once
<1>11. ControlInv
  BY <1>2, <1>3 DEF ControlInv
<1>12. HostInv
  <2>1. 0 % BlockLen = 0
    BY ModMultiple, ConstantsAre
  <2> QED
    BY <1>2, <1>5, <1>6, <2>1 DEF HostInv
<1>13. \A p \in DOMAIN file : file[p] = Old
  BY <1>2
<1>14. FileInv
  BY <1>13 DEF FileInv
<1>15. RestInv
  BY <1>2, <1>3, <1>13 DEF RestInv, Asked, Commanded, Untouched
<1>16. FreshInv /\ AmountInv
  BY <1>2 DEF FreshInv, AmountInv, Working
<1>17. ReplyInv
  <2>1. Len(received) <= cmd.len
    BY <1>2, <1>5, <1>7
  <2> QED
    BY <1>2, <2>1 DEF ReplyInv
<1>18. StatusInv
  BY <1>2 DEF StatusInv, OutcomeInv, TagInv, EmptiedInv, RepliedInv, AnsweredInv,
     Working
<1>19. OutInv
  BY <1>2 DEF OutInv, Taking
<1> QED
  BY <1>9, <1>10, <1>11, <1>12, <1>14, <1>15, <1>16, <1>17, <1>18, <1>19 DEF DataInv

\* Nothing happens.
LEMMA DataStutter ==
  ASSUME DataInv, UNCHANGED vars
  PROVE  DataInv'
<1>0. /\ TypeInv /\ QueueInv /\ ControlInv /\ HostInv /\ FileInv /\ RestInv
      /\ FreshInv /\ ReplyInv /\ StatusInv /\ OutInv /\ AmountInv
  BY DEF DataInv
<1>1. UNCHANGED <<bh, fill, drain, inQ, outQ, ended, kpc, common, left, to_req,
                  more, cancelled, state, file, hpc, cmd, sent, received, stopped>>
  BY DEF vars, ringVars, udcVars, ioVars, hostVars
<1>2. TypeInv'
  BY <1>0, <1>1 DEF TypeInv
<1>3. QueueInv'
  BY <1>0, <1>1, QueueSame
<1>4. ControlInv'
  BY <1>0, <1>1 DEF ControlInv, Busy
<1>5. HostInv'
  BY <1>0, <1>1, HostSame DEF hostVars
<1>6. FileInv'
  BY <1>0, <1>1, FileSame
<1>7. RestInv'
  BY <1>0, <1>1 DEF RestInv, Asked, Commanded, IsIn, Begun, Untouched
<1>8. FreshInv'
  BY <1>0, <1>1 DEF FreshInv, AllEmpty, Begun, Untouched
<1>9. ReplyInv'
  BY <1>0, <1>1 DEF ReplyInv, ReplyRing, Flow, InOrder, Going, Pending, Moved, Base,
     DataDir, Busy, AllEmpty, Begun, Untouched
<1>10. StatusInv'
  <2>0. OutcomeInv /\ TagInv /\ EmptiedInv /\ RepliedInv /\ AnsweredInv
    BY <1>0 DEF StatusInv
  <2>1. KeepsQueue(Len(inQ)) /\ DataDir' = DataDir
    BY <1>1 DEF KeepsQueue, DataDir
  <2>2. OutcomeInv'
    BY <1>0, <1>1, <2>0, OutcomeKept DEF Due
  <2>3. TagInv'
    BY <1>1, <2>0 DEF TagInv
  <2>4. EmptiedInv'
    BY <1>1, <2>0, <2>1 DEF EmptiedInv, AllEmpty
  <2>5. RepliedInv'
    <3>1. SUFFICES ASSUME kpc = "status", DataDir = "in", hpc # "reset"
                   PROVE  Replied(Len(inQ), common.residue)'
      BY <1>1, <2>1 DEF RepliedInv
    <3>2. PICK r \in Nat : r = common.residue
      BY <1>0 DEF TypeInv, Commons
    <3>3. PICK m \in Nat : m = Len(inQ)
      BY <1>0, LenProperties DEF QueueInv
    <3>4. Replied(m, r)
      BY <2>0, <3>1, <3>2, <3>3 DEF RepliedInv
    <3>5. Replied(m, r)'
      BY <1>1, <2>1, <3>3, <3>4, RepliedKept
    <3>6. r = common'.residue /\ m = Len(inQ')
      BY <1>1, <3>2, <3>3
    <3> QED
      BY <3>5, <3>6
  <2>6. AnsweredInv'
    <3>1. SUFFICES ASSUME kpc = "next" \/ Asked, hpc \notin {"idle", "reset"}
                   PROVE  Answered'
      BY <1>1 DEF AnsweredInv, Asked, IsIn
    <3>2. Answered
      BY <2>0, <3>1 DEF AnsweredInv
    <3> QED
      BY <1>0, <1>1, <1>3, <2>1, <3>2, AnsweredKept
  <2> QED
    BY <2>2, <2>3, <2>4, <2>5, <2>6 DEF StatusInv
<1>11. OutInv'
  <2>1. DataDir' = DataDir
    BY <1>1 DEF DataDir
  <2>2. CASE ~Taking
    <3>1. /\ kpc' \notin {"write", "drain", "throw", "toss"}
          /\ kpc' # "finish" \/ DataDir' # "out"
      BY <1>1, <2>1, <2>2 DEF Taking
    <3> QED
      BY <3>1, OutElsewhere
  <2>3. CASE Taking
    <3>1. DataDir = "out"
      BY <1>0, <2>3, OutHas
    <3>2. PICK k \in 0 .. NumBuffers : \E f \in [0 .. k -> Nat] : OutAt(k, f)
      BY <1>0, <2>3, OutHas
    <3>3. PICK f \in [0 .. k -> Nat] : OutAt(k, f)
      BY <3>2
    <3>4. Ring(k, f)' /\ Sent(k, f)'
      BY <1>1, <3>3, RingSame DEF OutAt
    <3>5. Writing(k, f) => Writing(k, f)'
      BY <1>1 DEF Writing
    <3>6. /\ kpc' \in {"write", "drain"} => Writing(k, f)'
          /\ kpc' \in {"drain", "toss"} => k > 0
          /\ kpc' = "finish" /\ common'.residue = 0 =>
               k = 0 /\ common'.usb_amount_left = 0
      BY <1>1, <3>3, <3>5 DEF OutAt
    <3> QED
      BY <2>1, <3>1, <3>4, <3>6, OutAgain
  <2> QED
    BY <2>2, <2>3
<1>12. AmountInv'
  BY <1>0, <1>1, AmountSame
<1> QED
  BY <1>2, <1>3, <1>4, <1>5, <1>6, <1>7, <1>8, <1>9, <1>10, <1>11, <1>12 DEF DataInv

\* Every step keeps the invariant.
LEMMA DataStep ==
  ASSUME DataInv, [Next]_vars
  PROVE  DataInv'
<1>1. CASE Next
  <2>1. TypeInv' /\ QueueInv'
    BY <1>1, TypeStep, QueueStep
  <2>2. StatusInv'
    BY <1>1, <2>1, StatusStep
  <2> QED
    BY <1>1, <2>1, <2>2, ControlStep, HostStep, FileStep, RestStep, FreshStep,
       ReplyStep, OutStep, AmountStep DEF DataInv
<1>2. CASE UNCHANGED vars
  BY <1>2, DataStutter
<1> QED
  BY <1>1, <1>2

\* The kthread, the controller and the host keep the ring, the queues and the
\* command in step.
THEOREM DataInvariant == Spec => []DataInv
<1>1. Init => DataInv
  BY DataInit
<1>2. DataInv /\ [Next]_vars => DataInv'
  BY DataStep
<1> QED
  BY <1>1, <1>2, PTL DEF Spec

-----------------------------------------------------------------------------
(* The properties.                                                         *)

\* Two queues without a buffer in common, one after the other.
LEMMA OnceTogether ==
  ASSUME NEW p \in Seq(Buffers), NEW q \in Seq(Buffers), Once(p), Once(q),
         \A b \in Buffers : ~(IsIn(b, p) /\ IsIn(b, q))
  PROVE  /\ p \o q \in Seq(Buffers) /\ Once(p \o q)
         /\ \A b \in Buffers : IsIn(b, p \o q) <=> IsIn(b, p) \/ IsIn(b, q)
<1>1. PICK m \in Nat : m = Len(p)
  BY LenProperties
<1>2. PICK n \in Nat : n = Len(q)
  BY LenProperties
<1>3. PICK s \in Seq(Buffers) : s = p \o q
  BY ConcatProperties
<1>4. /\ Len(s) = m + n
      /\ \A i \in 1 .. m + n : s[i] = IF i <= m THEN p[i] ELSE q[i - m]
  BY <1>1, <1>2, <1>3, ConcatProperties
<1>5. ASSUME NEW i \in 1 .. m + n
      PROVE  \/ i \in 1 .. m /\ s[i] = p[i] /\ s[i] \in Buffers /\ IsIn(s[i], p)
             \/ /\ i - m \in 1 .. n /\ s[i] = q[i - m] /\ s[i] \in Buffers
                /\ IsIn(s[i], q)
  <2>1. CASE i <= m
    <3>1. i \in 1 .. m /\ s[i] = p[i]
      BY <1>4, <2>1
    <3>2. p[i] \in Buffers
      BY <1>1, <3>1, ElementOfSeq
    <3> QED
      BY <1>1, <3>1, <3>2 DEF IsIn
  <2>2. CASE ~(i <= m)
    <3>1. PICK j \in 1 .. n : j = i - m
      BY <2>2
    <3>2. s[i] = q[j]
      BY <1>4, <2>2, <3>1
    <3>3. q[j] \in Buffers
      BY <1>2, ElementOfSeq
    <3> QED
      BY <1>2, <3>1, <3>2, <3>3 DEF IsIn
  <2> QED
    BY <2>1, <2>2
<1>6. Once(s)
  <2>1. SUFFICES ASSUME NEW i \in 1 .. m + n, NEW j \in 1 .. m + n, s[i] = s[j]
                 PROVE  i = j
    BY <1>4 DEF Once
  <2>2. CASE i \in 1 .. m /\ j \in 1 .. m /\ s[i] = p[i] /\ s[j] = p[j]
    BY <1>1, <2>1, <2>2 DEF Once
  <2>3. CASE i - m \in 1 .. n /\ j - m \in 1 .. n
             /\ s[i] = q[i - m] /\ s[j] = q[j - m]
    <3>1. PICK x \in 1 .. n, y \in 1 .. n : x = i - m /\ y = j - m
      BY <2>3
    <3>2. x = y
      BY <1>2, <2>1, <2>3, <3>1 DEF Once
    <3> QED
      BY <3>1, <3>2
  <2>4. CASE s[i] \in Buffers /\ (\/ IsIn(s[i], p) /\ IsIn(s[j], q)
                                  \/ IsIn(s[i], q) /\ IsIn(s[j], p))
    BY <2>1, <2>4
  <2> QED
    BY <1>5, <2>2, <2>3, <2>4
<1>7. ASSUME NEW b \in Buffers
      PROVE  IsIn(b, s) <=> IsIn(b, p) \/ IsIn(b, q)
  <2>1. ASSUME IsIn(b, s) PROVE IsIn(b, p) \/ IsIn(b, q)
    <3>1. PICK i \in 1 .. m + n : s[i] = b
      BY <1>4, <2>1 DEF IsIn
    <3> QED
      BY <1>5, <3>1
  <2>2. ASSUME IsIn(b, p) PROVE IsIn(b, s)
    <3>1. PICK i \in 1 .. m : p[i] = b
      BY <1>1, <2>2 DEF IsIn
    <3>2. i \in 1 .. m + n /\ s[i] = b
      BY <1>4, <3>1
    <3> QED
      BY <1>4, <3>2 DEF IsIn
  <2>3. ASSUME IsIn(b, q) PROVE IsIn(b, s)
    <3>1. PICK j \in 1 .. n : q[j] = b
      BY <1>2, <2>3 DEF IsIn
    <3>2. PICK i \in 1 .. m + n : i = m + j /\ ~(i <= m) /\ i - m = j
      OBVIOUS
    <3>3. s[i] = b
      BY <1>4, <3>1, <3>2
    <3> QED
      BY <1>4, <3>3 DEF IsIn
  <2> QED
    BY <2>1, <2>2, <2>3
<1> QED
  BY <1>3, <1>6, <1>7

\* A queue is no longer than there are buffers.
LEMMA OnceBounded ==
  ASSUME NEW q \in Seq(Buffers), Once(q)
  PROVE  Len(q) <= NumBuffers
<1>1. PICK n \in Nat : n = Len(q)
  BY LenProperties
<1>2. IsFiniteSet(Buffers) /\ Cardinality(Buffers) = NumBuffers
  <2>1. NumBuffers - 1 \in Int /\ ~(0 > NumBuffers - 1)
        /\ NumBuffers - 1 - 0 + 1 = NumBuffers
    BY ConstantsAre
  <2> QED
    BY <2>1, FS_Interval DEF Buffers
<1>3. IsFiniteSet(1 .. n) /\ Cardinality(1 .. n) = n
  <2>1. n \in Int /\ 1 \in Int /\ (1 > n => n = 0) /\ n - 1 + 1 = n
    OBVIOUS
  <2> QED
    BY <2>1, FS_Interval
<1>4. q \in [1 .. n -> Buffers]
  BY <1>1, LenProperties
<1>5. ~(\E x, y \in 1 .. n : x # y /\ q[x] = q[y])
  BY <1>1 DEF Once
<1>6. ~(NumBuffers < n)
  BY <1>2, <1>3, <1>4, <1>5, FS_PigeonHole
<1> QED
  BY <1>1, <1>6, ConstantsAre

\* What is in a queue of the controller is in no other.
LEMMA QueuesApart ==
  ASSUME QueueInv
  PROVE  /\ inQ \o outQ \o ended \in Seq(Buffers) /\ Once(inQ \o outQ \o ended)
         /\ \A b \in Buffers : Busy(b) <=> IsIn(b, inQ \o outQ \o ended)
<1>1. \A b \in Buffers : ~(IsIn(b, inQ) /\ IsIn(b, outQ))
  BY DEF QueueInv
<1>2. PICK p \in Seq(Buffers) :
        /\ p = inQ \o outQ /\ Once(p)
        /\ \A b \in Buffers : IsIn(b, p) <=> IsIn(b, inQ) \/ IsIn(b, outQ)
  <2>1. inQ \in Seq(Buffers) /\ outQ \in Seq(Buffers) /\ Once(inQ) /\ Once(outQ)
    BY DEF QueueInv
  <2>2. /\ inQ \o outQ \in Seq(Buffers) /\ Once(inQ \o outQ)
        /\ \A b \in Buffers :
             IsIn(b, inQ \o outQ) <=> IsIn(b, inQ) \/ IsIn(b, outQ)
    BY <1>1, <2>1, OnceTogether
  <2> QED
    BY <2>2, Zenon
<1>3. \A b \in Buffers : ~(IsIn(b, p) /\ IsIn(b, ended))
  BY <1>2 DEF QueueInv
<1>4. /\ p \o ended \in Seq(Buffers) /\ Once(p \o ended)
      /\ \A b \in Buffers : IsIn(b, p \o ended) <=> IsIn(b, p) \/ IsIn(b, ended)
  BY <1>2, <1>3, OnceTogether DEF QueueInv
<1>5. \A b \in Buffers : Busy(b) <=> IsIn(b, p) \/ IsIn(b, ended)
  <2>1. ASSUME NEW b \in Buffers, Busy(b) PROVE IsIn(b, p) \/ IsIn(b, ended)
    BY <1>2, <2>1 DEF QueueInv
  <2>2. ASSUME NEW b \in Buffers, IsIn(b, p) \/ IsIn(b, ended) PROVE Busy(b)
    BY <1>2, <2>2 DEF QueueInv, Busy
  <2> QED
    BY <2>1, <2>2
<1> QED
  BY <1>2, <1>4, <1>5

\* The invariant implies the types, and that the queues hold what is busy.
LEMMA TypeFollows ==
  ASSUME DataInv
  PROVE  TypeOK
<1>0. TypeInv /\ QueueInv
  BY DEF DataInv
<1>1. Len(inQ \o outQ \o ended) <= NumBuffers
  BY <1>0, QueuesApart, OnceBounded
<1>2. \A b \in Buffers : Busy(b) <=> IsIn(b, inQ \o outQ \o ended)
  BY <1>0, QueuesApart
<1>3. \A b \in Buffers :
        /\ IsIn(b, inQ) => bh[b].state = "SENDING"
        /\ IsIn(b, outQ) => bh[b].state = "RECEIVING"
  BY <1>0 DEF QueueInv
<1>4. \A b \in Buffers : bh[b].state \in {"EMPTY", "SENDING", "RECEIVING", "FULL"}
  BY <1>0 DEF TypeInv, Buffer
<1>5. /\ fill \in Buffers /\ drain \in Buffers /\ left \in Nat /\ to_req \in Nat
      /\ common.residue \in Nat /\ common.usb_amount_left \in Nat
      /\ cancelled \in 0 .. NumBuffers
      /\ state \in {"NORMAL", "ABORT_BULK_OUT", "PROTOCOL_RESET"}
  BY <1>0 DEF TypeInv, Commons, States
<1> QED
  BY <1>1, <1>2, <1>3, <1>4, <1>5, Zenon DEF TypeOK

\* It implies that the kthread takes only what the host was asked to fill,
LEMMA DrainFollows ==
  ASSUME DataInv
  PROVE  DrainsReceived
<1>0. TypeInv /\ OutInv
  BY DEF DataInv
<1>1. SUFFICES ASSUME kpc \in {"drain", "toss"}
               PROVE  bh[drain].state \in {"RECEIVING", "FULL"}
                      /\ bh[drain].kind = "data"
  BY DEF DrainsReceived
<1>2. PICK k \in 0 .. NumBuffers : \E f \in [0 .. k -> Nat] : OutAt(k, f)
  BY <1>0, <1>1, OutHas DEF Taking
<1>3. PICK f \in [0 .. k -> Nat] : OutAt(k, f)
  BY <1>2
<1>4. k > 0 /\ 0 \in 0 .. k - 1
  BY <1>1, <1>3, ConstantsAre DEF OutAt
<1>5. bh[Slot(drain, 0)].state \in {"RECEIVING", "FULL"}
      /\ bh[Slot(drain, 0)].kind = "data"
  BY <1>3, <1>4 DEF OutAt, Ring
<1> QED
  BY <1>0, <1>5, SlotIs DEF TypeInv

\* that what is written is in its place,
LEMMA FileFollows ==
  ASSUME DataInv
  PROVE  WrittenInPlace
<1>1. SUFFICES ASSUME NEW p \in DOMAIN file, file[p] # Old
               PROVE  cmd.op = "WRITE" /\ p = cmd.start + file[p] /\ file[p] < sent
  BY DEF WrittenInPlace
<1>2. cmd.op = "WRITE" /\ p = cmd.start + file[p] /\ file[p] \in 0 .. sent - 1
  BY <1>1 DEF DataInv, FileInv
<1>3. sent \in Nat
  BY DEF DataInv, TypeInv
<1> QED
  BY <1>2, <1>3

\* What the host is about to fill is a buffer for data.
LEMMA OutIsData ==
  ASSUME DataInv, hpc = "out", outQ # <<>>
  PROVE  bh[Head(outQ)].kind = "data"
<1>0. TypeInv /\ QueueInv /\ ControlInv /\ HostInv /\ ReplyInv /\ StatusInv
      /\ OutInv /\ AmountInv
  BY DEF DataInv
<1>1. kpc \notin {"next", "cbw"} /\ DataDir = "out" /\ ~stopped
  BY <1>0, WhenSending DEF HostInv
<1>2. kpc \notin {"start", "verify"}
  BY FreshIsQuiet
<1>3. kpc # "read"
  BY <1>0, <1>1, ReadAmounts
<1>4. kpc # "status"
  BY <1>0, <1>1 DEF StatusInv, EmptiedInv
<1>5. kpc # "cancel"
  BY <1>0, <1>1 DEF ControlInv, TypeInv, States
<1>6. Taking
  BY <1>0, <1>1, <1>2, <1>3, <1>4, <1>5 DEF Taking, TypeInv, Working
<1>7. PICK k \in 0 .. NumBuffers : \E f \in [0 .. k -> Nat] : OutAt(k, f)
  BY <1>0, <1>6, OutHas
<1>8. PICK f \in [0 .. k -> Nat] : Ring(k, f) /\ Sent(k, f)
  BY <1>7 DEF OutAt
<1>9. PICK l \in Nat : l = Len(outQ) /\ l > 0 /\ Head(outQ) = outQ[1]
  BY <1>0, InTail DEF QueueInv
<1>10. PICK e \in 0 .. k : k = e + l /\ outQ[1] = Slot(drain, e + 1 - 1)
  <2>1. PICK e \in 0 .. k : k = e + Len(outQ) /\ SentUpTo(e, f)
    BY <1>8 DEF Sent
  <2>2. 1 \in 1 .. Len(outQ)
    BY <1>9
  <2>3. outQ[1] = Slot(drain, e + 1 - 1)
    BY <2>1, <2>2 DEF SentUpTo
  <2> QED
    BY <1>9, <2>1, <2>3
<1>11. e \in 0 .. k - 1 /\ e + 1 - 1 = e
  BY <1>9, <1>10
<1>12. bh[Slot(drain, e)].kind = "data"
  BY <1>8, <1>11 DEF Ring
<1> QED
  BY <1>9, <1>10, <1>11, <1>12

\* What the host is about to take, in the data phase, is data.
LEMMA InIsData ==
  ASSUME DataInv, hpc = "in", inQ # <<>>
  PROVE  bh[Head(inQ)].kind = "data"
<1>0. TypeInv /\ QueueInv /\ HostInv /\ ReplyInv /\ StatusInv
  BY DEF DataInv
<1>1. PICK l \in Nat : l = Len(inQ) /\ l > 0 /\ Head(inQ) = inQ[1]
  BY <1>0, InTail DEF QueueInv
<1>2. ASSUME NEW m \in Nat, m > 0, NEW g \in [0 .. m -> Nat], Flow(g, m)
      PROVE  bh[Head(inQ)].kind = "data"
  <2>1. 1 \in 1 .. m
    BY <1>2
  <2> QED
    BY <1>1, <1>2, <2>1 DEF Flow
<1>3. DataDir = "in"
  BY <1>0 DEF HostInv
<1>4. CASE kpc = "next" \/ Asked
  <2>1. PICK m \in Nat : \E t \in Told : AnsweredBy(m, t)
    BY <1>0, <1>4, AnsweredHas DEF QueueInv, StatusInv, AnsweredInv
  <2>2. PICK t \in Told : AnsweredBy(m, t)
    BY <2>1
  <2>3. Replied(m, t.residue)
    BY <1>3, <2>2 DEF AnsweredBy
  <2>4. m > 0 /\ \E g \in [0 .. m -> Nat] : Flow(g, m)
    BY <2>3 DEF Replied
  <2> QED
    BY <1>2, <2>4
<1>5. CASE kpc = "status"
  <2>1. Replied(Len(inQ), common.residue)
    BY <1>0, <1>3, <1>5 DEF StatusInv, RepliedInv
  <2>2. \E g \in [0 .. l -> Nat] : Flow(g, l)
    BY <1>1, <2>1 DEF Replied
  <2> QED
    BY <1>1, <1>2, <2>2
<1>6. CASE kpc \in {"read", "finish"}
  <2>1. CASE Replying
    <3>1. Ready
      BY <1>0, <2>1, ReplyHas
    <3>2. \E g \in [0 .. l -> Nat] : Flow(g, l)
      BY <1>1, <3>1 DEF Ready, ReadyAt
    <3> QED
      BY <1>1, <1>2, <3>2
  <2>2. CASE ~Replying
    <3>1. AllEmpty
      BY <1>0, <1>3, <1>6, <2>2 DEF Replying, ReplyInv
    <3> QED
      BY <1>0, <3>1, EmptyIsIdle, NothingQueued
  <2> QED
    BY <2>1, <2>2
<1> QED
  BY <1>4, <1>5, <1>6, WhenTaken

\* What the host is about to take as the status is the CSW of its command.
LEMMA StatusIsCsw ==
  ASSUME DataInv, hpc = "status", inQ # <<>>
  PROVE  /\ bh[Head(inQ)].kind = "csw"
         /\ \E t \in Told :
              /\ CswAhead = t /\ t.tag = cmd.tag /\ Outcome(t.residue, t.status)
              /\ DataDir = "in" => Replied(0, t.residue)
<1>0. TypeInv /\ QueueInv /\ StatusInv
  BY DEF DataInv
<1>1. (kpc = "next" \/ Asked) /\ Len(inQ) = 1 /\ inQ \in Seq(Buffers)
  BY WhenAnswered
<1>2. Answered
  BY <1>0, <1>1 DEF StatusInv, AnsweredInv
<1>3. PICK m \in Nat : \E t \in Told : AnsweredBy(m, t)
  BY <1>1, <1>2, AnsweredHas
<1>4. PICK t \in Told : AnsweredBy(m, t)
  BY <1>3
<1>5. m = 0 /\ m + 1 = 1
  BY <1>1, <1>4 DEF AnsweredBy
<1>6. Head(inQ) = inQ[1]
  BY <1>1, InTail
<1>7. bh[Head(inQ)].kind = "csw" /\ bh[Head(inQ)].data = <<t>>
  BY <1>4, <1>5, <1>6 DEF AnsweredBy
<1>8. CswAhead = t
  BY <1>7 DEF CswAhead
<1> QED
  BY <1>4, <1>5, <1>7, <1>8 DEF AnsweredBy

\* that the host finds what it waits for,
LEMMA InStepFollows ==
  ASSUME ~EmptyCommands, DataInv
  PROVE  InStep
<1>0. TypeInv /\ QueueInv /\ HostInv /\ RestInv /\ ReplyInv
  BY DEF DataInv
<1>1. hpc = "out" => outQ = <<>> \/ Sending(outQ, "data")
  BY OutIsData DEF Sending
<1>2. hpc = "in" => inQ = <<>> \/ Sending(inQ, "data")
  BY InIsData DEF Sending
<1>3. ASSUME hpc = "idle", outQ # <<>> PROVE Sending(outQ, "cbw")
  <2>1. kpc = "cbw" /\ outQ = <<fill>>
    BY <1>0, <1>3, WhenIdle DEF RestInv, Asked
  <2>2. bh[fill].kind = "cbw"
    BY <1>0, <2>1 DEF RestInv
  <2>3. Head(outQ) = fill
    BY <2>1
  <2> QED
    BY <1>3, <2>2, <2>3 DEF Sending
<1>4. ASSUME hpc = "status", inQ # <<>>
      PROVE  Sending(inQ, "csw") /\ CswAhead.tag = cmd.tag
  BY <1>4, StatusIsCsw DEF Sending
<1>5. Len(received) <= cmd.len /\ sent <= cmd.len
  BY <1>0 DEF ReplyInv, HostInv
<1> QED
  BY <1>1, <1>2, <1>3, <1>4, <1>5 DEF InStep

\* that the CSW tells what has become of the command,
LEMMA ToldFollows ==
  ASSUME ~EmptyCommands, DataInv
  PROVE  TransferredAsTold
<1>0. TypeInv /\ HostInv /\ cmd.len \in Nat /\ cmd.start \in Nat
  BY SizeIs DEF DataInv
<1>1. SUFFICES ASSUME hpc = "status", Sending(inQ, "csw")
               PROVE  TransferredAsTold
  BY DEF TransferredAsTold
<1>2. PICK t \in Told :
        /\ CswAhead = t /\ Outcome(t.residue, t.status)
        /\ DataDir = "in" => Replied(0, t.residue)
  BY <1>1, StatusIsCsw DEF Sending
<1>3. PICK r \in Nat, s \in {"OK", "FAIL", "PHASE"} : r = t.residue /\ s = t.status
  BY DEF Told
<1>4. PICK n \in Nat : n = cmd.len - r /\ n <= cmd.len
  <2>1. cmd.len - r \in 0 .. cmd.len
    BY <1>2, <1>3 DEF Outcome
  <2> QED
    BY <1>0, <2>1
<1>5. cmd.len - CswAhead.residue = n /\ CswAhead.status = s
  BY <1>2, <1>3, <1>4
<1>6. n >= 0
  OBVIOUS
<1>7. cmd.dir = "in" =>
        received = Units(IF cmd.op = "READ" THEN cmd.start ELSE 0, n)
  <2>1. CASE DataDir = "in"
    <3>1. PICK g \in [0 .. 0 -> Nat] : InOrder(g, 0) /\ g[0] = cmd.len - r
      BY <1>2, <1>3, <2>1 DEF Replied
    <3>2. g[0] = n /\ received = Units(Base, g[0])
      BY <1>4, <3>1 DEF InOrder
    <3> QED
      BY <3>2 DEF Base
  <2>2. CASE cmd.len = 0
    <3>1. n = 0
      BY <1>4, <2>2
    <3>2. received = <<>>
      BY <1>0, <2>2 DEF HostInv, DataDir
    <3>3. Units(IF cmd.op = "READ" THEN cmd.start ELSE 0, 0) = <<>>
      BY <1>0, NoUnits
    <3> QED
      BY <3>1, <3>2, <3>3
  <2> QED
    BY <2>1, <2>2 DEF DataDir
<1>8. cmd.dir = "out" => \A i \in 0 .. n - 1 : /\ cmd.start + i \in DOMAIN file
                                               /\ file[cmd.start + i] = i
  <2>1. cmd.dir = "out" => DataDir # "in"
    BY DEF DataDir
  <2> QED
    BY <1>2, <1>3, <1>4, <2>1 DEF Outcome
<1>9. /\ s = "OK" /\ cmd.op \in {"READ", "WRITE"} /\ cmd.size < U32 /\ ~stopped =>
           n = AtMost(cmd.size, FileLen - cmd.start)
      /\ s = "OK" /\ cmd.op \in {"READ", "VERIFY"} /\ cmd.size < U32 =>
           cmd.start + cmd.size <= FileLen
  BY <1>2, <1>3, <1>4 DEF Outcome
<1> QED
  BY <1>5, <1>6, <1>7, <1>8, <1>9 DEF TransferredAsTold

\* and that the last buffer of a reply is set up.
LEMMA SetFollows ==
  ASSUME ~EmptyCommands, DataInv
  PROVE  AlreadySet
BY DEF DataInv, ReplyInv, AlreadySet

\* The types, and the ring and the queues of the controller agree: a buffer is
\* busy exactly while a request for it is in a queue, and none is in two
\* (start_transfer, the completion routines, handle_exception).
THEOREM TypeCorrect == Spec => []TypeOK
<1>1. DataInv => TypeOK
  BY TypeFollows
<1> QED
  BY <1>1, DataInvariant, PTL

\* do_write and throw_away_data wait for, and take, only what the host was
\* asked to fill.
THEOREM DrainsOnlyReceived == Spec => []DrainsReceived
<1>1. DataInv => DrainsReceived
  BY DrainFollows
<1> QED
  BY <1>1, DataInvariant, PTL

\* do_write puts every unit in its place, whatever it has under way.
THEOREM WritesInPlace == Spec => []WrittenInPlace
<1>1. DataInv => WrittenInPlace
  BY FileFollows
<1> QED
  BY <1>1, DataInvariant, PTL

\* Host and device stay in step: the host finds in the pipe what it waits for.
THEOREM HostInStep ==
  ASSUME ~EmptyCommands
  PROVE  Spec => []InStep
<1>1. DataInv => InStep
  BY InStepFollows
<1> QED
  BY <1>1, DataInvariant, PTL

\* The CSW tells what has become of the command.
THEOREM ToldAsTransferred ==
  ASSUME ~EmptyCommands
  PROVE  Spec => []TransferredAsTold
<1>1. DataInv => TransferredAsTold
  BY ToldFollows
<1> QED
  BY <1>1, DataInvariant, PTL

\* finish_reply finds its last buffer set up, as the comment in
\* do_scsi_command says, when no command asks for nothing.
THEOREM ReplyAlreadySet ==
  ASSUME ~EmptyCommands
  PROVE  Spec => []AlreadySet
<1>1. DataInv => AlreadySet
  BY SetFollows
<1> QED
  BY <1>1, DataInvariant, PTL
=============================================================================
