------------------------- MODULE UcieLinkDirProofs -------------------------
(***************************************************************************)
(* Proofs about UcieLinkDir for every value of its constants: the type     *)
(* invariant, in-order exactly-once delivery, no early release from the    *)
(* retry buffer, the soundness of the modular verdict, and that every step *)
(* is a step of ReliableFifo.                                              *)
(*                                                                         *)
(* The argument.  Frames travel through three FIFOs which together are one *)
(* pipe.  When a frame s enters the pipe it is unacknowledged, so every    *)
(* number handed out so far is below s + RetryBufferSize; what RxAdapter   *)
(* expects when s reaches it was advanced only by frames that were ahead   *)
(* of s in the pipe.  Hence s differs from the expected number by at most  *)
(* RetryBufferSize either way, which is half the wire numbers.             *)
(***************************************************************************)
EXTENDS UcieLinkDir, FiniteSetTheorems, WellFoundedInduction, TLAPS

-----------------------------------------------------------------------------
\* The inductive invariant

\* All frames between TxAdapter and RxAdapter, oldest first.
PipeLen == Len(toRx) + Len(line) + Len(toPhy)

PipeSeq(i) ==
  IF i <= Len(toRx) THEN toRx[i].seq
  ELSE IF i <= Len(toRx) + Len(line) THEN line[i - Len(toRx)].seq
  ELSE toPhy[i - (Len(toRx) + Len(line))]

\* What RxAdapter will expect when the frame it holds is dealt with.
Committed ==
  IF rxPc \in {"deliver", "ack"} THEN expectedSeq + 1 ELSE expectedSeq

\* The retry buffer is the window of the last numbers handed out; it starts
\* at or before the expected number.
RetryIsWindow ==
  \E b \in 0 .. nextSeq :
    /\ b <= expectedSeq
    /\ nextSeq <= b + RetryBufferSize
    /\ retry = b .. (nextSeq - 1)

ReceiverInv ==
  /\ Committed <= nextSeq
  /\ Len(delivered) = IF rxPc = "ack" THEN expectedSeq + 1 ELSE expectedSeq
  /\ rxPc = "deliver" => rxSeq = expectedSeq
  /\ rxPc = "dup" => expectedSeq > 0

\* No frame is further than a window from what is expected of RxAdapter, or
\* from any frame ahead of it.
PipeInv ==
  \A i \in 1 .. PipeLen :
    /\ PipeSeq(i) < nextSeq
    /\ Committed <= PipeSeq(i) + RetryBufferSize
    /\ \A j \in 1 .. i - 1 : PipeSeq(j) < PipeSeq(i) + RetryBufferSize

\* The frame being serialised will be the last of the pipe.
SerialInv ==
  txPc = "serialize" =>
    /\ txSeq < nextSeq
    /\ Committed <= txSeq + RetryBufferSize
    /\ \A i \in 1 .. PipeLen : PipeSeq(i) < txSeq + RetryBufferSize

\* No acknowledgement runs ahead of RxAdapter.
AcksOf(q) == \A i \in 1 .. Len(q) : ~q[i].nak => q[i].seq < expectedSeq
FeedbackInv == AcksOf(fbIn) /\ AcksOf(fbLine) /\ AcksOf(fbOut)

IInv ==
  /\ TypeOK
  /\ RetryIsWindow
  /\ ReceiverInv
  /\ InOrderExactlyOnce
  /\ PipeInv
  /\ SerialInv
  /\ FeedbackInv

-----------------------------------------------------------------------------
\* Lemmas on the operators the model is built from

\* A nonempty set of numbers has a lowest element: lower_bound finds it.
LEMMA LowestIsMinimum ==
  ASSUME NEW S \in SUBSET Nat, S # {}
  PROVE  Lowest(S) \in S /\ \A t \in S : Lowest(S) <= t
<1>1. PICK m \in S : \A t \in S : ~(<<t, m>> \in OpToRel(<, Nat))
  BY NatLessThanWellFounded, WFMin
<1>2. ASSUME NEW t \in S, t < m PROVE FALSE
  <2>1. <<t, m>> \in OpToRel(<, Nat)
    BY <1>2, ZenonT(20) DEF OpToRel
  <2>. QED  BY <2>1, <1>1
<1>3. \A t \in S : m <= t
  BY <1>2
<1>. QED  BY <1>3 DEF Lowest

\* The highest number of a window is its last.
LEMMA HighestOfWindow ==
  ASSUME NEW b \in Nat, NEW n \in Nat, b <= n - 1
  PROVE  Highest(b .. (n - 1)) = n - 1
BY DEF Highest

\* Division with remainder.
LEMMA DivMod ==
  ASSUME NEW m \in Nat \ {0}, NEW x \in Int
  PROVE  /\ x \div m \in Int
         /\ x % m \in 0 .. m - 1
         /\ x = m * (x \div m) + (x % m)
OBVIOUS

\* The remainder is unique.
LEMMA ModUnique ==
  ASSUME NEW m \in Nat \ {0}, NEW q \in Int, NEW r \in 0 .. m - 1
  PROVE  (m * q + r) % m = r
<1> DEFINE x == m * q + r
           d == q - (x \div m)
<1>1. /\ x \in Int /\ d \in Int
      /\ x % m \in 0 .. m - 1
      /\ m * d = (x % m) - r
  BY DivMod
<1>2. m * d < m /\ m * d > -m
  BY <1>1
<1>. HIDE DEF x, d
<1>3. d < 1
  <2>1. ASSUME d >= 1 PROVE m * d >= m
    BY <2>1, <1>1
  <2>. QED  BY <2>1, <1>1, <1>2
<1>4. d > -1
  <2>1. ASSUME d <= -1 PROVE m * d <= -m
    BY <2>1, <1>1
  <2>. QED  BY <2>1, <1>1, <1>2
<1>5. d = 0
  BY <1>1, <1>3, <1>4
<1>6. x % m = r
  BY <1>1, <1>5
<1>. QED  BY <1>6 DEF x

\* Subtracting remainders is subtracting the numbers.
LEMMA ModDifference ==
  ASSUME NEW m \in Nat \ {0}, NEW x \in Int, NEW y \in Int
  PROVE  ((x % m) - (y % m)) % m = (x - y) % m
<1> DEFINE r == (x - y) % m
           k == (x - y) \div m
           qx == x \div m
           qy == y \div m
<1>1. /\ x = m * qx + (x % m) /\ qx \in Int /\ x % m \in Int
      /\ y = m * qy + (y % m) /\ qy \in Int /\ y % m \in Int
  BY DivMod
<1>2. x - y = m * k + r /\ k \in Int /\ r \in 0 .. m - 1
  BY DivMod, x - y \in Int
<1>3. (x % m) - (y % m) = m * (k - qx + qy) + r
  BY <1>1, <1>2
<1>. QED  BY <1>1, <1>2, <1>3, ModUnique, k - qx + qy \in Int

\* Within a window of the expected number, eight bits tell expected, old and
\* early frames apart.
LEMMA VerdictLemma ==
  ASSUME NEW s \in Nat, expectedSeq \in Nat,
         s < expectedSeq + RetryBufferSize,
         expectedSeq <= s + RetryBufferSize
  PROVE  /\ Diff(s) = 0 <=> s = expectedSeq
         /\ Diff(s) >= SeqMod \div 2 <=> s < expectedSeq
<1> DEFINE d == s - expectedSeq
           h == SeqMod \div 2
<1>1. /\ SeqMod \in Nat \ {0} /\ RetryBufferSize \in Nat \ {0}
      /\ h \in Nat /\ 2 * h <= SeqMod /\ RetryBufferSize <= h
  BY LinkAssumption
<1>2. Diff(s) = d % SeqMod /\ d \in Int
  <2>1. d \in Int
    OBVIOUS
  <2>2. ((s % SeqMod) - (expectedSeq % SeqMod)) % SeqMod = (s - expectedSeq) % SeqMod
    <3>1. SeqMod \in Nat \ {0} /\ s \in Int /\ expectedSeq \in Int
      BY <1>1
    <3>. QED  BY <3>1, ModDifference, Zenon
  <2>. QED  BY <2>1, <2>2 DEF Diff
<1>. HIDE DEF h, d
<1>3. CASE d >= 0
  <2>1. d \in 0 .. SeqMod - 1 /\ d < h
    BY <1>1, <1>2, <1>3 DEF d
  <2>2. d % SeqMod = d
    BY <2>1, <1>1, ModUnique, SeqMod * 0 + d = d
  <2>. QED  BY <1>1, <1>2, <1>3, <2>1, <2>2 DEF d, h
<1>4. CASE d < 0
  <2>1. d + SeqMod \in 0 .. SeqMod - 1 /\ d + SeqMod >= h
    BY <1>1, <1>2, <1>4 DEF d
  <2>2. d % SeqMod = d + SeqMod
    BY <2>1, <1>1, <1>2, ModUnique, SeqMod * (-1) + (d + SeqMod) = d
  <2>. QED  BY <1>1, <1>2, <1>4, <2>1, <2>2 DEF d, h
<1>. QED  BY <1>2, <1>3, <1>4

-----------------------------------------------------------------------------
\* How the steps change the pipe

\* Every frame of the pipe carries a number.
LEMMA PipeSeqInNat ==
  ASSUME TypeOK
  PROVE  PipeLen \in Nat /\ \A i \in 1 .. PipeLen : PipeSeq(i) \in Nat
<1>1. /\ toPhy \in Seq(Nat) /\ line \in Seq(Frame) /\ toRx \in Seq(Frame)
      /\ Len(toRx) \in Nat /\ Len(line) \in Nat /\ Len(toPhy) \in Nat
  BY DEF TypeOK
<1>2. ASSUME NEW i \in 1 .. PipeLen PROVE PipeSeq(i) \in Nat
  <2>1. CASE i <= Len(toRx)
    <3>1. toRx[i] \in Frame
      BY <1>1, <1>2, <2>1
    <3>. QED  BY <1>1, <2>1, <3>1 DEF PipeSeq, Frame
  <2>2. CASE Len(toRx) < i /\ i <= Len(toRx) + Len(line)
    <3>1. line[i - Len(toRx)] \in Frame
      BY <1>1, <1>2, <2>2
    <3>. QED  BY <1>1, <1>2, <2>2, <3>1 DEF PipeSeq, Frame
  <2>3. CASE i > Len(toRx) + Len(line)
    <3>1. i - (Len(toRx) + Len(line)) \in 1 .. Len(toPhy)
      BY <1>1, <1>2, <2>3 DEF PipeLen
    <3>2. toPhy[i - (Len(toRx) + Len(line))] \in Nat
      BY <1>1, <3>1
    <3>. QED  BY <1>1, <1>2, <2>3, <3>2 DEF PipeSeq
  <2>. QED  BY <1>1, <1>2, <2>1, <2>2, <2>3
<1>. QED  BY <1>1, <1>2 DEF PipeLen

\* A frame that PhyChannel takes stays at its place in the pipe.
LEMMA PipeAfterPhyTransmit ==
  ASSUME TypeOK, NEW s, NEW ok \in BOOLEAN, PhyTransmit(s, ok)
  PROVE  /\ PipeLen' = PipeLen
         /\ \A i \in 1 .. PipeLen : PipeSeq(i)' = PipeSeq(i)
         /\ toPhy' \in Seq(Nat) /\ Len(toPhy') <= PhyFifoDepth
         /\ line' \in Seq(Frame) /\ Len(line') <= PipeBound
<1>1. /\ toPhy \in Seq(Nat) /\ toPhy # <<>> /\ s = Head(toPhy) /\ s \in Nat
      /\ toPhy' = Tail(toPhy) /\ toPhy' \in Seq(Nat)
      /\ Len(toPhy') = Len(toPhy) - 1
      /\ \A i \in 1 .. Len(toPhy) - 1 : toPhy'[i] = toPhy[i + 1]
  BY DEF TypeOK, PhyTransmit
<1>2. /\ line \in Seq(Frame) /\ [seq |-> s, ok |-> ok] \in Frame
      /\ line' = Append(line, [seq |-> s, ok |-> ok]) /\ line' \in Seq(Frame)
      /\ Len(line') = Len(line) + 1 /\ Len(line') <= PipeBound
      /\ \A i \in 1 .. Len(line) : line'[i] = line[i]
      /\ line'[Len(line) + 1].seq = s
  BY <1>1, LinkAssumption, SMTT(30) DEF TypeOK, PhyTransmit, Frame
<1>3. toRx' = toRx /\ Len(toRx) \in Nat /\ Len(line) \in Nat /\ Len(toPhy) \in Nat
      /\ Len(toPhy) <= PhyFifoDepth /\ PhyFifoDepth \in Nat
  BY LinkAssumption DEF TypeOK, PhyTransmit, phyVars
<1>4. PipeLen' = PipeLen
  BY <1>1, <1>2, <1>3 DEF PipeLen
<1>5. ASSUME NEW i \in 1 .. PipeLen PROVE PipeSeq(i)' = PipeSeq(i)
  <2> DEFINE n == Len(toRx) + Len(line)
  <2>1. CASE i <= n
    BY <1>2, <1>3, <2>1 DEF PipeSeq
  <2>2. CASE i = n + 1
    <3>1. PipeSeq(i) = toPhy[1] /\ toPhy[1] = s
      BY <1>1, <1>3, <2>2 DEF PipeSeq
    <3>2. i - Len(toRx) = Len(line) + 1
      BY <1>3, <2>2
    <3>3. PipeSeq(i)' = line'[Len(line) + 1].seq
      BY <1>2, <1>3, <2>2, <3>2 DEF PipeSeq
    <3>. QED  BY <1>2, <3>1, <3>3
  <2>3. CASE i > n + 1
    <3>1. i - n - 1 \in 1 .. Len(toPhy) - 1
      BY <1>3, <2>3 DEF PipeLen
    <3>2. PipeSeq(i)' = toPhy'[i - n - 1]
      BY <1>2, <1>3, <2>3 DEF PipeSeq
    <3>3. toPhy'[i - n - 1] = toPhy[i - n]
      BY <1>1, <1>3, <3>1
    <3>4. PipeSeq(i) = toPhy[i - n]
      BY <1>3, <2>3 DEF PipeSeq
    <3>. QED  BY <3>2, <3>3, <3>4
  <2>. QED  BY <2>1, <2>2, <2>3, <1>3
<1>. QED  BY <1>1, <1>2, <1>3, <1>4, <1>5

\* A frame that PhyChannel hands on stays at its place in the pipe.
LEMMA PipeAfterPhyEgress ==
  ASSUME TypeOK, PhyEgress
  PROVE  /\ PipeLen' = PipeLen
         /\ \A i \in 1 .. PipeLen : PipeSeq(i)' = PipeSeq(i)
         /\ line' \in Seq(Frame) /\ Len(line') <= PipeBound
         /\ toRx' \in Seq(Frame) /\ Len(toRx') <= PhyFifoDepth
<1>1. /\ line \in Seq(Frame) /\ line # <<>> /\ Head(line) \in Frame
      /\ Head(line) = line[1]
      /\ line' = Tail(line) /\ line' \in Seq(Frame)
      /\ Len(line') = Len(line) - 1
      /\ \A i \in 1 .. Len(line) - 1 : line'[i] = line[i + 1]
  BY DEF TypeOK, PhyEgress
<1>2. /\ toRx \in Seq(Frame) /\ toRx' = Append(toRx, Head(line))
      /\ toRx' \in Seq(Frame)
      /\ Len(toRx') = Len(toRx) + 1 /\ Len(toRx') <= PhyFifoDepth
      /\ \A i \in 1 .. Len(toRx) : toRx'[i] = toRx[i]
      /\ toRx'[Len(toRx) + 1] = line[1]
  BY <1>1, LinkAssumption DEF TypeOK, PhyEgress
<1>3. toPhy' = toPhy /\ Len(toRx) \in Nat /\ Len(line) \in Nat /\ Len(toPhy) \in Nat
      /\ Len(line) <= PipeBound /\ PipeBound \in Nat
  BY LinkAssumption DEF TypeOK, PhyEgress
<1>4. PipeLen' = PipeLen
  BY <1>1, <1>2, <1>3 DEF PipeLen
<1>5. ASSUME NEW i \in 1 .. PipeLen PROVE PipeSeq(i)' = PipeSeq(i)
  BY <1>1, <1>2, <1>3 DEF PipeLen, PipeSeq
<1>. QED  BY <1>1, <1>2, <1>3, <1>4, <1>5

\* A frame that TxAdapter writes is the last of the pipe.
LEMMA PipeAfterTxWrite ==
  ASSUME TypeOK, TxWrite
  PROVE  /\ PipeLen \in Nat
         /\ PipeLen' = PipeLen + 1
         /\ \A i \in 1 .. PipeLen + 1 :
              PipeSeq(i)' = IF i <= PipeLen THEN PipeSeq(i) ELSE txSeq
         /\ toPhy' \in Seq(Nat) /\ Len(toPhy') <= PhyFifoDepth
<1>1. /\ toPhy \in Seq(Nat) /\ toPhy' = Append(toPhy, txSeq)
      /\ toPhy' \in Seq(Nat)
      /\ Len(toPhy') = Len(toPhy) + 1 /\ Len(toPhy') <= PhyFifoDepth
      /\ \A i \in 1 .. Len(toPhy) : toPhy'[i] = toPhy[i]
      /\ toPhy'[Len(toPhy) + 1] = txSeq
  BY LinkAssumption DEF TypeOK, TxWrite
<1>2. line' = line /\ toRx' = toRx
      /\ Len(toRx) \in Nat /\ Len(line) \in Nat /\ Len(toPhy) \in Nat
  BY DEF TypeOK, TxWrite
<1>3. PipeLen \in Nat /\ PipeLen' = PipeLen + 1
  BY <1>1, <1>2 DEF PipeLen
<1>4. ASSUME NEW i \in 1 .. PipeLen PROVE PipeSeq(i)' = PipeSeq(i)
  BY <1>1, <1>2 DEF PipeLen, PipeSeq
<1>5. ASSUME NEW i \in 1 .. PipeLen + 1, i > PipeLen PROVE PipeSeq(i)' = txSeq
  <2>1. i - (Len(toRx) + Len(line)) = Len(toPhy) + 1
    BY <1>5, <1>2 DEF PipeLen
  <2>2. PipeSeq(i)' = toPhy'[Len(toPhy) + 1]
    BY <1>2, <1>5, <2>1 DEF PipeLen, PipeSeq
  <2>. QED  BY <2>2, <1>1
<1>. QED  BY <1>1, <1>3, <1>4, <1>5

\* RxAdapter takes the first frame of the pipe.
LEMMA PipeAfterRxTake ==
  ASSUME TypeOK, RxTake
  PROVE  /\ PipeLen \in Nat \ {0}
         /\ PipeLen' = PipeLen - 1
         /\ PipeSeq(1) = Head(toRx).seq
         /\ \A i \in 1 .. PipeLen - 1 : PipeSeq(i)' = PipeSeq(i + 1)
         /\ toRx' \in Seq(Frame) /\ Len(toRx') <= PhyFifoDepth
         /\ Head(toRx) \in Frame
<1>1. /\ toRx \in Seq(Frame) /\ toRx # <<>> /\ Head(toRx) \in Frame
      /\ Head(toRx) = toRx[1] /\ Len(toRx) >= 1
      /\ toRx' = Tail(toRx) /\ toRx' \in Seq(Frame)
      /\ Len(toRx') = Len(toRx) - 1
      /\ \A i \in 1 .. Len(toRx) - 1 : toRx'[i] = toRx[i + 1]
  BY DEF TypeOK, RxTake
<1>2. line' = line /\ toPhy' = toPhy
      /\ Len(toRx) \in Nat /\ Len(line) \in Nat /\ Len(toPhy) \in Nat
      /\ Len(toRx) <= PhyFifoDepth /\ PhyFifoDepth \in Nat
  BY LinkAssumption DEF TypeOK, RxTake
<1>3. PipeLen \in Nat \ {0} /\ PipeLen' = PipeLen - 1
  BY <1>1, <1>2 DEF PipeLen
<1>4. ASSUME NEW i \in 1 .. PipeLen - 1 PROVE PipeSeq(i)' = PipeSeq(i + 1)
  BY <1>1, <1>2 DEF PipeLen, PipeSeq
<1>5. PipeSeq(1) = Head(toRx).seq
  BY <1>1, <1>2 DEF PipeSeq
<1>. QED  BY <1>1, <1>2, <1>3, <1>4, <1>5

-----------------------------------------------------------------------------
\* What one turn of the sender's loop does

\* A window of at most RetryBufferSize numbers fits into the retry buffer.
LEMMA WindowFits ==
  ASSUME NEW b \in Nat, NEW n \in Nat, b <= n
  PROVE  IsFiniteSet(b .. (n - 1)) /\ Cardinality(b .. (n - 1)) = n - b
<1>1. CASE b < n
  BY <1>1, FS_Interval, n - 1 \in Int, b \in Int
<1>2. CASE b = n
  <2>1. b .. (n - 1) = {}
    BY <1>2
  <2>. QED  BY <2>1, <1>2, FS_EmptySet
<1>. QED  BY <1>1, <1>2

\* The state the sender's loop leaves behind at its next blocking point, and
\* the reason why a frame is never far from the numbers handed out: it is
\* still in the retry buffer when its serialisation starts.
LEMMA TurnFacts ==
  ASSUME TypeOK, RetryIsWindow,
         NEW active \in BOOLEAN, NEW cursor \in Nat, NEW end \in Nat,
         Turn(active, cursor, end)
  PROVE  /\ txPc' \in {"serialize", "wait"} /\ txSeq' \in Nat
         /\ txReplay' \in BOOLEAN
         /\ nextSeq' \in Nat /\ nextSeq <= nextSeq'
         /\ replayActive' \in BOOLEAN /\ replayCursor' \in Nat /\ replayEnd' \in Nat
         /\ \E b \in 0 .. nextSeq' :
              /\ b <= expectedSeq
              /\ nextSeq' <= b + RetryBufferSize
              /\ retry' = b .. (nextSeq' - 1)
         /\ txPc' = "serialize" =>
              txSeq' < nextSeq' /\ nextSeq' <= txSeq' + RetryBufferSize
<1>1. PICK b \in 0 .. nextSeq : /\ b <= expectedSeq
                                /\ nextSeq <= b + RetryBufferSize
                                /\ retry = b .. (nextSeq - 1)
  BY DEF RetryIsWindow
<1>2. /\ nextSeq \in Nat /\ expectedSeq \in Nat /\ b \in Nat
      /\ RetryBufferSize \in Nat \ {0}
      /\ txReplay \in BOOLEAN /\ txSeq \in Nat
  BY <1>1, LinkAssumption DEF TypeOK
<1>3. CASE SendReplay(active, cursor, end)
  <2> DEFINE T == ToReplay(cursor, end)
  <2>1. T \in SUBSET Nat /\ T # {} /\ T \subseteq retry
    BY <1>3 DEF SendReplay, ReplayPending, ToReplay, TypeOK
  <2>2. txSeq' \in retry
    <3>1. Lowest(T) \in T
      BY <2>1, LowestIsMinimum
    <3>. QED  BY <2>1, <3>1, <1>3 DEF SendReplay
  <2>3. txSeq' \in Nat /\ b <= txSeq' /\ txSeq' < nextSeq
    BY <2>2, <1>1, <1>2
  <2>. QED  BY <1>1, <1>2, <1>3, <2>3 DEF SendReplay, SetReplay
<1>4. CASE SendNew(active, cursor, end)
  <2>1. Cardinality(retry) = nextSeq - b
    BY <1>1, <1>2, WindowFits
  <2>2. nextSeq < b + RetryBufferSize
    BY <2>1, <1>2, <1>4 DEF SendNew, HasRoom
  <2>3. retry' = b .. (nextSeq' - 1) /\ nextSeq' = nextSeq + 1
    BY <1>1, <1>2, <1>4 DEF SendNew
  <2>4. txPc' = "serialize" /\ txSeq' = nextSeq /\ txReplay' = FALSE
    BY <1>4 DEF SendNew
  <2>5. replayActive' = FALSE /\ replayCursor' = 0 /\ replayEnd' = 0
    BY <1>4 DEF SendNew, SetReplay
  <2>6. txReplay' \in BOOLEAN /\ replayActive' \in BOOLEAN
    BY <2>4, <2>5, Zenon
  <2>. QED  BY <1>1, <1>2, <2>2, <2>3, <2>4, <2>5, <2>6
<1>5. CASE Sleep(active, cursor, end)
  <2>1. retry' = b .. (nextSeq' - 1) /\ nextSeq' = nextSeq
    BY <1>1, <1>5 DEF Sleep
  <2>2. txPc' = "wait" /\ txSeq' = 0 /\ txReplay' = FALSE
    BY <1>5 DEF Sleep
  <2>3. replayActive' = FALSE /\ replayCursor' = 0 /\ replayEnd' = 0
    BY <1>5 DEF Sleep, SetReplay
  <2>4. txReplay' \in BOOLEAN /\ replayActive' \in BOOLEAN
    BY <2>2, <2>3, Zenon
  <2>. QED  BY <1>1, <1>2, <2>1, <2>2, <2>3, <2>4
<1>. QED  BY <1>3, <1>4, <1>5 DEF Turn

\* The lowest and the highest unacknowledged number are numbers.
LEMMA RetryBounds ==
  ASSUME TypeOK, RetryIsWindow, retry # {}
  PROVE  Lowest(retry) \in Nat /\ Highest(retry) \in Nat
<1>1. PICK b \in 0 .. nextSeq : retry = b .. (nextSeq - 1)
  BY DEF RetryIsWindow
<1>2. retry \in SUBSET Nat /\ nextSeq \in Nat /\ b \in Nat /\ b <= nextSeq - 1
  BY <1>1 DEF TypeOK
<1>3. Lowest(retry) \in retry
  BY <1>2, LowestIsMinimum
<1>4. Highest(retry) = nextSeq - 1
  BY <1>1, <1>2, HighestOfWindow
<1>5. Lowest(retry) \in Nat
  BY <1>2, <1>3, Zenon
<1>6. nextSeq - 1 \in Nat
  BY <1>2
<1>. QED  BY <1>4, <1>5, <1>6, Zenon

-----------------------------------------------------------------------------
\* The invariant holds at first and every step preserves it

\* The link starts in a state that satisfies the inductive invariant.
LEMMA InitInv == Init => IInv
<1>. SUFFICES ASSUME Init PROVE IInv
  OBVIOUS
<1>1. Cardinality(retry) = 0
  BY FS_EmptySet DEF Init
<1>2. TypeOK
  <2>1. /\ toPhy \in Seq(Nat) /\ line \in Seq(Frame) /\ toRx \in Seq(Frame)
        /\ fbIn \in Seq(FbMsg) /\ fbLine \in Seq(FbMsg) /\ fbOut \in Seq(FbMsg)
        /\ delivered \in Seq(Nat)
    BY DEF Init
  <2>2. /\ Len(toPhy) = 0 /\ Len(line) = 0 /\ Len(toRx) = 0
        /\ Len(fbIn) = 0 /\ Len(fbLine) = 0 /\ Len(fbOut) = 0
    BY DEF Init
  <2>3. retry \in SUBSET Nat
    BY DEF Init
  <2>4. txReplay \in BOOLEAN /\ replayActive \in BOOLEAN /\ inRetry \in BOOLEAN
    BY Zenon DEF Init
  <2>5. /\ Cardinality(retry) <= RetryBufferSize
        /\ Len(toPhy) <= PhyFifoDepth /\ Len(line) <= PipeBound
        /\ Len(toRx) <= PhyFifoDepth /\ Len(fbIn) <= FbFifoDepth
        /\ Len(fbLine) <= PipeBound /\ Len(fbOut) <= FbFifoDepth
    BY <1>1, <2>2, LinkAssumption
  <2>6. /\ offered \in Nat /\ consumed \in Nat /\ txSeq \in Nat
        /\ nextSeq \in Nat /\ replayCursor \in Nat /\ replayEnd \in Nat
        /\ rxSeq \in Nat /\ framesSinceNak \in Nat /\ expectedSeq \in Nat
        /\ txPc \in {"train", "serialize", "wait"}
        /\ rxPc \in {"idle", "deliver", "ack", "dup", "nak"}
    BY DEF Init
  <2>. QED  BY <2>1, <2>3, <2>4, <2>5, <2>6, Zenon DEF TypeOK
<1>3. RetryIsWindow
  <2>1. retry = 0 .. (nextSeq - 1)
    BY DEF Init
  <2>. QED  BY <2>1, LinkAssumption DEF Init, RetryIsWindow
<1>4. ReceiverInv /\ InOrderExactlyOnce
  BY DEF Init, ReceiverInv, Committed, InOrderExactlyOnce
<1>5. PipeInv
  BY DEF Init, PipeInv, PipeLen
<1>6. SerialInv /\ FeedbackInv
  BY DEF Init, SerialInv, FeedbackInv, AcksOf
<1>. QED  BY <1>2, <1>3, <1>4, <1>5, <1>6 DEF IInv

\* A window that starts at or before the expected number fits, so the retry
\* buffer keeps its size.
LEMMA WindowBound ==
  ASSUME NEW n \in Nat, NEW S,
         \E b \in 0 .. n : n <= b + RetryBufferSize /\ S = b .. (n - 1)
  PROVE  S \in SUBSET Nat /\ Cardinality(S) <= RetryBufferSize
<1>1. PICK b \in 0 .. n : n <= b + RetryBufferSize /\ S = b .. (n - 1)
  OBVIOUS
<1>2. Cardinality(S) = n - b
  BY <1>1, WindowFits
<1>. QED  BY <1>1, <1>2, LinkAssumption

\* The sender wakes up: the frame it picks was handed out less than a window
\* ago, so it is no window away from any frame in the pipe.
LEMMA WakeInv ==
  ASSUME IInv,
         NEW active \in BOOLEAN, NEW cursor \in Nat, NEW end \in Nat,
         Turn(active, cursor, end),
         UNCHANGED <<portVars, phyVars, rxVars, fbVars>>
  PROVE  IInv'
<1>0. /\ offered' = offered /\ consumed' = consumed
      /\ toPhy' = toPhy /\ line' = line /\ toRx' = toRx
      /\ rxPc' = rxPc /\ rxSeq' = rxSeq /\ inRetry' = inRetry
      /\ framesSinceNak' = framesSinceNak /\ expectedSeq' = expectedSeq
      /\ delivered' = delivered
      /\ fbIn' = fbIn /\ fbLine' = fbLine /\ fbOut' = fbOut
  BY DEF portVars, phyVars, rxVars, fbVars
<1>1. /\ txPc' \in {"serialize", "wait"} /\ txSeq' \in Nat
      /\ txReplay' \in BOOLEAN
      /\ nextSeq' \in Nat /\ nextSeq <= nextSeq'
      /\ replayActive' \in BOOLEAN /\ replayCursor' \in Nat /\ replayEnd' \in Nat
      /\ \E b \in 0 .. nextSeq' :
           /\ b <= expectedSeq
           /\ nextSeq' <= b + RetryBufferSize
           /\ retry' = b .. (nextSeq' - 1)
      /\ txPc' = "serialize" =>
           txSeq' < nextSeq' /\ nextSeq' <= txSeq' + RetryBufferSize
  BY TurnFacts DEF IInv
<1>2. retry' \in SUBSET Nat /\ Cardinality(retry') <= RetryBufferSize
  BY <1>1, WindowBound
<1>3. TypeOK'
  BY <1>0, <1>1, <1>2 DEF IInv, TypeOK
<1>4. RetryIsWindow'
  BY <1>0, <1>1 DEF RetryIsWindow
<1>5. /\ nextSeq \in Nat /\ expectedSeq \in Nat /\ RetryBufferSize \in Nat
      /\ Committed' = Committed /\ Committed \in Nat /\ Committed <= nextSeq
  BY <1>0, LinkAssumption DEF Committed, IInv, ReceiverInv, TypeOK
<1>12. nextSeq' \in Nat /\ nextSeq <= nextSeq' /\ txSeq' \in Nat
  BY <1>1, Zenon
<1>6. ReceiverInv'
  <2>1. Committed' <= nextSeq'
    BY <1>1, <1>5
  <2>. QED  BY <1>0, <2>1 DEF IInv, ReceiverInv
<1>7. InOrderExactlyOnce'
  BY <1>0 DEF IInv, InOrderExactlyOnce
<1>8. /\ PipeLen' = PipeLen
      /\ \A i \in 1 .. PipeLen :
           PipeSeq(i)' = PipeSeq(i) /\ PipeSeq(i) \in Nat /\ PipeSeq(i) < nextSeq
  BY <1>0, PipeSeqInNat DEF PipeLen, PipeSeq, IInv, PipeInv
<1>9. PipeInv'
  <2>1. ASSUME NEW i \in 1 .. PipeLen, NEW j \in 1 .. i - 1
        PROVE  PipeSeq(j)' < PipeSeq(i)' + RetryBufferSize
    <3>1. j \in 1 .. PipeLen
      BY PipeSeqInNat DEF IInv
    <3>. QED  BY <1>8, <3>1 DEF IInv, PipeInv
  <2>2. ASSUME NEW i \in 1 .. PipeLen
        PROVE  PipeSeq(i)' < nextSeq' /\ Committed' <= PipeSeq(i)' + RetryBufferSize
    BY <1>1, <1>5, <1>8 DEF IInv, PipeInv
  <2>. QED  BY <1>8, <2>1, <2>2 DEF PipeInv
<1>10. SerialInv'
  <2>1. SUFFICES ASSUME txPc' = "serialize"
                 PROVE  /\ txSeq' < nextSeq'
                        /\ Committed' <= txSeq' + RetryBufferSize
                        /\ \A i \in 1 .. PipeLen' :
                             PipeSeq(i)' < txSeq' + RetryBufferSize
    BY DEF SerialInv
  <2>2. PICK s \in Nat : txSeq' = s
    BY <1>12
  <2>3. s < nextSeq' /\ nextSeq' <= s + RetryBufferSize
    BY <1>1, <2>1, <2>2, Zenon
  <2>4. Committed' <= s + RetryBufferSize
    BY <1>5, <1>12, <2>3
  <2>5. ASSUME NEW i \in 1 .. PipeLen PROVE PipeSeq(i)' < s + RetryBufferSize
    BY <1>5, <1>8, <1>12, <2>3
  <2>. QED  BY <1>8, <2>2, <2>3, <2>4, <2>5, Zenon
<1>11. FeedbackInv'
  BY <1>0 DEF IInv, FeedbackInv, AcksOf
<1>. QED  BY <1>3, <1>4, <1>6, <1>7, <1>9, <1>10, <1>11 DEF IInv

\* A step that leaves the pipe's order, the numbers handed out and the frame
\* being serialised alone keeps every distance.
LEMMA SamePipe ==
  ASSUME PipeInv, SerialInv, PipeLen' = PipeLen,
         \A i \in 1 .. PipeLen : PipeSeq(i)' = PipeSeq(i),
         PipeLen \in Nat, Committed' = Committed,
         UNCHANGED <<nextSeq, txPc, txSeq>>
  PROVE  PipeInv' /\ SerialInv'
<1>1. nextSeq' = nextSeq /\ txPc' = txPc /\ txSeq' = txSeq
  OBVIOUS
<1>2. ASSUME NEW i \in 1 .. PipeLen
      PROVE  /\ PipeSeq(i)' < nextSeq'
             /\ Committed' <= PipeSeq(i)' + RetryBufferSize
             /\ \A j \in 1 .. i - 1 : PipeSeq(j)' < PipeSeq(i)' + RetryBufferSize
  <2>1. ASSUME NEW j \in 1 .. i - 1 PROVE j \in 1 .. PipeLen
    OBVIOUS
  <2>. QED  BY <1>1, <2>1, Zenon DEF PipeInv
<1>3. PipeInv'
  BY <1>2, Zenon DEF PipeInv
<1>4. SerialInv'
  BY <1>1, Zenon DEF SerialInv
<1>. QED  BY <1>3, <1>4

\* A reply to RxAdapter's frame that stays where it is, or the queue it moves
\* through, keeps its number below what is expected.
LEMMA AcksAppend ==
  ASSUME NEW q \in Seq(FbMsg), NEW m \in FbMsg, NEW e \in Nat, NEW f \in Nat,
         f <= e,
         \A i \in 1 .. Len(q) : ~q[i].nak => q[i].seq < f,
         ~m.nak => m.seq < e
  PROVE  LET r == Append(q, m) IN
         \A i \in 1 .. Len(r) : ~r[i].nak => r[i].seq < e
<1> DEFINE r == Append(q, m)
<1>1. /\ Len(r) = Len(q) + 1 /\ r[Len(q) + 1] = m /\ Len(q) \in Nat
      /\ \A i \in 1 .. Len(q) : r[i] = q[i] /\ q[i] \in FbMsg
  OBVIOUS
<1>2. ASSUME NEW i \in 1 .. Len(r), ~r[i].nak PROVE r[i].seq < e
  <2>1. CASE i = Len(q) + 1
    BY <1>1, <1>2, <2>1
  <2>2. CASE i # Len(q) + 1
    <3>1. i \in 1 .. Len(q)
      BY <1>1, <2>2
    <3>2. q[i].seq \in Nat /\ q[i].seq < f
      BY <1>1, <1>2, <3>1 DEF FbMsg
    <3>. QED  BY <1>1, <3>1, <3>2
  <2>. QED  BY <2>1, <2>2
<1>. QED  BY <1>2

\* Taking the oldest message leaves acknowledgements of the same numbers.
LEMMA AcksTail ==
  ASSUME NEW q \in Seq(FbMsg), q # <<>>, NEW f,
         \A i \in 1 .. Len(q) : ~q[i].nak => q[i].seq < f
  PROVE  /\ ~Head(q).nak => Head(q).seq < f
         /\ \A i \in 1 .. Len(Tail(q)) : ~Tail(q)[i].nak => Tail(q)[i].seq < f
<1>1. /\ Len(q) \in Nat \ {0} /\ Head(q) = q[1] /\ Len(Tail(q)) = Len(q) - 1
      /\ \A i \in 1 .. Len(Tail(q)) : Tail(q)[i] = q[i + 1]
  OBVIOUS
<1>2. ASSUME NEW i \in 1 .. Len(Tail(q)) PROVE i + 1 \in 1 .. Len(q)
  BY <1>1
<1>. QED  BY <1>1, <1>2

\* PhyChannel keeps the invariant.
LEMMA PhyInv ==
  ASSUME IInv, PhyIngress \/ PhyEgress
  PROVE  IInv'
<1>1. /\ PipeLen' = PipeLen /\ PipeLen \in Nat
      /\ \A i \in 1 .. PipeLen : PipeSeq(i)' = PipeSeq(i)
      /\ toPhy' \in Seq(Nat) /\ Len(toPhy') <= PhyFifoDepth
      /\ line' \in Seq(Frame) /\ Len(line') <= PipeBound
      /\ toRx' \in Seq(Frame) /\ Len(toRx') <= PhyFifoDepth
  <2>1. CASE PhyIngress
    <3>1. PICK ok \in BOOLEAN : PhyTransmit(Head(toPhy), ok)
      BY <2>1 DEF PhyIngress
    <3>2. toRx' = toRx
      BY <3>1 DEF PhyTransmit
    <3>. QED  BY <3>1, <3>2, PipeAfterPhyTransmit, PipeSeqInNat DEF IInv, TypeOK
  <2>2. CASE PhyEgress
    <3>1. toPhy' = toPhy
      BY <2>2 DEF PhyEgress
    <3>. QED  BY <2>2, <3>1, PipeAfterPhyEgress, PipeSeqInNat DEF IInv, TypeOK
  <2>. QED  BY <2>1, <2>2
<1>2. UNCHANGED <<portVars, senderVars, retry, replayVars, rxVars, fbVars>>
  BY DEF PhyIngress, PhyTransmit, PhyEgress
<1>3. TypeOK'
  BY <1>1, <1>2 DEF IInv, TypeOK, portVars, senderVars, replayVars, rxVars, fbVars
<1>4. RetryIsWindow' /\ ReceiverInv' /\ InOrderExactlyOnce' /\ FeedbackInv'
  BY <1>2 DEF IInv, RetryIsWindow, ReceiverInv, Committed, InOrderExactlyOnce,
              FeedbackInv, AcksOf, senderVars, rxVars, fbVars
<1>5. PipeInv' /\ SerialInv'
  <2>1. Committed' = Committed /\ UNCHANGED <<nextSeq, txPc, txSeq>>
    BY <1>2 DEF Committed, senderVars, rxVars
  <2>. QED  BY <1>1, <2>1, SamePipe DEF IInv
<1>. QED  BY <1>3, <1>4, <1>5 DEF IInv

\* Training, the wake-up and the replay timer keep the invariant.
LEMMA SenderWakesInv ==
  ASSUME IInv, TxTrained \/ TxWake \/ TxTimeout
  PROVE  IInv'
<1>1. CASE TxTrained \/ TxWake
  <2>1. /\ Turn(replayActive, replayCursor, replayEnd)
        /\ UNCHANGED <<portVars, phyVars, rxVars, fbVars>>
    BY <1>1 DEF TxTrained, TxWake
  <2>. QED  BY <2>1, WakeInv DEF IInv, TypeOK
<1>2. CASE TxTimeout
  <2>1. /\ Turn(TRUE, Lowest(retry), Highest(retry)) /\ retry # {}
        /\ UNCHANGED <<portVars, phyVars, rxVars, fbVars>>
    BY <1>2 DEF TxTimeout
  <2>2. Lowest(retry) \in Nat /\ Highest(retry) \in Nat
    BY <2>1, RetryBounds DEF IInv
  <2>. QED  BY <2>1, <2>2, WakeInv
<1>. QED  BY <1>1, <1>2

\* The modules at the FDI ports keep the invariant.
LEMMA PortsInv ==
  ASSUME IInv, FdiWrite \/ FdiRead
  PROVE  IInv'
<1>1. UNCHANGED <<senderVars, retry, replayVars, phyVars, rxVars, fbVars>>
  BY DEF FdiWrite, FdiRead
<1>2. offered' \in Nat /\ consumed' \in Nat
  BY SMTT(30) DEF FdiWrite, FdiRead, IInv, TypeOK
<1>3. TypeOK'
  BY <1>1, <1>2
  DEF IInv, TypeOK, senderVars, replayVars, phyVars, rxVars, fbVars
<1>4. RetryIsWindow' /\ ReceiverInv' /\ InOrderExactlyOnce' /\ FeedbackInv'
  BY <1>1 DEF IInv, RetryIsWindow, ReceiverInv, Committed, InOrderExactlyOnce,
              FeedbackInv, AcksOf, senderVars, rxVars, fbVars
<1>5. PipeInv' /\ SerialInv'
  <2>1. Committed' = Committed /\ UNCHANGED <<nextSeq, txPc, txSeq>>
    BY <1>1 DEF Committed, senderVars, rxVars
  <2>2. PipeLen' = PipeLen /\ \A i \in 1 .. PipeLen : PipeSeq(i)' = PipeSeq(i)
    BY <1>1 DEF PipeLen, PipeSeq, phyVars
  <2>. QED  BY <2>1, <2>2, SamePipe, PipeSeqInNat DEF IInv
<1>. QED  BY <1>3, <1>4, <1>5 DEF IInv

\* FeedbackPath keeps the invariant.
LEMMA FeedbackPathInv ==
  ASSUME IInv, FbIngress \/ FbEgress
  PROVE  IInv'
<1>1. UNCHANGED <<portVars, senderVars, retry, replayVars, phyVars, rxVars>>
  BY DEF FbIngress, FbEgress
<1>2. /\ fbIn \in Seq(FbMsg) /\ fbLine \in Seq(FbMsg) /\ fbOut \in Seq(FbMsg)
      /\ Len(fbIn) <= FbFifoDepth /\ Len(fbLine) <= PipeBound /\ Len(fbOut) <= FbFifoDepth
      /\ AcksOf(fbIn) /\ AcksOf(fbLine) /\ AcksOf(fbOut)
      /\ expectedSeq \in Nat /\ PipeBound \in Nat /\ FbFifoDepth \in Nat
  BY LinkAssumption DEF IInv, TypeOK, FeedbackInv
<1>3. /\ fbIn' \in Seq(FbMsg) /\ fbLine' \in Seq(FbMsg) /\ fbOut' \in Seq(FbMsg)
      /\ Len(fbIn') <= FbFifoDepth /\ Len(fbLine') <= PipeBound /\ Len(fbOut') <= FbFifoDepth
      /\ FeedbackInv'
  <2>1. CASE FbIngress
    <3>1. /\ fbIn # <<>> /\ fbIn' = Tail(fbIn) /\ fbOut' = fbOut
          /\ fbLine' = Append(fbLine, Head(fbIn)) /\ Len(fbLine) < PipeBound
          /\ expectedSeq' = expectedSeq
      BY <2>1, <1>1 DEF FbIngress, rxVars
    <3>2. Head(fbIn) \in FbMsg /\ Tail(fbIn) \in Seq(FbMsg) /\ Len(Tail(fbIn)) <= FbFifoDepth
      BY <1>2, <3>1
    <3>3. /\ ~Head(fbIn).nak => Head(fbIn).seq < expectedSeq
          /\ \A i \in 1 .. Len(Tail(fbIn)) :
               ~Tail(fbIn)[i].nak => Tail(fbIn)[i].seq < expectedSeq
      BY <1>2, <3>1, AcksTail DEF AcksOf
    <3>4. LET r == Append(fbLine, Head(fbIn)) IN
          \A i \in 1 .. Len(r) : ~r[i].nak => r[i].seq < expectedSeq
      BY <1>2, <3>2, <3>3, AcksAppend DEF AcksOf
    <3>5. FeedbackInv'
      BY <1>2, <3>1, <3>3, <3>4 DEF FeedbackInv, AcksOf
    <3>. QED  BY <1>2, <3>1, <3>2, <3>5
  <2>2. CASE FbEgress
    <3>1. /\ fbLine # <<>> /\ fbLine' = Tail(fbLine) /\ fbIn' = fbIn
          /\ fbOut' = Append(fbOut, Head(fbLine)) /\ Len(fbOut) < FbFifoDepth
          /\ expectedSeq' = expectedSeq
      BY <2>2, <1>1 DEF FbEgress, rxVars
    <3>2. Head(fbLine) \in FbMsg /\ Tail(fbLine) \in Seq(FbMsg) /\ Len(Tail(fbLine)) <= PipeBound
      BY <1>2, <3>1
    <3>3. /\ ~Head(fbLine).nak => Head(fbLine).seq < expectedSeq
          /\ \A i \in 1 .. Len(Tail(fbLine)) :
               ~Tail(fbLine)[i].nak => Tail(fbLine)[i].seq < expectedSeq
      BY <1>2, <3>1, AcksTail DEF AcksOf
    <3>4. LET r == Append(fbOut, Head(fbLine)) IN
          \A i \in 1 .. Len(r) : ~r[i].nak => r[i].seq < expectedSeq
      BY <1>2, <3>2, <3>3, AcksAppend DEF AcksOf
    <3>5. FeedbackInv'
      BY <1>2, <3>1, <3>3, <3>4 DEF FeedbackInv, AcksOf
    <3>. QED  BY <1>2, <3>1, <3>2, <3>5
  <2>. QED  BY <2>1, <2>2
<1>4. TypeOK'
  BY <1>1, <1>3
  DEF IInv, TypeOK, portVars, senderVars, replayVars, phyVars, rxVars
<1>5. RetryIsWindow' /\ ReceiverInv' /\ InOrderExactlyOnce'
  BY <1>1 DEF IInv, RetryIsWindow, ReceiverInv, Committed, InOrderExactlyOnce,
              senderVars, rxVars
<1>6. PipeInv' /\ SerialInv'
  <2>1. Committed' = Committed /\ UNCHANGED <<nextSeq, txPc, txSeq>>
    BY <1>1 DEF Committed, senderVars, rxVars
  <2>2. PipeLen' = PipeLen /\ \A i \in 1 .. PipeLen : PipeSeq(i)' = PipeSeq(i)
    BY <1>1 DEF PipeLen, PipeSeq, phyVars
  <2>. QED  BY <2>1, <2>2, SamePipe, PipeSeqInNat DEF IInv
<1>. QED  BY <1>3, <1>4, <1>5, <1>6 DEF IInv

\* An ACK or a NAK that TxAdapter processes keeps the invariant: an ACK is
\* for a number RxAdapter has delivered, so the window moves no further than
\* the expected number.
LEMMA TxFeedbackInv ==
  ASSUME IInv, TxFeedback
  PROVE  IInv'
<1> DEFINE m == Head(fbOut)
<1>1. UNCHANGED <<portVars, senderVars, phyVars, rxVars, fbIn, fbLine>>
  BY DEF TxFeedback
<1>2. /\ fbOut \in Seq(FbMsg) /\ fbOut # <<>> /\ m \in FbMsg /\ m.seq \in Nat
      /\ fbOut' = Tail(fbOut) /\ fbOut' \in Seq(FbMsg) /\ Len(fbOut') <= FbFifoDepth
  <2>1. /\ fbOut \in Seq(FbMsg) /\ fbOut # <<>> /\ Len(fbOut) <= FbFifoDepth
        /\ FbFifoDepth \in Nat /\ fbOut' = Tail(fbOut)
    BY LinkAssumption DEF TxFeedback, IInv, TypeOK
  <2>2. m \in FbMsg /\ Tail(fbOut) \in Seq(FbMsg) /\ Len(Tail(fbOut)) = Len(fbOut) - 1
    BY <2>1
  <2>3. m.seq \in Nat
    BY <2>2 DEF FbMsg
  <2>4. Len(Tail(fbOut)) <= FbFifoDepth
    BY <2>1, <2>2
  <2>. QED  BY <2>1, <2>2, <2>3, <2>4, Zenon
<1>3. /\ ~m.nak => m.seq < expectedSeq
      /\ FeedbackInv'
  <2>1. /\ ~m.nak => m.seq < expectedSeq
        /\ \A i \in 1 .. Len(Tail(fbOut)) :
             ~Tail(fbOut)[i].nak => Tail(fbOut)[i].seq < expectedSeq
    BY <1>2, AcksTail DEF IInv, FeedbackInv, AcksOf
  <2>. QED  BY <1>1, <1>2, <2>1 DEF IInv, FeedbackInv, AcksOf, rxVars
<1>4. PICK b \in 0 .. nextSeq : /\ b <= expectedSeq
                                /\ nextSeq <= b + RetryBufferSize
                                /\ retry = b .. (nextSeq - 1)
  BY DEF IInv, RetryIsWindow
<1>5. /\ nextSeq \in Nat /\ expectedSeq \in Nat /\ b \in Nat
      /\ expectedSeq <= nextSeq /\ RetryBufferSize \in Nat
  BY <1>4, LinkAssumption DEF IInv, TypeOK, ReceiverInv, Committed
<1>6. \E a \in 0 .. nextSeq : /\ a <= expectedSeq
                              /\ nextSeq <= a + RetryBufferSize
                              /\ retry' = a .. (nextSeq - 1)
  <2>1. CASE m.nak
    <3>1. retry' = retry
      BY <2>1 DEF TxFeedback, TxNak
    <3>. QED  BY <1>4, <3>1
  <2>2. CASE ~m.nak
    <3>1. retry' = {s \in retry : s > m.seq} /\ m.seq < expectedSeq
      BY <1>3, <2>2 DEF TxFeedback, TxAck, ReleaseUpTo
    <3>2. CASE m.seq < b
      <4>1. retry' = b .. (nextSeq - 1)
        BY <1>2, <1>4, <1>5, <3>1, <3>2
      <4>. QED  BY <1>4, <4>1
    <3>3. CASE m.seq >= b
      <4>1. retry' = (m.seq + 1) .. (nextSeq - 1)
        BY <1>2, <1>4, <1>5, <3>1, <3>3
      <4>2. m.seq + 1 \in 0 .. nextSeq /\ m.seq + 1 <= expectedSeq
        BY <1>2, <1>5, <3>1
      <4>3. nextSeq <= (m.seq + 1) + RetryBufferSize
        BY <1>2, <1>4, <1>5, <3>3
      <4>. QED  BY <4>1, <4>2, <4>3
    <3>. QED  BY <1>2, <1>5, <3>2, <3>3
  <2>. QED  BY <2>1, <2>2
<1>7. RetryIsWindow'
  <2>1. nextSeq' = nextSeq /\ expectedSeq' = expectedSeq
    BY <1>1 DEF senderVars, rxVars
  <2>. QED  BY <1>6, <2>1 DEF RetryIsWindow
<1>8. retry' \in SUBSET Nat /\ Cardinality(retry') <= RetryBufferSize
  BY <1>5, <1>6, WindowBound
<1>9. replayActive' \in BOOLEAN /\ replayCursor' \in Nat /\ replayEnd' \in Nat
  <2>1. CASE UNCHANGED replayVars
    BY <2>1 DEF replayVars, IInv, TypeOK
  <2>2. CASE ~UNCHANGED replayVars
    <3> DEFINE U == {s \in retry : s >= m.seq}
    <3>1. m.nak /\ U # {} /\ SetReplay(TRUE, Lowest(U), Highest(retry))
      BY <2>2 DEF TxFeedback, TxAck, TxNak
    <3>2. U \in SUBSET Nat /\ retry # {}
      BY <3>1 DEF IInv, TypeOK
    <3>3. Lowest(U) \in Nat
      <4>1. Lowest(U) \in U
        BY <3>1, <3>2, LowestIsMinimum
      <4>. QED  BY <3>2, <4>1
    <3>4. Highest(retry) \in Nat
      BY <3>2, RetryBounds DEF IInv
    <3>5. replayActive' = TRUE /\ replayCursor' = Lowest(U) /\ replayEnd' = Highest(retry)
      BY <3>1 DEF SetReplay
    <3>. QED  BY <3>3, <3>4, <3>5, Zenon
  <2>. QED  BY <2>1, <2>2
<1>10. TypeOK'
  BY <1>1, <1>2, <1>8, <1>9
  DEF IInv, TypeOK, portVars, senderVars, phyVars, rxVars
<1>11. ReceiverInv' /\ InOrderExactlyOnce'
  BY <1>1 DEF IInv, ReceiverInv, Committed, InOrderExactlyOnce, senderVars, rxVars
<1>12. PipeInv' /\ SerialInv'
  <2>1. Committed' = Committed /\ UNCHANGED <<nextSeq, txPc, txSeq>>
    BY <1>1 DEF Committed, senderVars, rxVars
  <2>2. PipeLen' = PipeLen /\ \A i \in 1 .. PipeLen : PipeSeq(i)' = PipeSeq(i)
    BY <1>1 DEF PipeLen, PipeSeq, phyVars
  <2>. QED  BY <2>1, <2>2, SamePipe, PipeSeqInNat DEF IInv
<1>. QED  BY <1>3, <1>7, <1>10, <1>11, <1>12 DEF IInv

\* RxAdapter takes a frame: whichever number it will expect afterwards is still
\* less than a window away from every frame behind the one it takes.
LEMMA RxTakeInv ==
  ASSUME IInv, RxTake
  PROVE  IInv'
<1> DEFINE f == Head(toRx)
<1>1. /\ PipeLen \in Nat \ {0} /\ PipeLen' = PipeLen - 1
      /\ PipeSeq(1) = f.seq
      /\ \A i \in 1 .. PipeLen - 1 : PipeSeq(i)' = PipeSeq(i + 1)
      /\ toRx' \in Seq(Frame) /\ Len(toRx') <= PhyFifoDepth
      /\ f \in Frame
  BY PipeAfterRxTake DEF IInv
<1>2. /\ UNCHANGED <<portVars, senderVars, retry, replayVars, toPhy, line,
                     expectedSeq, delivered, fbVars>>
      /\ rxPc = "idle"
  BY DEF RxTake
<1>3. /\ f.seq \in Nat /\ f.seq < nextSeq
      /\ f.seq < expectedSeq + RetryBufferSize
      /\ expectedSeq <= f.seq + RetryBufferSize
      /\ nextSeq \in Nat /\ expectedSeq \in Nat /\ expectedSeq <= nextSeq
      /\ RetryBufferSize \in Nat \ {0}
      /\ Committed = expectedSeq
  <2>1. /\ nextSeq \in Nat /\ expectedSeq \in Nat /\ RetryBufferSize \in Nat \ {0}
        /\ Committed = expectedSeq /\ expectedSeq <= nextSeq
    BY <1>2, LinkAssumption DEF IInv, TypeOK, Committed, ReceiverInv
  <2>2. f.seq \in Nat
    BY <1>1 DEF Frame
  <2>3. f.seq < nextSeq /\ expectedSeq <= f.seq + RetryBufferSize
    BY <1>1, <2>1 DEF IInv, PipeInv
  <2>4. nextSeq <= expectedSeq + RetryBufferSize
    BY <2>1 DEF IInv, RetryIsWindow
  <2>. QED  BY <2>1, <2>2, <2>3, <2>4
<1>4. (Diff(f.seq) = 0 <=> f.seq = expectedSeq)
  BY <1>3, VerdictLemma
<1>5. /\ rxPc' \in {"idle", "deliver", "dup", "nak"}
      /\ rxSeq' \in Nat /\ inRetry' \in BOOLEAN /\ framesSinceNak' \in Nat
      /\ rxPc' = "deliver" => f.seq = expectedSeq /\ rxSeq' = expectedSeq
      /\ rxPc' = "dup" => expectedSeq > 0
  <2>1. CASE TakeInOrder(f)
    <3>1. rxPc' = "deliver" /\ rxSeq' = f.seq /\ inRetry' = FALSE /\ framesSinceNak' = 0
      BY <2>1 DEF TakeInOrder
    <3>2. f.seq = expectedSeq
      BY <2>1, <1>4 DEF TakeInOrder, InOrder
    <3>3. inRetry' \in BOOLEAN
      BY <3>1, Zenon
    <3>. QED  BY <1>3, <3>1, <3>2, <3>3
  <2>2. CASE TakeDuplicate(f)
    BY <2>2 DEF TakeDuplicate, IInv, TypeOK
  <2>3. CASE TakeBad(f)
    <3>1. /\ rxPc' \in {"idle", "nak"} /\ rxSeq' = rxSeq /\ inRetry' = TRUE
          /\ framesSinceNak' \in Nat
      BY <2>3 DEF TakeBad, IInv, TypeOK
    <3>2. inRetry' \in BOOLEAN
      BY <3>1, Zenon
    <3>. QED  BY <3>1, <3>2 DEF IInv, TypeOK
  <2>. QED  BY <2>1, <2>2, <2>3 DEF RxTake
<1>6. TypeOK'
  BY <1>1, <1>2, <1>5
  DEF IInv, TypeOK, portVars, senderVars, replayVars, fbVars
<1>7. RetryIsWindow' /\ InOrderExactlyOnce' /\ FeedbackInv'
  BY <1>2 DEF IInv, RetryIsWindow, InOrderExactlyOnce, FeedbackInv, AcksOf,
              senderVars, fbVars
<1>8. PICK c \in Nat : /\ Committed' = c
                       /\ \/ c = expectedSeq
                          \/ c = f.seq + 1
                       /\ c <= nextSeq
  <2>1. expectedSeq' = expectedSeq
    BY <1>2
  <2>. QED  BY <1>3, <1>5, <2>1 DEF Committed
<1>9. nextSeq' = nextSeq /\ txPc' = txPc /\ txSeq' = txSeq
      /\ expectedSeq' = expectedSeq /\ delivered' = delivered
  BY <1>2 DEF senderVars
<1>10. ReceiverInv'
  <2>1. Committed' <= nextSeq'
    BY <1>8, <1>9
  <2>2. Len(delivered') = IF rxPc' = "ack" THEN expectedSeq' + 1 ELSE expectedSeq'
    BY <1>2, <1>5, <1>9 DEF IInv, ReceiverInv
  <2>. QED  BY <1>5, <1>9, <2>1, <2>2 DEF ReceiverInv
<1>11. ASSUME NEW i \in 1 .. PipeLen - 1
       PROVE  /\ PipeSeq(i)' < nextSeq
              /\ c <= PipeSeq(i)' + RetryBufferSize
              /\ \A j \in 1 .. i - 1 : PipeSeq(j)' < PipeSeq(i)' + RetryBufferSize
  <2>1. i + 1 \in 1 .. PipeLen /\ 1 \in 1 .. (i + 1) - 1
    BY <1>1
  <2>2. PICK p \in Nat : p = PipeSeq(i + 1)
    BY <2>1, PipeSeqInNat DEF IInv
  <2>3. /\ p < nextSeq /\ expectedSeq <= p + RetryBufferSize
        /\ f.seq < p + RetryBufferSize
        /\ \A j \in 1 .. (i + 1) - 1 : PipeSeq(j) < p + RetryBufferSize
    BY <1>1, <1>3, <2>1, <2>2 DEF IInv, PipeInv
  <2>4. c <= p + RetryBufferSize
    BY <1>3, <1>8, <2>3
  <2>5. ASSUME NEW j \in 1 .. i - 1 PROVE PipeSeq(j)' < p + RetryBufferSize
    <3>1. j + 1 \in 1 .. (i + 1) - 1 /\ j \in 1 .. PipeLen - 1
      BY <1>1
    <3>. QED  BY <1>1, <2>3, <3>1
  <2>6. PipeSeq(i)' = p
    BY <1>1, <2>2
  <2>. QED  BY <2>3, <2>4, <2>5, <2>6, Zenon
<1>12. PipeInv'
  BY <1>1, <1>8, <1>9, <1>11, Zenon DEF PipeInv
<1>13. SerialInv'
  <2>1. ASSUME txPc = "serialize"
        PROVE  /\ txSeq < nextSeq
               /\ c <= txSeq + RetryBufferSize
               /\ \A i \in 1 .. PipeLen - 1 : PipeSeq(i)' < txSeq + RetryBufferSize
    <3>1. /\ txSeq \in Nat /\ txSeq < nextSeq
          /\ expectedSeq <= txSeq + RetryBufferSize
          /\ \A i \in 1 .. PipeLen : PipeSeq(i) < txSeq + RetryBufferSize
      BY <1>3, <2>1 DEF IInv, SerialInv, TypeOK
    <3>2. f.seq < txSeq + RetryBufferSize
      BY <1>1, <3>1
    <3>3. c <= txSeq + RetryBufferSize
      BY <1>3, <1>8, <3>1, <3>2
    <3>4. ASSUME NEW i \in 1 .. PipeLen - 1
          PROVE  PipeSeq(i)' < txSeq + RetryBufferSize
      <4>1. i + 1 \in 1 .. PipeLen
        BY <1>1
      <4>. QED  BY <1>1, <3>1, <4>1
    <3>. QED  BY <3>1, <3>3, <3>4
  <2>. QED  BY <1>1, <1>8, <1>9, <2>1, Zenon DEF SerialInv
<1>. QED  BY <1>6, <1>7, <1>10, <1>12, <1>13 DEF IInv

\* RxAdapter writes to the FDI port exactly the flit that is due.
LEMMA RxWriteFdiInv ==
  ASSUME IInv, RxWriteFdi
  PROVE  IInv'
<1>1. /\ rxPc = "deliver" /\ rxPc' = "ack" /\ rxSeq' = 0
      /\ delivered' = Append(delivered, rxSeq)
      /\ UNCHANGED <<portVars, senderVars, retry, replayVars, phyVars,
                     inRetry, framesSinceNak, expectedSeq, fbVars>>
  BY DEF RxWriteFdi
<1>2. /\ rxSeq = expectedSeq /\ expectedSeq \in Nat
      /\ delivered \in Seq(Nat) /\ Len(delivered) = expectedSeq
  BY <1>1 DEF IInv, ReceiverInv, TypeOK
<1>3. /\ delivered' \in Seq(Nat) /\ Len(delivered') = expectedSeq + 1
      /\ \A i \in 1 .. expectedSeq : delivered'[i] = delivered[i]
      /\ delivered'[expectedSeq + 1] = expectedSeq
  BY <1>1, <1>2
<1>4. TypeOK'
  BY <1>1, <1>3
  DEF IInv, TypeOK, portVars, senderVars, replayVars, phyVars, fbVars
<1>5. RetryIsWindow' /\ FeedbackInv'
  BY <1>1 DEF IInv, RetryIsWindow, FeedbackInv, AcksOf, senderVars, fbVars
<1>6. Committed' = Committed /\ expectedSeq' = expectedSeq
  BY <1>1 DEF Committed
<1>7. ReceiverInv'
  <2>1. nextSeq' = nextSeq
    BY <1>1 DEF senderVars
  <2>2. Committed' <= nextSeq'
    BY <1>6, <2>1 DEF IInv, ReceiverInv
  <2>3. Len(delivered') = IF rxPc' = "ack" THEN expectedSeq' + 1 ELSE expectedSeq'
    BY <1>1, <1>3, <1>6, Zenon
  <2>. QED  BY <1>1, <2>2, <2>3 DEF ReceiverInv
<1>8. InOrderExactlyOnce'
  <2>1. ASSUME NEW i \in 1 .. expectedSeq + 1 PROVE delivered'[i] = i - 1
    <3>1. CASE i = expectedSeq + 1
      BY <1>2, <1>3, <3>1
    <3>2. CASE i # expectedSeq + 1
      BY <1>2, <1>3, <3>2 DEF IInv, InOrderExactlyOnce
    <3>. QED  BY <3>1, <3>2
  <2>. QED  BY <1>3, <2>1 DEF InOrderExactlyOnce
<1>9. PipeInv' /\ SerialInv'
  <2>1. UNCHANGED <<nextSeq, txPc, txSeq>>
    BY <1>1 DEF senderVars
  <2>2. PipeLen' = PipeLen /\ \A i \in 1 .. PipeLen : PipeSeq(i)' = PipeSeq(i)
    BY <1>1 DEF PipeLen, PipeSeq, phyVars
  <2>. QED  BY <1>6, <2>1, <2>2, SamePipe, PipeSeqInNat DEF IInv
<1>. QED  BY <1>4, <1>5, <1>7, <1>8, <1>9 DEF IInv

\* RxAdapter answers: it acknowledges only what it has delivered.
LEMMA RxWriteFbInv ==
  ASSUME IInv, RxWriteFb
  PROVE  IInv'
<1>1. /\ rxPc \in {"ack", "dup", "nak"} /\ rxPc' = "idle"
      /\ fbIn' = Append(fbIn, Reply) /\ Len(fbIn) < FbFifoDepth
      /\ expectedSeq' = IF rxPc = "ack" THEN expectedSeq + 1 ELSE expectedSeq
      /\ UNCHANGED <<portVars, senderVars, retry, replayVars, phyVars,
                     rxSeq, inRetry, framesSinceNak, delivered, fbLine, fbOut>>
  BY DEF RxWriteFb
<1>2. PICK e \in Nat : /\ expectedSeq' = e /\ expectedSeq <= e
                       /\ e = IF rxPc = "ack" THEN expectedSeq + 1 ELSE expectedSeq
  <2>1. expectedSeq \in Nat
    BY DEF IInv, TypeOK
  <2>2. CASE rxPc = "ack"
    BY <1>1, <2>1, <2>2
  <2>3. CASE rxPc # "ack"
    BY <1>1, <2>1, <2>3
  <2>. QED  BY <2>2, <2>3
<1>3. expectedSeq \in Nat /\ nextSeq \in Nat /\ RetryBufferSize \in Nat
  BY LinkAssumption DEF IInv, TypeOK
<1>4. /\ Committed = e /\ Committed' = e /\ e <= nextSeq
      /\ Len(delivered) = e
  BY <1>1, <1>2, <1>3 DEF Committed, IInv, ReceiverInv
<1>5. Reply \in FbMsg /\ (~Reply.nak => Reply.seq < e)
  <2>1. CASE rxPc = "ack"
    <3>1. Reply = [nak |-> FALSE, seq |-> expectedSeq]
      BY <2>1 DEF Reply, Ack
    <3>. QED  BY <1>2, <1>3, <2>1, <3>1 DEF FbMsg
  <2>2. CASE rxPc = "dup"
    <3>1. Reply = [nak |-> FALSE, seq |-> expectedSeq - 1]
      BY <2>2 DEF Reply, Ack
    <3>2. expectedSeq > 0
      BY <2>2 DEF IInv, ReceiverInv
    <3>. QED  BY <1>2, <1>3, <2>2, <3>1, <3>2 DEF FbMsg
  <2>3. CASE rxPc = "nak"
    <3>1. Reply = [nak |-> TRUE, seq |-> expectedSeq]
      BY <2>3 DEF Reply, Nak
    <3>. QED  BY <1>3, <3>1 DEF FbMsg
  <2>. QED  BY <1>1, <2>1, <2>2, <2>3
<1>6. /\ fbIn \in Seq(FbMsg) /\ fbIn' \in Seq(FbMsg) /\ Len(fbIn') <= FbFifoDepth
  <2>1. fbIn \in Seq(FbMsg) /\ FbFifoDepth \in Nat /\ Len(fbIn) < FbFifoDepth
    BY <1>1, LinkAssumption DEF IInv, TypeOK
  <2>2. /\ Append(fbIn, Reply) \in Seq(FbMsg)
        /\ Len(Append(fbIn, Reply)) = Len(fbIn) + 1
    BY <1>5, <2>1
  <2>3. Len(Append(fbIn, Reply)) <= FbFifoDepth
    BY <2>1, <2>2
  <2>. QED  BY <1>1, <2>1, <2>2, <2>3, Zenon
<1>7. FeedbackInv'
  <2>1. LET r == Append(fbIn, Reply) IN
        \A i \in 1 .. Len(r) : ~r[i].nak => r[i].seq < e
    BY <1>2, <1>3, <1>5, <1>6, AcksAppend DEF IInv, FeedbackInv, AcksOf
  <2>2. AcksOf(fbIn)'
    BY <1>1, <1>2, <2>1 DEF AcksOf
  <2>3. ASSUME NEW q \in Seq(FbMsg), AcksOf(q)
        PROVE  \A i \in 1 .. Len(q) : ~q[i].nak => q[i].seq < e
    <3>1. ASSUME NEW i \in 1 .. Len(q), ~q[i].nak PROVE q[i].seq < e
      <4>1. q[i] \in FbMsg /\ q[i].seq < expectedSeq
        BY <2>3, <3>1 DEF AcksOf
      <4>2. q[i].seq \in Nat
        BY <4>1 DEF FbMsg
      <4>. QED  BY <1>2, <1>3, <4>1, <4>2
    <3>. QED  BY <3>1
  <2>4. AcksOf(fbLine)' /\ AcksOf(fbOut)'
    BY <1>1, <1>2, <2>3 DEF IInv, FeedbackInv, AcksOf, TypeOK
  <2>. QED  BY <2>2, <2>4 DEF FeedbackInv
<1>8. TypeOK'
  BY <1>1, <1>2, <1>6
  DEF IInv, TypeOK, portVars, senderVars, replayVars, phyVars
<1>9. RetryIsWindow'
  <2>1. PICK b \in 0 .. nextSeq : /\ b <= expectedSeq
                                  /\ nextSeq <= b + RetryBufferSize
                                  /\ retry = b .. (nextSeq - 1)
    BY DEF IInv, RetryIsWindow
  <2>2. b <= e
    BY <1>2, <1>3, <2>1
  <2>3. nextSeq' = nextSeq /\ retry' = retry
    BY <1>1 DEF senderVars
  <2>. QED  BY <1>2, <2>1, <2>2, <2>3 DEF RetryIsWindow
<1>10. ReceiverInv'
  BY <1>1, <1>2, <1>4 DEF ReceiverInv, senderVars
<1>11. InOrderExactlyOnce'
  BY <1>1 DEF IInv, InOrderExactlyOnce
<1>12. PipeInv' /\ SerialInv'
  <2>1. UNCHANGED <<nextSeq, txPc, txSeq>>
    BY <1>1 DEF senderVars
  <2>2. PipeLen' = PipeLen /\ \A i \in 1 .. PipeLen : PipeSeq(i)' = PipeSeq(i)
    BY <1>1 DEF PipeLen, PipeSeq, phyVars
  <2>. QED  BY <1>4, <2>1, <2>2, SamePipe, PipeSeqInNat DEF IInv
<1>. QED  BY <1>7, <1>8, <1>9, <1>10, <1>11, <1>12 DEF IInv

\* The sender puts its frame into the pipe and picks the next one.
LEMMA TxWriteInv ==
  ASSUME IInv, TxWrite
  PROVE  IInv'
<1>1. PICK active \in BOOLEAN, cursor \in Nat, end \in Nat : Turn(active, cursor, end)
  <2>1. CASE txReplay
    <3>1. PICK c \in CursorAfterSend : Turn(c <= replayEnd, c, replayEnd)
      BY <2>1 DEF TxWrite
    <3>2. c \in Nat /\ (c <= replayEnd) \in BOOLEAN /\ replayEnd \in Nat
      BY LinkAssumption DEF CursorAfterSend, IInv, TypeOK
    <3>. QED  BY <3>1, <3>2
  <2>2. CASE ~txReplay
    BY <2>2 DEF TxWrite, IInv, TypeOK
  <2>. QED  BY <2>1, <2>2
<1>2. /\ txPc' \in {"serialize", "wait"} /\ txSeq' \in Nat
      /\ txReplay' \in BOOLEAN
      /\ nextSeq' \in Nat /\ nextSeq <= nextSeq'
      /\ replayActive' \in BOOLEAN /\ replayCursor' \in Nat /\ replayEnd' \in Nat
      /\ \E b \in 0 .. nextSeq' :
           /\ b <= expectedSeq
           /\ nextSeq' <= b + RetryBufferSize
           /\ retry' = b .. (nextSeq' - 1)
      /\ txPc' = "serialize" =>
           txSeq' < nextSeq' /\ nextSeq' <= txSeq' + RetryBufferSize
  BY <1>1, TurnFacts DEF IInv
<1>3. /\ PipeLen \in Nat /\ PipeLen' = PipeLen + 1
      /\ \A i \in 1 .. PipeLen + 1 :
           PipeSeq(i)' = IF i <= PipeLen THEN PipeSeq(i) ELSE txSeq
      /\ toPhy' \in Seq(Nat) /\ Len(toPhy') <= PhyFifoDepth
  BY PipeAfterTxWrite DEF IInv
<1>4. /\ txPc = "serialize"
      /\ offered' = offered /\ consumed' = consumed
      /\ line' = line /\ toRx' = toRx
      /\ rxPc' = rxPc /\ rxSeq' = rxSeq /\ inRetry' = inRetry
      /\ framesSinceNak' = framesSinceNak /\ expectedSeq' = expectedSeq
      /\ delivered' = delivered
      /\ fbIn' = fbIn /\ fbLine' = fbLine /\ fbOut' = fbOut
  BY DEF TxWrite, portVars, rxVars, fbVars
<1>5. retry' \in SUBSET Nat /\ Cardinality(retry') <= RetryBufferSize
  BY <1>2, WindowBound
<1>6. TypeOK'
  BY <1>2, <1>3, <1>4, <1>5 DEF IInv, TypeOK
<1>7. RetryIsWindow'
  BY <1>2, <1>4 DEF RetryIsWindow
<1>8. /\ nextSeq \in Nat /\ expectedSeq \in Nat /\ RetryBufferSize \in Nat \ {0}
      /\ Committed' = Committed /\ Committed \in Nat /\ Committed <= nextSeq
      /\ txSeq \in Nat /\ txSeq < nextSeq /\ Committed <= txSeq + RetryBufferSize
      /\ \A i \in 1 .. PipeLen : PipeSeq(i) < txSeq + RetryBufferSize
  BY <1>4, LinkAssumption
  DEF Committed, IInv, ReceiverInv, SerialInv, TypeOK
<1>9. nextSeq' \in Nat /\ nextSeq <= nextSeq' /\ txSeq' \in Nat
  BY <1>2, Zenon
<1>10. ReceiverInv'
  <2>1. Committed' <= nextSeq'
    BY <1>8, <1>9
  <2>. QED  BY <1>4, <2>1 DEF IInv, ReceiverInv
<1>11. InOrderExactlyOnce' /\ FeedbackInv'
  BY <1>4 DEF IInv, InOrderExactlyOnce, FeedbackInv, AcksOf
<1>12. ASSUME NEW i \in 1 .. PipeLen + 1
       PROVE  \E p \in Nat :
                /\ PipeSeq(i)' = p /\ p < nextSeq
                /\ Committed <= p + RetryBufferSize
                /\ \A j \in 1 .. i - 1 : PipeSeq(j)' < p + RetryBufferSize
  <2>1. CASE i = PipeLen + 1
    <3>1. PipeSeq(i)' = txSeq
      BY <1>3, <2>1
    <3>2. ASSUME NEW j \in 1 .. i - 1 PROVE PipeSeq(j)' < txSeq + RetryBufferSize
      BY <1>3, <1>8, <2>1
    <3>. QED  BY <1>8, <3>1, <3>2
  <2>2. CASE i # PipeLen + 1
    <3>1. i \in 1 .. PipeLen /\ PipeSeq(i)' = PipeSeq(i)
      BY <1>3, <2>2
    <3>2. PICK p \in Nat : p = PipeSeq(i)
      BY <3>1, PipeSeqInNat DEF IInv
    <3>3. /\ p < nextSeq /\ Committed <= p + RetryBufferSize
          /\ \A j \in 1 .. i - 1 : PipeSeq(j) < p + RetryBufferSize
      BY <3>1, <3>2, Zenon DEF IInv, PipeInv
    <3>4. ASSUME NEW j \in 1 .. i - 1 PROVE PipeSeq(j)' < p + RetryBufferSize
      BY <1>3, <3>1, <3>3
    <3>. QED  BY <3>1, <3>2, <3>3, <3>4, Zenon
  <2>. QED  BY <2>1, <2>2
<1>13. PipeInv'
  <2>1. ASSUME NEW i \in 1 .. PipeLen + 1
        PROVE  /\ PipeSeq(i)' < nextSeq'
               /\ Committed' <= PipeSeq(i)' + RetryBufferSize
               /\ \A j \in 1 .. i - 1 : PipeSeq(j)' < PipeSeq(i)' + RetryBufferSize
    <3>1. PICK p \in Nat : /\ PipeSeq(i)' = p /\ p < nextSeq
                           /\ Committed <= p + RetryBufferSize
                           /\ \A j \in 1 .. i - 1 : PipeSeq(j)' < p + RetryBufferSize
      BY <1>12
    <3>2. p < nextSeq'
      BY <1>8, <1>9, <3>1
    <3>. QED  BY <1>8, <3>1, <3>2, Zenon
  <2>. QED  BY <1>3, <2>1, Zenon DEF PipeInv
<1>14. SerialInv'
  <2>1. ASSUME txPc' = "serialize"
        PROVE  /\ txSeq' < nextSeq'
               /\ Committed' <= txSeq' + RetryBufferSize
               /\ \A i \in 1 .. PipeLen + 1 : PipeSeq(i)' < txSeq' + RetryBufferSize
    <3>1. PICK s \in Nat : txSeq' = s
      BY <1>9
    <3>2. s < nextSeq' /\ nextSeq' <= s + RetryBufferSize
      BY <1>2, <2>1, <3>1, Zenon
    <3>3. Committed' <= s + RetryBufferSize
      BY <1>8, <1>9, <3>2
    <3>4. ASSUME NEW i \in 1 .. PipeLen + 1 PROVE PipeSeq(i)' < s + RetryBufferSize
      <4>1. PICK p \in Nat : PipeSeq(i)' = p /\ p < nextSeq
        BY <1>12
      <4>2. p < s + RetryBufferSize
        BY <1>8, <1>9, <3>2, <4>1
      <4>. QED  BY <4>1, <4>2, Zenon
    <3>. QED  BY <3>1, <3>2, <3>3, <3>4, Zenon
  <2>. QED  BY <1>3, <2>1, Zenon DEF SerialInv
<1>. QED  BY <1>6, <1>7, <1>10, <1>11, <1>13, <1>14 DEF IInv

\* Every step of the link keeps the invariant.
LEMMA NextInv == IInv /\ [Next]_vars => IInv'
<1>. SUFFICES ASSUME IInv, [Next]_vars PROVE IInv'
  OBVIOUS
<1>1. CASE TxTrained \/ TxWake \/ TxTimeout
  BY <1>1, SenderWakesInv
<1>2. CASE TxWrite
  BY <1>2, TxWriteInv
<1>3. CASE TxFeedback
  BY <1>3, TxFeedbackInv
<1>4. CASE PhyIngress \/ PhyEgress
  BY <1>4, PhyInv
<1>5. CASE RxTake
  BY <1>5, RxTakeInv
<1>6. CASE RxWriteFdi
  BY <1>6, RxWriteFdiInv
<1>7. CASE RxWriteFb
  BY <1>7, RxWriteFbInv
<1>8. CASE FbIngress \/ FbEgress
  BY <1>8, FeedbackPathInv
<1>9. CASE FdiWrite \/ FdiRead
  BY <1>9, PortsInv
<1>10. CASE UNCHANGED vars
  <2>1. UNCHANGED <<senderVars, retry, replayVars, phyVars, rxVars, fbVars, portVars>>
    BY <1>10 DEF vars
  <2>2. TypeOK'
    BY <2>1
    DEF IInv, TypeOK, senderVars, replayVars, phyVars, rxVars, fbVars, portVars
  <2>3. RetryIsWindow' /\ ReceiverInv' /\ InOrderExactlyOnce' /\ FeedbackInv'
    BY <2>1 DEF IInv, RetryIsWindow, ReceiverInv, Committed, InOrderExactlyOnce,
                FeedbackInv, AcksOf, senderVars, rxVars, fbVars
  <2>4. Committed' = Committed /\ UNCHANGED <<nextSeq, txPc, txSeq>>
    BY <2>1 DEF Committed, senderVars, rxVars
  <2>5. PipeLen' = PipeLen /\ \A i \in 1 .. PipeLen : PipeSeq(i)' = PipeSeq(i)
    BY <2>1 DEF PipeLen, PipeSeq, phyVars
  <2>6. PipeInv' /\ SerialInv'
    BY <2>4, <2>5, SamePipe, PipeSeqInNat DEF IInv
  <2>. QED  BY <2>2, <2>3, <2>6 DEF IInv
<1>. QED  BY <1>1, <1>2, <1>3, <1>4, <1>5, <1>6, <1>7, <1>8, <1>9, <1>10 DEF Next

-----------------------------------------------------------------------------
\* The theorems

\* The inductive invariant holds in every reachable state.
THEOREM Invariance == Spec => []IInv
BY InitInv, NextInv, PTL DEF Spec

\* Every variable keeps its type, every FIFO and the retry buffer their size,
\* for every depth, window and number of wire values (ucie_link.h:120, 405-410).
THEOREM TypeCorrect == Spec => []TypeOK
<1>1. IInv => TypeOK
  BY DEF IInv
<1>. QED  BY <1>1, Invariance, PTL

\* The consumer at fdi_out sees every flit once and in order, whatever the
\* channel corrupts and whenever the replay timer fires (ucie_link.h:300-316).
THEOREM ExactlyOnce == Spec => []InOrderExactlyOnce
<1>1. IInv => InOrderExactlyOnce
  BY DEF IInv
<1>. QED  BY <1>1, Invariance, PTL

\* TxAdapter drops its copy of a flit only after RxAdapter has delivered it
\* (ucie_link.h:162-165).
THEOREM NothingReleasedEarly == Spec => []ReleasedWereDelivered
<1>1. IInv => ReleasedWereDelivered
  <2>. SUFFICES ASSUME IInv, NEW s \in 0 .. nextSeq - 1, s \notin retry
                PROVE  s < Len(delivered)
    BY DEF ReleasedWereDelivered
  <2>1. PICK b \in 0 .. nextSeq : b <= expectedSeq /\ retry = b .. (nextSeq - 1)
    BY DEF IInv, RetryIsWindow
  <2>2. /\ nextSeq \in Nat /\ expectedSeq \in Nat
        /\ Len(delivered) = expectedSeq \/ Len(delivered) = expectedSeq + 1
    BY DEF IInv, TypeOK, ReceiverInv
  <2>3. s < b
    BY <2>1, <2>2
  <2>. QED  BY <2>1, <2>2, <2>3
<1>. QED  BY <1>1, Invariance, PTL

\* The eight bits RxAdapter compares never mislead it (ucie_link.h:300-316,
\* for every window that is at most half the wire numbers).
THEOREM VerdictSound == Spec => []VerdictIsRight
<1>1. IInv => VerdictIsRight
  <2>. SUFFICES ASSUME IInv, rxPc = "idle", toRx # <<>>
                PROVE  LET s == Head(toRx).seq IN
                       /\ Diff(s) = 0 <=> s = expectedSeq
                       /\ Diff(s) >= SeqMod \div 2 <=> s < expectedSeq
    BY DEF VerdictIsRight
  <2> DEFINE s == Head(toRx).seq
  <2>1. /\ toRx \in Seq(Frame) /\ Head(toRx) = toRx[1] /\ Head(toRx) \in Frame
        /\ Len(toRx) \in Nat /\ Len(toRx) >= 1
        /\ Len(line) \in Nat /\ Len(toPhy) \in Nat
    BY DEF IInv, TypeOK
  <2>2. s \in Nat /\ PipeSeq(1) = s /\ 1 \in 1 .. PipeLen
    BY <2>1 DEF PipeSeq, PipeLen, Frame
  <2>3. /\ nextSeq \in Nat /\ expectedSeq \in Nat /\ RetryBufferSize \in Nat
        /\ Committed = expectedSeq
        /\ s < nextSeq /\ expectedSeq <= s + RetryBufferSize
    BY <2>2, LinkAssumption DEF IInv, TypeOK, PipeInv, Committed
  <2>4. nextSeq <= expectedSeq + RetryBufferSize
    BY <2>3 DEF IInv, RetryIsWindow
  <2>5. s < expectedSeq + RetryBufferSize
    BY <2>2, <2>3, <2>4
  <2>. QED  BY <2>2, <2>3, <2>5, VerdictLemma
<1>. QED  BY <1>1, Invariance, PTL

-----------------------------------------------------------------------------
\* The link implements the reliable FIFO

\* The sender takes only flits the producer has offered.
Offered == nextSeq <= offered /\ offered <= MaxFlits

\* A turn of the sender's loop accepts one offered flit or none.
LEMMA TurnAccepts ==
  ASSUME NEW active, NEW cursor, NEW end, Turn(active, cursor, end)
  PROVE  nextSeq' = nextSeq \/ (nextSeq' = nextSeq + 1 /\ nextSeq < offered)
BY DEF Turn, SendReplay, SendNew, Sleep, FdiAvailable

\* What a step can do to the numbers handed out and to the flits delivered.
LEMMA StepEffects ==
  ASSUME [Next]_vars
  PROVE  /\ \/ delivered' = delivered
            \/ RxWriteFdi
         /\ \/ nextSeq' = nextSeq /\ (offered' = offered \/ FdiWrite)
            \/ /\ nextSeq' = nextSeq + 1 /\ nextSeq < offered /\ offered' = offered
               /\ delivered' = delivered
<1>1. CASE TxTrained \/ TxWake \/ TxTimeout \/ TxWrite
  <2>1. \E active, cursor, end : Turn(active, cursor, end)
    BY <1>1 DEF TxTrained, TxWake, TxTimeout, TxWrite
  <2>2. UNCHANGED <<portVars, rxVars>>
    BY <1>1 DEF TxTrained, TxWake, TxTimeout, TxWrite
  <2>. QED  BY <2>1, <2>2, TurnAccepts DEF portVars, rxVars
<1>2. CASE TxFeedback \/ PhyIngress \/ PhyEgress \/ FbIngress \/ FbEgress
  BY <1>2 DEF TxFeedback, PhyIngress, PhyTransmit, PhyEgress, FbIngress, FbEgress,
              portVars, senderVars, rxVars
<1>3. CASE RxTake \/ RxWriteFb \/ RxWriteFdi
  BY <1>3 DEF RxTake, RxWriteFb, RxWriteFdi, portVars, senderVars
<1>4. CASE FdiWrite \/ FdiRead
  BY <1>4 DEF FdiWrite, FdiRead, senderVars, rxVars
<1>5. CASE UNCHANGED vars
  BY <1>5 DEF vars, portVars, senderVars, rxVars
<1>. QED  BY <1>1, <1>2, <1>3, <1>4, <1>5 DEF Next

\* Offered holds in every reachable state.
LEMMA OfferedInv == Spec => []Offered
<1>1. Init => Offered
  BY LinkAssumption DEF Init, Offered
<1>2. TypeOK /\ Offered /\ [Next]_vars => Offered'
  <2>. SUFFICES ASSUME TypeOK, Offered, [Next]_vars PROVE Offered'
    OBVIOUS
  <2>1. nextSeq \in Nat /\ offered \in Nat /\ MaxFlits \in Nat
    BY LinkAssumption DEF TypeOK
  <2>2. CASE FdiWrite
    BY <2>1, <2>2 DEF FdiWrite, senderVars, Offered
  <2>3. CASE ~FdiWrite
    BY <2>1, <2>3, StepEffects DEF Offered
  <2>. QED  BY <2>2, <2>3
<1>. QED  BY <1>1, <1>2, TypeCorrect, PTL DEF Spec

\* Accepting the next flit appends it to the FIFO's history.
LEMMA SentGrows ==
  ASSUME NEW n \in Nat
  PROVE  [i \in 1 .. n + 1 |-> i - 1] = Append([i \in 1 .. n |-> i - 1], n)
OBVIOUS

\* Every step of the link is a step of ReliableFifo or none: with the retry
\* buffer's size as the capacity, nothing more is ever inside the link.
THEOREM LinkImplementsFifo == Spec => ImplementsFifo
<1>1. Init => Fifo!Init
  BY DEF Init, Fifo!Init
<1>2. IInv /\ IInv' /\ Offered /\ [Next]_vars => [Fifo!Next]_(Fifo!vars)
  <2>. SUFFICES ASSUME IInv, IInv', Offered, [Next]_vars
                PROVE  [Fifo!Next]_(Fifo!vars)
    OBVIOUS
  <2> DEFINE sent == [i \in 1 .. nextSeq |-> i - 1]
  <2>1. /\ nextSeq \in Nat /\ offered \in Nat /\ expectedSeq \in Nat
        /\ delivered \in Seq(Nat) /\ Len(delivered) \in Nat
        /\ RetryBufferSize \in Nat /\ MaxFlits \in Nat
        /\ expectedSeq <= Len(delivered) /\ Committed <= nextSeq
        /\ Len(sent) = nextSeq
    BY LinkAssumption DEF IInv, TypeOK, ReceiverInv
  <2>2. CASE nextSeq' = nextSeq /\ delivered' = delivered
    BY <2>2 DEF Fifo!vars
  <2>3. CASE nextSeq' = nextSeq /\ RxWriteFdi
    <3>1. /\ rxSeq = expectedSeq /\ Len(delivered) = expectedSeq
          /\ expectedSeq < nextSeq
          /\ delivered' = Append(delivered, expectedSeq)
      BY <2>1, <2>3 DEF RxWriteFdi, IInv, ReceiverInv, Committed
    <3>2. sent[Len(delivered) + 1] = expectedSeq
      BY <2>1, <3>1
    <3>3. Fifo!Deliver
      BY <2>1, <2>3, <3>1, <3>2 DEF Fifo!Deliver
    <3>. QED  BY <3>3 DEF Fifo!Next
  <2>4. CASE /\ nextSeq' = nextSeq + 1 /\ nextSeq < offered
             /\ delivered' = delivered
    <3>1. nextSeq + 1 <= Len(delivered) + RetryBufferSize
      <4>1. PICK b \in Nat : b <= expectedSeq' /\ nextSeq' <= b + RetryBufferSize
        BY DEF IInv, RetryIsWindow
      <4>2. PICK e \in Nat : e = expectedSeq' /\ e <= Len(delivered)
        <5>1. PICK e \in Nat : e = expectedSeq'
          BY DEF IInv, TypeOK
        <5>2. Len(delivered') = IF rxPc' = "ack" THEN e + 1 ELSE e
          BY <5>1, Zenon DEF IInv, ReceiverInv
        <5>3. Len(delivered') = Len(delivered)
          BY <2>4
        <5>4. e <= Len(delivered)
          BY <2>1, <5>2, <5>3
        <5>. QED  BY <5>1, <5>4
      <4>. QED  BY <2>1, <2>4, <4>1, <4>2
    <3>2. Len(sent) - Len(delivered) < RetryBufferSize
      BY <2>1, <3>1
    <3>3. nextSeq \in 0 .. MaxFlits - 1
      BY <2>1, <2>4 DEF Offered
    <3>4. sent' = Append(sent, nextSeq)
      BY <2>1, <2>4, SentGrows
    <3>5. Fifo!Accept
      BY <2>4, <3>2, <3>3, <3>4 DEF Fifo!Accept
    <3>. QED  BY <3>5 DEF Fifo!Next
  <2>. QED  BY <2>2, <2>3, <2>4, StepEffects
<1>. QED  BY <1>1, <1>2, Invariance, OfferedInv, PTL DEF Spec, ImplementsFifo, Fifo!Spec
=============================================================================
