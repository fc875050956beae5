----------------------------- MODULE UcieLinkDir -----------------------------
(***************************************************************************)
(* One direction of the UCIe link (ucie-model/src/ucie_link.h):            *)
(*                                                                         *)
(*    fdi_in -> TxAdapter -> PhyChannel -> RxAdapter -> fdi_out            *)
(*                  ^                          |                           *)
(*                  +------ FeedbackPath <-----+                           *)
(*                                                                         *)
(* Every SC_THREAD is a process whose steps run from one blocking point to *)
(* the next: the kernel is cooperative, so nothing interleaves in between. *)
(* A blocking FIFO read or write is a guard on the length of the queue.    *)
(*                                                                         *)
(* A flit is identified with the 64-bit number TxAdapter gives it; its     *)
(* payload is the retry-buffer entry stored under that number.  Only the   *)
(* number modulo SeqMod travels in the frame header and is looked at by    *)
(* RxAdapter.                                                              *)
(***************************************************************************)
EXTENDS Integers, Sequences, FiniteSets

CONSTANTS
  SeqMod,           \* numbers the wire sequence field can hold (256)
  RetryBufferSize,  \* Config::retry_buffer_size (1..127, default 64)
  NakRepeatFrames,  \* Config::nak_repeat_frames (default 8)
  FdiDepth,         \* depth of the FIFOs at both FDI ports
  PhyFifoDepth,     \* depth of tx_to_phy and phy_to_rx (4)
  FbFifoDepth,      \* depth of rx_to_feedback and feedback_to_tx (64)
  TimerMayBeEarly,  \* lane_skew_max_ui, which the replay timer leaves out and
                    \* the configuration does not limit, may outlast the timer
  PipeBound,        \* BOUND: length of the two pending_ deques (unbounded)
  MaxFlits          \* BOUND: flits the producer offers

ASSUME LinkAssumption ==
  /\ SeqMod \in Nat \ {0}
  /\ RetryBufferSize \in Nat \ {0}
  /\ 2 * RetryBufferSize <= SeqMod
  /\ NakRepeatFrames \in Nat \ {0}
  /\ FdiDepth \in Nat \ {0}
  /\ PhyFifoDepth \in Nat \ {0}
  /\ FbFifoDepth \in Nat \ {0}
  /\ TimerMayBeEarly \in BOOLEAN
  /\ PipeBound \in Nat \ {0}
  /\ MaxFlits \in Nat

VARIABLES
  offered,         \* flits the producer has written into fdi_in
  \* TxAdapter
  txPc,            \* where the sender thread waits
  txSeq,           \* the frame being serialised by send_one ...
  txReplay,        \* ... and whether it is a retransmission
  nextSeq,         \* next_seq_
  retry,           \* the keys of retry_buffer_
  replayActive,    \* replay_active_
  replayCursor,    \* replay_cursor_, 0 while no replay is active
  replayEnd,       \* replay_end_, 0 while no replay is active
  \* PhyChannel
  toPhy,           \* the FIFO TxAdapter writes
  line,            \* pending_: frames on the wire with their CRC outcome
  toRx,            \* the FIFO RxAdapter reads
  \* RxAdapter
  rxPc,            \* where the run thread waits
  rxSeq,           \* the frame being written to fdi_out, 0 if none
  inRetry,         \* rx_state_ = RetryInProgress
  framesSinceNak,  \* frames_since_nak_
  expectedSeq,     \* expected_seq_
  delivered,       \* every flit written to fdi_out (history)
  consumed,        \* how many of them the consumer has read
  \* FeedbackPath
  fbIn,            \* rx_to_feedback
  fbLine,          \* pending_
  fbOut            \* feedback_to_tx

portVars   == <<offered, consumed>>
senderVars == <<txPc, txSeq, txReplay, nextSeq>>
replayVars == <<replayActive, replayCursor, replayEnd>>
phyVars    == <<toPhy, line, toRx>>
rxVars     == <<rxPc, rxSeq, inRetry, framesSinceNak, expectedSeq, delivered>>
fbVars     == <<fbIn, fbLine, fbOut>>
vars == <<portVars, senderVars, retry, replayVars, phyVars, rxVars, fbVars>>

-----------------------------------------------------------------------------
\* Frames and feedback messages

Frame == [seq : Nat, ok : BOOLEAN]
FbMsg == [nak : BOOLEAN, seq : Nat]

Ack(n) == [nak |-> FALSE, seq |-> n]
Nak(n) == [nak |-> TRUE, seq |-> n]

Lowest(S)  == CHOOSE s \in S : \A t \in S : s <= t
Highest(S) == CHOOSE s \in S : \A t \in S : t <= s

-----------------------------------------------------------------------------
\* TxAdapter::sender

FdiAvailable == nextSeq < offered

HasRoom == Cardinality(retry) < RetryBufferSize

\* What lower_bound(cursor) can still find inside the replay range.
ToReplay(cursor, end) == {s \in retry : cursor <= s /\ s <= end}

ReplayPending(active, cursor, end) == active /\ ToReplay(cursor, end) # {}

SetReplay(active, cursor, end) ==
  /\ replayActive' = active
  /\ replayCursor' = IF active THEN cursor ELSE 0
  /\ replayEnd' = IF active THEN end ELSE 0

SendReplay(active, cursor, end) ==
  /\ ReplayPending(active, cursor, end)
  /\ txPc' = "serialize"
  /\ txSeq' = Lowest(ToReplay(cursor, end))
  /\ txReplay' = TRUE
  /\ SetReplay(TRUE, cursor, end)
  /\ UNCHANGED <<nextSeq, retry>>

SendNew(active, cursor, end) ==
  /\ ~ReplayPending(active, cursor, end)
  /\ FdiAvailable /\ HasRoom
  /\ nextSeq' = nextSeq + 1
  /\ retry' = retry \cup {nextSeq}
  /\ txPc' = "serialize"
  /\ txSeq' = nextSeq
  /\ txReplay' = FALSE
  /\ SetReplay(FALSE, 0, 0)

Sleep(active, cursor, end) ==
  /\ ~ReplayPending(active, cursor, end)
  /\ ~(FdiAvailable /\ HasRoom)
  /\ txPc' = "wait"
  /\ txSeq' = 0
  /\ txReplay' = FALSE
  /\ SetReplay(FALSE, 0, 0)
  /\ UNCHANGED <<nextSeq, retry>>

\* One turn of the sender's loop, up to its next blocking point.
Turn(active, cursor, end) ==
  \/ SendReplay(active, cursor, end)
  \/ SendNew(active, cursor, end)
  \/ Sleep(active, cursor, end)

\* The training delay is over.
TxTrained ==
  /\ txPc = "train"
  /\ Turn(replayActive, replayCursor, replayEnd)
  /\ UNCHANGED <<portVars, phyVars, rxVars, fbVars>>

\* wake_ev_ or data_written_event ends the wait.
TxWake ==
  /\ txPc = "wait"
  /\ replayActive \/ (FdiAvailable /\ HasRoom)
  /\ Turn(replayActive, replayCursor, replayEnd)
  /\ UNCHANGED <<portVars, phyVars, rxVars, fbVars>>

\* The timer is four times the delay of the loop plus a margin: no answer is
\* on its way any more, unless the consumer has blocked RxAdapter.
AnswerOverdue ==
  /\ fbIn = <<>> /\ fbLine = <<>> /\ fbOut = <<>>
  /\ \/ toPhy = <<>> /\ line = <<>> /\ toRx = <<>> /\ rxPc = "idle"
     \/ rxPc = "deliver" /\ Len(delivered) - consumed >= FdiDepth

\* Mutant: the replay timer is armed only while the window is full.
TxTimeoutOnlyWhenFull ==
  /\ txPc = "wait"
  /\ ~replayActive
  /\ Cardinality(retry) = RetryBufferSize
  /\ TimerMayBeEarly \/ AnswerOverdue
  /\ Turn(TRUE, Lowest(retry), Highest(retry))
  /\ UNCHANGED <<portVars, phyVars, rxVars, fbVars>>

\* The replay timer: the whole unacknowledged window is sent again.
TxTimeout ==
  /\ txPc = "wait"
  /\ ~replayActive
  /\ retry # {}
  /\ TimerMayBeEarly \/ AnswerOverdue
  /\ Turn(TRUE, Lowest(retry), Highest(retry))
  /\ UNCHANGED <<portVars, phyVars, rxVars, fbVars>>

\* replay_cursor_ = it->first + 1 runs after send_one has waited.  If an ACK
\* erased the entry meanwhile, the iterator dangles and any key may be read.
CursorAfterSend ==
  IF txSeq \in retry THEN {txSeq + 1} ELSE 0 .. MaxFlits

\* send_one has waited for the serialisation time and for room in tx_to_phy;
\* the sender then goes round its loop without another wait.
TxWrite ==
  /\ txPc = "serialize"
  /\ Len(toPhy) < PhyFifoDepth
  /\ toPhy' = Append(toPhy, txSeq)
  /\ \/ /\ txReplay
        /\ \E c \in CursorAfterSend : Turn(c <= replayEnd, c, replayEnd)
     \/ /\ ~txReplay
        /\ Turn(replayActive, replayCursor, replayEnd)
  /\ UNCHANGED <<portVars, line, toRx, rxVars, fbVars>>

-----------------------------------------------------------------------------
\* TxAdapter::feedback

\* Mutants: an ACK releases one flit too many, or one too few.
ReleaseOneTooMany(n) == {s \in retry : s > n + 1}
ReleaseOneTooFew(n) == {s \in retry : s >= n}

\* Cumulative ACK: everything up to n leaves the retry buffer.
ReleaseUpTo(n) == {s \in retry : s > n}

TxAck(n) ==
  /\ retry' = ReleaseUpTo(n)
  /\ UNCHANGED replayVars

TxNak(n) ==
  LET unacked == {s \in retry : s >= n} IN
  /\ \/ unacked = {} /\ UNCHANGED replayVars
     \/ unacked # {} /\ SetReplay(TRUE, Lowest(unacked), Highest(retry))
  /\ UNCHANGED retry

TxFeedback ==
  /\ fbOut # <<>>
  /\ fbOut' = Tail(fbOut)
  /\ IF Head(fbOut).nak THEN TxNak(Head(fbOut).seq) ELSE TxAck(Head(fbOut).seq)
  /\ UNCHANGED <<portVars, senderVars, phyVars, rxVars, fbIn, fbLine>>

-----------------------------------------------------------------------------
\* PhyChannel: order is kept, nothing is lost, any frame may be corrupted

PhyTransmit(s, ok) ==
  /\ toPhy # <<>> /\ Head(toPhy) = s
  /\ Len(line) < PipeBound
  /\ toPhy' = Tail(toPhy)
  /\ line' = Append(line, [seq |-> s, ok |-> ok])
  /\ UNCHANGED <<portVars, senderVars, retry, replayVars, toRx, rxVars, fbVars>>

PhyIngress == toPhy # <<>> /\ \E ok \in BOOLEAN : PhyTransmit(Head(toPhy), ok)

PhyEgress ==
  /\ line # <<>>
  /\ Len(toRx) < PhyFifoDepth
  /\ toRx' = Append(toRx, Head(line))
  /\ line' = Tail(line)
  /\ UNCHANGED <<portVars, senderVars, retry, replayVars, toPhy, rxVars, fbVars>>

-----------------------------------------------------------------------------
\* RxAdapter::run

\* Mutant: half as many numbers are told apart.
DiffOfNarrowField(s) == (s - expectedSeq) % (SeqMod \div 2)

\* Distance on the circle of wire numbers from the expected frame to s.
Diff(s) == ((s % SeqMod) - (expectedSeq % SeqMod)) % SeqMod

InOrder(f)   == f.ok /\ Diff(f.seq) = 0
Duplicate(f) == f.ok /\ Diff(f.seq) >= SeqMod \div 2

TakeInOrder(f) ==
  /\ InOrder(f)
  /\ rxPc' = "deliver"
  /\ rxSeq' = f.seq
  /\ inRetry' = FALSE
  /\ framesSinceNak' = 0

TakeDuplicate(f) ==
  /\ ~InOrder(f) /\ Duplicate(f)
  /\ rxPc' = IF expectedSeq > 0 THEN "dup" ELSE "idle"
  /\ UNCHANGED <<rxSeq, inRetry, framesSinceNak>>

\* The first bad frame is answered at once, later ones every NakRepeatFrames.
NakDue == ~inRetry \/ framesSinceNak + 1 >= NakRepeatFrames

TakeBad(f) ==
  /\ ~InOrder(f) /\ ~Duplicate(f)
  /\ rxPc' = IF NakDue THEN "nak" ELSE "idle"
  /\ framesSinceNak' = IF NakDue THEN 0 ELSE framesSinceNak + 1
  /\ inRetry' = TRUE
  /\ UNCHANGED rxSeq

RxTake ==
  /\ rxPc = "idle"
  /\ toRx # <<>>
  /\ toRx' = Tail(toRx)
  /\ LET f == Head(toRx) IN TakeInOrder(f) \/ TakeDuplicate(f) \/ TakeBad(f)
  /\ UNCHANGED <<portVars, senderVars, retry, replayVars, toPhy, line,
                 expectedSeq, delivered, fbVars>>

\* fdi_out->write blocks while the consumer is behind.
RxWriteFdi ==
  /\ rxPc = "deliver"
  /\ Len(delivered) - consumed < FdiDepth
  /\ delivered' = Append(delivered, rxSeq)
  /\ rxPc' = "ack"
  /\ rxSeq' = 0
  /\ UNCHANGED <<portVars, senderVars, retry, replayVars, phyVars,
                 inRetry, framesSinceNak, expectedSeq, fbVars>>

\* Mutant: a duplicate is answered with the number that is still missing.
ReplyAhead == CASE rxPc \in {"ack", "dup"} -> Ack(expectedSeq)
                [] rxPc = "nak" -> Nak(expectedSeq)

Reply == CASE rxPc = "ack" -> Ack(expectedSeq)
           [] rxPc = "dup" -> Ack(expectedSeq - 1)
           [] rxPc = "nak" -> Nak(expectedSeq)

RxWriteFb ==
  /\ rxPc \in {"ack", "dup", "nak"}
  /\ Len(fbIn) < FbFifoDepth
  /\ fbIn' = Append(fbIn, Reply)
  /\ expectedSeq' = IF rxPc = "ack" THEN expectedSeq + 1 ELSE expectedSeq
  /\ rxPc' = "idle"
  /\ UNCHANGED <<portVars, senderVars, retry, replayVars, phyVars,
                 rxSeq, inRetry, framesSinceNak, delivered, fbLine, fbOut>>

-----------------------------------------------------------------------------
\* FeedbackPath: a delay line without errors

FbIngress ==
  /\ fbIn # <<>>
  /\ Len(fbLine) < PipeBound
  /\ fbLine' = Append(fbLine, Head(fbIn))
  /\ fbIn' = Tail(fbIn)
  /\ UNCHANGED <<portVars, senderVars, retry, replayVars, phyVars, rxVars, fbOut>>

FbEgress ==
  /\ fbLine # <<>>
  /\ Len(fbOut) < FbFifoDepth
  /\ fbOut' = Append(fbOut, Head(fbLine))
  /\ fbLine' = Tail(fbLine)
  /\ UNCHANGED <<portVars, senderVars, retry, replayVars, phyVars, rxVars, fbIn>>

-----------------------------------------------------------------------------
\* The modules at the two FDI ports

FdiWrite ==
  /\ offered < MaxFlits
  /\ offered - nextSeq < FdiDepth
  /\ offered' = offered + 1
  /\ UNCHANGED <<consumed, senderVars, retry, replayVars, phyVars, rxVars, fbVars>>

FdiRead ==
  /\ consumed < Len(delivered)
  /\ consumed' = consumed + 1
  /\ UNCHANGED <<offered, senderVars, retry, replayVars, phyVars, rxVars, fbVars>>

-----------------------------------------------------------------------------
Init ==
  /\ offered = 0 /\ consumed = 0
  /\ txPc = "train" /\ txSeq = 0 /\ txReplay = FALSE /\ nextSeq = 0
  /\ retry = {}
  /\ replayActive = FALSE /\ replayCursor = 0 /\ replayEnd = 0
  /\ toPhy = <<>> /\ line = <<>> /\ toRx = <<>>
  /\ rxPc = "idle" /\ rxSeq = 0 /\ inRetry = FALSE /\ framesSinceNak = 0
  /\ expectedSeq = 0 /\ delivered = <<>>
  /\ fbIn = <<>> /\ fbLine = <<>> /\ fbOut = <<>>

Next ==
  \/ TxTrained \/ TxWake \/ TxTimeout \/ TxWrite \/ TxFeedback
  \/ PhyIngress \/ PhyEgress
  \/ RxTake \/ RxWriteFdi \/ RxWriteFb
  \/ FbIngress \/ FbEgress
  \/ FdiWrite \/ FdiRead

Spec == Init /\ [][Next]_vars

\* Every thread of the link keeps running and the consumer keeps reading.  No
\* flit is corrupted for ever: errors are random with a rate below one, so a
\* frame that is transmitted again and again gets through once in a while.
Fairness ==
  /\ WF_vars(TxTrained) /\ WF_vars(TxWake) /\ WF_vars(TxTimeout)
  /\ WF_vars(TxWrite) /\ WF_vars(TxFeedback)
  /\ WF_vars(PhyIngress) /\ WF_vars(PhyEgress)
  /\ WF_vars(RxTake) /\ WF_vars(RxWriteFdi) /\ WF_vars(RxWriteFb)
  /\ WF_vars(FbIngress) /\ WF_vars(FbEgress)
  /\ WF_vars(FdiRead)
  /\ \A s \in 0 .. MaxFlits - 1 : SF_vars(PhyTransmit(s, TRUE))

FairSpec == Spec /\ Fairness

-----------------------------------------------------------------------------
\* Properties

\* Every variable keeps its type, every bounded FIFO its depth and the retry
\* buffer its size (ucie_link.h:120, 405-410).
TypeOK ==
  /\ offered \in Nat /\ consumed \in Nat
  /\ txPc \in {"train", "serialize", "wait"}
  /\ txSeq \in Nat /\ txReplay \in BOOLEAN /\ nextSeq \in Nat
  /\ retry \in SUBSET Nat /\ Cardinality(retry) <= RetryBufferSize
  /\ replayActive \in BOOLEAN /\ replayCursor \in Nat /\ replayEnd \in Nat
  /\ toPhy \in Seq(Nat) /\ Len(toPhy) <= PhyFifoDepth
  /\ line \in Seq(Frame) /\ Len(line) <= PipeBound
  /\ toRx \in Seq(Frame) /\ Len(toRx) <= PhyFifoDepth
  /\ rxPc \in {"idle", "deliver", "ack", "dup", "nak"}
  /\ rxSeq \in Nat /\ inRetry \in BOOLEAN /\ framesSinceNak \in Nat
  /\ expectedSeq \in Nat /\ delivered \in Seq(Nat)
  /\ fbIn \in Seq(FbMsg) /\ Len(fbIn) <= FbFifoDepth
  /\ fbLine \in Seq(FbMsg) /\ Len(fbLine) <= PipeBound
  /\ fbOut \in Seq(FbMsg) /\ Len(fbOut) <= FbFifoDepth

\* The consumer sees the producer's flits in order, each once, none missing:
\* what MemoryResponder and FdiSink count as integrity errors never happens.
InOrderExactlyOnce == \A i \in 1 .. Len(delivered) : delivered[i] = i - 1

\* A flit leaves the retry buffer only after it has been written to fdi_out:
\* TxAdapter never releases the last copy of a flit that is still needed.
ReleasedWereDelivered ==
  \A s \in 0 .. nextSeq - 1 : s \notin retry => s < Len(delivered)

\* The verdict RxAdapter reads off eight bits of the number is the verdict the
\* whole number would give: expected, old, or ahead of its turn
\* (ucie_link.h:300-316; the reason for the limit on retry_buffer_size).
VerdictIsRight ==
  rxPc = "idle" /\ toRx # <<>> /\ Head(toRx).ok =>
    LET s == Head(toRx).seq IN
    /\ Diff(s) = 0 <=> s = expectedSeq
    /\ Diff(s) >= SeqMod \div 2 <=> s < expectedSeq

\* MODELING_AND_VERIFICATION.md section 4.5.4: after NAK(n) the sender starts
\* again from the first unacknowledged flit at or after n.  So when the sender
\* has written a frame that is still unacknowledged, a flit of the replay range
\* which it no longer intends to send is the one it has just sent.
NakRestartsReplay ==
  [][ Len(toPhy') > Len(toPhy) /\ replayActive /\ txSeq \in retry =>
        \A s \in ToReplay(replayCursor, replayEnd) :
          \/ s = txSeq
          \/ replayActive' /\ replayCursor' <= s /\ s <= replayEnd' ]_vars

\* The link is a reliable FIFO between its FDI ports, of the capacity of the
\* retry buffer: a flit is sent when it enters the retry buffer.
Fifo == INSTANCE ReliableFifo
          WITH Flit <- 0 .. MaxFlits - 1, Capacity <- RetryBufferSize,
               sent <- [i \in 1 .. nextSeq |-> i - 1]

\* Every step of the link is a step of the FIFO or none.
ImplementsFifo == Fifo!Spec

\* The same with the FIFO's fairness: every accepted flit is delivered,
\* whatever the channel corrupts and whenever the replay timer fires.
ImplementsFairFifo == Fifo!FairSpec

\* Every accepted flit is acknowledged in the end, so the retry buffer is
\* empty again and again (the producer's traffic is bounded).
RetryBufferDrains == []<>(retry = {})
=============================================================================
