--------------------------- MODULE AouTargetProofs ---------------------------
(***************************************************************************)
(* Proofs about AouTarget for any planes, requests, sizes of messages and  *)
(* of frames, and depths of queues.                                        *)
(*                                                                         *)
(* First the types.  Then both credit loops: each step of the target, its  *)
(* initiator and the link between them is a step of CreditLoop, once for   *)
(* requests and once for responses, so that what is proved of CreditLoop   *)
(* holds here.  The granules on the link are sums over its frames.         *)
(*                                                                         *)
(* Last the order of things: requests and data arrive as they were sent, a *)
(* burst gets its own beats, and a response of the memory finds the ticket *)
(* of its transaction; what leaves of an ID are the first responses to its *)
(* requests, in order, and an idle target has answered all it took.  For   *)
(* any requests, IDs and bursts, any interleaving of the cells and any     *)
(* order of the memory that the contract of simple_mem_if.h allows.        *)
(***************************************************************************)
EXTENDS AouTarget, FoldLemmas

-----------------------------------------------------------------------------
\* Types

RxFrame == [messages : [ReqCell -> Seq(Message)], grant : [RspCell -> Nat]]
TxFrame == [messages : [RspCell -> Seq(Message)], grant : [ReqCell -> Nat]]
WriteJob == [n : Nat, got : Seq(Message)]
Reply == [n : Nat, beat : Nat]
FrameBuilt == [messages : [RspCell -> Seq(Message)], used : 0 .. FlitGranules]
SpillKept == [cell : RspCell, msg : Message, left : Nat, completes : BOOLEAN]

PeerTyped ==
  /\ issued \in [ReqCell -> Nat] /\ reqCredit \in [ReqCell -> Nat]
  /\ received \in [RspCell -> Seq(Message)]
  /\ held \in [RspCell -> Nat] /\ rspOwed \in [RspCell -> Nat] /\ peerNextRp \in Rp
  /\ \A c \in ReqCell : issued[c] <= Len(Program(c))
  /\ \A c \in RspCell : \E k \in Nat : held[c] = k * Granules[c[2]]

RxTyped == linkRx \in Seq(RxFrame) /\ Len(linkRx) <= LinkDepth
TxTyped == linkTx \in Seq(TxFrame) /\ Len(linkTx) <= LinkDepth

JobsTyped ==
  /\ writes \in [Rp -> Seq(WriteJob)] /\ reads \in [Rp -> Seq(Nat)]
  /\ data \in [Rp -> Seq(Message)]

TicketsTyped ==
  /\ tickets \in Seq(Transaction) /\ outstanding \in Int /\ nextSubmit \in Slots

RepliesTyped == replies \in [RspCell -> Seq(Reply)] /\ nextReply \in Rp

\* A frame is being built in the phase "pack" alone, and there is room for it.
FrameTyped ==
  /\ spill \in SpillKept /\ frame \in FrameBuilt
  /\ phase # "pack" => frame = EmptyFrame
  /\ frame.used = 0 => frame.messages = NoMessage(RspCell)
  /\ phase = "pack" => Len(linkTx) < LinkDepth

CreditTyped ==
  /\ owed \in [ReqCell -> Nat] /\ nextHeaderRp \in Rp /\ rspCredit \in [RspCell -> Nat]

MemTyped ==
  /\ memReq \in Seq(Transaction) /\ Len(memReq) <= MemDepth
  /\ memRsp \in Seq(Transaction) /\ Len(memRsp) <= MemDepth
  /\ memory \in Seq(Transaction)

PhaseTyped == phase \in {"receive", "collect", "assemble", "submit", "transmit", "pack"}

Typed ==
  /\ PeerTyped /\ RxTyped /\ TxTyped /\ JobsTyped /\ TicketsTyped /\ RepliesTyped
  /\ FrameTyped /\ CreditTyped /\ MemTyped /\ PhaseTyped

-----------------------------------------------------------------------------
\* Constants and sequences

LEMMA Constants ==
  /\ RpCount \in Nat \ {0} /\ FlitGranules \in Nat \ {0} /\ LinkDepth \in Nat \ {0}
  /\ MemDepth \in Nat \ {0} /\ CreditCounterMax \in Nat /\ 0 \in Rp
  /\ \A c \in ReqCell : Granules[c[2]] \in Nat \ {0} /\ c[1] \in Rp /\ c[2] \in ReqKind
  /\ \A c \in RspCell : Granules[c[2]] \in Nat \ {0} /\ c[1] \in Rp /\ c[2] \in RspKind
  /\ \A c \in ReqCell : Capacity[c] \in Nat
<1>1. /\ \A c \in ReqCell : Granules[c[2]] \in Nat \ {0} /\ c[1] \in Rp /\ c[2] \in ReqKind
      /\ \A c \in RspCell : Granules[c[2]] \in Nat \ {0} /\ c[1] \in Rp /\ c[2] \in RspKind
  BY TargetAssumption DEF ReqCell, RspCell
<1>2. \A c \in ReqCell : Capacity[c] \in Nat
  <2> SUFFICES ASSUME NEW c \in ReqCell PROVE Capacity[c] \in Nat
    OBVIOUS
  <2>1. Granules[c[2]] \in Nat /\ RequestSlots \in Nat /\ WDataCapacity \in Nat
    BY <1>1, TargetAssumption
  <2>2. RequestSlots * Granules[c[2]] \in Nat
    BY <2>1
  <2> QED BY <2>1, <2>2 DEF Capacity
<1> QED BY <1>1, <1>2, TargetAssumption DEF Rp

LEMMA TailIsSeq ==
  ASSUME NEW S, NEW s \in Seq(S), s # <<>>
  PROVE  /\ Tail(s) \in Seq(S) /\ Head(s) \in S /\ Len(Tail(s)) = Len(s) - 1
         /\ Head(s) = s[1] /\ Len(s) \in Nat \ {0}
         /\ \A i \in 1 .. Len(s) - 1 : Tail(s)[i] = s[i + 1]
OBVIOUS

LEMMA AppendIsSeq ==
  ASSUME NEW S, NEW s \in Seq(S), NEW e \in S
  PROVE  /\ Append(s, e) \in Seq(S) /\ Len(Append(s, e)) = Len(s) + 1
         /\ Append(s, e)[Len(s) + 1] = e /\ Len(s) \in Nat
         /\ \A i \in 1 .. Len(s) : Append(s, e)[i] = s[i]
OBVIOUS

LEMMA SeqOfFunction ==
  ASSUME NEW S, NEW n \in Nat, NEW f \in [1 .. n -> S]
  PROVE  f \in Seq(S) /\ Len(f) = n
OBVIOUS

LEMMA RemovedIsSeq ==
  ASSUME NEW S, NEW s \in Seq(S), NEW i \in 1 .. Len(s)
  PROVE  RemoveAt(s, i) \in Seq(S) /\ Len(RemoveAt(s, i)) = Len(s) - 1
<1>1. SubSeq(s, 1, i - 1) \in Seq(S) /\ Len(SubSeq(s, 1, i - 1)) = i - 1
  OBVIOUS
<1>2. /\ SubSeq(s, i + 1, Len(s)) \in Seq(S)
      /\ Len(SubSeq(s, i + 1, Len(s))) = Len(s) - i
  OBVIOUS
<1> DEFINE a == SubSeq(s, 1, i - 1)
           b == SubSeq(s, i + 1, Len(s))
<1>3. RemoveAt(s, i) = a \o b
  BY DEF RemoveAt
<1>4. a \in Seq(S) /\ b \in Seq(S) /\ Len(a) = i - 1 /\ Len(b) = Len(s) - i
  BY <1>1, <1>2
<1>5. Len(s) \in Nat /\ i \in Nat
  OBVIOUS
<1> HIDE DEF a, b
<1>6. a \o b \in Seq(S) /\ Len(a \o b) = Len(a) + Len(b)
  BY <1>4, JoinIsSeq
<1> QED BY <1>3, <1>4, <1>5, <1>6

LEMMA ExceptIsSeq ==
  ASSUME NEW S, NEW s \in Seq(S), NEW i \in 1 .. Len(s), NEW e \in S
  PROVE  /\ [s EXCEPT ![i] = e] \in Seq(S) /\ Len([s EXCEPT ![i] = e]) = Len(s)
         /\ [s EXCEPT ![i] = e][i] = e
         /\ \A j \in 1 .. Len(s) \ {i} : [s EXCEPT ![i] = e][j] = s[j]
OBVIOUS

LEMMA PartIsSeq ==
  ASSUME NEW S, NEW s \in Seq(S), NEW i \in Nat, NEW n \in Nat, i + n <= Len(s)
  PROVE  SubSeq(s, i + 1, i + n) \in Seq(S) /\ Len(SubSeq(s, i + 1, i + n)) = n
OBVIOUS

LEMMA ElementOfSeq ==
  ASSUME NEW S, NEW s \in Seq(S), NEW i \in 1 .. Len(s)
  PROVE  s[i] \in S
OBVIOUS

LEMMA JobHasBeats ==
  ASSUME NEW s \in Seq([id : Nat, beats : Nat \ {0}]), NEW n \in 1 .. Len(s)
  PROVE  s[n].beats \in Nat \ {0} /\ s[n].id \in Nat /\ n \in Nat
<1>1. s[n] \in [id : Nat, beats : Nat \ {0}]
  BY ElementOfSeq
<1>2. n \in Nat
  OBVIOUS
<1> QED BY <1>1, <1>2

\* What the initiator is to send of a cell is a sequence of messages.
LEMMA ProgramIsSeq ==
  ASSUME NEW c \in ReqCell
  PROVE  Program(c) \in Seq(Message)
<1>1. /\ c[1] \in Rp /\ c[2] \in {"WriteReq", "ReadReq", "WriteData"}
      /\ Writes[c[1]] \in Seq([id : Nat, beats : Nat \ {0}])
      /\ Reads[c[1]] \in Seq([id : Nat, beats : Nat \ {0}])
  BY TargetAssumption DEF ReqCell, ReqKind
<1>2. Len(Writes[c[1]]) \in Nat /\ Len(Reads[c[1]]) \in Nat
  BY <1>1
<1>3. CASE c[2] = "WriteReq"
  <2>1. [n \in 1 .. Len(Writes[c[1]]) |-> <<n, 0>>] \in Seq(Message)
    BY <1>2 DEF Message
  <2> QED BY <1>3, <2>1 DEF Program
<1>4. CASE c[2] = "ReadReq"
  <2>1. [n \in 1 .. Len(Reads[c[1]]) |-> <<n, 0>>] \in Seq(Message)
    BY <1>2 DEF Message
  <2> QED BY <1>4, <2>1 DEF Program
<1>5. CASE c[2] = "WriteData"
  <2>1. ASSUME NEW n \in 1 .. Len(Writes[c[1]]) PROVE BurstOf(c[1], n) \in Seq(Message)
    <3>1. Writes[c[1]][n].beats \in Nat /\ n \in Nat
      BY <1>1, <1>2, JobHasBeats
    <3> DEFINE m == Writes[c[1]][n].beats
    <3>2. BurstOf(c[1], n) = [b \in 1 .. m |-> <<n, b>>]
      BY DEF BurstOf
    <3>3. m \in Nat /\ \A b \in 1 .. m : <<n, b>> \in Nat \X Nat
      BY <3>1
    <3> HIDE DEF m
    <3>4. [b \in 1 .. m |-> <<n, b>>] \in Seq(Nat \X Nat)
      BY <3>3, SeqOfFunction
    <3> QED BY <3>2, <3>4 DEF Message
  <2>2. [n \in 1 .. Len(Writes[c[1]]) |-> BurstOf(c[1], n)] \in Seq(Seq(Message))
    BY <1>2, <2>1
  <2>3. FlattenSeq([n \in 1 .. Len(Writes[c[1]]) |-> BurstOf(c[1], n)]) \in Seq(Message)
    BY <2>2, FlattenIsSeq
  <2> QED BY <1>5, <2>3 DEF Program
<1> QED BY <1>1, <1>3, <1>4, <1>5

-----------------------------------------------------------------------------
\* Grants

ReqLoop == INSTANCE CreditLoopProofs
  WITH Kind <- ReqKind, NarrowKind <- {}, pending <- owed, flying <- RequestGrants,
       available <- reqCredit, sending <- RequestsFlying, buffered <- RequestsBuffered

RspLoop == INSTANCE CreditLoopProofs
  WITH Kind <- RspKind, NarrowKind <- {"WriteResp"},
       Capacity <- [c \in RspCell |-> PeerCapacity[c[2]]],
       pending <- rspOwed, nextHeaderRp <- peerNextRp, flying <- ResponseGrants,
       available <- rspCredit, sending <- ResponsesFlying, buffered <- held

Granting(g, cells, owes) == g \in [cells -> Nat] /\ \A c \in cells : g[c] <= owes[c]

LEMMA RequestGranted ==
  ASSUME owed \in [ReqCell -> Nat], NEW planes
  PROVE  Granting(Request!Granted(planes), ReqCell, owed)
<1>1. ASSUME NEW c \in ReqCell PROVE Request!Granted(planes)[c] \in 0 .. owed[c]
  <2>1. c[2] \in ReqKind /\ owed[c] \in Nat /\ c \in Request!Cell
    BY DEF ReqCell, Request!Cell, Rp, Request!Rp
  <2>2. Request!Encoded(c[2], owed[c]) \in 0 .. owed[c]
    BY <2>1, ReqLoop!EncodedIsOwed DEF Request!Encoded, Request!SizesOf, Request!GrantSizes,
         ReqLoop!Encoded, ReqLoop!SizesOf, ReqLoop!GrantSizes
  <2> QED BY <2>1, <2>2 DEF Request!Granted
<1>2. Request!Granted(planes) \in [ReqCell -> Nat]
  BY <1>1 DEF Request!Granted, Request!Cell, ReqCell, Request!Rp, Rp
<1> QED BY <1>1, <1>2 DEF Granting

LEMMA ResponseGranted ==
  ASSUME rspOwed \in [RspCell -> Nat], NEW planes
  PROVE  Granting(Response!Granted(planes), RspCell, rspOwed)
<1>1. ASSUME NEW c \in RspCell PROVE Response!Granted(planes)[c] \in 0 .. rspOwed[c]
  <2>1. c[2] \in RspKind /\ rspOwed[c] \in Nat /\ c \in Response!Cell
    BY DEF RspCell, Response!Cell, Rp, Response!Rp
  <2>2. Response!Encoded(c[2], rspOwed[c]) \in 0 .. rspOwed[c]
    BY <2>1, RspLoop!EncodedIsOwed DEF Response!Encoded, Response!SizesOf,
         Response!GrantSizes, RspLoop!Encoded, RspLoop!SizesOf, RspLoop!GrantSizes
  <2> QED BY <2>1, <2>2 DEF Response!Granted
<1>2. Response!Granted(planes) \in [RspCell -> Nat]
  BY <1>1 DEF Response!Granted, Response!Cell, RspCell, Response!Rp, Rp
<1> QED BY <1>1, <1>2 DEF Granting

LEMMA NoGrantIsGranting ==
  ASSUME NEW cells, NEW owes \in [cells -> Nat]
  PROVE  Granting(NoGrant(cells), cells, owes) /\ \A c \in cells : NoGrant(cells)[c] = 0
BY DEF Granting, NoGrant

-----------------------------------------------------------------------------
\* Types: one lemma for each step

\* What the initiator may send: as many messages as it has, and can pay for.
Sendable(batch) ==
  /\ batch \in [ReqCell -> Nat]
  /\ \A c \in ReqCell : /\ issued[c] + batch[c] <= Len(Program(c))
                        /\ Amount(c, batch[c]) <= reqCredit[c]

LEMMA BatchIsTyped ==
  ASSUME NEW batch \in Batches
  PROVE  batch \in [ReqCell -> Nat]
BY DEF Batches

LEMMA AmountIsNat ==
  /\ \A c \in ReqCell : \A k \in Nat : Amount(c, k) \in Nat
  /\ \A c \in RspCell : \A k \in Nat : Amount(c, k) \in Nat
<1>1. ASSUME NEW c \in ReqCell, NEW k \in Nat PROVE Amount(c, k) \in Nat
  <2>1. Granules[c[2]] \in Nat
    BY Constants
  <2> QED BY <2>1 DEF Amount
<1>2. ASSUME NEW c \in RspCell, NEW k \in Nat PROVE Amount(c, k) \in Nat
  <2>1. Granules[c[2]] \in Nat
    BY Constants
  <2> QED BY <2>1 DEF Amount
<1> QED BY <1>1, <1>2

\* The frame the initiator sends.
SentFrame(batch, grant) ==
  [messages |-> [c \in ReqCell |->
                   SubSeq(Program(c), issued[c] + 1, issued[c] + batch[c])],
   grant |-> grant]

LEMMA SentFrameTyped ==
  ASSUME PeerTyped, NEW batch, Sendable(batch), NEW grant \in [RspCell -> Nat]
  PROVE  /\ SentFrame(batch, grant) \in RxFrame
         /\ \A c \in ReqCell : Len(SentFrame(batch, grant).messages[c]) = batch[c]
<1>1. ASSUME NEW c \in ReqCell
      PROVE  /\ SubSeq(Program(c), issued[c] + 1, issued[c] + batch[c]) \in Seq(Message)
             /\ Len(SubSeq(Program(c), issued[c] + 1, issued[c] + batch[c])) = batch[c]
  <2>1. /\ Program(c) \in Seq(Message) /\ issued[c] \in Nat /\ batch[c] \in Nat
        /\ issued[c] + batch[c] <= Len(Program(c))
    BY ProgramIsSeq DEF PeerTyped, Sendable
  <2> QED BY <2>1, PartIsSeq
<1> QED BY <1>1 DEF SentFrame, RxFrame

LEMMA PeerFrameTyped ==
  ASSUME Typed, NEW batch, Sendable(batch), NEW grant,
         Granting(grant, RspCell, rspOwed), PeerFrame(batch, grant), peerNextRp' \in Rp
  PROVE  Typed'
<1>1. ASSUME NEW c \in ReqCell
      PROVE  issued[c] + batch[c] \in Nat /\ reqCredit[c] - Amount(c, batch[c]) \in Nat
  <2>1. issued[c] \in Nat /\ reqCredit[c] \in Nat /\ batch[c] \in Nat
    BY DEF Typed, PeerTyped, Sendable
  <2>2. Amount(c, batch[c]) \in Nat /\ Amount(c, batch[c]) <= reqCredit[c]
    BY <2>1, AmountIsNat DEF Sendable
  <2> QED BY <2>1, <2>2
<1>2. ASSUME NEW c \in RspCell PROVE rspOwed[c] - grant[c] \in Nat
  <2>1. rspOwed[c] \in Nat /\ grant[c] \in Nat /\ grant[c] <= rspOwed[c]
    BY DEF Typed, PeerTyped, Granting
  <2> QED BY <2>1
<1>3. /\ issued' \in [ReqCell -> Nat] /\ reqCredit' \in [ReqCell -> Nat]
      /\ rspOwed' \in [RspCell -> Nat]
  BY <1>1, <1>2 DEF PeerFrame
<1>4. linkRx' = Append(linkRx, SentFrame(batch, grant))
  BY DEF PeerFrame, SentFrame
<1>5. SentFrame(batch, grant) \in RxFrame
  BY SentFrameTyped DEF Typed, Granting
<1>6. RxTyped'
  <2>1. linkRx \in Seq(RxFrame) /\ Len(linkRx) < LinkDepth /\ LinkDepth \in Nat
    BY Constants DEF Typed, RxTyped, PeerFrame
  <2>2. linkRx' \in Seq(RxFrame) /\ Len(linkRx') = Len(linkRx) + 1 /\ Len(linkRx) \in Nat
    BY <1>4, <1>5, <2>1, AppendIsSeq
  <2> QED BY <2>1, <2>2 DEF RxTyped
<1>7. /\ \A c \in ReqCell : issued'[c] <= Len(Program(c))
      /\ held' = held
  BY DEF PeerFrame, Sendable
<1>8. PeerTyped'
  BY <1>3, <1>7 DEF PeerFrame, PeerTyped, Typed
<1> QED BY <1>6, <1>8 DEF PeerFrame, Typed, TxTyped, JobsTyped, TicketsTyped, RepliesTyped,
         FrameTyped, CreditTyped, MemTyped, PhaseTyped, targetVars, jobVars, sendVars,
         creditVars, memVars

LEMMA NothingSendable == Typed => Sendable(NoGrant(ReqCell))
<1> SUFFICES ASSUME Typed PROVE Sendable(NoGrant(ReqCell))
  OBVIOUS
<1>1. ASSUME NEW c \in ReqCell
      PROVE  issued[c] + 0 <= Len(Program(c)) /\ Amount(c, 0) <= reqCredit[c]
  <2>1. /\ issued[c] \in Nat /\ issued[c] <= Len(Program(c)) /\ reqCredit[c] \in Nat
        /\ Len(Program(c)) \in Nat
    BY ProgramIsSeq DEF Typed, PeerTyped
  <2>2. Granules[c[2]] \in Nat
    BY Constants
  <2>3. Amount(c, 0) = 0
    BY <2>2 DEF Amount
  <2> QED BY <2>1, <2>3
<1> QED BY <1>1 DEF Sendable, NoGrant

LEMMA PeerSends ==
  ASSUME Typed, PeerSend
  PROVE  \E batch, grant : /\ Sendable(batch) /\ Granting(grant, RspCell, rspOwed)
                           /\ PeerFrame(batch, grant) /\ peerNextRp' \in Rp
<1>1. PICK batch \in Batches :
        /\ \A c \in ReqCell : /\ issued[c] + batch[c] <= Len(Program(c))
                              /\ Amount(c, batch[c]) <= reqCredit[c]
        /\ \/ \E rp \in Rp : /\ PeerFrame(batch, Response!Granted({rp}))
                             /\ peerNextRp' = (rp + 1) % RpCount
           \/ PeerFrame(batch, NoGrant(RspCell)) /\ UNCHANGED peerNextRp
  BY DEF PeerSend
<1>2. Sendable(batch)
  BY <1>1, BatchIsTyped DEF Sendable
<1>3. rspOwed \in [RspCell -> Nat] /\ peerNextRp \in Rp
  BY DEF Typed, PeerTyped
<1>4. \A rp \in Rp : (rp + 1) % RpCount \in Rp
  BY Constants DEF Rp
<1>5. CASE \E rp \in Rp : /\ PeerFrame(batch, Response!Granted({rp}))
                          /\ peerNextRp' = (rp + 1) % RpCount
  BY <1>2, <1>3, <1>4, <1>5, ResponseGranted
<1>6. CASE PeerFrame(batch, NoGrant(RspCell)) /\ UNCHANGED peerNextRp
  BY <1>2, <1>3, <1>6, NoGrantIsGranting
<1> QED BY <1>1, <1>5, <1>6

LEMMA PeerSendTyped == Typed /\ PeerSend => Typed'
BY PeerSends, PeerFrameTyped

LEMMA PeerGrantTyped == Typed /\ PeerGrant => Typed'
<1> SUFFICES ASSUME Typed, PeerGrant PROVE Typed'
  OBVIOUS
<1>1. rspOwed \in [RspCell -> Nat] /\ peerNextRp' \in Rp
  BY DEF Typed, PeerTyped, PeerGrant
<1>2. Granting(Response!Granted(Rp), RspCell, rspOwed)
  BY <1>1, ResponseGranted
<1> QED BY <1>1, <1>2, NothingSendable, PeerFrameTyped DEF PeerGrant

LEMMA PeerReceiveTyped == Typed /\ PeerReceive => Typed'
<1> SUFFICES ASSUME Typed, PeerReceive PROVE Typed'
  OBVIOUS
<1> DEFINE f == Head(linkTx)
<1>1. linkTx \in Seq(TxFrame) /\ linkTx # <<>> /\ linkTx' = Tail(linkTx)
  BY DEF Typed, TxTyped, PeerReceive
<1>2. /\ f \in TxFrame /\ linkTx' \in Seq(TxFrame)
      /\ Len(linkTx') = Len(linkTx) - 1 /\ Len(linkTx) \in Nat
  BY <1>1, TailIsSeq
<1>3. f.messages \in [RspCell -> Seq(Message)] /\ f.grant \in [ReqCell -> Nat]
  BY <1>2 DEF TxFrame
<1>4. /\ reqCredit' = [c \in ReqCell |->
                         Request!AtMost(CreditCounterMax, reqCredit[c] + f.grant[c])]
      /\ received' = [c \in RspCell |-> received[c] \o f.messages[c]]
      /\ held' = [c \in RspCell |-> held[c] + Amount(c, Len(f.messages[c]))]
  BY DEF PeerReceive
<1> HIDE DEF f
<1>5. reqCredit' \in [ReqCell -> Nat]
  BY <1>3, <1>4, Constants DEF Request!AtMost, Typed, PeerTyped
<1>6. ASSUME NEW c \in RspCell
      PROVE  /\ received[c] \o f.messages[c] \in Seq(Message)
             /\ held[c] + Amount(c, Len(f.messages[c])) \in Nat
  <2>1. received[c] \in Seq(Message) /\ f.messages[c] \in Seq(Message) /\ held[c] \in Nat
    BY <1>3 DEF Typed, PeerTyped
  <2>2. Len(f.messages[c]) \in Nat
    BY <2>1
  <2>3. Amount(c, Len(f.messages[c])) \in Nat
    BY <2>2, AmountIsNat
  <2> QED BY <2>1, <2>3, JoinIsSeq
<1>7. received' \in [RspCell -> Seq(Message)] /\ held' \in [RspCell -> Nat]
  BY <1>4, <1>6
<1>10. ASSUME NEW c \in RspCell PROVE \E k \in Nat : held'[c] = k * Granules[c[2]]
  <2>1. PICK k \in Nat : held[c] = k * Granules[c[2]]
    BY DEF Typed, PeerTyped
  <2>2. f.messages[c] \in Seq(Message)
    BY <1>3
  <2>3. Len(f.messages[c]) \in Nat /\ Granules[c[2]] \in Nat
    BY <2>2, Constants
  <2>4. held'[c] = k * Granules[c[2]] + Len(f.messages[c]) * Granules[c[2]]
    BY <1>4, <2>1 DEF Amount
  <2> DEFINE n == Len(f.messages[c])
             g == Granules[c[2]]
  <2>5. k \in Nat /\ n \in Nat /\ g \in Nat /\ held'[c] = k * g + n * g
    BY <2>3, <2>4
  <2> HIDE DEF n, g
  <2>6. k + n \in Nat /\ k * g + n * g = (k + n) * g
    BY <2>5
  <2>7. \E m \in Nat : held'[c] = m * g
    BY <2>5, <2>6
  <2> QED BY <2>7 DEF g
<1>8. PeerTyped'
  BY <1>5, <1>7, <1>10 DEF PeerReceive, Typed, PeerTyped
<1>9. TxTyped'
  <2>1. Len(linkTx) <= LinkDepth /\ LinkDepth \in Nat
    BY Constants DEF Typed, TxTyped
  <2> QED BY <1>2, <2>1 DEF TxTyped
<1>11. FrameTyped'
  BY DEF Typed, FrameTyped, PeerReceive, AtEdge, targetVars, sendVars
<1> QED BY <1>8, <1>9, <1>11 DEF PeerReceive, Typed, RxTyped, JobsTyped, TicketsTyped,
         RepliesTyped, CreditTyped, MemTyped, PhaseTyped, targetVars, jobVars, sendVars,
         creditVars, memVars

LEMMA PeerAcceptTyped == Typed /\ PeerAccept => Typed'
<1> SUFFICES ASSUME Typed, PeerAccept PROVE Typed'
  OBVIOUS
<1>1. PICK d \in RspCell :
        /\ held[d] > 0
        /\ held' = [held EXCEPT ![d] = @ - Granules[d[2]]]
        /\ rspOwed' = [rspOwed EXCEPT ![d] = @ + Granules[d[2]]]
  BY DEF PeerAccept
<1>2. Granules[d[2]] \in Nat /\ held \in [RspCell -> Nat] /\ rspOwed \in [RspCell -> Nat]
  BY Constants DEF Typed, PeerTyped
<1>3. \E m \in Nat : held'[d] = m * Granules[d[2]]
  <2>1. PICK k \in Nat : held[d] = k * Granules[d[2]]
    BY DEF Typed, PeerTyped
  <2> DEFINE g == Granules[d[2]]
  <2>2. held'[d] = k * g - g /\ k * g > 0 /\ g \in Nat
    BY <1>1, <1>2, <2>1
  <2> HIDE DEF g
  <2>3. k >= 1
    BY <2>2
  <2>4. k - 1 \in Nat /\ k * g - g = (k - 1) * g
    BY <2>2, <2>3
  <2>5. \E m \in Nat : held'[d] = m * g
    BY <2>2, <2>4
  <2> QED BY <2>5 DEF g
<1>4. held'[d] \in Nat
  <2>1. PICK m \in Nat : held'[d] = m * Granules[d[2]]
    BY <1>3
  <2> QED BY <2>1, <1>2
<1>5. /\ held' \in [RspCell -> Nat] /\ rspOwed' \in [RspCell -> Nat]
      /\ \A c \in RspCell \ {d} : held'[c] = held[c]
  BY <1>1, <1>2, <1>4
<1>6. ASSUME NEW c \in RspCell PROVE \E m \in Nat : held'[c] = m * Granules[c[2]]
  <2>1. CASE c = d
    BY <1>3, <2>1
  <2>2. CASE c # d
    BY <1>5, <2>2 DEF Typed, PeerTyped
  <2> QED BY <2>1, <2>2
<1>7. PeerTyped'
  BY <1>5, <1>6 DEF PeerAccept, Typed, PeerTyped
<1> QED BY <1>7 DEF PeerAccept, Typed, RxTyped, TxTyped, JobsTyped, TicketsTyped, RepliesTyped,
         FrameTyped, CreditTyped, MemTyped, PhaseTyped, linkVars, targetVars, jobVars, sendVars,
         creditVars, memVars

LEMMA MemTakeTyped == Typed /\ MemTake => Typed'
<1> SUFFICES ASSUME Typed, MemTake PROVE Typed'
  OBVIOUS
<1>1. /\ memReq \in Seq(Transaction) /\ Len(memReq) <= MemDepth /\ memReq # <<>>
      /\ memory \in Seq(Transaction) /\ MemDepth \in Nat
      /\ memory' = Append(memory, Head(memReq)) /\ memReq' = Tail(memReq)
  BY Constants DEF Typed, MemTyped, MemTake
<1>2. /\ memReq' \in Seq(Transaction) /\ Len(memReq') = Len(memReq) - 1
      /\ Len(memReq) \in Nat /\ Head(memReq) \in Transaction
  BY <1>1, TailIsSeq
<1>3. memory' \in Seq(Transaction)
  BY <1>1, <1>2, AppendIsSeq
<1>4. MemTyped'
  BY <1>1, <1>2, <1>3 DEF MemTyped, MemTake, Typed
<1> QED BY <1>4 DEF MemTake, Typed, PeerTyped, RxTyped, TxTyped, JobsTyped, TicketsTyped,
         RepliesTyped, FrameTyped, CreditTyped, PhaseTyped, peerVars, linkVars, targetVars,
         jobVars, sendVars, creditVars

LEMMA MemCompleteTyped == Typed /\ MemComplete => Typed'
<1> SUFFICES ASSUME Typed, MemComplete PROVE Typed'
  OBVIOUS
<1>1. PICK i \in DOMAIN memory :
        memRsp' = Append(memRsp, memory[i]) /\ memory' = RemoveAt(memory, i)
  BY DEF MemComplete
<1>2. /\ memory \in Seq(Transaction) /\ memRsp \in Seq(Transaction)
      /\ Len(memRsp) < MemDepth /\ MemDepth \in Nat /\ i \in 1 .. Len(memory)
  BY <1>1, Constants DEF Typed, MemTyped, MemComplete
<1>3. memory[i] \in Transaction
  BY <1>2, ElementOfSeq
<1>4. memRsp' \in Seq(Transaction) /\ Len(memRsp') = Len(memRsp) + 1 /\ Len(memRsp) \in Nat
  BY <1>1, <1>2, <1>3, AppendIsSeq
<1>5. memory' \in Seq(Transaction)
  BY <1>1, <1>2, RemovedIsSeq
<1>6. MemTyped'
  BY <1>2, <1>4, <1>5 DEF MemTyped, MemComplete, Typed
<1> QED BY <1>6 DEF MemComplete, Typed, PeerTyped, RxTyped, TxTyped, JobsTyped, TicketsTyped,
         RepliesTyped, FrameTyped, CreditTyped, PhaseTyped, peerVars, linkVars, targetVars,
         jobVars, sendVars, creditVars

\* The target's own steps.
LEMMA NewJobsTyped ==
  ASSUME NEW msgs \in Seq(Message)
  PROVE  NewJobs(msgs) \in Seq(WriteJob) /\ Len(NewJobs(msgs)) = Len(msgs)
<1>1. Len(msgs) \in Nat /\ DOMAIN msgs = 1 .. Len(msgs)
  OBVIOUS
<1>2. ASSUME NEW i \in 1 .. Len(msgs) PROVE [n |-> msgs[i][1], got |-> <<>>] \in WriteJob
  <2>1. msgs[i] \in Nat \X Nat
    BY ElementOfSeq DEF Message
  <2> QED BY <2>1 DEF WriteJob
<1>3. NewJobs(msgs) \in [1 .. Len(msgs) -> WriteJob]
  BY <1>1, <1>2 DEF NewJobs
<1> QED BY <1>1, <1>3, SeqOfFunction

LEMMA NewReadsTyped ==
  ASSUME NEW msgs \in Seq(Message)
  PROVE  NewReads(msgs) \in Seq(Nat) /\ Len(NewReads(msgs)) = Len(msgs)
<1>1. Len(msgs) \in Nat /\ DOMAIN msgs = 1 .. Len(msgs)
  OBVIOUS
<1>2. ASSUME NEW i \in 1 .. Len(msgs) PROVE msgs[i][1] \in Nat
  <2>1. msgs[i] \in Nat \X Nat
    BY ElementOfSeq DEF Message
  <2> QED BY <2>1
<1>3. NewReads(msgs) \in [1 .. Len(msgs) -> Nat]
  BY <1>1, <1>2 DEF NewReads
<1> QED BY <1>1, <1>3, SeqOfFunction

LEMMA TakeFrameTyped ==
  ASSUME Typed, NEW f \in RxFrame, TakeFrame(f)
  PROVE  /\ rspCredit' \in [RspCell -> Nat]
         /\ writes' \in [Rp -> Seq(WriteJob)] /\ reads' \in [Rp -> Seq(Nat)]
         /\ data' \in [Rp -> Seq(Message)]
<1>1. f.messages \in [ReqCell -> Seq(Message)] /\ f.grant \in [RspCell -> Nat]
  BY DEF RxFrame
<1>2. rspCredit' \in [RspCell -> Nat]
  BY <1>1, Constants DEF TakeFrame, Response!AtMost, Typed, CreditTyped
<1>3. ASSUME NEW rp \in Rp
      PROVE  /\ writes[rp] \o NewJobs(f.messages[<<rp, "WriteReq">>]) \in Seq(WriteJob)
             /\ reads[rp] \o NewReads(f.messages[<<rp, "ReadReq">>]) \in Seq(Nat)
             /\ data[rp] \o f.messages[<<rp, "WriteData">>] \in Seq(Message)
  <2>1. /\ f.messages[<<rp, "WriteReq">>] \in Seq(Message)
        /\ f.messages[<<rp, "ReadReq">>] \in Seq(Message)
        /\ f.messages[<<rp, "WriteData">>] \in Seq(Message)
    BY <1>1 DEF ReqCell, ReqKind
  <2>2. /\ writes[rp] \in Seq(WriteJob) /\ reads[rp] \in Seq(Nat)
        /\ data[rp] \in Seq(Message)
    BY DEF Typed, JobsTyped
  <2>3. NewJobs(f.messages[<<rp, "WriteReq">>]) \in Seq(WriteJob)
    BY <2>1, NewJobsTyped
  <2>4. NewReads(f.messages[<<rp, "ReadReq">>]) \in Seq(Nat)
    BY <2>1, NewReadsTyped
  <2> QED BY <2>1, <2>2, <2>3, <2>4, JoinIsSeq
<1> QED BY <1>2, <1>3 DEF TakeFrame

LEMMA ReceiveTyped == Typed /\ Receive => Typed'
<1> SUFFICES ASSUME Typed, Receive PROVE Typed'
  OBVIOUS
<1>1. RxTyped' /\ JobsTyped' /\ rspCredit' \in [RspCell -> Nat]
  <2>1. CASE linkRx = <<>> /\ UNCHANGED <<linkRx, rspCredit, jobVars>>
    BY <2>1 DEF Typed, RxTyped, JobsTyped, CreditTyped, jobVars
  <2>2. CASE linkRx # <<>> /\ linkRx' = Tail(linkRx) /\ TakeFrame(Head(linkRx))
    <3>1. linkRx \in Seq(RxFrame) /\ Len(linkRx) <= LinkDepth /\ LinkDepth \in Nat
      BY Constants DEF Typed, RxTyped
    <3>2. /\ linkRx' \in Seq(RxFrame) /\ Len(linkRx') = Len(linkRx) - 1
          /\ Len(linkRx) \in Nat /\ Head(linkRx) \in RxFrame
      BY <2>2, <3>1, TailIsSeq
    <3> QED BY <2>2, <3>1, <3>2, TakeFrameTyped DEF RxTyped, JobsTyped
  <2> QED BY <2>1, <2>2 DEF Receive
<1>2. CreditTyped'
  BY <1>1 DEF Receive, Typed, CreditTyped
<1>3. FrameTyped' /\ PhaseTyped'
  BY DEF Receive, Typed, FrameTyped, PhaseTyped, sendVars
<1> QED BY <1>1, <1>2, <1>3 DEF Receive, Typed, PeerTyped, TxTyped, TicketsTyped, RepliesTyped,
         MemTyped, peerVars, sendVars, memVars

\* SelectInSeq gives the first place of the kind that is asked for.
LEMMA FirstTicket ==
  ASSUME NEW rsp, TicketOf(rsp) # 0
  PROVE  /\ TicketOf(rsp) \in 1 .. Len(tickets)
         /\ Group(tickets[TicketOf(rsp)]) = Group(rsp)
         /\ \A i \in 1 .. Len(tickets) : Group(tickets[i]) = Group(rsp) => TicketOf(rsp) <= i
<1> DEFINE I == {i \in 1 .. Len(tickets) : Group(tickets[i]) = Group(rsp)}
<1>1. TicketOf(rsp) = IF I # {} THEN Min(I) ELSE 0
  BY DEF TicketOf, SelectInSeq
<1>2. I # {} /\ TicketOf(rsp) = Min(I) /\ I \in SUBSET Nat
  BY <1>1
<1>3. Min(I) \in I /\ \A i \in I : Min(I) <= i
  BY <1>2, MinIsLeast
<1> QED BY <1>2, <1>3

LEMMA CollectTyped == Typed /\ Collect => Typed'
<1> SUFFICES ASSUME Typed, Collect PROVE Typed'
  OBVIOUS
<1> DEFINE rsp == Head(memRsp)
<1>1. CASE memRsp = <<>> /\ UNCHANGED <<memRsp, tickets, replies>>
  BY <1>1 DEF Collect, Typed, PeerTyped, RxTyped, TxTyped, JobsTyped, TicketsTyped,
     RepliesTyped, FrameTyped, CreditTyped, MemTyped, PhaseTyped, peerVars, linkVars, jobVars,
     sendVars, creditVars
<1>2. CASE memRsp # <<>> /\ memRsp' = Tail(memRsp) /\ CollectResponse(rsp)
  <2>1. memRsp \in Seq(Transaction) /\ Len(memRsp) <= MemDepth /\ MemDepth \in Nat
    BY Constants DEF Typed, MemTyped
  <2>2. /\ memRsp' \in Seq(Transaction) /\ Len(memRsp') = Len(memRsp) - 1
        /\ Len(memRsp) \in Nat /\ rsp \in Transaction
    BY <1>2, <2>1, TailIsSeq
  <2>3. MemTyped'
    BY <2>1, <2>2 DEF Collect, Typed, MemTyped
  <2>4. TicketsTyped'
    <3>1. TicketOf(rsp) \in 1 .. Len(tickets) /\ tickets' = RemoveAt(tickets, TicketOf(rsp))
      BY <1>2, FirstTicket DEF CollectResponse
    <3>2. tickets' \in Seq(Transaction)
      BY <3>1, RemovedIsSeq DEF Typed, TicketsTyped
    <3> QED BY <3>2 DEF Collect, Typed, TicketsTyped
  <2>5. RepliesTyped'
    <3>1. rsp.n \in Nat
      BY <2>2 DEF Transaction
    <3> DEFINE d == RspCellOf(rsp)
    <3>2. /\ replies' = [replies EXCEPT ![d] = Append(@, [n |-> rsp.n, beat |-> 1])]
          /\ [n |-> rsp.n, beat |-> 1] \in Reply
      BY <1>2, <3>1 DEF CollectResponse, Reply
    <3> HIDE DEF d
    <3>3. \A c \in RspCell : Append(replies[c], [n |-> rsp.n, beat |-> 1]) \in Seq(Reply)
      BY <3>2, AppendIsSeq DEF Typed, RepliesTyped
    <3> QED BY <3>2, <3>3 DEF Collect, Typed, RepliesTyped, sendVars
  <2> QED BY <2>3, <2>4, <2>5 DEF Collect, Typed, PeerTyped, RxTyped, TxTyped, JobsTyped,
           FrameTyped, CreditTyped, PhaseTyped, peerVars, linkVars, jobVars, sendVars,
           creditVars
<1> QED BY <1>1, <1>2 DEF Collect

LEMMA OpenJobIsOne ==
  ASSUME NEW rp, OpenJob(rp) # 0
  PROVE  /\ OpenJob(rp) \in 1 .. Len(writes[rp])
         /\ ~Complete(rp, writes[rp][OpenJob(rp)])
         /\ \A i \in 1 .. Len(writes[rp]) :
              ~Complete(rp, writes[rp][i]) => OpenJob(rp) <= i
<1> DEFINE I == {i \in 1 .. Len(writes[rp]) : ~Complete(rp, writes[rp][i])}
<1>1. OpenJob(rp) = IF I # {} THEN Min(I) ELSE 0
  BY DEF OpenJob, SelectInSeq
<1>2. I # {} /\ OpenJob(rp) = Min(I) /\ I \in SUBSET Nat
  BY <1>1
<1>3. Min(I) \in I /\ \A i \in I : Min(I) <= i
  BY <1>2, MinIsLeast
<1> QED BY <1>2, <1>3

LEMMA BeatJoinsJob ==
  ASSUME NEW s \in Seq(WriteJob), NEW i \in 1 .. Len(s), NEW m \in Message
  PROVE  /\ [s EXCEPT ![i].got = Append(@, m)] \in Seq(WriteJob)
         /\ Len([s EXCEPT ![i].got = Append(@, m)]) = Len(s)
<1>1. s[i] \in WriteJob
  BY ElementOfSeq
<1>2. Append(s[i].got, m) \in Seq(Message)
  BY <1>1, AppendIsSeq DEF WriteJob
<1>3. [s[i] EXCEPT !.got = Append(@, m)] \in WriteJob
  BY <1>1, <1>2 DEF WriteJob
<1> DEFINE w == [s[i] EXCEPT !.got = Append(@, m)]
<1>4. [s EXCEPT ![i].got = Append(@, m)] = [s EXCEPT ![i] = w]
  OBVIOUS
<1>5. w \in WriteJob
  BY <1>3
<1> HIDE DEF w
<1>6. [s EXCEPT ![i] = w] \in Seq(WriteJob) /\ Len([s EXCEPT ![i] = w]) = Len(s)
  BY <1>5, ExceptIsSeq
<1> QED BY <1>4, <1>6

LEMMA AssembleTyped == Typed /\ Assemble => Typed'
<1> SUFFICES ASSUME Typed, Assemble PROVE Typed'
  OBVIOUS
<1>1. ASSUME NEW rp \in Rp PROVE writes'[rp] \in Seq(WriteJob) /\ data'[rp] \in Seq(Message)
  <2>1. writes[rp] \in Seq(WriteJob) /\ data[rp] \in Seq(Message)
    BY DEF Typed, JobsTyped
  <2>2. CASE GetsBeat(rp)
    <3>1. /\ writes'[rp] = [writes[rp] EXCEPT ![OpenJob(rp)].got = Append(@, Head(data[rp]))]
          /\ data'[rp] = Tail(data[rp]) /\ data[rp] # <<>> /\ OpenJob(rp) # 0
      BY <2>2 DEF Assemble, GetsBeat
    <3>2. data'[rp] \in Seq(Message) /\ Head(data[rp]) \in Message
      BY <2>1, <3>1, TailIsSeq
    <3>3. OpenJob(rp) \in 1 .. Len(writes[rp])
      BY <3>1, OpenJobIsOne
    <3> DEFINE s == writes[rp]
               i == OpenJob(rp)
               m == Head(data[rp])
    <3>4. s \in Seq(WriteJob) /\ i \in 1 .. Len(s) /\ m \in Message
      BY <2>1, <3>2, <3>3
    <3>5. writes'[rp] = [s EXCEPT ![i].got = Append(@, m)]
      BY <3>1
    <3> HIDE DEF s, i, m
    <3>6. [s EXCEPT ![i].got = Append(@, m)] \in Seq(WriteJob)
      BY <3>4, BeatJoinsJob
    <3> QED BY <3>2, <3>5, <3>6
  <2>3. CASE ~GetsBeat(rp)
    BY <2>1, <2>3 DEF Assemble
  <2> QED BY <2>2, <2>3
<1>2. /\ writes' \in [Rp -> Seq(WriteJob)] /\ data' \in [Rp -> Seq(Message)]
  <2>1. writes' = [rp \in Rp |-> writes'[rp]] /\ data' = [rp \in Rp |-> data'[rp]]
    BY DEF Assemble
  <2> QED BY <1>1, <2>1
<1>3. JobsTyped'
  BY <1>2 DEF Assemble, Typed, JobsTyped
<1>4. owed' \in [ReqCell -> Nat]
  <2>1. ASSUME NEW c \in ReqCell
        PROVE  Request!AtMost(Capacity[c], owed[c] + Granules["WriteData"]) \in Nat
    <3>1. Capacity[c] \in Nat /\ owed[c] \in Nat /\ Granules["WriteData"] \in Nat
      BY Constants, TargetAssumption DEF Typed, CreditTyped, ReqKind
    <3> QED BY <3>1 DEF Request!AtMost
  <2> QED BY <2>1 DEF Assemble, Typed, CreditTyped
<1>5. CreditTyped'
  BY <1>4 DEF Assemble, Typed, CreditTyped
<1>6. FrameTyped' /\ PhaseTyped'
  BY DEF Assemble, Typed, FrameTyped, PhaseTyped, sendVars, linkVars
<1> QED BY <1>3, <1>5, <1>6 DEF Assemble, Typed, PeerTyped, RxTyped, TxTyped, TicketsTyped,
         RepliesTyped, MemTyped, peerVars, linkVars, sendVars, memVars

LEMMA SubmitSlotTyped ==
  ASSUME Typed, NEW slot \in Slots, FirstReady(slot), SubmitSlot(slot), Len(memReq) # MemDepth
  PROVE  /\ memReq' \in Seq(Transaction) /\ Len(memReq') <= MemDepth
         /\ tickets' \in Seq(Transaction) /\ outstanding' \in Int /\ nextSubmit' \in Slots
         /\ writes' \in [Rp -> Seq(WriteJob)] /\ reads' \in [Rp -> Seq(Nat)]
         /\ owed' \in [ReqCell -> Nat]
<1> DEFINE rp == SlotRp(slot)
           wr == SlotWrites(slot)
           n  == IF wr THEN Head(writes[rp]).n ELSE Head(reads[rp])
           c  == <<rp, IF wr THEN "WriteReq" ELSE "ReadReq">>
           t  == [write |-> wr, rp |-> rp, n |-> n]
<1>1. rp \in Rp /\ wr \in BOOLEAN
  <2>1. RpCount \in Nat \ {0} /\ slot \in 0 .. 2 * RpCount - 1
    BY Constants DEF Slots
  <2>2. slot \div 2 \in 0 .. RpCount - 1
    BY <2>1
  <2> QED BY <2>2 DEF SlotRp, SlotWrites, Rp
<1>2. c \in ReqCell
  BY <1>1 DEF ReqCell, ReqKind
<1>3. writes[rp] \in Seq(WriteJob) /\ reads[rp] \in Seq(Nat)
  BY <1>1 DEF Typed, JobsTyped
<1>4. (wr => writes[rp] # <<>>) /\ (~wr => reads[rp] # <<>>)
  BY DEF FirstReady, Ready
<1>5. /\ wr => Tail(writes[rp]) \in Seq(WriteJob) /\ Head(writes[rp]) \in WriteJob
      /\ ~wr => Tail(reads[rp]) \in Seq(Nat) /\ Head(reads[rp]) \in Nat
  BY <1>3, <1>4, TailIsSeq
<1>6. n \in Nat
  BY <1>5 DEF WriteJob
<1>7. /\ memReq' = Append(memReq, t) /\ tickets' = Append(tickets, t)
      /\ outstanding' = outstanding + 1
      /\ writes' = IF wr THEN [writes EXCEPT ![rp] = Tail(@)] ELSE writes
      /\ reads' = IF wr THEN reads ELSE [reads EXCEPT ![rp] = Tail(@)]
      /\ owed' = [owed EXCEPT ![c] = Request!AtMost(Capacity[c], @ + Granules[c[2]])]
      /\ nextSubmit' = (slot + 1) % (2 * RpCount)
  BY DEF SubmitSlot
<1>8. t \in Transaction
  BY <1>1, <1>6 DEF Transaction
<1> HIDE DEF rp, wr, n, c, t
<1>9. memReq' \in Seq(Transaction) /\ Len(memReq') <= MemDepth
  <2>1. memReq \in Seq(Transaction) /\ Len(memReq) <= MemDepth /\ MemDepth \in Nat
    BY Constants DEF Typed, MemTyped
  <2>2. /\ memReq' \in Seq(Transaction) /\ Len(memReq') = Len(memReq) + 1
        /\ Len(memReq) \in Nat
    BY <1>7, <1>8, <2>1, AppendIsSeq
  <2> QED BY <2>1, <2>2
<1>10. tickets' \in Seq(Transaction) /\ outstanding' \in Int
  BY <1>7, <1>8, AppendIsSeq DEF Typed, TicketsTyped
<1>11. nextSubmit' \in Slots
  <2>1. RpCount \in Nat \ {0} /\ slot \in 0 .. 2 * RpCount - 1
    BY Constants DEF Slots
  <2> DEFINE m == 2 * RpCount
  <2>2. m \in Nat \ {0} /\ slot + 1 \in Int
    BY <2>1
  <2> HIDE DEF m
  <2>3. (slot + 1) % m \in 0 .. m - 1
    BY <2>2
  <2> QED BY <1>7, <2>3 DEF m, Slots
<1>12. writes' \in [Rp -> Seq(WriteJob)] /\ reads' \in [Rp -> Seq(Nat)]
  <2>1. CASE wr
    BY <1>1, <1>5, <1>7, <2>1 DEF Typed, JobsTyped
  <2>2. CASE ~wr
    BY <1>1, <1>5, <1>7, <2>2 DEF Typed, JobsTyped
  <2> QED BY <2>1, <2>2
<1>13. owed' \in [ReqCell -> Nat]
  <2>1. /\ owed \in [ReqCell -> Nat] /\ Capacity[c] \in Nat /\ Granules[c[2]] \in Nat
        /\ owed[c] \in Nat
    BY <1>2, Constants DEF Typed, CreditTyped
  <2>2. Request!AtMost(Capacity[c], owed[c] + Granules[c[2]]) \in Nat
    BY <2>1 DEF Request!AtMost
  <2> QED BY <1>2, <1>7, <2>1, <2>2
<1> QED BY <1>9, <1>10, <1>11, <1>12, <1>13

LEMMA SubmitTyped == Typed /\ Submit => Typed'
<1> SUFFICES ASSUME Typed, Submit PROVE Typed'
  OBVIOUS
<1>1. /\ MemTyped' /\ TicketsTyped' /\ JobsTyped' /\ CreditTyped'
  <2>1. CASE UNCHANGED <<memReq, tickets, outstanding, writes, reads, owed, nextSubmit>>
    BY <2>1 DEF Submit, Typed, MemTyped, TicketsTyped, JobsTyped, CreditTyped
  <2>2. CASE /\ Len(memReq) # MemDepth
             /\ \E slot \in Slots : FirstReady(slot) /\ SubmitSlot(slot)
    BY <2>2, SubmitSlotTyped
       DEF Submit, Typed, MemTyped, TicketsTyped, JobsTyped, CreditTyped
  <2> QED BY <2>1, <2>2 DEF Submit, MayNotSubmit
<1>2. FrameTyped' /\ PhaseTyped'
  BY DEF Submit, Typed, FrameTyped, PhaseTyped, sendVars, linkVars
<1> QED BY <1>1, <1>2 DEF Submit, Typed, PeerTyped, RxTyped, TxTyped, RepliesTyped,
         peerVars, linkVars, sendVars

LEMMA EmptyFrameTyped ==
  /\ EmptyFrame \in FrameBuilt /\ EmptyFrame.messages = NoMessage(RspCell)
  /\ EmptyFrame.used = 0
<1>1. <<>> \in Seq(Message)
  OBVIOUS
<1>2. 0 \in 0 .. FlitGranules
  BY Constants
<1> QED BY <1>1, <1>2 DEF EmptyFrame, NoMessage, FrameBuilt

LEMMA NoSpillTyped == NoSpill \in SpillKept
<1>1. <<0, "WriteResp">> \in RspCell /\ <<0, 0>> \in Message
  BY Constants DEF RspCell, RspKind, Message
<1> QED BY <1>1 DEF NoSpill, SpillKept

LEMMA PutTyped ==
  ASSUME NEW f \in FrameBuilt, NEW c \in RspCell, NEW msg \in Message, NEW g \in Nat,
         f.used + g <= FlitGranules
  PROVE  Put(f, c, msg, g) \in FrameBuilt /\ Put(f, c, msg, g).used = f.used + g
<1>1. /\ f.messages \in [RspCell -> Seq(Message)] /\ f.used \in Nat
      /\ FlitGranules \in Nat
  BY Constants DEF FrameBuilt
<1>2. Append(f.messages[c], msg) \in Seq(Message)
  BY <1>1, AppendIsSeq
<1>3. [f.messages EXCEPT ![c] = Append(@, msg)] \in [RspCell -> Seq(Message)]
  BY <1>1, <1>2
<1>4. f.used + g \in 0 .. FlitGranules
  BY <1>1
<1> QED BY <1>3, <1>4 DEF Put, FrameBuilt

LEMMA ResumeSpillTyped ==
  ASSUME Typed, ResumeSpill
  PROVE  /\ spill' \in SpillKept /\ frame' \in FrameBuilt /\ outstanding' \in Int
         /\ frame'.used = 0 => frame'.messages = NoMessage(RspCell)
<1>1. /\ spill \in SpillKept /\ spill.cell \in RspCell /\ spill.msg \in Message
      /\ spill.left \in Nat /\ outstanding \in Int /\ FlitGranules \in Nat \ {0}
  BY Constants DEF Typed, FrameTyped, TicketsTyped, SpillKept
<1>2. CASE spill.left = 0
  BY <1>1, <1>2, EmptyFrameTyped, NoSpillTyped DEF ResumeSpill
<1>3. CASE spill.left # 0 /\ spill.left <= FlitGranules
  <2> DEFINE p == Put(EmptyFrame, spill.cell, spill.msg, spill.left)
  <2>1. p \in FrameBuilt /\ p.used = spill.left
    <3>1. EmptyFrame.used + spill.left <= FlitGranules /\ 0 + spill.left = spill.left
      BY <1>1, <1>3, EmptyFrameTyped
    <3> QED BY <1>1, <3>1, EmptyFrameTyped, PutTyped
  <2>2. /\ frame' = p /\ spill' = NoSpill
        /\ outstanding' = IF spill.completes THEN outstanding - 1 ELSE outstanding
    BY <1>3 DEF ResumeSpill
  <2> HIDE DEF p
  <2>3. outstanding' \in Int
    BY <1>1, <2>2
  <2> QED BY <1>3, <2>1, <2>2, <2>3, NoSpillTyped
<1>4. CASE ~(spill.left <= FlitGranules)
  <2>1. /\ frame' = [EmptyFrame EXCEPT !.used = FlitGranules]
        /\ spill' = [spill EXCEPT !.left = @ - FlitGranules] /\ outstanding' = outstanding
    BY <1>4 DEF ResumeSpill
  <2>2. spill.left - FlitGranules \in Nat /\ FlitGranules \in 0 .. FlitGranules
    BY <1>1, <1>4
  <2>3. spill' \in SpillKept
    BY <1>1, <2>1, <2>2 DEF SpillKept
  <2>4. frame' \in FrameBuilt /\ frame'.used = FlitGranules
    BY <2>1, <2>2, EmptyFrameTyped DEF FrameBuilt
  <2> QED BY <1>1, <2>1, <2>3, <2>4
<1> QED BY <1>1, <1>2, <1>3, <1>4

LEMMA TransmitTyped == Typed /\ Transmit => Typed'
<1> SUFFICES ASSUME Typed, Transmit PROVE Typed'
  OBVIOUS
<1>1. FrameTyped' /\ PhaseTyped' /\ outstanding' \in Int
  <2>1. CASE phase' = "receive" /\ UNCHANGED <<frame, spill, outstanding>>
    BY <2>1 DEF Transmit, Typed, FrameTyped, PhaseTyped, TicketsTyped
  <2>2. CASE Len(linkTx) < LinkDepth /\ phase' = "pack" /\ ResumeSpill
    BY <2>2, ResumeSpillTyped DEF Transmit, FrameTyped, PhaseTyped, linkVars
  <2> QED BY <2>1, <2>2 DEF Transmit
<1>2. TicketsTyped'
  BY <1>1 DEF Transmit, Typed, TicketsTyped
<1> QED BY <1>1, <1>2 DEF Transmit, Typed, PeerTyped, RxTyped, TxTyped, JobsTyped,
         RepliesTyped, CreditTyped, MemTyped, peerVars, linkVars, jobVars, creditVars, memVars

\* What pack leaves of the replies of a cell: the first answer gives its next
\* response, the last one or not.
RestOfReplies(c, q) ==
  IF LastBeat(c, Head(q)) THEN Tail(q)
  ELSE <<[Head(q) EXCEPT !.beat = @ + 1]>> \o Tail(q)

RestOf(c) == RestOfReplies(c, replies[c])

LEMMA RestIsSeq ==
  ASSUME Typed, NEW c \in RspCell, replies[c] # <<>>
  PROVE  /\ RestOf(c) \in Seq(Reply) /\ Head(replies[c]) \in Reply
         /\ LastBeat(c, Head(replies[c])) => Len(RestOf(c)) = Len(replies[c]) - 1
         /\ ~LastBeat(c, Head(replies[c])) => Len(RestOf(c)) = Len(replies[c])
<1> DEFINE r == Head(replies[c])
           t == Tail(replies[c])
           u == [r EXCEPT !.beat = @ + 1]
<1>1. replies[c] \in Seq(Reply)
  BY DEF Typed, RepliesTyped
<1>2. /\ r \in Reply /\ t \in Seq(Reply) /\ Len(t) = Len(replies[c]) - 1
      /\ Len(replies[c]) \in Nat
  BY <1>1, TailIsSeq
<1>3. u \in Reply
  <2>1. r \in Reply
    BY <1>2
  <2> HIDE DEF r
  <2> QED BY <2>1 DEF Reply
<1> HIDE DEF u
<1>4. <<u>> \in Seq(Reply) /\ Len(<<u>>) = 1
  BY <1>3
<1>5. <<u>> \o t \in Seq(Reply) /\ Len(<<u>> \o t) = 1 + Len(t)
  BY <1>2, <1>4, JoinIsSeq
<1>6. RestOf(c) = IF LastBeat(c, r) THEN t ELSE <<u>> \o t
  BY DEF RestOf, RestOfReplies, u
<1> HIDE DEF r, t
<1> QED BY <1>2, <1>5, <1>6 DEF r

LEMMA PackMessageTyped ==
  ASSUME Typed, HasRoom, NEW c \in RspCell, CanReply(c), PackMessage(c)
  PROVE  /\ replies' \in [RspCell -> Seq(Reply)] /\ nextReply' \in Rp
         /\ rspCredit' \in [RspCell -> Nat] /\ outstanding' \in Int
         /\ spill' \in SpillKept /\ frame' \in FrameBuilt
         /\ frame'.used # 0
<1> DEFINE reply == Head(replies[c])
           msg   == <<reply.n, reply.beat>>
           last  == LastBeat(c, reply)
           g     == Granules[c[2]]
           fits  == g <= FlitGranules - frame.used
<1>1. /\ g \in Nat \ {0} /\ c[1] \in Rp /\ FlitGranules \in Nat \ {0}
      /\ RpCount \in Nat \ {0}
  BY Constants
<1>2. /\ frame \in FrameBuilt /\ frame.used \in Nat /\ frame.used < FlitGranules
      /\ spill \in SpillKept /\ outstanding \in Int
  BY <1>1 DEF HasRoom, Typed, FrameTyped, TicketsTyped, FrameBuilt
<1>3. reply \in Reply /\ RestOf(c) \in Seq(Reply)
  BY RestIsSeq DEF CanReply
<1>4. msg \in Message
  BY <1>3 DEF Reply, Message
<1>5. /\ rspCredit' = [rspCredit EXCEPT ![c] = @ - g]
      /\ replies' = [replies EXCEPT ![c] = RestOf(c)]
      /\ nextReply' = (c[1] + 1) % RpCount
  BY DEF PackMessage, RestOf, RestOfReplies
<1>6. /\ fits => /\ frame' = Put(frame, c, msg, g) /\ spill' = spill
                 /\ outstanding' = IF last THEN outstanding - 1 ELSE outstanding
      /\ ~fits => /\ frame' = [frame EXCEPT !.used = FlitGranules]
                  /\ spill' = [cell |-> c, msg |-> msg, completes |-> last,
                               left |-> g - (FlitGranules - frame.used)]
                  /\ outstanding' = outstanding
  BY DEF PackMessage
<1>7. last \in BOOLEAN
  BY DEF LastBeat
<1> HIDE DEF reply, msg, last
<1>8. rspCredit' \in [RspCell -> Nat]
  <2>1. rspCredit \in [RspCell -> Nat] /\ rspCredit[c] >= g /\ rspCredit[c] \in Nat
    BY DEF Typed, CreditTyped, CanReply
  <2>2. rspCredit[c] - g \in Nat
    BY <1>1, <2>1
  <2> QED BY <1>5, <2>1, <2>2
<1>9. nextReply' \in Rp
  BY <1>1, <1>5 DEF Rp
<1>10. replies' \in [RspCell -> Seq(Reply)]
  BY <1>3, <1>5 DEF Typed, RepliesTyped
<1>11. CASE fits
  <2>1. frame.used + g <= FlitGranules /\ frame.used + g # 0
    BY <1>1, <1>2, <1>11
  <2>2. frame' \in FrameBuilt /\ frame'.used = frame.used + g
    BY <1>1, <1>2, <1>4, <1>6, <1>11, <2>1, PutTyped
  <2>3. outstanding' \in Int
    BY <1>2, <1>6, <1>11
  <2> QED BY <1>2, <1>6, <1>8, <1>9, <1>10, <1>11, <2>1, <2>2, <2>3
<1>12. CASE ~fits
  <2>1. g - (FlitGranules - frame.used) \in Nat /\ FlitGranules \in 0 .. FlitGranules
    BY <1>1, <1>2, <1>12
  <2>2. spill' \in SpillKept
    BY <1>4, <1>6, <1>7, <1>12, <2>1 DEF SpillKept
  <2>3. frame' \in FrameBuilt /\ frame'.used = FlitGranules
    BY <1>2, <1>6, <1>12, <2>1 DEF FrameBuilt
  <2> QED BY <1>1, <1>2, <1>6, <1>8, <1>9, <1>10, <1>12, <2>2, <2>3
<1> QED BY <1>11, <1>12

LEMMA PackTyped == Typed /\ Pack => Typed'
<1> SUFFICES ASSUME Typed, Pack PROVE Typed'
  OBVIOUS
<1>1. PICK c \in RspCell : CanReply(c) /\ PackMessage(c)
  BY DEF Pack, NextMessage
<1>2. /\ replies' \in [RspCell -> Seq(Reply)] /\ nextReply' \in Rp
      /\ rspCredit' \in [RspCell -> Nat] /\ outstanding' \in Int
      /\ spill' \in SpillKept /\ frame' \in FrameBuilt /\ frame'.used # 0
  BY <1>1, PackMessageTyped DEF Pack
<1>3. FrameTyped' /\ PhaseTyped'
  BY <1>2 DEF Pack, Typed, FrameTyped, PhaseTyped, linkVars
<1>4. RepliesTyped' /\ CreditTyped' /\ TicketsTyped'
  BY <1>2 DEF Pack, Typed, RepliesTyped, CreditTyped, TicketsTyped
<1> QED BY <1>3, <1>4 DEF Pack, Typed, PeerTyped, RxTyped, TxTyped, JobsTyped, MemTyped,
         peerVars, linkVars, jobVars, memVars

LEMMA SendFrameTyped ==
  ASSUME Typed, phase = "pack", NEW grant, Granting(grant, ReqCell, owed), SendFrame(grant)
  PROVE  /\ linkTx' \in Seq(TxFrame) /\ Len(linkTx') <= LinkDepth
         /\ owed' \in [ReqCell -> Nat] /\ frame' = EmptyFrame
<1>1. ASSUME NEW c \in ReqCell PROVE owed[c] - grant[c] \in Nat
  <2>1. owed[c] \in Nat /\ grant[c] \in Nat /\ grant[c] <= owed[c]
    BY DEF Typed, CreditTyped, Granting
  <2> QED BY <2>1
<1>2. owed' \in [ReqCell -> Nat] /\ frame' = EmptyFrame
  BY <1>1 DEF SendFrame
<1>3. /\ linkTx \in Seq(TxFrame) /\ Len(linkTx) < LinkDepth /\ LinkDepth \in Nat
      /\ Len(linkTx) \in Nat
  BY Constants DEF Typed, TxTyped, FrameTyped
<1>4. [messages |-> frame.messages, grant |-> grant] \in TxFrame
  BY DEF TxFrame, Granting, Typed, FrameTyped, FrameBuilt
<1>5. CASE linkTx' = linkTx
  BY <1>2, <1>3, <1>5
<1>6. CASE linkTx' = Append(linkTx, [messages |-> frame.messages, grant |-> grant])
  <2>1. linkTx' \in Seq(TxFrame) /\ Len(linkTx') = Len(linkTx) + 1
    BY <1>3, <1>4, <1>6, AppendIsSeq
  <2> QED BY <1>2, <1>3, <2>1
<1> QED BY <1>5, <1>6 DEF SendFrame

\* Of which grants the frame may be.
LEMMA Sends ==
  ASSUME Typed, Send
  PROVE  \E grant : /\ Granting(grant, ReqCell, owed) /\ SendFrame(grant)
                    /\ nextHeaderRp' \in Rp
<1>1. owed \in [ReqCell -> Nat] /\ nextHeaderRp \in Rp
  BY DEF Typed, CreditTyped
<1>2. \A rp \in Rp : (rp + 1) % RpCount \in Rp
  BY Constants DEF Rp
<1>3. CASE \E rp \in Rp : /\ SendFrame(Request!Granted({rp}))
                          /\ nextHeaderRp' = (rp + 1) % RpCount
  BY <1>1, <1>2, <1>3, RequestGranted
<1>4. CASE SendFrame(NoGrant(ReqCell)) /\ UNCHANGED nextHeaderRp
  BY <1>1, <1>4, NoGrantIsGranting
<1> QED BY <1>3, <1>4 DEF Send

LEMMA SendTyped == Typed /\ Send => Typed'
<1> SUFFICES ASSUME Typed, Send PROVE Typed'
  OBVIOUS
<1>1. PICK grant : /\ Granting(grant, ReqCell, owed) /\ SendFrame(grant)
                   /\ nextHeaderRp' \in Rp
  BY Sends
<1>2. /\ linkTx' \in Seq(TxFrame) /\ Len(linkTx') <= LinkDepth
      /\ owed' \in [ReqCell -> Nat] /\ frame' = EmptyFrame
  BY <1>1, SendFrameTyped DEF Send
<1>3. FrameTyped' /\ PhaseTyped'
  BY <1>2, EmptyFrameTyped DEF Send, Typed, FrameTyped, PhaseTyped
<1>4. TxTyped' /\ CreditTyped'
  BY <1>1, <1>2 DEF Send, Typed, TxTyped, CreditTyped
<1> QED BY <1>3, <1>4 DEF Send, Typed, PeerTyped, RxTyped, JobsTyped, TicketsTyped,
         RepliesTyped, MemTyped, peerVars, jobVars, memVars

LEMMA InitTyped == Init => Typed
<1> SUFFICES ASSUME Init PROVE Typed
  OBVIOUS
<1>1. \A S : <<>> \in Seq(S) /\ Len(<<>>) = 0
  OBVIOUS
<1>2. \A c \in RspCell : PeerCapacity[c[2]] \in Nat
  BY Constants, TargetAssumption
<1>3. PeerTyped
  <2>1. ASSUME NEW c \in ReqCell PROVE 0 <= Len(Program(c))
    BY ProgramIsSeq
  <2>2. ASSUME NEW c \in RspCell PROVE \E k \in Nat : 0 = k * Granules[c[2]]
    <3>1. Granules[c[2]] \in Nat
      BY Constants
    <3>2. 0 = 0 * Granules[c[2]]
      BY <3>1
    <3> QED BY <3>2
  <2> QED BY <1>1, <1>2, <2>1, <2>2, Constants DEF Init, PeerTyped, NoGrant, NoMessage
<1>4. RxTyped /\ TxTyped /\ MemTyped
  BY <1>1, Constants DEF Init, RxTyped, TxTyped, MemTyped
<1>5. JobsTyped /\ TicketsTyped /\ RepliesTyped
  BY <1>1, Constants
     DEF Init, JobsTyped, TicketsTyped, RepliesTyped, Slots, NoMessage
<1>6. FrameTyped /\ PhaseTyped
  BY EmptyFrameTyped, NoSpillTyped DEF Init, FrameTyped, PhaseTyped
<1>7. CreditTyped
  <2>1. Capacity \in [ReqCell -> Nat]
    BY Constants DEF Capacity
  <2> QED BY <2>1, Constants DEF Init, CreditTyped, NoGrant
<1> QED BY <1>3, <1>4, <1>5, <1>6, <1>7 DEF Typed

LEMMA NextTyped == Typed /\ [Next]_vars => Typed'
<1> SUFFICES ASSUME Typed, [Next]_vars PROVE Typed'
  OBVIOUS
<1>1. CASE UNCHANGED vars
  BY <1>1 DEF vars, peerVars, linkVars, targetVars, jobVars, sendVars, creditVars, memVars,
     Typed, PeerTyped, RxTyped, TxTyped, JobsTyped, TicketsTyped, RepliesTyped, FrameTyped,
     CreditTyped, MemTyped, PhaseTyped
<1>2. CASE Next
  BY <1>2, PeerSendTyped, PeerGrantTyped, PeerReceiveTyped, PeerAcceptTyped, MemTakeTyped,
     MemCompleteTyped, ReceiveTyped, CollectTyped, AssembleTyped, SubmitTyped, TransmitTyped,
     PackTyped, SendTyped DEF Next
<1> QED BY <1>1, <1>2

-----------------------------------------------------------------------------
\* Sums over the frames of a link

GrantsIn(q, c) == SumFunction([i \in DOMAIN q |-> q[i].grant[c]])
GranulesIn(q, c) == SumFunction([i \in DOMAIN q |-> Amount(c, Len(q[i].messages[c]))])

LEMMA GrantsOfFrames ==
  ASSUME NEW S, NEW c, \A f \in S : f.grant[c] \in Nat, NEW q \in Seq(S)
  PROVE  /\ GrantsIn(q, c) \in Nat /\ GrantsIn(<<>>, c) = 0
         /\ \A e \in S : GrantsIn(Append(q, e), c) = GrantsIn(q, c) + e.grant[c]
         /\ q # <<>> => /\ GrantsIn(Tail(q), c) = GrantsIn(q, c) - Head(q).grant[c]
                        /\ Head(q).grant[c] <= GrantsIn(q, c)
<1> DEFINE w == [f \in S |-> f.grant[c]]
<1>1. w \in [S -> Nat] /\ \A f \in S : w[f] = f.grant[c]
  OBVIOUS
<1>2. ASSUME NEW r \in Seq(S) PROVE GrantsIn(r, c) = Weights(r, w)
  <2>1. \A i \in DOMAIN r : r[i] \in S
    OBVIOUS
  <2>2. [i \in DOMAIN r |-> r[i].grant[c]] = [i \in DOMAIN r |-> w[r[i]]]
    BY <2>1
  <2> QED BY <2>2 DEF GrantsIn, Weights
<1> HIDE DEF w
<1>3. <<>> \in Seq(S)
  OBVIOUS
<1>4. GrantsIn(q, c) \in Nat /\ GrantsIn(<<>>, c) = 0
  <2>1. Weights(q, w) \in Nat
    BY <1>1, WeightsOfQueue
  <2>2. Weights(<<>>, w) = 0
    BY WeightsOfEmpty
  <2>3. GrantsIn(<<>>, c) = Weights(<<>>, w)
    BY <1>2, <1>3
  <2> QED BY <1>2, <2>1, <2>2, <2>3
<1>5. ASSUME NEW e \in S PROVE GrantsIn(Append(q, e), c) = GrantsIn(q, c) + e.grant[c]
  <2>1. Append(q, e) \in Seq(S)
    OBVIOUS
  <2>2. Weights(Append(q, e), w) = Weights(q, w) + w[e]
    BY <1>1, WeightsOfAppended
  <2> QED BY <1>1, <1>2, <2>1, <2>2
<1>6. CASE q # <<>>
  <2>1. Tail(q) \in Seq(S) /\ Head(q) \in S
    BY <1>6
  <2>2. Weights(Tail(q), w) = Weights(q, w) - w[Head(q)] /\ w[Head(q)] <= Weights(q, w)
    BY <1>1, <1>6, WeightsOfTail
  <2> QED BY <1>1, <1>2, <1>4, <1>5, <2>1, <2>2
<1> QED BY <1>4, <1>5, <1>6

LEMMA GranulesOfFrames ==
  ASSUME NEW S, NEW c, \A f \in S : Amount(c, Len(f.messages[c])) \in Nat, NEW q \in Seq(S)
  PROVE  /\ GranulesIn(q, c) \in Nat /\ GranulesIn(<<>>, c) = 0
         /\ \A e \in S : GranulesIn(Append(q, e), c)
                         = GranulesIn(q, c) + Amount(c, Len(e.messages[c]))
         /\ q # <<>> => /\ GranulesIn(Tail(q), c)
                            = GranulesIn(q, c) - Amount(c, Len(Head(q).messages[c]))
                        /\ Amount(c, Len(Head(q).messages[c])) <= GranulesIn(q, c)
<1> DEFINE w == [f \in S |-> Amount(c, Len(f.messages[c]))]
<1>1. w \in [S -> Nat] /\ \A f \in S : w[f] = Amount(c, Len(f.messages[c]))
  OBVIOUS
<1>2. ASSUME NEW r \in Seq(S) PROVE GranulesIn(r, c) = Weights(r, w)
  <2>1. \A i \in DOMAIN r : r[i] \in S
    OBVIOUS
  <2>2. [i \in DOMAIN r |-> Amount(c, Len(r[i].messages[c]))] = [i \in DOMAIN r |-> w[r[i]]]
    BY <2>1
  <2> QED BY <2>2 DEF GranulesIn, Weights
<1> HIDE DEF w
<1>3. <<>> \in Seq(S)
  OBVIOUS
<1>4. GranulesIn(q, c) \in Nat /\ GranulesIn(<<>>, c) = 0
  <2>1. Weights(q, w) \in Nat
    BY <1>1, WeightsOfQueue
  <2>2. Weights(<<>>, w) = 0
    BY WeightsOfEmpty
  <2>3. GranulesIn(<<>>, c) = Weights(<<>>, w)
    BY <1>2, <1>3
  <2> QED BY <1>2, <2>1, <2>2, <2>3
<1>5. ASSUME NEW e \in S
      PROVE  GranulesIn(Append(q, e), c) = GranulesIn(q, c) + Amount(c, Len(e.messages[c]))
  <2>1. Append(q, e) \in Seq(S)
    OBVIOUS
  <2>2. Weights(Append(q, e), w) = Weights(q, w) + w[e]
    BY <1>1, WeightsOfAppended
  <2> QED BY <1>1, <1>2, <2>1, <2>2
<1>6. CASE q # <<>>
  <2>1. Tail(q) \in Seq(S) /\ Head(q) \in S
    BY <1>6
  <2>2. Weights(Tail(q), w) = Weights(q, w) - w[Head(q)] /\ w[Head(q)] <= Weights(q, w)
    BY <1>1, <1>6, WeightsOfTail
  <2> QED BY <1>1, <1>2, <1>4, <1>5, <2>1, <2>2
<1> QED BY <1>4, <1>5, <1>6

LEMMA FramesAreWeighed ==
  /\ \A c \in RspCell : \A f \in RxFrame : f.grant[c] \in Nat
  /\ \A c \in ReqCell : \A f \in TxFrame : f.grant[c] \in Nat
  /\ \A c \in ReqCell : \A f \in RxFrame : Amount(c, Len(f.messages[c])) \in Nat
  /\ \A c \in RspCell : \A f \in TxFrame : Amount(c, Len(f.messages[c])) \in Nat
<1>1. ASSUME NEW c \in ReqCell, NEW f \in RxFrame PROVE Amount(c, Len(f.messages[c])) \in Nat
  <2>1. f.messages[c] \in Seq(Message)
    BY DEF RxFrame
  <2>2. Len(f.messages[c]) \in Nat
    BY <2>1
  <2> QED BY <2>2, AmountIsNat
<1>2. ASSUME NEW c \in RspCell, NEW f \in TxFrame PROVE Amount(c, Len(f.messages[c])) \in Nat
  <2>1. f.messages[c] \in Seq(Message)
    BY DEF TxFrame
  <2>2. Len(f.messages[c]) \in Nat
    BY <2>1
  <2> QED BY <2>2, AmountIsNat
<1>3. /\ \A c \in RspCell : \A f \in RxFrame : f.grant[c] \in Nat
      /\ \A c \in ReqCell : \A f \in TxFrame : f.grant[c] \in Nat
  BY DEF RxFrame, TxFrame
<1> QED BY <1>1, <1>2, <1>3

-----------------------------------------------------------------------------
\* Credits for requests

\* The constants satisfy what CreditLoop assumes.
LEMMA LoopsAreCreditLoops == ReqLoop!CreditAssumption /\ RspLoop!CreditAssumption
<1>1. ReqLoop!Cell = ReqCell /\ RspLoop!Cell = RspCell
  BY DEF ReqLoop!Cell, RspLoop!Cell, ReqLoop!Rp, RspLoop!Rp, ReqCell, RspCell, Rp
<1>2. \A c \in ReqCell : Capacity[c] \in 0 .. CreditCounterMax
  BY Constants, TargetAssumption
<1>3. Capacity \in [ReqCell -> 0 .. CreditCounterMax]
  BY <1>2 DEF Capacity
<1>4. [c \in RspCell |-> PeerCapacity[c[2]]] \in [RspCell -> 0 .. CreditCounterMax]
  BY Constants, TargetAssumption
<1>5. {} \subseteq ReqKind /\ {"WriteResp"} \subseteq RspKind
  BY DEF RspKind
<1> QED BY <1>1, <1>3, <1>4, <1>5, Constants DEF ReqLoop!CreditAssumption, RspLoop!CreditAssumption

LEMMA LoopCells ==
  /\ ReqLoop!Cell = ReqCell /\ RspLoop!Cell = RspCell
  /\ ReqLoop!Rp = Rp /\ RspLoop!Rp = Rp
BY DEF ReqLoop!Cell, RspLoop!Cell, ReqLoop!Rp, RspLoop!Rp, ReqCell, RspCell, Rp

LEMMA RequestSumsStay ==
  /\ linkTx' = linkTx => RequestGrants' = RequestGrants
  /\ linkRx' = linkRx => RequestsFlying' = RequestsFlying
  /\ writes' = writes /\ reads' = reads /\ data' = data => RequestsBuffered' = RequestsBuffered
<1>1. linkTx' = linkTx => RequestGrants' = RequestGrants
  BY DEF RequestGrants
<1>2. linkRx' = linkRx => RequestsFlying' = RequestsFlying
  BY DEF RequestsFlying
<1>3. writes' = writes /\ reads' = reads /\ data' = data => RequestsBuffered' = RequestsBuffered
  BY DEF RequestsBuffered
<1> QED BY <1>1, <1>2, <1>3

LEMMA RequestsIdle ==
  ASSUME UNCHANGED <<owed, nextHeaderRp, linkTx, reqCredit, linkRx, writes, reads, data>>
  PROVE  [ReqLoop!Next]_(ReqLoop!vars)
BY RequestSumsStay DEF ReqLoop!vars

LEMMA PeerFrameConsumes ==
  ASSUME Typed, ReqLoop!Inv, NEW batch, Sendable(batch), NEW grant,
         Granting(grant, RspCell, rspOwed), PeerFrame(batch, grant)
  PROVE  [ReqLoop!Next]_(ReqLoop!vars)
<1> DEFINE g == [c \in ReqCell |-> Amount(c, batch[c])]
<1>1. \A c \in ReqCell : Amount(c, batch[c]) \in Nat /\ Amount(c, batch[c]) <= reqCredit[c]
  BY AmountIsNat DEF Sendable
<1>2. ReqLoop!Amounts(g, reqCredit)
  BY <1>1, LoopCells DEF ReqLoop!Amounts
<1>3. reqCredit' = ReqLoop!Minus(reqCredit, g)
  BY LoopCells DEF PeerFrame, ReqLoop!Minus
<1>4. linkRx' = Append(linkRx, SentFrame(batch, grant)) /\ linkRx \in Seq(RxFrame)
  BY DEF PeerFrame, SentFrame, Typed, RxTyped
<1>5. /\ SentFrame(batch, grant) \in RxFrame
      /\ \A c \in ReqCell : Len(SentFrame(batch, grant).messages[c]) = batch[c]
  BY SentFrameTyped DEF Typed, Granting
<1>6. ASSUME NEW c \in ReqCell
      PROVE  GranulesIn(linkRx', c) = GranulesIn(linkRx, c) + Amount(c, batch[c])
  BY <1>4, <1>5, FramesAreWeighed, GranulesOfFrames
<1>7. RequestsFlying' = ReqLoop!Added(RequestsFlying, g)
  BY <1>6, LoopCells DEF RequestsFlying, GranulesIn, ReqLoop!Added
<1>8. UNCHANGED <<owed, nextHeaderRp, RequestGrants, RequestsBuffered>>
  BY RequestSumsStay DEF PeerFrame, targetVars, jobVars, creditVars
<1> HIDE DEF g
<1> QED BY <1>2, <1>3, <1>7, <1>8, LoopsAreCreditLoops, ReqLoop!ConsumeStep

LEMMA PeerReceiveAdds ==
  ASSUME Typed, ReqLoop!Inv, PeerReceive
  PROVE  [ReqLoop!Next]_(ReqLoop!vars)
<1> DEFINE g == Head(linkTx).grant
<1>1. linkTx \in Seq(TxFrame) /\ linkTx # <<>> /\ linkTx' = Tail(linkTx)
  BY DEF Typed, TxTyped, PeerReceive
<1>2. g \in [ReqCell -> Nat]
  <2>1. Head(linkTx) \in TxFrame
    BY <1>1, TailIsSeq
  <2> QED BY <2>1 DEF TxFrame
<1>3. ASSUME NEW c \in ReqCell
      PROVE  /\ GrantsIn(linkTx', c) = GrantsIn(linkTx, c) - g[c]
             /\ g[c] <= GrantsIn(linkTx, c)
  BY <1>1, FramesAreWeighed, GrantsOfFrames
<1>4. ReqLoop!Amounts(g, RequestGrants)
  BY <1>2, <1>3, LoopCells DEF ReqLoop!Amounts, RequestGrants, GrantsIn
<1>5. RequestGrants' = ReqLoop!Minus(RequestGrants, g)
  BY <1>3, LoopCells DEF ReqLoop!Minus, RequestGrants, GrantsIn
<1>6. reqCredit' = ReqLoop!Capped(reqCredit, g, ReqLoop!Limit)
  BY LoopCells DEF PeerReceive, ReqLoop!Capped, ReqLoop!Limit, Request!AtMost, ReqLoop!AtMost
<1>7. UNCHANGED <<owed, nextHeaderRp, RequestsFlying, RequestsBuffered>>
  BY RequestSumsStay DEF PeerReceive, targetVars, jobVars, creditVars
<1> HIDE DEF g
<1> QED BY <1>4, <1>5, <1>6, <1>7, LoopsAreCreditLoops, ReqLoop!AddStep

\* The queue of a cell holds as many requests, or beats.
Waiting(c) ==
  IF c[2] = "WriteReq" THEN Len(writes[c[1]])
  ELSE IF c[2] = "ReadReq" THEN Len(reads[c[1]]) ELSE Len(data[c[1]])

LEMMA BufferedAreWaiting ==
  /\ \A c \in ReqCell : RequestsBuffered[c] = Amount(c, Waiting(c))
  /\ \A c \in ReqCell : RequestsBuffered'[c] = Amount(c, Waiting(c)')
  /\ RequestsBuffered' = [c \in ReqCell |-> RequestsBuffered'[c]]
<1>1. \A c \in ReqCell : c[2] = "WriteReq" \/ c[2] = "ReadReq" \/ c[2] = "WriteData"
  BY DEF ReqCell, ReqKind
<1>2. RequestsBuffered = [c \in ReqCell |-> Amount(c, Waiting(c))]
  BY <1>1 DEF RequestsBuffered, Waiting
<1>3. RequestsBuffered' = [c \in ReqCell |-> Amount(c, Waiting(c)')]
  BY <1>1 DEF RequestsBuffered, Waiting
<1> QED BY <1>2, <1>3

LEMMA WaitingIsNat == Typed => \A c \in ReqCell : Waiting(c) \in Nat
<1> SUFFICES ASSUME Typed, NEW c \in ReqCell PROVE Waiting(c) \in Nat
  OBVIOUS
<1>1. c[1] \in Rp
  BY Constants
<1>2. /\ writes[c[1]] \in Seq(WriteJob) /\ reads[c[1]] \in Seq(Nat)
      /\ data[c[1]] \in Seq(Message)
  BY <1>1 DEF Typed, JobsTyped
<1>3. Len(writes[c[1]]) \in Nat /\ Len(reads[c[1]]) \in Nat /\ Len(data[c[1]]) \in Nat
  BY <1>2
<1> QED BY <1>3 DEF Waiting

LEMMA AmountAdds ==
  /\ \A c \in ReqCell \cup RspCell : \A j, k \in Nat :
       Amount(c, j + k) = Amount(c, j) + Amount(c, k)
  /\ \A c \in ReqCell \cup RspCell : Amount(c, 1) = Granules[c[2]] /\ Amount(c, 0) = 0
<1> SUFFICES ASSUME NEW c \in ReqCell \cup RspCell
             PROVE  /\ \A j, k \in Nat : Amount(c, j + k) = Amount(c, j) + Amount(c, k)
                    /\ Amount(c, 1) = Granules[c[2]] /\ Amount(c, 0) = 0
  OBVIOUS
<1> DEFINE g == Granules[c[2]]
<1>1. g \in Nat
  BY Constants
<1>2. \A k : Amount(c, k) = k * g
  BY DEF Amount
<1> HIDE DEF g
<1>3. \A j, k \in Nat : (j + k) * g = j * g + k * g
  BY <1>1
<1>4. 1 * g = g /\ 0 * g = 0
  BY <1>1
<1> QED BY <1>2, <1>3, <1>4 DEF g

LEMMA TakenAreWaiting ==
  ASSUME Typed, NEW f \in RxFrame, TakeFrame(f), NEW c \in ReqCell
  PROVE  Waiting(c)' = Waiting(c) + Len(f.messages[c]) /\ Len(f.messages[c]) \in Nat
<1> DEFINE rp == c[1]
<1>0. rp \in Rp /\ c = <<c[1], c[2]>>
  BY Constants DEF ReqCell
<1>1. \A kind \in ReqKind : f.messages[<<rp, kind>>] \in Seq(Message)
  BY <1>0 DEF RxFrame, ReqCell
<1>2. /\ writes[rp] \in Seq(WriteJob) /\ reads[rp] \in Seq(Nat) /\ data[rp] \in Seq(Message)
  BY <1>0 DEF Typed, JobsTyped
<1>3. /\ writes'[rp] = writes[rp] \o NewJobs(f.messages[<<rp, "WriteReq">>])
      /\ reads'[rp] = reads[rp] \o NewReads(f.messages[<<rp, "ReadReq">>])
      /\ data'[rp] = data[rp] \o f.messages[<<rp, "WriteData">>]
  BY <1>0 DEF TakeFrame
<1>4. CASE c[2] = "WriteReq"
  <2>1. f.messages[c] \in Seq(Message) /\ c = <<rp, "WriteReq">>
    BY <1>0, <1>1, <1>4 DEF ReqKind
  <2>2. NewJobs(f.messages[c]) \in Seq(WriteJob) /\ Len(NewJobs(f.messages[c])) = Len(f.messages[c])
    BY <2>1, NewJobsTyped
  <2>3. writes'[rp] = writes[rp] \o NewJobs(f.messages[c])
    BY <1>3, <2>1
  <2> DEFINE q == writes[rp]
             r == NewJobs(f.messages[c])
  <2>6. q \in Seq(WriteJob) /\ r \in Seq(WriteJob)
    BY <1>2, <2>2
  <2>7. Len(q \o r) = Len(q) + Len(r)
    BY <2>6, JoinIsSeq
  <2>4. Len(writes'[rp]) = Len(writes[rp]) + Len(f.messages[c])
    BY <2>2, <2>3, <2>7
  <2>5. Len(f.messages[c]) \in Nat
    BY <2>1
  <2> QED BY <1>4, <2>4, <2>5 DEF Waiting
<1>5. CASE c[2] = "ReadReq"
  <2>1. f.messages[c] \in Seq(Message) /\ c = <<rp, "ReadReq">>
    BY <1>0, <1>1, <1>5 DEF ReqKind
  <2>2. NewReads(f.messages[c]) \in Seq(Nat) /\ Len(NewReads(f.messages[c])) = Len(f.messages[c])
    BY <2>1, NewReadsTyped
  <2>3. reads'[rp] = reads[rp] \o NewReads(f.messages[c])
    BY <1>3, <2>1
  <2> DEFINE q == reads[rp]
             r == NewReads(f.messages[c])
  <2>6. q \in Seq(Nat) /\ r \in Seq(Nat)
    BY <1>2, <2>2
  <2>7. Len(q \o r) = Len(q) + Len(r)
    BY <2>6, JoinIsSeq
  <2>4. Len(reads'[rp]) = Len(reads[rp]) + Len(f.messages[c])
    BY <2>2, <2>3, <2>7
  <2>5. Len(f.messages[c]) \in Nat
    BY <2>1
  <2> QED BY <1>5, <2>4, <2>5 DEF Waiting
<1>6. CASE c[2] = "WriteData"
  <2>1. f.messages[c] \in Seq(Message) /\ c = <<rp, "WriteData">>
    BY <1>0, <1>1, <1>6 DEF ReqKind
  <2>2. data'[rp] = data[rp] \o f.messages[c]
    BY <1>3, <2>1
  <2>3. Len(data'[rp]) = Len(data[rp]) + Len(f.messages[c])
    BY <1>2, <2>1, <2>2, JoinIsSeq
  <2>4. Len(f.messages[c]) \in Nat
    BY <2>1
  <2> QED BY <1>6, <2>3, <2>4 DEF Waiting
<1>7. c[2] = "WriteReq" \/ c[2] = "ReadReq" \/ c[2] = "WriteData"
  BY DEF ReqCell, ReqKind
<1> QED BY <1>4, <1>5, <1>6, <1>7

LEMMA ReceiveArrives ==
  ASSUME Typed, ReqLoop!Inv, Receive
  PROVE  [ReqLoop!Next]_(ReqLoop!vars)
<1>0. UNCHANGED <<owed, nextHeaderRp, RequestGrants, reqCredit>>
  BY RequestSumsStay DEF Receive, peerVars
<1>1. CASE linkRx = <<>> /\ UNCHANGED <<linkRx, rspCredit, jobVars>>
  <2>1. UNCHANGED <<RequestsFlying, RequestsBuffered>>
    BY <1>1, RequestSumsStay DEF jobVars
  <2> QED BY <1>0, <2>1 DEF ReqLoop!vars
<1>2. CASE linkRx # <<>> /\ linkRx' = Tail(linkRx) /\ TakeFrame(Head(linkRx))
  <2> DEFINE f == Head(linkRx)
             g == [c \in ReqCell |-> Amount(c, Len(f.messages[c]))]
  <2>1. linkRx \in Seq(RxFrame) /\ linkRx # <<>> /\ linkRx' = Tail(linkRx) /\ TakeFrame(f)
    BY <1>2 DEF Typed, RxTyped
  <2>2. f \in RxFrame
    BY <2>1, TailIsSeq
  <2>3. ASSUME NEW c \in ReqCell
        PROVE  /\ GranulesIn(linkRx', c) = GranulesIn(linkRx, c) - g[c]
               /\ g[c] <= GranulesIn(linkRx, c) /\ g[c] \in Nat
    BY <2>1, <2>2, FramesAreWeighed, GranulesOfFrames
  <2>4. ASSUME NEW c \in ReqCell PROVE RequestsBuffered'[c] = RequestsBuffered[c] + g[c]
    <3>1. Waiting(c)' = Waiting(c) + Len(f.messages[c]) /\ Len(f.messages[c]) \in Nat
      BY <2>1, <2>2, TakenAreWaiting
    <3>2. Waiting(c) \in Nat
      BY WaitingIsNat
    <3> HIDE DEF f
    <3>3. Amount(c, Waiting(c) + Len(f.messages[c]))
            = Amount(c, Waiting(c)) + Amount(c, Len(f.messages[c]))
      BY <3>1, <3>2, AmountAdds
    <3> QED BY <3>1, <3>3, BufferedAreWaiting
  <2>5. ReqLoop!Amounts(g, RequestsFlying)
    BY <2>3, LoopCells DEF ReqLoop!Amounts, RequestsFlying, GranulesIn
  <2>6. RequestsFlying' = ReqLoop!Minus(RequestsFlying, g)
    BY <2>3, LoopCells DEF ReqLoop!Minus, RequestsFlying, GranulesIn
  <2>7. RequestsBuffered' = ReqLoop!Added(RequestsBuffered, g)
    <3>1. RequestsBuffered' = [c \in ReqCell |-> RequestsBuffered'[c]]
      BY BufferedAreWaiting
    <3> HIDE DEF g
    <3> QED BY <2>4, <3>1, LoopCells DEF ReqLoop!Added
  <2> HIDE DEF g
  <2> QED BY <1>0, <2>5, <2>6, <2>7, LoopsAreCreditLoops, ReqLoop!ArriveStep
<1> QED BY <1>1, <1>2 DEF Receive

\* What was owed at most is what may be owed.
LEMMA NothingMoreOwed ==
  ASSUME ReqLoop!Inv, NEW c \in ReqCell
  PROVE  Request!AtMost(Capacity[c], owed[c] + 0) = owed[c]
<1>1. /\ owed[c] \in Nat /\ RequestGrants[c] \in Nat /\ reqCredit[c] \in Nat
      /\ RequestsFlying[c] \in Nat /\ RequestsBuffered[c] \in Nat /\ Capacity[c] \in Nat
      /\ owed[c] + RequestGrants[c] + reqCredit[c] + RequestsFlying[c] + RequestsBuffered[c]
           = Capacity[c]
  BY LoopCells, LoopsAreCreditLoops, ReqLoop!CellFacts
<1> QED BY <1>1 DEF Request!AtMost

\* Fewer requests, or beats, wait in some cells: their space is owed again.
LEMMA RequestsReturn ==
  ASSUME Typed, ReqLoop!Inv, NEW n \in [ReqCell -> Nat],
         \A c \in ReqCell : n[c] <= Waiting(c) /\ Waiting(c)' = Waiting(c) - n[c],
         \A c \in ReqCell :
           owed'[c] = Request!AtMost(Capacity[c], owed[c] + Amount(c, n[c])),
         DOMAIN owed' = ReqCell,
         owed' = [c \in ReqCell |-> owed'[c]],
         UNCHANGED <<nextHeaderRp, linkTx, reqCredit, linkRx>>
  PROVE  [ReqLoop!Next]_(ReqLoop!vars)
<1> DEFINE g == [c \in ReqCell |-> Amount(c, n[c])]
<1>1. ASSUME NEW c \in ReqCell
      PROVE  /\ g[c] \in Nat /\ g[c] <= RequestsBuffered[c]
             /\ RequestsBuffered'[c] = RequestsBuffered[c] - g[c]
  <2>1. Waiting(c) \in Nat /\ n[c] \in Nat /\ n[c] <= Waiting(c)
    BY WaitingIsNat
  <2> DEFINE rest == Waiting(c) - n[c]
  <2>2. rest \in Nat /\ Waiting(c) = rest + n[c] /\ Waiting(c)' = rest
    BY <2>1
  <2> HIDE DEF rest
  <2>3. Amount(c, rest + n[c]) = Amount(c, rest) + Amount(c, n[c])
    BY <2>1, <2>2, AmountAdds
  <2>4. Amount(c, rest) \in Nat /\ Amount(c, n[c]) \in Nat
    BY <2>1, <2>2, AmountIsNat
  <2>5. /\ RequestsBuffered[c] = Amount(c, rest) + Amount(c, n[c])
        /\ RequestsBuffered'[c] = Amount(c, rest)
    BY <2>2, <2>3, BufferedAreWaiting
  <2>6. g[c] = Amount(c, n[c])
    OBVIOUS
  <2> HIDE DEF g
  <2> QED BY <2>4, <2>5, <2>6
<1>2. ReqLoop!Amounts(g, RequestsBuffered)
  BY <1>1, LoopCells DEF ReqLoop!Amounts
<1>3. RequestsBuffered' = ReqLoop!Minus(RequestsBuffered, g)
  <2>1. RequestsBuffered' = [c \in ReqCell |-> RequestsBuffered'[c]]
    BY BufferedAreWaiting
  <2> HIDE DEF g
  <2> QED BY <1>1, <2>1, LoopCells DEF ReqLoop!Minus
<1>4. owed' = ReqLoop!Capped(owed, g, Capacity)
  <2>1. \A c \in ReqCell : owed'[c] = ReqLoop!AtMost(Capacity[c], owed[c] + g[c])
    BY DEF Request!AtMost, ReqLoop!AtMost
  <2> HIDE DEF g
  <2> QED BY <2>1, LoopCells DEF ReqLoop!Capped
<1>5. UNCHANGED <<RequestGrants, RequestsFlying>>
  BY RequestSumsStay
<1> HIDE DEF g
<1> QED BY <1>2, <1>3, <1>4, <1>5, LoopsAreCreditLoops, ReqLoop!ReturnStep

LEMMA AssembledWait ==
  ASSUME Typed, Assemble, NEW rp \in Rp
  PROVE  /\ Len(writes'[rp]) = Len(writes[rp])
         /\ GetsBeat(rp) => Len(data'[rp]) = Len(data[rp]) - 1 /\ Len(data[rp]) \in Nat \ {0}
         /\ ~GetsBeat(rp) => data'[rp] = data[rp]
<1>1. writes[rp] \in Seq(WriteJob) /\ data[rp] \in Seq(Message)
  BY DEF Typed, JobsTyped
<1>2. CASE GetsBeat(rp)
  <2> DEFINE s == writes[rp]
             i == OpenJob(rp)
             m == Head(data[rp])
  <2>1. /\ writes'[rp] = [s EXCEPT ![i].got = Append(@, m)]
        /\ data'[rp] = Tail(data[rp]) /\ data[rp] # <<>> /\ i # 0
    BY <1>2 DEF Assemble, GetsBeat
  <2>2. i \in 1 .. Len(s) /\ s \in Seq(WriteJob)
    BY <1>1, <2>1, OpenJobIsOne
  <2>3. m \in Message /\ Len(data'[rp]) = Len(data[rp]) - 1 /\ Len(data[rp]) \in Nat \ {0}
    BY <1>1, <2>1, TailIsSeq
  <2> HIDE DEF s, i, m
  <2>4. Len(writes'[rp]) = Len(s)
    BY <2>1, <2>2, <2>3, BeatJoinsJob
  <2> QED BY <1>2, <2>3, <2>4 DEF s
<1>3. CASE ~GetsBeat(rp)
  BY <1>3 DEF Assemble
<1> QED BY <1>2, <1>3

LEMMA AssembleReturns ==
  ASSUME Typed, ReqLoop!Inv, Assemble
  PROVE  [ReqLoop!Next]_(ReqLoop!vars)
<1> DEFINE n == [c \in ReqCell |-> IF c[2] = "WriteData" /\ GetsBeat(c[1]) THEN 1 ELSE 0]
<1>1. n \in [ReqCell -> Nat]
  OBVIOUS
<1>2. ASSUME NEW c \in ReqCell
      PROVE  n[c] <= Waiting(c) /\ Waiting(c)' = Waiting(c) - n[c]
  <2>1. c[1] \in Rp /\ Waiting(c) \in Nat
    BY Constants, WaitingIsNat
  <2>2. /\ Len(writes'[c[1]]) = Len(writes[c[1]])
        /\ GetsBeat(c[1]) => /\ Len(data'[c[1]]) = Len(data[c[1]]) - 1
                             /\ Len(data[c[1]]) \in Nat \ {0}
        /\ ~GetsBeat(c[1]) => data'[c[1]] = data[c[1]]
    BY <2>1, AssembledWait
  <2>3. CASE c[2] = "WriteData" /\ GetsBeat(c[1])
    <3>1. n[c] = 1 /\ Waiting(c) = Len(data[c[1]]) /\ Waiting(c)' = Len(data'[c[1]])
      BY <2>3 DEF Waiting
    <3> HIDE DEF n
    <3> QED BY <2>2, <2>3, <3>1
  <2>4. CASE c[2] = "WriteData" /\ ~GetsBeat(c[1])
    <3>1. n[c] = 0 /\ Waiting(c) = Len(data[c[1]]) /\ Waiting(c)' = Len(data'[c[1]])
      BY <2>4 DEF Waiting
    <3> HIDE DEF n
    <3> QED BY <2>1, <2>2, <2>4, <3>1
  <2>5. CASE c[2] # "WriteData"
    <3>1. reads' = reads
      BY DEF Assemble
    <3>2. Waiting(c)' = Waiting(c)
      BY <2>2, <2>5, <3>1 DEF Waiting, ReqCell, ReqKind
    <3> QED BY <2>1, <2>5, <3>2
  <2> QED BY <2>3, <2>4, <2>5
<1>3. ASSUME NEW c \in ReqCell
      PROVE  owed'[c] = Request!AtMost(Capacity[c], owed[c] + Amount(c, n[c]))
  <2>1. CASE c[2] = "WriteData" /\ GetsBeat(c[1])
    <3>1. n[c] = 1 /\ Amount(c, 1) = Granules["WriteData"]
      BY <2>1, AmountAdds
    <3>2. owed'[c] = Request!AtMost(Capacity[c], owed[c] + Granules["WriteData"])
      BY <2>1 DEF Assemble
    <3> QED BY <3>1, <3>2
  <2>2. CASE ~(c[2] = "WriteData" /\ GetsBeat(c[1]))
    <3>1. n[c] = 0 /\ Amount(c, 0) = 0
      BY <2>2, AmountAdds
    <3>2. owed'[c] = owed[c]
      BY <2>2 DEF Assemble
    <3> QED BY <3>1, <3>2, NothingMoreOwed
  <2> QED BY <2>1, <2>2
<1>4. DOMAIN owed' = ReqCell /\ owed' = [c \in ReqCell |-> owed'[c]]
  BY DEF Assemble
<1>5. UNCHANGED <<nextHeaderRp, linkTx, reqCredit, linkRx>>
  BY DEF Assemble, peerVars, linkVars
<1> HIDE DEF n
<1> QED BY <1>1, <1>2, <1>3, <1>4, <1>5, RequestsReturn

\* What submit takes: a whole write, or a read, of the plane of the slot.
SlotCell(slot) == <<SlotRp(slot), IF SlotWrites(slot) THEN "WriteReq" ELSE "ReadReq">>

LEMMA SlotFacts ==
  ASSUME NEW slot \in Slots
  PROVE  /\ SlotRp(slot) \in Rp /\ SlotCell(slot) \in ReqCell
         /\ SlotWrites(slot) \in BOOLEAN
<1>1. RpCount \in Nat \ {0} /\ slot \in 0 .. 2 * RpCount - 1
  BY Constants DEF Slots
<1>2. slot \div 2 \in 0 .. RpCount - 1
  BY <1>1
<1> QED BY <1>2 DEF SlotRp, SlotWrites, SlotCell, Rp, ReqCell, ReqKind

LEMMA SubmittedWait ==
  ASSUME Typed, NEW slot \in Slots, FirstReady(slot), SubmitSlot(slot), data' = data,
         NEW c \in ReqCell
  PROVE  /\ c = SlotCell(slot) => Waiting(c) >= 1 /\ Waiting(c)' = Waiting(c) - 1
         /\ c # SlotCell(slot) => Waiting(c)' = Waiting(c)
<1> DEFINE rp == SlotRp(slot)
           wr == SlotWrites(slot)
<1>1. rp \in Rp /\ c = <<c[1], c[2]>> /\ c[1] \in Rp
  BY SlotFacts, Constants DEF ReqCell
<1>2. writes \in [Rp -> Seq(WriteJob)] /\ reads \in [Rp -> Seq(Nat)]
  BY DEF Typed, JobsTyped
<1>3. writes[rp] \in Seq(WriteJob) /\ reads[rp] \in Seq(Nat)
  BY <1>1, <1>2
<1>4. (wr => writes[rp] # <<>>) /\ (~wr => reads[rp] # <<>>)
  BY DEF FirstReady, Ready
<1>5. /\ wr => Len(Tail(writes[rp])) = Len(writes[rp]) - 1 /\ Len(writes[rp]) \in Nat \ {0}
      /\ ~wr => Len(Tail(reads[rp])) = Len(reads[rp]) - 1 /\ Len(reads[rp]) \in Nat \ {0}
  BY <1>3, <1>4, TailIsSeq
<1>6. /\ writes' = IF wr THEN [writes EXCEPT ![rp] = Tail(@)] ELSE writes
      /\ reads' = IF wr THEN reads ELSE [reads EXCEPT ![rp] = Tail(@)]
  BY DEF SubmitSlot
<1>7. SlotCell(slot) = <<rp, IF wr THEN "WriteReq" ELSE "ReadReq">>
  BY DEF SlotCell
<1>8. /\ wr => writes'[rp] = Tail(writes[rp]) /\ \A p \in Rp \ {rp} : writes'[p] = writes[p]
      /\ ~wr => reads'[rp] = Tail(reads[rp]) /\ \A p \in Rp \ {rp} : reads'[p] = reads[p]
      /\ wr => reads' = reads
      /\ ~wr => writes' = writes
  BY <1>1, <1>2, <1>6
<1> HIDE DEF rp, wr
<1>9. CASE wr
  <2>1. SlotCell(slot) = <<rp, "WriteReq">>
    BY <1>7, <1>9
  <2>2. CASE c = SlotCell(slot)
    <3>1. Waiting(c) = Len(writes[rp]) /\ Waiting(c)' = Len(writes'[rp])
      BY <2>1, <2>2 DEF Waiting
    <3>2. writes'[rp] = Tail(writes[rp])
      BY <1>8, <1>9
    <3>3. Len(writes'[rp]) = Len(writes[rp]) - 1 /\ Len(writes[rp]) >= 1
      BY <1>5, <1>9, <3>2
    <3>4. Waiting(c) >= 1 /\ Waiting(c)' = Waiting(c) - 1
      BY <3>1, <3>3
    <3> QED BY <2>2, <3>4
  <2>3. CASE c # SlotCell(slot)
    BY <1>1, <1>8, <1>9, <2>1, <2>3 DEF Waiting
  <2> QED BY <2>2, <2>3
<1>10. CASE ~wr
  <2>1. SlotCell(slot) = <<rp, "ReadReq">>
    BY <1>7, <1>10
  <2>2. CASE c = SlotCell(slot)
    <3>1. Waiting(c) = Len(reads[rp]) /\ Waiting(c)' = Len(reads'[rp])
      BY <2>1, <2>2 DEF Waiting
    <3>2. reads'[rp] = Tail(reads[rp])
      BY <1>8, <1>10
    <3>3. Len(reads'[rp]) = Len(reads[rp]) - 1 /\ Len(reads[rp]) >= 1
      BY <1>5, <1>10, <3>2
    <3>4. Waiting(c) >= 1 /\ Waiting(c)' = Waiting(c) - 1
      BY <3>1, <3>3
    <3> QED BY <2>2, <3>4
  <2>3. CASE c # SlotCell(slot)
    BY <1>1, <1>8, <1>10, <2>1, <2>3 DEF Waiting
  <2> QED BY <2>2, <2>3
<1> QED BY <1>9, <1>10

LEMMA SubmitReturns ==
  ASSUME Typed, ReqLoop!Inv, Submit
  PROVE  [ReqLoop!Next]_(ReqLoop!vars)
<1>0. UNCHANGED <<nextHeaderRp, linkTx, reqCredit, linkRx, data>>
  BY DEF Submit, peerVars, linkVars
<1>1. CASE UNCHANGED <<memReq, tickets, outstanding, writes, reads, owed, nextSubmit>>
  BY <1>0, <1>1, RequestsIdle
<1>2. ASSUME NEW slot \in Slots, FirstReady(slot), SubmitSlot(slot)
      PROVE  [ReqLoop!Next]_(ReqLoop!vars)
  <2> DEFINE d == SlotCell(slot)
             n == [c \in ReqCell |-> IF c = d THEN 1 ELSE 0]
  <2>1. n \in [ReqCell -> Nat] /\ d \in ReqCell
    BY SlotFacts
  <2>2. owed' = [owed EXCEPT ![d] = Request!AtMost(Capacity[d], @ + Granules[d[2]])]
    BY <1>2 DEF SubmitSlot, SlotCell
  <2>3. owed \in [ReqCell -> Nat]
    BY DEF Typed, CreditTyped
  <2>4. ASSUME NEW c \in ReqCell
        PROVE  owed'[c] = Request!AtMost(Capacity[c], owed[c] + Amount(c, n[c]))
    <3> HIDE DEF d
    <3>1. CASE c = d
      <4>1. n[c] = 1 /\ Amount(c, 1) = Granules[c[2]]
        BY <3>1, AmountAdds
      <4> HIDE DEF n
      <4>2. owed'[c] = Request!AtMost(Capacity[c], owed[c] + Granules[c[2]])
        BY <2>1, <2>2, <2>3, <3>1
      <4> QED BY <4>1, <4>2
    <3>2. CASE c # d
      <4>1. n[c] = 0 /\ Amount(c, 0) = 0
        BY <3>2, AmountAdds
      <4> HIDE DEF n
      <4>2. owed'[c] = owed[c]
        BY <2>2, <2>3, <3>2
      <4> QED BY <4>1, <4>2, NothingMoreOwed
    <3> QED BY <3>1, <3>2
  <2>5. ASSUME NEW c \in ReqCell
        PROVE  n[c] <= Waiting(c) /\ Waiting(c)' = Waiting(c) - n[c]
    <3>1. /\ c = d => Waiting(c) >= 1 /\ Waiting(c)' = Waiting(c) - 1
          /\ c # d => Waiting(c)' = Waiting(c)
      BY <1>0, <1>2, SubmittedWait
    <3>2. Waiting(c) \in Nat
      BY WaitingIsNat
    <3> QED BY <3>1, <3>2
  <2>6. DOMAIN owed' = ReqCell /\ owed' = [c \in ReqCell |-> owed'[c]]
    BY <2>2, <2>3
  <2> HIDE DEF n
  <2> QED BY <1>0, <2>1, <2>4, <2>5, <2>6, RequestsReturn
<1> QED BY <1>1, <1>2 DEF Submit

LEMMA FrameGrants ==
  ASSUME Typed, NEW grant, Granting(grant, ReqCell, owed), SendFrame(grant)
  PROVE  /\ owed' = ReqLoop!Minus(owed, grant)
         /\ RequestGrants' = ReqLoop!Added(RequestGrants, grant)
<1>1. owed' = ReqLoop!Minus(owed, grant)
  BY LoopCells DEF SendFrame, ReqLoop!Minus
<1> DEFINE f == [messages |-> frame.messages, grant |-> grant]
<1>2. linkTx \in Seq(TxFrame) /\ f \in TxFrame /\ f.grant = grant
  BY DEF TxFrame, Granting, Typed, TxTyped, FrameTyped, FrameBuilt
<1>3. ASSUME NEW c \in ReqCell PROVE GrantsIn(linkTx', c) = GrantsIn(linkTx, c) + grant[c]
  <2>1. CASE grant = NoGrant(ReqCell) /\ linkTx' = linkTx
    <3>1. GrantsIn(linkTx, c) \in Nat
      BY <1>2, FramesAreWeighed, GrantsOfFrames
    <3>2. grant[c] = 0
      BY <2>1 DEF NoGrant
    <3> QED BY <2>1, <3>1, <3>2
  <2>2. CASE linkTx' = Append(linkTx, f)
    BY <1>2, <2>2, FramesAreWeighed, GrantsOfFrames
  <2> QED BY <2>1, <2>2 DEF SendFrame
<1>4. RequestGrants' = ReqLoop!Added(RequestGrants, grant)
  BY <1>3, LoopCells DEF RequestGrants, GrantsIn, ReqLoop!Added
<1> QED BY <1>1, <1>4

LEMMA SendGrants ==
  ASSUME Typed, ReqLoop!Inv, Send
  PROVE  [ReqLoop!Next]_(ReqLoop!vars)
<1>0. UNCHANGED <<reqCredit, RequestsFlying, RequestsBuffered>>
  BY RequestSumsStay DEF Send, peerVars, jobVars
<1>1. ASSUME NEW rp \in Rp, Request!InTurn(rp), SendFrame(Request!Granted({rp})),
             nextHeaderRp' = (rp + 1) % RpCount
      PROVE  ReqLoop!Next
  <2>1. Request!Granted({rp}) = ReqLoop!Granted({rp})
    BY DEF Request!Granted, ReqLoop!Granted, Request!Encoded, ReqLoop!Encoded,
       Request!SizesOf, ReqLoop!SizesOf, Request!GrantSizes, ReqLoop!GrantSizes,
       Request!Cell, ReqLoop!Cell, Request!Rp, ReqLoop!Rp
  <2>2. ReqLoop!InTurn(rp)
    BY <1>1 DEF Request!InTurn, ReqLoop!InTurn, Request!Owes, ReqLoop!Owes,
       Request!Turns, ReqLoop!Turns, Request!Rp, ReqLoop!Rp
  <2>3. Granting(Request!Granted({rp}), ReqCell, owed)
    BY RequestGranted DEF Typed, CreditTyped
  <2>4. /\ owed' = ReqLoop!Minus(owed, ReqLoop!Granted({rp}))
        /\ RequestGrants' = ReqLoop!Added(RequestGrants, ReqLoop!Granted({rp}))
    BY <1>1, <2>1, <2>3, FrameGrants
  <2>5. rp \in ReqLoop!Rp
    BY LoopCells
  <2>6. nextHeaderRp' = (rp + 1) % RpCount
    BY <1>1
  <2>7. /\ reqCredit' = reqCredit /\ RequestsFlying' = RequestsFlying
        /\ RequestsBuffered' = RequestsBuffered
    BY <1>0
  <2>8. ReqLoop!TakeHeaderGrant
    BY <2>2, <2>4, <2>5, <2>6, <2>7
       DEF ReqLoop!TakeHeaderGrant, ReqLoop!Grant, ReqLoop!Minus, ReqLoop!Added
  <2> QED BY <2>8 DEF ReqLoop!Next
<1>2. CASE SendFrame(NoGrant(ReqCell)) /\ UNCHANGED nextHeaderRp
  <2>1. owed \in [ReqCell -> Nat]
    BY DEF Typed, CreditTyped
  <2>2. Granting(NoGrant(ReqCell), ReqCell, owed)
    BY <2>1, NoGrantIsGranting
  <2>3. /\ owed' = ReqLoop!Minus(owed, NoGrant(ReqCell))
        /\ RequestGrants' = ReqLoop!Added(RequestGrants, NoGrant(ReqCell))
    BY <1>2, <2>2, FrameGrants
  <2>4. ASSUME NEW c \in ReqCell
        PROVE  owed[c] - NoGrant(ReqCell)[c] = owed[c]
               /\ RequestGrants[c] + NoGrant(ReqCell)[c] = RequestGrants[c]
    <3>1. NoGrant(ReqCell)[c] = 0 /\ owed[c] \in Nat
      BY <2>1 DEF NoGrant
    <3>2. RequestGrants[c] \in Nat
      BY LoopCells, LoopsAreCreditLoops, ReqLoop!CellFacts
    <3> QED BY <3>1, <3>2
  <2>5. owed' = owed
    BY <2>1, <2>3, <2>4, LoopCells DEF ReqLoop!Minus
  <2>6. RequestGrants' = RequestGrants
    <3>1. RequestGrants = [c \in ReqCell |-> RequestGrants[c]]
      BY DEF RequestGrants
    <3> QED BY <2>3, <2>4, <3>1, LoopCells DEF ReqLoop!Added
  <2> QED BY <1>0, <1>2, <2>5, <2>6 DEF ReqLoop!vars
<1> QED BY <1>1, <1>2 DEF Send

LEMMA RequestStep == Typed /\ ReqLoop!Inv /\ [Next]_vars => [ReqLoop!Next]_(ReqLoop!vars)
<1> SUFFICES ASSUME Typed, ReqLoop!Inv, [Next]_vars PROVE [ReqLoop!Next]_(ReqLoop!vars)
  OBVIOUS
<1>1. CASE PeerSend
  BY <1>1, PeerSends, PeerFrameConsumes
<1>2. CASE PeerGrant
  <2>1. Granting(Response!Granted(Rp), RspCell, rspOwed)
    BY ResponseGranted DEF Typed, PeerTyped
  <2> QED BY <1>2, <2>1, NothingSendable, PeerFrameConsumes DEF PeerGrant
<1>3. CASE PeerAccept \/ MemTake \/ MemComplete \/ Collect \/ Transmit \/ Pack \/ UNCHANGED vars
  <2>1. UNCHANGED <<owed, nextHeaderRp, linkTx, reqCredit, linkRx, writes, reads, data>>
    BY <1>3 DEF PeerAccept, MemTake, MemComplete, Collect, Transmit, Pack, vars, peerVars,
       linkVars, targetVars, jobVars, creditVars
  <2> QED BY <2>1, RequestsIdle
<1> QED BY <1>1, <1>2, <1>3, PeerReceiveAdds, ReceiveArrives, AssembleReturns, SubmitReturns,
         SendGrants DEF Next

-----------------------------------------------------------------------------
\* Credits for responses

\* Messages of the cell that have been paid for and are not in a frame on the link.
InHand(c) == SpillsInto(c) + Len(frame.messages[c])

LEMMA ResponsesAre ==
  /\ ResponseGrants = [c \in RspCell |-> GrantsIn(linkRx, c)]
  /\ ResponsesFlying = [c \in RspCell |-> Amount(c, InHand(c)) + GranulesIn(linkTx, c)]
  /\ ResponseGrants' = [c \in RspCell |-> GrantsIn(linkRx', c)]
  /\ ResponsesFlying' = [c \in RspCell |-> Amount(c, InHand(c)') + GranulesIn(linkTx', c)]
BY DEF ResponseGrants, ResponsesFlying, GrantsIn, GranulesIn, InHand

LEMMA InHandIsNat ==
  /\ Typed => \A c \in RspCell : InHand(c) \in Nat /\ GranulesIn(linkTx, c) \in Nat
  /\ Typed' => \A c \in RspCell : InHand(c)' \in Nat
<1>1. ASSUME Typed, NEW c \in RspCell PROVE InHand(c) \in Nat /\ GranulesIn(linkTx, c) \in Nat
  <2>1. frame.messages[c] \in Seq(Message) /\ linkTx \in Seq(TxFrame)
    BY <1>1 DEF Typed, FrameTyped, TxTyped, FrameBuilt
  <2>2. Len(frame.messages[c]) \in Nat /\ SpillsInto(c) \in Nat
    BY <2>1 DEF SpillsInto
  <2>3. GranulesIn(linkTx, c) \in Nat
    BY <2>1, FramesAreWeighed, GranulesOfFrames
  <2> QED BY <2>2, <2>3 DEF InHand
<1>2. ASSUME Typed', NEW c \in RspCell PROVE InHand(c)' \in Nat
  <2>1. frame'.messages[c] \in Seq(Message)
    BY <1>2 DEF Typed, FrameTyped, FrameBuilt
  <2>2. Len(frame'.messages[c]) \in Nat /\ SpillsInto(c)' \in Nat
    BY <2>1 DEF SpillsInto
  <2> QED BY <2>2 DEF InHand
<1> QED BY <1>1, <1>2

LEMMA ResponseSumsStay ==
  /\ linkRx' = linkRx => ResponseGrants' = ResponseGrants
  /\ linkTx' = linkTx /\ spill' = spill /\ frame' = frame => ResponsesFlying' = ResponsesFlying
<1>1. linkRx' = linkRx => ResponseGrants' = ResponseGrants
  BY DEF ResponseGrants
<1>2. linkTx' = linkTx /\ spill' = spill /\ frame' = frame => ResponsesFlying' = ResponsesFlying
  BY DEF ResponsesFlying, SpillsInto
<1> QED BY <1>1, <1>2

LEMMA ResponsesIdle ==
  ASSUME UNCHANGED <<rspOwed, peerNextRp, ResponseGrants, rspCredit, ResponsesFlying, held>>
  PROVE  [RspLoop!Next]_(RspLoop!vars)
BY DEF RspLoop!vars

LEMMA PeerFrameGrants ==
  ASSUME Typed, NEW batch, Sendable(batch), NEW grant,
         Granting(grant, RspCell, rspOwed), PeerFrame(batch, grant)
  PROVE  /\ rspOwed' = RspLoop!Minus(rspOwed, grant)
         /\ ResponseGrants' = RspLoop!Added(ResponseGrants, grant)
         /\ UNCHANGED <<rspCredit, ResponsesFlying, held>>
<1>1. rspOwed' = RspLoop!Minus(rspOwed, grant)
  BY LoopCells DEF PeerFrame, RspLoop!Minus
<1>2. /\ linkRx' = Append(linkRx, SentFrame(batch, grant)) /\ linkRx \in Seq(RxFrame)
      /\ SentFrame(batch, grant).grant = grant
  BY DEF PeerFrame, SentFrame, Typed, RxTyped
<1>3. SentFrame(batch, grant) \in RxFrame
  BY SentFrameTyped DEF Typed, Granting
<1>4. ASSUME NEW c \in RspCell PROVE GrantsIn(linkRx', c) = GrantsIn(linkRx, c) + grant[c]
  BY <1>2, <1>3, FramesAreWeighed, GrantsOfFrames
<1>5. ResponseGrants' = RspLoop!Added(ResponseGrants, grant)
  BY <1>4, LoopCells, ResponsesAre DEF RspLoop!Added
<1>6. UNCHANGED <<rspCredit, ResponsesFlying, held>>
  BY ResponseSumsStay DEF PeerFrame, targetVars, sendVars, creditVars
<1> QED BY <1>1, <1>5, <1>6

LEMMA NothingGranted ==
  ASSUME Typed, RspLoop!Inv, rspOwed' = RspLoop!Minus(rspOwed, NoGrant(RspCell)),
         ResponseGrants' = RspLoop!Added(ResponseGrants, NoGrant(RspCell))
  PROVE  rspOwed' = rspOwed /\ ResponseGrants' = ResponseGrants
<1>1. rspOwed \in [RspCell -> Nat]
  BY DEF Typed, PeerTyped
<1>2. ASSUME NEW c \in RspCell
      PROVE  rspOwed[c] - NoGrant(RspCell)[c] = rspOwed[c]
             /\ ResponseGrants[c] + NoGrant(RspCell)[c] = ResponseGrants[c]
  <2>1. NoGrant(RspCell)[c] = 0 /\ rspOwed[c] \in Nat
    BY <1>1 DEF NoGrant
  <2>2. ResponseGrants[c] \in Nat
    BY LoopCells, LoopsAreCreditLoops, RspLoop!CellFacts
  <2> QED BY <2>1, <2>2
<1>3. rspOwed' = rspOwed
  BY <1>1, <1>2, LoopCells DEF RspLoop!Minus
<1>4. ResponseGrants' = ResponseGrants
  <2>1. ResponseGrants = [c \in RspCell |-> ResponseGrants[c]]
    BY DEF ResponseGrants
  <2> QED BY <1>2, <2>1, LoopCells DEF RspLoop!Added
<1> QED BY <1>3, <1>4

LEMMA PeerSendGrants ==
  ASSUME Typed, RspLoop!Inv, PeerSend
  PROVE  [RspLoop!Next]_(RspLoop!vars)
<1>1. PICK batch \in Batches :
        /\ \A c \in ReqCell : /\ issued[c] + batch[c] <= Len(Program(c))
                              /\ Amount(c, batch[c]) <= reqCredit[c]
        /\ \/ \E rp \in Rp : /\ Response!InTurn(rp)
                             /\ PeerFrame(batch, Response!Granted({rp}))
                             /\ peerNextRp' = (rp + 1) % RpCount
           \/ PeerFrame(batch, NoGrant(RspCell)) /\ UNCHANGED peerNextRp
  BY DEF PeerSend
<1>2. Sendable(batch)
  BY <1>1, BatchIsTyped DEF Sendable
<1>3. rspOwed \in [RspCell -> Nat]
  BY DEF Typed, PeerTyped
<1>4. ASSUME NEW rp \in Rp, Response!InTurn(rp), PeerFrame(batch, Response!Granted({rp})),
             peerNextRp' = (rp + 1) % RpCount
      PROVE  RspLoop!Next
  <2>1. Response!Granted({rp}) = RspLoop!Granted({rp})
    BY DEF Response!Granted, RspLoop!Granted, Response!Encoded, RspLoop!Encoded,
       Response!SizesOf, RspLoop!SizesOf, Response!GrantSizes, RspLoop!GrantSizes,
       Response!Cell, RspLoop!Cell, Response!Rp, RspLoop!Rp
  <2>2. RspLoop!InTurn(rp)
    BY <1>4 DEF Response!InTurn, RspLoop!InTurn, Response!Owes, RspLoop!Owes,
       Response!Turns, RspLoop!Turns, Response!Rp, RspLoop!Rp
  <2>3. Granting(Response!Granted({rp}), RspCell, rspOwed)
    BY <1>3, ResponseGranted
  <2>4. /\ rspOwed' = RspLoop!Minus(rspOwed, RspLoop!Granted({rp}))
        /\ ResponseGrants' = RspLoop!Added(ResponseGrants, RspLoop!Granted({rp}))
        /\ UNCHANGED <<rspCredit, ResponsesFlying, held>>
    BY <1>2, <1>4, <2>1, <2>3, PeerFrameGrants
  <2>5. rp \in RspLoop!Rp /\ peerNextRp' = (rp + 1) % RpCount
    BY <1>4, LoopCells
  <2>6. RspLoop!TakeHeaderGrant
    BY <2>2, <2>4, <2>5
       DEF RspLoop!TakeHeaderGrant, RspLoop!Grant, RspLoop!Minus, RspLoop!Added
  <2> QED BY <2>6 DEF RspLoop!Next
<1>5. CASE PeerFrame(batch, NoGrant(RspCell)) /\ UNCHANGED peerNextRp
  <2>1. Granting(NoGrant(RspCell), RspCell, rspOwed)
    BY <1>3, NoGrantIsGranting
  <2>2. /\ rspOwed' = rspOwed /\ ResponseGrants' = ResponseGrants
        /\ UNCHANGED <<rspCredit, ResponsesFlying, held>>
    BY <1>2, <1>5, <2>1, PeerFrameGrants, NothingGranted
  <2> QED BY <1>5, <2>2, ResponsesIdle
<1> QED BY <1>1, <1>4, <1>5

LEMMA PeerGrantGrants ==
  ASSUME Typed, RspLoop!Inv, PeerGrant
  PROVE  RspLoop!Next
<1>1. PICK rp \in Rp : Response!Owes(rp)
  BY DEF PeerGrant
<1>2. RspLoop!Granted(RspLoop!Rp) = Response!Granted(Rp)
  BY DEF Response!Granted, RspLoop!Granted, Response!Encoded, RspLoop!Encoded,
     Response!SizesOf, RspLoop!SizesOf, Response!GrantSizes, RspLoop!GrantSizes,
     Response!Cell, RspLoop!Cell, Response!Rp, RspLoop!Rp, Rp
<1>3. Granting(Response!Granted(Rp), RspCell, rspOwed)
  BY ResponseGranted DEF Typed, PeerTyped
<1>4. /\ rspOwed' = RspLoop!Minus(rspOwed, RspLoop!Granted(RspLoop!Rp))
      /\ ResponseGrants' = RspLoop!Added(ResponseGrants, RspLoop!Granted(RspLoop!Rp))
      /\ UNCHANGED <<rspCredit, ResponsesFlying, held>>
  BY <1>2, <1>3, NothingSendable, PeerFrameGrants DEF PeerGrant
<1>5. RspLoop!Owes(rp) /\ rp \in RspLoop!Rp /\ peerNextRp' = peerNextRp
  BY <1>1, LoopCells DEF PeerGrant, Response!Owes, RspLoop!Owes
<1>6. RspLoop!TakeMiscGrants
  BY <1>4, <1>5 DEF RspLoop!TakeMiscGrants, RspLoop!Grant, RspLoop!Minus, RspLoop!Added
<1> QED BY <1>6 DEF RspLoop!Next

LEMMA PeerReceiveArrives ==
  ASSUME Typed, RspLoop!Inv, PeerReceive
  PROVE  [RspLoop!Next]_(RspLoop!vars)
<1> DEFINE f == Head(linkTx)
           g == [c \in RspCell |-> Amount(c, Len(f.messages[c]))]
<1>1. linkTx \in Seq(TxFrame) /\ linkTx # <<>> /\ linkTx' = Tail(linkTx)
  BY DEF Typed, TxTyped, PeerReceive
<1>2. f \in TxFrame
  BY <1>1, TailIsSeq
<1>3. ASSUME NEW c \in RspCell
      PROVE  /\ GranulesIn(linkTx', c) = GranulesIn(linkTx, c) - g[c]
             /\ g[c] <= GranulesIn(linkTx, c) /\ g[c] \in Nat
  BY <1>1, <1>2, FramesAreWeighed, GranulesOfFrames
<1>4. ASSUME NEW c \in RspCell
      PROVE  /\ ResponsesFlying[c] = Amount(c, InHand(c)) + GranulesIn(linkTx, c)
             /\ ResponsesFlying'[c] = Amount(c, InHand(c)) + GranulesIn(linkTx', c)
             /\ Amount(c, InHand(c)) \in Nat /\ GranulesIn(linkTx, c) \in Nat
  <2>1. InHand(c)' = InHand(c)
    BY DEF PeerReceive, InHand, SpillsInto, targetVars, sendVars
  <2> QED BY <2>1, ResponsesAre, InHandIsNat, AmountIsNat
<1>5. ASSUME NEW c \in RspCell
      PROVE  /\ g[c] \in Nat /\ g[c] <= ResponsesFlying[c]
             /\ ResponsesFlying'[c] = ResponsesFlying[c] - g[c]
  <2> HIDE DEF g
  <2> QED BY <1>3, <1>4
<1>6. RspLoop!Amounts(g, ResponsesFlying)
  BY <1>5, LoopCells DEF RspLoop!Amounts
<1>7. ResponsesFlying' = RspLoop!Minus(ResponsesFlying, g)
  <2>1. ResponsesFlying' = [c \in RspCell |-> ResponsesFlying'[c]]
    BY ResponsesAre
  <2> HIDE DEF g
  <2> QED BY <1>5, <2>1, LoopCells DEF RspLoop!Minus
<1>8. held' = RspLoop!Added(held, g)
  BY LoopCells DEF PeerReceive, RspLoop!Added
<1>9. UNCHANGED <<rspOwed, peerNextRp, ResponseGrants, rspCredit>>
  BY ResponseSumsStay DEF PeerReceive, targetVars, creditVars
<1> HIDE DEF g
<1> QED BY <1>6, <1>7, <1>8, <1>9, LoopsAreCreditLoops, RspLoop!ArriveStep

LEMMA PeerAcceptReturns ==
  ASSUME Typed, RspLoop!Inv, PeerAccept
  PROVE  [RspLoop!Next]_(RspLoop!vars)
<1>1. PICK d \in RspCell :
        /\ held' = [held EXCEPT ![d] = @ - Granules[d[2]]]
        /\ rspOwed' = [rspOwed EXCEPT ![d] = @ + Granules[d[2]]]
  BY DEF PeerAccept
<1>2. /\ held \in [RspCell -> Nat] /\ held' \in [RspCell -> Nat]
      /\ rspOwed \in [RspCell -> Nat] /\ Granules[d[2]] \in Nat
  BY PeerAcceptTyped, Constants DEF Typed, PeerTyped
<1> DEFINE g == [c \in RspCell |-> IF c = d THEN Granules[d[2]] ELSE 0]
           cap == [c \in RspCell |-> PeerCapacity[c[2]]]
<1>3. ASSUME NEW c \in RspCell
      PROVE  /\ g[c] \in Nat /\ g[c] <= held[c] /\ held'[c] = held[c] - g[c]
             /\ rspOwed'[c] = rspOwed[c] + g[c]
  <2>1. CASE c = d
    <3>1. g[c] = Granules[d[2]] /\ held'[c] = held[c] - Granules[d[2]]
      BY <1>1, <1>2, <2>1
    <3>2. held'[c] \in Nat /\ held[c] \in Nat /\ rspOwed'[c] = rspOwed[c] + Granules[d[2]]
      BY <1>1, <1>2, <2>1
    <3> HIDE DEF g
    <3> QED BY <1>2, <3>1, <3>2
  <2>2. CASE c # d
    <3>1. g[c] = 0 /\ held'[c] = held[c] /\ rspOwed'[c] = rspOwed[c]
      BY <1>1, <1>2, <2>2
    <3>2. held[c] \in Nat /\ rspOwed[c] \in Nat
      BY <1>2
    <3> HIDE DEF g
    <3> QED BY <3>1, <3>2
  <2> QED BY <2>1, <2>2
<1>4. ASSUME NEW c \in RspCell PROVE rspOwed'[c] = RspLoop!AtMost(cap[c], rspOwed[c] + g[c])
  <2>1. /\ rspOwed[c] \in Nat /\ ResponseGrants[c] \in Nat /\ rspCredit[c] \in Nat
        /\ ResponsesFlying[c] \in Nat /\ held[c] \in Nat /\ cap[c] \in Nat
        /\ rspOwed[c] + ResponseGrants[c] + rspCredit[c] + ResponsesFlying[c] + held[c] = cap[c]
    BY LoopCells, LoopsAreCreditLoops, RspLoop!CellFacts
  <2>2. g[c] \in Nat /\ g[c] <= held[c] /\ rspOwed'[c] = rspOwed[c] + g[c]
    BY <1>3
  <2> HIDE DEF g, cap
  <2>3. rspOwed[c] + g[c] <= cap[c]
    BY <2>1, <2>2
  <2> QED BY <2>2, <2>3 DEF RspLoop!AtMost
<1>5. RspLoop!Amounts(g, held)
  BY <1>3, LoopCells DEF RspLoop!Amounts
<1>6. held' = RspLoop!Minus(held, g)
  <2> HIDE DEF g
  <2> QED BY <1>2, <1>3, LoopCells DEF RspLoop!Minus
<1>7. rspOwed' = RspLoop!Capped(rspOwed, g, cap)
  <2>1. rspOwed' = [c \in RspCell |-> rspOwed'[c]]
    BY <1>1, <1>2
  <2> HIDE DEF g, cap
  <2> QED BY <1>4, <2>1, LoopCells DEF RspLoop!Capped
<1>8. UNCHANGED <<peerNextRp, ResponseGrants, rspCredit, ResponsesFlying>>
  BY ResponseSumsStay DEF PeerAccept, linkVars, targetVars, sendVars, creditVars
<1> HIDE DEF g
<1> QED BY <1>5, <1>6, <1>7, <1>8, LoopsAreCreditLoops, RspLoop!ReturnStep

LEMMA ReceiveAdds ==
  ASSUME Typed, RspLoop!Inv, Receive
  PROVE  [RspLoop!Next]_(RspLoop!vars)
<1>0. UNCHANGED <<rspOwed, peerNextRp, ResponsesFlying, held>>
  BY ResponseSumsStay DEF Receive, peerVars, sendVars
<1>1. CASE linkRx = <<>> /\ UNCHANGED <<linkRx, rspCredit, jobVars>>
  BY <1>0, <1>1, ResponseSumsStay, ResponsesIdle
<1>2. CASE linkRx # <<>> /\ linkRx' = Tail(linkRx) /\ TakeFrame(Head(linkRx))
  <2> DEFINE g == Head(linkRx).grant
  <2>1. linkRx \in Seq(RxFrame) /\ linkRx # <<>> /\ linkRx' = Tail(linkRx)
    BY <1>2 DEF Typed, RxTyped
  <2>2. g \in [RspCell -> Nat]
    <3>1. Head(linkRx) \in RxFrame
      BY <2>1, TailIsSeq
    <3> QED BY <3>1 DEF RxFrame
  <2>3. ASSUME NEW c \in RspCell
        PROVE  /\ GrantsIn(linkRx', c) = GrantsIn(linkRx, c) - g[c]
               /\ g[c] <= GrantsIn(linkRx, c)
    BY <2>1, FramesAreWeighed, GrantsOfFrames
  <2>4. RspLoop!Amounts(g, ResponseGrants)
    BY <2>2, <2>3, LoopCells, ResponsesAre DEF RspLoop!Amounts
  <2>5. ResponseGrants' = RspLoop!Minus(ResponseGrants, g)
    BY <2>3, LoopCells, ResponsesAre DEF RspLoop!Minus
  <2>6. rspCredit' = RspLoop!Capped(rspCredit, g, RspLoop!Limit)
    BY <1>2, LoopCells
       DEF TakeFrame, RspLoop!Capped, RspLoop!Limit, Response!AtMost, RspLoop!AtMost
  <2> HIDE DEF g
  <2> QED BY <1>0, <2>4, <2>5, <2>6, LoopsAreCreditLoops, RspLoop!AddStep
<1> QED BY <1>1, <1>2 DEF Receive

LEMMA PutAddsOne ==
  ASSUME NEW f \in FrameBuilt, NEW d \in RspCell, NEW msg \in Message, NEW n, NEW c \in RspCell
  PROVE  Len(Put(f, d, msg, n).messages[c])
           = IF c = d THEN Len(f.messages[c]) + 1 ELSE Len(f.messages[c])
<1>1. f.messages \in [RspCell -> Seq(Message)]
  BY DEF FrameBuilt
<1>2. Len(Append(f.messages[d], msg)) = Len(f.messages[d]) + 1
  <2>1. f.messages[d] \in Seq(Message)
    BY <1>1
  <2> QED BY <2>1, AppendIsSeq
<1>3. Put(f, d, msg, n).messages = [f.messages EXCEPT ![d] = Append(@, msg)]
  BY DEF Put
<1> QED BY <1>1, <1>2, <1>3

LEMMA ResumeKeeps ==
  ASSUME Typed, phase = "transmit", ResumeSpill, NEW c \in RspCell
  PROVE  InHand(c)' = InHand(c)
<1>1. frame = EmptyFrame /\ spill.left \in Nat /\ FlitGranules \in Nat \ {0}
      /\ spill.cell \in RspCell /\ spill.msg \in Message /\ spill \in SpillKept
  BY Constants DEF Typed, FrameTyped, SpillKept
<1>2. EmptyFrame \in FrameBuilt /\ Len(EmptyFrame.messages[c]) = 0
  BY EmptyFrameTyped DEF NoMessage
<1>3. CASE spill.left = 0
  <2>1. frame' = EmptyFrame /\ spill' = NoSpill
    BY <1>1, <1>3 DEF ResumeSpill
  <2> QED BY <1>1, <1>3, <2>1 DEF InHand, SpillsInto, NoSpill
<1>4. CASE spill.left # 0 /\ spill.left <= FlitGranules
  <2> DEFINE p == Put(EmptyFrame, spill.cell, spill.msg, spill.left)
  <2>1. frame' = p /\ spill'.left = 0
    BY <1>4 DEF ResumeSpill, NoSpill
  <2>2. Len(p.messages[c]) = IF c = spill.cell THEN 1 ELSE 0
    BY <1>1, <1>2, PutAddsOne
  <2> HIDE DEF p
  <2>3. SpillsInto(c) = IF c = spill.cell THEN 1 ELSE 0
    BY <1>1, <1>4 DEF SpillsInto
  <2>4. SpillsInto(c)' = 0
    BY <2>1 DEF SpillsInto
  <2> QED BY <1>1, <1>2, <2>1, <2>2, <2>3, <2>4 DEF InHand
<1>5. CASE ~(spill.left <= FlitGranules)
  <2>1. /\ frame' = [EmptyFrame EXCEPT !.used = FlitGranules]
        /\ spill' = [spill EXCEPT !.left = @ - FlitGranules]
    BY <1>5 DEF ResumeSpill
  <2>2. frame'.messages = frame.messages
    BY <1>1, <2>1 DEF EmptyFrame
  <2>3. spill'.left = spill.left - FlitGranules /\ spill'.cell = spill.cell
    BY <1>1, <2>1 DEF SpillKept
  <2>4. spill'.left > 0 /\ spill.left > 0
    BY <1>1, <1>5, <2>3
  <2> QED BY <2>2, <2>3, <2>4 DEF InHand, SpillsInto
<1> QED BY <1>1, <1>3, <1>4, <1>5

LEMMA TransmitKeeps ==
  ASSUME Typed, Transmit
  PROVE  [RspLoop!Next]_(RspLoop!vars)
<1>1. UNCHANGED <<rspOwed, peerNextRp, ResponseGrants, rspCredit, held>> /\ linkTx' = linkTx
  BY ResponseSumsStay DEF Transmit, peerVars, linkVars, creditVars
<1>2. ASSUME NEW c \in RspCell PROVE InHand(c)' = InHand(c)
  <2>1. CASE UNCHANGED <<frame, spill, outstanding>>
    BY <2>1 DEF InHand, SpillsInto
  <2>2. CASE ResumeSpill
    BY <2>2, ResumeKeeps DEF Transmit
  <2> QED BY <2>1, <2>2 DEF Transmit
<1>3. ResponsesFlying' = ResponsesFlying
  BY <1>1, <1>2, ResponsesAre
<1> QED BY <1>1, <1>3, ResponsesIdle

LEMMA PackedInHand ==
  ASSUME Typed, HasRoom, NEW d \in RspCell, CanReply(d), PackMessage(d), NEW c \in RspCell
  PROVE  InHand(c)' = InHand(c) + (IF c = d THEN 1 ELSE 0)
<1> DEFINE reply == Head(replies[d])
           msg   == <<reply.n, reply.beat>>
           last  == LastBeat(d, reply)
           g     == Granules[d[2]]
           fits  == g <= FlitGranules - frame.used
<1>1. reply \in Reply
  BY RestIsSeq DEF CanReply
<1>2. msg \in Message
  BY <1>1 DEF Reply, Message
<1>3. /\ fits => frame' = Put(frame, d, msg, g) /\ spill' = spill
      /\ ~fits => /\ frame' = [frame EXCEPT !.used = FlitGranules]
                  /\ spill' = [cell |-> d, msg |-> msg, completes |-> last,
                               left |-> g - (FlitGranules - frame.used)]
  BY DEF PackMessage
<1> HIDE DEF reply, msg, last
<1>4. /\ spill.left = 0 /\ frame \in FrameBuilt /\ frame.used \in Nat /\ g \in Nat
      /\ FlitGranules \in Nat
  BY Constants DEF HasRoom, Typed, FrameTyped, FrameBuilt
<1>5. frame.messages[c] \in Seq(Message)
  BY <1>4 DEF FrameBuilt
<1>6. Len(frame.messages[c]) \in Nat /\ SpillsInto(c) = 0
  BY <1>4, <1>5 DEF SpillsInto
<1>7. CASE fits
  <2>1. frame' = Put(frame, d, msg, g) /\ spill' = spill
    BY <1>3, <1>7
  <2>2. Len(frame'.messages[c]) = IF c = d THEN Len(frame.messages[c]) + 1
                                           ELSE Len(frame.messages[c])
    BY <1>2, <1>4, <2>1, PutAddsOne
  <2>3. SpillsInto(c)' = 0
    BY <1>4, <2>1 DEF SpillsInto
  <2> DEFINE n == Len(frame.messages[c])
  <2>4. /\ InHand(c) = 0 + n /\ InHand(c)' = 0 + Len(frame'.messages[c])
        /\ Len(frame'.messages[c]) = (IF c = d THEN n + 1 ELSE n) /\ n \in Nat
    BY <1>6, <2>2, <2>3 DEF InHand
  <2> HIDE DEF n
  <2> QED BY <2>4
<1>8. CASE ~fits
  <2>1. /\ frame' = [frame EXCEPT !.used = FlitGranules] /\ spill'.cell = d
        /\ spill'.left = g - (FlitGranules - frame.used)
    BY <1>3, <1>8
  <2>2. frame'.messages = frame.messages
    BY <1>4, <2>1 DEF FrameBuilt
  <2>3. spill'.left > 0
    BY <1>4, <1>8, <2>1
  <2>4. SpillsInto(c)' = IF c = d THEN 1 ELSE 0
    BY <2>1, <2>3 DEF SpillsInto
  <2> DEFINE n == Len(frame.messages[c])
  <2>5. /\ InHand(c) = 0 + n /\ InHand(c)' = SpillsInto(c)' + n
        /\ SpillsInto(c)' = (IF c = d THEN 1 ELSE 0) /\ n \in Nat
    BY <1>6, <2>2, <2>4 DEF InHand
  <2> HIDE DEF n
  <2> QED BY <2>5
<1> QED BY <1>7, <1>8

LEMMA PackConsumes ==
  ASSUME Typed, RspLoop!Inv, Pack
  PROVE  [RspLoop!Next]_(RspLoop!vars)
<1>1. PICK d \in RspCell : CanReply(d) /\ PackMessage(d)
  BY DEF Pack, NextMessage
<1>2. /\ rspCredit' = [rspCredit EXCEPT ![d] = @ - Granules[d[2]]] /\ HasRoom
      /\ rspCredit[d] >= Granules[d[2]] /\ rspCredit \in [RspCell -> Nat]
      /\ Granules[d[2]] \in Nat
  BY <1>1, Constants DEF Pack, PackMessage, CanReply, Typed, CreditTyped
<1> DEFINE g == [c \in RspCell |-> IF c = d THEN Granules[d[2]] ELSE 0]
<1>3. RspLoop!Amounts(g, rspCredit)
  BY <1>2, LoopCells DEF RspLoop!Amounts
<1>4. rspCredit' = RspLoop!Minus(rspCredit, g)
  <2>1. \A c \in RspCell : rspCredit'[c] = rspCredit[c] - g[c]
    BY <1>2
  <2>2. rspCredit' = [c \in RspCell |-> rspCredit'[c]]
    BY <1>2
  <2> HIDE DEF g
  <2> QED BY <2>1, <2>2, LoopCells DEF RspLoop!Minus
<1>5. ASSUME NEW c \in RspCell PROVE ResponsesFlying'[c] = ResponsesFlying[c] + g[c]
  <2>1. linkTx' = linkTx
    BY DEF Pack, linkVars
  <2> DEFINE k == IF c = d THEN 1 ELSE 0
  <2>2. InHand(c)' = InHand(c) + k
    BY <1>1, <1>2, PackedInHand
  <2>3. k \in Nat /\ InHand(c) \in Nat /\ GranulesIn(linkTx, c) \in Nat
    BY InHandIsNat
  <2>4. Amount(c, k) = g[c]
    BY AmountAdds
  <2> HIDE DEF k, g
  <2>5. Amount(c, InHand(c) + k) = Amount(c, InHand(c)) + Amount(c, k)
    BY <2>3, AmountAdds
  <2>6. Amount(c, InHand(c)) \in Nat /\ Amount(c, k) \in Nat
    BY <2>3, AmountIsNat
  <2>7. /\ ResponsesFlying[c] = Amount(c, InHand(c)) + GranulesIn(linkTx, c)
        /\ ResponsesFlying'[c] = Amount(c, InHand(c) + k) + GranulesIn(linkTx, c)
    BY <2>1, <2>2, ResponsesAre
  <2> QED BY <2>3, <2>4, <2>5, <2>6, <2>7
<1>6. ResponsesFlying' = RspLoop!Added(ResponsesFlying, g)
  <2>1. ResponsesFlying' = [c \in RspCell |-> ResponsesFlying'[c]]
    BY ResponsesAre
  <2> HIDE DEF g
  <2> QED BY <1>5, <2>1, LoopCells DEF RspLoop!Added
<1>7. UNCHANGED <<rspOwed, peerNextRp, ResponseGrants, held>>
  BY ResponseSumsStay DEF Pack, peerVars, linkVars
<1> HIDE DEF g
<1> QED BY <1>3, <1>4, <1>6, <1>7, LoopsAreCreditLoops, RspLoop!ConsumeStep

LEMMA SendKeeps ==
  ASSUME Typed, Send
  PROVE  [RspLoop!Next]_(RspLoop!vars)
<1>1. PICK grant : Granting(grant, ReqCell, owed) /\ SendFrame(grant)
  BY Sends
<1>2. UNCHANGED <<rspOwed, peerNextRp, ResponseGrants, rspCredit, held>> /\ spill' = spill
  BY ResponseSumsStay DEF Send, peerVars
<1> DEFINE f == [messages |-> frame.messages, grant |-> grant]
<1>3. linkTx \in Seq(TxFrame) /\ f \in TxFrame /\ f.messages = frame.messages
  BY <1>1 DEF TxFrame, Granting, Typed, TxTyped, FrameTyped, FrameBuilt
<1>4. ASSUME NEW c \in RspCell
      PROVE  ResponsesFlying'[c] = ResponsesFlying[c]
  <2> DEFINE k == Len(frame.messages[c])
  <2>1. /\ frame' = EmptyFrame /\ Len(EmptyFrame.messages[c]) = 0
        /\ SpillsInto(c)' = SpillsInto(c) /\ SpillsInto(c) \in Nat
    BY <1>1, <1>2, EmptyFrameTyped DEF SendFrame, NoMessage, SpillsInto
  <2>2. k \in Nat
    <3>1. frame.messages[c] \in Seq(Message)
      BY DEF Typed, FrameTyped, FrameBuilt
    <3> QED BY <3>1
  <2>3. GranulesIn(linkTx', c) = GranulesIn(linkTx, c) + Amount(c, k)
    <3>1. CASE frame.used = 0 /\ linkTx' = linkTx
      <4>1. k = 0
        BY <3>1 DEF Typed, FrameTyped, NoMessage
      <4>2. Amount(c, 0) = 0 /\ GranulesIn(linkTx, c) \in Nat
        BY AmountAdds, InHandIsNat
      <4> HIDE DEF k
      <4> QED BY <3>1, <4>1, <4>2
    <3>2. CASE linkTx' = Append(linkTx, f)
      BY <1>3, <3>2, FramesAreWeighed, GranulesOfFrames
    <3> QED BY <1>1, <3>1, <3>2 DEF SendFrame
  <2>4. InHand(c) = SpillsInto(c) + k /\ InHand(c)' = SpillsInto(c)
    BY <2>1 DEF InHand
  <2> HIDE DEF k
  <2>5. Amount(c, SpillsInto(c) + k) = Amount(c, SpillsInto(c)) + Amount(c, k)
    BY <2>1, <2>2, AmountAdds
  <2>6. /\ Amount(c, SpillsInto(c)) \in Nat /\ Amount(c, k) \in Nat
        /\ GranulesIn(linkTx, c) \in Nat
    BY <2>1, <2>2, AmountIsNat, InHandIsNat
  <2>7. /\ ResponsesFlying[c] = Amount(c, SpillsInto(c) + k) + GranulesIn(linkTx, c)
        /\ ResponsesFlying'[c] = Amount(c, SpillsInto(c)) + GranulesIn(linkTx', c)
    BY <2>4, ResponsesAre
  <2> QED BY <2>3, <2>5, <2>6, <2>7
<1>5. ResponsesFlying' = ResponsesFlying
  <2>1. /\ ResponsesFlying' = [c \in RspCell |-> ResponsesFlying'[c]]
        /\ ResponsesFlying = [c \in RspCell |-> ResponsesFlying[c]]
    BY ResponsesAre
  <2> QED BY <1>4, <2>1
<1> QED BY <1>2, <1>5, ResponsesIdle

LEMMA ResponseStep == Typed /\ RspLoop!Inv /\ [Next]_vars => [RspLoop!Next]_(RspLoop!vars)
<1> SUFFICES ASSUME Typed, RspLoop!Inv, [Next]_vars PROVE [RspLoop!Next]_(RspLoop!vars)
  OBVIOUS
<1>1. CASE MemTake \/ MemComplete \/ Collect \/ Assemble \/ Submit \/ UNCHANGED vars
  <2>1. /\ UNCHANGED <<rspOwed, peerNextRp, rspCredit, held>>
        /\ UNCHANGED <<linkRx, linkTx, spill, frame>>
    BY <1>1 DEF MemTake, MemComplete, Collect, Assemble, Submit, vars, peerVars,
       linkVars, targetVars, sendVars, creditVars
  <2> QED BY <2>1, ResponseSumsStay, ResponsesIdle
<1> QED BY <1>1, PeerSendGrants, PeerGrantGrants, PeerReceiveArrives, PeerAcceptReturns,
         ReceiveAdds, TransmitKeeps, PackConsumes, SendKeeps DEF Next

-----------------------------------------------------------------------------
\* Both loops

LEMMA LoopsInitially == Init => ReqLoop!Init /\ RspLoop!Init
<1> SUFFICES ASSUME Init PROVE ReqLoop!Init /\ RspLoop!Init
  OBVIOUS
<1>1. Typed
  BY InitTyped
<1>2. ASSUME NEW c \in ReqCell
      PROVE  RequestGrants[c] = 0 /\ RequestsFlying[c] = 0 /\ RequestsBuffered[c] = 0
  <2>1. GrantsIn(<<>>, c) = 0 /\ GranulesIn(<<>>, c) = 0
    <3>1. <<>> \in Seq(RxFrame) /\ <<>> \in Seq(TxFrame)
      OBVIOUS
    <3> QED BY <3>1, FramesAreWeighed, GrantsOfFrames, GranulesOfFrames
  <2>2. RequestGrants[c] = GrantsIn(<<>>, c) /\ RequestsFlying[c] = GranulesIn(<<>>, c)
    BY DEF Init, RequestGrants, RequestsFlying, GrantsIn, GranulesIn
  <2>3. Waiting(c) = 0
    BY Constants DEF Init, Waiting
  <2> QED BY <2>1, <2>2, <2>3, AmountAdds, BufferedAreWaiting
<1>3. ASSUME NEW c \in RspCell PROVE ResponseGrants[c] = 0 /\ ResponsesFlying[c] = 0
  <2>1. GrantsIn(<<>>, c) = 0 /\ GranulesIn(<<>>, c) = 0
    <3>1. <<>> \in Seq(RxFrame) /\ <<>> \in Seq(TxFrame)
      OBVIOUS
    <3> QED BY <3>1, FramesAreWeighed, GrantsOfFrames, GranulesOfFrames
  <2>2. InHand(c) = 0
    BY EmptyFrameTyped DEF Init, InHand, SpillsInto, NoSpill, NoMessage
  <2>3. linkRx = <<>> /\ linkTx = <<>> /\ Amount(c, 0) = 0
    BY AmountAdds DEF Init
  <2> QED BY <2>1, <2>2, <2>3, ResponsesAre
<1>4. ReqLoop!Init
  <2>1. /\ RequestGrants = [c \in ReqCell |-> 0] /\ RequestsFlying = [c \in ReqCell |-> 0]
        /\ RequestsBuffered = [c \in ReqCell |-> 0]
    BY <1>2 DEF RequestGrants, RequestsFlying, RequestsBuffered
  <2> QED BY <2>1, LoopCells DEF Init, ReqLoop!Init, ReqLoop!Nothing, NoGrant
<1>5. RspLoop!Init
  <2>1. /\ ResponseGrants = [c \in RspCell |-> 0] /\ ResponsesFlying = [c \in RspCell |-> 0]
    BY <1>3, ResponsesAre
  <2> QED BY <2>1, LoopCells DEF Init, RspLoop!Init, RspLoop!Nothing, NoGrant
<1> QED BY <1>4, <1>5

CreditInv == Typed /\ ReqLoop!Inv /\ RspLoop!Inv

LEMMA CreditsInitially == Init => CreditInv
BY InitTyped, LoopsInitially, LoopsAreCreditLoops, ReqLoop!InitInv, RspLoop!InitInv DEF CreditInv

LEMMA CreditsStep == CreditInv /\ [Next]_vars => CreditInv'
BY NextTyped, RequestStep, ResponseStep, LoopsAreCreditLoops, ReqLoop!NextInv, RspLoop!NextInv
   DEF CreditInv

LEMMA CreditInvariance == Spec => []CreditInv
BY CreditsInitially, CreditsStep, PTL DEF Spec

LEMMA SameRequestLoop ==
  /\ ReqLoop!Init => Request!Init
  /\ [ReqLoop!Next]_(ReqLoop!vars) => [Request!Next]_(Request!vars)
<1>1. ReqLoop!Init => Request!Init
  BY DEF ReqLoop!Init, Request!Init, ReqLoop!Nothing, Request!Nothing, ReqLoop!Cell,
     Request!Cell, ReqLoop!Rp, Request!Rp
<1>2. [ReqLoop!Next]_(ReqLoop!vars) => [Request!Next]_(Request!vars)
  BY DEF ReqLoop!Next, Request!Next, ReqLoop!vars, Request!vars,
     ReqLoop!TakeHeaderGrant, Request!TakeHeaderGrant, ReqLoop!TakeMiscGrants,
     Request!TakeMiscGrants, ReqLoop!Grant, Request!Grant, ReqLoop!Granted, Request!Granted,
     ReqLoop!Encoded, Request!Encoded, ReqLoop!SizesOf, Request!SizesOf, ReqLoop!GrantSizes,
     Request!GrantSizes, ReqLoop!InTurn, Request!InTurn, ReqLoop!Owes, Request!Owes,
     ReqLoop!Turns, Request!Turns, ReqLoop!AddTxCredit, Request!AddTxCredit, ReqLoop!Less,
     Request!Less, ReqLoop!Plus, Request!Plus, ReqLoop!AtMost, Request!AtMost,
     ReqLoop!Consume, Request!Consume, ReqLoop!Arrive, Request!Arrive,
     ReqLoop!ReturnRxCredit, Request!ReturnRxCredit, ReqLoop!Cell, Request!Cell,
     ReqLoop!Rp, Request!Rp
<1> QED BY <1>1, <1>2

LEMMA SameResponseLoop ==
  /\ RspLoop!Init => Response!Init
  /\ [RspLoop!Next]_(RspLoop!vars) => [Response!Next]_(Response!vars)
<1>1. RspLoop!Init => Response!Init
  BY DEF RspLoop!Init, Response!Init, RspLoop!Nothing, Response!Nothing, RspLoop!Cell,
     Response!Cell, RspLoop!Rp, Response!Rp
<1>2. [RspLoop!Next]_(RspLoop!vars) => [Response!Next]_(Response!vars)
  BY DEF RspLoop!Next, Response!Next, RspLoop!vars, Response!vars,
     RspLoop!TakeHeaderGrant, Response!TakeHeaderGrant, RspLoop!TakeMiscGrants,
     Response!TakeMiscGrants, RspLoop!Grant, Response!Grant, RspLoop!Granted, Response!Granted,
     RspLoop!Encoded, Response!Encoded, RspLoop!SizesOf, Response!SizesOf, RspLoop!GrantSizes,
     Response!GrantSizes, RspLoop!InTurn, Response!InTurn, RspLoop!Owes, Response!Owes,
     RspLoop!Turns, Response!Turns, RspLoop!AddTxCredit, Response!AddTxCredit, RspLoop!Less,
     Response!Less, RspLoop!Plus, Response!Plus, RspLoop!AtMost, Response!AtMost,
     RspLoop!Consume, Response!Consume, RspLoop!Arrive, Response!Arrive,
     RspLoop!ReturnRxCredit, Response!ReturnRxCredit, RspLoop!Cell, Response!Cell,
     RspLoop!Rp, Response!Rp
<1> QED BY <1>1, <1>2

\* The credits for requests go round between the initiator's CreditManager and
\* the target's as CreditLoop says, through receive, assemble, submit and transmit
\* (aou_target.h:104-170, 190-240): the abstract loop is implemented.
THEOREM RequestCreditsGoRound == Spec => KeepsRequestCredits
<1>1. Init => Request!Init
  BY LoopsInitially, SameRequestLoop
<1>2. CreditInv /\ [Next]_vars => [Request!Next]_(Request!vars)
  BY RequestStep, SameRequestLoop DEF CreditInv
<1> QED BY <1>1, <1>2, CreditInvariance, PTL DEF Spec, KeepsRequestCredits, Request!Spec

\* And so do those for responses, which the target pays before it packs a message,
\* however a frame cuts it.
THEOREM ResponseCreditsGoRound == Spec => KeepsResponseCredits
<1>1. Init => Response!Init
  BY LoopsInitially, SameResponseLoop
<1>2. CreditInv /\ [Next]_vars => [Response!Next]_(Response!vars)
  BY ResponseStep, SameResponseLoop DEF CreditInv
<1> QED BY <1>1, <1>2, CreditInvariance, PTL DEF Spec, KeepsResponseCredits, Response!Spec

-----------------------------------------------------------------------------
\* The transactions that are outstanding

RepliesLeft == SumFunction([c \in RspCell |-> Len(replies[c])])

Cut == IF LastMessageIsCut THEN 1 ELSE 0

OutstandingInv ==
  /\ outstanding = Len(tickets) + RepliesLeft + Cut
  /\ outstanding <= MaxOutstanding
  /\ spill.completes <=> LastMessageIsCut

LEMMA RspCellIsFinite == IsFiniteSet(RspCell)
<1>1. IsFiniteSet(Rp)
  <2>1. RpCount - 1 \in Int /\ 0 \in Int
    BY Constants
  <2>2. IsFiniteSet(0 .. RpCount - 1)
    BY <2>1, FS_Interval
  <2> QED BY <2>2 DEF Rp
<1>2. IsFiniteSet({"WriteResp", "ReadData"})
  <2>1. IsFiniteSet({} \cup {"WriteResp"})
    BY FS_EmptySet, FS_AddElement
  <2>2. IsFiniteSet(({} \cup {"WriteResp"}) \cup {"ReadData"})
    BY <2>1, FS_AddElement
  <2>3. {"WriteResp", "ReadData"} = ({} \cup {"WriteResp"}) \cup {"ReadData"}
    OBVIOUS
  <2> QED BY <2>2, <2>3
<1> QED BY <1>1, <1>2, FS_Product DEF RspCell, RspKind

LEMMA RepliesLeftIsNat ==
  /\ Typed => RepliesLeft \in Nat
  /\ \A d \in RspCell :
       Typed /\ Typed' /\ (\A c \in RspCell \ {d} : replies'[c] = replies[c])
         => RepliesLeft' = RepliesLeft - Len(replies[d]) + Len(replies'[d])
<1> DEFINE f == [c \in RspCell |-> Len(replies[c])]
           g == [c \in RspCell |-> Len(replies'[c])]
<1>1. RepliesLeft = SumFunction(f) /\ RepliesLeft' = SumFunction(g)
  BY DEF RepliesLeft
<1>2. Typed => f \in [RspCell -> Nat]
  <2> SUFFICES ASSUME Typed, NEW c \in RspCell PROVE Len(replies[c]) \in Nat
    OBVIOUS
  <2>1. replies[c] \in Seq(Reply)
    BY DEF Typed, RepliesTyped
  <2> QED BY <2>1
<1>3. Typed' => g \in [RspCell -> Nat]
  <2> SUFFICES ASSUME Typed', NEW c \in RspCell PROVE Len(replies'[c]) \in Nat
    OBVIOUS
  <2>1. replies'[c] \in Seq(Reply)
    BY DEF Typed, RepliesTyped
  <2> QED BY <2>1
<1>4. DOMAIN f = RspCell /\ DOMAIN g = RspCell
  OBVIOUS
<1>5. \A c \in RspCell : f[c] = Len(replies[c]) /\ g[c] = Len(replies'[c])
  OBVIOUS
<1> HIDE DEF f, g
<1>6. Typed => RepliesLeft \in Nat
  BY <1>1, <1>2, <1>4, RspCellIsFinite, SumOfNatIsNat
<1>7. ASSUME NEW d \in RspCell, Typed, Typed',
             \A c \in RspCell \ {d} : replies'[c] = replies[c]
      PROVE  RepliesLeft' = RepliesLeft - Len(replies[d]) + Len(replies'[d])
  <2>1. f \in [RspCell -> Int] /\ g \in [RspCell -> Int]
    BY <1>2, <1>3, <1>7
  <2>2. Numbers(f) /\ Numbers(g) /\ d \in DOMAIN f
    BY <1>4, <2>1, RspCellIsFinite DEF Numbers
  <2>3. \A x \in DOMAIN f : x # d => g[x] = f[x]
    BY <1>4, <1>5, <1>7
  <2>4. SumFunction(g) = SumFunction(f) - f[d] + g[d]
    BY <1>4, <2>2, <2>3, SumOfChanged
  <2> QED BY <1>1, <1>5, <2>4
<1> QED BY <1>6, <1>7

LEMMA OutstandingStays ==
  ASSUME OutstandingInv, UNCHANGED <<outstanding, tickets, replies, spill>>
  PROVE  OutstandingInv'
BY DEF OutstandingInv, RepliesLeft, Cut, LastMessageIsCut

LEMMA CollectKeepsCount ==
  ASSUME Typed, Typed', OutstandingInv, Collect
  PROVE  OutstandingInv'
<1>1. outstanding' = outstanding /\ spill' = spill
  BY DEF Collect, sendVars
<1>2. CASE UNCHANGED <<memRsp, tickets, replies>>
  BY <1>1, <1>2, OutstandingStays
<1>3. CASE memRsp # <<>> /\ CollectResponse(Head(memRsp))
  <2> DEFINE rsp == Head(memRsp)
             d == RspCellOf(rsp)
             n == TicketOf(rsp)
  <2>1. rsp \in Transaction
    BY <1>3, TailIsSeq DEF Typed, MemTyped
  <2>2. d \in RspCell
    BY <2>1 DEF Transaction, RspCellOf, RspCell, RspKind
  <2>3. /\ n # 0 /\ tickets' = RemoveAt(tickets, n)
        /\ replies' = [replies EXCEPT ![d] = Append(@, [n |-> rsp.n, beat |-> 1])]
    BY <1>3 DEF CollectResponse
  <2>4. n \in 1 .. Len(tickets)
    BY <2>3, FirstTicket
  <2>5. replies[d] \in Seq(Reply) /\ replies \in [RspCell -> Seq(Reply)]
    BY <2>2 DEF Typed, RepliesTyped
  <2>6. [n |-> rsp.n, beat |-> 1] \in Reply
    BY <2>1 DEF Transaction, Reply
  <2>7. tickets \in Seq(Transaction)
    BY DEF Typed, TicketsTyped
  <2> HIDE DEF rsp, d, n
  <2>8. Len(tickets') = Len(tickets) - 1 /\ Len(tickets) \in Nat
    BY <2>3, <2>4, <2>7, RemovedIsSeq
  <2>9. Len(replies'[d]) = Len(replies[d]) + 1 /\ Len(replies[d]) \in Nat
    <3>1. replies'[d] = Append(replies[d], [n |-> rsp.n, beat |-> 1])
      BY <2>2, <2>3, <2>5
    <3> QED BY <2>5, <2>6, <3>1, AppendIsSeq
  <2>10. \A c \in RspCell \ {d} : replies'[c] = replies[c]
    BY <2>3, <2>5
  <2>11. RepliesLeft' = RepliesLeft - Len(replies[d]) + Len(replies'[d]) /\ RepliesLeft \in Nat
    BY <2>2, <2>10, RepliesLeftIsNat
  <2>12. Cut' = Cut /\ LastMessageIsCut' = LastMessageIsCut /\ Cut \in Nat
    BY <1>1 DEF Cut, LastMessageIsCut
  <2>13. Len(tickets') + RepliesLeft' + Cut' = Len(tickets) + RepliesLeft + Cut
    <3> DEFINE t == Len(tickets)
               u == Len(tickets')
               r == Len(replies[d])
               q == Len(replies'[d])
    <3>1. u = t - 1 /\ t \in Nat /\ q = r + 1 /\ r \in Nat /\ RepliesLeft' = RepliesLeft - r + q
      BY <2>8, <2>9, <2>11
    <3> HIDE DEF t, u, r, q
    <3>2. RepliesLeft \in Nat
      BY <2>11
    <3>3. RepliesLeft' = RepliesLeft + 1
      BY <3>1, <3>2
    <3>4. Cut' = Cut /\ Cut \in Nat
      BY <2>12
    <3>5. u + RepliesLeft' + Cut' = t + RepliesLeft + Cut
      BY <3>1, <3>2, <3>3, <3>4
    <3> QED BY <3>5 DEF t, u
  <2>14. outstanding' = Len(tickets') + RepliesLeft' + Cut' /\ outstanding' <= MaxOutstanding
    BY <1>1, <2>13 DEF OutstandingInv
  <2>15. spill'.completes <=> LastMessageIsCut'
    BY <1>1, <2>12 DEF OutstandingInv
  <2> QED BY <2>14, <2>15 DEF OutstandingInv
<1> QED BY <1>2, <1>3 DEF Collect

LEMMA SubmitKeepsCount ==
  ASSUME Typed, OutstandingInv, Submit
  PROVE  OutstandingInv'
<1>1. replies' = replies /\ spill' = spill
  BY DEF Submit, sendVars
<1>2. CASE UNCHANGED <<memReq, tickets, outstanding, writes, reads, owed, nextSubmit>>
  BY <1>1, <1>2, OutstandingStays
<1>3. CASE /\ outstanding # MaxOutstanding
           /\ \E slot \in Slots : FirstReady(slot) /\ SubmitSlot(slot)
  <2>1. outstanding' = outstanding + 1 /\ \E t : tickets' = Append(tickets, t)
    BY <1>3 DEF SubmitSlot
  <2>2. Len(tickets') = Len(tickets) + 1 /\ Len(tickets) \in Nat
    BY <2>1 DEF Typed, TicketsTyped
  <2>3. RepliesLeft' = RepliesLeft /\ RepliesLeft \in Nat
    BY <1>1, RepliesLeftIsNat DEF RepliesLeft
  <2>4. Cut' = Cut /\ LastMessageIsCut' = LastMessageIsCut /\ Cut \in Nat
    BY <1>1 DEF Cut, LastMessageIsCut
  <2>5. outstanding \in Int /\ outstanding <= MaxOutstanding /\ MaxOutstanding \in Nat
    BY TargetAssumption DEF OutstandingInv, Typed, TicketsTyped
  <2>6. outstanding' <= MaxOutstanding
    BY <1>3, <2>1, <2>5
  <2>7. outstanding' = Len(tickets') + RepliesLeft' + Cut'
    BY <2>1, <2>2, <2>3, <2>4 DEF OutstandingInv
  <2> QED BY <1>1, <2>4, <2>6, <2>7 DEF OutstandingInv
<1> QED BY <1>2, <1>3 DEF Submit, MayNotSubmit

LEMMA TransmitKeepsCount ==
  ASSUME Typed, OutstandingInv, Transmit
  PROVE  OutstandingInv'
<1>1. replies' = replies /\ tickets' = tickets
  BY DEF Transmit
<1>2. CASE UNCHANGED <<frame, spill, outstanding>>
  BY <1>1, <1>2, OutstandingStays
<1>3. CASE ResumeSpill
  <2>1. RepliesLeft' = RepliesLeft /\ RepliesLeft \in Nat /\ Len(tickets) \in Nat
    BY <1>1, RepliesLeftIsNat DEF RepliesLeft, Typed, TicketsTyped
  <2>2. /\ outstanding \in Int /\ outstanding <= MaxOutstanding /\ MaxOutstanding \in Nat
        /\ spill \in SpillKept /\ spill.left \in Nat /\ FlitGranules \in Nat
    BY TargetAssumption, Constants
       DEF OutstandingInv, Typed, TicketsTyped, FrameTyped, SpillKept
  <2>3. CASE spill.left <= FlitGranules
    <3>1. /\ outstanding' = IF spill.completes THEN outstanding - 1 ELSE outstanding
          /\ spill' = NoSpill
      BY <1>3, <2>3 DEF ResumeSpill
    <3>2. Cut' = 0 /\ ~LastMessageIsCut' /\ ~spill'.completes
      BY <3>1 DEF Cut, LastMessageIsCut, NoSpill
    <3>3. CASE spill.completes
      <4>1. Cut = 1 /\ outstanding' = outstanding - 1
        BY <3>1, <3>3 DEF Cut, OutstandingInv
      <4>2. outstanding' = Len(tickets') + RepliesLeft' + Cut' /\ outstanding' <= MaxOutstanding
        BY <1>1, <2>1, <2>2, <3>2, <4>1 DEF OutstandingInv
      <4> QED BY <3>2, <4>2 DEF OutstandingInv
    <3>4. CASE ~spill.completes
      <4>1. Cut = 0 /\ outstanding' = outstanding
        BY <3>1, <3>4 DEF Cut, OutstandingInv
      <4>2. outstanding' = Len(tickets') + RepliesLeft' + Cut' /\ outstanding' <= MaxOutstanding
        BY <1>1, <2>1, <2>2, <3>2, <4>1 DEF OutstandingInv
      <4> QED BY <3>2, <4>2 DEF OutstandingInv
    <3> QED BY <3>3, <3>4
  <2>4. CASE ~(spill.left <= FlitGranules)
    <3>1. spill' = [spill EXCEPT !.left = @ - FlitGranules] /\ outstanding' = outstanding
      BY <1>3, <2>4 DEF ResumeSpill
    <3>2. /\ spill'.left > 0 /\ spill.left > 0 /\ spill'.cell = spill.cell
          /\ spill'.msg = spill.msg /\ spill'.completes = spill.completes
      BY <2>2, <2>4, <3>1 DEF SpillKept
    <3>3. LastMessageIsCut' = LastMessageIsCut
      BY <3>2 DEF LastMessageIsCut, LastBeat
    <3>4. Cut' = Cut
      BY <3>3 DEF Cut
    <3> QED BY <1>1, <2>1, <3>1, <3>2, <3>3, <3>4 DEF OutstandingInv
  <2> QED BY <2>3, <2>4
<1> QED BY <1>2, <1>3 DEF Transmit

LEMMA PackKeepsCount ==
  ASSUME Typed, Typed', OutstandingInv, Pack
  PROVE  OutstandingInv'
<1>1. PICK d \in RspCell : CanReply(d) /\ PackMessage(d)
  BY DEF Pack, NextMessage
<1> DEFINE reply == Head(replies[d])
           msg   == <<reply.n, reply.beat>>
           last  == LastBeat(d, reply)
           g     == Granules[d[2]]
           fits  == g <= FlitGranules - frame.used
<1>2. /\ replies' = [replies EXCEPT ![d] = RestOf(d)] /\ tickets' = tickets
      /\ fits => /\ outstanding' = (IF last THEN outstanding - 1 ELSE outstanding)
                 /\ spill' = spill
      /\ ~fits => /\ spill' = [cell |-> d, msg |-> msg, completes |-> last,
                               left |-> g - (FlitGranules - frame.used)]
                  /\ outstanding' = outstanding
  BY <1>1 DEF Pack, PackMessage, RestOf, RestOfReplies
<1>3. /\ RestOf(d) \in Seq(Reply) /\ reply \in Reply
      /\ last => Len(RestOf(d)) = Len(replies[d]) - 1
      /\ ~last => Len(RestOf(d)) = Len(replies[d])
  BY <1>1, RestIsSeq DEF CanReply
<1>4. replies \in [RspCell -> Seq(Reply)] /\ replies[d] \in Seq(Reply)
  BY DEF Typed, RepliesTyped
<1>5. Len(replies[d]) \in Nat
  BY <1>4
<1>6. RepliesLeft' = RepliesLeft - Len(replies[d]) + Len(RestOf(d)) /\ RepliesLeft \in Nat
  <2>1. replies'[d] = RestOf(d) /\ \A c \in RspCell \ {d} : replies'[c] = replies[c]
    BY <1>2, <1>4
  <2> QED BY <2>1, RepliesLeftIsNat
<1>7. /\ RepliesLeft \in Nat
      /\ last => RepliesLeft' = RepliesLeft - 1
      /\ ~last => RepliesLeft' = RepliesLeft
  BY <1>3, <1>5, <1>6
<1>8. /\ spill.left = 0 /\ frame.used \in Nat /\ FlitGranules \in Nat /\ g \in Nat
      /\ outstanding \in Int /\ outstanding <= MaxOutstanding /\ MaxOutstanding \in Nat
      /\ Len(tickets) \in Nat
  <2>1. FlitGranules \in Nat /\ g \in Nat /\ MaxOutstanding \in Nat
    BY Constants, TargetAssumption
  <2>2. spill.left = 0 /\ outstanding <= MaxOutstanding
    BY DEF Pack, HasRoom, OutstandingInv
  <2>3. frame \in FrameBuilt /\ tickets \in Seq(Transaction) /\ outstanding \in Int
    BY DEF Typed, FrameTyped, TicketsTyped
  <2>4. frame.used \in Nat
    BY <2>1, <2>3 DEF FrameBuilt
  <2>5. Len(tickets) \in Nat
    BY <2>3
  <2> QED BY <2>1, <2>2, <2>3, <2>4, <2>5
<1>9. ~LastMessageIsCut /\ Cut = 0
  BY <1>8 DEF LastMessageIsCut, Cut
<1>10. last <=> LastBeat(d, [n |-> msg[1], beat |-> msg[2]])
  <2>1. [n |-> msg[1], beat |-> msg[2]] = reply
    BY <1>3 DEF Reply
  <2> QED BY <2>1
<1> HIDE DEF reply, msg, last
<1>11. CASE fits
  <2>1. outstanding' = (IF last THEN outstanding - 1 ELSE outstanding) /\ spill' = spill
    BY <1>2, <1>11
  <2>2. Cut' = 0
    BY <1>9, <2>1 DEF LastMessageIsCut, Cut
  <2>6. spill'.completes <=> LastMessageIsCut'
    BY <2>1 DEF LastMessageIsCut, OutstandingInv
  <2>3. tickets' = tickets /\ outstanding = Len(tickets) + RepliesLeft
    BY <1>2, <1>7, <1>8, <1>9 DEF OutstandingInv
  <2>4. CASE last
    <3>1. outstanding' = outstanding - 1 /\ RepliesLeft' = RepliesLeft - 1
      BY <1>7, <2>1, <2>4
    <3>2. outstanding' = Len(tickets') + RepliesLeft' + Cut'
      BY <1>7, <1>8, <2>2, <2>3, <3>1
    <3>3. outstanding' <= MaxOutstanding
      BY <1>8, <3>1
    <3> QED BY <2>6, <3>2, <3>3 DEF OutstandingInv
  <2>5. CASE ~last
    <3>1. outstanding' = outstanding /\ RepliesLeft' = RepliesLeft
      BY <1>7, <2>1, <2>5
    <3>2. outstanding' = Len(tickets') + RepliesLeft' + Cut'
      BY <1>7, <1>8, <2>2, <2>3, <3>1
    <3>3. outstanding' <= MaxOutstanding
      BY <1>8, <3>1
    <3> QED BY <2>6, <3>2, <3>3 DEF OutstandingInv
  <2> QED BY <2>4, <2>5
<1>12. CASE ~fits
  <2>1. /\ spill'.left = g - (FlitGranules - frame.used) /\ spill'.cell = d
        /\ spill'.msg = msg /\ spill'.completes = last /\ outstanding' = outstanding
    BY <1>2, <1>12
  <2>2. spill'.left > 0
    BY <1>8, <1>12, <2>1
  <2>3. LastMessageIsCut' <=> last
    BY <1>10, <2>1, <2>2 DEF LastMessageIsCut, LastBeat
  <2>4. Cut' = (IF last THEN 1 ELSE 0)
    BY <2>3 DEF Cut
  <2>5. outstanding' = Len(tickets') + RepliesLeft' + Cut' /\ outstanding' <= MaxOutstanding
    BY <1>2, <1>6, <1>7, <1>8, <1>9, <2>1, <2>4 DEF OutstandingInv
  <2> QED BY <2>1, <2>3, <2>5 DEF OutstandingInv
<1> QED BY <1>11, <1>12

LEMMA OutstandingInitially == Init => OutstandingInv
<1> SUFFICES ASSUME Init PROVE OutstandingInv
  OBVIOUS
<1> DEFINE f == [c \in RspCell |-> Len(replies[c])]
<1>1. DOMAIN f = RspCell /\ \A c \in RspCell : f[c] = 0
  BY DEF Init, NoMessage
<1>2. SumFunction(f) = 0
  <2> HIDE DEF f
  <2> QED BY <1>1, RspCellIsFinite, SumOfZeros
<1>3. /\ outstanding = 0 /\ Len(tickets) = 0
      /\ Cut = 0 /\ ~LastMessageIsCut /\ ~spill.completes
  BY DEF Init, NoSpill, Cut, LastMessageIsCut
<1>4. MaxOutstanding \in Nat
  BY TargetAssumption
<1> QED BY <1>2, <1>3, <1>4 DEF OutstandingInv, RepliesLeft

LEMMA OutstandingStep == Typed /\ Typed' /\ OutstandingInv /\ [Next]_vars => OutstandingInv'
<1> SUFFICES ASSUME Typed, Typed', OutstandingInv, [Next]_vars PROVE OutstandingInv'
  OBVIOUS
<1>1. CASE PeerSend \/ PeerGrant \/ PeerReceive \/ PeerAccept
  <2>1. UNCHANGED targetVars
    BY <1>1, PeerSends DEF PeerSend, PeerGrant, PeerFrame, PeerReceive, PeerAccept
  <2> QED BY <2>1, OutstandingStays DEF targetVars, sendVars
<1>2. CASE MemTake \/ MemComplete
  BY <1>2, OutstandingStays DEF MemTake, MemComplete, targetVars, sendVars
<1>3. CASE Receive
  BY <1>3, OutstandingStays DEF Receive, sendVars
<1>4. CASE Assemble
  BY <1>4, OutstandingStays DEF Assemble, sendVars
<1>5. CASE Send
  BY <1>5, OutstandingStays DEF Send
<1>6. CASE UNCHANGED vars
  BY <1>6, OutstandingStays DEF vars, targetVars, sendVars
<1>7. CASE Collect
  BY <1>7, CollectKeepsCount
<1>8. CASE Submit
  BY <1>8, SubmitKeepsCount
<1>9. CASE Transmit
  BY <1>9, TransmitKeepsCount
<1>10. CASE Pack
  BY <1>10, PackKeepsCount
<1> QED BY <1>1, <1>2, <1>3, <1>4, <1>5, <1>6, <1>7, <1>8, <1>9, <1>10 DEF Next

LEMMA OutstandingInvariance == Spec => []OutstandingInv
<1>1. CreditInv => Typed
  BY DEF CreditInv
<1>2. OutstandingInv /\ Typed /\ Typed' /\ [Next]_vars => OutstandingInv'
  BY OutstandingStep
<1> QED BY <1>1, <1>2, OutstandingInitially, CreditInvariance, PTL DEF Spec

\* A slot is taken by exactly the transactions the memory has not answered, those
\* whose responses are not all in a frame and the one whose last response is cut:
\* no slot is freed twice or lost, however responses are cut (aou_target.h:157,
\* 218-238).
THEOREM OutstandingCountIsExact == Spec => []OutstandingIsExact
<1>1. OutstandingInv => OutstandingIsExact
  BY DEF OutstandingInv, OutstandingIsExact, RepliesLeft, Cut
<1> QED BY <1>1, OutstandingInvariance, PTL

-----------------------------------------------------------------------------
\* The queues

\* Requests that are paid for have a place: those that wait cost no more than the
\* capacity their credits come from.
LEMMA QueuesAreBounded ==
  ASSUME Typed, ReqLoop!Inv, NEW c \in ReqCell
  PROVE  Waiting(c) \in Nat /\ Waiting(c) * Granules[c[2]] <= Capacity[c]
<1>1. /\ owed[c] \in Nat /\ RequestGrants[c] \in Nat /\ reqCredit[c] \in Nat
      /\ RequestsFlying[c] \in Nat /\ RequestsBuffered[c] \in Nat /\ Capacity[c] \in Nat
      /\ owed[c] + RequestGrants[c] + reqCredit[c] + RequestsFlying[c]
           + RequestsBuffered[c] = Capacity[c]
  BY LoopsAreCreditLoops, LoopCells, ReqLoop!CellFacts
<1>2. RequestsBuffered[c] <= Capacity[c]
  BY <1>1
<1>3. RequestsBuffered[c] = Waiting(c) * Granules[c[2]]
  BY BufferedAreWaiting DEF Amount
<1> QED BY <1>2, <1>3, WaitingIsNat

LEMMA SlotsAreEnough ==
  ASSUME NEW n \in Nat, NEW g \in Nat \ {0}, NEW slots \in Nat, n * g <= slots * g
  PROVE  n <= slots
<1>1. SUFFICES ASSUME n >= slots + 1 PROVE FALSE
  OBVIOUS
<1>2. n * g >= (slots + 1) * g
  BY <1>1
<1>3. (slots + 1) * g = slots * g + g /\ slots * g \in Nat /\ n * g \in Nat
  OBVIOUS
<1> QED BY <1>2, <1>3

\* The queues of the target never hold more than they have credits for, and
\* the transactions on their way through the memory never more than its slots.
THEOREM QueuesStayInTheirBounds == Spec => []TypeOK
<1>1. CreditInv /\ OutstandingInv => TypeOK
  <2> SUFFICES ASSUME CreditInv, OutstandingInv PROVE TypeOK
    OBVIOUS
  <2>1. Typed /\ ReqLoop!Inv
    BY DEF CreditInv
  <2>2. ASSUME NEW rp \in Rp
        PROVE  /\ Len(writes[rp]) <= RequestSlots /\ Len(reads[rp]) <= RequestSlots
               /\ Len(data[rp]) * Granules["WriteData"] <= WDataCapacity
    <3> DEFINE w == <<rp, "WriteReq">>
               r == <<rp, "ReadReq">>
               d == <<rp, "WriteData">>
    <3>1. w \in ReqCell /\ r \in ReqCell /\ d \in ReqCell
      BY DEF ReqCell, ReqKind
    <3>2. /\ Waiting(w) = Len(writes[rp]) /\ Waiting(r) = Len(reads[rp])
          /\ Waiting(d) = Len(data[rp])
      BY DEF Waiting
    <3>3. /\ Capacity[w] = RequestSlots * Granules["WriteReq"]
          /\ Capacity[r] = RequestSlots * Granules["ReadReq"]
          /\ Capacity[d] = WDataCapacity
      BY <3>1 DEF Capacity
    <3>4. w[2] = "WriteReq" /\ r[2] = "ReadReq" /\ d[2] = "WriteData"
      OBVIOUS
    <3> HIDE DEF w, r, d
    <3>5. Granules["WriteReq"] \in Nat \ {0} /\ Granules["ReadReq"] \in Nat \ {0}
      BY <3>1, <3>4, Constants
    <3>6. RequestSlots \in Nat
      BY TargetAssumption
    <3>7. Len(writes[rp]) <= RequestSlots
      BY <2>1, <3>1, <3>2, <3>3, <3>4, <3>5, <3>6, QueuesAreBounded, SlotsAreEnough
    <3>8. Len(reads[rp]) <= RequestSlots
      BY <2>1, <3>1, <3>2, <3>3, <3>4, <3>5, <3>6, QueuesAreBounded, SlotsAreEnough
    <3>9. Len(data[rp]) * Granules["WriteData"] <= WDataCapacity
      BY <2>1, <3>1, <3>2, <3>3, <3>4, QueuesAreBounded
    <3> QED BY <3>7, <3>8, <3>9
  <2>3. \A rp \in Rp : data[rp] \in Seq(Message)
    BY <2>1 DEF Typed, JobsTyped
  <2>4. outstanding \in 0 .. MaxOutstanding
    <3>1. Len(tickets) \in Nat /\ MaxOutstanding \in Nat
      BY <2>1, TargetAssumption DEF Typed, TicketsTyped
    <3>2. RepliesLeft \in Nat /\ Cut \in Nat
      BY <2>1, RepliesLeftIsNat DEF Cut
    <3> HIDE DEF OutstandingInv
    <3>3. outstanding = Len(tickets) + RepliesLeft + Cut /\ outstanding <= MaxOutstanding
      BY DEF OutstandingInv
    <3> QED BY <3>1, <3>2, <3>3
  <2>5. phase \in {"receive", "collect", "assemble", "submit", "transmit", "pack"}
    BY <2>1 DEF Typed, PhaseTyped
  <2>6. spill.left \in Nat /\ frame.used \in 0 .. FlitGranules
    BY <2>1 DEF Typed, FrameTyped, SpillKept, FrameBuilt
  <2>7. /\ tickets \in Seq(Transaction) /\ nextSubmit \in Slots
        /\ memory \in Seq(Transaction)
        /\ memReq \in Seq(Transaction) /\ Len(memReq) <= MemDepth
        /\ memRsp \in Seq(Transaction) /\ Len(memRsp) <= MemDepth
        /\ nextReply \in Rp /\ Len(linkTx) <= LinkDepth /\ Len(linkRx) <= LinkDepth
    BY <2>1 DEF Typed, TicketsTyped, MemTyped, RepliesTyped, RxTyped, TxTyped
  <2> QED BY <2>2, <2>3, <2>4, <2>5, <2>6, <2>7 DEF TypeOK
<1> QED BY <1>1, CreditInvariance, OutstandingInvariance, PTL
-----------------------------------------------------------------------------
\* The stream of a cell

\* The frames on the link carry the messages of a cell from one place of its
\* program to the next: frame i begins behind message off[i].
Carries(c, off) ==
  /\ off \in [1 .. Len(linkRx) + 1 -> 0 .. issued[c]]
  /\ off[Len(linkRx) + 1] = issued[c]
  /\ \A i \in DOMAIN linkRx :
       /\ off[i + 1] = off[i] + Len(linkRx[i].messages[c])
       /\ \A k \in DOMAIN linkRx[i].messages[c] :
            linkRx[i].messages[c][k] = Program(c)[off[i] + k]

\* The target has taken the first n messages of a cell; the rest of those that
\* were issued are on the link.
Taken(c, n) == \E off : Carries(c, off) /\ off[1] = n

LEMMA PartOfSeq ==
  ASSUME NEW S, NEW s \in Seq(S), NEW i \in Nat, NEW n \in Nat, i + n <= Len(s)
  PROVE  /\ Len(SubSeq(s, i + 1, i + n)) = n
         /\ DOMAIN SubSeq(s, i + 1, i + n) = 1 .. n
         /\ \A k \in 1 .. n : SubSeq(s, i + 1, i + n)[k] = s[i + k]
OBVIOUS

LEMMA TakenInitially ==
  ASSUME Init, NEW c \in ReqCell
  PROVE  Taken(c, 0)
<1> DEFINE off == [i \in 1 .. 1 |-> 0]
<1>1. linkRx = <<>> /\ issued[c] = 0 /\ Len(linkRx) = 0 /\ DOMAIN linkRx = {}
  BY DEF Init, NoGrant
<1>2. off \in [1 .. Len(linkRx) + 1 -> 0 .. issued[c]] /\ off[1] = 0
  BY <1>1
<1> HIDE DEF off
<1>3. Carries(c, off)
  BY <1>1, <1>2 DEF Carries
<1> QED BY <1>2, <1>3 DEF Taken

\* What has been taken is part of what was issued, and that of the program.
LEMMA TakenIsIssued ==
  ASSUME Typed, NEW c \in ReqCell, NEW n, Taken(c, n)
  PROVE  n \in Nat /\ n <= issued[c] /\ issued[c] \in Nat /\ issued[c] <= Len(Program(c))
<1>1. PICK off : Carries(c, off) /\ off[1] = n
  BY DEF Taken
<1>2. Len(linkRx) \in Nat /\ issued[c] \in Nat /\ issued[c] <= Len(Program(c))
  BY DEF Typed, RxTyped, PeerTyped
<1>3. off[1] \in 0 .. issued[c]
  BY <1>1, <1>2 DEF Carries
<1> QED BY <1>1, <1>2, <1>3

LEMMA TakenStays ==
  ASSUME NEW c \in ReqCell, NEW n, Taken(c, n), UNCHANGED <<linkRx, issued>>
  PROVE  Taken(c, n)'
BY DEF Taken, Carries

\* Another frame takes up where the last one ended.
LEMMA SentFollow ==
  ASSUME Typed, NEW batch, Sendable(batch), NEW grant \in [RspCell -> Nat],
         PeerFrame(batch, grant), NEW c \in ReqCell, NEW n, Taken(c, n)
  PROVE  Taken(c, n)'
<1> DEFINE len == Len(linkRx)
           f   == SentFrame(batch, grant)
           b   == batch[c]
<1>1. PICK off : Carries(c, off) /\ off[1] = n
  BY DEF Taken
<1>2. linkRx \in Seq(RxFrame) /\ len \in Nat /\ DOMAIN linkRx = 1 .. len
  BY DEF Typed, RxTyped
<1>3. f \in RxFrame
  BY SentFrameTyped DEF Typed
<1>4. /\ issued[c] \in Nat /\ b \in Nat /\ issued[c] + b <= Len(Program(c))
      /\ Program(c) \in Seq(Message)
  BY ProgramIsSeq DEF Typed, PeerTyped, Sendable
<1>5. /\ Len(f.messages[c]) = b /\ DOMAIN f.messages[c] = 1 .. b
      /\ \A k \in 1 .. b : f.messages[c][k] = Program(c)[issued[c] + k]
  <2>1. f.messages[c] = SubSeq(Program(c), issued[c] + 1, issued[c] + b)
    BY DEF SentFrame
  <2> DEFINE q == Program(c)
             x == issued[c]
  <2>2. q \in Seq(Message) /\ x \in Nat /\ b \in Nat /\ x + b <= Len(q)
    BY <1>4
  <2> HIDE DEF q, x, b, f
  <2>3. /\ Len(SubSeq(q, x + 1, x + b)) = b /\ DOMAIN SubSeq(q, x + 1, x + b) = 1 .. b
        /\ \A k \in 1 .. b : SubSeq(q, x + 1, x + b)[k] = q[x + k]
    BY <2>2, PartOfSeq
  <2>4. f.messages[c] = SubSeq(q, x + 1, x + b)
    BY <2>1 DEF q, x
  <2> QED BY <2>3, <2>4 DEF q, x
<1>6. linkRx' = Append(linkRx, f) /\ issued'[c] = issued[c] + b
  BY DEF PeerFrame, SentFrame
<1> HIDE DEF f, b
<1>7. /\ Len(linkRx') = len + 1 /\ linkRx'[len + 1] = f /\ DOMAIN linkRx' = 1 .. len + 1
      /\ \A i \in 1 .. len : linkRx'[i] = linkRx[i]
  BY <1>2, <1>3, <1>6, AppendIsSeq
<1> HIDE DEF len
<1>8. /\ off \in [1 .. len + 1 -> 0 .. issued[c]] /\ off[len + 1] = issued[c]
      /\ \A i \in 1 .. len :
           /\ off[i + 1] = off[i] + Len(linkRx[i].messages[c])
           /\ \A k \in DOMAIN linkRx[i].messages[c] :
                linkRx[i].messages[c][k] = Program(c)[off[i] + k]
  BY <1>1, <1>2 DEF Carries, len
<1>9. PICK new : /\ new \in [1 .. len + 2 -> 0 .. issued'[c]] /\ new[len + 2] = issued'[c]
                 /\ \A i \in 1 .. len + 1 : new[i] = off[i]
  <2> DEFINE g == [i \in 1 .. len + 2 |-> IF i = len + 2 THEN issued'[c] ELSE off[i]]
  <2>1. /\ g \in [1 .. len + 2 -> 0 .. issued'[c]] /\ g[len + 2] = issued'[c]
        /\ \A i \in 1 .. len + 1 : g[i] = off[i]
    BY <1>2, <1>4, <1>6, <1>8
  <2> HIDE DEF g
  <2> QED BY <2>1
<1>10. ASSUME NEW i \in 1 .. len + 1
       PROVE  /\ new[i + 1] = new[i] + Len(linkRx'[i].messages[c])
              /\ \A k \in DOMAIN linkRx'[i].messages[c] :
                   linkRx'[i].messages[c][k] = Program(c)[new[i] + k]
  <2>1. CASE i = len + 1
    <3>1. new[i] = issued[c] /\ new[i + 1] = issued'[c] /\ linkRx'[i] = f
      BY <1>2, <1>7, <1>8, <1>9, <2>1
    <3> QED BY <1>5, <1>6, <3>1
  <2>2. CASE i \in 1 .. len
    <3>1. i \in 1 .. len + 1 /\ i + 1 \in 1 .. len + 1
      BY <1>2, <2>2
    <3>2. new[i] = off[i] /\ new[i + 1] = off[i + 1]
      BY <1>9, <3>1
    <3>3. linkRx'[i] = linkRx[i]
      BY <1>7, <2>2
    <3> QED BY <1>8, <2>2, <3>2, <3>3
  <2> QED BY <1>2, <2>1, <2>2
<1>11. Program(c)' = Program(c)
  BY DEF Program, BurstOf
<1>12. Carries(c, new)'
  <2>1. Len(linkRx') + 1 = len + 2
    BY <1>2, <1>7
  <2> QED BY <1>7, <1>9, <1>10, <1>11, <2>1 DEF Carries
<1>13. new[1] = n
  BY <1>1, <1>2, <1>9
<1> QED BY <1>12, <1>13 DEF Taken

\* The first frame takes the next messages of the program.
LEMMA FirstIsTaken ==
  ASSUME Typed, linkRx # <<>>, linkRx' = Tail(linkRx), issued' = issued,
         NEW c \in ReqCell, NEW n, Taken(c, n)
  PROVE  LET msgs == Head(linkRx).messages[c] IN
         /\ msgs \in Seq(Message) /\ Len(msgs) \in Nat
         /\ \A m : m = n + Len(msgs) => Taken(c, m)' /\ m \in Nat /\ m <= issued[c]
         /\ \A k \in 1 .. Len(msgs) : msgs[k] = Program(c)[n + k]
<1> DEFINE len  == Len(linkRx)
           msgs == Head(linkRx).messages[c]
<1>1. PICK off : Carries(c, off) /\ off[1] = n
  BY DEF Taken
<1>2. /\ linkRx \in Seq(RxFrame) /\ len \in Nat \ {0} /\ DOMAIN linkRx = 1 .. len
      /\ Head(linkRx) = linkRx[1] /\ Head(linkRx) \in RxFrame
      /\ Len(linkRx') = len - 1 /\ DOMAIN linkRx' = 1 .. len - 1
      /\ \A i \in 1 .. len - 1 : linkRx'[i] = linkRx[i + 1]
  <2>1. linkRx \in Seq(RxFrame)
    BY DEF Typed, RxTyped
  <2> QED BY <2>1, TailIsSeq
<1>3. msgs \in Seq(Message) /\ Len(msgs) \in Nat /\ DOMAIN msgs = 1 .. Len(msgs)
  <2>1. msgs \in Seq(Message)
    BY <1>2 DEF RxFrame
  <2> QED BY <2>1
<1> HIDE DEF len
<1>4. /\ off \in [1 .. len + 1 -> 0 .. issued[c]] /\ off[len + 1] = issued[c]
      /\ \A i \in 1 .. len :
           /\ off[i + 1] = off[i] + Len(linkRx[i].messages[c])
           /\ \A k \in DOMAIN linkRx[i].messages[c] :
                linkRx[i].messages[c][k] = Program(c)[off[i] + k]
  BY <1>1, <1>2 DEF Carries, len
<1>5. /\ off[2] = n + Len(msgs)
      /\ \A k \in 1 .. Len(msgs) : msgs[k] = Program(c)[n + k]
  <2>1. 1 \in 1 .. len /\ 1 + 1 = 2
    BY <1>2
  <2> QED BY <1>1, <1>2, <1>3, <1>4, <2>1
<1> HIDE DEF msgs
<1>6. PICK new : /\ new \in [1 .. len -> 0 .. issued[c]] /\ new[len] = issued[c]
                 /\ \A i \in 1 .. len : new[i] = off[i + 1]
  <2> DEFINE g == [i \in 1 .. len |-> off[i + 1]]
  <2>1. /\ g \in [1 .. len -> 0 .. issued[c]] /\ g[len] = issued[c]
        /\ \A i \in 1 .. len : g[i] = off[i + 1]
    BY <1>2, <1>4
  <2> HIDE DEF g
  <2> QED BY <2>1
<1>7. ASSUME NEW i \in 1 .. len - 1
      PROVE  /\ new[i + 1] = new[i] + Len(linkRx'[i].messages[c])
             /\ \A k \in DOMAIN linkRx'[i].messages[c] :
                  linkRx'[i].messages[c][k] = Program(c)[new[i] + k]
  <2>1. i + 1 \in 1 .. len /\ i \in 1 .. len
    BY <1>2
  <2>2. new[i] = off[i + 1] /\ new[i + 1] = off[(i + 1) + 1] /\ linkRx'[i] = linkRx[i + 1]
    BY <1>2, <1>6, <2>1
  <2> QED BY <1>4, <2>1, <2>2
<1>8. Program(c)' = Program(c)
  BY DEF Program, BurstOf
<1>9. Carries(c, new)'
  <2>1. Len(linkRx') + 1 = len
    BY <1>2
  <2> QED BY <1>2, <1>6, <1>7, <1>8, <2>1 DEF Carries
<1>10. new[1] = n + Len(msgs)
  <2>1. 1 \in 1 .. len
    BY <1>2
  <2>2. new[1] = off[2]
    BY <1>6, <2>1
  <2> QED BY <1>5, <2>2
<1>11. ASSUME NEW m, m = n + Len(msgs)
       PROVE  Taken(c, m)' /\ m \in Nat /\ m <= issued[c]
  <2>1. new[1] = m
    BY <1>10, <1>11
  <2>2. Taken(c, m)'
    BY <1>9, <2>1 DEF Taken
  <2>3. m \in 0 .. issued[c] /\ issued[c] \in Nat
    <3>1. 1 \in 1 .. len /\ issued[c] \in Nat
      BY <1>2 DEF Typed, PeerTyped
    <3> QED BY <1>6, <2>1, <3>1
  <2> QED BY <2>2, <2>3
<1> QED BY <1>3, <1>5, <1>11 DEF msgs

-----------------------------------------------------------------------------
\* Queues: their elements, and those of one group in order

Elements(q) == {q[i] : i \in DOMAIN q}

LEMMA AppendedElements ==
  ASSUME NEW S, NEW q \in Seq(S), NEW x \in S
  PROVE  Elements(Append(q, x)) = Elements(q) \cup {x}
<1>1. /\ Len(Append(q, x)) = Len(q) + 1 /\ Len(q) \in Nat /\ Append(q, x)[Len(q) + 1] = x
      /\ \A i \in 1 .. Len(q) : Append(q, x)[i] = q[i]
      /\ DOMAIN q = 1 .. Len(q) /\ DOMAIN Append(q, x) = 1 .. Len(q) + 1
  BY AppendIsSeq
<1> DEFINE r == Append(q, x)
<1>2. Elements(r) \subseteq Elements(q) \cup {x}
  <2> SUFFICES ASSUME NEW i \in 1 .. Len(q) + 1 PROVE r[i] \in Elements(q) \cup {x}
    BY <1>1 DEF Elements
  <2>1. CASE i = Len(q) + 1
    BY <1>1, <2>1
  <2>2. CASE i \in 1 .. Len(q)
    BY <1>1, <2>2 DEF Elements
  <2> QED BY <1>1, <2>1, <2>2
<1>3. x \in Elements(r)
  <2>1. Len(q) + 1 \in DOMAIN r
    BY <1>1
  <2> QED BY <1>1, <2>1 DEF Elements
<1>4. Elements(q) \subseteq Elements(r)
  <2> SUFFICES ASSUME NEW i \in 1 .. Len(q) PROVE q[i] \in Elements(r)
    BY <1>1 DEF Elements
  <2>1. i \in DOMAIN r /\ r[i] = q[i]
    BY <1>1
  <2> QED BY <2>1 DEF Elements
<1> QED BY <1>2, <1>3, <1>4

LEMMA TailElements ==
  ASSUME NEW S, NEW q \in Seq(S), q # <<>>
  PROVE  Elements(q) = {Head(q)} \cup Elements(Tail(q))
<1>1. /\ Len(q) \in Nat \ {0} /\ Head(q) = q[1] /\ Len(Tail(q)) = Len(q) - 1
      /\ \A i \in 1 .. Len(q) - 1 : Tail(q)[i] = q[i + 1]
      /\ DOMAIN q = 1 .. Len(q) /\ DOMAIN Tail(q) = 1 .. Len(q) - 1
  BY TailIsSeq
<1> DEFINE r == Tail(q)
<1>2. Elements(q) \subseteq {Head(q)} \cup Elements(r)
  <2> SUFFICES ASSUME NEW i \in 1 .. Len(q) PROVE q[i] \in {Head(q)} \cup Elements(r)
    BY <1>1 DEF Elements
  <2>1. CASE i = 1
    BY <1>1, <2>1
  <2>2. CASE i # 1
    <3>1. i - 1 \in DOMAIN r /\ r[i - 1] = q[i]
      BY <1>1, <2>2
    <3> QED BY <3>1 DEF Elements
  <2> QED BY <2>1, <2>2
<1>3. Head(q) \in Elements(q)
  <2>1. 1 \in DOMAIN q
    BY <1>1
  <2> QED BY <1>1, <2>1 DEF Elements
<1>4. Elements(r) \subseteq Elements(q)
  <2> SUFFICES ASSUME NEW i \in 1 .. Len(q) - 1 PROVE r[i] \in Elements(q)
    BY <1>1 DEF Elements
  <2>1. i + 1 \in DOMAIN q /\ r[i] = q[i + 1]
    BY <1>1
  <2> QED BY <2>1 DEF Elements
<1> QED BY <1>2, <1>3, <1>4

LEMMA JoinedPlaces ==
  ASSUME NEW S, NEW a \in Seq(S), NEW b \in Seq(S)
  PROVE  /\ Len(a) \in Nat /\ Len(b) \in Nat /\ Len(a \o b) = Len(a) + Len(b)
         /\ DOMAIN (a \o b) = 1 .. Len(a) + Len(b)
         /\ \A j \in 1 .. Len(a) : (a \o b)[j] = a[j]
         /\ \A j \in 1 .. Len(b) : (a \o b)[Len(a) + j] = b[j]
OBVIOUS

LEMMA RemovedPlaces ==
  ASSUME NEW S, NEW q \in Seq(S), NEW i \in 1 .. Len(q)
  PROVE  /\ DOMAIN q = 1 .. Len(q) /\ Len(q) \in Nat
         /\ DOMAIN RemoveAt(q, i) = 1 .. Len(q) - 1
         /\ \A j \in 1 .. Len(q) - 1 :
              RemoveAt(q, i)[j] = q[IF j < i THEN j ELSE j + 1]
<1> DEFINE a == SubSeq(q, 1, i - 1)
           b == SubSeq(q, i + 1, Len(q))
           len == Len(q)
<1>1. /\ a \in Seq(S) /\ Len(a) = i - 1 /\ \A j \in 1 .. i - 1 : a[j] = q[j]
      /\ b \in Seq(S) /\ Len(b) = len - i /\ \A j \in 1 .. len - i : b[j] = q[i + j]
      /\ len \in Nat /\ DOMAIN q = 1 .. len
  OBVIOUS
<1>2. RemoveAt(q, i) = a \o b
  BY DEF RemoveAt
<1> HIDE DEF a, b, len
<1>3. /\ DOMAIN (a \o b) = 1 .. (i - 1) + (len - i)
      /\ \A j \in 1 .. i - 1 : (a \o b)[j] = a[j]
      /\ \A j \in 1 .. len - i : (a \o b)[(i - 1) + j] = b[j]
  <2>1. a \in Seq(S) /\ b \in Seq(S)
    BY <1>1
  <2>2. /\ DOMAIN (a \o b) = 1 .. Len(a) + Len(b)
        /\ \A j \in 1 .. Len(a) : (a \o b)[j] = a[j]
        /\ \A j \in 1 .. Len(b) : (a \o b)[Len(a) + j] = b[j]
    BY <2>1, JoinedPlaces
  <2>3. Len(a) = i - 1 /\ Len(b) = len - i
    BY <1>1
  <2> QED BY <2>2, <2>3
<1>4. (i - 1) + (len - i) = len - 1 /\ i \in 1 .. len
  BY <1>1 DEF len
<1>5. ASSUME NEW j \in 1 .. len - 1
      PROVE  (a \o b)[j] = q[IF j < i THEN j ELSE j + 1]
  <2>2. CASE j < i
    <3>1. j \in 1 .. i - 1
      BY <1>1, <1>4, <2>2
    <3> QED BY <1>1, <1>3, <2>2, <3>1
  <2>3. CASE ~(j < i)
    <3>1. /\ j - (i - 1) \in 1 .. len - i /\ i + (j - (i - 1)) = j + 1
          /\ (i - 1) + (j - (i - 1)) = j
      BY <1>1, <1>4, <2>3
    <3> DEFINE k == j - (i - 1)
    <3>2. (a \o b)[(i - 1) + k] = b[k] /\ b[k] = q[i + k]
      BY <1>1, <1>3, <3>1
    <3>3. (a \o b)[j] = q[j + 1]
      BY <3>1, <3>2
    <3> QED BY <2>3, <3>3
  <2> QED BY <2>2, <2>3
<1> QED BY <1>1, <1>2, <1>3, <1>4, <1>5 DEF len

LEMMA RemovedElements ==
  ASSUME NEW S, NEW q \in Seq(S), NEW i \in 1 .. Len(q)
  PROVE  Elements(q) = {q[i]} \cup Elements(RemoveAt(q, i))
<1> DEFINE len == Len(q)
           r   == RemoveAt(q, i)
<1>1. /\ DOMAIN q = 1 .. len /\ len \in Nat /\ DOMAIN r = 1 .. len - 1 /\ i \in 1 .. len
      /\ \A j \in 1 .. len - 1 : r[j] = q[IF j < i THEN j ELSE j + 1]
  BY RemovedPlaces
<1> HIDE DEF len, r
<1>2. Elements(q) \subseteq {q[i]} \cup Elements(r)
  <2> SUFFICES ASSUME NEW k \in 1 .. len PROVE q[k] \in {q[i]} \cup Elements(r)
    BY <1>1 DEF Elements
  <2>1. CASE k < i
    <3>1. k \in 1 .. len - 1 /\ r[k] = q[k]
      BY <1>1, <2>1
    <3> QED BY <1>1, <3>1 DEF Elements
  <2>2. CASE k > i
    <3>1. k - 1 \in 1 .. len - 1 /\ ~(k - 1 < i) /\ (k - 1) + 1 = k
      BY <1>1, <2>2
    <3>2. r[k - 1] = q[k]
      BY <1>1, <3>1
    <3> QED BY <1>1, <3>1, <3>2 DEF Elements
  <2> QED BY <1>1, <2>1, <2>2
<1>3. q[i] \in Elements(q)
  BY <1>1 DEF Elements
<1>4. Elements(r) \subseteq Elements(q)
  <2> SUFFICES ASSUME NEW j \in 1 .. len - 1 PROVE r[j] \in Elements(q)
    BY <1>1 DEF Elements
  <2>1. j \in DOMAIN q /\ j + 1 \in DOMAIN q /\ (r[j] = q[j] \/ r[j] = q[j + 1])
    BY <1>1
  <2> QED BY <2>1 DEF Elements
<1> QED BY <1>2, <1>3, <1>4 DEF r

\* Of one group, the one was sent before the other.
Earlier(t, u) == Group(t) = Group(u) => t.n < u.n

Ordered(q) == \A i, j \in DOMAIN q : i < j => Earlier(q[i], q[j])

Ahead(p, q) == \A t \in Elements(p), u \in Elements(q) : Earlier(t, u)

LEMMA ElementsAreTyped ==
  ASSUME NEW S, NEW q \in Seq(S)
  PROVE  Elements(q) \subseteq S
<1> SUFFICES ASSUME NEW i \in DOMAIN q PROVE q[i] \in S
  BY DEF Elements
<1> QED OBVIOUS

LEMMA NotEarlier ==
  ASSUME NEW t \in Transaction, NEW u \in Transaction, Group(t) = Group(u), Earlier(t, u)
  PROVE  t.n < u.n /\ t # u /\ ~Earlier(u, t)
<1>1. t.n \in Nat /\ u.n \in Nat
  BY DEF Transaction
<1> QED BY <1>1 DEF Earlier

LEMMA AppendedOrdered ==
  ASSUME NEW S, NEW q \in Seq(S), NEW x \in S, Ordered(q), \A t \in Elements(q) : Earlier(t, x)
  PROVE  Ordered(Append(q, x))
<1> DEFINE r == Append(q, x)
           len == Len(q)
<1>1. /\ len \in Nat /\ r[len + 1] = x /\ \A i \in 1 .. len : r[i] = q[i]
      /\ DOMAIN q = 1 .. len /\ DOMAIN r = 1 .. len + 1
  BY AppendIsSeq
<1> HIDE DEF r, len
<1> SUFFICES ASSUME NEW i \in 1 .. len + 1, NEW j \in 1 .. len + 1, i < j
             PROVE  Earlier(r[i], r[j])
  BY <1>1 DEF Ordered, r
<1>2. i \in 1 .. len /\ r[i] = q[i] /\ q[i] \in Elements(q)
  BY <1>1 DEF Elements
<1>3. CASE j = len + 1
  BY <1>1, <1>2, <1>3
<1>4. CASE j \in 1 .. len
  BY <1>1, <1>2, <1>4 DEF Ordered
<1> QED BY <1>1, <1>3, <1>4

LEMMA TailOrdered ==
  ASSUME NEW S, NEW q \in Seq(S), q # <<>>, Ordered(q)
  PROVE  Ordered(Tail(q)) /\ \A u \in Elements(Tail(q)) : Earlier(Head(q), u)
<1> DEFINE r == Tail(q)
           len == Len(q)
<1>1. /\ len \in Nat \ {0} /\ Head(q) = q[1] /\ \A i \in 1 .. len - 1 : r[i] = q[i + 1]
      /\ DOMAIN q = 1 .. len /\ DOMAIN r = 1 .. len - 1
  BY TailIsSeq
<1> HIDE DEF r, len
<1>2. ASSUME NEW i \in 1 .. len - 1, NEW j \in 1 .. len - 1, i < j
      PROVE  Earlier(r[i], r[j])
  <2>1. i + 1 \in DOMAIN q /\ j + 1 \in DOMAIN q /\ i + 1 < j + 1
    BY <1>1, <1>2
  <2> QED BY <1>1, <2>1 DEF Ordered
<1>3. ASSUME NEW i \in 1 .. len - 1 PROVE Earlier(Head(q), r[i])
  <2>1. 1 \in DOMAIN q /\ i + 1 \in DOMAIN q /\ 1 < i + 1
    BY <1>1
  <2> QED BY <1>1, <2>1 DEF Ordered
<1>4. Ordered(r)
  BY <1>1, <1>2 DEF Ordered
<1>5. \A u \in Elements(r) : Earlier(Head(q), u)
  BY <1>1, <1>3 DEF Elements
<1> QED BY <1>4, <1>5 DEF r

\* The first of its group can be taken out from anywhere.
LEMMA RemovedOrdered ==
  ASSUME NEW q \in Seq(Transaction), NEW i \in 1 .. Len(q), Ordered(q)
  PROVE  /\ Ordered(RemoveAt(q, i))
         /\ q[i] \notin Elements(RemoveAt(q, i))
         /\ (\A j \in 1 .. i - 1 : Group(q[j]) # Group(q[i]))
              => \A u \in Elements(RemoveAt(q, i)) : Earlier(q[i], u)
<1> DEFINE len == Len(q)
           r   == RemoveAt(q, i)
           at(j) == IF j < i THEN j ELSE j + 1
<1>1. /\ DOMAIN q = 1 .. len /\ len \in Nat /\ DOMAIN r = 1 .. len - 1 /\ i \in 1 .. len
      /\ \A j \in 1 .. len - 1 : r[j] = q[at(j)]
  BY RemovedPlaces
<1>2. \A j \in 1 .. len - 1 : at(j) \in 1 .. len /\ at(j) # i
  BY <1>1
<1>3. \A j, k \in 1 .. len - 1 : j < k => at(j) < at(k)
  BY <1>1
<1> HIDE DEF len, r
<1>4. ASSUME NEW j \in 1 .. len - 1, NEW k \in 1 .. len - 1, j < k
      PROVE  Earlier(r[j], r[k])
  <2>1. at(j) \in DOMAIN q /\ at(k) \in DOMAIN q /\ at(j) < at(k)
    BY <1>1, <1>2, <1>3, <1>4
  <2> HIDE DEF at
  <2> QED BY <1>1, <2>1 DEF Ordered
<1>5. \A j \in DOMAIN q : q[j] \in Transaction
  OBVIOUS
<1>6. ASSUME NEW j \in 1 .. len - 1 PROVE q[at(j)] # q[i]
  <2>1. at(j) \in DOMAIN q /\ i \in DOMAIN q /\ (at(j) < i \/ i < at(j))
    BY <1>1, <1>2
  <2> HIDE DEF at
  <2>2. Earlier(q[at(j)], q[i]) \/ Earlier(q[i], q[at(j)])
    BY <2>1 DEF Ordered
  <2>3. ASSUME q[at(j)] = q[i] PROVE FALSE
    BY <1>5, <2>1, <2>2, <2>3, NotEarlier
  <2> QED BY <2>3
<1>7. ASSUME \A j \in 1 .. i - 1 : Group(q[j]) # Group(q[i]), NEW j \in 1 .. len - 1
      PROVE  Earlier(q[i], q[at(j)])
  <2>1. CASE j < i
    <3>1. at(j) = j /\ j \in 1 .. i - 1
      BY <1>1, <2>1
    <3> QED BY <1>7, <3>1 DEF Earlier
  <2>2. CASE ~(j < i)
    <3>1. at(j) \in DOMAIN q /\ i \in DOMAIN q /\ i < at(j)
      BY <1>1, <1>2, <2>2
    <3> HIDE DEF at
    <3> QED BY <3>1 DEF Ordered
  <2> QED BY <2>1, <2>2
<1> HIDE DEF at
<1>8. Ordered(r)
  BY <1>1, <1>4 DEF Ordered
<1>9. q[i] \notin Elements(r)
  BY <1>1, <1>6 DEF Elements
<1>10. (\A j \in 1 .. i - 1 : Group(q[j]) # Group(q[i])) => \A u \in Elements(r) : Earlier(q[i], u)
  BY <1>1, <1>7 DEF Elements
<1> QED BY <1>8, <1>9, <1>10 DEF r

-----------------------------------------------------------------------------
\* Requests are numbered

HeaderCell == Rp \X {"WriteReq", "ReadReq"}

LEMMA HeaderFacts ==
  ASSUME NEW c \in HeaderCell
  PROVE  /\ c \in ReqCell /\ c[1] \in Rp /\ c = <<c[1], c[2]>>
         /\ c[2] = "WriteReq" \/ c[2] = "ReadReq"
BY DEF HeaderCell, ReqCell, ReqKind

LEMMA HeadersAreNumbers ==
  ASSUME NEW c \in HeaderCell, NEW n \in 1 .. Len(Program(c))
  PROVE  Program(c)[n] = <<n, 0>>
<1>1. c[1] \in Rp /\ (c[2] = "WriteReq" \/ c[2] = "ReadReq")
  BY HeaderFacts
<1>2. Writes[c[1]] \in Seq([id : Nat, beats : Nat \ {0}]) /\ Reads[c[1]] \in Seq([id : Nat, beats : Nat \ {0}])
  BY <1>1, TargetAssumption
<1>3. Len(Writes[c[1]]) \in Nat /\ Len(Reads[c[1]]) \in Nat
  BY <1>2
<1>4. CASE c[2] = "WriteReq"
  <2>1. Program(c) = [k \in 1 .. Len(Writes[c[1]]) |-> <<k, 0>>]
    BY <1>4 DEF Program
  <2> QED BY <1>3, <2>1
<1>5. CASE c[2] = "ReadReq"
  <2>1. Program(c) = [k \in 1 .. Len(Reads[c[1]]) |-> <<k, 0>>]
    BY <1>5 DEF Program
  <2> QED BY <1>3, <2>1
<1> QED BY <1>1, <1>4, <1>5

\* The number of the i-th request that waits, and the cell a transaction was in.
Number(c, i) == IF c[2] = "WriteReq" THEN writes[c[1]][i].n ELSE reads[c[1]][i]

CellOf(t) == <<t.rp, IF t.write THEN "WriteReq" ELSE "ReadReq">>

\* The first n requests of a cell are taken: the last of them wait, in the order
\* of their numbers, and the tickets are of those before.
InSequence(c, n) ==
  /\ Taken(c, n) /\ Waiting(c) <= n
  /\ \A i \in 1 .. Waiting(c) : Number(c, i) = n - Waiting(c) + i
  /\ \A t \in Elements(tickets) : CellOf(t) = c => t.n <= n - Waiting(c)

LEMMA SequenceInitially ==
  ASSUME Init, NEW c \in HeaderCell
  PROVE  InSequence(c, 0)
<1>1. c \in ReqCell /\ c[1] \in Rp /\ (c[2] = "WriteReq" \/ c[2] = "ReadReq")
  BY HeaderFacts
<1>2. Waiting(c) = 0
  BY <1>1 DEF Init, Waiting
<1>3. Elements(tickets) = {}
  BY DEF Init, Elements
<1>4. Taken(c, 0)
  BY <1>1, TakenInitially
<1> QED BY <1>2, <1>3, <1>4 DEF InSequence

\* What keeps the queues, and adds no ticket, keeps the sequence.
LEMMA SequenceKept ==
  ASSUME NEW c \in HeaderCell, NEW n, InSequence(c, n), Taken(c, n)',
         Waiting(c)' = Waiting(c),
         \A i \in 1 .. Waiting(c) : Number(c, i)' = Number(c, i),
         Elements(tickets') \subseteq Elements(tickets)
  PROVE  InSequence(c, n)'
<1>1. Waiting(c)' <= n
  BY DEF InSequence
<1>2. \A i \in 1 .. Waiting(c)' : Number(c, i)' = n - Waiting(c)' + i
  BY DEF InSequence
<1>3. \A t \in Elements(tickets') : CellOf(t) = c => t.n <= n - Waiting(c)'
  BY DEF InSequence
<1> QED BY <1>1, <1>2, <1>3 DEF InSequence

LEMMA SequenceStays ==
  ASSUME NEW c \in HeaderCell, NEW n, InSequence(c, n),
         UNCHANGED <<linkRx, issued, writes, reads, tickets>>
  PROVE  InSequence(c, n)'
<1>1. c \in ReqCell /\ (c[2] = "WriteReq" \/ c[2] = "ReadReq")
  BY HeaderFacts
<1>2. Taken(c, n)'
  BY <1>1, TakenStays DEF InSequence
<1>3. Waiting(c)' = Waiting(c)
  BY <1>1 DEF Waiting
<1>4. \A i \in 1 .. Waiting(c) : Number(c, i)' = Number(c, i)
  BY DEF Number
<1>5. Elements(tickets') = Elements(tickets)
  BY DEF Elements
<1> QED BY <1>2, <1>3, <1>4, <1>5, SequenceKept

LEMMA PeerFrameKeepsSequence ==
  ASSUME Typed, NEW batch, Sendable(batch), NEW grant \in [RspCell -> Nat],
         PeerFrame(batch, grant), NEW c \in HeaderCell, NEW n, InSequence(c, n)
  PROVE  InSequence(c, n)'
<1>1. c \in ReqCell /\ (c[2] = "WriteReq" \/ c[2] = "ReadReq")
  BY HeaderFacts
<1>2. UNCHANGED <<writes, reads, tickets>>
  BY DEF PeerFrame, targetVars, jobVars
<1>3. Taken(c, n)'
  BY <1>1, SentFollow DEF InSequence
<1>4. Waiting(c)' = Waiting(c)
  BY <1>1, <1>2 DEF Waiting
<1>5. \A i \in 1 .. Waiting(c) : Number(c, i)' = Number(c, i)
  BY <1>2 DEF Number
<1>6. Elements(tickets') = Elements(tickets)
  BY <1>2 DEF Elements
<1> QED BY <1>3, <1>4, <1>5, <1>6, SequenceKept

LEMMA CollectKeepsSequence ==
  ASSUME Typed, Collect, NEW c \in HeaderCell, NEW n, InSequence(c, n)
  PROVE  InSequence(c, n)'
<1>1. c \in ReqCell /\ (c[2] = "WriteReq" \/ c[2] = "ReadReq")
  BY HeaderFacts
<1>2. UNCHANGED <<linkRx, issued, writes, reads>>
  BY DEF Collect, linkVars, peerVars, jobVars
<1>3. Taken(c, n)'
  BY <1>1, <1>2, TakenStays DEF InSequence
<1>4. Waiting(c)' = Waiting(c)
  BY <1>1, <1>2 DEF Waiting
<1>5. \A i \in 1 .. Waiting(c) : Number(c, i)' = Number(c, i)
  BY <1>2 DEF Number
<1>6. Elements(tickets') \subseteq Elements(tickets)
  <2>1. CASE tickets' = tickets
    BY <2>1
  <2>2. CASE CollectResponse(Head(memRsp))
    <3> DEFINE k == TicketOf(Head(memRsp))
    <3>1. k \in 1 .. Len(tickets) /\ tickets' = RemoveAt(tickets, k)
      BY <2>2, FirstTicket DEF CollectResponse
    <3>2. tickets \in Seq(Transaction)
      BY DEF Typed, TicketsTyped
    <3> HIDE DEF k
    <3> QED BY <3>1, <3>2, RemovedElements
  <2> QED BY <2>1, <2>2 DEF Collect
<1> QED BY <1>3, <1>4, <1>5, <1>6, SequenceKept

\* A beat joins a job; its number stays.
Given(s, i, m) == [s EXCEPT ![i].got = Append(@, m)]

LEMMA NumbersOfJobs ==
  ASSUME NEW s \in Seq(WriteJob), NEW i \in 1 .. Len(s), NEW m \in Message
  PROVE  /\ Given(s, i, m) \in Seq(WriteJob) /\ Len(Given(s, i, m)) = Len(s)
         /\ \A j \in 1 .. Len(s) : Given(s, i, m)[j].n = s[j].n
         /\ Given(s, i, m)[i].got = Append(s[i].got, m)
         /\ \A j \in 1 .. Len(s) \ {i} : Given(s, i, m)[j] = s[j]
<1>1. s[i] \in WriteJob
  BY ElementOfSeq
<1>2. Append(s[i].got, m) \in Seq(Message)
  BY <1>1, AppendIsSeq DEF WriteJob
<1> DEFINE w == [s[i] EXCEPT !.got = Append(@, m)]
<1>3. w \in WriteJob /\ w.n = s[i].n /\ w.got = Append(s[i].got, m)
  BY <1>1, <1>2 DEF WriteJob
<1>4. Given(s, i, m) = [s EXCEPT ![i] = w]
  BY DEF Given
<1> HIDE DEF w
<1> DEFINE r == [s EXCEPT ![i] = w]
<1>5. /\ r \in Seq(WriteJob) /\ Len(r) = Len(s) /\ r[i] = w
      /\ \A j \in 1 .. Len(s) \ {i} : r[j] = s[j]
  BY <1>3, ExceptIsSeq
<1> HIDE DEF r
<1>6. ASSUME NEW j \in 1 .. Len(s) PROVE r[j].n = s[j].n
  <2>1. CASE j = i
    BY <1>3, <1>5, <2>1
  <2>2. CASE j # i
    BY <1>5, <2>2
  <2> QED BY <2>1, <2>2
<1> QED BY <1>3, <1>4, <1>5, <1>6 DEF r

LEMMA AssembleKeepsSequence ==
  ASSUME Typed, Assemble, NEW c \in HeaderCell, NEW n, InSequence(c, n)
  PROVE  InSequence(c, n)'
<1>1. c \in ReqCell /\ c[1] \in Rp /\ (c[2] = "WriteReq" \/ c[2] = "ReadReq")
  BY HeaderFacts
<1>2. UNCHANGED <<linkRx, issued, reads, tickets>>
  BY DEF Assemble, linkVars, peerVars
<1>3. Taken(c, n)'
  BY <1>1, <1>2, TakenStays DEF InSequence
<1>4. Waiting(c)' = Waiting(c)
  BY <1>1, <1>2, AssembledWait DEF Waiting
<1>5. \A i \in 1 .. Waiting(c) : Number(c, i)' = Number(c, i)
  <2>1. CASE c[2] = "ReadReq"
    BY <1>2, <2>1 DEF Number
  <2>2. CASE c[2] = "WriteReq"
    <3> DEFINE rp == c[1]
               s == writes[rp]
               k == OpenJob(rp)
               m == Head(data[rp])
    <3>1. s \in Seq(WriteJob) /\ data[rp] \in Seq(Message)
      BY <1>1 DEF Typed, JobsTyped
    <3>2. CASE GetsBeat(rp)
      <4>1. writes'[rp] = Given(s, k, m) /\ k # 0 /\ data[rp] # <<>>
        BY <1>1, <3>2 DEF Assemble, GetsBeat, Given
      <4>2. k \in 1 .. Len(s) /\ m \in Message
        BY <3>1, <4>1, OpenJobIsOne, TailIsSeq
      <4> HIDE DEF s, k, m
      <4>3. \A i \in 1 .. Len(s) : writes'[rp][i].n = s[i].n
        BY <3>1, <4>1, <4>2, NumbersOfJobs
      <4> QED BY <2>2, <4>3 DEF Number, Waiting, s
    <3>3. CASE ~GetsBeat(rp)
      <4>1. writes'[rp] = writes[rp]
        BY <1>1, <3>3 DEF Assemble
      <4> QED BY <2>2, <4>1 DEF Number
    <3> QED BY <3>2, <3>3
  <2> QED BY <1>1, <2>1, <2>2
<1>6. Elements(tickets') \subseteq Elements(tickets)
  BY <1>2 DEF Elements
<1> QED BY <1>3, <1>4, <1>5, <1>6, SequenceKept

\* The requests of a frame go on from the last number taken.
LEMMA ReceiveKeepsSequence ==
  ASSUME Typed, linkRx # <<>>, linkRx' = Tail(linkRx), TakeFrame(Head(linkRx)),
         UNCHANGED <<issued, tickets>>,
         NEW c \in HeaderCell, NEW n, InSequence(c, n),
         NEW m, m = n + Len(Head(linkRx).messages[c])
  PROVE  InSequence(c, m)'
<1> DEFINE rp   == c[1]
           msgs == Head(linkRx).messages[c]
           len  == Waiting(c)
           more == Len(msgs)
<1>1. /\ c \in ReqCell /\ rp \in Rp /\ c = <<rp, c[2]>>
      /\ c[2] = "WriteReq" \/ c[2] = "ReadReq"
  BY HeaderFacts
<1>2. Taken(c, n) /\ len <= n
  BY DEF InSequence
<1>3. n \in Nat /\ len \in Nat
  BY <1>1, <1>2, TakenIsIssued, WaitingIsNat
<1>4. /\ msgs \in Seq(Message) /\ more \in Nat /\ Taken(c, m)'
      /\ m \in Nat /\ m <= issued[c]
      /\ \A k \in 1 .. more : msgs[k] = Program(c)[n + k]
  BY <1>1, <1>2, FirstIsTaken
<1>5. \A k \in 1 .. more : msgs[k][1] = n + k
  <2>1. m \in Nat /\ m <= Len(Program(c))
    <3>1. /\ m \in Nat /\ m <= issued[c] /\ issued[c] \in Nat /\ issued[c] <= Len(Program(c))
          /\ Len(Program(c)) \in Nat
      BY <1>1, <1>4, ProgramIsSeq DEF Typed, PeerTyped
    <3> QED BY <3>1
  <2>2. ASSUME NEW k \in 1 .. more PROVE n + k \in 1 .. Len(Program(c))
    <3>1. Len(Program(c)) \in Nat
      BY <1>1, ProgramIsSeq
    <3> QED BY <1>3, <1>4, <2>1, <3>1
  <2>3. \A k \in 1 .. more : msgs[k] = <<n + k, 0>>
    BY <1>4, <2>2, HeadersAreNumbers
  <2> QED BY <2>3
<1>6. Waiting(c)' = len + more
  <2>1. Head(linkRx) \in RxFrame
    BY TailIsSeq DEF Typed, RxTyped
  <2> QED BY <1>1, <2>1, TakenAreWaiting
<1>7. writes[rp] \in Seq(WriteJob) /\ reads[rp] \in Seq(Nat)
  BY <1>1 DEF Typed, JobsTyped
<1>8. /\ \A i \in 1 .. len : Number(c, i)' = Number(c, i)
      /\ \A k \in 1 .. more : \A j : j = len + k => Number(c, j)' = n + k
  <2>1. CASE c[2] = "WriteReq"
    <3> DEFINE q == writes[rp]
               r == NewJobs(msgs)
    <3>1. writes'[rp] = q \o r
      BY <1>1, <2>1 DEF TakeFrame
    <3>2. q \in Seq(WriteJob) /\ r \in Seq(WriteJob) /\ Len(r) = more /\ Len(q) = len
      BY <1>4, <1>7, <2>1, NewJobsTyped DEF Waiting
    <3>3. \A k \in 1 .. more : r[k].n = n + k
      <4>1. \A k \in 1 .. more : r[k] = [n |-> msgs[k][1], got |-> <<>>]
        BY <1>4 DEF NewJobs
      <4> HIDE DEF r, msgs, more
      <4>2. ASSUME NEW k \in 1 .. more PROVE r[k].n = msgs[k][1]
        <5> DEFINE number == msgs[k][1]
        <5>1. r[k] = [n |-> number, got |-> <<>>]
          BY <4>1
        <5> HIDE DEF number
        <5>2. r[k].n = number
          BY <5>1
        <5> QED BY <5>2 DEF number
      <4> QED BY <1>5, <4>2
    <3> HIDE DEF q, r
    <3>4. /\ \A i \in 1 .. Len(q) : (q \o r)[i] = q[i]
          /\ \A k \in 1 .. Len(r) : (q \o r)[Len(q) + k] = r[k]
      BY <3>2, JoinedPlaces
    <3>5. /\ \A i \in 1 .. len : writes'[rp][i].n = q[i].n
          /\ \A k \in 1 .. more : writes'[rp][len + k].n = n + k
      BY <3>1, <3>2, <3>3, <3>4
    <3> QED BY <2>1, <3>5 DEF Number, q
  <2>2. CASE c[2] = "ReadReq"
    <3> DEFINE q == reads[rp]
               r == NewReads(msgs)
    <3>1. reads'[rp] = q \o r
      BY <1>1, <2>2 DEF TakeFrame
    <3>2. q \in Seq(Nat) /\ r \in Seq(Nat) /\ Len(r) = more /\ Len(q) = len
      BY <1>4, <1>7, <2>2, NewReadsTyped DEF Waiting
    <3>3. \A k \in 1 .. more : r[k] = n + k
      <4>1. \A k \in 1 .. more : r[k] = msgs[k][1]
        BY <1>4 DEF NewReads
      <4> QED BY <1>5, <4>1
    <3> HIDE DEF q, r
    <3>4. /\ \A i \in 1 .. Len(q) : (q \o r)[i] = q[i]
          /\ \A k \in 1 .. Len(r) : (q \o r)[Len(q) + k] = r[k]
      BY <3>2, JoinedPlaces
    <3>5. /\ \A i \in 1 .. len : reads'[rp][i] = q[i]
          /\ \A k \in 1 .. more : reads'[rp][len + k] = n + k
      BY <3>1, <3>2, <3>3, <3>4
    <3> QED BY <2>2, <3>5 DEF Number, q
  <2> QED BY <1>1, <2>1, <2>2
<1>9. m = n + more
  OBVIOUS
<1>10. \A i \in 1 .. len : Number(c, i) = n - len + i
  BY DEF InSequence
<1>11. \A t \in Elements(tickets') : CellOf(t) = c => t.n <= n - len
  BY DEF InSequence, Elements
<1> DEFINE len2 == Waiting(c)'
<1> HIDE DEF len, more, len2
<1>12. len2 = len + more
  BY <1>6 DEF len2
<1>13. len2 <= m /\ m - len2 = n - len
  BY <1>2, <1>3, <1>4, <1>9, <1>12
<1>14. \A i \in 1 .. len2 : Number(c, i)' = m - len2 + i
  <2> SUFFICES ASSUME NEW i \in 1 .. len2 PROVE Number(c, i)' = m - len2 + i
    OBVIOUS
  <2>1. CASE i \in 1 .. len
    BY <1>8, <1>10, <1>13, <2>1
  <2>2. CASE i \notin 1 .. len
    <3>1. i - len \in 1 .. more /\ len + (i - len) = i
      BY <1>3, <1>4, <1>12, <2>2
    <3>2. Number(c, i)' = n + (i - len)
      BY <1>8, <3>1, Zenon
    <3> QED BY <1>3, <1>13, <3>1, <3>2
  <2> QED BY <2>1, <2>2
<1>15. \A t \in Elements(tickets') : CellOf(t) = c => t.n <= m - len2
  BY <1>11, <1>13
<1> QED BY <1>4, <1>13, <1>14, <1>15 DEF InSequence, len2

\* What is submitted has the next number of its cell.
LEMMA SubmitKeepsSequence ==
  ASSUME Typed, NEW slot \in Slots, FirstReady(slot), SubmitSlot(slot),
         UNCHANGED <<linkRx, issued, data>>,
         NEW c \in HeaderCell, NEW n, InSequence(c, n)
  PROVE  InSequence(c, n)'
<1> DEFINE rp   == SlotRp(slot)
           wr   == SlotWrites(slot)
           x    == IF wr THEN Head(writes[rp]).n ELSE Head(reads[rp])
           t    == [write |-> wr, rp |-> rp, n |-> x]
           len  == Waiting(c)
<1>1. /\ c \in ReqCell /\ c[1] \in Rp /\ c = <<c[1], c[2]>>
      /\ c[2] = "WriteReq" \/ c[2] = "ReadReq"
  BY HeaderFacts
<1>2. Taken(c, n)' /\ len <= n /\ n \in Nat /\ len \in Nat
  BY <1>1, TakenStays, TakenIsIssued, WaitingIsNat DEF InSequence
<1>3. rp \in Rp /\ wr \in BOOLEAN /\ SlotCell(slot) \in ReqCell
  BY SlotFacts
<1>4. /\ c = SlotCell(slot) => len >= 1 /\ Waiting(c)' = len - 1
      /\ c # SlotCell(slot) => Waiting(c)' = len
  BY <1>1, SubmittedWait
<1>5. /\ tickets' = Append(tickets, t) /\ tickets \in Seq(Transaction) /\ t \in Transaction
      /\ CellOf(t) = SlotCell(slot)
      /\ c = SlotCell(slot) => x = Number(c, 1)
  <2>1. writes[rp] \in Seq(WriteJob) /\ reads[rp] \in Seq(Nat)
    BY <1>3 DEF Typed, JobsTyped
  <2>2. (wr => writes[rp] # <<>>) /\ (~wr => reads[rp] # <<>>)
    BY DEF FirstReady, Ready
  <2>3. /\ wr => Head(writes[rp]) \in WriteJob /\ Head(writes[rp]) = writes[rp][1]
        /\ ~wr => Head(reads[rp]) \in Nat /\ Head(reads[rp]) = reads[rp][1]
    BY <2>1, <2>2, TailIsSeq
  <2>4. x \in Nat
    BY <2>3 DEF WriteJob
  <2>5. SlotCell(slot) = <<rp, IF wr THEN "WriteReq" ELSE "ReadReq">>
    BY DEF SlotCell
  <2>6. CellOf(t) = SlotCell(slot)
    BY <2>5 DEF CellOf
  <2>7. t \in Transaction
    BY <1>3, <2>4 DEF Transaction
  <2>8. c = SlotCell(slot) => x = Number(c, 1)
    BY <2>3, <2>5 DEF Number
  <2>9. tickets' = Append(tickets, t) /\ tickets \in Seq(Transaction)
    BY DEF SubmitSlot, Typed, TicketsTyped
  <2> QED BY <2>6, <2>7, <2>8, <2>9
<1>6. t.n = x
  OBVIOUS
<1>7. /\ wr => writes' = [writes EXCEPT ![rp] = Tail(@)] /\ reads' = reads
      /\ ~wr => writes' = writes /\ reads' = [reads EXCEPT ![rp] = Tail(@)]
  BY DEF SubmitSlot
<1>8. /\ c = SlotCell(slot) => \A i \in 1 .. len - 1 : Number(c, i)' = Number(c, i + 1)
      /\ c # SlotCell(slot) => \A i \in 1 .. len : Number(c, i)' = Number(c, i)
  <2>1. writes \in [Rp -> Seq(WriteJob)] /\ reads \in [Rp -> Seq(Nat)]
    BY DEF Typed, JobsTyped
  <2>2. writes[rp] \in Seq(WriteJob) /\ reads[rp] \in Seq(Nat)
    BY <1>3, <2>1
  <2>3. (wr => writes[rp] # <<>>) /\ (~wr => reads[rp] # <<>>)
    BY DEF FirstReady, Ready
  <2>4. /\ wr => \A i \in 1 .. Len(writes[rp]) - 1 : Tail(writes[rp])[i] = writes[rp][i + 1]
        /\ ~wr => \A i \in 1 .. Len(reads[rp]) - 1 : Tail(reads[rp])[i] = reads[rp][i + 1]
    BY <2>2, <2>3, TailIsSeq
  <2>5. SlotCell(slot) = <<rp, IF wr THEN "WriteReq" ELSE "ReadReq">>
    BY DEF SlotCell
  <2>6. /\ wr => writes'[rp] = Tail(writes[rp]) /\ \A p \in Rp \ {rp} : writes'[p] = writes[p]
        /\ ~wr => reads'[rp] = Tail(reads[rp]) /\ \A p \in Rp \ {rp} : reads'[p] = reads[p]
    BY <1>3, <1>7, <2>1
  <2> HIDE DEF rp, wr, x, t
  <2>7. CASE wr
    <3>1. SlotCell(slot) = <<rp, "WriteReq">> /\ reads' = reads
      BY <1>7, <2>5, <2>7
    <3>2. ASSUME c = SlotCell(slot)
          PROVE  \A i \in 1 .. len - 1 : Number(c, i)' = Number(c, i + 1)
      <4>1. c[1] = rp /\ c[2] = "WriteReq"
        BY <3>1, <3>2
      <4>2. len = Len(writes[rp])
        BY <4>1 DEF Waiting
      <4>3. \A i : Number(c, i)' = writes'[rp][i].n /\ Number(c, i + 1) = writes[rp][i + 1].n
        BY <4>1 DEF Number
      <4>4. \A i \in 1 .. Len(writes[rp]) - 1 : writes'[rp][i] = writes[rp][i + 1]
        BY <2>4, <2>6, <2>7
      <4> HIDE DEF len
      <4> QED BY <4>2, <4>3, <4>4
    <3>3. c # SlotCell(slot) => \A i \in 1 .. len : Number(c, i)' = Number(c, i)
      BY <1>1, <2>6, <2>7, <3>1 DEF Number
    <3> QED BY <3>2, <3>3
  <2>8. CASE ~wr
    <3>1. SlotCell(slot) = <<rp, "ReadReq">> /\ writes' = writes
      BY <1>7, <2>5, <2>8
    <3>2. ASSUME c = SlotCell(slot)
          PROVE  \A i \in 1 .. len - 1 : Number(c, i)' = Number(c, i + 1)
      <4>1. c[1] = rp /\ c[2] = "ReadReq"
        BY <3>1, <3>2
      <4>2. len = Len(reads[rp])
        BY <4>1 DEF Waiting
      <4>3. \A i : Number(c, i)' = reads'[rp][i] /\ Number(c, i + 1) = reads[rp][i + 1]
        BY <4>1 DEF Number
      <4>4. \A i \in 1 .. Len(reads[rp]) - 1 : reads'[rp][i] = reads[rp][i + 1]
        BY <2>4, <2>6, <2>8
      <4> HIDE DEF len
      <4> QED BY <4>2, <4>3, <4>4
    <3>3. c # SlotCell(slot) => \A i \in 1 .. len : Number(c, i)' = Number(c, i)
      BY <1>1, <2>6, <2>8, <3>1 DEF Number
    <3> QED BY <3>2, <3>3
  <2> QED BY <2>7, <2>8
<1>9. Elements(tickets') = Elements(tickets) \cup {t}
  <2> HIDE DEF t
  <2>1. Elements(Append(tickets, t)) = Elements(tickets) \cup {t}
    BY <1>5, AppendedElements
  <2> QED BY <1>5, <2>1
<1>10. /\ \A i \in 1 .. len : Number(c, i) = n - len + i
       /\ \A u \in Elements(tickets) : CellOf(u) = c => u.n <= n - len
       /\ \A u \in Elements(tickets) : u.n \in Nat
  <2>1. \A u \in Elements(tickets) : u.n \in Nat
    <3>1. tickets \in Seq(Transaction)
      BY DEF Typed, TicketsTyped
    <3>2. Elements(tickets) \subseteq Transaction
      BY <3>1, ElementsAreTyped
    <3> QED BY <3>2 DEF Transaction
  <2> QED BY <2>1 DEF InSequence
<1> DEFINE len2 == Waiting(c)'
<1> HIDE DEF rp, wr, x, t, len, len2
<1>11. CASE c = SlotCell(slot)
  <2>1. len \in Nat \ {0} /\ len2 = len - 1 /\ n - len2 = n - len + 1
    BY <1>2, <1>4, <1>11 DEF len2
  <2>2. len2 <= n
    BY <1>2, <2>1
  <2>3. ASSUME NEW i \in 1 .. len2 PROVE Number(c, i)' = n - len2 + i
    <3>1. i + 1 \in 1 .. len /\ i \in 1 .. len - 1
      BY <2>1
    <3>2. Number(c, i)' = n - len + (i + 1)
      BY <1>8, <1>10, <1>11, <3>1
    <3> QED BY <1>2, <2>1, <3>2
  <2>4. ASSUME NEW u \in Elements(tickets'), CellOf(u) = c PROVE u.n <= n - len2
    <3>1. CASE u \in Elements(tickets)
      <4>1. u.n <= n - len /\ u.n \in Nat
        BY <1>10, <2>4, <3>1
      <4> QED BY <1>2, <2>1, <4>1
    <3>2. CASE u = t
      <4>1. u.n = n - len + 1
        BY <1>5, <1>6, <1>10, <1>11, <2>1, <3>2
      <4> QED BY <1>2, <2>1, <4>1
    <3> QED BY <1>9, <2>4, <3>1, <3>2
  <2> QED BY <1>2, <2>2, <2>3, <2>4 DEF InSequence, len2
<1>12. CASE c # SlotCell(slot)
  <2>1. len2 = len
    BY <1>4, <1>12 DEF len2
  <2>2. \A i \in 1 .. len2 : Number(c, i)' = n - len2 + i
    BY <1>8, <1>10, <1>12, <2>1
  <2>3. ASSUME NEW u \in Elements(tickets'), CellOf(u) = c PROVE u.n <= n - len2
    <3>1. u \in Elements(tickets)
      BY <1>5, <1>9, <1>12, <2>3
    <3> QED BY <1>10, <2>1, <2>3, <3>1
  <2> QED BY <1>2, <2>1, <2>2, <2>3 DEF InSequence, len2
<1> QED BY <1>11, <1>12

\* Every header cell is in sequence.
Sequences == \A c \in HeaderCell : \E n : InSequence(c, n)

LEMMA SequencesInitially == Init => Sequences
BY SequenceInitially DEF Sequences

LEMMA SequencesStep == Typed /\ Sequences /\ [Next]_vars => Sequences'
<1> SUFFICES ASSUME Typed, Sequences, [Next]_vars, NEW c \in HeaderCell
             PROVE  \E m : InSequence(c, m)'
  BY DEF Sequences
<1>1. PICK n : InSequence(c, n)
  BY DEF Sequences
<1>2. UNCHANGED <<linkRx, issued, writes, reads, tickets>> => InSequence(c, n)'
  BY <1>1, SequenceStays
<1>3. CASE PeerSend \/ PeerGrant
  <2>1. PICK batch, grant : /\ Sendable(batch) /\ Granting(grant, RspCell, rspOwed)
                            /\ PeerFrame(batch, grant)
    BY <1>3, PeerSends, NothingSendable, ResponseGranted DEF PeerGrant, Typed, PeerTyped
  <2>2. grant \in [RspCell -> Nat]
    BY <2>1 DEF Granting
  <2>3. InSequence(c, n)'
    BY <1>1, <2>1, <2>2, PeerFrameKeepsSequence
  <2> QED BY <2>3
<1>4. CASE PeerReceive \/ PeerAccept \/ MemTake \/ MemComplete
  BY <1>2, <1>4 DEF PeerReceive, PeerAccept, MemTake, MemComplete, peerVars, linkVars,
     targetVars, jobVars
<1>5. CASE Receive
  <2>1. CASE linkRx = <<>> /\ UNCHANGED <<linkRx, rspCredit, jobVars>>
    BY <1>2, <1>5, <2>1 DEF Receive, peerVars, jobVars
  <2>2. CASE linkRx # <<>> /\ linkRx' = Tail(linkRx) /\ TakeFrame(Head(linkRx))
    <3>1. UNCHANGED <<issued, tickets>>
      BY <1>5 DEF Receive, peerVars
    <3>2. \A m : m = n + Len(Head(linkRx).messages[c]) => InSequence(c, m)'
      BY <1>1, <2>2, <3>1, ReceiveKeepsSequence
    <3> QED BY <3>2
  <2> QED BY <1>5, <2>1, <2>2 DEF Receive
<1>6. CASE Collect
  BY <1>1, <1>6, CollectKeepsSequence
<1>7. CASE Assemble
  BY <1>1, <1>7, AssembleKeepsSequence
<1>8. CASE Submit
  <2>1. CASE UNCHANGED <<memReq, tickets, outstanding, writes, reads, owed, nextSubmit>>
    BY <1>2, <1>8, <2>1 DEF Submit, peerVars, linkVars
  <2>2. CASE \E slot \in Slots : FirstReady(slot) /\ SubmitSlot(slot)
    <3>1. UNCHANGED <<linkRx, issued, data>>
      BY <1>8 DEF Submit, peerVars, linkVars
    <3> QED BY <1>1, <2>2, <3>1, SubmitKeepsSequence
  <2> QED BY <1>8, <2>1, <2>2 DEF Submit
<1>9. CASE Transmit \/ Pack \/ Send
  BY <1>2, <1>9 DEF Transmit, Pack, Send, peerVars, linkVars, jobVars
<1>10. CASE UNCHANGED vars
  BY <1>2, <1>10 DEF vars, peerVars, linkVars, targetVars, jobVars
<1> QED BY <1>3, <1>4, <1>5, <1>6, <1>7, <1>8, <1>9, <1>10 DEF Next

-----------------------------------------------------------------------------
\* Tickets and the transactions in the memory

\* The tickets are of what has been submitted and is not collected.  Of one
\* group, what the memory has completed is older than what it works on, and
\* that is older than what waits for it.
Pipe ==
  /\ Ordered(tickets) /\ Ordered(memReq) /\ Ordered(memory) /\ Ordered(memRsp)
  /\ Ahead(memRsp, memory) /\ Ahead(memRsp, memReq) /\ Ahead(memory, memReq)
  /\ Elements(tickets) = Elements(memRsp) \cup Elements(memory) \cup Elements(memReq)

LEMMA PipeInitially == Init => Pipe
<1>1. Elements(<<>>) = {} /\ Ordered(<<>>)
  BY DEF Elements, Ordered
<1> QED BY <1>1 DEF Init, Pipe, Ahead

LEMMA PipeStays ==
  ASSUME Pipe, UNCHANGED <<tickets, memReq, memory, memRsp>>
  PROVE  Pipe'
BY DEF Pipe, Ordered, Ahead, Elements

LEMMA TypedPipe ==
  ASSUME Typed
  PROVE  /\ tickets \in Seq(Transaction) /\ memReq \in Seq(Transaction)
         /\ memory \in Seq(Transaction) /\ memRsp \in Seq(Transaction)
BY DEF Typed, TicketsTyped, MemTyped

LEMMA MemTakeKeepsPipe ==
  ASSUME Typed, Pipe, MemTake
  PROVE  Pipe'
<1> DEFINE x == Head(memReq)
<1>1. /\ memReq # <<>> /\ memReq' = Tail(memReq) /\ memory' = Append(memory, x)
      /\ tickets' = tickets /\ memRsp' = memRsp
  BY DEF MemTake, targetVars
<1>2. memReq \in Seq(Transaction) /\ memory \in Seq(Transaction) /\ x \in Transaction
  BY <1>1, TypedPipe, TailIsSeq
<1>3. Elements(memReq) = {x} \cup Elements(Tail(memReq))
  BY <1>1, <1>2, TailElements
<1>4. Elements(Append(memory, x)) = Elements(memory) \cup {x}
  BY <1>2, AppendedElements
<1>5. Ordered(Tail(memReq)) /\ \A u \in Elements(Tail(memReq)) : Earlier(x, u)
  BY <1>1, <1>2, TailOrdered DEF Pipe
<1> HIDE DEF x
<1>6. Ordered(Append(memory, x))
  BY <1>2, <1>3, AppendedOrdered DEF Pipe, Ahead
<1>7. /\ Ahead(memRsp, Append(memory, x)) /\ Ahead(memRsp, Tail(memReq))
      /\ Ahead(Append(memory, x), Tail(memReq))
  BY <1>3, <1>4, <1>5 DEF Pipe, Ahead
<1>8. Elements(tickets)
        = Elements(memRsp) \cup Elements(Append(memory, x)) \cup Elements(Tail(memReq))
  BY <1>3, <1>4 DEF Pipe
<1>9. Ordered(tickets) /\ Ordered(memRsp)
  BY DEF Pipe
<1> QED BY <1>1, <1>5, <1>6, <1>7, <1>8, <1>9 DEF Pipe

LEMMA MemCompleteKeepsPipe ==
  ASSUME Typed, Pipe, MemComplete
  PROVE  Pipe'
<1>1. PICK i \in DOMAIN memory :
        /\ \A j \in 1 .. i - 1 : Group(memory[j]) # Group(memory[i])
        /\ memRsp' = Append(memRsp, memory[i]) /\ memory' = RemoveAt(memory, i)
  BY DEF MemComplete
<1>2. tickets' = tickets /\ memReq' = memReq
  BY DEF MemComplete, targetVars
<1> DEFINE x == memory[i]
           rest == RemoveAt(memory, i)
<1>3. memory \in Seq(Transaction) /\ memRsp \in Seq(Transaction) /\ i \in 1 .. Len(memory)
  BY <1>1, TypedPipe
<1>4. x \in Transaction
  BY <1>3, ElementOfSeq
<1>5. Elements(memory) = {x} \cup Elements(rest)
  BY <1>3, RemovedElements
<1>6. Elements(Append(memRsp, x)) = Elements(memRsp) \cup {x}
  BY <1>3, <1>4, AppendedElements
<1>7. Ordered(rest) /\ \A u \in Elements(rest) : Earlier(x, u)
  BY <1>1, <1>3, RemovedOrdered DEF Pipe
<1>8. memRsp' = Append(memRsp, x) /\ memory' = rest
  BY <1>1
<1> HIDE DEF x, rest
<1>9. Ordered(Append(memRsp, x))
  BY <1>3, <1>4, <1>5, AppendedOrdered DEF Pipe, Ahead
<1>10. /\ Ahead(Append(memRsp, x), rest) /\ Ahead(Append(memRsp, x), memReq)
       /\ Ahead(rest, memReq)
  BY <1>5, <1>6, <1>7 DEF Pipe, Ahead
<1>11. Elements(tickets) = Elements(Append(memRsp, x)) \cup Elements(rest) \cup Elements(memReq)
  BY <1>5, <1>6 DEF Pipe
<1>12. Ordered(tickets) /\ Ordered(memReq)
  BY DEF Pipe
<1> QED BY <1>2, <1>7, <1>8, <1>9, <1>10, <1>11, <1>12 DEF Pipe

\* The first response of the memory is the oldest transaction of its group.
LEMMA FirstResponseIsOldest ==
  ASSUME Typed, Pipe, memRsp # <<>>
  PROVE  /\ Head(memRsp) \in Transaction /\ Head(memRsp) \in Elements(tickets)
         /\ Elements(memRsp) = {Head(memRsp)} \cup Elements(Tail(memRsp))
         /\ \A u \in Elements(Tail(memRsp)) \cup Elements(memory) \cup Elements(memReq) :
              Earlier(Head(memRsp), u)
<1> DEFINE x == Head(memRsp)
<1>1. memRsp \in Seq(Transaction) /\ x \in Transaction
  BY TypedPipe, TailIsSeq
<1>2. Elements(memRsp) = {x} \cup Elements(Tail(memRsp))
  BY <1>1, TailElements
<1>3. \A u \in Elements(Tail(memRsp)) : Earlier(x, u)
  BY <1>1, TailOrdered DEF Pipe
<1> HIDE DEF x
<1>4. \A u \in Elements(memory) \cup Elements(memReq) : Earlier(x, u)
  BY <1>2 DEF Pipe, Ahead
<1>5. x \in Elements(tickets)
  BY <1>2 DEF Pipe
<1> QED BY <1>1, <1>2, <1>3, <1>4, <1>5 DEF x

LEMMA OldestTicket ==
  ASSUME Typed, Pipe, memRsp # <<>>
  PROVE  /\ TicketOf(Head(memRsp)) \in 1 .. Len(tickets)
         /\ tickets[TicketOf(Head(memRsp))] = Head(memRsp)
<1> DEFINE x == Head(memRsp)
           k == TicketOf(x)
<1>1. /\ x \in Transaction /\ x \in Elements(tickets)
      /\ Elements(memRsp) = {x} \cup Elements(Tail(memRsp))
      /\ \A u \in Elements(Tail(memRsp)) \cup Elements(memory) \cup Elements(memReq) :
           Earlier(x, u)
  BY FirstResponseIsOldest
<1>2. tickets \in Seq(Transaction)
  BY TypedPipe
<1>3. PICK j \in 1 .. Len(tickets) : tickets[j] = x
  BY <1>1, <1>2 DEF Elements
<1>4. k # 0
  <2> DEFINE I == {i \in 1 .. Len(tickets) : Group(tickets[i]) = Group(x)}
  <2>1. k = IF I # {} THEN Min(I) ELSE 0
    BY DEF TicketOf, SelectInSeq
  <2>2. I # {} /\ I \in SUBSET Nat
    BY <1>3
  <2>3. Min(I) \in I
    BY <2>2, MinIsLeast
  <2>4. Min(I) \in 1 .. Len(tickets)
    BY <2>3
  <2> QED BY <2>1, <2>2, <2>4
<1>5. /\ k \in 1 .. Len(tickets) /\ Group(tickets[k]) = Group(x)
      /\ k <= j
  BY <1>3, <1>4, FirstTicket
<1> DEFINE u == tickets[k]
<1>6. u \in Transaction /\ u \in Elements(tickets)
  BY <1>2, <1>5, ElementOfSeq DEF Elements
<1>7. u = x
  <2> SUFFICES ASSUME u # x PROVE FALSE
    OBVIOUS
  <2>1. k < j /\ k \in DOMAIN tickets /\ j \in DOMAIN tickets
    BY <1>2, <1>3, <1>5
  <2>2. Earlier(u, x)
    BY <1>3, <2>1 DEF Pipe, Ordered
  <2>3. Group(u) = Group(x)
    BY <1>5
  <2> HIDE DEF u, x
  <2>4. Earlier(x, u)
    BY <1>1, <1>6 DEF Pipe
  <2> QED BY <1>1, <1>6, <2>2, <2>3, <2>4, NotEarlier
<1> QED BY <1>5, <1>7

LEMMA CollectKeepsPipe ==
  ASSUME Typed, Pipe, Collect
  PROVE  Pipe'
<1>1. memReq' = memReq /\ memory' = memory
  BY DEF Collect
<1>2. CASE UNCHANGED <<memRsp, tickets, replies>>
  BY <1>1, <1>2, PipeStays
<1>3. CASE memRsp # <<>> /\ memRsp' = Tail(memRsp) /\ CollectResponse(Head(memRsp))
  <2> DEFINE x == Head(memRsp)
             k == TicketOf(x)
             rest == RemoveAt(tickets, k)
  <2>1. k \in 1 .. Len(tickets) /\ tickets[k] = x
    BY <1>3, OldestTicket
  <2>2. tickets' = rest
    BY <1>3 DEF CollectResponse
  <2>3. tickets \in Seq(Transaction) /\ memRsp \in Seq(Transaction)
    BY TypedPipe
  <2>4. Ordered(rest) /\ x \notin Elements(rest)
    BY <2>1, <2>3, RemovedOrdered DEF Pipe
  <2>5. Elements(tickets) = {x} \cup Elements(rest)
    BY <2>1, <2>3, RemovedElements
  <2>6. Ordered(Tail(memRsp))
    BY <1>3, <2>3, TailOrdered DEF Pipe
  <2>7. /\ x \in Transaction /\ Elements(memRsp) = {x} \cup Elements(Tail(memRsp))
        /\ \A u \in Elements(Tail(memRsp)) \cup Elements(memory) \cup Elements(memReq) :
             Earlier(x, u)
    BY <1>3, FirstResponseIsOldest
  <2> HIDE DEF x, rest
  <2>8. ~Earlier(x, x)
    <3>1. x.n \in Nat
      BY <2>7 DEF Transaction
    <3> QED BY <3>1 DEF Earlier
  <2>9. Elements(rest) = Elements(Tail(memRsp)) \cup Elements(memory) \cup Elements(memReq)
    BY <2>4, <2>5, <2>7, <2>8 DEF Pipe
  <2>10. Ahead(Tail(memRsp), memory) /\ Ahead(Tail(memRsp), memReq)
    BY <2>7 DEF Pipe, Ahead
  <2>11. Ordered(memReq) /\ Ordered(memory) /\ Ahead(memory, memReq)
    BY DEF Pipe
  <2> QED BY <1>1, <1>3, <2>2, <2>4, <2>6, <2>9, <2>10, <2>11 DEF Pipe
<1> QED BY <1>2, <1>3 DEF Collect

\* What is submitted is later than all that has a ticket.
LEMMA SubmittedIsLatest ==
  ASSUME Typed, Sequences, NEW slot \in Slots, FirstReady(slot), SubmitSlot(slot)
  PROVE  \E t \in Transaction :
           /\ tickets' = Append(tickets, t) /\ memReq' = Append(memReq, t)
           /\ \A u \in Elements(tickets) : Earlier(u, t)
           /\ CellOf(t) = SlotCell(slot)
           /\ \A n : InSequence(CellOf(t), n) => t.n = n - Waiting(CellOf(t)) + 1
<1> DEFINE rp == SlotRp(slot)
           wr == SlotWrites(slot)
           x  == IF wr THEN Head(writes[rp]).n ELSE Head(reads[rp])
           t  == [write |-> wr, rp |-> rp, n |-> x]
           c  == SlotCell(slot)
<1>1. rp \in Rp /\ wr \in BOOLEAN /\ c = <<rp, IF wr THEN "WriteReq" ELSE "ReadReq">>
  BY SlotFacts DEF SlotCell
<1>2. c \in HeaderCell
  BY <1>1 DEF HeaderCell
<1>3. PICK n : InSequence(c, n)
  BY <1>2 DEF Sequences
<1>4. /\ writes[rp] \in Seq(WriteJob) /\ reads[rp] \in Seq(Nat)
      /\ (wr => writes[rp] # <<>>) /\ (~wr => reads[rp] # <<>>)
  BY <1>1 DEF Typed, JobsTyped, FirstReady, Ready
<1>5. /\ wr => /\ Head(writes[rp]) \in WriteJob /\ Head(writes[rp]) = writes[rp][1]
               /\ Len(writes[rp]) \in Nat \ {0}
      /\ ~wr => /\ Head(reads[rp]) \in Nat /\ Head(reads[rp]) = reads[rp][1]
                /\ Len(reads[rp]) \in Nat \ {0}
  BY <1>4, TailIsSeq
<1>6. x \in Nat
  BY <1>5 DEF WriteJob
<1>7. t \in Transaction
  BY <1>1, <1>6 DEF Transaction
<1>8. tickets' = Append(tickets, t) /\ memReq' = Append(memReq, t)
  BY DEF SubmitSlot
<1>9. c[1] = rp /\ (wr => c[2] = "WriteReq") /\ (~wr => c[2] = "ReadReq")
  BY <1>1
<1>10. x = Number(c, 1) /\ Waiting(c) \in Nat \ {0}
  <2> HIDE DEF rp, wr, c
  <2>1. CASE wr
    BY <1>5, <1>9, <2>1 DEF Number, Waiting
  <2>2. CASE ~wr
    BY <1>5, <1>9, <2>2 DEF Number, Waiting
  <2> QED BY <2>1, <2>2
<1>11. n \in Nat
  BY <1>2, <1>3, HeaderFacts, TakenIsIssued DEF InSequence
<1> DEFINE len == Waiting(c)
<1>12. \A m : InSequence(c, m) => x = m - len + 1
  <2>1. 1 \in 1 .. Waiting(c)
    BY <1>10
  <2>2. \A m : InSequence(c, m) => Number(c, 1) = m - Waiting(c) + 1
    BY <2>1 DEF InSequence
  <2> QED BY <1>10, <2>2
<1>13. \A u \in Elements(tickets) : CellOf(u) = c => u.n <= n - len
  BY <1>3 DEF InSequence
<1>14. Elements(tickets) \subseteq Transaction
  BY TypedPipe, ElementsAreTyped
<1>15. t.n = x /\ t.rp = rp /\ t.write = wr
  OBVIOUS
<1>16. len \in Nat
  BY <1>10
<1> HIDE DEF rp, wr, x, t, c, len
<1>17. ASSUME NEW u \in Elements(tickets), Group(u) = Group(t)
       PROVE  u.n < t.n
  <2>1. u.rp = rp /\ u.write = wr
    BY <1>15, <1>17 DEF Group
  <2>2. CellOf(u) = c
    BY <1>1, <2>1 DEF CellOf
  <2>3. u.n <= n - len /\ u.n \in Nat
    BY <1>13, <1>14, <2>2 DEF Transaction
  <2>4. x = n - len + 1
    BY <1>3, <1>12
  <2> QED BY <1>11, <1>15, <1>16, <2>3, <2>4
<1>18. \A u \in Elements(tickets) : Earlier(u, t)
  BY <1>17 DEF Earlier
<1>19. CellOf(t) = c
  BY <1>1, <1>15 DEF CellOf
<1>20. \A m : InSequence(CellOf(t), m) => t.n = m - Waiting(CellOf(t)) + 1
  BY <1>12, <1>15, <1>19 DEF len
<1> QED BY <1>7, <1>8, <1>18, <1>19, <1>20 DEF c

LEMMA SubmitKeepsPipe ==
  ASSUME Typed, Sequences, Pipe, Submit
  PROVE  Pipe'
<1>1. memRsp' = memRsp /\ memory' = memory
  BY DEF Submit
<1>2. CASE UNCHANGED <<memReq, tickets, outstanding, writes, reads, owed, nextSubmit>>
  BY <1>1, <1>2, PipeStays
<1>3. CASE \E slot \in Slots : FirstReady(slot) /\ SubmitSlot(slot)
  <2>1. PICK t \in Transaction :
          /\ tickets' = Append(tickets, t) /\ memReq' = Append(memReq, t)
          /\ \A u \in Elements(tickets) : Earlier(u, t)
    BY <1>3, SubmittedIsLatest
  <2>2. tickets \in Seq(Transaction) /\ memReq \in Seq(Transaction)
    BY TypedPipe
  <2>3. Elements(Append(tickets, t)) = Elements(tickets) \cup {t}
    BY <2>2, AppendedElements
  <2>4. Elements(Append(memReq, t)) = Elements(memReq) \cup {t}
    BY <2>2, AppendedElements
  <2>5. Ordered(Append(tickets, t))
    BY <2>1, <2>2, AppendedOrdered DEF Pipe
  <2>6. \A u \in Elements(memRsp) \cup Elements(memory) \cup Elements(memReq) : Earlier(u, t)
    BY <2>1 DEF Pipe
  <2>7. Ordered(Append(memReq, t))
    BY <2>2, <2>6, AppendedOrdered DEF Pipe
  <2>8. Ahead(memRsp, Append(memReq, t)) /\ Ahead(memory, Append(memReq, t))
    BY <2>4, <2>6 DEF Pipe, Ahead
  <2>9. Elements(Append(tickets, t))
          = Elements(memRsp) \cup Elements(memory) \cup Elements(Append(memReq, t))
    BY <2>3, <2>4 DEF Pipe
  <2>10. Ordered(memory) /\ Ordered(memRsp) /\ Ahead(memRsp, memory)
    BY DEF Pipe
  <2> QED BY <1>1, <2>1, <2>5, <2>7, <2>8, <2>9, <2>10 DEF Pipe
<1> QED BY <1>2, <1>3 DEF Submit

LEMMA PipeStep == Typed /\ Sequences /\ Pipe /\ [Next]_vars => Pipe'
<1> SUFFICES ASSUME Typed, Sequences, Pipe, [Next]_vars PROVE Pipe'
  OBVIOUS
<1>1. UNCHANGED <<tickets, memReq, memory, memRsp>> => Pipe'
  BY PipeStays
<1>2. CASE PeerSend \/ PeerGrant
  BY <1>1, <1>2 DEF PeerSend, PeerGrant, PeerFrame, targetVars, memVars
<1>3. CASE PeerReceive \/ PeerAccept
  BY <1>1, <1>3 DEF PeerReceive, PeerAccept, targetVars, memVars
<1>4. CASE Receive \/ Assemble \/ Transmit \/ Pack \/ Send
  BY <1>1, <1>4 DEF Receive, Assemble, Transmit, Pack, Send, memVars
<1>5. CASE UNCHANGED vars
  BY <1>1, <1>5 DEF vars, targetVars, memVars
<1> QED BY <1>2, <1>3, <1>4, <1>5, MemTakeKeepsPipe, MemCompleteKeepsPipe, CollectKeepsPipe,
         SubmitKeepsPipe DEF Next

OrderInv == Typed /\ Sequences /\ Pipe

\* The requests of a plane and direction are taken, wait and are submitted in the
\* order of their numbers, each once; the transactions with a ticket are those in
\* the memory and in the two FIFOs to it, and each of these keeps the order of a
\* group (aou_target.h:85-123, 149-181).
THEOREM OrderInvariance == Spec => []OrderInv
<1>1. Init => OrderInv
  BY InitTyped, SequencesInitially, PipeInitially DEF OrderInv
<1>2. OrderInv /\ [Next]_vars => OrderInv'
  BY NextTyped, SequencesStep, PipeStep DEF OrderInv
<1> QED BY <1>1, <1>2, PTL DEF Spec

\* Whatever order the memory takes between groups, a response finds a ticket,
\* the ticket of its own transaction (aou_target.h:177-181).
THEOREM ResponsesFindTheirTickets == Spec => []ResponseFindsItsTicket
<1>1. OrderInv => ResponseFindsItsTicket
  <2> SUFFICES ASSUME OrderInv, memRsp # <<>>
               PROVE  /\ TicketOf(Head(memRsp)) # 0
                      /\ tickets[TicketOf(Head(memRsp))] = Head(memRsp)
    BY DEF ResponseFindsItsTicket
  <2> QED BY OldestTicket DEF OrderInv
<1> QED BY <1>1, OrderInvariance, PTL

-----------------------------------------------------------------------------
\* The beats of a plane's writes

Beats(rp) == Program(<<rp, "WriteData">>)
BeatCount(rp, n) == Writes[rp][n].beats

\* The beat that follows beat m[2] of write m[1].
NextBeat(rp, m) ==
  IF m[2] < BeatCount(rp, m[1]) THEN <<m[1], m[2] + 1>> ELSE <<m[1] + 1, 1>>

\* q lists the beats of the first m writes of a plane.
Lists(rp, q, m) ==
  /\ q \in Seq(Message) /\ q # <<>>
  /\ q[1] = <<1, 1>>
  /\ q[Len(q)] = <<m, BeatCount(rp, m)>>
  /\ \A k \in 1 .. Len(q) - 1 : q[k + 1] = NextBeat(rp, q[k])

LEMMA BurstIs ==
  ASSUME NEW rp \in Rp, NEW m \in 1 .. Len(Writes[rp])
  PROVE  /\ m \in Nat /\ BeatCount(rp, m) \in Nat \ {0}
         /\ BurstOf(rp, m) \in Seq(Message) /\ Len(BurstOf(rp, m)) = BeatCount(rp, m)
         /\ \A b \in 1 .. BeatCount(rp, m) : BurstOf(rp, m)[b] = <<m, b>>
<1>1. Writes[rp] \in Seq([id : Nat, beats : Nat \ {0}])
  BY TargetAssumption
<1>2. m \in Nat /\ BeatCount(rp, m) \in Nat \ {0}
  BY <1>1, JobHasBeats DEF BeatCount
<1> DEFINE beats == BeatCount(rp, m)
           f == [b \in 1 .. beats |-> <<m, b>>]
<1>3. BurstOf(rp, m) = f
  BY DEF BurstOf, BeatCount
<1> HIDE DEF beats
<1>4. f \in [1 .. beats -> Message]
  BY <1>2 DEF Message
<1>5. f \in Seq(Message) /\ Len(f) = beats
  <2>1. beats \in Nat
    BY <1>2 DEF beats
  <2> HIDE DEF f
  <2> QED BY <1>4, <2>1, SeqOfFunction
<1>6. \A b \in 1 .. beats : f[b] = <<m, b>>
  OBVIOUS
<1> HIDE DEF f
<1> QED BY <1>2, <1>3, <1>5, <1>6 DEF beats

LEMMA FirstBurstLists ==
  ASSUME NEW rp \in Rp, 1 \in 1 .. Len(Writes[rp])
  PROVE  Lists(rp, BurstOf(rp, 1), 1)
<1> DEFINE q == BurstOf(rp, 1)
           beats == BeatCount(rp, 1)
<1>1. /\ beats \in Nat \ {0} /\ q \in Seq(Message) /\ Len(q) = beats
      /\ \A b \in 1 .. beats : q[b] = <<1, b>>
  BY BurstIs
<1> HIDE DEF q
<1>2. q # <<>>
  BY <1>1
<1>3. q[1] = <<1, 1>> /\ q[Len(q)] = <<1, beats>>
  BY <1>1
<1>4. ASSUME NEW k \in 1 .. Len(q) - 1 PROVE q[k + 1] = NextBeat(rp, q[k])
  <2>1. k \in 1 .. beats /\ k + 1 \in 1 .. beats /\ k < beats
    BY <1>1
  <2>2. q[k] = <<1, k>> /\ q[k + 1] = <<1, k + 1>>
    BY <1>1, <2>1
  <2>3. NextBeat(rp, <<1, k>>) = <<1, k + 1>>
    BY <2>1 DEF NextBeat
  <2> QED BY <2>2, <2>3
<1> QED BY <1>1, <1>2, <1>3, <1>4 DEF Lists, q

LEMMA JoinedBurstLists ==
  ASSUME NEW rp \in Rp, NEW m \in Nat \ {0}, NEW q, Lists(rp, q, m), m + 1 \in 1 .. Len(Writes[rp])
  PROVE  Lists(rp, q \o BurstOf(rp, m + 1), m + 1)
<1> DEFINE r == BurstOf(rp, m + 1)
           beats == BeatCount(rp, m + 1)
           len == Len(q)
           s == q \o r
<1>1. /\ beats \in Nat \ {0} /\ r \in Seq(Message) /\ Len(r) = beats
      /\ \A b \in 1 .. beats : r[b] = <<m + 1, b>>
  BY BurstIs
<1>2. /\ q \in Seq(Message) /\ q # <<>> /\ q[1] = <<1, 1>> /\ q[len] = <<m, BeatCount(rp, m)>>
      /\ \A k \in 1 .. len - 1 : q[k + 1] = NextBeat(rp, q[k])
  BY DEF Lists
<1>3. len \in Nat \ {0}
  BY <1>2
<1> HIDE DEF r
<1>4. /\ s \in Seq(Message) /\ Len(s) = len + beats
      /\ \A k \in 1 .. len : s[k] = q[k]
      /\ \A b \in 1 .. beats : s[len + b] = r[b]
  BY <1>1, <1>2, JoinedPlaces, JoinIsSeq
<1> HIDE DEF s, len, beats
<1>5. s # <<>> /\ s[1] = <<1, 1>> /\ s[Len(s)] = <<m + 1, beats>>
  <2>1. Len(s) \in Nat \ {0} /\ 1 \in 1 .. len /\ beats \in 1 .. beats
    BY <1>1, <1>3, <1>4
  <2>2. s[1] = q[1] /\ s[len + beats] = r[beats] /\ r[beats] = <<m + 1, beats>>
    BY <1>1, <1>4, <2>1
  <2>3. s # <<>>
    BY <2>1
  <2> QED BY <1>2, <1>4, <2>2, <2>3
<1>6. ASSUME NEW k \in 1 .. Len(s) - 1 PROVE s[k + 1] = NextBeat(rp, s[k])
  <2>0. k \in 1 .. len + beats - 1 /\ k \in Nat
    BY <1>1, <1>3, <1>4
  <2>1. CASE k < len
    <3>1. k \in 1 .. len - 1 /\ k \in 1 .. len /\ k + 1 \in 1 .. len
      BY <1>3, <2>0, <2>1
    <3> QED BY <1>2, <1>4, <3>1
  <2>2. CASE k = len
    <3>1. s[k] = <<m, BeatCount(rp, m)>>
      <4>1. len \in 1 .. len
        BY <1>3
      <4> QED BY <1>2, <1>4, <2>2, <4>1
    <3>2. s[k + 1] = <<m + 1, 1>>
      <4>1. 1 \in 1 .. beats
        BY <1>1
      <4> QED BY <1>1, <1>4, <2>2, <4>1
    <3>3. NextBeat(rp, <<m, BeatCount(rp, m)>>) = <<m + 1, 1>>
      <4>1. BeatCount(rp, m) \in Nat
        <5>1. m \in 1 .. Len(Writes[rp])
          BY TargetAssumption
        <5> QED BY <5>1, BurstIs
      <4> DEFINE last == BeatCount(rp, m)
      <4>2. NextBeat(rp, <<m, last>>) = IF last < last THEN <<m, last + 1>> ELSE <<m + 1, 1>>
        BY DEF NextBeat
      <4>3. ~(last < last)
        BY <4>1
      <4> QED BY <4>2, <4>3
    <3> QED BY <3>1, <3>2, <3>3
  <2>3. CASE k > len
    <3>1. PICK b \in 1 .. beats - 1 : k = len + b
      <4>1. k - len \in 1 .. beats - 1 /\ k = len + (k - len)
        BY <1>1, <1>3, <2>0, <2>3
      <4> QED BY <4>1
    <3>2. b \in 1 .. beats /\ b + 1 \in 1 .. beats /\ b < beats /\ k + 1 = len + (b + 1)
      BY <1>1, <1>3, <3>1
    <3>3. s[k] = <<m + 1, b>> /\ s[k + 1] = <<m + 1, b + 1>>
      BY <1>1, <1>4, <3>1, <3>2
    <3>4. NextBeat(rp, <<m + 1, b>>) = <<m + 1, b + 1>>
      BY <3>2 DEF NextBeat, beats
    <3> QED BY <3>3, <3>4
  <2> QED BY <1>3, <2>0, <2>1, <2>2, <2>3
<1> QED BY <1>4, <1>5, <1>6 DEF Lists, s, beats, r

\* The data of a plane is the bursts of its writes, one after the other.
LEMMA BeatsFollow ==
  ASSUME NEW rp \in Rp
  PROVE  /\ Beats(rp) \in Seq(Message) /\ Len(Beats(rp)) \in Nat
         /\ Len(Beats(rp)) > 0 => Beats(rp)[1] = <<1, 1>>
         /\ \A k \in 1 .. Len(Beats(rp)) - 1 : Beats(rp)[k + 1] = NextBeat(rp, Beats(rp)[k])
<1> DEFINE len == Len(Writes[rp])
           s == [n \in 1 .. len |-> BurstOf(rp, n)]
<1>1. len \in Nat
  BY TargetAssumption
<1>2. <<rp, "WriteData">> \in ReqCell
  BY DEF ReqCell, ReqKind
<1>3. Beats(rp) \in Seq(Message)
  BY <1>2, ProgramIsSeq DEF Beats
<1>4. Beats(rp) = FlattenSeq(s)
  BY DEF Beats, Program
<1>5. Len(s) = len /\ \A n \in 1 .. len : s[n] = BurstOf(rp, n)
  BY <1>1
<1> HIDE DEF s
<1>6. CASE len = 0
  <2>1. FlattenSeq(s) = s
    BY <1>5, <1>6 DEF FlattenSeq
  <2>2. Len(Beats(rp)) = 0
    BY <1>4, <1>5, <1>6, <2>1
  <2> QED BY <1>3, <2>2
<1>7. CASE len # 0
  <2> DEFINE N == {n \in Nat : n + 1 \in 1 .. len => Lists(rp, Flat(s)[n + 1], n + 1)}
  <2>1. 0 \in N
    <3>1. ASSUME 1 \in 1 .. len PROVE Lists(rp, Flat(s)[1], 1)
      <4>1. Flat(s)[1] = s[1] /\ s[1] = BurstOf(rp, 1)
        BY <1>1, <1>5, <3>1, FlatIs
      <4>2. Lists(rp, BurstOf(rp, 1), 1)
        BY <3>1, FirstBurstLists
      <4> QED BY <4>1, <4>2
    <3> QED BY <3>1
  <2>2. ASSUME NEW n \in N PROVE n + 1 \in N
    <3>0. n \in Nat
      OBVIOUS
    <3>1. ASSUME (n + 1) + 1 \in 1 .. len PROVE Lists(rp, Flat(s)[(n + 1) + 1], (n + 1) + 1)
      <4>1. n + 1 \in 1 .. len /\ n + 1 \in Nat /\ (n + 1) + 1 # 1 /\ ((n + 1) + 1) - 1 = n + 1
        BY <1>1, <3>0, <3>1
      <4>2. Lists(rp, Flat(s)[n + 1], n + 1)
        BY <4>1
      <4>3. Flat(s)[(n + 1) + 1] = Flat(s)[n + 1] \o s[(n + 1) + 1]
        BY <1>1, <1>5, <3>1, <4>1, FlatIs
      <4>4. s[(n + 1) + 1] = BurstOf(rp, (n + 1) + 1)
        BY <1>5, <3>1
      <4>5. Lists(rp, Flat(s)[n + 1] \o BurstOf(rp, (n + 1) + 1), (n + 1) + 1)
        BY <3>1, <4>1, <4>2, JoinedBurstLists
      <4> QED BY <4>3, <4>4, <4>5
    <3>2. n + 1 \in Nat
      BY <3>0
    <3> QED BY <3>1, <3>2
  <2>3. N \in SUBSET Nat
    OBVIOUS
  <2> HIDE DEF N
  <2>4. N = Nat
    BY <2>1, <2>2, <2>3, AllNumbers
  <2>5. len - 1 \in N /\ (len - 1) + 1 = len /\ len \in 1 .. len
    BY <1>1, <1>7, <2>4
  <2>6. Lists(rp, Flat(s)[len], len)
    BY <2>5 DEF N
  <2>7. Beats(rp) = Flat(s)[len]
    BY <1>4, <1>5, <1>7, FlatIsFold
  <2>8. Lists(rp, Beats(rp), len)
    BY <2>6, <2>7
  <2> QED BY <1>3, <2>8 DEF Lists
<1> QED BY <1>6, <1>7

-----------------------------------------------------------------------------
\* Beats and the writes they belong to

\* The writes that wait in q come after o others, the first p of them have all
\* their beats, and k beats have been assembled: they went to these writes and
\* to the o others, and the next beat belongs to the write behind those p.
Jobs(rp, q, o, k, p) ==
  /\ p \in 0 .. Len(q) /\ o \in Nat /\ k \in Nat /\ o + Len(q) <= Len(Writes[rp])
  /\ \A i \in 1 .. p : Len(q[i].got) = BeatCount(rp, o + i)
  /\ \A i \in 1 .. Len(q) : i > p + 1 => q[i].got = <<>>
  /\ p < Len(q) => Len(q[p + 1].got) < BeatCount(rp, o + p + 1)
  /\ \A i \in 1 .. Len(q) : \A b \in DOMAIN q[i].got : q[i].got[b] = <<o + i, b>>
  /\ k < Len(Beats(rp)) =>
       Beats(rp)[k + 1] = <<o + p + 1, (IF p < Len(q) THEN Len(q[p + 1].got) ELSE 0) + 1>>

LEMMA NoJobs ==
  ASSUME NEW rp \in Rp
  PROVE  Jobs(rp, <<>>, 0, 0, 0)
<1>1. Len(Writes[rp]) \in Nat /\ Len(Beats(rp)) \in Nat
  BY TargetAssumption, BeatsFollow
<1>2. Len(Beats(rp)) > 0 => Beats(rp)[1] = <<1, 1>>
  BY BeatsFollow
<1> QED BY <1>1, <1>2 DEF Jobs

LEMMA JobsJoin ==
  ASSUME NEW rp \in Rp, NEW q \in Seq(WriteJob), NEW r \in Seq(WriteJob),
         NEW o, NEW k, NEW p, Jobs(rp, q, o, k, p),
         \A i \in 1 .. Len(r) : r[i].got = <<>>,
         o + (Len(q) + Len(r)) <= Len(Writes[rp])
  PROVE  Jobs(rp, q \o r, o, k, p)
<1> DEFINE s == q \o r
           len == Len(q)
           more == Len(r)
<1>1. /\ len \in Nat /\ more \in Nat /\ Len(s) = len + more
      /\ \A i \in 1 .. len : s[i] = q[i]
      /\ \A i \in 1 .. more : s[len + i] = r[i]
  BY JoinedPlaces
<1>2. p \in 0 .. len /\ o \in Nat /\ k \in Nat
  BY DEF Jobs
<1>3. \A i \in 1 .. len : i > p + 1 => q[i].got = <<>>
  BY DEF Jobs
<1>4. \A i \in 1 .. len : \A b \in DOMAIN q[i].got : q[i].got[b] = <<o + i, b>>
  BY DEF Jobs
<1>5. \A i \in 1 .. p : Len(q[i].got) = BeatCount(rp, o + i)
  BY DEF Jobs
<1>6. p < len => Len(q[p + 1].got) < BeatCount(rp, o + p + 1)
  BY DEF Jobs
<1>7. k < Len(Beats(rp)) =>
        Beats(rp)[k + 1] = <<o + p + 1, (IF p < len THEN Len(q[p + 1].got) ELSE 0) + 1>>
  BY DEF Jobs
<1>8. o + (len + more) <= Len(Writes[rp]) /\ Len(Writes[rp]) \in Nat
  BY TargetAssumption
<1> HIDE DEF s, len
<1>9. ASSUME NEW i \in 1 .. len + more
      PROVE  /\ i <= len => s[i] = q[i]
             /\ i > len => s[i].got = <<>>
  <2>1. CASE i <= len
    <3>1. i \in 1 .. len
      BY <1>1, <2>1
    <3> QED BY <1>1, <2>1, <3>1
  <2>2. CASE i > len
    <3>1. i - len \in 1 .. more /\ len + (i - len) = i
      BY <1>1, <2>2
    <3>2. s[i] = r[i - len] /\ r[i - len].got = <<>>
      BY <1>1, <3>1
    <3> QED BY <1>1, <2>2, <3>2
  <2> QED BY <1>1, <2>1, <2>2
<1> HIDE DEF more
<1>10. \A i \in 1 .. p : Len(s[i].got) = BeatCount(rp, o + i)
  <2> SUFFICES ASSUME NEW i \in 1 .. p PROVE Len(s[i].got) = BeatCount(rp, o + i)
    OBVIOUS
  <2>1. i \in 1 .. len + more /\ i <= len
    BY <1>1, <1>2
  <2> QED BY <1>5, <1>9, <2>1
<1>11. \A i \in 1 .. Len(s) : i > p + 1 => s[i].got = <<>>
  <2> SUFFICES ASSUME NEW i \in 1 .. len + more, i > p + 1 PROVE s[i].got = <<>>
    BY <1>1
  <2>1. CASE i <= len
    <3>1. i \in 1 .. len
      BY <2>1
    <3> QED BY <1>3, <1>9, <2>1, <3>1
  <2>2. CASE i > len
    BY <1>9, <2>2
  <2> QED BY <1>1, <2>1, <2>2
<1>12. /\ p < len => s[p + 1] = q[p + 1]
       /\ p >= len /\ p < Len(s) => Len(s[p + 1].got) = 0
  <2>1. ASSUME p < len PROVE s[p + 1] = q[p + 1]
    <3>1. p + 1 \in 1 .. len + more /\ p + 1 <= len
      BY <1>1, <1>2, <2>1
    <3> QED BY <1>9, <3>1
  <2>2. ASSUME p >= len, p < Len(s) PROVE Len(s[p + 1].got) = 0
    <3>1. p + 1 \in 1 .. len + more /\ p + 1 > len
      BY <1>1, <1>2, <2>2
    <3>2. s[p + 1].got = <<>>
      BY <1>9, <3>1
    <3> QED BY <3>2
  <2> QED BY <2>1, <2>2
<1>13. p < Len(s) => Len(s[p + 1].got) < BeatCount(rp, o + p + 1)
  <2>1. CASE p < len
    BY <1>6, <1>12, <2>1
  <2>2. CASE p >= len /\ p < Len(s)
    <3>1. o + p + 1 \in 1 .. Len(Writes[rp])
      BY <1>1, <1>2, <1>8, <2>2
    <3>2. BeatCount(rp, o + p + 1) \in Nat \ {0}
      BY <3>1, BurstIs
    <3> QED BY <1>12, <2>2, <3>2
  <2> QED BY <1>1, <1>2, <2>1, <2>2
<1>14. ASSUME NEW i \in 1 .. Len(s), NEW b \in DOMAIN s[i].got
       PROVE  s[i].got[b] = <<o + i, b>>
  <2>0. i \in 1 .. len + more
    BY <1>1
  <2>1. CASE i <= len
    <3>1. i \in 1 .. len /\ s[i] = q[i]
      BY <1>9, <2>0, <2>1
    <3> QED BY <1>4, <1>14, <3>1
  <2>2. CASE i > len
    <3>1. s[i].got = <<>>
      BY <1>9, <2>0, <2>2
    <3> QED BY <1>14, <3>1
  <2> QED BY <1>1, <2>0, <2>1, <2>2
<1>15. (IF p < Len(s) THEN Len(s[p + 1].got) ELSE 0) = (IF p < len THEN Len(q[p + 1].got) ELSE 0)
  <2>1. CASE p < len
    <3>1. p < Len(s)
      BY <1>1, <1>2, <2>1
    <3> QED BY <1>12, <2>1, <3>1
  <2>2. CASE p >= len
    <3>1. ~(p < len)
      BY <1>1, <1>2, <2>2
    <3> QED BY <1>12, <2>2, <3>1
  <2> QED BY <1>1, <1>2, <2>1, <2>2
<1>16. p \in 0 .. Len(s) /\ o + Len(s) <= Len(Writes[rp])
  BY <1>1, <1>2, <1>8
<1> QED BY <1>2, <1>7, <1>10, <1>11, <1>13, <1>14, <1>15, <1>16 DEF Jobs, s

\* The first write leaves with all its beats.
LEMMA JobsLeave ==
  ASSUME NEW rp \in Rp, NEW q \in Seq(WriteJob), q # <<>>,
         NEW o, NEW k, NEW p, Jobs(rp, q, o, k, p),
         Len(q[1].got) = BeatCount(rp, o + 1)
  PROVE  Jobs(rp, Tail(q), o + 1, k, p - 1)
<1> DEFINE s == Tail(q)
           len == Len(q)
<1>1. len \in Nat \ {0} /\ Len(s) = len - 1 /\ \A i \in 1 .. len - 1 : s[i] = q[i + 1]
  BY TailIsSeq
<1>2. p \in 0 .. len /\ o \in Nat /\ k \in Nat /\ o + len <= Len(Writes[rp])
  BY DEF Jobs
<1>3. Len(Writes[rp]) \in Nat
  BY TargetAssumption
<1> HIDE DEF s, len
<1>4. p >= 1
  <2> SUFFICES ASSUME p = 0 PROVE FALSE
    BY <1>2
  <2>1. Len(q[p + 1].got) < BeatCount(rp, o + p + 1)
    <3>1. p < len
      BY <1>1
    <3> QED BY <3>1 DEF Jobs, len
  <2>2. p + 1 = 1 /\ o + p + 1 = o + 1
    BY <1>2
  <2>3. BeatCount(rp, o + 1) < BeatCount(rp, o + 1)
    BY <2>1, <2>2
  <2>4. BeatCount(rp, o + 1) \in Nat
    <3>1. o + 1 \in 1 .. Len(Writes[rp])
      BY <1>1, <1>2, <1>3
    <3> QED BY <3>1, BurstIs
  <2> QED BY <2>3, <2>4
<1>5. ASSUME NEW i \in 1 .. p - 1
      PROVE  Len(s[i].got) = BeatCount(rp, (o + 1) + i)
  <2>1. i \in 1 .. len - 1 /\ i + 1 \in 1 .. p /\ (o + 1) + i = o + (i + 1)
    BY <1>1, <1>2
  <2>2. Len(q[i + 1].got) = BeatCount(rp, o + (i + 1))
    BY <2>1 DEF Jobs
  <2> QED BY <1>1, <2>1, <2>2
<1>6. ASSUME NEW i \in 1 .. Len(s), i > (p - 1) + 1
      PROVE  s[i].got = <<>>
  <2>1. i \in 1 .. len - 1 /\ i + 1 \in 1 .. len /\ i + 1 > p + 1
    BY <1>1, <1>2, <1>6
  <2>2. q[i + 1].got = <<>>
    BY <2>1 DEF Jobs, len
  <2> QED BY <1>1, <2>1, <2>2
<1>7. ASSUME NEW i \in 1 .. Len(s), NEW b \in DOMAIN s[i].got
      PROVE  s[i].got[b] = <<(o + 1) + i, b>>
  <2>1. i \in 1 .. len - 1 /\ i + 1 \in 1 .. len /\ (o + 1) + i = o + (i + 1)
    BY <1>1, <1>2
  <2>2. s[i] = q[i + 1]
    BY <1>1, <2>1
  <2>3. q[i + 1].got[b] = <<o + (i + 1), b>>
    BY <1>7, <2>1, <2>2 DEF Jobs, len
  <2> QED BY <2>1, <2>2, <2>3
<1>8. p - 1 < Len(s) => p < len /\ s[(p - 1) + 1] = q[p + 1]
  <2> SUFFICES ASSUME p - 1 < Len(s) PROVE p < len /\ s[(p - 1) + 1] = q[p + 1]
    OBVIOUS
  <2>1. p \in 1 .. len - 1 /\ (p - 1) + 1 = p
    BY <1>1, <1>2, <1>4
  <2> QED BY <1>1, <2>1
<1>9. ~(p - 1 < Len(s)) => ~(p < len)
  BY <1>1, <1>2
<1>10. (o + 1) + (p - 1) + 1 = o + p + 1
  BY <1>2
<1>11. p - 1 < Len(s) => Len(s[(p - 1) + 1].got) < BeatCount(rp, (o + 1) + (p - 1) + 1)
  BY <1>8, <1>10 DEF Jobs, len
<1>12. (IF p - 1 < Len(s) THEN Len(s[(p - 1) + 1].got) ELSE 0)
         = (IF p < len THEN Len(q[p + 1].got) ELSE 0)
  <2>1. CASE p - 1 < Len(s)
    BY <1>8, <2>1
  <2>2. CASE ~(p - 1 < Len(s))
    BY <1>9, <2>2
  <2> QED BY <2>1, <2>2
<1>13. k < Len(Beats(rp)) =>
         Beats(rp)[k + 1] = <<o + p + 1, (IF p < len THEN Len(q[p + 1].got) ELSE 0) + 1>>
  BY DEF Jobs, len
<1>14. k < Len(Beats(rp)) =>
         Beats(rp)[k + 1] = <<(o + 1) + (p - 1) + 1,
                              (IF p - 1 < Len(s) THEN Len(s[(p - 1) + 1].got) ELSE 0) + 1>>
  BY <1>10, <1>12, <1>13
<1>15. /\ p - 1 \in 0 .. Len(s) /\ o + 1 \in Nat /\ k \in Nat
       /\ (o + 1) + Len(s) <= Len(Writes[rp])
  BY <1>1, <1>2, <1>3, <1>4
<1> QED BY <1>5, <1>6, <1>7, <1>11, <1>14, <1>15 DEF Jobs, s

\* The next beat goes to the first write that is not complete.
LEMMA JobsGetBeat ==
  ASSUME NEW rp \in Rp, NEW q \in Seq(WriteJob), NEW r \in Seq(WriteJob), Len(r) = Len(q),
         NEW o, NEW k, NEW p, Jobs(rp, q, o, k, p), p < Len(q), k < Len(Beats(rp)),
         r[p + 1].got = Append(q[p + 1].got, Beats(rp)[k + 1]),
         \A j \in 1 .. Len(q) \ {p + 1} : r[j] = q[j]
  PROVE  \E p2 : Jobs(rp, r, o, k + 1, p2)
<1> DEFINE len  == Len(q)
           n    == o + p + 1
           g    == Len(q[p + 1].got)
           size == BeatCount(rp, n)
<1>1. /\ len \in Nat /\ p \in 0 .. len - 1 /\ o \in Nat /\ k \in Nat
      /\ o + len <= Len(Writes[rp]) /\ Len(Writes[rp]) \in Nat
  BY TargetAssumption DEF Jobs
<1>2. p + 1 \in 1 .. len /\ n \in 1 .. Len(Writes[rp]) /\ n = o + (p + 1) /\ n \in Nat
  BY <1>1
<1>3. q[p + 1].got \in Seq(Message) /\ g \in Nat /\ DOMAIN q[p + 1].got = 1 .. g
  <2>1. q[p + 1] \in WriteJob
    BY <1>2, ElementOfSeq
  <2>2. q[p + 1].got \in Seq(Message)
    BY <2>1 DEF WriteJob
  <2> QED BY <2>2
<1>4. size \in Nat \ {0} /\ g < size
  <2>1. size \in Nat \ {0}
    BY <1>2, BurstIs
  <2> QED BY <2>1 DEF Jobs
<1>5. Beats(rp)[k + 1] = <<n, g + 1>>
  BY DEF Jobs
<1>6. /\ \A i \in 1 .. p : Len(q[i].got) = BeatCount(rp, o + i)
      /\ \A i \in 1 .. len : i > p + 1 => q[i].got = <<>>
      /\ \A i \in 1 .. len : \A b \in DOMAIN q[i].got : q[i].got[b] = <<o + i, b>>
  BY DEF Jobs
<1>7. /\ DOMAIN r[p + 1].got = 1 .. g + 1 /\ Len(r[p + 1].got) = g + 1
      /\ \A b \in 1 .. g + 1 : r[p + 1].got[b] = <<n, b>>
  <2> DEFINE a == q[p + 1].got
  <2>1. <<n, g + 1>> \in Message
    BY <1>2, <1>3 DEF Message
  <2>2. \A b \in 1 .. g : a[b] = <<n, b>>
    BY <1>2, <1>3, <1>6
  <2>3. r[p + 1].got = Append(a, <<n, g + 1>>) /\ a \in Seq(Message) /\ g = Len(a)
    BY <1>3, <1>5
  <2> HIDE DEF a, g, n
  <2>4. /\ Len(Append(a, <<n, g + 1>>)) = g + 1 /\ Append(a, <<n, g + 1>>)[g + 1] = <<n, g + 1>>
        /\ \A b \in 1 .. g : Append(a, <<n, g + 1>>)[b] = a[b]
        /\ DOMAIN Append(a, <<n, g + 1>>) = 1 .. g + 1
    BY <2>1, <2>3, AppendIsSeq
  <2>5. ASSUME NEW b \in 1 .. g + 1 PROVE r[p + 1].got[b] = <<n, b>>
    <3>1. CASE b = g + 1
      BY <2>3, <2>4, <3>1
    <3>2. CASE b # g + 1
      <4>1. b \in 1 .. g
        BY <1>3, <3>2
      <4> QED BY <2>2, <2>3, <2>4, <4>1
    <3> QED BY <3>1, <3>2
  <2> QED BY <2>3, <2>4, <2>5
<1>8. \A j \in 1 .. len : j # p + 1 => r[j] = q[j]
  OBVIOUS
<1>9. ASSUME NEW i \in 1 .. len, NEW b \in DOMAIN r[i].got PROVE r[i].got[b] = <<o + i, b>>
  <2>1. CASE i = p + 1
    BY <1>2, <1>7, <1>9, <2>1
  <2>2. CASE i # p + 1
    BY <1>6, <1>8, <1>9, <2>2
  <2> QED BY <2>1, <2>2
<1>10. Len(Beats(rp)) \in Nat
  BY BeatsFollow
<1>11. k + 1 < Len(Beats(rp)) => Beats(rp)[(k + 1) + 1] = NextBeat(rp, <<n, g + 1>>)
  <2> SUFFICES ASSUME k + 1 < Len(Beats(rp))
               PROVE  Beats(rp)[(k + 1) + 1] = NextBeat(rp, <<n, g + 1>>)
    OBVIOUS
  <2>1. k + 1 \in 1 .. Len(Beats(rp)) - 1
    BY <1>1, <1>10
  <2> QED BY <1>5, <2>1, BeatsFollow
<1>12. NextBeat(rp, <<n, g + 1>>) = IF g + 1 < size THEN <<n, (g + 1) + 1>> ELSE <<n + 1, 1>>
  BY DEF NextBeat
<1>13. k + 1 \in Nat /\ o + Len(r) <= Len(Writes[rp])
  BY <1>1
<1>14. ASSUME NEW i \in 1 .. p PROVE Len(r[i].got) = BeatCount(rp, o + i)
  <2>1. i \in 1 .. len /\ i # p + 1
    BY <1>1
  <2> QED BY <1>6, <1>8, <2>1
<1> HIDE DEF g, size, n
<1>15. CASE g + 1 < size
  <2>1. ASSUME NEW i \in 1 .. len, i > p + 1 PROVE r[i].got = <<>>
    <3>1. i # p + 1
      BY <1>1, <2>1
    <3> QED BY <1>6, <1>8, <2>1, <3>1
  <2>2. k + 1 < Len(Beats(rp)) => Beats(rp)[(k + 1) + 1] = <<n, (g + 1) + 1>>
    BY <1>11, <1>12, <1>15
  <2>3. (IF p < Len(r) THEN Len(r[p + 1].got) ELSE 0) = g + 1
    BY <1>7
  <2>4. p \in 0 .. Len(r)
    BY <1>1
  <2>5. p < Len(r) => Len(r[p + 1].got) < BeatCount(rp, o + p + 1)
    BY <1>7, <1>15 DEF size, n
  <2>6. k + 1 < Len(Beats(rp)) => Beats(rp)[(k + 1) + 1]
          = <<o + p + 1, (IF p < Len(r) THEN Len(r[p + 1].got) ELSE 0) + 1>>
    BY <2>2, <2>3 DEF n
  <2>7. Jobs(rp, r, o, k + 1, p)
    BY <1>1, <1>9, <1>13, <1>14, <2>1, <2>4, <2>5, <2>6 DEF Jobs
  <2> QED BY <2>7
<1>16. CASE g + 1 = size
  <2>1. ASSUME NEW i \in 1 .. p + 1 PROVE Len(r[i].got) = BeatCount(rp, o + i)
    <3>1. CASE i = p + 1
      BY <1>2, <1>7, <1>16, <3>1 DEF size
    <3>2. CASE i # p + 1
      <4>1. i \in 1 .. p
        BY <1>1, <3>2
      <4> QED BY <1>14, <4>1
    <3> QED BY <3>1, <3>2
  <2>2. ASSUME NEW i \in 1 .. len, i > p + 1 PROVE r[i].got = <<>>
    <3>1. i # p + 1
      BY <1>1, <2>2
    <3> QED BY <1>6, <1>8, <2>2, <3>1
  <2>3. p + 1 < len => Len(r[(p + 1) + 1].got) = 0
    <3> SUFFICES ASSUME p + 1 < len PROVE Len(r[(p + 1) + 1].got) = 0
      OBVIOUS
    <3>1. (p + 1) + 1 \in 1 .. len /\ (p + 1) + 1 > p + 1
      BY <1>1
    <3>2. r[(p + 1) + 1].got = <<>>
      BY <2>2, <3>1
    <3> QED BY <3>2
  <2>4. p + 1 < len => Len(r[(p + 1) + 1].got) < BeatCount(rp, o + (p + 1) + 1)
    <3> SUFFICES ASSUME p + 1 < len
                 PROVE  Len(r[(p + 1) + 1].got) < BeatCount(rp, o + (p + 1) + 1)
      OBVIOUS
    <3>1. o + (p + 1) + 1 \in 1 .. Len(Writes[rp])
      BY <1>1
    <3>2. BeatCount(rp, o + (p + 1) + 1) \in Nat \ {0}
      BY <3>1, BurstIs
    <3> QED BY <2>3, <3>2
  <2>5. k + 1 < Len(Beats(rp)) => Beats(rp)[(k + 1) + 1] = <<n + 1, 1>>
    <3>1. ~(g + 1 < size)
      BY <1>3, <1>4, <1>16
    <3> QED BY <1>11, <1>12, <3>1
  <2>6. (IF p + 1 < Len(r) THEN Len(r[(p + 1) + 1].got) ELSE 0) + 1 = 1
    BY <2>3
  <2>7. n + 1 = o + (p + 1) + 1 /\ p + 1 \in 0 .. Len(r)
    BY <1>1, <1>2
  <2>8. k + 1 < Len(Beats(rp)) => Beats(rp)[(k + 1) + 1]
          = <<o + (p + 1) + 1, (IF p + 1 < Len(r) THEN Len(r[(p + 1) + 1].got) ELSE 0) + 1>>
    BY <2>5, <2>6, <2>7
  <2>9. ASSUME NEW i \in 1 .. Len(r), i > (p + 1) + 1 PROVE r[i].got = <<>>
    <3>1. i \in 1 .. len /\ i > p + 1
      BY <1>1, <2>9
    <3> QED BY <2>2, <3>1
  <2>10. Jobs(rp, r, o, k + 1, p + 1)
    BY <1>1, <1>9, <1>13, <2>1, <2>4, <2>7, <2>8, <2>9 DEF Jobs
  <2> QED BY <2>10
<1>17. g + 1 < size \/ g + 1 = size
  BY <1>3, <1>4
<1> QED BY <1>15, <1>16, <1>17

-----------------------------------------------------------------------------
\* The write data on its way through the target

\* The first e beats of a plane are taken, and the last of them wait for their
\* write.
Stream(rp, e) ==
  /\ Taken(<<rp, "WriteData">>, e) /\ Len(data[rp]) <= e
  /\ \A i \in 1 .. Len(data[rp]) : data[rp][i] = Beats(rp)[e - Len(data[rp]) + i]

LEMMA StreamStays ==
  ASSUME NEW rp \in Rp, NEW e, Stream(rp, e), Taken(<<rp, "WriteData">>, e)',
         data'[rp] = data[rp]
  PROVE  Stream(rp, e)'
<1>1. Beats(rp)' = Beats(rp)
  BY DEF Beats, Program, BurstOf
<1> QED BY <1>1 DEF Stream

LEMMA StreamIsTaken ==
  ASSUME Typed, NEW rp \in Rp, NEW e, Stream(rp, e)
  PROVE  /\ e \in Nat /\ data[rp] \in Seq(Message) /\ Len(data[rp]) \in Nat
         /\ e <= Len(Beats(rp)) /\ Len(Beats(rp)) \in Nat
<1> DEFINE c == <<rp, "WriteData">>
<1>1. c \in ReqCell
  BY DEF ReqCell, ReqKind
<1>2. Taken(c, e)
  BY DEF Stream
<1> HIDE DEF c
<1>3. e \in Nat /\ e <= issued[c] /\ issued[c] \in Nat /\ issued[c] <= Len(Program(c))
  BY <1>1, <1>2, TakenIsIssued
<1>4. Len(Beats(rp)) = Len(Program(c)) /\ Len(Beats(rp)) \in Nat
  BY BeatsFollow DEF Beats, c
<1>5. data[rp] \in Seq(Message) /\ Len(data[rp]) \in Nat
  BY DEF Typed, JobsTyped
<1> QED BY <1>3, <1>4, <1>5

\* The data of a frame goes on from the last beat taken.
LEMMA StreamReceived ==
  ASSUME Typed, linkRx # <<>>, linkRx' = Tail(linkRx), TakeFrame(Head(linkRx)),
         issued' = issued, NEW rp \in Rp, NEW e, Stream(rp, e)
  PROVE  \E m : Stream(rp, m)' /\ m - Len(data'[rp]) = e - Len(data[rp])
<1> DEFINE c    == <<rp, "WriteData">>
           msgs == Head(linkRx).messages[c]
           len  == Len(data[rp])
           more == Len(msgs)
<1>0. PICK m : m = e + more
  OBVIOUS
<1>1. c \in ReqCell /\ data'[rp] = data[rp] \o msgs
  BY DEF ReqCell, ReqKind, TakeFrame
<1>2. Taken(c, e) /\ len <= e /\ \A i \in 1 .. len : data[rp][i] = Beats(rp)[e - len + i]
  BY DEF Stream
<1>3. e \in Nat /\ data[rp] \in Seq(Message) /\ len \in Nat
  BY StreamIsTaken
<1>4. /\ msgs \in Seq(Message) /\ more \in Nat /\ Taken(c, m)'
      /\ \A k \in 1 .. more : msgs[k] = Program(c)[e + k]
  <2>1. Taken(c, e) /\ c \in ReqCell
    BY <1>1, <1>2
  <2> HIDE DEF c
  <2>2. /\ msgs \in Seq(Message) /\ more \in Nat
        /\ \A k \in 1 .. more : msgs[k] = Program(c)[e + k]
    BY <2>1, FirstIsTaken, Zenon
  <2>3. \A x : x = e + more => Taken(c, x)'
    BY <2>1, FirstIsTaken, Zenon
  <2> QED BY <1>0, <2>2, <2>3
<1>5. Beats(rp)' = Beats(rp) /\ Beats(rp) = Program(c)
  BY DEF Beats, Program, BurstOf
<1> HIDE DEF msgs
<1>6. /\ Len(data[rp] \o msgs) = len + more
      /\ \A i \in 1 .. len : (data[rp] \o msgs)[i] = data[rp][i]
      /\ \A k \in 1 .. more : (data[rp] \o msgs)[len + k] = msgs[k]
  BY <1>3, <1>4, JoinedPlaces
<1> DEFINE d == data'[rp]
<1>7. /\ Len(d) = len + more
      /\ \A i \in 1 .. len : d[i] = Beats(rp)[e - len + i]
      /\ \A k \in 1 .. more : d[len + k] = Beats(rp)[e + k]
  BY <1>1, <1>2, <1>4, <1>5, <1>6
<1> HIDE DEF c, len, more, d
<1>8. m = e + more /\ Len(d) <= m /\ m - Len(d) = e - len
  BY <1>0, <1>2, <1>3, <1>4, <1>7
<1>9. ASSUME NEW i \in 1 .. Len(d) PROVE d[i] = Beats(rp)[m - Len(d) + i]
  <2>1. CASE i \in 1 .. len
    BY <1>7, <1>8, <2>1
  <2>2. CASE i \notin 1 .. len
    <3>0. /\ e \in Nat /\ len \in Nat /\ more \in Nat /\ Len(d) = len + more /\ m = e + more
          /\ i \in 1 .. len + more
      BY <1>3, <1>4, <1>7, <1>8
    <3>1. i - len \in 1 .. more /\ len + (i - len) = i /\ m - Len(d) + i = e + (i - len)
      BY <2>2, <3>0
    <3>2. d[len + (i - len)] = Beats(rp)[e + (i - len)]
      BY <1>7, <3>1
    <3> QED BY <3>1, <3>2
  <2> QED BY <2>1, <2>2
<1>10. Stream(rp, m)'
  BY <1>4, <1>5, <1>8, <1>9 DEF Stream, d, c
<1> QED BY <1>8, <1>10 DEF d, len

\* A beat leaves for its write.
LEMMA StreamAssembled ==
  ASSUME Typed, NEW rp \in Rp, NEW e, Stream(rp, e), Taken(<<rp, "WriteData">>, e)',
         data[rp] # <<>>, data'[rp] = Tail(data[rp])
  PROVE  /\ Stream(rp, e)' /\ e - Len(data'[rp]) = (e - Len(data[rp])) + 1
         /\ Head(data[rp]) = Beats(rp)[(e - Len(data[rp])) + 1]
         /\ e - Len(data[rp]) < Len(Beats(rp))
<1> DEFINE len == Len(data[rp])
<1>1. /\ e \in Nat /\ data[rp] \in Seq(Message) /\ len \in Nat
      /\ e <= Len(Beats(rp)) /\ Len(Beats(rp)) \in Nat
  BY StreamIsTaken
<1>2. /\ len \in Nat \ {0} /\ Len(Tail(data[rp])) = len - 1 /\ Head(data[rp]) = data[rp][1]
      /\ \A i \in 1 .. len - 1 : Tail(data[rp])[i] = data[rp][i + 1]
  BY <1>1, TailIsSeq
<1>3. len <= e /\ \A i \in 1 .. len : data[rp][i] = Beats(rp)[e - len + i]
  BY DEF Stream
<1>4. Beats(rp)' = Beats(rp)
  BY DEF Beats, Program, BurstOf
<1> DEFINE d == data'[rp]
<1>5. Len(d) = len - 1 /\ \A i \in 1 .. len - 1 : d[i] = data[rp][i + 1]
  BY <1>2
<1> HIDE DEF len, d
<1>6. ASSUME NEW i \in 1 .. Len(d) PROVE d[i] = Beats(rp)[e - Len(d) + i]
  <2>1. i \in 1 .. len - 1 /\ i + 1 \in 1 .. len /\ e - Len(d) + i = e - len + (i + 1)
    BY <1>1, <1>2, <1>5
  <2> QED BY <1>3, <1>5, <2>1
<1>7. Len(d) <= e /\ e - Len(d) = (e - len) + 1 /\ e - len < Len(Beats(rp))
  BY <1>1, <1>2, <1>3, <1>5
<1>8. Head(data[rp]) = Beats(rp)[(e - len) + 1]
  <2>1. 1 \in 1 .. len
    BY <1>2
  <2> QED BY <1>2, <1>3, <2>1
<1>9. Stream(rp, e)'
  BY <1>4, <1>6, <1>7 DEF Stream, d
<1> QED BY <1>7, <1>8, <1>9 DEF d, len

-----------------------------------------------------------------------------
\* Every beat finds its write

\* The target has taken n write requests and e beats of plane rp, has submitted
\* o of the writes and assembled k of the beats.
Assigned(rp, n, e, o, k, p) ==
  /\ InSequence(<<rp, "WriteReq">>, n) /\ Stream(rp, e)
  /\ o = n - Len(writes[rp]) /\ k = e - Len(data[rp])
  /\ Jobs(rp, writes[rp], o, k, p)

Bursts == \A rp \in Rp : \E n, e, o, k, p : Assigned(rp, n, e, o, k, p)

LEMMA WritesOfPlane ==
  ASSUME NEW rp \in Rp
  PROVE  LET c == <<rp, "WriteReq">> IN
         /\ c \in HeaderCell /\ c \in ReqCell /\ Len(Program(c)) = Len(Writes[rp])
         /\ Len(Writes[rp]) \in Nat /\ Waiting(c) = Len(writes[rp])
         /\ \A i : Number(c, i) = writes[rp][i].n
<1> DEFINE c == <<rp, "WriteReq">>
<1>1. c \in HeaderCell /\ c \in ReqCell
  BY DEF HeaderCell, ReqCell, ReqKind
<1>2. Len(Writes[rp]) \in Nat
  BY TargetAssumption
<1>3. Program(c) = [n \in 1 .. Len(Writes[rp]) |-> <<n, 0>>]
  BY DEF Program
<1>4. Len(Program(c)) = Len(Writes[rp])
  BY <1>2, <1>3
<1>5. Waiting(c) = Len(writes[rp]) /\ \A i : Number(c, i) = writes[rp][i].n
  BY DEF Waiting, Number
<1> QED BY <1>1, <1>2, <1>4, <1>5

LEMMA BurstsInitially == Init => Bursts
<1> SUFFICES ASSUME Init, NEW rp \in Rp PROVE Assigned(rp, 0, 0, 0, 0, 0)
  BY DEF Bursts
<1>1. writes[rp] = <<>> /\ data[rp] = <<>>
  BY DEF Init
<1>2. InSequence(<<rp, "WriteReq">>, 0)
  BY SequenceInitially, WritesOfPlane
<1>3. Taken(<<rp, "WriteData">>, 0)
  BY TakenInitially DEF ReqCell, ReqKind
<1>4. Stream(rp, 0)
  BY <1>1, <1>3 DEF Stream
<1>5. Jobs(rp, writes[rp], 0, 0, 0)
  BY <1>1, NoJobs
<1>6. 0 = 0 - Len(writes[rp]) /\ 0 = 0 - Len(data[rp])
  <2>1. Len(writes[rp]) = 0 /\ Len(data[rp]) = 0
    BY <1>1
  <2> QED BY <2>1
<1> QED BY <1>2, <1>4, <1>5, <1>6 DEF Assigned

LEMMA AssignmentStays ==
  ASSUME NEW rp \in Rp, NEW n, NEW e, NEW o, NEW k, NEW p, Assigned(rp, n, e, o, k, p),
         InSequence(<<rp, "WriteReq">>, n)', Stream(rp, e)',
         writes'[rp] = writes[rp], data'[rp] = data[rp]
  PROVE  Assigned(rp, n, e, o, k, p)'
<1> DEFINE q == writes[rp]
           r == writes'[rp]
<1>1. Jobs(rp, q, o, k, p) /\ r = q
  BY DEF Assigned
<1> HIDE DEF q, r
<1>2. Jobs(rp, r, o, k, p)
  BY <1>1
<1>3. o = n - Len(writes'[rp]) /\ k = e - Len(data'[rp])
  BY DEF Assigned
<1> QED BY <1>2, <1>3 DEF Assigned, r

\* A step that neither takes a frame, deals a beat nor submits a write.
LEMMA QuietStepKeepsAssignment ==
  ASSUME NEW rp \in Rp, NEW n, NEW e, NEW o, NEW k, NEW p, Assigned(rp, n, e, o, k, p),
         InSequence(<<rp, "WriteReq">>, n)', UNCHANGED <<linkRx, issued>>,
         writes'[rp] = writes[rp], data'[rp] = data[rp]
  PROVE  Assigned(rp, n, e, o, k, p)'
<1>1. <<rp, "WriteData">> \in ReqCell
  BY DEF ReqCell, ReqKind
<1>2. Stream(rp, e)
  BY DEF Assigned
<1>3. Taken(<<rp, "WriteData">>, e)'
  BY <1>1, <1>2, TakenStays DEF Stream
<1>4. Stream(rp, e)'
  BY <1>2, <1>3, StreamStays
<1> QED BY <1>4, AssignmentStays

LEMMA PeerFrameKeepsAssignment ==
  ASSUME Typed, NEW batch, Sendable(batch), NEW grant \in [RspCell -> Nat],
         PeerFrame(batch, grant), NEW rp \in Rp, NEW n, NEW e, NEW o, NEW k, NEW p,
         Assigned(rp, n, e, o, k, p)
  PROVE  Assigned(rp, n, e, o, k, p)'
<1>1. <<rp, "WriteData">> \in ReqCell /\ <<rp, "WriteReq">> \in HeaderCell
  BY DEF ReqCell, ReqKind, HeaderCell
<1>2. Stream(rp, e) /\ InSequence(<<rp, "WriteReq">>, n) /\ Taken(<<rp, "WriteData">>, e)
  BY DEF Assigned, Stream
<1>3. Taken(<<rp, "WriteData">>, e)'
  BY <1>1, <1>2, SentFollow
<1>4. writes' = writes /\ data' = data
  BY DEF PeerFrame, targetVars, jobVars
<1>5. Stream(rp, e)'
  BY <1>2, <1>3, <1>4, StreamStays
<1>6. InSequence(<<rp, "WriteReq">>, n)'
  BY <1>1, <1>2, PeerFrameKeepsSequence
<1> QED BY <1>4, <1>5, <1>6, AssignmentStays

LEMMA ReceiveKeepsAssignment ==
  ASSUME Typed, linkRx # <<>>, linkRx' = Tail(linkRx), TakeFrame(Head(linkRx)),
         UNCHANGED <<issued, tickets>>,
         NEW rp \in Rp, NEW n, NEW e, NEW o, NEW k, NEW p, Assigned(rp, n, e, o, k, p)
  PROVE  \E m, f : Assigned(rp, m, f, o, k, p)'
<1> DEFINE c    == <<rp, "WriteReq">>
           msgs == Head(linkRx).messages[c]
           q    == writes[rp]
           r    == NewJobs(msgs)
           s    == writes'[rp]
<1>1. c \in HeaderCell /\ c \in ReqCell
  BY WritesOfPlane
<1>2. InSequence(c, n) /\ Taken(c, n) /\ Stream(rp, e)
  BY DEF Assigned, InSequence
<1>3. PICK m : m = n + Len(msgs)
  OBVIOUS
<1>4. InSequence(c, m)'
  BY <1>1, <1>2, <1>3, ReceiveKeepsSequence
<1>5. PICK f : Stream(rp, f)' /\ f - Len(data'[rp]) = e - Len(data[rp])
  BY <1>2, StreamReceived
<1>6. s = q \o r /\ q \in Seq(WriteJob)
  BY DEF TakeFrame, Typed, JobsTyped
<1>7. /\ msgs \in Seq(Message) /\ Len(msgs) \in Nat
      /\ \A x : x = n + Len(msgs) => x \in Nat /\ x <= issued[c]
  <2>1. Taken(c, n) /\ c \in ReqCell
    BY <1>1, <1>2
  <2> HIDE DEF c
  <2> QED BY <2>1, FirstIsTaken, Zenon
<1>8. r \in Seq(WriteJob) /\ Len(r) = Len(msgs)
  BY <1>7, NewJobsTyped
<1>9. \A i \in 1 .. Len(r) : r[i].got = <<>>
  <2>1. DOMAIN msgs = 1 .. Len(r)
    BY <1>7, <1>8
  <2>2. ASSUME NEW i \in 1 .. Len(r) PROVE r[i].got = <<>>
    <3> DEFINE number == msgs[i][1]
    <3>1. r[i] = [n |-> number, got |-> <<>>]
      BY <2>1 DEF NewJobs
    <3> HIDE DEF number, r
    <3> QED BY <3>1
  <2> QED BY <2>2
<1>10. Len(q) \in Nat /\ Len(r) \in Nat /\ Len(s) = Len(q) + Len(r)
  <2> HIDE DEF q, r, s
  <2> QED BY <1>6, <1>8, JoinedPlaces
<1>11. m <= Len(Writes[rp])
  <2>1. m \in Nat /\ m <= issued[c]
    BY <1>3, <1>7
  <2>2. issued[c] \in Nat /\ issued[c] <= Len(Program(c))
    BY <1>1 DEF Typed, PeerTyped
  <2>3. Len(Program(c)) = Len(Writes[rp]) /\ Len(Writes[rp]) \in Nat
    BY WritesOfPlane
  <2> HIDE DEF c
  <2> QED BY <2>1, <2>2, <2>3
<1>12. Jobs(rp, q, o, k, p) /\ o = n - Len(q) /\ k = e - Len(data[rp])
  BY DEF Assigned
<1>13. n \in Nat
  BY <1>1, <1>2, TakenIsIssued
<1>14. o + (Len(q) + Len(r)) = m /\ o = m - Len(s)
  <2> HIDE DEF q, r, s, msgs
  <2> QED BY <1>3, <1>8, <1>10, <1>12, <1>13
<1> HIDE DEF q, r, s
<1>15. Jobs(rp, s, o, k, p)
  <2>1. o + (Len(q) + Len(r)) <= Len(Writes[rp])
    BY <1>11, <1>14
  <2>2. Jobs(rp, q \o r, o, k, p)
    BY <1>6, <1>8, <1>9, <1>12, <2>1, JobsJoin
  <2> QED BY <1>6, <2>2
<1>16. k = f - Len(data'[rp])
  BY <1>5, <1>12
<1> QED BY <1>4, <1>5, <1>14, <1>15, <1>16 DEF Assigned, s

\* The first write that is not complete is the one the next beat belongs to.
LEMMA AssembleKeepsAssignment ==
  ASSUME Typed, Assemble,
         NEW rp \in Rp, NEW n, NEW e, NEW o, NEW k, NEW p, Assigned(rp, n, e, o, k, p)
  PROVE  \E x, y : Assigned(rp, n, e, o, x, y)'
<1> DEFINE c == <<rp, "WriteReq">>
           q == writes[rp]
           r == writes'[rp]
           i == OpenJob(rp)
           m == Head(data[rp])
<1>1. /\ c \in HeaderCell /\ c \in ReqCell /\ Waiting(c) = Len(q)
      /\ \A j : Number(c, j) = q[j].n
  BY WritesOfPlane
<1>2. /\ InSequence(c, n) /\ Stream(rp, e) /\ Taken(<<rp, "WriteData">>, e)
      /\ o = n - Len(q) /\ k = e - Len(data[rp]) /\ Jobs(rp, q, o, k, p)
  BY DEF Assigned, Stream
<1>3. InSequence(c, n)'
  BY <1>1, <1>2, AssembleKeepsSequence
<1>4. UNCHANGED <<linkRx, issued>>
  BY DEF Assemble, linkVars, peerVars
<1>5. CASE ~GetsBeat(rp)
  <2>1. writes'[rp] = writes[rp] /\ data'[rp] = data[rp]
    BY <1>5 DEF Assemble
  <2>2. Assigned(rp, n, e, o, k, p)'
    BY <1>3, <1>4, <2>1, QuietStepKeepsAssignment
  <2> QED BY <2>2
<1>6. CASE GetsBeat(rp)
  <2>1. /\ r = Given(q, i, m) /\ data'[rp] = Tail(data[rp])
        /\ i # 0 /\ data[rp] # <<>>
    BY <1>6 DEF Assemble, GetsBeat, Given
  <2>2. q \in Seq(WriteJob) /\ data[rp] \in Seq(Message)
    BY DEF Typed, JobsTyped
  <2>3. /\ i \in 1 .. Len(q) /\ ~Complete(rp, q[i])
        /\ \A j \in 1 .. Len(q) : ~Complete(rp, q[j]) => i <= j
    BY <2>1, OpenJobIsOne
  <2>4. Taken(<<rp, "WriteData">>, e)'
    <3>1. <<rp, "WriteData">> \in ReqCell
      BY DEF ReqCell, ReqKind
    <3> QED BY <1>2, <1>4, <3>1, TakenStays
  <2>5. /\ Stream(rp, e)' /\ e - Len(data'[rp]) = (e - Len(data[rp])) + 1
        /\ m = Beats(rp)[(e - Len(data[rp])) + 1] /\ e - Len(data[rp]) < Len(Beats(rp))
    BY <1>2, <2>1, <2>4, StreamAssembled
  <2>6. m \in Message
    BY <2>1, <2>2, TailIsSeq
  <2>7. \A j \in 1 .. Len(q) : q[j].n = o + j
    <3>1. \A j \in 1 .. Len(q) : Number(c, j) = n - Len(q) + j
      BY <1>1, <1>2 DEF InSequence
    <3> QED BY <1>1, <1>2, <3>1
  <2> HIDE DEF q, r, i, m, c
  <2>8. /\ r \in Seq(WriteJob) /\ Len(r) = Len(q) /\ r[i].got = Append(q[i].got, m)
        /\ \A j \in 1 .. Len(q) \ {i} : r[j] = q[j]
    BY <2>1, <2>2, <2>3, <2>6, NumbersOfJobs
  <2>9. \A j \in 1 .. Len(q) : Complete(rp, q[j]) <=> Len(q[j].got) = BeatCount(rp, o + j)
    BY <2>7 DEF Complete, BeatCount
  <2>10. /\ p \in 0 .. Len(q) /\ Len(q) \in Nat /\ o \in Nat
         /\ \A j \in 1 .. p : Len(q[j].got) = BeatCount(rp, o + j)
         /\ p < Len(q) => Len(q[p + 1].got) < BeatCount(rp, o + p + 1)
         /\ o + Len(q) <= Len(Writes[rp]) /\ Len(Writes[rp]) \in Nat
    <3>1. Len(q) \in Nat /\ Len(Writes[rp]) \in Nat
      BY <2>2, TargetAssumption
    <3>2. /\ p \in 0 .. Len(q) /\ o \in Nat /\ o + Len(q) <= Len(Writes[rp])
          /\ \A j \in 1 .. p : Len(q[j].got) = BeatCount(rp, o + j)
          /\ p < Len(q) => Len(q[p + 1].got) < BeatCount(rp, o + p + 1)
      BY <1>2, Zenon DEF Jobs
    <3> QED BY <3>1, <3>2
  <2>11. i > p
    <3> SUFFICES ASSUME i <= p PROVE FALSE
      BY <2>3, <2>10
    <3>1. i \in 1 .. p
      BY <2>3, <2>10
    <3> QED BY <2>3, <2>9, <2>10, <3>1
  <2>12. p < Len(q) /\ p + 1 \in 1 .. Len(q)
    BY <2>3, <2>10, <2>11
  <2>13. ~Complete(rp, q[p + 1])
    <3>1. o + (p + 1) = o + p + 1 /\ o + p + 1 \in 1 .. Len(Writes[rp])
      BY <2>10, <2>12
    <3>2. BeatCount(rp, o + p + 1) \in Nat
      BY <3>1, BurstIs
    <3>3. Len(q[p + 1].got) # BeatCount(rp, o + p + 1)
      BY <2>10, <2>12, <3>2
    <3> QED BY <2>9, <2>12, <3>1, <3>3
  <2>14. i = p + 1
    <3>1. i <= p + 1
      BY <2>3, <2>12, <2>13
    <3> QED BY <2>3, <2>10, <2>11, <3>1
  <2>15. PICK y : Jobs(rp, r, o, k + 1, y)
    <3>1. k < Len(Beats(rp)) /\ m = Beats(rp)[k + 1]
      BY <1>2, <2>5
    <3>2. r[p + 1].got = Append(q[p + 1].got, Beats(rp)[k + 1])
      BY <2>8, <2>14, <3>1
    <3>3. \A j \in 1 .. Len(q) \ {p + 1} : r[j] = q[j]
      BY <2>8, <2>14
    <3> QED BY <1>2, <2>2, <2>8, <2>12, <3>1, <3>2, <3>3, JobsGetBeat
  <2>16. k + 1 = e - Len(data'[rp]) /\ o = n - Len(r)
    BY <1>2, <2>5, <2>8
  <2>17. PICK x : x = k + 1
    OBVIOUS
  <2>18. Assigned(rp, n, e, o, x, y)'
    BY <1>3, <2>5, <2>15, <2>16, <2>17 DEF Assigned, r, c
  <2> QED BY <2>18
<1> QED BY <1>5, <1>6

\* A write is submitted with all its beats.
LEMMA SubmitKeepsAssignment ==
  ASSUME Typed, NEW slot \in Slots, FirstReady(slot), SubmitSlot(slot),
         UNCHANGED <<linkRx, issued, data>>,
         NEW rp \in Rp, NEW n, NEW e, NEW o, NEW k, NEW p, Assigned(rp, n, e, o, k, p)
  PROVE  \E x, y : Assigned(rp, n, e, x, k, y)'
<1> DEFINE c == <<rp, "WriteReq">>
           q == writes[rp]
           r == writes'[rp]
<1>1. /\ c \in HeaderCell /\ c \in ReqCell /\ Waiting(c) = Len(q)
      /\ \A j : Number(c, j) = q[j].n
  BY WritesOfPlane
<1>2. /\ InSequence(c, n) /\ Stream(rp, e) /\ Taken(<<rp, "WriteData">>, e)
      /\ o = n - Len(q) /\ k = e - Len(data[rp]) /\ Jobs(rp, q, o, k, p)
  BY DEF Assigned, Stream
<1>3. InSequence(c, n)'
  BY <1>1, <1>2, SubmitKeepsSequence
<1>4. data'[rp] = data[rp]
  OBVIOUS
<1>5. writes \in [Rp -> Seq(WriteJob)]
  BY DEF Typed, JobsTyped
<1>6. CASE ~(SlotWrites(slot) /\ SlotRp(slot) = rp)
  <2>1. writes'[rp] = writes[rp]
    <3>1. CASE SlotWrites(slot)
      <4>1. writes' = [writes EXCEPT ![SlotRp(slot)] = Tail(@)] /\ SlotRp(slot) # rp
        BY <1>6, <3>1 DEF SubmitSlot
      <4> QED BY <1>5, <4>1
    <3>2. CASE ~SlotWrites(slot)
      BY <3>2 DEF SubmitSlot
    <3> QED BY <3>1, <3>2
  <2>2. Assigned(rp, n, e, o, k, p)'
    BY <1>3, <1>4, <2>1, QuietStepKeepsAssignment
  <2> QED BY <2>2
<1>7. CASE SlotWrites(slot) /\ SlotRp(slot) = rp
  <2>1. r = Tail(q) /\ q \in Seq(WriteJob)
    <3>1. writes' = [writes EXCEPT ![rp] = Tail(@)]
      BY <1>7 DEF SubmitSlot
    <3> QED BY <1>5, <3>1
  <2>2. q # <<>> /\ Complete(rp, Head(q))
    BY <1>7 DEF FirstReady, Ready
  <2>3. Stream(rp, e)'
    <3>1. <<rp, "WriteData">> \in ReqCell
      BY DEF ReqCell, ReqKind
    <3>2. Taken(<<rp, "WriteData">>, e)'
      BY <1>2, <3>1, TakenStays
    <3> QED BY <1>2, <1>4, <3>2, StreamStays
  <2> HIDE DEF q, r, c
  <2>4. Head(q) = q[1] /\ Len(q) \in Nat \ {0} /\ Len(r) = Len(q) - 1
    BY <2>1, <2>2, TailIsSeq
  <2>5. q[1].n = o + 1
    <3>1. Number(c, 1) = n - Len(q) + 1
      <4>1. 1 \in 1 .. Waiting(c)
        BY <1>1, <2>4
      <4> QED BY <1>1, <1>2, <4>1 DEF InSequence
    <3> QED BY <1>1, <1>2, <3>1
  <2>6. Len(q[1].got) = BeatCount(rp, o + 1)
    BY <2>2, <2>4, <2>5 DEF Complete, BeatCount
  <2>7. Jobs(rp, Tail(q), o + 1, k, p - 1)
    BY <1>2, <2>1, <2>2, <2>6, JobsLeave
  <2>8. PICK x, y : x = o + 1 /\ Jobs(rp, r, x, k, y)
    BY <2>1, <2>7
  <2>9. x = n - Len(r)
    <3>1. n \in Nat
      BY <1>1, <1>2, TakenIsIssued DEF InSequence
    <3> QED BY <1>2, <2>4, <2>8, <3>1
  <2>10. k = e - Len(data'[rp])
    BY <1>2, <1>4
  <2>11. Assigned(rp, n, e, x, k, y)'
    BY <1>3, <2>3, <2>8, <2>9, <2>10 DEF Assigned, r, c
  <2> QED BY <2>11
<1> QED BY <1>6, <1>7

LEMMA BurstsStep == Typed /\ Bursts /\ [Next]_vars => Bursts'
<1> SUFFICES ASSUME Typed, Bursts, [Next]_vars, NEW rp \in Rp
             PROVE  \E n, e, o, k, p : Assigned(rp, n, e, o, k, p)'
  BY DEF Bursts
<1>1. PICK n, e, o, k, p : Assigned(rp, n, e, o, k, p)
  BY DEF Bursts
<1>2. <<rp, "WriteReq">> \in HeaderCell /\ InSequence(<<rp, "WriteReq">>, n)
  BY <1>1, WritesOfPlane DEF Assigned
<1>3. UNCHANGED <<linkRx, issued, writes, reads, data, tickets>> => Assigned(rp, n, e, o, k, p)'
  <2> SUFFICES ASSUME UNCHANGED <<linkRx, issued, writes, reads, data, tickets>>
               PROVE  Assigned(rp, n, e, o, k, p)'
    OBVIOUS
  <2>1. InSequence(<<rp, "WriteReq">>, n)'
    BY <1>2, SequenceStays
  <2> QED BY <1>1, <2>1, QuietStepKeepsAssignment
<1>4. CASE PeerSend \/ PeerGrant
  <2>1. PICK batch, grant : /\ Sendable(batch) /\ Granting(grant, RspCell, rspOwed)
                            /\ PeerFrame(batch, grant)
    BY <1>4, PeerSends, NothingSendable, ResponseGranted DEF PeerGrant, Typed, PeerTyped
  <2>2. grant \in [RspCell -> Nat]
    BY <2>1 DEF Granting
  <2> QED BY <1>1, <2>1, <2>2, PeerFrameKeepsAssignment
<1>5. CASE PeerReceive \/ PeerAccept \/ MemTake \/ MemComplete
  BY <1>3, <1>5 DEF PeerReceive, PeerAccept, MemTake, MemComplete, peerVars, linkVars,
     targetVars, jobVars
<1>6. CASE Receive
  <2>1. CASE linkRx = <<>> /\ UNCHANGED <<linkRx, rspCredit, jobVars>>
    BY <1>3, <1>6, <2>1 DEF Receive, peerVars, jobVars
  <2>2. CASE linkRx # <<>> /\ linkRx' = Tail(linkRx) /\ TakeFrame(Head(linkRx))
    <3>1. UNCHANGED <<issued, tickets>>
      BY <1>6 DEF Receive, peerVars
    <3>2. \E m, f : Assigned(rp, m, f, o, k, p)'
      BY <1>1, <2>2, <3>1, ReceiveKeepsAssignment
    <3> QED BY <3>2
  <2> QED BY <1>6, <2>1, <2>2 DEF Receive
<1>7. CASE Collect
  <2>1. InSequence(<<rp, "WriteReq">>, n)'
    BY <1>2, <1>7, CollectKeepsSequence
  <2>2. UNCHANGED <<linkRx, issued, writes, data>>
    BY <1>7 DEF Collect, linkVars, peerVars, jobVars
  <2>3. Assigned(rp, n, e, o, k, p)'
    BY <1>1, <2>1, <2>2, QuietStepKeepsAssignment
  <2> QED BY <2>3
<1>8. CASE Assemble
  <2>1. \E x, y : Assigned(rp, n, e, o, x, y)'
    BY <1>1, <1>8, AssembleKeepsAssignment
  <2> QED BY <2>1
<1>9. CASE Submit
  <2>1. CASE UNCHANGED <<memReq, tickets, outstanding, writes, reads, owed, nextSubmit>>
    BY <1>3, <1>9, <2>1 DEF Submit, peerVars, linkVars
  <2>2. CASE \E slot \in Slots : FirstReady(slot) /\ SubmitSlot(slot)
    <3>1. UNCHANGED <<linkRx, issued, data>>
      BY <1>9 DEF Submit, peerVars, linkVars
    <3>2. \E x, y : Assigned(rp, n, e, x, k, y)'
      BY <1>1, <2>2, <3>1, SubmitKeepsAssignment
    <3> QED BY <3>2
  <2> QED BY <1>9, <2>1, <2>2 DEF Submit
<1>10. CASE Transmit \/ Pack \/ Send
  BY <1>3, <1>10 DEF Transmit, Pack, Send, peerVars, linkVars, jobVars
<1>11. CASE UNCHANGED vars
  BY <1>3, <1>11 DEF vars, peerVars, linkVars, targetVars, jobVars
<1> QED BY <1>4, <1>5, <1>6, <1>7, <1>8, <1>9, <1>10, <1>11 DEF Next

\* The beats a write has got are the first of its own burst, whatever the order
\* in which requests and data reach the target (aou_target.h:126-147).
THEOREM BurstsGetTheirBeats == Spec => []BeatsArePaired
<1>1. Init => Typed /\ Bursts
  BY InitTyped, BurstsInitially
<1>2. (Typed /\ Bursts) /\ [Next]_vars => (Typed /\ Bursts)'
  BY NextTyped, BurstsStep
<1>3. Typed /\ Bursts => BeatsArePaired
  <2> SUFFICES ASSUME Typed, Bursts, NEW rp \in Rp, NEW i \in DOMAIN writes[rp],
                      NEW b \in DOMAIN writes[rp][i].got
               PROVE  writes[rp][i].got[b] = <<writes[rp][i].n, b>>
    BY DEF BeatsArePaired
  <2>1. PICK n, e, o, k, p : Assigned(rp, n, e, o, k, p)
    BY DEF Bursts
  <2> DEFINE q == writes[rp]
             c == <<rp, "WriteReq">>
  <2>2. o = n - Len(q) /\ Jobs(rp, q, o, k, p) /\ InSequence(c, n)
    BY <2>1 DEF Assigned
  <2>3. q \in Seq(WriteJob) /\ i \in 1 .. Len(q)
    BY DEF Typed, JobsTyped
  <2>4. q[i].n = o + i
    <3>1. Waiting(c) = Len(q) /\ Number(c, i) = q[i].n
      BY WritesOfPlane
    <3> QED BY <2>2, <2>3, <3>1 DEF InSequence
  <2>5. q[i].got[b] = <<o + i, b>>
    BY <2>2, <2>3 DEF Jobs
  <2> QED BY <2>4, <2>5
<1> QED BY <1>1, <1>2, <1>3, PTL DEF Spec

-----------------------------------------------------------------------------
\* The responses to requests

IdIn(c, n) == Job(c[2] = "WriteResp", c[1], n).id

\* The requests that a response cell answers, and how many responses each gets.
AskedOf(c) == IF c[2] = "WriteResp" THEN Len(Writes[c[1]]) ELSE Len(Reads[c[1]])
ResponseBeats(c, n) == IF c[2] = "WriteResp" THEN 1 ELSE Reads[c[1]][n].beats

LEMMA ResponsesAreBeats ==
  ASSUME NEW c \in RspCell
  PROVE  /\ AskedOf(c) \in Nat
         /\ \A n \in 1 .. AskedOf(c) : ResponseBeats(c, n) \in Nat \ {0}
         /\ \A m \in ResponsesTo(c) :
              /\ m = <<m[1], m[2]>>
              /\ m[1] \in 1 .. AskedOf(c) /\ m[2] \in 1 .. ResponseBeats(c, m[1])
         /\ \A n \in 1 .. AskedOf(c) : \A b \in 1 .. ResponseBeats(c, n) :
              <<n, b>> \in ResponsesTo(c)
<1>1. /\ c[1] \in Rp /\ Writes[c[1]] \in Seq([id : Nat, beats : Nat \ {0}])
      /\ Reads[c[1]] \in Seq([id : Nat, beats : Nat \ {0}])
      /\ c[2] = "WriteResp" \/ c[2] = "ReadData"
  BY TargetAssumption DEF RspCell, RspKind
<1>2. /\ Len(Writes[c[1]]) \in Nat /\ DOMAIN Writes[c[1]] = 1 .. Len(Writes[c[1]])
      /\ Len(Reads[c[1]]) \in Nat /\ DOMAIN Reads[c[1]] = 1 .. Len(Reads[c[1]])
  BY <1>1
<1>3. \A n \in 1 .. Len(Reads[c[1]]) : Reads[c[1]][n].beats \in Nat \ {0}
  BY <1>1, JobHasBeats
<1>4. CASE c[2] = "WriteResp"
  <2>1. ResponsesTo(c) = {<<n, 1>> : n \in 1 .. AskedOf(c)}
    BY <1>2, <1>4 DEF ResponsesTo, AskedOf
  <2>2. AskedOf(c) \in Nat /\ \A n \in 1 .. AskedOf(c) : ResponseBeats(c, n) = 1
    BY <1>2, <1>4 DEF AskedOf, ResponseBeats
  <2>3. \A m \in ResponsesTo(c) : /\ m = <<m[1], m[2]>>
                                  /\ m[1] \in 1 .. AskedOf(c) /\ m[2] = 1
    BY <2>1
  <2>4. \A n \in 1 .. AskedOf(c) : <<n, 1>> \in ResponsesTo(c)
    BY <2>1
  <2> QED BY <2>2, <2>3, <2>4
<1>5. CASE c[2] = "ReadData"
  <2>1. ResponsesTo(c) = UNION {{<<n, b>> : b \in 1 .. ResponseBeats(c, n)} :
                                  n \in 1 .. AskedOf(c)}
    BY <1>2, <1>5 DEF ResponsesTo, AskedOf, ResponseBeats
  <2>2. AskedOf(c) \in Nat /\ \A n \in 1 .. AskedOf(c) : ResponseBeats(c, n) \in Nat \ {0}
    BY <1>2, <1>3, <1>5 DEF AskedOf, ResponseBeats
  <2>3. ASSUME NEW m \in ResponsesTo(c)
        PROVE  /\ m = <<m[1], m[2]>>
               /\ m[1] \in 1 .. AskedOf(c) /\ m[2] \in 1 .. ResponseBeats(c, m[1])
    <3>1. PICK n \in 1 .. AskedOf(c) : m \in {<<n, b>> : b \in 1 .. ResponseBeats(c, n)}
      BY <2>1
    <3>2. PICK b \in 1 .. ResponseBeats(c, n) : m = <<n, b>>
      BY <3>1
    <3> QED BY <3>2
  <2>4. \A n \in 1 .. AskedOf(c) : \A b \in 1 .. ResponseBeats(c, n) :
          <<n, b>> \in ResponsesTo(c)
    BY <2>1
  <2> QED BY <2>2, <2>3, <2>4
<1> QED BY <1>1, <1>4, <1>5

\* AnsweredInOrder of one sequence.
InOrder(c, s) ==
  \A i \in DOMAIN s :
    /\ s[i] \in ResponsesTo(c)
    /\ {r \in ResponsesTo(c) : SameId(c, r, s[i]) /\ Before(r, s[i])}
         = {s[j] : j \in {k \in 1 .. i - 1 : SameId(c, s[k], s[i])}}

LEMMA SameIdIs ==
  \A c, r, m : SameId(c, r, m) <=> IdIn(c, r[1]) = IdIn(c, m[1])
BY DEF SameId, IdIn

\* What is before a response in order is among the elements before it.
LEMMA InOrderMeans ==
  ASSUME NEW c \in RspCell, NEW s \in Seq(Message), InOrder(c, s), NEW m \in Elements(s)
  PROVE  /\ m \in ResponsesTo(c)
         /\ \A r \in ResponsesTo(c) : SameId(c, r, m) /\ Before(r, m) => r \in Elements(s)
<1>1. PICK i \in DOMAIN s : m = s[i]
  BY DEF Elements
<1>2. \A j \in 1 .. i - 1 : s[j] \in Elements(s)
  <2>1. DOMAIN s = 1 .. Len(s) /\ Len(s) \in Nat
    OBVIOUS
  <2> QED BY <2>1 DEF Elements
<1>3. ASSUME NEW r \in ResponsesTo(c), SameId(c, r, m), Before(r, m) PROVE r \in Elements(s)
  <2>1. r \in {s[j] : j \in {k \in 1 .. i - 1 : SameId(c, s[k], s[i])}}
    BY <1>1, <1>3 DEF InOrder
  <2> QED BY <1>2, <2>1
<1> QED BY <1>1, <1>3 DEF InOrder

\* A part from the front is in order too.
LEMMA FrontInOrder ==
  ASSUME NEW c, NEW a \in Seq(Message), NEW b \in Seq(Message), InOrder(c, a \o b)
  PROVE  InOrder(c, a)
<1> DEFINE s == a \o b
<1>1. /\ DOMAIN a = 1 .. Len(a) /\ Len(a) \in Nat /\ DOMAIN a \subseteq DOMAIN s
      /\ \A j \in 1 .. Len(a) : s[j] = a[j]
  <2>1. Len(a) \in Nat /\ Len(b) \in Nat /\ DOMAIN s = 1 .. Len(a) + Len(b)
        /\ \A j \in 1 .. Len(a) : s[j] = a[j]
    BY JoinedPlaces
  <2>2. DOMAIN a = 1 .. Len(a)
    OBVIOUS
  <2> QED BY <2>1, <2>2
<1> HIDE DEF s
<1> SUFFICES ASSUME NEW i \in DOMAIN a
             PROVE  /\ a[i] \in ResponsesTo(c)
                    /\ {r \in ResponsesTo(c) : SameId(c, r, a[i]) /\ Before(r, a[i])}
                         = {a[j] : j \in {k \in 1 .. i - 1 : SameId(c, a[k], a[i])}}
  BY DEF InOrder
<1>2. s[i] = a[i] /\ i \in DOMAIN s /\ \A j \in 1 .. i - 1 : s[j] = a[j]
  BY <1>1
<1>3. {s[j] : j \in {k \in 1 .. i - 1 : SameId(c, s[k], s[i])}}
        = {a[j] : j \in {k \in 1 .. i - 1 : SameId(c, a[k], a[i])}}
  BY <1>2
<1> QED BY <1>2, <1>3 DEF InOrder, s

\* One more, before which all has come that is before it, and nothing else of its ID.
LEMMA OneMoreInOrder ==
  ASSUME NEW c \in RspCell, NEW s \in Seq(Message), InOrder(c, s),
         NEW m \in Message, m \in ResponsesTo(c),
         \A r \in ResponsesTo(c) : SameId(c, r, m) =>
           (r \in Elements(s) <=> Before(r, m))
  PROVE  InOrder(c, Append(s, m))
<1> DEFINE t == Append(s, m)
           n == Len(s)
<1>1. /\ n \in Nat /\ DOMAIN s = 1 .. n /\ DOMAIN t = 1 .. n + 1
      /\ t[n + 1] = m /\ \A j \in 1 .. n : t[j] = s[j]
  <2>1. Len(t) = n + 1 /\ t \in Seq(Message) /\ t[n + 1] = m /\ n \in Nat
        /\ \A j \in 1 .. n : t[j] = s[j]
    BY AppendIsSeq
  <2>2. DOMAIN s = 1 .. n /\ DOMAIN t = 1 .. Len(t)
    BY <2>1
  <2> QED BY <2>1, <2>2
<1>2. \A j \in 1 .. n : s[j] \in ResponsesTo(c)
  BY <1>1 DEF InOrder
<1>3. Elements(s) = {s[j] : j \in 1 .. n}
  BY <1>1 DEF Elements
<1> HIDE DEF t, n
<1> SUFFICES ASSUME NEW i \in 1 .. n + 1
             PROVE  /\ t[i] \in ResponsesTo(c)
                    /\ {r \in ResponsesTo(c) : SameId(c, r, t[i]) /\ Before(r, t[i])}
                         = {t[j] : j \in {k \in 1 .. i - 1 : SameId(c, t[k], t[i])}}
  BY <1>1 DEF InOrder, t
<1>4. CASE i = n + 1
  <2>1. t[i] = m /\ i - 1 = n
    BY <1>1, <1>4
  <2>2. {t[j] : j \in {k \in 1 .. n : SameId(c, t[k], m)}}
          = {r \in Elements(s) : SameId(c, r, m)}
    BY <1>1, <1>3
  <2>3. {r \in Elements(s) : SameId(c, r, m)}
          = {r \in ResponsesTo(c) : SameId(c, r, m) /\ Before(r, m)}
    BY <1>2, <1>3
  <2> QED BY <2>1, <2>2, <2>3
<1>5. CASE i \in 1 .. n
  <2>1. t[i] = s[i] /\ \A j \in 1 .. i - 1 : t[j] = s[j]
    BY <1>1, <1>5
  <2>2. {t[j] : j \in {k \in 1 .. i - 1 : SameId(c, t[k], t[i])}}
          = {s[j] : j \in {k \in 1 .. i - 1 : SameId(c, s[k], s[i])}}
    BY <2>1
  <2>3. i \in DOMAIN s
    BY <1>1, <1>5
  <2> QED BY <2>1, <2>2, <2>3 DEF InOrder
<1> QED BY <1>1, <1>4, <1>5

-----------------------------------------------------------------------------
\* What has left, what has a ticket and what is being answered

\* A response has left when its request is one of the k submitted, has no ticket
\* any more, and is not one that q has still to answer.
Gone(m, tickd, q, k) ==
  /\ m[1] <= k /\ m[1] \notin tickd
  /\ \A i \in DOMAIN q : q[i].n = m[1] => m[2] < q[i].beat

\* Of a cell, s has left, in order, the requests in tickd have a ticket, and q
\* is being answered: of one ID, those before what has a ticket.
Answered(c, s, tickd, q, k) ==
  /\ InOrder(c, s)
  /\ \A m \in ResponsesTo(c) : m \in Elements(s) <=> Gone(m, tickd, q, k)
  /\ \A i \in DOMAIN q : <<q[i].n, q[i].beat>> \in ResponsesTo(c) /\ q[i].n <= k
  /\ \A i, j \in DOMAIN q :
       i < j /\ IdIn(c, q[i].n) = IdIn(c, q[j].n) => q[i].n < q[j].n
  /\ \A i \in DOMAIN q : \A n \in tickd : IdIn(c, q[i].n) = IdIn(c, n) => q[i].n < n

\* The requests that q answers are different ones, and none has a ticket.
LEMMA AnswersDiffer ==
  ASSUME NEW c \in RspCell, NEW s, NEW tickd \in SUBSET Nat, NEW q \in Seq(Reply), NEW k,
         Answered(c, s, tickd, q, k)
  PROVE  /\ \A i, j \in DOMAIN q : q[i].n = q[j].n => i = j
         /\ \A i \in DOMAIN q : q[i].n \notin tickd
<1>1. DOMAIN q \subseteq Nat /\ \A i \in DOMAIN q : q[i].n \in Nat
  <2>1. DOMAIN q = 1 .. Len(q) /\ \A i \in DOMAIN q : q[i] \in Reply
    OBVIOUS
  <2> QED BY <2>1 DEF Reply
<1>2. ASSUME NEW i \in DOMAIN q, NEW j \in DOMAIN q, q[i].n = q[j].n PROVE i = j
  <2>1. ~(i < j)
    BY <1>1, <1>2 DEF Answered
  <2>2. ~(j < i)
    BY <1>1, <1>2 DEF Answered
  <2> QED BY <1>1, <2>1, <2>2
<1>3. ASSUME NEW i \in DOMAIN q, q[i].n \in tickd PROVE FALSE
  <2>1. q[i].n < q[i].n
    BY <1>3 DEF Answered
  <2> QED BY <1>1, <2>1
<1> QED BY <1>2, <1>3

\* A request is submitted: the next one, and it gets a ticket.
LEMMA SubmitAnswers ==
  ASSUME NEW c \in RspCell, NEW s, NEW tickd \in SUBSET Nat, NEW q \in Seq(Reply), NEW k \in Nat,
         Answered(c, s, tickd, q, k)
  PROVE  Answered(c, s, tickd \cup {k + 1}, q, k + 1)
<1> DEFINE more == tickd \cup {k + 1}
<1>1. \A i \in DOMAIN q : q[i].n \in Nat /\ q[i].n <= k
  <2>1. \A i \in DOMAIN q : q[i] \in Reply
    OBVIOUS
  <2> QED BY <2>1 DEF Reply, Answered
<1>2. ASSUME NEW m \in ResponsesTo(c) PROVE Gone(m, more, q, k + 1) <=> Gone(m, tickd, q, k)
  <2>1. m[1] \in Nat
    BY ResponsesAreBeats
  <2>2. m[1] <= k + 1 /\ m[1] \notin more <=> m[1] <= k /\ m[1] \notin tickd
    BY <2>1
  <2> HIDE DEF more
  <2> QED BY <2>2 DEF Gone
<1>3. \A i \in DOMAIN q : q[i].n <= k + 1 /\ q[i].n < k + 1
  BY <1>1
<1>4. \A i \in DOMAIN q : \A n \in more : IdIn(c, q[i].n) = IdIn(c, n) => q[i].n < n
  BY <1>3 DEF Answered
<1> HIDE DEF more
<1>5. /\ \A m \in ResponsesTo(c) : m \in Elements(s) <=> Gone(m, more, q, k + 1)
      /\ \A i \in DOMAIN q : <<q[i].n, q[i].beat>> \in ResponsesTo(c) /\ q[i].n <= k + 1
  BY <1>2, <1>3 DEF Answered
<1>6. Answered(c, s, more, q, k + 1)
  BY <1>4, <1>5 DEF Answered
<1> QED BY <1>6 DEF more

\* A request is collected: the first of its ID that has a ticket.
LEMMA CollectAnswers ==
  ASSUME NEW c \in RspCell, NEW s, NEW tickd \in SUBSET Nat, NEW q \in Seq(Reply), NEW k \in Nat,
         Answered(c, s, tickd, q, k), NEW n \in tickd, n <= k, n \in 1 .. AskedOf(c),
         \A o \in tickd \ {n} : IdIn(c, n) = IdIn(c, o) => n < o
  PROVE  Answered(c, s, tickd \ {n}, Append(q, [n |-> n, beat |-> 1]), k)
<1> DEFINE new  == [n |-> n, beat |-> 1]
           p    == Append(q, new)
           rest == tickd \ {n}
           len  == Len(q)
<1>1. new \in Reply /\ new.n = n /\ new.beat = 1
  BY DEF Reply
<1> HIDE DEF new
<1>2. /\ len \in Nat /\ DOMAIN q = 1 .. len /\ DOMAIN p = 1 .. len + 1
      /\ p[len + 1] = new /\ \A i \in 1 .. len : p[i] = q[i]
  <2>1. p \in Seq(Reply) /\ Len(p) = len + 1 /\ p[len + 1] = new /\ len \in Nat
        /\ \A i \in 1 .. len : p[i] = q[i]
    BY <1>1, AppendIsSeq
  <2>2. DOMAIN q = 1 .. len /\ DOMAIN p = 1 .. Len(p)
    BY <2>1
  <2> QED BY <2>1, <2>2
<1>3. /\ \A i \in 1 .. len : q[i].n \in Nat /\ q[i].n # n
      /\ \A i \in 1 .. len : \A o \in tickd : IdIn(c, q[i].n) = IdIn(c, o) => q[i].n < o
      /\ \A i, j \in 1 .. len :
           i < j /\ IdIn(c, q[i].n) = IdIn(c, q[j].n) => q[i].n < q[j].n
      /\ \A i \in 1 .. len : <<q[i].n, q[i].beat>> \in ResponsesTo(c) /\ q[i].n <= k
  <2>1. \A i \in 1 .. len : q[i] \in Reply
    BY <1>2
  <2>2. \A i \in DOMAIN q : q[i].n \notin tickd
    BY AnswersDiffer
  <2>3. \A i \in 1 .. len : q[i].n \in Nat
    BY <2>1 DEF Reply
  <2> HIDE DEF len
  <2> QED BY <1>2, <2>2, <2>3 DEF Answered
<1>4. <<n, 1>> \in ResponsesTo(c)
  <2>1. 1 \in 1 .. ResponseBeats(c, n)
    BY ResponsesAreBeats
  <2> QED BY <2>1, ResponsesAreBeats
<1> HIDE DEF p, len
<1>5. ASSUME NEW m \in ResponsesTo(c) PROVE Gone(m, rest, p, k) <=> Gone(m, tickd, q, k)
  <2>1. m[1] \in Nat /\ m[2] \in Nat \ {0}
    BY ResponsesAreBeats
  <2>2. CASE m[1] = n
    <3>1. ~Gone(m, tickd, q, k)
      BY <2>2 DEF Gone
    <3>2. len + 1 \in DOMAIN p /\ p[len + 1].n = m[1] /\ ~(m[2] < p[len + 1].beat)
      BY <1>1, <1>2, <2>1, <2>2
    <3>3. ~Gone(m, rest, p, k)
      BY <3>2 DEF Gone
    <3> QED BY <3>1, <3>3
  <2>3. CASE m[1] # n
    <3>1. m[1] \notin rest <=> m[1] \notin tickd
      BY <2>3
    <3>2. (\A i \in 1 .. len + 1 : p[i].n = m[1] => m[2] < p[i].beat)
            <=> (\A i \in 1 .. len : q[i].n = m[1] => m[2] < q[i].beat)
      <4>1. \A i \in 1 .. len + 1 : i \in 1 .. len \/ i = len + 1
        BY <1>2
      <4>2. \A i \in 1 .. len : i \in 1 .. len + 1
        BY <1>2
      <4> QED BY <1>1, <1>2, <2>3, <4>1, <4>2
    <3> QED BY <1>2, <3>1, <3>2 DEF Gone
  <2> QED BY <2>2, <2>3
<1>6. ASSUME NEW i \in 1 .. len + 1
      PROVE  /\ <<p[i].n, p[i].beat>> \in ResponsesTo(c) /\ p[i].n <= k
             /\ \A o \in rest : IdIn(c, p[i].n) = IdIn(c, o) => p[i].n < o
  <2>1. CASE i \in 1 .. len
    BY <1>2, <1>3, <2>1
  <2>2. CASE i = len + 1
    BY <1>1, <1>2, <1>4, <2>2
  <2> QED BY <1>2, <2>1, <2>2
<1>7. ASSUME NEW i \in 1 .. len + 1, NEW j \in 1 .. len + 1, i < j,
             IdIn(c, p[i].n) = IdIn(c, p[j].n)
      PROVE  p[i].n < p[j].n
  <2>1. i \in 1 .. len
    BY <1>2, <1>7
  <2>2. CASE j \in 1 .. len
    BY <1>2, <1>3, <1>7, <2>1, <2>2
  <2>3. CASE j = len + 1
    BY <1>1, <1>2, <1>3, <1>7, <2>1, <2>3
  <2> QED BY <1>2, <2>2, <2>3
<1> HIDE DEF rest
<1>8. Answered(c, s, rest, p, k)
  BY <1>2, <1>5, <1>6, <1>7 DEF Answered
<1> QED BY <1>8 DEF p, new, rest

LEMMA FrontedPlaces ==
  ASSUME NEW S, NEW e \in S, NEW w \in Seq(S)
  PROVE  /\ DOMAIN (<<e>> \o w) = 1 .. Len(w) + 1 /\ Len(w) \in Nat
         /\ (<<e>> \o w)[1] = e
         /\ \A i \in 2 .. Len(w) + 1 : (<<e>> \o w)[i] = w[i - 1]
OBVIOUS

LEMMA RestOfRepliesIs ==
  ASSUME NEW c, NEW q \in Seq(Reply), q # <<>>
  PROVE  LET p == RestOfReplies(c, q)
             r == q[1] IN
         /\ r = Head(q) /\ r \in Reply /\ Len(q) \in Nat \ {0} /\ DOMAIN q = 1 .. Len(q)
         /\ LastBeat(c, r) => /\ DOMAIN p = 1 .. Len(q) - 1
                              /\ \A i \in 1 .. Len(q) - 1 : p[i] = q[i + 1]
         /\ ~LastBeat(c, r) => /\ DOMAIN p = 1 .. Len(q)
                               /\ p[1].n = r.n /\ p[1].beat = r.beat + 1
                               /\ \A i \in 2 .. Len(q) : p[i] = q[i]
<1> DEFINE p == RestOfReplies(c, q)
           r == Head(q)
           t == Tail(q)
           u == [r EXCEPT !.beat = @ + 1]
           len == Len(q)
<1>1. /\ r \in Reply /\ r = q[1] /\ t \in Seq(Reply) /\ Len(t) = len - 1
      /\ len \in Nat \ {0} /\ \A i \in 1 .. len - 1 : t[i] = q[i + 1]
  BY TailIsSeq
<1>2. DOMAIN q = 1 .. len /\ DOMAIN t = 1 .. Len(t)
  BY <1>1
<1>3. u \in Reply /\ u.n = r.n /\ u.beat = r.beat + 1
  BY <1>1 DEF Reply
<1>4. LastBeat(c, r) => p = t
  BY DEF RestOfReplies
<1>5. ~LastBeat(c, r) => p = <<u>> \o t
  BY DEF RestOfReplies
<1> HIDE DEF p, r, t, u, len
<1>7. /\ DOMAIN (<<u>> \o t) = 1 .. len
      /\ (<<u>> \o t)[1] = u
      /\ \A i \in 2 .. len : (<<u>> \o t)[i] = q[i]
  <2>1. /\ DOMAIN (<<u>> \o t) = 1 .. Len(t) + 1 /\ (<<u>> \o t)[1] = u
        /\ \A i \in 2 .. Len(t) + 1 : (<<u>> \o t)[i] = t[i - 1]
    BY <1>1, <1>3, FrontedPlaces
  <2>2. ASSUME NEW i \in 2 .. len PROVE t[i - 1] = q[i]
    <3>1. i - 1 \in 1 .. len - 1 /\ (i - 1) + 1 = i
      BY <1>1
    <3>2. t[i - 1] = q[(i - 1) + 1]
      BY <1>1, <3>1
    <3> QED BY <3>1, <3>2
  <2>3. Len(t) + 1 = len
    BY <1>1
  <2> QED BY <2>1, <2>2, <2>3
<1>8. LastBeat(c, r) => DOMAIN p = 1 .. len - 1 /\ \A i \in 1 .. len - 1 : p[i] = q[i + 1]
  BY <1>1, <1>2, <1>4
<1>9. ~LastBeat(c, r) => /\ DOMAIN p = 1 .. len
                         /\ p[1].n = r.n /\ p[1].beat = r.beat + 1
                         /\ \A i \in 2 .. len : p[i] = q[i]
  BY <1>3, <1>5, <1>7
<1> QED BY <1>1, <1>2, <1>8, <1>9 DEF p, r, len

LEMMA LastBeatIs ==
  ASSUME NEW c \in RspCell, NEW r \in Reply, <<r.n, r.beat>> \in ResponsesTo(c)
  PROVE  LastBeat(c, r) <=> r.beat = ResponseBeats(c, r.n)
<1>1. r.beat \in 1 .. ResponseBeats(c, r.n)
  BY ResponsesAreBeats
<1>2. c[2] = "WriteResp" \/ c[2] = "ReadData"
  BY DEF RspCell, RspKind
<1> QED BY <1>1, <1>2 DEF LastBeat, ResponseBeats

\* The response that leaves next is the one AXI's order asks for.
LEMMA NextIsInOrder ==
  ASSUME NEW c \in RspCell, NEW s \in Seq(Message), NEW tickd \in SUBSET Nat,
         NEW q \in Seq(Reply), q # <<>>, NEW k, k \in Nat, Answered(c, s, tickd, q, k),
         NEW m, m = <<q[1].n, q[1].beat>>, NEW r \in ResponsesTo(c), SameId(c, r, m)
  PROVE  r \in Elements(s) <=> Before(r, m)
<1> DEFINE n == q[1].n
           b == q[1].beat
<1>1. /\ 1 \in DOMAIN q /\ DOMAIN q \subseteq Nat \ {0}
      /\ \A i \in DOMAIN q : q[i].n \in Nat /\ q[i].beat \in Nat
  <2>1. DOMAIN q = 1 .. Len(q) /\ Len(q) \in Nat \ {0} /\ \A i \in DOMAIN q : q[i] \in Reply
    OBVIOUS
  <2> QED BY <2>1 DEF Reply
<1>2. m \in ResponsesTo(c) /\ n <= k
  BY <1>1 DEF Answered
<1>3. m[1] = n /\ m[2] = b /\ n \in Nat /\ b \in Nat /\ r[1] \in Nat /\ r[2] \in Nat
  BY <1>1, ResponsesAreBeats
<1>4. IdIn(c, n) = IdIn(c, r[1])
  BY <1>3, SameIdIs
<1>5. \A i \in DOMAIN q : i # 1 => i > 1
  BY <1>1
<1>6. /\ \A i \in DOMAIN q : i > 1 /\ IdIn(c, n) = IdIn(c, q[i].n) => n < q[i].n
      /\ \A o \in tickd : IdIn(c, n) = IdIn(c, o) => n < o
  BY <1>1 DEF Answered
<1>7. ASSUME Before(r, m) PROVE Gone(r, tickd, q, k)
  <2>1. r[1] < n \/ (r[1] = n /\ r[2] < b)
    BY <1>3, <1>7 DEF Before
  <2>2. r[1] <= k
    BY <1>2, <1>3, <2>1
  <2>3. r[1] \notin tickd
    BY <1>3, <1>4, <1>6, <2>1
  <2>4. ASSUME NEW i \in DOMAIN q, q[i].n = r[1] PROVE r[2] < q[i].beat
    <3>1. CASE i = 1
      BY <1>3, <2>1, <2>4, <3>1
    <3>2. CASE i # 1
      <4>1. n < r[1]
        BY <1>4, <1>5, <1>6, <2>4, <3>2
      <4> QED BY <1>3, <2>1, <4>1
    <3> QED BY <3>1, <3>2
  <2> QED BY <2>2, <2>3, <2>4 DEF Gone
<1>8. ~Gone(m, tickd, q, k)
  BY <1>1, <1>3 DEF Gone
<1>9. ASSUME r \in Elements(s) PROVE Before(r, m)
  <2>1. Gone(r, tickd, q, k)
    BY <1>9 DEF Answered
  <2>2. ~Before(m, r)
    <3>1. SameId(c, m, r)
      BY <1>3, <1>4, SameIdIs
    <3>2. Before(m, r) => m \in Elements(s)
      BY <1>2, <1>9, <3>1, InOrderMeans DEF Answered
    <3>3. m \notin Elements(s)
      BY <1>2, <1>8 DEF Answered
    <3> QED BY <3>2, <3>3
  <2>3. r[1] <= n
    BY <1>3, <2>2 DEF Before
  <2>4. r[1] = n => r[2] < b
    BY <1>1, <2>1 DEF Gone
  <2> QED BY <1>3, <2>3, <2>4 DEF Before
<1>10. Before(r, m) => r \in Elements(s)
  BY <1>7 DEF Answered
<1> QED BY <1>9, <1>10

LEMMA PackAnswers ==
  ASSUME NEW c \in RspCell, NEW s \in Seq(Message), NEW tickd \in SUBSET Nat,
         NEW q \in Seq(Reply), q # <<>>, NEW k \in Nat, Answered(c, s, tickd, q, k)
  PROVE  Answered(c, Append(s, <<q[1].n, q[1].beat>>), tickd, RestOfReplies(c, q), k)
<1> DEFINE p   == RestOfReplies(c, q)
           n   == q[1].n
           b   == q[1].beat
           m   == <<n, b>>
           len == Len(q)
           t   == Append(s, m)
           last == LastBeat(c, q[1])
<1>1. /\ q[1] \in Reply /\ len \in Nat \ {0} /\ DOMAIN q = 1 .. len
      /\ last => DOMAIN p = 1 .. len - 1 /\ \A i \in 1 .. len - 1 : p[i] = q[i + 1]
      /\ ~last => /\ DOMAIN p = 1 .. len /\ p[1].n = n /\ p[1].beat = b + 1
                  /\ \A i \in 2 .. len : p[i] = q[i]
  BY RestOfRepliesIs
<1>2. /\ \A i \in 1 .. len : q[i].n \in Nat /\ q[i].beat \in Nat
      /\ \A i \in 1 .. len : q[i].n = n => i = 1
      /\ \A i \in 1 .. len : q[i].n \notin tickd
  <2>1. /\ \A i, j \in DOMAIN q : q[i].n = q[j].n => i = j
        /\ \A i \in DOMAIN q : q[i].n \notin tickd
    BY AnswersDiffer
  <2>2. \A i \in 1 .. len : q[i] \in Reply
    BY <1>1
  <2>3. 1 \in 1 .. len
    BY <1>1
  <2> HIDE DEF len, p, m, t, last
  <2>4. \A i \in 1 .. len : q[i].n \in Nat /\ q[i].beat \in Nat
    BY <2>2 DEF Reply
  <2> QED BY <1>1, <2>1, <2>3, <2>4
<1>3. /\ m \in ResponsesTo(c) /\ n <= k /\ m[1] = n /\ m[2] = b
      /\ n \in Nat /\ b \in Nat /\ m \in Message
  <2>1. 1 \in 1 .. len
    BY <1>1
  <2> QED BY <1>1, <1>2, <2>1 DEF Answered, Message
<1>4. last <=> b = ResponseBeats(c, n)
  BY <1>1, <1>3, LastBeatIs
<1>5. InOrder(c, t)
  <2>1. \A r \in ResponsesTo(c) : SameId(c, r, m) => (r \in Elements(s) <=> Before(r, m))
    BY NextIsInOrder
  <2> HIDE DEF m
  <2> QED BY <1>3, <2>1, OneMoreInOrder DEF Answered
<1>6. Elements(t) = Elements(s) \cup {m}
  <2> HIDE DEF m
  <2> QED BY <1>3, AppendedElements
<1> HIDE DEF p, n, b, len, t, last
<1>7. ASSUME NEW i \in DOMAIN p
      PROVE  \E j \in 1 .. len :
               /\ p[i].n = q[j].n /\ (last => j = i + 1) /\ (~last => j = i)
               /\ p[i].beat = IF j = 1 THEN b + 1 ELSE q[j].beat
  <2>1. CASE last
    <3>1. i \in 1 .. len - 1 /\ p[i] = q[i + 1] /\ i + 1 \in 1 .. len /\ i + 1 # 1
      BY <1>1, <1>7, <2>1
    <3> QED BY <2>1, <3>1
  <2>2. CASE ~last
    <3>1. i \in 1 .. len
      BY <1>1, <1>7, <2>2
    <3>2. CASE i = 1
      BY <1>1, <2>2, <3>1, <3>2 DEF n
    <3>3. CASE i # 1
      <4>1. i \in 2 .. len
        BY <1>1, <3>1, <3>3
      <4>2. p[i] = q[i]
        BY <1>1, <2>2, <4>1
      <4> QED BY <2>2, <3>1, <3>3, <4>2
    <3> QED BY <3>2, <3>3
  <2> QED BY <2>1, <2>2
<1>8. \A j \in 1 .. len : j # 1 \/ ~last =>
        \E i \in DOMAIN p : /\ p[i].n = q[j].n
                            /\ p[i].beat = IF j = 1 THEN b + 1 ELSE q[j].beat
  <2> SUFFICES ASSUME NEW j \in 1 .. len, j # 1 \/ ~last
               PROVE  \E i \in DOMAIN p : /\ p[i].n = q[j].n
                                          /\ p[i].beat = IF j = 1 THEN b + 1 ELSE q[j].beat
    OBVIOUS
  <2>1. CASE last
    <3>1. j - 1 \in 1 .. len - 1 /\ (j - 1) + 1 = j
      BY <1>1, <2>1
    <3>2. p[j - 1] = q[j] /\ j - 1 \in DOMAIN p
      BY <1>1, <2>1, <3>1
    <3> QED BY <2>1, <3>2
  <2>2. CASE ~last
    <3>1. j \in DOMAIN p
      BY <1>1, <2>2
    <3>2. CASE j = 1
      BY <1>1, <2>2, <3>1, <3>2 DEF n
    <3>3. CASE j # 1
      <4>1. j \in 2 .. len
        BY <1>1, <3>3
      <4>2. p[j] = q[j]
        BY <1>1, <2>2, <4>1
      <4> QED BY <3>1, <3>3, <4>2
    <3> QED BY <3>2, <3>3
  <2> QED BY <2>1, <2>2
<1>9. ASSUME NEW x \in ResponsesTo(c)
      PROVE  Gone(x, tickd, p, k) <=> Gone(x, tickd, q, k) \/ x = m
  <2>1. /\ x = <<x[1], x[2]>> /\ x[1] \in Nat /\ x[2] \in Nat
        /\ x[1] = n => x[2] <= ResponseBeats(c, n)
        /\ ResponseBeats(c, n) \in Int
    <3>1. n \in 1 .. AskedOf(c)
      BY <1>3, ResponsesAreBeats
    <3> QED BY <3>1, ResponsesAreBeats
  <2>2. CASE x[1] = n
    <3>1. x[1] <= k /\ x[1] \notin tickd
      <4>1. 1 \in 1 .. len
        BY <1>1
      <4> QED BY <1>2, <1>3, <2>2, <4>1 DEF n
    <3>2. Gone(x, tickd, q, k) <=> x[2] < b
      <4>1. Gone(x, tickd, q, k) <=> \A i \in 1 .. len : q[i].n = n => x[2] < q[i].beat
        BY <1>1, <2>2, <3>1 DEF Gone
      <4>2. 1 \in 1 .. len
        BY <1>1
      <4> QED BY <1>2, <4>1, <4>2 DEF n, b
    <3>3. Gone(x, tickd, p, k) <=> x[2] <= b
      <4>1. Gone(x, tickd, p, k) <=> \A i \in DOMAIN p : p[i].n = n => x[2] < p[i].beat
        BY <2>2, <3>1 DEF Gone
      <4>2. ASSUME NEW i \in DOMAIN p, p[i].n = n PROVE ~last /\ p[i].beat = b + 1
        <5>1. PICK j \in 1 .. len :
                /\ p[i].n = q[j].n /\ (last => j = i + 1) /\ (~last => j = i)
                /\ p[i].beat = IF j = 1 THEN b + 1 ELSE q[j].beat
          BY <1>7
        <5>2. j = 1
          BY <1>2, <4>2, <5>1
        <5>3. ~last
          <6>1. i + 1 # 1
            <7>1. last => i \in 1 .. len - 1
              BY <1>1
            <7>2. ~last => i \in 1 .. len
              BY <1>1
            <7> QED BY <1>1, <7>1, <7>2
          <6> QED BY <5>1, <5>2, <6>1
        <5> QED BY <5>1, <5>2, <5>3
      <4>3. ~last => \E i \in DOMAIN p : p[i].n = n /\ p[i].beat = b + 1
        <5>1. 1 \in 1 .. len
          BY <1>1
        <5> QED BY <1>8, <5>1 DEF n
      <4>4. last => x[2] <= b
        BY <1>4, <2>1, <2>2
      <4>5. ~last => ((\A i \in DOMAIN p : p[i].n = n => x[2] < p[i].beat) <=> x[2] < b + 1)
        BY <4>2, <4>3
      <4>6. last => \A i \in DOMAIN p : p[i].n = n => x[2] < p[i].beat
        BY <4>2
      <4>7. x[2] < b + 1 <=> x[2] <= b
        BY <1>3, <2>1
      <4> QED BY <4>1, <4>4, <4>5, <4>6, <4>7
    <3>4. x[2] <= b <=> x[2] < b \/ x[2] = b
      BY <1>3, <2>1
    <3>5. x = m <=> x[2] = b
      BY <1>3, <2>1, <2>2
    <3> QED BY <3>2, <3>3, <3>4, <3>5
  <2>3. CASE x[1] # n
    <3>1. (\A i \in DOMAIN p : p[i].n = x[1] => x[2] < p[i].beat)
            <=> (\A j \in 1 .. len : q[j].n = x[1] => x[2] < q[j].beat)
      <4>1. ASSUME \A j \in 1 .. len : q[j].n = x[1] => x[2] < q[j].beat,
                   NEW i \in DOMAIN p, p[i].n = x[1]
            PROVE  x[2] < p[i].beat
        BY <1>7, <2>3, <4>1 DEF n
      <4>2. ASSUME \A i \in DOMAIN p : p[i].n = x[1] => x[2] < p[i].beat,
                   NEW j \in 1 .. len, q[j].n = x[1]
            PROVE  x[2] < q[j].beat
        <5>1. j # 1
          BY <2>3, <4>2 DEF n
        <5> QED BY <1>8, <4>2, <5>1
      <4> QED BY <4>1, <4>2
    <3>2. x # m
      BY <1>3, <2>3
    <3> QED BY <1>1, <3>1, <3>2 DEF Gone
  <2> QED BY <2>2, <2>3
<1>10. \A x \in ResponsesTo(c) : x \in Elements(t) <=> Gone(x, tickd, p, k)
  BY <1>6, <1>9 DEF Answered
<1>11. ASSUME NEW i \in DOMAIN p
       PROVE  /\ <<p[i].n, p[i].beat>> \in ResponsesTo(c) /\ p[i].n <= k
              /\ \A o \in tickd : IdIn(c, p[i].n) = IdIn(c, o) => p[i].n < o
  <2>1. PICK j \in 1 .. len :
          /\ p[i].n = q[j].n /\ (last => j = i + 1) /\ (~last => j = i)
          /\ p[i].beat = IF j = 1 THEN b + 1 ELSE q[j].beat
    BY <1>7
  <2>2. /\ q[j].n <= k /\ <<q[j].n, q[j].beat>> \in ResponsesTo(c)
        /\ \A o \in tickd : IdIn(c, q[j].n) = IdIn(c, o) => q[j].n < o
    BY <1>1 DEF Answered
  <2>3. CASE j # 1
    BY <2>1, <2>2, <2>3
  <2>4. CASE j = 1
    <3>1. ~last
      <4>1. i + 1 # 1
        <5>1. last => i \in 1 .. len - 1
          BY <1>1
        <5>2. ~last => i \in 1 .. len
          BY <1>1
        <5> QED BY <1>1, <5>1, <5>2
      <4> QED BY <2>1, <2>4, <4>1
    <3>2. b # ResponseBeats(c, n) /\ n \in 1 .. AskedOf(c) /\ b \in 1 .. ResponseBeats(c, n)
      BY <1>3, <1>4, <3>1, ResponsesAreBeats
    <3>3. b + 1 \in 1 .. ResponseBeats(c, n)
      <4>1. ResponseBeats(c, n) \in Nat
        BY <3>2, ResponsesAreBeats
      <4> QED BY <3>2, <4>1
    <3>4. <<n, b + 1>> \in ResponsesTo(c)
      BY <3>2, <3>3, ResponsesAreBeats
    <3>5. p[i].n = n /\ p[i].beat = b + 1
      BY <2>1, <2>4 DEF n
    <3> QED BY <2>1, <2>2, <3>4, <3>5
  <2> QED BY <2>3, <2>4
<1>12. ASSUME NEW i \in DOMAIN p, NEW j \in DOMAIN p, i < j, IdIn(c, p[i].n) = IdIn(c, p[j].n)
       PROVE  p[i].n < p[j].n
  <2>1. PICK x \in 1 .. len : p[i].n = q[x].n /\ (last => x = i + 1) /\ (~last => x = i)
    BY <1>7
  <2>2. PICK y \in 1 .. len : p[j].n = q[y].n /\ (last => y = j + 1) /\ (~last => y = j)
    BY <1>7
  <2>3. i \in Int /\ j \in Int
    <3>1. last => i \in 1 .. len - 1 /\ j \in 1 .. len - 1
      BY <1>1
    <3>2. ~last => i \in 1 .. len /\ j \in 1 .. len
      BY <1>1
    <3> QED BY <1>1, <3>1, <3>2
  <2>4. x < y
    BY <1>12, <2>1, <2>2, <2>3
  <2> QED BY <1>1, <1>12, <2>1, <2>2, <2>4 DEF Answered
<1>13. Answered(c, t, tickd, p, k)
  BY <1>5, <1>10, <1>11, <1>12 DEF Answered
<1> QED BY <1>13 DEF t, m, n, b, p

-----------------------------------------------------------------------------
\* What has left the target: received, on the link, in the frame or cut

AddMessages(c, s, f) == s \o f.messages[c]

LinkFold == INSTANCE FoldLemmas WITH Step <- AddMessages

\* The responses of a cell in s and in the frames of q behind it, oldest first.
Behind(c, s, q) == LinkFold!Folded(c, s, q)

Packed(c) == IF SpillsInto(c) = 1 THEN Append(frame.messages[c], spill.msg)
                                 ELSE frame.messages[c]

Left(c) == Behind(c, received[c], linkTx) \o Packed(c)

LEMMA BehindAppended ==
  ASSUME NEW c, NEW s, NEW q \in Seq(TxFrame), NEW f \in TxFrame
  PROVE  Behind(c, s, Append(q, f)) = Behind(c, s, q) \o f.messages[c]
BY LinkFold!FoldedAppend DEF Behind, AddMessages

LEMMA BehindJoined ==
  ASSUME NEW c, NEW s, NEW q \in Seq(TxFrame), NEW t \in Seq(TxFrame)
  PROVE  Behind(c, s, q \o t) = Behind(c, Behind(c, s, q), t)
BY LinkFold!FoldedJoined DEF Behind

LEMMA BehindIs ==
  ASSUME NEW c \in RspCell, NEW s \in Seq(Message), NEW q \in Seq(TxFrame)
  PROVE  /\ Behind(c, s, q) \in Seq(Message) /\ Behind(c, s, <<>>) = s
         /\ \A f \in TxFrame : Behind(c, s, Append(q, f)) = Behind(c, s, q) \o f.messages[c]
         /\ q # <<>> => Behind(c, s, q) = Behind(c, s \o Head(q).messages[c], Tail(q))
<1>1. \A f \in TxFrame : f.messages[c] \in Seq(Message)
  BY DEF TxFrame
<1>2. \A a \in Seq(Message) : \A f \in TxFrame : AddMessages(c, a, f) \in Seq(Message)
  BY <1>1, JoinIsSeq DEF AddMessages
<1>3. Behind(c, s, q) \in Seq(Message)
  BY <1>2, LinkFold!FoldedIn DEF Behind
<1>4. Behind(c, s, <<>>) = s
  BY LinkFold!FoldedEmpty DEF Behind
<1>5. \A f \in TxFrame : Behind(c, s, Append(q, f)) = Behind(c, s, q) \o f.messages[c]
  BY BehindAppended
<1>6. ASSUME q # <<>> PROVE Behind(c, s, q) = Behind(c, s \o Head(q).messages[c], Tail(q))
  <2> DEFINE h == Head(q)
             t == Tail(q)
             none == <<>>
             one == Append(none, h)
  <2>1. h \in TxFrame /\ t \in Seq(TxFrame)
    BY <1>6, TailIsSeq
  <2>2. q = one \o t
    BY <1>6
  <2>3. none \in Seq(TxFrame) /\ Behind(c, s, none) = s
    BY <1>4
  <2>4. one \in Seq(TxFrame)
    BY <2>1, <2>3, AppendIsSeq
  <2>5. Behind(c, s, one) = s \o h.messages[c]
    <3> HIDE DEF h, none
    <3>1. Behind(c, s, Append(none, h)) = Behind(c, s, none) \o h.messages[c]
      BY <2>1, <2>3, BehindAppended
    <3> QED BY <2>3, <3>1
  <2> HIDE DEF h, t, one
  <2>6. Behind(c, s, one \o t) = Behind(c, Behind(c, s, one), t)
    BY <2>1, <2>4, BehindJoined
  <2> QED BY <2>2, <2>5, <2>6 DEF h, t
<1> QED BY <1>3, <1>4, <1>5, <1>6

\* What was received is its beginning.
Begins(s, r) == \E t \in Seq(Message) : r = s \o t

\* Of a cell, the messages of the frames of a link.
OnLink(c, q) == UNION {Elements(q[i].messages[c]) : i \in DOMAIN q}

LEMMA JoinedElements ==
  ASSUME NEW S, NEW a \in Seq(S), NEW b \in Seq(S)
  PROVE  Elements(a \o b) = Elements(a) \cup Elements(b)
<1>1. /\ Len(a) \in Nat /\ Len(b) \in Nat /\ DOMAIN (a \o b) = 1 .. Len(a) + Len(b)
      /\ DOMAIN a = 1 .. Len(a) /\ DOMAIN b = 1 .. Len(b)
      /\ \A j \in 1 .. Len(a) : (a \o b)[j] = a[j]
      /\ \A j \in 1 .. Len(b) : (a \o b)[Len(a) + j] = b[j]
  <2>1. DOMAIN a = 1 .. Len(a) /\ DOMAIN b = 1 .. Len(b)
    OBVIOUS
  <2> QED BY <2>1, JoinedPlaces
<1> DEFINE r == a \o b
<1>2. r = a \o b
  OBVIOUS
<1> HIDE DEF r
<1>3. ASSUME NEW x \in Elements(r) PROVE x \in Elements(a) \cup Elements(b)
  <2>1. PICK i \in 1 .. Len(a) + Len(b) : x = r[i]
    BY <1>1, <1>2 DEF Elements
  <2>2. CASE i \in 1 .. Len(a)
    BY <1>1, <1>2, <2>1, <2>2 DEF Elements
  <2>3. CASE i \notin 1 .. Len(a)
    <3>1. i - Len(a) \in 1 .. Len(b) /\ i = Len(a) + (i - Len(a))
      BY <1>1, <2>3
    <3>2. r[Len(a) + (i - Len(a))] = b[i - Len(a)]
      BY <1>1, <1>2, <3>1
    <3> QED BY <1>1, <2>1, <3>1, <3>2 DEF Elements
  <2> QED BY <2>2, <2>3
<1>4. ASSUME NEW x \in Elements(a) PROVE x \in Elements(r)
  <2>1. PICK i \in 1 .. Len(a) : x = a[i]
    BY <1>1 DEF Elements
  <2>2. i \in 1 .. Len(a) + Len(b) /\ r[i] = x
    BY <1>1, <1>2, <2>1
  <2> QED BY <1>1, <1>2, <2>2 DEF Elements
<1>5. ASSUME NEW x \in Elements(b) PROVE x \in Elements(r)
  <2>1. PICK i \in 1 .. Len(b) : x = b[i]
    BY <1>1 DEF Elements
  <2>2. Len(a) + i \in 1 .. Len(a) + Len(b) /\ r[Len(a) + i] = x
    BY <1>1, <1>2, <2>1
  <2> QED BY <1>1, <1>2, <2>2 DEF Elements
<1> QED BY <1>2, <1>3, <1>4, <1>5

LEMMA OnLinkAppended ==
  ASSUME NEW c, NEW q \in Seq(TxFrame), NEW f \in TxFrame
  PROVE  OnLink(c, Append(q, f)) = OnLink(c, q) \cup Elements(f.messages[c])
<1> DEFINE w == Append(q, f)
           n == Len(q)
           M(g) == Elements(g.messages[c])
<1>1. /\ n \in Nat /\ DOMAIN q = 1 .. n /\ DOMAIN w = 1 .. n + 1
      /\ w[n + 1] = f /\ \A i \in 1 .. n : w[i] = q[i]
  <2>1. w \in Seq(TxFrame) /\ Len(w) = n + 1 /\ w[n + 1] = f /\ n \in Nat
        /\ \A i \in 1 .. n : w[i] = q[i]
    BY AppendIsSeq
  <2>2. DOMAIN w = 1 .. Len(w) /\ DOMAIN q = 1 .. n
    BY <2>1
  <2> QED BY <2>1, <2>2
<1>2. OnLink(c, w) = UNION {M(w[i]) : i \in 1 .. n + 1}
  BY <1>1 DEF OnLink
<1>3. OnLink(c, q) = UNION {M(q[i]) : i \in 1 .. n}
  BY <1>1 DEF OnLink
<1> HIDE DEF w, n, M
<1>4. \A i \in 1 .. n + 1 : i \in 1 .. n \/ i = n + 1
  BY <1>1
<1>5. n + 1 \in 1 .. n + 1 /\ \A i \in 1 .. n : i \in 1 .. n + 1
  BY <1>1
<1>6. ASSUME NEW x \in OnLink(c, w) PROVE x \in OnLink(c, q) \cup M(f)
  <2>1. PICK i \in 1 .. n + 1 : x \in M(w[i])
    BY <1>2
  <2> QED BY <1>1, <1>3, <1>4, <2>1
<1>7. ASSUME NEW x \in OnLink(c, q) \cup M(f) PROVE x \in OnLink(c, w)
  <2>1. CASE x \in M(f)
    BY <1>1, <1>2, <1>5, <2>1
  <2>2. CASE x \in OnLink(c, q)
    <3>1. PICK i \in 1 .. n : x \in M(q[i])
      BY <1>3, <2>2
    <3>2. w[i] = q[i] /\ i \in 1 .. n + 1
      BY <1>1, <1>5
    <3> QED BY <1>2, <3>1, <3>2
  <2> QED BY <1>7, <2>1, <2>2
<1>8. OnLink(c, w) = OnLink(c, q) \cup M(f)
  BY <1>6, <1>7
<1> QED BY <1>8 DEF w, M

LEMMA JoinAssociates ==
  ASSUME NEW S, NEW a \in Seq(S), NEW b \in Seq(S), NEW d \in Seq(S)
  PROVE  (a \o b) \o d = a \o (b \o d)
OBVIOUS

LEMMA BehindBegins ==
  ASSUME NEW c \in RspCell, NEW s \in Seq(Message), NEW q \in Seq(TxFrame)
  PROVE  /\ Begins(s, Behind(c, s, q))
         /\ Elements(Behind(c, s, q)) = Elements(s) \cup OnLink(c, q)
<1> DEFINE T == {p \in Seq(TxFrame) :
                   /\ Begins(s, Behind(c, s, p))
                   /\ Elements(Behind(c, s, p)) = Elements(s) \cup OnLink(c, p)}
<1>1. <<>> \in T
  <2>1. <<>> \in Seq(TxFrame) /\ <<>> \in Seq(Message) /\ s = s \o <<>>
    OBVIOUS
  <2>2. Behind(c, s, <<>>) = s
    BY BehindIs
  <2>3. OnLink(c, <<>>) = {}
    BY DEF OnLink
  <2> QED BY <2>1, <2>2, <2>3 DEF Begins
<1>2. ASSUME NEW p \in T, NEW f \in TxFrame PROVE Append(p, f) \in T
  <2> DEFINE b == Behind(c, s, p)
             m == f.messages[c]
  <2>1. /\ p \in Seq(TxFrame) /\ Append(p, f) \in Seq(TxFrame)
        /\ m \in Seq(Message) /\ b \in Seq(Message)
        /\ Behind(c, s, Append(p, f)) = b \o m
    <3>1. p \in Seq(TxFrame)
      OBVIOUS
    <3>2. m \in Seq(Message)
      BY DEF TxFrame
    <3> HIDE DEF T
    <3>3. b \in Seq(Message)
      BY <3>1, BehindIs
    <3>4. Behind(c, s, Append(p, f)) = b \o m
      BY <3>1, BehindAppended
    <3>5. Append(p, f) \in Seq(TxFrame)
      BY <3>1, AppendIsSeq
    <3> QED BY <3>1, <3>2, <3>3, <3>4, <3>5
  <2>2. PICK t \in Seq(Message) : b = s \o t
    BY DEF Begins
  <2>3. Elements(b) = Elements(s) \cup OnLink(c, p)
    OBVIOUS
  <2>4. OnLink(c, Append(p, f)) = OnLink(c, p) \cup Elements(m)
    BY <2>1, OnLinkAppended
  <2> HIDE DEF b, m, T
  <2>5. Elements(b \o m) = Elements(b) \cup Elements(m)
    BY <2>1, JoinedElements
  <2>6. b \o m = s \o (t \o m) /\ t \o m \in Seq(Message)
    <3>1. s \in Seq(Message) /\ t \in Seq(Message) /\ m \in Seq(Message)
      BY <2>1
    <3>2. (s \o t) \o m = s \o (t \o m)
      BY <3>1, JoinAssociates
    <3>3. t \o m \in Seq(Message)
      BY <3>1, JoinIsSeq
    <3> QED BY <2>2, <3>2, <3>3
  <2>7. Begins(s, b \o m)
    BY <2>6 DEF Begins
  <2>8. Elements(b \o m) = Elements(s) \cup OnLink(c, Append(p, f))
    BY <2>3, <2>4, <2>5
  <2> QED BY <2>1, <2>7, <2>8 DEF T
<1> HIDE DEF T
<1>3. Seq(TxFrame) \subseteq T
  BY <1>1, <1>2, AllSequences
<1> QED BY <1>3 DEF T

-----------------------------------------------------------------------------
\* How many requests of a cell are taken and submitted

MessagesIn(q, c) == SumFunction([i \in DOMAIN q |-> Len(q[i].messages[c])])

LEMMA MessagesOfFrames ==
  ASSUME NEW c \in ReqCell, NEW q \in Seq(RxFrame)
  PROVE  /\ MessagesIn(q, c) \in Nat /\ MessagesIn(<<>>, c) = 0
         /\ \A e \in RxFrame : /\ MessagesIn(Append(q, e), c)
                                    = MessagesIn(q, c) + Len(e.messages[c])
                               /\ Len(e.messages[c]) \in Nat
         /\ q # <<>> => MessagesIn(Tail(q), c) = MessagesIn(q, c) - Len(Head(q).messages[c])
<1>0. ASSUME NEW f \in RxFrame PROVE Len(f.messages[c]) \in Nat
  <2>1. f.messages[c] \in Seq(Message)
    BY DEF RxFrame
  <2> QED BY <2>1
<1> DEFINE w == [f \in RxFrame |-> Len(f.messages[c])]
<1>1. w \in [RxFrame -> Nat] /\ \A f \in RxFrame : w[f] = Len(f.messages[c])
  BY <1>0
<1>2. ASSUME NEW r \in Seq(RxFrame) PROVE MessagesIn(r, c) = Weights(r, w)
  <2>1. \A i \in DOMAIN r : r[i] \in RxFrame
    OBVIOUS
  <2>2. [i \in DOMAIN r |-> Len(r[i].messages[c])] = [i \in DOMAIN r |-> w[r[i]]]
    BY <2>1
  <2> QED BY <2>2 DEF MessagesIn, Weights
<1> HIDE DEF w
<1>3. <<>> \in Seq(RxFrame)
  OBVIOUS
<1>4. MessagesIn(q, c) \in Nat /\ MessagesIn(<<>>, c) = 0
  <2>1. Weights(q, w) \in Nat
    BY <1>1, WeightsOfQueue
  <2>2. Weights(<<>>, w) = 0
    BY WeightsOfEmpty
  <2>3. MessagesIn(<<>>, c) = Weights(<<>>, w)
    BY <1>2, <1>3
  <2> QED BY <1>2, <2>1, <2>2, <2>3
<1>5. ASSUME NEW e \in RxFrame
      PROVE  MessagesIn(Append(q, e), c) = MessagesIn(q, c) + Len(e.messages[c])
  <2>1. Append(q, e) \in Seq(RxFrame)
    OBVIOUS
  <2>2. Weights(Append(q, e), w) = Weights(q, w) + w[e]
    BY <1>1, WeightsOfAppended
  <2> QED BY <1>1, <1>2, <2>1, <2>2
<1>6. CASE q # <<>>
  <2>1. Tail(q) \in Seq(RxFrame) /\ Head(q) \in RxFrame
    BY <1>6
  <2>2. Weights(Tail(q), w) = Weights(q, w) - w[Head(q)]
    BY <1>1, <1>6, WeightsOfTail
  <2> QED BY <1>1, <1>2, <1>4, <1>5, <2>1, <2>2
<1> QED BY <1>0, <1>4, <1>5, <1>6

TakenOf(c) == RequestsTaken(c[1], c[2])

LEMMA TakenOfIs ==
  ASSUME NEW c \in HeaderCell
  PROVE  /\ TakenOf(c) = issued[c] - MessagesIn(linkRx, c)
         /\ TakenOf(c)' = issued'[c] - MessagesIn(linkRx', c)
<1>1. c = <<c[1], c[2]>>
  BY HeaderFacts
<1> QED BY <1>1 DEF TakenOf, RequestsTaken, MessagesIn

LEMMA TakenStaysSame ==
  ASSUME NEW c \in HeaderCell, UNCHANGED <<issued, linkRx>>
  PROVE  TakenOf(c)' = TakenOf(c)
BY TakenOfIs

\* A frame that is sent is not yet taken.
LEMMA SentIsNotTaken ==
  ASSUME Typed, NEW batch, Sendable(batch), NEW grant \in [RspCell -> Nat],
         PeerFrame(batch, grant), NEW c \in HeaderCell
  PROVE  TakenOf(c)' = TakenOf(c)
<1>1. c \in ReqCell
  BY HeaderFacts
<1> DEFINE f == SentFrame(batch, grant)
<1>2. f \in RxFrame /\ Len(f.messages[c]) = batch[c]
  BY <1>1, SentFrameTyped DEF Typed
<1>3. linkRx' = Append(linkRx, f) /\ issued'[c] = issued[c] + batch[c]
  BY <1>1 DEF PeerFrame, SentFrame
<1>4. linkRx \in Seq(RxFrame) /\ issued[c] \in Nat /\ batch[c] \in Nat
  BY <1>1 DEF Typed, RxTyped, PeerTyped, Sendable
<1> HIDE DEF f
<1>5. /\ MessagesIn(Append(linkRx, f), c) = MessagesIn(linkRx, c) + batch[c]
      /\ MessagesIn(linkRx, c) \in Nat
  BY <1>1, <1>2, <1>4, MessagesOfFrames
<1>6. /\ TakenOf(c) = issued[c] - MessagesIn(linkRx, c)
      /\ TakenOf(c)' = issued'[c] - MessagesIn(linkRx', c)
  BY TakenOfIs
<1> QED BY <1>3, <1>4, <1>5, <1>6

LEMMA FrameIsTaken ==
  ASSUME Typed, linkRx # <<>>, linkRx' = Tail(linkRx), issued' = issued, NEW c \in HeaderCell
  PROVE  TakenOf(c)' = TakenOf(c) + Len(Head(linkRx).messages[c])
<1>1. c \in ReqCell
  BY HeaderFacts
<1>2. linkRx \in Seq(RxFrame) /\ issued[c] \in Nat
  BY <1>1 DEF Typed, RxTyped, PeerTyped
<1>3. Head(linkRx) \in RxFrame
  BY <1>2, TailIsSeq
<1>4. /\ MessagesIn(Tail(linkRx), c) = MessagesIn(linkRx, c) - Len(Head(linkRx).messages[c])
      /\ MessagesIn(linkRx, c) \in Nat /\ Len(Head(linkRx).messages[c]) \in Nat
  BY <1>1, <1>2, <1>3, MessagesOfFrames
<1>5. /\ TakenOf(c) = issued[c] - MessagesIn(linkRx, c)
      /\ TakenOf(c)' = issued'[c] - MessagesIn(linkRx', c)
  BY TakenOfIs
<1> QED BY <1>2, <1>4, <1>5

\* Every header cell is in sequence, up to the requests that are taken.
Counted == \A c \in HeaderCell : \E n : n = TakenOf(c) /\ InSequence(c, n)

LEMMA CountedInitially == Init => Counted
<1> SUFFICES ASSUME Init, NEW c \in HeaderCell
             PROVE  \E n : n = TakenOf(c) /\ InSequence(c, n)
  BY DEF Counted
<1>1. c \in ReqCell
  BY HeaderFacts
<1>2. issued[c] = 0 /\ linkRx = <<>>
  BY <1>1 DEF Init, NoGrant
<1>3. MessagesIn(<<>>, c) = 0
  <2>1. <<>> \in Seq(RxFrame)
    OBVIOUS
  <2> QED BY <1>1, <2>1, MessagesOfFrames
<1>4. TakenOf(c) = 0
  BY <1>2, <1>3, TakenOfIs
<1> QED BY <1>4, SequenceInitially

LEMMA CountedStep == Typed /\ Counted /\ [Next]_vars => Counted'
<1> SUFFICES ASSUME Typed, Counted, [Next]_vars, NEW c \in HeaderCell
             PROVE  \E m : m = TakenOf(c)' /\ InSequence(c, m)'
  BY DEF Counted
<1>1. PICK n : n = TakenOf(c) /\ InSequence(c, n)
  BY DEF Counted
<1>2. UNCHANGED <<linkRx, issued>> => TakenOf(c)' = n
  BY <1>1, TakenStaysSame
<1>3. UNCHANGED <<linkRx, issued, writes, reads, tickets>> =>
        TakenOf(c)' = n /\ InSequence(c, n)'
  BY <1>1, <1>2, SequenceStays
<1>4. CASE PeerSend \/ PeerGrant
  <2>1. PICK batch, grant : /\ Sendable(batch) /\ Granting(grant, RspCell, rspOwed)
                            /\ PeerFrame(batch, grant)
    BY <1>4, PeerSends, NothingSendable, ResponseGranted DEF PeerGrant, Typed, PeerTyped
  <2>2. grant \in [RspCell -> Nat]
    BY <2>1 DEF Granting
  <2>3. InSequence(c, n)'
    BY <1>1, <2>1, <2>2, PeerFrameKeepsSequence
  <2>4. TakenOf(c)' = n
    BY <1>1, <2>1, <2>2, SentIsNotTaken
  <2> QED BY <2>3, <2>4
<1>5. CASE PeerReceive \/ PeerAccept \/ MemTake \/ MemComplete
  BY <1>3, <1>5 DEF PeerReceive, PeerAccept, MemTake, MemComplete, peerVars, linkVars,
     targetVars, jobVars
<1>6. CASE Receive
  <2>1. CASE linkRx = <<>> /\ UNCHANGED <<linkRx, rspCredit, jobVars>>
    BY <1>3, <1>6, <2>1 DEF Receive, peerVars, jobVars
  <2>2. CASE linkRx # <<>> /\ linkRx' = Tail(linkRx) /\ TakeFrame(Head(linkRx))
    <3>1. UNCHANGED <<issued, tickets>>
      BY <1>6 DEF Receive, peerVars
    <3>2. PICK m : m = n + Len(Head(linkRx).messages[c])
      OBVIOUS
    <3>3. InSequence(c, m)'
      BY <1>1, <2>2, <3>1, <3>2, ReceiveKeepsSequence
    <3>4. TakenOf(c)' = m
      BY <1>1, <2>2, <3>1, <3>2, FrameIsTaken
    <3> QED BY <3>3, <3>4
  <2> QED BY <1>6, <2>1, <2>2 DEF Receive
<1>7. CASE Collect
  BY <1>1, <1>2, <1>7, CollectKeepsSequence DEF Collect, peerVars, linkVars
<1>8. CASE Assemble
  BY <1>1, <1>2, <1>8, AssembleKeepsSequence DEF Assemble, peerVars, linkVars
<1>9. CASE Submit
  <2>1. CASE UNCHANGED <<memReq, tickets, outstanding, writes, reads, owed, nextSubmit>>
    BY <1>3, <1>9, <2>1 DEF Submit, peerVars, linkVars
  <2>2. CASE \E slot \in Slots : FirstReady(slot) /\ SubmitSlot(slot)
    <3>1. UNCHANGED <<linkRx, issued, data>>
      BY <1>9 DEF Submit, peerVars, linkVars
    <3> QED BY <1>1, <1>2, <2>2, <3>1, SubmitKeepsSequence
  <2> QED BY <1>9, <2>1, <2>2 DEF Submit
<1>10. CASE Transmit \/ Pack \/ Send
  BY <1>3, <1>10 DEF Transmit, Pack, Send, peerVars, linkVars, jobVars
<1>11. CASE UNCHANGED vars
  BY <1>3, <1>11 DEF vars, peerVars, linkVars, targetVars, jobVars
<1> QED BY <1>4, <1>5, <1>6, <1>7, <1>8, <1>9, <1>10, <1>11 DEF Next

\* The requests of a response cell, and how many of them are submitted.
Asked(c) == <<c[1], IF c[2] = "WriteResp" THEN "WriteReq" ELSE "ReadReq">>

Submitted(c) == TakenOf(Asked(c)) - Waiting(Asked(c))

LEMMA AskedIsHeader ==
  ASSUME NEW c \in RspCell
  PROVE  /\ Asked(c) \in HeaderCell /\ Asked(c) \in ReqCell /\ c = <<c[1], c[2]>>
         /\ AskedOf(c) = Len(Program(Asked(c))) /\ c[1] \in Rp
         /\ c[2] = "WriteResp" \/ c[2] = "ReadData"
<1>1. c[1] \in Rp /\ c = <<c[1], c[2]>> /\ (c[2] = "WriteResp" \/ c[2] = "ReadData")
  BY DEF RspCell, RspKind
<1>2. Asked(c) \in HeaderCell /\ Asked(c) \in ReqCell
  BY <1>1 DEF Asked, HeaderCell, ReqCell, ReqKind
<1>3. AskedOf(c) = Len(Program(Asked(c)))
  <2>1. /\ Writes[c[1]] \in Seq([id : Nat, beats : Nat \ {0}])
        /\ Reads[c[1]] \in Seq([id : Nat, beats : Nat \ {0}])
    BY <1>1, TargetAssumption
  <2>2. Len(Writes[c[1]]) \in Nat /\ Len(Reads[c[1]]) \in Nat
    BY <2>1
  <2>3. CASE c[2] = "WriteResp"
    <3>1. Program(Asked(c)) = [n \in 1 .. Len(Writes[c[1]]) |-> <<n, 0>>]
      BY <2>3 DEF Asked, Program
    <3> QED BY <2>2, <2>3, <3>1 DEF AskedOf
  <2>4. CASE c[2] = "ReadData"
    <3>1. Program(Asked(c)) = [n \in 1 .. Len(Reads[c[1]]) |-> <<n, 0>>]
      BY <2>4 DEF Asked, Program
    <3> QED BY <2>2, <2>4, <3>1 DEF AskedOf
  <2> QED BY <1>1, <2>3, <2>4
<1> QED BY <1>1, <1>2, <1>3

LEMMA SubmittedIsNat ==
  ASSUME Typed, Counted, NEW c \in RspCell
  PROVE  Submitted(c) \in Nat /\ Submitted(c) <= AskedOf(c)
<1> DEFINE a == Asked(c)
<1>1. a \in HeaderCell /\ a \in ReqCell /\ AskedOf(c) = Len(Program(a))
  BY AskedIsHeader
<1> HIDE DEF a
<1>2. PICK n : n = TakenOf(a) /\ InSequence(a, n)
  BY <1>1 DEF Counted
<1>3. /\ n \in Nat /\ n <= issued[a] /\ issued[a] \in Nat /\ issued[a] <= Len(Program(a))
  BY <1>1, <1>2, TakenIsIssued DEF InSequence
<1>4. Waiting(a) \in Nat /\ Waiting(a) <= n
  BY <1>1, <1>2, WaitingIsNat DEF InSequence
<1>5. Len(Program(a)) \in Nat
  BY <1>1, ProgramIsSeq
<1>6. Submitted(c) = n - Waiting(a)
  BY <1>2 DEF Submitted, a
<1> QED BY <1>1, <1>3, <1>4, <1>5, <1>6

\* Only submit changes what is submitted.
LEMMA SubmittedStays ==
  ASSUME Typed, Counted, [Next]_vars, NEW c \in RspCell,
         Submit => UNCHANGED <<memReq, tickets, outstanding, writes, reads, owed, nextSubmit>>
  PROVE  Submitted(c)' = Submitted(c)
<1> DEFINE a == Asked(c)
<1>1. a \in HeaderCell /\ a \in ReqCell
  BY AskedIsHeader
<1>2. a[2] = "WriteReq" \/ a[2] = "ReadReq"
  BY DEF Asked
<1>3. Submitted(c) = TakenOf(a) - Waiting(a) /\ Submitted(c)' = TakenOf(a)' - Waiting(a)'
  BY DEF Submitted
<1> HIDE DEF a
<1>4. UNCHANGED <<linkRx, issued>> => TakenOf(a)' = TakenOf(a)
  BY <1>1, TakenStaysSame
<1>5. UNCHANGED <<writes, reads>> => Waiting(a)' = Waiting(a)
  BY <1>2 DEF Waiting
<1>6. UNCHANGED <<linkRx, issued, writes, reads>> => Submitted(c)' = Submitted(c)
  BY <1>3, <1>4, <1>5
<1>7. CASE PeerSend \/ PeerGrant
  <2>1. PICK batch, grant : /\ Sendable(batch) /\ Granting(grant, RspCell, rspOwed)
                            /\ PeerFrame(batch, grant)
    BY <1>7, PeerSends, NothingSendable, ResponseGranted DEF PeerGrant, Typed, PeerTyped
  <2>2. grant \in [RspCell -> Nat]
    BY <2>1 DEF Granting
  <2>3. TakenOf(a)' = TakenOf(a)
    BY <1>1, <2>1, <2>2, SentIsNotTaken
  <2>4. UNCHANGED <<writes, reads>>
    BY <2>1 DEF PeerFrame, targetVars, jobVars
  <2> QED BY <1>3, <1>5, <2>3, <2>4
<1>8. CASE PeerReceive \/ PeerAccept \/ MemTake \/ MemComplete
  BY <1>6, <1>8 DEF PeerReceive, PeerAccept, MemTake, MemComplete, peerVars, linkVars,
     targetVars, jobVars
<1>9. CASE Receive
  <2>1. CASE linkRx = <<>> /\ UNCHANGED <<linkRx, rspCredit, jobVars>>
    BY <1>6, <1>9, <2>1 DEF Receive, peerVars, jobVars
  <2>2. CASE linkRx # <<>> /\ linkRx' = Tail(linkRx) /\ TakeFrame(Head(linkRx))
    <3> DEFINE more == Len(Head(linkRx).messages[a])
    <3>1. issued' = issued
      BY <1>9 DEF Receive, peerVars
    <3>2. TakenOf(a)' = TakenOf(a) + more
      BY <1>1, <2>2, <3>1, FrameIsTaken
    <3>3. Head(linkRx) \in RxFrame
      BY <2>2, TailIsSeq DEF Typed, RxTyped
    <3>4. Waiting(a)' = Waiting(a) + more /\ more \in Nat
      BY <1>1, <2>2, <3>3, TakenAreWaiting
    <3>5. Waiting(a) \in Nat
      BY <1>1, WaitingIsNat
    <3>6. TakenOf(a) \in Nat
      <4>1. PICK n : n = TakenOf(a) /\ InSequence(a, n)
        BY <1>1 DEF Counted
      <4> QED BY <1>1, <4>1, TakenIsIssued DEF InSequence
    <3> HIDE DEF more
    <3> QED BY <1>3, <3>2, <3>4, <3>5, <3>6
  <2> QED BY <1>9, <2>1, <2>2 DEF Receive
<1>10. CASE Assemble
  <2>1. UNCHANGED <<linkRx, issued, reads>>
    BY <1>10 DEF Assemble, peerVars, linkVars
  <2>2. Waiting(a)' = Waiting(a)
    BY <1>1, <1>2, <1>10, <2>1, HeaderFacts, AssembledWait DEF Waiting
  <2> QED BY <1>3, <1>4, <2>1, <2>2
<1>11. CASE Submit
  BY <1>6, <1>11 DEF Submit, peerVars, linkVars
<1>12. CASE Collect \/ Transmit \/ Pack \/ Send
  BY <1>6, <1>12 DEF Collect, Transmit, Pack, Send, peerVars, linkVars, jobVars
<1>13. CASE UNCHANGED vars
  BY <1>6, <1>13 DEF vars, peerVars, linkVars, targetVars, jobVars
<1> QED BY <1>7, <1>8, <1>9, <1>10, <1>11, <1>12, <1>13 DEF Next

-----------------------------------------------------------------------------
\* What each step adds to what has left

LEMMA JoinsAppend ==
  ASSUME NEW S, NEW a \in Seq(S), NEW b \in Seq(S), NEW e \in S
  PROVE  /\ a \o Append(b, e) = Append(a \o b, e)
         /\ a \o <<>> = a
         /\ a \o Append(<<>>, e) = Append(a, e)
OBVIOUS

LEMMA PackedIsSeq ==
  ASSUME Typed, NEW c \in RspCell
  PROVE  /\ Packed(c) \in Seq(Message) /\ frame.messages[c] \in Seq(Message)
         /\ Behind(c, received[c], linkTx) \in Seq(Message) /\ Left(c) \in Seq(Message)
<1>1. /\ frame.messages[c] \in Seq(Message) /\ spill.msg \in Message
      /\ received[c] \in Seq(Message) /\ linkTx \in Seq(TxFrame)
  BY DEF Typed, FrameTyped, FrameBuilt, SpillKept, PeerTyped, TxTyped
<1>2. Packed(c) \in Seq(Message)
  BY <1>1, AppendIsSeq DEF Packed
<1>3. Behind(c, received[c], linkTx) \in Seq(Message)
  BY <1>1, BehindIs
<1>4. Left(c) \in Seq(Message)
  BY <1>2, <1>3, JoinIsSeq DEF Left
<1> QED BY <1>1, <1>2, <1>3, <1>4

LEMMA LeftStays ==
  ASSUME NEW c \in RspCell, UNCHANGED <<received, linkTx, frame, spill>>
  PROVE  Left(c)' = Left(c)
<1>1. Packed(c)' = Packed(c)
  BY DEF Packed, SpillsInto
<1>2. Left(c) = Behind(c, received[c], linkTx) \o Packed(c)
  BY DEF Left
<1>3. Left(c)' = Behind(c, received'[c], linkTx') \o Packed(c)'
  BY DEF Left
<1> QED BY <1>1, <1>2, <1>3

LEMMA LeftWhenReceived ==
  ASSUME Typed, PeerReceive, NEW c \in RspCell
  PROVE  Left(c)' = Left(c)
<1> DEFINE f == Head(linkTx)
<1>1. /\ linkTx \in Seq(TxFrame) /\ linkTx # <<>> /\ received[c] \in Seq(Message)
      /\ linkTx' = Tail(linkTx) /\ received'[c] = received[c] \o f.messages[c]
      /\ frame' = frame /\ spill' = spill
  BY DEF PeerReceive, Typed, TxTyped, PeerTyped, targetVars, sendVars
<1>2. Behind(c, received[c], linkTx) = Behind(c, received[c] \o f.messages[c], Tail(linkTx))
  BY <1>1, BehindIs
<1>3. Packed(c)' = Packed(c)
  BY <1>1 DEF Packed, SpillsInto
<1>4. Left(c) = Behind(c, received[c], linkTx) \o Packed(c)
  BY DEF Left
<1>5. Left(c)' = Behind(c, received'[c], linkTx') \o Packed(c)'
  BY DEF Left
<1> QED BY <1>1, <1>2, <1>3, <1>4, <1>5

LEMMA PutAppends ==
  ASSUME NEW f \in FrameBuilt, NEW d \in RspCell, NEW msg, NEW g, NEW c \in RspCell
  PROVE  Put(f, d, msg, g).messages[c]
           = IF c = d THEN Append(f.messages[c], msg) ELSE f.messages[c]
<1>1. f.messages \in [RspCell -> Seq(Message)]
  BY DEF FrameBuilt
<1>2. Put(f, d, msg, g).messages = [f.messages EXCEPT ![d] = Append(@, msg)]
  BY DEF Put
<1> QED BY <1>1, <1>2

\* What is cut begins the next frame.
LEMMA ResumeKeepsPacked ==
  ASSUME Typed, phase = "transmit", ResumeSpill, NEW c \in RspCell
  PROVE  Packed(c)' = Packed(c)
<1>1. frame = EmptyFrame /\ spill.left \in Nat /\ FlitGranules \in Nat \ {0}
      /\ spill.cell \in RspCell /\ spill.msg \in Message /\ spill \in SpillKept
  BY Constants DEF Typed, FrameTyped, SpillKept
<1>2. EmptyFrame \in FrameBuilt
  BY EmptyFrameTyped
<1>3. CASE spill.left = 0
  <2>1. frame' = EmptyFrame /\ spill' = NoSpill
    BY <1>1, <1>3 DEF ResumeSpill
  <2> QED BY <1>1, <1>3, <2>1 DEF Packed, SpillsInto, NoSpill
<1>4. CASE spill.left # 0 /\ spill.left <= FlitGranules
  <2> DEFINE p == Put(EmptyFrame, spill.cell, spill.msg, spill.left)
  <2>1. frame' = p /\ spill'.left = 0
    BY <1>4 DEF ResumeSpill, NoSpill
  <2>2. p.messages[c] = IF c = spill.cell THEN Append(EmptyFrame.messages[c], spill.msg)
                                          ELSE EmptyFrame.messages[c]
    BY <1>1, <1>2, PutAppends
  <2> HIDE DEF p
  <2>3. SpillsInto(c) = IF c = spill.cell THEN 1 ELSE 0
    BY <1>1, <1>4 DEF SpillsInto
  <2>4. SpillsInto(c)' = 0
    BY <2>1 DEF SpillsInto
  <2> QED BY <1>1, <2>1, <2>2, <2>3, <2>4 DEF Packed
<1>5. CASE ~(spill.left <= FlitGranules)
  <2>1. /\ frame' = [EmptyFrame EXCEPT !.used = FlitGranules]
        /\ spill' = [spill EXCEPT !.left = @ - FlitGranules]
    BY <1>5 DEF ResumeSpill
  <2>2. frame'.messages = frame.messages
    BY <1>1, <2>1 DEF EmptyFrame
  <2>3. /\ spill'.left = spill.left - FlitGranules /\ spill'.cell = spill.cell
        /\ spill'.msg = spill.msg
    BY <1>1, <2>1 DEF SpillKept
  <2>4. spill'.left > 0 /\ spill.left > 0
    BY <1>1, <1>5, <2>3
  <2> QED BY <2>2, <2>3, <2>4 DEF Packed, SpillsInto
<1> QED BY <1>1, <1>3, <1>4, <1>5

LEMMA LeftWhenTransmitting ==
  ASSUME Typed, Transmit, NEW c \in RspCell
  PROVE  Left(c)' = Left(c)
<1>1. Packed(c)' = Packed(c)
  <2>1. CASE UNCHANGED <<frame, spill, outstanding>>
    BY <2>1 DEF Packed, SpillsInto
  <2>2. CASE ResumeSpill
    BY <2>2, ResumeKeepsPacked DEF Transmit
  <2> QED BY <2>1, <2>2 DEF Transmit
<1>2. received' = received /\ linkTx' = linkTx
  BY DEF Transmit, peerVars, linkVars
<1>3. Left(c) = Behind(c, received[c], linkTx) \o Packed(c)
  BY DEF Left
<1>4. Left(c)' = Behind(c, received'[c], linkTx') \o Packed(c)'
  BY DEF Left
<1> QED BY <1>1, <1>2, <1>3, <1>4

\* A message that is packed leaves after all that left before.
LEMMA LeftWhenPacking ==
  ASSUME Typed, HasRoom, NEW d \in RspCell, CanReply(d), PackMessage(d),
         UNCHANGED <<received, linkTx>>, NEW c \in RspCell
  PROVE  Left(c)' = IF c = d
                    THEN Append(Left(c), <<replies[d][1].n, replies[d][1].beat>>)
                    ELSE Left(c)
<1> DEFINE reply == Head(replies[d])
           msg   == <<reply.n, reply.beat>>
           g     == Granules[d[2]]
           fits  == g <= FlitGranules - frame.used
           a     == Behind(c, received[c], linkTx)
           b     == frame.messages[c]
<1>1. reply = replies[d][1] /\ msg \in Message
  <2>1. replies[d] \in Seq(Reply) /\ replies[d] # <<>>
    BY DEF Typed, RepliesTyped, CanReply
  <2>2. reply = replies[d][1] /\ reply \in Reply
    BY <2>1, TailIsSeq
  <2> QED BY <2>2 DEF Reply, Message
<1>2. frame \in FrameBuilt /\ frame.used \in Nat /\ FlitGranules \in Nat /\ g \in Nat
  BY Constants DEF Typed, FrameTyped, FrameBuilt
<1>3. SpillsInto(c) = 0 /\ spill.left = 0
  BY DEF HasRoom, SpillsInto
<1>4. a \in Seq(Message) /\ b \in Seq(Message) /\ Packed(c) = b
  BY <1>3, PackedIsSeq DEF Packed
<1>5. /\ fits => frame' = Put(frame, d, msg, g) /\ spill' = spill
      /\ ~fits => /\ frame' = [frame EXCEPT !.used = FlitGranules]
                  /\ spill'.cell = d /\ spill'.msg = msg
                  /\ spill'.left = g - (FlitGranules - frame.used)
  BY DEF PackMessage
<1>6. Left(c) = a \o b
  BY <1>4 DEF Left
<1>7. Left(c)' = a \o Packed(c)'
  BY DEF Left
<1> HIDE DEF msg, g, a
<1>8. Packed(c)' = IF c = d THEN Append(b, msg) ELSE b
  <2>1. CASE fits
    <3>1. Put(frame, d, msg, g).messages[c] = IF c = d THEN Append(b, msg) ELSE b
      BY <1>2, PutAppends
    <3>2. frame' = Put(frame, d, msg, g) /\ spill' = spill
      BY <1>5, <2>1
    <3>3. SpillsInto(c)' = 0
      BY <1>3, <3>2 DEF SpillsInto
    <3>4. Packed(c)' = frame'.messages[c]
      BY <3>3 DEF Packed
    <3> QED BY <3>1, <3>2, <3>4
  <2>2. CASE ~fits
    <3>1. /\ frame' = [frame EXCEPT !.used = FlitGranules]
          /\ spill'.cell = d /\ spill'.msg = msg /\ spill'.left > 0
      BY <1>2, <1>5, <2>2
    <3>2. frame'.messages[c] = b
      BY <1>2, <3>1 DEF FrameBuilt
    <3>3. SpillsInto(c)' = IF c = d THEN 1 ELSE 0
      BY <3>1 DEF SpillsInto
    <3> QED BY <3>1, <3>2, <3>3 DEF Packed
  <2> QED BY <2>1, <2>2
<1> HIDE DEF b
<1>9. a \o Append(b, msg) = Append(a \o b, msg)
  BY <1>1, <1>4, JoinsAppend
<1> QED BY <1>1, <1>6, <1>7, <1>8, <1>9 DEF msg

\* The frame takes along what is packed but for what is cut.
LEMMA LeftWhenSending ==
  ASSUME Typed, Send, NEW c \in RspCell
  PROVE  Left(c)' = Left(c)
<1>1. PICK grant : Granting(grant, ReqCell, owed) /\ SendFrame(grant)
  BY Sends
<1>2. spill' = spill /\ received' = received
  BY DEF Send, peerVars
<1> DEFINE f == [messages |-> frame.messages, grant |-> grant]
           a == Behind(c, received[c], linkTx)
           b == frame.messages[c]
           x == spill.msg
<1>3. /\ linkTx \in Seq(TxFrame) /\ f \in TxFrame /\ f.messages = frame.messages
      /\ received[c] \in Seq(Message) /\ x \in Message
  BY <1>1 DEF TxFrame, Granting, Typed, TxTyped, FrameTyped, FrameBuilt, PeerTyped, SpillKept
<1>4. a \in Seq(Message) /\ b \in Seq(Message)
  BY PackedIsSeq
<1>5. SpillsInto(c)' = SpillsInto(c) /\ spill'.msg = x
  BY <1>2 DEF SpillsInto
<1>6. frame' = EmptyFrame /\ EmptyFrame.messages[c] = <<>>
  BY <1>1, EmptyFrameTyped DEF SendFrame, NoMessage
<1>7. Behind(c, received[c], linkTx') = a \o b
  <2>1. CASE frame.used = 0 /\ linkTx' = linkTx
    <3>1. b = <<>>
      BY <2>1 DEF Typed, FrameTyped, NoMessage
    <3> HIDE DEF a, b
    <3>2. a \o <<>> = a
      BY <1>4
    <3> QED BY <2>1, <3>1, <3>2 DEF a
  <2>2. CASE linkTx' = Append(linkTx, f)
    <3> HIDE DEF f
    <3>1. Behind(c, received[c], Append(linkTx, f)) = a \o f.messages[c]
      BY <1>3, BehindAppended
    <3> QED BY <1>3, <2>2, <3>1
  <2> QED BY <1>1, <2>1, <2>2 DEF SendFrame
<1>8. Packed(c) = IF SpillsInto(c) = 1 THEN Append(b, x) ELSE b
  BY DEF Packed
<1>9. Packed(c)' = IF SpillsInto(c) = 1 THEN Append(<<>>, x) ELSE <<>>
  BY <1>5, <1>6 DEF Packed
<1>10. Left(c) = a \o Packed(c)
  BY DEF Left
<1>11. Left(c)' = Behind(c, received'[c], linkTx') \o Packed(c)'
  BY DEF Left
<1> DEFINE y == a \o b
<1>12. y \in Seq(Message)
  BY <1>4, JoinIsSeq
<1>13. Left(c)' = y \o Packed(c)'
  BY <1>2, <1>7, <1>11
<1> HIDE DEF a, b, x
<1>14. a \o Append(b, x) = Append(y, x)
  BY <1>3, <1>4, JoinsAppend
<1> HIDE DEF y
<1>15. y \o Append(<<>>, x) = Append(y, x) /\ y \o <<>> = y
  BY <1>3, <1>12, JoinsAppend
<1> QED BY <1>8, <1>9, <1>10, <1>13, <1>14, <1>15 DEF y

-----------------------------------------------------------------------------
\* Every response that has left is accounted for

\* The requests of a response cell that have a ticket.
Ticketed(c) == {t.n : t \in {u \in Elements(tickets) : RspCellOf(u) = c}}

AnswersOf(c) ==
  /\ Answered(c, Left(c), Ticketed(c), replies[c], Submitted(c))
  /\ Ticketed(c) \subseteq 1 .. Submitted(c)

AnswerInv == \A c \in RspCell : AnswersOf(c)

LEMMA AnswersStay ==
  ASSUME NEW c, AnswersOf(c), Left(c)' = Left(c), Ticketed(c)' = Ticketed(c),
         replies'[c] = replies[c], Submitted(c)' = Submitted(c)
  PROVE  AnswersOf(c)'
BY DEF AnswersOf

LEMMA TicketedStays ==
  ASSUME NEW c, tickets' = tickets
  PROVE  Ticketed(c)' = Ticketed(c)
BY DEF Ticketed, Elements

LEMMA NothingAnswered ==
  ASSUME NEW c \in RspCell
  PROVE  Answered(c, <<>>, {}, <<>>, 0)
<1>1. Elements(<<>>) = {} /\ InOrder(c, <<>>)
  BY DEF Elements, InOrder
<1>2. ASSUME NEW m \in ResponsesTo(c) PROVE ~Gone(m, {}, <<>>, 0)
  <2>1. m[1] \in 1 .. AskedOf(c) /\ AskedOf(c) \in Nat
    BY ResponsesAreBeats
  <2>2. ~(m[1] <= 0)
    BY <2>1
  <2> QED BY <2>2 DEF Gone
<1> QED BY <1>1, <1>2 DEF Answered

LEMMA AnswersInitially == Init => AnswerInv
<1> SUFFICES ASSUME Init, NEW c \in RspCell PROVE AnswersOf(c)
  BY DEF AnswerInv
<1>1. /\ received[c] = <<>> /\ linkTx = <<>> /\ tickets = <<>> /\ replies[c] = <<>>
      /\ frame = EmptyFrame /\ spill = NoSpill
  BY DEF Init, NoMessage
<1>2. Left(c) = <<>>
  <2>1. Typed
    BY InitTyped
  <2>2. Behind(c, <<>>, <<>>) = <<>>
    <3>1. <<>> \in Seq(Message) /\ <<>> \in Seq(TxFrame)
      OBVIOUS
    <3> QED BY <3>1, BehindIs
  <2>3. Packed(c) = <<>>
    BY <1>1 DEF Packed, SpillsInto, NoSpill, EmptyFrame, NoMessage
  <2> QED BY <1>1, <2>2, <2>3 DEF Left
<1>3. Ticketed(c) = {}
  BY <1>1 DEF Ticketed, Elements
<1>4. Submitted(c) = 0
  <2>1. Asked(c) \in HeaderCell
    BY AskedIsHeader
  <2>2. PICK n : n = TakenOf(Asked(c)) /\ InSequence(Asked(c), n)
    BY <2>1, CountedInitially DEF Counted
  <2>3. Waiting(Asked(c)) = 0 /\ issued[Asked(c)] = 0
    BY <2>1, HeaderFacts DEF Init, Waiting, NoGrant
  <2>4. n \in Nat /\ n <= 0
    BY <2>1, <2>2, <2>3, HeaderFacts, TakenIsIssued, InitTyped DEF InSequence
  <2> QED BY <2>2, <2>3, <2>4 DEF Submitted
<1> QED BY <1>1, <1>2, <1>3, <1>4, NothingAnswered DEF AnswersOf

LEMMA TicketedAre ==
  ASSUME Typed, NEW c \in RspCell, NEW u \in Elements(tickets), RspCellOf(u) = c
  PROVE  /\ u \in Transaction /\ u.n \in Ticketed(c) /\ Ticketed(c) \in SUBSET Nat
         /\ Asked(c) = CellOf(u) /\ u.rp = c[1] /\ u.write = (c[2] = "WriteResp")
<1>1. Elements(tickets) \subseteq Transaction
  BY TypedPipe, ElementsAreTyped
<1>2. u.n \in Ticketed(c) /\ Ticketed(c) \in SUBSET Nat
  BY <1>1 DEF Ticketed, Transaction
<1>3. u.write \in BOOLEAN /\ u \in Transaction
  BY <1>1 DEF Transaction
<1>4. Asked(c) = CellOf(u) /\ u.rp = c[1] /\ u.write = (c[2] = "WriteResp")
  <2>1. CASE u.write = TRUE
    BY <2>1 DEF RspCellOf, CellOf, Asked
  <2>2. CASE u.write = FALSE
    BY <2>2 DEF RspCellOf, CellOf, Asked
  <2> QED BY <1>3, <2>1, <2>2
<1> QED BY <1>2, <1>3, <1>4

LEMMA TicketedIsIn ==
  ASSUME Typed
  PROVE  \A c : Ticketed(c) \in SUBSET Nat
<1>1. Elements(tickets) \subseteq Transaction
  BY TypedPipe, ElementsAreTyped
<1> QED BY <1>1 DEF Ticketed, Transaction

\* Two transactions of a response cell are of one group when their IDs are the same.
LEMMA GroupIsId ==
  ASSUME NEW c \in RspCell, NEW t \in Transaction, NEW u \in Transaction,
         RspCellOf(t) = c, RspCellOf(u) = c
  PROVE  Group(t) = Group(u) <=> IdIn(c, t.n) = IdIn(c, u.n)
<1>1. t.write \in BOOLEAN /\ u.write \in BOOLEAN
  BY DEF Transaction
<1>2. /\ t.rp = c[1] /\ u.rp = c[1] /\ t.write = (c[2] = "WriteResp")
      /\ u.write = (c[2] = "WriteResp")
  BY <1>1 DEF RspCellOf
<1>3. IdOf(t) = IdIn(c, t.n) /\ IdOf(u) = IdIn(c, u.n)
  BY <1>2 DEF IdOf, IdIn
<1> QED BY <1>2, <1>3 DEF Group

\* The ticket that collect takes is the first of its ID, and there is no other of
\* its number.
LEMMA CollectedTicket ==
  ASSUME Typed, Pipe, Counted, memRsp # <<>>, CollectResponse(Head(memRsp)), NEW c \in RspCell
  PROVE  LET x == Head(memRsp) IN
         /\ RspCellOf(x) # c => Ticketed(c)' = Ticketed(c)
         /\ RspCellOf(x) = c =>
              /\ x.n \in Ticketed(c) /\ Ticketed(c)' = Ticketed(c) \ {x.n}
              /\ \A o \in Ticketed(c) \ {x.n} : IdIn(c, x.n) = IdIn(c, o) => x.n < o
<1> DEFINE x == Head(memRsp)
           k == TicketOf(x)
           rest == RemoveAt(tickets, k)
<1>1. k \in 1 .. Len(tickets) /\ tickets[k] = x
  BY OldestTicket
<1>2. tickets' = rest
  BY DEF CollectResponse
<1>3. tickets \in Seq(Transaction)
  BY TypedPipe
<1>4. x \notin Elements(rest)
  BY <1>1, <1>3, RemovedOrdered DEF Pipe
<1>5. Elements(tickets) = {x} \cup Elements(rest)
  BY <1>1, <1>3, RemovedElements
<1>6. /\ x \in Transaction /\ Elements(memRsp) = {x} \cup Elements(Tail(memRsp))
      /\ \A u \in Elements(Tail(memRsp)) \cup Elements(memory) \cup Elements(memReq) :
           Earlier(x, u)
  BY FirstResponseIsOldest
<1> HIDE DEF x, k, rest
<1>7. \A u \in Elements(rest) : Earlier(x, u)
  BY <1>4, <1>5, <1>6 DEF Pipe
<1>8. Ticketed(c) = {u.n : u \in {v \in Elements(tickets) : RspCellOf(v) = c}}
  BY DEF Ticketed
<1>9. Ticketed(c)' = {u.n : u \in {v \in Elements(rest) : RspCellOf(v) = c}}
  BY <1>2 DEF Ticketed
<1>10. Elements(tickets) \subseteq Transaction
  BY <1>3, ElementsAreTyped
<1>11. ASSUME RspCellOf(x) # c PROVE Ticketed(c)' = Ticketed(c)
  BY <1>5, <1>8, <1>9, <1>11
<1>12. ASSUME RspCellOf(x) = c
       PROVE  /\ x.n \in Ticketed(c) /\ Ticketed(c)' = Ticketed(c) \ {x.n}
              /\ \A o \in Ticketed(c) \ {x.n} : IdIn(c, x.n) = IdIn(c, o) => x.n < o
  <2>1. ASSUME NEW u \in Elements(rest), RspCellOf(u) = c
        PROVE  /\ u.n # x.n
               /\ IdIn(c, x.n) = IdIn(c, u.n) => x.n < u.n
    <3>1. u \in Transaction /\ Earlier(x, u) /\ u # x
      BY <1>4, <1>5, <1>7, <1>10, <2>1
    <3>2. Group(x) = Group(u) <=> IdIn(c, x.n) = IdIn(c, u.n)
      BY <1>6, <1>12, <2>1, <3>1, GroupIsId
    <3>3. IdIn(c, x.n) = IdIn(c, u.n) => x.n < u.n
      BY <3>1, <3>2 DEF Earlier
    <3>4. x.n \in Nat /\ u.n \in Nat
      BY <1>6, <3>1 DEF Transaction
    <3>5. ASSUME u.n = x.n PROVE FALSE
      <4>1. x.n < u.n
        BY <3>3, <3>5
      <4> QED BY <3>4, <3>5, <4>1
    <3> QED BY <3>3, <3>5
  <2>2. x.n \in Ticketed(c)
    BY <1>5, <1>8, <1>12
  <2>3. Ticketed(c) = {x.n} \cup Ticketed(c)'
    BY <1>5, <1>8, <1>9, <1>12
  <2>4. x.n \notin Ticketed(c)'
    BY <1>9, <2>1
  <2>5. \A o \in Ticketed(c)' : IdIn(c, x.n) = IdIn(c, o) => x.n < o
    BY <1>9, <2>1
  <2> QED BY <2>2, <2>3, <2>4, <2>5
<1> QED BY <1>11, <1>12 DEF x

LEMMA CollectKeepsAnswers ==
  ASSUME Typed, Counted, Pipe, Collect, NEW c \in RspCell, AnswersOf(c)
  PROVE  AnswersOf(c)'
<1>1. UNCHANGED <<received, linkTx, frame, spill>>
  BY DEF Collect, peerVars, linkVars, sendVars
<1>2. Left(c)' = Left(c)
  BY <1>1, LeftStays
<1>3. Submitted(c)' = Submitted(c)
  <2>1. [Next]_vars /\ ~Submit
    BY DEF Next, Collect, Submit
  <2> QED BY <2>1, SubmittedStays
<1>4. CASE UNCHANGED <<memRsp, tickets, replies>>
  BY <1>2, <1>3, <1>4, TicketedStays, AnswersStay
<1>5. CASE memRsp # <<>> /\ CollectResponse(Head(memRsp))
  <2> DEFINE x == Head(memRsp)
             d == RspCellOf(x)
             reply == [n |-> x.n, beat |-> 1]
  <2>1. replies' = [replies EXCEPT ![d] = Append(@, reply)] /\ replies \in [RspCell -> Seq(Reply)]
    BY <1>5 DEF CollectResponse, Typed, RepliesTyped
  <2>2. /\ d # c => Ticketed(c)' = Ticketed(c)
        /\ d = c =>
             /\ x.n \in Ticketed(c) /\ Ticketed(c)' = Ticketed(c) \ {x.n}
             /\ \A o \in Ticketed(c) \ {x.n} : IdIn(c, x.n) = IdIn(c, o) => x.n < o
    BY <1>5, CollectedTicket
  <2> HIDE DEF x
  <2>3. CASE d # c
    <3>1. replies'[c] = replies[c]
      BY <2>1, <2>3
    <3> QED BY <1>2, <1>3, <2>2, <2>3, <3>1, AnswersStay
  <2>4. CASE d = c
    <3>1. replies'[c] = Append(replies[c], reply) /\ replies[c] \in Seq(Reply)
      BY <2>1, <2>4
    <3>2. Submitted(c) \in Nat /\ Submitted(c) <= AskedOf(c) /\ AskedOf(c) \in Nat
      BY SubmittedIsNat, ResponsesAreBeats
    <3>3. /\ Answered(c, Left(c), Ticketed(c), replies[c], Submitted(c))
          /\ Ticketed(c) \subseteq 1 .. Submitted(c)
      BY DEF AnswersOf
    <3>4. x.n <= Submitted(c) /\ x.n \in 1 .. AskedOf(c) /\ Ticketed(c) \in SUBSET Nat
      BY <2>2, <2>4, <3>2, <3>3
    <3> DEFINE s == Left(c)
               k == Submitted(c)
               tickd == Ticketed(c)
    <3> HIDE DEF s, k, tickd
    <3>5. Answered(c, s, tickd \ {x.n}, Append(replies[c], reply), k)
      BY <2>2, <2>4, <3>1, <3>2, <3>3, <3>4, CollectAnswers DEF s, k, tickd
    <3>6. /\ Left(c)' = s /\ Submitted(c)' = k /\ Ticketed(c)' = tickd \ {x.n}
          /\ tickd \ {x.n} \subseteq 1 .. k
      BY <1>2, <1>3, <2>2, <2>4, <3>3 DEF s, k, tickd
    <3> QED BY <3>1, <3>5, <3>6 DEF AnswersOf
  <2> QED BY <2>3, <2>4
<1> QED BY <1>4, <1>5 DEF Collect

\* A response cell whose request is submitted, or not.
LEMMA SubmittedTicket ==
  ASSUME Typed, Counted, NEW slot \in Slots, FirstReady(slot), SubmitSlot(slot),
         UNCHANGED <<linkRx, issued, data>>, NEW c \in RspCell
  PROVE  \/ Ticketed(c)' = Ticketed(c) /\ Submitted(c)' = Submitted(c)
         \/ /\ Ticketed(c)' = Ticketed(c) \cup {Submitted(c) + 1}
            /\ Submitted(c)' = Submitted(c) + 1
<1>1. Sequences
  BY DEF Sequences, Counted
<1>2. PICK t \in Transaction :
        /\ tickets' = Append(tickets, t) /\ CellOf(t) = SlotCell(slot)
        /\ \A n : InSequence(CellOf(t), n) => t.n = n - Waiting(CellOf(t)) + 1
  BY <1>1, SubmittedIsLatest
<1> DEFINE a == Asked(c)
<1>3. a \in HeaderCell /\ a \in ReqCell
  BY AskedIsHeader
<1>4. Submitted(c) = TakenOf(a) - Waiting(a) /\ Submitted(c)' = TakenOf(a)' - Waiting(a)'
  BY DEF Submitted
<1>5. RspCellOf(t) = c <=> CellOf(t) = a
  <2>1. t.write \in BOOLEAN /\ c = <<c[1], c[2]>> /\ (c[2] = "WriteResp" \/ c[2] = "ReadData")
    BY AskedIsHeader DEF Transaction
  <2>2. CASE c[2] = "WriteResp"
    BY <2>1, <2>2 DEF RspCellOf, CellOf, Asked
  <2>3. CASE c[2] = "ReadData"
    BY <2>1, <2>3 DEF RspCellOf, CellOf, Asked
  <2> QED BY <2>1, <2>2, <2>3
<1> HIDE DEF a
<1>6. TakenOf(a)' = TakenOf(a)
  BY <1>3, TakenStaysSame
<1>7. /\ a = SlotCell(slot) => Waiting(a) >= 1 /\ Waiting(a)' = Waiting(a) - 1
      /\ a # SlotCell(slot) => Waiting(a)' = Waiting(a)
  BY <1>3, SubmittedWait
<1>8. PICK n : n = TakenOf(a) /\ InSequence(a, n)
  BY <1>3 DEF Counted
<1>9. n \in Nat /\ Waiting(a) \in Nat
  BY <1>3, <1>8, TakenIsIssued, WaitingIsNat DEF InSequence
<1>10. Elements(tickets') = Elements(tickets) \cup {t}
  <2>1. tickets \in Seq(Transaction)
    BY TypedPipe
  <2> QED BY <1>2, <2>1, AppendedElements
<1>11. /\ Ticketed(c) = {u.n : u \in {v \in Elements(tickets) : RspCellOf(v) = c}}
       /\ Ticketed(c)' = {u.n : u \in {v \in Elements(tickets') : RspCellOf(v) = c}}
  BY DEF Ticketed
<1>12. CASE a = SlotCell(slot)
  <2>1. t.n = n - Waiting(a) + 1 /\ RspCellOf(t) = c
    BY <1>2, <1>5, <1>8, <1>12
  <2>2. t.n = Submitted(c) + 1
    BY <1>4, <1>8, <2>1
  <2>3. Submitted(c)' = Submitted(c) + 1
    BY <1>4, <1>6, <1>7, <1>8, <1>9, <1>12
  <2>4. Ticketed(c)' = Ticketed(c) \cup {t.n}
    BY <1>10, <1>11, <2>1
  <2> QED BY <2>2, <2>3, <2>4
<1>13. CASE a # SlotCell(slot)
  <2>1. RspCellOf(t) # c
    BY <1>2, <1>5, <1>13
  <2>2. Ticketed(c)' = Ticketed(c)
    BY <1>10, <1>11, <2>1
  <2>3. Submitted(c)' = Submitted(c)
    BY <1>4, <1>6, <1>7, <1>13
  <2> QED BY <2>2, <2>3
<1> QED BY <1>12, <1>13

LEMMA SubmitKeepsAnswers ==
  ASSUME Typed, Counted, Submit, NEW c \in RspCell, AnswersOf(c)
  PROVE  AnswersOf(c)'
<1>1. /\ UNCHANGED <<received, linkTx, frame, spill>> /\ replies' = replies
      /\ UNCHANGED <<linkRx, issued, data>>
  BY DEF Submit, peerVars, linkVars, sendVars
<1>2. Left(c)' = Left(c)
  BY <1>1, LeftStays
<1>3. CASE UNCHANGED <<memReq, tickets, outstanding, writes, reads, owed, nextSubmit>>
  <2>1. [Next]_vars
    BY DEF Next
  <2>2. Submitted(c)' = Submitted(c)
    BY <1>3, <2>1, SubmittedStays
  <2> QED BY <1>1, <1>2, <1>3, <2>2, TicketedStays, AnswersStay
<1>4. CASE \E slot \in Slots : FirstReady(slot) /\ SubmitSlot(slot)
  <2>1. \/ Ticketed(c)' = Ticketed(c) /\ Submitted(c)' = Submitted(c)
        \/ /\ Ticketed(c)' = Ticketed(c) \cup {Submitted(c) + 1}
           /\ Submitted(c)' = Submitted(c) + 1
    BY <1>1, <1>4, SubmittedTicket
  <2>2. CASE Ticketed(c)' = Ticketed(c) /\ Submitted(c)' = Submitted(c)
    BY <1>1, <1>2, <2>2, AnswersStay
  <2>3. CASE /\ Ticketed(c)' = Ticketed(c) \cup {Submitted(c) + 1}
             /\ Submitted(c)' = Submitted(c) + 1
    <3> DEFINE s == Left(c)
               k == Submitted(c)
               tickd == Ticketed(c)
               q == replies[c]
    <3>1. k \in Nat /\ q \in Seq(Reply) /\ tickd \in SUBSET Nat
      BY SubmittedIsNat, TicketedIsIn DEF Typed, RepliesTyped
    <3>2. Answered(c, s, tickd, q, k) /\ tickd \subseteq 1 .. k
      BY DEF AnswersOf
    <3>3. /\ Left(c)' = s /\ Submitted(c)' = k + 1 /\ Ticketed(c)' = tickd \cup {k + 1}
          /\ replies'[c] = q
      BY <1>1, <1>2, <2>3
    <3> HIDE DEF s, k, tickd, q
    <3>4. Answered(c, s, tickd \cup {k + 1}, q, k + 1)
      BY <3>1, <3>2, SubmitAnswers
    <3>5. tickd \cup {k + 1} \subseteq 1 .. k + 1
      BY <3>1, <3>2
    <3> QED BY <3>3, <3>4, <3>5 DEF AnswersOf
  <2> QED BY <2>1, <2>2, <2>3
<1> QED BY <1>3, <1>4 DEF Submit

LEMMA PackKeepsAnswers ==
  ASSUME Typed, Counted, Pack, NEW c \in RspCell, AnswersOf(c)
  PROVE  AnswersOf(c)'
<1>1. HasRoom /\ UNCHANGED <<received, linkTx>> /\ tickets' = tickets
  BY DEF Pack, peerVars, linkVars
<1>2. PICK d \in RspCell : CanReply(d) /\ PackMessage(d)
  BY DEF Pack, NextMessage
<1> DEFINE s == Left(c)
           k == Submitted(c)
           tickd == Ticketed(c)
           q == replies[c]
<1>3. Left(c)' = IF c = d THEN Append(s, <<replies[d][1].n, replies[d][1].beat>>) ELSE s
  BY <1>1, <1>2, LeftWhenPacking
<1>4. Submitted(c)' = k
  <2>1. [Next]_vars /\ ~Submit
    BY DEF Next, Pack, Submit
  <2> QED BY <2>1, SubmittedStays
<1>5. Ticketed(c)' = tickd
  BY <1>1, TicketedStays
<1>6. replies \in [RspCell -> Seq(Reply)] /\ replies[d] # <<>>
  BY <1>2 DEF Typed, RepliesTyped, CanReply
<1>7. replies' = [replies EXCEPT ![d] = RestOfReplies(d, replies[d])]
  BY <1>2 DEF PackMessage, RestOfReplies
<1>8. CASE c # d
  <2>1. replies'[c] = replies[c]
    BY <1>6, <1>7, <1>8
  <2> QED BY <1>3, <1>4, <1>5, <1>8, <2>1, AnswersStay
<1>9. CASE c = d
  <2>1. replies'[c] = RestOfReplies(c, q) /\ q \in Seq(Reply) /\ q # <<>>
    BY <1>6, <1>7, <1>9
  <2>2. k \in Nat /\ tickd \in SUBSET Nat /\ s \in Seq(Message)
    BY SubmittedIsNat, TicketedIsIn, PackedIsSeq
  <2>3. Answered(c, s, tickd, q, k) /\ tickd \subseteq 1 .. k
    BY DEF AnswersOf
  <2>4. Left(c)' = Append(s, <<q[1].n, q[1].beat>>)
    BY <1>3, <1>9
  <2> HIDE DEF s, k, tickd, q
  <2>5. Answered(c, Append(s, <<q[1].n, q[1].beat>>), tickd, RestOfReplies(c, q), k)
    BY <2>1, <2>2, <2>3, PackAnswers
  <2> QED BY <1>4, <1>5, <2>1, <2>3, <2>4, <2>5 DEF AnswersOf
<1> QED BY <1>8, <1>9

LEMMA AnswersStep == Typed /\ Counted /\ Pipe /\ AnswerInv /\ [Next]_vars => AnswerInv'
<1> SUFFICES ASSUME Typed, Counted, Pipe, AnswerInv, [Next]_vars, NEW c \in RspCell
             PROVE  AnswersOf(c)'
  BY DEF AnswerInv
<1>1. AnswersOf(c)
  BY DEF AnswerInv
<1>2. ASSUME ~Submit, ~Collect, ~Pack, Left(c)' = Left(c) PROVE AnswersOf(c)'
  <2>1. Submitted(c)' = Submitted(c)
    BY <1>2, SubmittedStays
  <2>2. tickets' = tickets /\ replies' = replies
    BY <1>2 DEF Next, vars, targetVars, PeerSend, PeerGrant, PeerFrame, PeerReceive, PeerAccept,
       MemTake, MemComplete, Receive, Assemble, Transmit, Send
  <2> QED BY <1>1, <1>2, <2>1, <2>2, TicketedStays, AnswersStay
<1>3. CASE Submit \/ Collect \/ Pack
  BY <1>1, <1>3, SubmitKeepsAnswers, CollectKeepsAnswers, PackKeepsAnswers
<1>4. CASE PeerReceive \/ Transmit \/ Send
  BY <1>2, <1>3, <1>4, LeftWhenReceived, LeftWhenTransmitting, LeftWhenSending
<1>5. CASE PeerSend \/ PeerGrant \/ PeerAccept \/ MemTake \/ MemComplete \/ Receive \/ Assemble
           \/ UNCHANGED vars
  <2>1. UNCHANGED <<received, linkTx, frame, spill>>
    BY <1>5 DEF vars, targetVars, peerVars, linkVars, sendVars, PeerSend, PeerGrant, PeerFrame,
       PeerAccept, MemTake, MemComplete, Receive, Assemble
  <2> QED BY <1>2, <1>3, <2>1, LeftStays
<1> QED BY <1>3, <1>4, <1>5 DEF Next

AnsweredInv == Typed /\ Counted /\ Pipe /\ AnswerInv

LEMMA AnswerInvariance == Spec => []AnsweredInv
<1>1. Init => AnsweredInv
  BY InitTyped, CountedInitially, PipeInitially, AnswersInitially DEF AnsweredInv
<1>2. AnsweredInv /\ [Next]_vars => AnsweredInv'
  <2>1. Counted => Sequences
    BY DEF Counted, Sequences
  <2> QED BY <2>1, NextTyped, CountedStep, PipeStep, AnswersStep DEF AnsweredInv
<1> QED BY <1>1, <1>2, PTL DEF Spec

\* What has left is in order, and so is what has arrived of it.
LEMMA ReceivedInOrder ==
  ASSUME Typed, NEW c \in RspCell, InOrder(c, Left(c))
  PROVE  InOrder(c, received[c])
<1> DEFINE a == Behind(c, received[c], linkTx)
           r == received[c]
<1>1. a \in Seq(Message) /\ Packed(c) \in Seq(Message) /\ Left(c) = a \o Packed(c)
  BY PackedIsSeq DEF Left
<1>2. r \in Seq(Message) /\ linkTx \in Seq(TxFrame)
  BY DEF Typed, PeerTyped, TxTyped
<1>3. PICK t \in Seq(Message) : a = r \o t
  BY <1>2, BehindBegins DEF Begins
<1> HIDE DEF a, r
<1>4. InOrder(c, a)
  BY <1>1, FrontInOrder
<1>5. InOrder(c, r)
  BY <1>2, <1>3, <1>4, FrontInOrder
<1> QED BY <1>5 DEF r

\* What the initiator has received of one ID are the first responses to that ID's
\* requests, in order, each beat once: over the queues of tickets and replies, the
\* cuts of frames and the link (aou_target.h:172-184, 186-248).
THEOREM ResponsesAreInOrder == Spec => []AnsweredInOrder
<1>1. AnsweredInv => AnsweredInOrder
  <2> SUFFICES ASSUME AnsweredInv, NEW c \in RspCell PROVE InOrder(c, received[c])
    BY DEF AnsweredInOrder, InOrder
  <2>1. Typed /\ InOrder(c, Left(c))
    BY DEF AnsweredInv, AnswerInv, AnswersOf, Answered
  <2> QED BY <2>1, ReceivedInOrder
<1> QED BY <1>1, AnswerInvariance, PTL

LEMMA NoReplyLeft ==
  ASSUME Typed, RepliesLeft = 0, NEW c \in RspCell
  PROVE  replies[c] = <<>>
<1> DEFINE f == [d \in RspCell |-> Len(replies[d])]
           g == [d \in RspCell |-> IF d = c THEN 0 ELSE Len(replies[d])]
<1>1. \A d \in RspCell : replies[d] \in Seq(Reply) /\ Len(replies[d]) \in Nat
  <2>1. \A d \in RspCell : replies[d] \in Seq(Reply)
    BY DEF Typed, RepliesTyped
  <2> QED BY <2>1
<1>2. f \in [RspCell -> Nat] /\ g \in [RspCell -> Nat]
  BY <1>1
<1>3. RepliesLeft = SumFunction(f)
  BY DEF RepliesLeft
<1>4. /\ DOMAIN f = RspCell /\ DOMAIN g = RspCell
      /\ g[c] = 0 /\ f[c] = Len(replies[c]) /\ \A d \in RspCell : d # c => g[d] = f[d]
  OBVIOUS
<1> HIDE DEF f, g
<1>5. f \in [RspCell -> Int] /\ g \in [RspCell -> Int]
  BY <1>2
<1>6. Numbers(f) /\ Numbers(g)
  BY <1>4, <1>5, RspCellIsFinite DEF Numbers
<1>7. SumFunction(g) = SumFunction(f) - f[c] + g[c]
  BY <1>4, <1>6, SumOfChanged
<1>8. SumFunction(g) \in Nat
  BY <1>2, <1>4, RspCellIsFinite, SumOfNatIsNat
<1>9. Len(replies[c]) = 0
  BY <1>1, <1>3, <1>4, <1>7, <1>8
<1> QED BY <1>1, <1>9

\* Between two edges nothing is packed but what is cut.
LEMMA IdleAnswers ==
  ASSUME Typed, Counted, OutstandingInv, AtEdge, Idle, NEW c \in RspCell, AnswersOf(c),
         NEW r \in ResponsesTo(c), r[1] <= TakenOf(Asked(c))
  PROVE  r \in Answers(c)
<1>1. frame = EmptyFrame /\ SpillsInto(c) = 0
  BY DEF AtEdge, Idle, SpillsInto, Typed, FrameTyped
<1>2. received[c] \in Seq(Message) /\ linkTx \in Seq(TxFrame)
  BY DEF Typed, PeerTyped, TxTyped
<1> DEFINE b == Behind(c, received[c], linkTx)
<1>3. b \in Seq(Message) /\ Elements(b) = Elements(received[c]) \cup OnLink(c, linkTx)
  BY <1>2, BehindIs, BehindBegins
<1>4. Packed(c) = <<>>
  BY <1>1 DEF Packed, EmptyFrame, NoMessage
<1>5. Left(c) = b \o <<>>
  BY <1>4 DEF Left
<1> HIDE DEF b
<1>6. Left(c) = b
  BY <1>3, <1>5
<1>7. Elements(Left(c)) = Answers(c)
  BY <1>3, <1>6 DEF Answers, Elements, OnLink
<1>8. tickets = <<>> /\ replies[c] = <<>>
  <2>1. tickets \in Seq(Transaction) /\ Len(tickets) \in Nat /\ RepliesLeft \in Nat
    BY TypedPipe, RepliesLeftIsNat
  <2>2. Cut \in Nat /\ 0 = Len(tickets) + RepliesLeft + Cut
    BY DEF Idle, OutstandingInv, Cut
  <2>3. Len(tickets) = 0 /\ RepliesLeft = 0
    BY <2>1, <2>2
  <2> QED BY <2>1, <2>3, NoReplyLeft
<1>9. Ticketed(c) = {}
  BY <1>8 DEF Ticketed, Elements
<1>10. Waiting(Asked(c)) = 0
  BY AskedIsHeader, HeaderFacts DEF Idle, Waiting
<1>11. r[1] <= Submitted(c)
  <2>1. Submitted(c) = TakenOf(Asked(c)) - 0
    BY <1>10 DEF Submitted
  <2>2. TakenOf(Asked(c)) \in Nat
    BY AskedIsHeader, TakenIsIssued DEF Counted, InSequence
  <2> QED BY <2>1, <2>2
<1>12. Gone(r, {}, <<>>, Submitted(c))
  BY <1>11 DEF Gone
<1>13. r \in Elements(Left(c))
  BY <1>8, <1>9, <1>12 DEF AnswersOf, Answered
<1> QED BY <1>7, <1>13

\* When idle() holds between two edges, every request the target has taken is
\* answered in full, in what was received or on the link (aou_target.h:36-42).
THEOREM IdleTargetIsDone == Spec => []IdleMeansDone
<1>1. AnsweredInv /\ OutstandingInv => IdleMeansDone
  <2> SUFFICES ASSUME AnsweredInv, OutstandingInv, AtEdge, Idle, NEW rp \in Rp
               PROVE  /\ \A r \in ResponsesTo(<<rp, "WriteResp">>) :
                           r[1] <= RequestsTaken(rp, "WriteReq")
                             => r \in Answers(<<rp, "WriteResp">>)
                      /\ \A r \in ResponsesTo(<<rp, "ReadData">>) :
                           r[1] <= RequestsTaken(rp, "ReadReq")
                             => r \in Answers(<<rp, "ReadData">>)
    BY DEF IdleMeansDone
  <2> DEFINE w == <<rp, "WriteResp">>
             d == <<rp, "ReadData">>
  <2>1. w \in RspCell /\ d \in RspCell
    BY DEF RspCell, RspKind
  <2>2. /\ TakenOf(Asked(w)) = RequestsTaken(rp, "WriteReq")
        /\ TakenOf(Asked(d)) = RequestsTaken(rp, "ReadReq")
    BY DEF TakenOf, Asked
  <2> HIDE DEF w, d
  <2>3. Typed /\ Counted /\ AnswersOf(w) /\ AnswersOf(d)
    BY <2>1 DEF AnsweredInv, AnswerInv
  <2>4. \A r \in ResponsesTo(w) : r[1] <= RequestsTaken(rp, "WriteReq") => r \in Answers(w)
    BY <2>1, <2>2, <2>3, IdleAnswers
  <2>5. \A r \in ResponsesTo(d) : r[1] <= RequestsTaken(rp, "ReadReq") => r \in Answers(d)
    BY <2>1, <2>2, <2>3, IdleAnswers
  <2> QED BY <2>4, <2>5 DEF w, d
<1> QED BY <1>1, AnswerInvariance, OutstandingInvariance, PTL
=============================================================================
