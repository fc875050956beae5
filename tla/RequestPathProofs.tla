-------------------------- MODULE RequestPathProofs --------------------------
(***************************************************************************)
(* Proofs about RequestPath for any planes, queues, timeouts, messages and *)
(* AXI traffic.                                                            *)
(*                                                                         *)
(* What the bridge owes its peer is a sum that each edge and each response *)
(* only moves about: a grant leaves what is due for the output register,   *)
(* and that for the peer.  The cut-off of the counter never takes effect,  *)
(* because the sum bounds each of its terms.                               *)
(*                                                                         *)
(* The messages of a cell are one list, of which the decoder has the front *)
(* and AXI adds to the end; the credits of a cell are one sum.  The packer *)
(* is a fold whose every step keeps both, and keeps what it has cut a      *)
(* stream of whole messages for the decoder behind the output register.    *)
(* The routes that wait are those of the last writes, so that each beat    *)
(* meets the plane of its own write.                                       *)
(***************************************************************************)
EXTENDS RequestPath, AouFramesProofs

Credit == INSTANCE CreditLoopProofs
  WITH Kind <- RspKind, NarrowKind <- {"WriteResp"},
       Capacity <- [c \in RspCell |-> RxCapacity[c[2]]],
       pending <- Due, available <- peerCredit,
       flying <- [c \in RspCell |-> GrantInOutput(c)],
       sending <- NoGrant, buffered <- returns

\* A grant never exceeds what is due: CreditManager's encoding, which is that of
\* CreditLoop.
LEMMA GrantedIsDue ==
  ASSUME Due \in [RspCell -> Nat], NEW planes, NEW c \in RspCell
  PROVE  Response!Granted(planes)[c] \in 0 .. Due[c]
<1>1. c[2] \in RspKind /\ Due[c] \in Nat /\ c \in Response!Cell
  BY DEF RspCell, Response!Cell, Rp, Response!Rp
<1>2. Response!Encoded(c[2], Due[c]) \in 0 .. Due[c]
  BY <1>1, Credit!EncodedIsOwed DEF Response!Encoded, Response!SizesOf, Response!GrantSizes, Credit!Encoded, Credit!SizesOf, Credit!GrantSizes
<1> QED BY <1>1, <1>2 DEF Response!Granted

-----------------------------------------------------------------------------
\* The output register holds at most one frame, whose grants are counts.
OutputTyped == output = <<>> \/ \E f : output = <<f>> /\ f.grant \in [RspCell -> Nat]

GrantsTyped ==
  /\ owed \in [RspCell -> Nat] /\ returns \in [RspCell -> Nat]
  /\ peerCredit \in [RspCell -> Nat]
  /\ OutputTyped

GrantsInv == GrantsTyped /\ GrantsAreConserved

LEMMA CapacityIsNat ==
  ASSUME NEW c \in RspCell
  PROVE  RxCapacity[c[2]] \in Nat
<1>1. c[2] \in RspKind
  BY DEF RspCell
<1> QED BY <1>1, RequestPathAssumption

LEMMA GrantInOutputIsNat ==
  ASSUME OutputTyped, NEW c \in RspCell
  PROVE  GrantInOutput(c) \in Nat
<1>1. CASE output = <<>>
  BY <1>1 DEF GrantInOutput
<1>2. CASE output # <<>>
  <2>1. PICK f : output = <<f>> /\ f.grant \in [RspCell -> Nat]
    BY <1>2 DEF OutputTyped
  <2> QED BY <2>1 DEF GrantInOutput
<1> QED BY <1>1, <1>2

\* While the sum holds, the counter is not cut off.
LEMMA DueIsTheSum ==
  ASSUME GrantsInv, NEW c \in RspCell
  PROVE  Due[c] = owed[c] + returns[c] /\ Due[c] \in Nat
<1>1. /\ owed[c] \in Nat /\ returns[c] \in Nat /\ peerCredit[c] \in Nat
      /\ GrantInOutput(c) \in Nat /\ RxCapacity[c[2]] \in Nat
  BY GrantInOutputIsNat, CapacityIsNat DEF GrantsInv, GrantsTyped
<1>2. owed[c] + returns[c] + GrantInOutput(c) + peerCredit[c] = RxCapacity[c[2]]
  BY DEF GrantsInv, GrantsAreConserved
<1>3. owed[c] + returns[c] <= RxCapacity[c[2]]
  BY <1>1, <1>2
<1> QED BY <1>1, <1>3 DEF Due, AtMost

LEMMA DueIsTyped == GrantsInv => Due \in [RspCell -> Nat]
<1> SUFFICES ASSUME GrantsInv PROVE Due \in [RspCell -> Nat]
  OBVIOUS
<1>1. \A c \in RspCell : Due[c] \in Nat
  BY DueIsTheSum
<1> QED BY <1>1 DEF Due

-----------------------------------------------------------------------------
\* What the packer does with the grants at an edge: it sends what it takes from
\* the sum of what was owed and returned, in a register that was free.
Moved(g) ==
  /\ g \in [RspCell -> Nat]
  /\ \A c \in RspCell : g[c] <= Due[c]
  /\ owed' = [c \in RspCell |-> Due[c] - g[c]]
  /\ \/ output' = <<>> /\ g = NoGrant
     \/ \E f : output' = <<f>> /\ f.grant = g

LEMMA NoGrantIsDue ==
  ASSUME GrantsInv, owed' = Due, output' = <<>>
  PROVE  Moved(NoGrant)
<1>1. \A c \in RspCell : Due[c] \in Nat
  BY DueIsTheSum
<1>2. NoGrant \in [RspCell -> Nat] /\ \A c \in RspCell : NoGrant[c] = 0
  BY DEF NoGrant
<1>3. \A c \in RspCell : 0 <= Due[c] /\ Due[c] - 0 = Due[c]
  BY <1>1
<1>4. Due = [c \in RspCell |-> Due[c] - NoGrant[c]]
  BY <1>2, <1>3 DEF Due
<1> QED BY <1>2, <1>3, <1>4 DEF Moved

LEMMA FlushMoves ==
  ASSUME GrantsInv, NEW parts, NEW g \in [RspCell -> Nat],
         \A c \in RspCell : g[c] <= Due[c], Flush(parts, g)
  PROVE  Moved(g)
<1>1. output' = << [parts |-> parts, grant |-> g] >>
  BY DEF Flush
<1>2. owed' = [c \in RspCell |-> Due[c] - g[c]]
  BY DEF Flush
<1>3. \E f : output' = <<f>> /\ f.grant = g
  BY <1>1
<1> QED BY <1>2, <1>3 DEF Moved

LEMMA GrantedMoves ==
  ASSUME GrantsInv, NEW parts, NEW planes, Flush(parts, Response!Granted(planes))
  PROVE  \E g : Moved(g)
<1> DEFINE g == Response!Granted(planes)
<1>1. \A c \in RspCell : g[c] \in 0 .. Due[c] /\ Due[c] \in Nat
  BY GrantedIsDue, DueIsTyped
<1>2. \A c \in RspCell : g[c] \in Nat /\ g[c] <= Due[c]
  BY <1>1
<1>3. g \in [RspCell -> Nat]
  BY <1>2 DEF Response!Granted, Response!Cell, RspCell, Response!Rp, Rp
<1>4. Flush(parts, g)
  OBVIOUS
<1> HIDE DEF g
<1> QED BY <1>2, <1>3, <1>4, FlushMoves

LEMMA DecideMoves ==
  ASSUME GrantsInv, NEW p, Decide(p)
  PROVE  \E g : Moved(g)
<1>1. CASE FlushWithHeader(p)
  <2>1. CASE \E rp \in Rp : Flush(p.frame, Response!Granted({rp}))
    BY <2>1, GrantedMoves
  <2>2. CASE Flush(p.frame, NoGrant)
    <3>1. NoGrant \in [RspCell -> Nat] /\ \A c \in RspCell : NoGrant[c] <= Due[c]
      BY DueIsTheSum DEF NoGrant
    <3> QED BY <2>2, <3>1, FlushMoves
  <2> QED BY <1>1, <2>1, <2>2, Zenon DEF FlushWithHeader
<1>2. CASE DedicatedGrant
  BY <1>2, GrantedMoves DEF DedicatedGrant
<1>3. CASE Keep(p) /\ output' = <<>>
  BY <1>3, NoGrantIsDue DEF Keep
<1> QED BY <1>1, <1>2, <1>3 DEF Decide

\* The sum after an edge at which the register was free or its frame taken.
LEMMA MovedConserves ==
  ASSUME GrantsInv, NEW g, Moved(g), returns' = NoGrant,
         peerCredit' = [c \in RspCell |-> peerCredit[c] + GrantInOutput(c)]
  PROVE  GrantsInv'
<1>1. OutputTyped' /\ \A c \in RspCell : GrantInOutput(c)' = g[c]
  <2>1. CASE output' = <<>> /\ g = NoGrant
    BY <2>1 DEF OutputTyped, GrantInOutput, NoGrant
  <2>2. CASE \E f : output' = <<f>> /\ f.grant = g
    BY <2>2 DEF OutputTyped, GrantInOutput, Moved
  <2> QED BY <2>1, <2>2 DEF Moved
<1>2. ASSUME NEW c \in RspCell
      PROVE  /\ Due[c] - g[c] \in Nat /\ peerCredit[c] + GrantInOutput(c) \in Nat
             /\ (Due[c] - g[c]) + 0 + g[c] + (peerCredit[c] + GrantInOutput(c))
                  = RxCapacity[c[2]]
  <2>1. /\ owed[c] \in Nat /\ returns[c] \in Nat /\ peerCredit[c] \in Nat
        /\ GrantInOutput(c) \in Nat /\ g[c] \in Nat /\ g[c] <= Due[c]
        /\ RxCapacity[c[2]] \in Nat
    BY GrantInOutputIsNat, CapacityIsNat DEF GrantsInv, GrantsTyped, Moved
  <2>2. owed[c] + returns[c] + GrantInOutput(c) + peerCredit[c] = RxCapacity[c[2]]
    BY DEF GrantsInv, GrantsAreConserved
  <2>3. Due[c] = owed[c] + returns[c]
    BY DueIsTheSum
  <2> QED BY <2>1, <2>2, <2>3
<1>3. owed' = [c \in RspCell |-> Due[c] - g[c]]
  BY DEF Moved
<1>4. /\ owed' \in [RspCell -> Nat] /\ returns' \in [RspCell -> Nat]
      /\ peerCredit' \in [RspCell -> Nat]
  BY <1>2, <1>3 DEF NoGrant
<1>5. ASSUME NEW c \in RspCell
      PROVE  (owed[c] + returns[c] + GrantInOutput(c) + peerCredit[c])' = RxCapacity[c[2]]
  <2>1. /\ owed'[c] = Due[c] - g[c] /\ returns'[c] = 0
        /\ peerCredit'[c] = peerCredit[c] + GrantInOutput(c)
    BY <1>3 DEF NoGrant
  <2>2. GrantInOutput(c)' = g[c]
    BY <1>1
  <2> QED BY <1>2, <2>1, <2>2
<1> QED BY <1>1, <1>4, <1>5 DEF GrantsInv, GrantsTyped, GrantsAreConserved

LEMMA EdgeConserves == GrantsInv /\ Edge => GrantsInv'
<1> SUFFICES ASSUME GrantsInv, Edge PROVE GrantsInv'
  OBVIOUS
<1> DEFINE taken == txReady /\ output # <<>>
<1>1. PICK p : /\ Packer(p, taken) /\ returns' = NoGrant
               /\ \/ taken /\ Arrive(Head(output))
                  \/ ~taken /\ UNCHANGED <<farVars, peerCredit>>
  BY Zenon DEF Edge
<1>2. CASE output = <<>> \/ taken
  <2>1. Decide(p)
    BY <1>1, <1>2 DEF Packer
  <2>2. PICK g : Moved(g)
    BY <2>1, DecideMoves
  <2>3. peerCredit' = [c \in RspCell |-> peerCredit[c] + GrantInOutput(c)]
    <3>1. CASE taken
      BY <1>1, <3>1, Zenon DEF Arrive, GrantInOutput
    <3>2. CASE ~taken
      <4>1. peerCredit' = peerCredit /\ output = <<>>
        BY <1>1, <1>2, <3>2
      <4>2. \A c \in RspCell : peerCredit[c] + 0 = peerCredit[c]
        BY DEF GrantsInv, GrantsTyped
      <4> QED BY <4>1, <4>2 DEF GrantInOutput, GrantsInv, GrantsTyped
    <3> QED BY <3>1, <3>2
  <2> QED BY <1>1, <2>2, <2>3, MovedConserves
<1>3. CASE output # <<>> /\ ~taken
  <2>1. Keep(p) /\ output' = output /\ peerCredit' = peerCredit
    BY <1>1, <1>3 DEF Packer
  <2>2. OutputTyped' /\ \A c \in RspCell : GrantInOutput(c)' = GrantInOutput(c)
    BY <2>1 DEF OutputTyped, GrantInOutput, GrantsInv, GrantsTyped
  <2>3. ASSUME NEW c \in RspCell
        PROVE  (owed[c] + returns[c] + GrantInOutput(c) + peerCredit[c])' = RxCapacity[c[2]]
    <3>1. /\ owed'[c] = owed[c] + returns[c] /\ returns'[c] = 0
      BY <1>1, <2>1, DueIsTheSum DEF Keep, NoGrant
    <3>2. /\ owed[c] \in Nat /\ returns[c] \in Nat
          /\ owed[c] + returns[c] + GrantInOutput(c) + peerCredit[c] = RxCapacity[c[2]]
      BY DEF GrantsInv, GrantsTyped, GrantsAreConserved
    <3> QED BY <2>1, <2>2, <3>1, <3>2
  <2>4. owed' \in [RspCell -> Nat] /\ returns' \in [RspCell -> Nat]
    BY <1>1, <2>1, DueIsTyped DEF Keep, NoGrant
  <2> QED BY <2>1, <2>2, <2>3, <2>4 DEF GrantsInv, GrantsTyped, GrantsAreConserved
<1> QED BY <1>2, <1>3

LEMMA ReturnConserves ==
  ASSUME GrantsInv, NEW d \in RspCell, Return(d)
  PROVE  GrantsInv'
<1>0. d[2] \in RspKind
  BY DEF RspCell
<1>1. Granules[d[2]] \in Nat
  BY <1>0, RequestPathAssumption
<1> DEFINE n == Granules[d[2]]
<1>2. peerCredit[d] >= n /\ n \in Nat
  BY <1>1 DEF Return
<1>3. /\ peerCredit' = [peerCredit EXCEPT ![d] = @ - n]
      /\ returns' = [returns EXCEPT ![d] = @ + n]
      /\ owed' = owed /\ output' = output
  BY DEF Return, creditVars, packVars
<1> HIDE DEF n
<1>4. OutputTyped' /\ \A c \in RspCell : GrantInOutput(c)' = GrantInOutput(c)
  BY <1>3 DEF OutputTyped, GrantInOutput, GrantsInv, GrantsTyped
<1>5. peerCredit' \in [RspCell -> Nat] /\ returns' \in [RspCell -> Nat]
  BY <1>2, <1>3 DEF GrantsInv, GrantsTyped
<1>6. ASSUME NEW c \in RspCell
      PROVE  (owed[c] + returns[c] + GrantInOutput(c) + peerCredit[c])' = RxCapacity[c[2]]
  <2>1. /\ owed[c] \in Nat /\ returns[c] \in Nat /\ peerCredit[c] \in Nat
        /\ owed[c] + returns[c] + GrantInOutput(c) + peerCredit[c] = RxCapacity[c[2]]
    BY DEF GrantsInv, GrantsTyped, GrantsAreConserved
  <2>2. /\ peerCredit'[c] = IF c = d THEN peerCredit[c] - n ELSE peerCredit[c]
        /\ returns'[c] = IF c = d THEN returns[c] + n ELSE returns[c]
    BY <1>3 DEF GrantsInv, GrantsTyped
  <2>3. GrantInOutput(c) \in Nat
    BY GrantInOutputIsNat DEF GrantsInv, GrantsTyped
  <2> QED BY <1>2, <1>3, <1>4, <2>1, <2>2, <2>3
<1> QED BY <1>3, <1>4, <1>5, <1>6 DEF GrantsInv, GrantsTyped, GrantsAreConserved

LEMMA GrantsInitially == Init => GrantsInv
<1> SUFFICES ASSUME Init PROVE GrantsInv
  OBVIOUS
<1>1. \A c \in RspCell : RxCapacity[c[2]] \in Nat
  BY CapacityIsNat
<1>2. /\ owed = [c \in RspCell |-> RxCapacity[c[2]]]
      /\ returns = NoGrant /\ peerCredit = NoGrant /\ output = <<>>
  BY DEF Init
<1>3. GrantsTyped
  BY <1>1, <1>2 DEF GrantsTyped, OutputTyped, NoGrant
<1>4. \A c \in RspCell : /\ owed[c] = RxCapacity[c[2]] /\ returns[c] = 0
                         /\ GrantInOutput(c) = 0 /\ peerCredit[c] = 0
  BY <1>2 DEF GrantInOutput, NoGrant
<1>5. GrantsAreConserved
  BY <1>1, <1>4 DEF GrantsAreConserved
<1> QED BY <1>3, <1>5 DEF GrantsInv

LEMMA GrantsStep == GrantsInv /\ [Next]_vars => GrantsInv'
<1> SUFFICES ASSUME GrantsInv, [Next]_vars PROVE GrantsInv'
  OBVIOUS
<1>1. ASSUME owed' = owed, returns' = returns, peerCredit' = peerCredit, output' = output
      PROVE  GrantsInv'
  BY <1>1 DEF GrantsInv, GrantsTyped, OutputTyped, GrantsAreConserved, GrantInOutput
<1>2. ASSUME NEW c \in ReqCell, PeerGrant(c) PROVE GrantsInv'
  BY <1>1, <1>2 DEF PeerGrant, creditVars, packVars
<1>3. CASE LinkTrained
  BY <1>1, <1>3 DEF LinkTrained, creditVars, packVars
<1>4. CASE UNCHANGED vars
  BY <1>1, <1>4 DEF vars, creditVars, packVars
<1> QED BY <1>2, <1>3, <1>4, EdgeConserves, ReturnConserves DEF Next, Surroundings

\* Every granule of the bridge's response buffers is owed to the peer, on its
\* way to it in a header or a CrdtGrant message, held by it, or about to be
\* returned, for any timeouts and any traffic (flit_packer.cpp:232-236): the peer
\* can neither overrun the buffers nor lose the use of a part of them.
THEOREM GrantsStayConserved == Spec => []GrantsAreConserved
<1>1. GrantsInv => GrantsAreConserved
  BY DEF GrantsInv
<1> QED BY <1>1, GrantsInitially, GrantsStep, PTL DEF Spec

-----------------------------------------------------------------------------
\* The FIFO at the link's port holds no more than it has places, and ready is
\* given only while one is free.
AdapterInv == fdi \in 0 .. FdiDepth /\ txReady \in BOOLEAN /\ ReadyHoldsItsPlace

LEMMA TransferKeepsPlace ==
  ASSUME AdapterInv, NEW waiting \in 0 .. fdi, Transfer(waiting)
  PROVE  fdi' \in 0 .. FdiDepth /\ ReadyHoldsItsPlace'
<1> DEFINE written == IF txReady /\ output # <<>> THEN 1 ELSE 0
<1>1. written \in 0 .. 1 /\ (written = 1 => txReady)
  OBVIOUS
<1>2. fdi' = waiting + written /\ (txReady' => FdiDepth - waiting - written > 0)
  BY Zenon DEF Transfer, PlacesLeft
<1> HIDE DEF written
<1>3. fdi \in 0 .. FdiDepth /\ FdiDepth \in Nat /\ (txReady => fdi < FdiDepth)
  BY RequestPathAssumption DEF AdapterInv, ReadyHoldsItsPlace
<1>4. fdi' \in 0 .. FdiDepth
  BY <1>1, <1>2, <1>3
<1>5. txReady' => fdi' < FdiDepth
  BY <1>1, <1>2, <1>3
<1>6. ReadyHoldsItsPlace'
  BY <1>5 DEF ReadyHoldsItsPlace
<1> QED BY <1>4, <1>6

LEMMA AdapterInvariance == Spec => []AdapterInv
<1>1. Init => AdapterInv
  <2>1. Init => fdi = 0 /\ txReady = FALSE
    BY DEF Init
  <2>2. FdiDepth \in Nat
    BY RequestPathAssumption
  <2>3. fdi = 0 => fdi \in 0 .. FdiDepth
    BY <2>2
  <2> QED BY <2>1, <2>3, Zenon DEF AdapterInv, ReadyHoldsItsPlace
<1>2. AdapterInv /\ [Next]_vars => AdapterInv'
  <2> SUFFICES ASSUME AdapterInv, [Next]_vars PROVE AdapterInv'
    OBVIOUS
  <2>1. ASSUME fdi' = fdi, txReady' = txReady PROVE AdapterInv'
    BY <2>1 DEF AdapterInv, ReadyHoldsItsPlace
  <2>2. CASE Edge
    <3>1. PICK waiting \in 0 .. fdi : Transfer(waiting)
      BY <2>2 DEF Edge
    <3>2. txReady' \in BOOLEAN
      BY <3>1 DEF Transfer
    <3> QED BY <3>1, <3>2, TransferKeepsPlace DEF AdapterInv
  <2>3. ASSUME NEW c \in ReqCell, PeerGrant(c) PROVE AdapterInv'
    BY <2>1, <2>3 DEF PeerGrant, adapterVars
  <2>4. ASSUME NEW c \in RspCell, Return(c) PROVE AdapterInv'
    BY <2>1, <2>4 DEF Return, adapterVars
  <2>5. CASE LinkTrained
    BY <2>1, <2>5 DEF LinkTrained
  <2>6. CASE UNCHANGED vars
    BY <2>1, <2>6 DEF vars, adapterVars
  <2> QED BY <2>2, <2>3, <2>4, <2>5, <2>6 DEF Next, Surroundings
<1> QED BY <1>1, <1>2, PTL DEF Spec

\* The adapter never writes into a full FIFO, although its ready is registered
\* and the frame it lets in comes an edge later, however the link takes its
\* frames (ucie_aou_adapter.h:62-71).
THEOREM AdapterNeverOverruns == Spec => [](ReadyHoldsItsPlace /\ fdi <= FdiDepth)
<1>1. AdapterInv => ReadyHoldsItsPlace /\ fdi <= FdiDepth
  BY DEF AdapterInv
<1> QED BY <1>1, AdapterInvariance, PTL

-----------------------------------------------------------------------------
\* Messages, and the folds of RequestPath

What    == Nat \X Nat                                   \* request, beat
Message == (Rp \X (ReqKind \cup {"CrdtGrant"})) \X What
Granule == GranulesOf(Message)

PackStep(x, p, i)  == PackOne(p)
SizeStep(c, n, m)  == n + Size(c, m)
BeatsStep(x, s, n) == s \o BeatsOf(n)

PackFold  == INSTANCE FoldLemmas WITH Step <- PackStep
SizeFold  == INSTANCE FoldLemmas WITH Step <- SizeStep
BeatsFold == INSTANCE FoldLemmas WITH Step <- BeatsStep

LEMMA PackCycleIsFold ==
  ASSUME NEW p
  PROVE  PackCycle(p) = PackFold!Folded(0, Resume(p), [i \in 1 .. PackMsgs |-> i])
BY DEF PackCycle, PackFold!Folded, PackStep, FoldLeft, MapThenFoldSet, Max,
       PackFold!FoldLeft, PackFold!MapThenFoldSet, PackFold!Max

LEMMA SizeIsFold ==
  ASSUME NEW c, NEW msgs
  PROVE  SizeOfAll(c, msgs) = SizeFold!Folded(c, 0, msgs)
BY DEF SizeOfAll, SizeFold!Folded, SizeStep, FoldLeft, MapThenFoldSet, Max,
       SizeFold!FoldLeft, SizeFold!MapThenFoldSet, SizeFold!Max

LEMMA BeatsIsFold ==
  ASSUME NEW n
  PROVE  BeatsUpTo(n) = BeatsFold!Folded(0, <<>>, [i \in 1 .. n |-> i])
BY DEF BeatsUpTo, BeatsFold!Folded, BeatsStep, FoldLeft, MapThenFoldSet, Max,
       BeatsFold!FoldLeft, BeatsFold!MapThenFoldSet, BeatsFold!Max

LEMMA Constants ==
  /\ RpCount \in Nat \ {0} /\ ReqDepth \in Nat \ {0} /\ WDataDepth \in Nat \ {0}
  /\ PackMsgs \in Nat \ {0} /\ FlitGranules \in Nat \ {0}
  /\ FlushTimeout \in Nat /\ ReturnTimeout \in Nat \ {0} /\ CreditCounterMax \in Nat
  /\ \A c \in ReqCell : /\ PeerCapacity[c] \in 0 .. CreditCounterMax
                        /\ c[1] \in Rp /\ c[2] \in ReqKind /\ c = <<c[1], c[2]>>
                        /\ c \in Rp \X (ReqKind \cup {"CrdtGrant"})
  /\ \A rp \in Rp, k \in ReqKind : <<rp, k>> \in ReqCell
  /\ 0 \in Rp
BY RequestPathAssumption, FramesAssumption DEF ReqCell, Rp

LEMMA WriteIs ==
  ASSUME NEW n \in 1 .. Len(Writes)
  PROVE  Writes[n].rp \in Rp /\ Writes[n].beats \in Nat \ {0} /\ n \in Nat
<1> DEFINE W == [rp : Rp, beats : Nat \ {0}, full : SUBSET Nat]
<1>2. Writes \in Seq(W)
  BY RequestPathAssumption
<1> HIDE DEF W
<1>3. Writes[n] \in W /\ n \in Nat
  BY <1>2
<1>1. Writes[n] \in [rp : Rp, beats : Nat \ {0}, full : SUBSET Nat] /\ n \in Nat
  BY <1>3 DEF W
<1> QED BY <1>1

LEMMA SizeIsNat ==
  ASSUME NEW c \in ReqCell, NEW m
  PROVE  Size(c, m) \in Nat \ {0}
<1>1. /\ "WriteDataFull" \in ReqKind \cup RspKind \cup {"WriteDataFull", "CrdtGrant"}
      /\ c[2] \in ReqKind \cup RspKind \cup {"WriteDataFull", "CrdtGrant"}
  BY Constants
<1>2. Granules["WriteDataFull"] \in Nat \ {0} /\ Granules[c[2]] \in Nat \ {0}
  BY <1>1, RequestPathAssumption
<1> QED BY <1>2 DEF Size

-----------------------------------------------------------------------------
\* Sums of sizes

LEMMA SizeOfNone ==
  ASSUME NEW c
  PROVE  SizeOfAll(c, <<>>) = 0
BY SizeIsFold, SizeFold!FoldedEmpty

LEMMA SizeOfMore ==
  ASSUME NEW c, NEW S, NEW s \in Seq(S), NEW m \in S
  PROVE  SizeOfAll(c, Append(s, m)) = SizeOfAll(c, s) + Size(c, m)
<1>1. SizeFold!Folded(c, 0, Append(s, m)) = SizeStep(c, SizeFold!Folded(c, 0, s), m)
  BY SizeFold!FoldedAppend
<1> QED BY <1>1, SizeIsFold DEF SizeStep

LEMMA SizeOfAllIsNat ==
  ASSUME NEW c \in ReqCell, NEW S, NEW s \in Seq(S)
  PROVE  SizeOfAll(c, s) \in Nat
<1>1. \A n \in Nat : \A m \in S : SizeStep(c, n, m) \in Nat
  BY SizeIsNat DEF SizeStep
<1>2. SizeFold!Folded(c, 0, s) \in Nat
  BY <1>1, SizeFold!FoldedIn, Zenon
<1> QED BY <1>2, SizeIsFold

LEMMA SizeOfJoined ==
  ASSUME NEW c \in ReqCell, NEW S, NEW s \in Seq(S), NEW t \in Seq(S)
  PROVE  SizeOfAll(c, s \o t) = SizeOfAll(c, s) + SizeOfAll(c, t)
<1> DEFINE T == {u \in Seq(S) : SizeOfAll(c, s \o u) = SizeOfAll(c, s) + SizeOfAll(c, u)}
<1>1. <<>> \in T
  <2>1. s \o <<>> = s /\ <<>> \in Seq(S)
    OBVIOUS
  <2>2. SizeOfAll(c, s) \in Nat
    BY SizeOfAllIsNat
  <2> QED BY <2>1, <2>2, SizeOfNone
<1>2. ASSUME NEW u \in Seq(S), NEW e \in S, u \in T PROVE Append(u, e) \in T
  <2>1. s \o Append(u, e) = Append(s \o u, e) /\ s \o u \in Seq(S) /\ Append(u, e) \in Seq(S)
    OBVIOUS
  <2>2. SizeOfAll(c, Append(s \o u, e)) = SizeOfAll(c, s \o u) + Size(c, e)
    BY <2>1, SizeOfMore, Zenon
  <2>3. SizeOfAll(c, Append(u, e)) = SizeOfAll(c, u) + Size(c, e)
    BY SizeOfMore
  <2>4. /\ SizeOfAll(c, s) \in Nat /\ SizeOfAll(c, u) \in Nat /\ Size(c, e) \in Nat
        /\ SizeOfAll(c, s \o u) = SizeOfAll(c, s) + SizeOfAll(c, u)
    BY <1>2, SizeOfAllIsNat, SizeIsNat
  <2>5. SizeOfAll(c, s \o Append(u, e)) = SizeOfAll(c, s) + SizeOfAll(c, Append(u, e))
    BY <2>1, <2>2, <2>3, <2>4
  <2> QED BY <2>1, <2>5, Zenon
<1> HIDE DEF T
<1>3. Seq(S) \subseteq T
  BY <1>1, <1>2, SizeFold!AllSequences
<1> QED BY <1>3 DEF T

-----------------------------------------------------------------------------
\* The beats of the writes

Beat == (1 .. Len(Writes)) \X Nat

LEMMA BeatsOfIs ==
  ASSUME NEW n \in 1 .. Len(Writes)
  PROVE  /\ BeatsOf(n) \in Seq(Beat) /\ Len(BeatsOf(n)) = Writes[n].beats
         /\ \A b \in 1 .. Writes[n].beats : BeatsOf(n)[b] = <<n, b>>
<1>1. Writes[n].beats \in Nat /\ n \in Nat
  BY WriteIs
<1>2. \A b \in 1 .. Writes[n].beats : <<n, b>> \in Beat
  BY <1>1 DEF Beat
<1> QED BY <1>1, <1>2 DEF BeatsOf

LEMMA BeatsOfMore ==
  ASSUME NEW n \in Nat, n < Len(Writes)
  PROVE  BeatsUpTo(n + 1) = BeatsUpTo(n) \o BeatsOf(n + 1)
<1> DEFINE r == [i \in 1 .. n |-> i]
<1>1. r \in Seq(Nat) /\ n + 1 \in Nat /\ [i \in 1 .. n + 1 |-> i] = Append(r, n + 1)
  OBVIOUS
<1> HIDE DEF r
<1>2. BeatsFold!Folded(0, <<>>, Append(r, n + 1))
        = BeatsStep(0, BeatsFold!Folded(0, <<>>, r), n + 1)
  BY <1>1, BeatsFold!FoldedAppend
<1>3. BeatsUpTo(n) = BeatsFold!Folded(0, <<>>, r)
  BY BeatsIsFold DEF r
<1>4. BeatsUpTo(n + 1) = BeatsFold!Folded(0, <<>>, Append(r, n + 1))
  BY <1>1, BeatsIsFold, Zenon
<1> QED BY <1>2, <1>3, <1>4, Zenon DEF BeatsStep

LEMMA NoBeats == BeatsUpTo(0) = <<>>
<1>1. [i \in 1 .. 0 |-> i] = <<>>
  OBVIOUS
<1>2. BeatsUpTo(0) = BeatsFold!Folded(0, <<>>, <<>>)
  BY <1>1, BeatsIsFold, Zenon
<1> QED BY <1>2, BeatsFold!FoldedEmpty, Zenon

LEMMA BeatsTyped ==
  ASSUME NEW n \in 0 .. Len(Writes)
  PROVE  BeatsUpTo(n) \in Seq(Beat) /\ Len(BeatsUpTo(n)) \in Nat
<1> DEFINE N == {i \in Nat : i <= Len(Writes) => BeatsUpTo(i) \in Seq(Beat)}
<1>0. Len(Writes) \in Nat
  BY RequestPathAssumption
<1>1. 0 \in N
  <2>1. <<>> \in Seq(Beat)
    OBVIOUS
  <2> QED BY <2>1, NoBeats, Zenon
<1>2. ASSUME NEW i \in N PROVE i + 1 \in N
  <2>1. i \in Nat /\ (i < Len(Writes) => BeatsUpTo(i) \in Seq(Beat))
    BY <1>0
  <2>2. CASE i < Len(Writes)
    <3>1. i + 1 \in 1 .. Len(Writes)
      BY <1>0, <2>1, <2>2
    <3>2. BeatsOf(i + 1) \in Seq(Beat) /\ BeatsUpTo(i) \in Seq(Beat)
      BY <2>1, <2>2, <3>1, BeatsOfIs
    <3> DEFINE u == BeatsUpTo(i)
               v == BeatsOf(i + 1)
               V == Beat
    <3>3. BeatsUpTo(i + 1) = u \o v
      BY <2>1, <2>2, BeatsOfMore
    <3> HIDE DEF u, v, V
    <3>5. u \in Seq(V) /\ v \in Seq(V)
      BY <3>2 DEF u, v, V
    <3>4. u \o v \in Seq(V)
      BY ONLY <3>5
    <3>6. BeatsUpTo(i + 1) \in Seq(Beat)
      BY <3>3, <3>4, Zenon DEF V
    <3> QED BY <2>1, <3>6
  <2>3. CASE ~(i < Len(Writes))
    BY <1>0, <2>1, <2>3
  <2> QED BY <2>2, <2>3
<1> HIDE DEF N
<1>3. N = Nat
  <2>1. N \in SUBSET Nat
    BY DEF N
  <2> QED BY <1>1, <1>2, <2>1, BeatsFold!AllNumbers, Zenon
<1>4. BeatsUpTo(n) \in Seq(Beat)
  BY <1>0, <1>3 DEF N
<1> QED BY <1>4

\* The beats of the first writes stay where they are when more come behind them.
Prefix(s, t) == Len(s) <= Len(t) /\ \A i \in 1 .. Len(s) : t[i] = s[i]

LEMMA BeatsArePrefix ==
  ASSUME NEW n \in 0 .. Len(Writes), NEW m \in n .. Len(Writes)
  PROVE  Prefix(BeatsUpTo(n), BeatsUpTo(m))
<1> DEFINE N == {d \in Nat : n + d <= Len(Writes) => Prefix(BeatsUpTo(n), BeatsUpTo(n + d))}
<1>0. Len(Writes) \in Nat /\ n \in Nat /\ m \in Nat /\ n <= m /\ m <= Len(Writes)
  BY RequestPathAssumption
<1>1. 0 \in N
  <2>1. n + 0 = n /\ Len(BeatsUpTo(n)) \in Nat
    BY <1>0, BeatsTyped
  <2> QED BY <2>1 DEF Prefix
<1>2. ASSUME NEW d \in N PROVE d + 1 \in N
  <2>1. d \in Nat
    OBVIOUS
  <2>2. CASE n + (d + 1) <= Len(Writes)
    <3> DEFINE e == n + d
    <3>1. e \in 0 .. Len(Writes) /\ e < Len(Writes) /\ e \in Nat /\ n + (d + 1) = e + 1
          /\ e + 1 \in 1 .. Len(Writes)
      BY <1>0, <2>1, <2>2
    <3>2. Prefix(BeatsUpTo(n), BeatsUpTo(e))
      BY <3>1
    <3> HIDE DEF e
    <3> DEFINE s == BeatsUpTo(n)
               t == BeatsUpTo(e)
               v == BeatsOf(e + 1)
               V == Beat
    <3>3. s \in Seq(V) /\ t \in Seq(V) /\ v \in Seq(V) /\ BeatsUpTo(e + 1) = t \o v
      BY <3>1, BeatsTyped, BeatsOfMore, BeatsOfIs
    <3> HIDE DEF s, t, v, V
    <3>4. Prefix(s, t)
      BY <3>2 DEF s, t
    <3>6. s \in Seq(V) /\ t \in Seq(V) /\ v \in Seq(V)
      BY <3>3
    <3>5. Prefix(s, t \o v)
      BY ONLY <3>4, <3>6 DEF Prefix
    <3>7. Prefix(BeatsUpTo(n), BeatsUpTo(n + (d + 1)))
      BY <3>1, <3>3, <3>5, Zenon DEF s
    <3> QED BY <2>1, <3>7
  <2>3. CASE ~(n + (d + 1) <= Len(Writes))
    BY <2>1, <2>3
  <2> QED BY <2>2, <2>3
<1> HIDE DEF N
<1>3. N = Nat
  <2>1. N \in SUBSET Nat
    BY DEF N
  <2> QED BY <1>1, <1>2, <2>1, BeatsFold!AllNumbers
<1>4. m - n \in N /\ n + (m - n) = m
  BY <1>0, <1>3
<1> QED BY <1>0, <1>4 DEF N

\* The beat that comes next, when of the n-th write left beats are to come.
LEMMA NextBeat ==
  ASSUME NEW n \in 1 .. Len(Writes), NEW left \in 1 .. Writes[n].beats, NEW i \in Nat,
         i + left = Len(BeatsUpTo(n))
  PROVE  i + 1 <= Len(Beats) /\ Beats[i + 1] = <<n, Writes[n].beats - left + 1>>
<1>1. /\ Writes[n].beats \in Nat /\ left \in Nat /\ n \in Nat /\ n - 1 \in Nat
      /\ Len(Writes) \in Nat
  BY WriteIs, RequestPathAssumption
<1> DEFINE t == BeatsUpTo(n - 1)
           v == BeatsOf(n)
           b == Writes[n].beats
           V == Beat
<1>2. /\ t \in Seq(V) /\ v \in Seq(V) /\ BeatsUpTo(n) = t \o v
      /\ Len(v) = b /\ \A j \in 1 .. b : v[j] = <<n, j>>
  <2>1. n - 1 \in 0 .. Len(Writes) /\ n - 1 < Len(Writes) /\ (n - 1) + 1 = n
    BY <1>1
  <2>2. BeatsUpTo((n - 1) + 1) = t \o BeatsOf((n - 1) + 1)
    BY <1>1, <2>1, BeatsOfMore, Zenon
  <2>3. BeatsUpTo(n) = t \o v
    BY <2>1, <2>2, Zenon
  <2>4. t \in Seq(V) /\ v \in Seq(V) /\ Len(v) = b /\ \A j \in 1 .. b : v[j] = <<n, j>>
    BY <2>1, BeatsTyped, BeatsOfIs, Zenon
  <2> QED BY <2>3, <2>4, Zenon
<1>3. Prefix(BeatsUpTo(n), Beats)
  BY <1>1, BeatsArePrefix DEF Beats
<1>4. Len(Beats) \in Nat
  BY <1>1, BeatsTyped DEF Beats
<1>5. b \in Nat /\ left \in 1 .. b
  BY <1>1
<1> HIDE DEF t, v, V, b
<1>12. t \in Seq(V) /\ v \in Seq(V) /\ Len(v) = b
  BY <1>2
<1>6. Len(t \o v) = Len(t) + b /\ Len(t) \in Nat
  BY ONLY <1>12
<1>7. i + 1 = Len(t) + (b - left + 1) /\ b - left + 1 \in 1 .. b
  <2>1. i + left = Len(t) + b /\ i \in Nat
    BY <1>2, <1>6
  <2> QED BY ONLY <1>5, <1>6, <2>1
<1>8. (t \o v)[Len(t) + (b - left + 1)] = v[b - left + 1]
  <2>1. b - left + 1 \in 1 .. b
    BY <1>7
  <2> DEFINE j == b - left + 1
  <2> HIDE DEF j
  <2>2. j \in 1 .. Len(v)
    BY <1>12, <2>1 DEF j
  <2>3. (t \o v)[Len(t) + j] = v[j]
    BY ONLY <1>12, <2>2
  <2> QED BY <2>3 DEF j
<1>9. i + 1 \in 1 .. Len(t \o v)
  BY <1>5, <1>6, <1>7
<1>10. Beats[i + 1] = (t \o v)[i + 1] /\ i + 1 <= Len(Beats)
  <2> DEFINE u == t \o v
             k == i + 1
  <2>1. Prefix(u, Beats)
    BY <1>2, <1>3
  <2>2. k \in 1 .. Len(u) /\ Len(u) \in Nat
    BY <1>5, <1>6, <1>9
  <2> HIDE DEF u, k
  <2>3. Beats[k] = u[k] /\ Len(u) <= Len(Beats)
    BY <2>1, <2>2, Zenon DEF Prefix
  <2>4. k <= Len(Beats)
    BY ONLY <1>4, <2>2, <2>3
  <2> QED BY <2>3, <2>4 DEF u, k
<1>11. Beats[i + 1] = <<n, b - left + 1>>
  BY <1>2, <1>7, <1>8, <1>10, Zenon
<1> QED BY <1>10, <1>11 DEF b

-----------------------------------------------------------------------------
\* The channels of AXI.  The routes that wait are those of the last writes that
\* AW has accepted; W is at the one before them, or through with it.

Route      == [rp : Rp, left : Nat]
RouteOf(n) == [rp |-> Writes[n].rp, left |-> Writes[n].beats]

InLine(q, n) == \A i \in 1 .. Len(q) : q[i] = RouteOf(n + i)

AtWrite(r, n, m) ==
  /\ r.left > 0 => n >= 1 /\ r.rp = Writes[n].rp /\ r.left <= Writes[n].beats
  /\ m + r.left = Len(BeatsUpTo(n))

Current == awTaken - Len(routes)

RoutesFollow ==
  Len(routes) <= awTaken /\ InLine(routes, Current) /\ AtWrite(route, Current, wTaken)

ChannelsTyped ==
  /\ awReady \in BOOLEAN /\ wReady \in BOOLEAN /\ arReady \in BOOLEAN
  /\ awTaken \in 0 .. Len(Writes) /\ arTaken \in 0 .. Len(Reads) /\ wTaken \in 0 .. Len(Beats)
  /\ routes \in Seq(Route) /\ route \in Route /\ Len(routes) <= ReqDepth * RpCount

\* Ready is high only while there is a place for what it lets in.
ReadyHasRoom ==
  /\ awReady => /\ Len(routes) < ReqDepth * RpCount
                /\ \A rp \in Rp : Len(fifo[<<rp, "WriteReq">>]) < ReqDepth
  /\ arReady => \A rp \in Rp : Len(fifo[<<rp, "ReadReq">>]) < ReqDepth
  /\ wReady => route.left > 0 /\ Len(fifo[<<route.rp, "WriteData">>]) < WDataDepth

FifosTyped ==
  fifo \in [ReqCell -> Seq(What)] /\ \A c \in ReqCell : Len(fifo[c]) <= Depth(c)

ChannelInv == ChannelsTyped /\ RoutesFollow /\ ReadyHasRoom /\ FifosTyped

\* What the three threads do at an edge.
Threads(aw, w, ar) ==
  /\ aw \in BOOLEAN /\ w \in BOOLEAN /\ ar \in BOOLEAN
  /\ AwThread(aw) /\ WThread(w) /\ ArThread(ar) /\ routes' = Routes(aw, w)

LEMMA OneIs == \A yes \in BOOLEAN : One(yes) \in 0 .. 1 /\ (One(yes) = 1 <=> yes)
BY DEF One

LEMMA RoutesIs ==
  ASSUME ChannelsTyped, RoutesFollow
  PROVE  /\ Current \in 0 .. Len(Writes) /\ Current + Len(routes) = awTaken
         /\ Len(routes) \in Nat /\ awTaken \in Nat /\ Len(Writes) \in Nat
         /\ awTaken <= Len(Writes)
<1>1. Len(routes) \in Nat /\ awTaken \in 0 .. Len(Writes) /\ Len(routes) <= awTaken
  BY DEF ChannelsTyped, RoutesFollow
<1>2. Len(Writes) \in Nat
  BY RequestPathAssumption
<1> QED BY <1>1, <1>2 DEF Current

\* A transfer of W meets a write whose beats are not through.
LEMMA WriteUnderWay ==
  ASSUME ChannelsTyped, RoutesFollow, ReadyHasRoom, wReady
  PROVE  /\ Current \in 1 .. Len(Writes) /\ route.rp = Writes[Current].rp
         /\ route.left \in 1 .. Writes[Current].beats
         /\ wTaken + 1 <= Len(Beats)
         /\ Beats[wTaken + 1] \in What /\ Beats[wTaken + 1][1] = Current
<1>1. route.left > 0 /\ route.left \in Nat /\ wTaken \in Nat
  BY DEF ReadyHasRoom, ChannelsTyped, Route
<1>2. /\ Current >= 1 /\ route.rp = Writes[Current].rp /\ route.left <= Writes[Current].beats
      /\ wTaken + route.left = Len(BeatsUpTo(Current))
  BY <1>1 DEF RoutesFollow, AtWrite
<1>3. Current \in 1 .. Len(Writes) /\ Current \in Nat
  BY <1>2, RoutesIs
<1>4. route.left \in 1 .. Writes[Current].beats /\ Writes[Current].beats \in Nat
  BY <1>1, <1>2, <1>3, WriteIs
<1>5. /\ wTaken + 1 <= Len(Beats)
      /\ Beats[wTaken + 1] = <<Current, Writes[Current].beats - route.left + 1>>
  BY <1>1, <1>2, <1>3, <1>4, NextBeat, Zenon
<1>6. Writes[Current].beats - route.left + 1 \in Nat
  BY <1>4
<1> QED BY <1>2, <1>3, <1>4, <1>5, <1>6 DEF What

\* W: it goes on with its write, or to the next one.
LEMMA WriteFollows ==
  ASSUME ChannelsTyped, RoutesFollow, ReadyHasRoom, NEW w \in BOOLEAN, WThread(w),
         NEW rest, rest = IF TakesRoute(w) THEN Tail(routes) ELSE routes
  PROVE  /\ rest \in Seq(Route) /\ Len(rest) <= Len(routes) /\ route' \in Route
         /\ InLine(rest, awTaken - Len(rest)) /\ AtWrite(route', awTaken - Len(rest), wTaken')
         /\ wTaken' \in 0 .. Len(Beats)
<1>1. /\ w => wReady
      /\ wTaken' = wTaken + One(w) /\ route' = RouteAfter(w)
  BY DEF WThread
<1>2. /\ routes \in Seq(Route) /\ route \in Route /\ route.left \in Nat
      /\ wTaken \in Nat /\ wTaken <= Len(Beats) /\ Len(Beats) \in Nat
  <2>1. Len(Beats) \in Nat
    BY BeatsTyped, RoutesIs DEF Beats
  <2> QED BY <2>1 DEF ChannelsTyped, Route
<1>3. One(w) \in 0 .. 1 /\ (One(w) = 1 <=> w)
  BY OneIs
<1>4. w => route.left > 0 /\ wTaken + 1 <= Len(Beats)
  BY <1>1, WriteUnderWay DEF ReadyHasRoom
<1>5. wTaken' \in 0 .. Len(Beats)
  BY <1>1, <1>2, <1>3, <1>4
<1>6. InLine(routes, Current) /\ AtWrite(route, Current, wTaken)
  BY DEF RoutesFollow
<1>7. CASE TakesRoute(w)
  <2>1. route.left - One(w) = 0 /\ routes # <<>> /\ rest = Tail(routes)
    BY <1>7 DEF TakesRoute
  <2>2. /\ Tail(routes) \in Seq(Route) /\ Len(Tail(routes)) = Len(routes) - 1
        /\ \A i \in 1 .. Len(routes) - 1 : Tail(routes)[i] = routes[i + 1]
        /\ Head(routes) = routes[1] /\ Head(routes) \in Route /\ Len(routes) >= 1
    BY ONLY <1>2, <2>1
  <2> DEFINE n == Current + 1
  <2>3. n = awTaken - Len(rest) /\ n \in 1 .. Len(Writes) /\ n - 1 = Current /\ n \in Nat
    BY <2>1, <2>2, RoutesIs DEF Current
  <2>4. route' = RouteOf(n)
    <3>1. 1 \in 1 .. Len(routes)
      BY <2>2
    <3>2. routes[1] = RouteOf(n)
      BY <1>6, <3>1 DEF InLine
    <3> QED BY <1>1, <1>7, <2>2, <3>2 DEF RouteAfter
  <2>5. InLine(rest, n)
    <3>1. ASSUME NEW i \in 1 .. Len(rest) PROVE rest[i] = RouteOf(n + i)
      <4>1. i \in 1 .. Len(routes) - 1 /\ i + 1 \in 1 .. Len(routes)
        BY <2>1, <2>2
      <4>2. rest[i] = RouteOf(Current + (i + 1))
        BY <1>6, <2>1, <2>2, <4>1 DEF InLine
      <4>3. Current + (i + 1) = n + i
        BY <2>3, <4>1
      <4> QED BY <4>2, <4>3
    <3> QED BY <3>1 DEF InLine
  <2> HIDE DEF n
  <2>6. Writes[n].beats \in Nat /\ Writes[n].beats > 0
    BY <2>3, WriteIs
  <2>7. Len(BeatsUpTo(n)) = Len(BeatsUpTo(Current)) + Writes[n].beats
    <3> DEFINE s == BeatsUpTo(Current)
               t == BeatsOf(n)
               V == Beat
    <3>1. /\ Current \in 0 .. Len(Writes) /\ Current \in Nat /\ Current < Len(Writes)
          /\ Current + 1 = n
      BY <2>3, RoutesIs
    <3>2. BeatsUpTo(n) = s \o t
      BY <3>1, BeatsOfMore, Zenon
    <3>3. s \in Seq(V) /\ t \in Seq(V) /\ Len(t) = Writes[n].beats
      BY <2>3, <3>1, BeatsTyped, BeatsOfIs, Zenon
    <3> HIDE DEF s, t, V
    <3>4. Len(s \o t) = Len(s) + Len(t)
      BY ONLY <3>3
    <3> QED BY <3>2, <3>3, <3>4 DEF s
  <2>8. wTaken + route.left = Len(BeatsUpTo(Current))
    BY <1>6 DEF AtWrite
  <2>9. wTaken' + Writes[n].beats = Len(BeatsUpTo(n))
    BY <1>1, <1>2, <1>3, <2>1, <2>6, <2>7, <2>8
  <2>10. AtWrite(route', n, wTaken')
    BY <2>3, <2>4, <2>6, <2>9 DEF AtWrite, RouteOf
  <2>11. route' \in Route
    BY <2>3, <2>4, WriteIs DEF RouteOf, Route
  <2> QED BY <1>5, <2>1, <2>2, <2>3, <2>5, <2>10, <2>11
<1>8. CASE ~TakesRoute(w)
  <2>1. rest = routes /\ route' = [route EXCEPT !.left = @ - One(w)]
    BY <1>1, <1>8 DEF RouteAfter
  <2>2. awTaken - Len(rest) = Current
    BY <2>1 DEF Current
  <2>3. route'.left = route.left - One(w) /\ route'.rp = route.rp /\ route'.left \in Nat
        /\ route' \in Route
    <3>1. route.left - One(w) \in Nat
      BY <1>2, <1>3, <1>4
    <3> QED BY <1>2, <2>1, <3>1 DEF Route
  <2>4. /\ wTaken + route.left = Len(BeatsUpTo(Current))
        /\ route.left > 0 => /\ Current >= 1 /\ route.rp = Writes[Current].rp
                             /\ route.left <= Writes[Current].beats
    BY <1>6 DEF AtWrite
  <2>5. Current \in 0 .. Len(Writes) /\ (Current >= 1 => Writes[Current].beats \in Nat)
    BY RoutesIs, WriteIs
  <2>6. wTaken' + route'.left = Len(BeatsUpTo(Current))
    <3> DEFINE l == route.left
               o == One(w)
    <3>1. /\ l \in Nat /\ o \in Nat /\ wTaken \in Nat
          /\ wTaken' = wTaken + o /\ route'.left = l - o
          /\ wTaken + l = Len(BeatsUpTo(Current))
      BY <1>1, <1>2, <1>3, <2>3, <2>4
    <3> HIDE DEF l, o
    <3>2. (wTaken + o) + (l - o) = wTaken + l
      BY ONLY <3>1
    <3> QED BY <3>1, <3>2, Zenon
  <2>7. route'.left > 0 => /\ Current >= 1 /\ route'.rp = Writes[Current].rp
                           /\ route'.left <= Writes[Current].beats
    BY <1>2, <1>3, <2>3, <2>4, <2>5
  <2>8. AtWrite(route', Current, wTaken')
    BY <2>6, <2>7 DEF AtWrite
  <2>9. rest \in Seq(Route) /\ Len(rest) <= Len(routes)
    <3>1. routes \in Seq(Route) /\ Len(routes) \in Nat
      BY <1>2
    <3>2. rest = routes
      BY <2>1
    <3> QED BY ONLY <3>1, <3>2
  <2>10. InLine(rest, awTaken - Len(rest)) /\ AtWrite(route', awTaken - Len(rest), wTaken')
    BY <1>6, <2>1, <2>2, <2>8, Zenon
  <2> QED BY <1>5, <2>3, <2>9, <2>10
<1> QED BY <1>7, <1>8

LEMMA ThreadsFollow ==
  ASSUME ChannelInv, NEW aw, NEW w, NEW ar, Threads(aw, w, ar)
  PROVE  ChannelsTyped' /\ RoutesFollow'
<1> DEFINE rest == IF TakesRoute(w) THEN Tail(routes) ELSE routes
           n    == awTaken - Len(rest)
           a    == awTaken + 1
           max  == ReqDepth * RpCount
<1>1. /\ aw \in BOOLEAN /\ w \in BOOLEAN /\ ar \in BOOLEAN
      /\ AwThread(aw) /\ WThread(w) /\ ArThread(ar)
      /\ routes' = IF aw THEN Append(rest, RouteOf(a)) ELSE rest
  BY DEF Threads, Routes, RouteOf
<1>2. /\ rest \in Seq(Route) /\ Len(rest) <= Len(routes) /\ route' \in Route
      /\ InLine(rest, n) /\ AtWrite(route', n, wTaken') /\ wTaken' \in 0 .. Len(Beats)
  BY <1>1, WriteFollows, Zenon DEF ChannelInv
<1>3. /\ aw => awReady /\ awTaken < Len(Writes)
      /\ awTaken' = awTaken + One(aw) /\ awReady' \in BOOLEAN
  BY <1>1 DEF AwThread
<1>4. /\ ar => arTaken < Len(Reads)
      /\ arTaken' = arTaken + One(ar) /\ arReady' \in BOOLEAN
  BY <1>1 DEF ArThread
<1>5. wReady' \in BOOLEAN
  BY <1>1 DEF WThread
<1>6. /\ awTaken \in Nat /\ awTaken <= Len(Writes) /\ Len(Writes) \in Nat
      /\ arTaken \in Nat /\ arTaken <= Len(Reads) /\ Len(Reads) \in Nat
      /\ Len(routes) \in Nat /\ Len(routes) <= awTaken
      /\ Len(routes) <= max /\ max \in Nat
      /\ awReady => Len(routes) < max
  <2>1. max \in Nat
    BY Constants
  <2>2. Len(Reads) \in Nat
    BY RequestPathAssumption
  <2> QED BY <2>1, <2>2, RoutesIs DEF ChannelInv, ChannelsTyped, RoutesFollow, ReadyHasRoom
<1>7. awTaken' \in 0 .. Len(Writes) /\ arTaken' \in 0 .. Len(Reads)
  BY <1>1, <1>3, <1>4, <1>6, OneIs
<1> HIDE DEF rest, max
<1>8. CASE aw
  <2>1. a \in 1 .. Len(Writes) /\ awTaken' = a
    <3>1. One(aw) = 1
      BY <1>1, <1>8, OneIs, Zenon
    <3>2. awTaken' = awTaken + 1 /\ awTaken < Len(Writes)
      BY <1>3, <1>8, <3>1, Zenon
    <3> QED BY <1>6, <3>2
  <2>2. RouteOf(a) \in Route
    BY <2>1, WriteIs DEF RouteOf, Route
  <2> DEFINE r == RouteOf(a)
  <2>3. r \in Route
    BY <2>2
  <2> HIDE DEF r
  <2>4. /\ Append(rest, r) \in Seq(Route) /\ Len(Append(rest, r)) = Len(rest) + 1
        /\ Len(rest) \in Nat
        /\ \A i \in 1 .. Len(rest) : Append(rest, r)[i] = rest[i]
        /\ Append(rest, r)[Len(rest) + 1] = r
    BY ONLY <1>2, <2>3
  <2>5. routes' = Append(rest, r)
    BY <1>1, <1>8 DEF r
  <2>6. awTaken' - Len(routes') = n /\ n + (Len(rest) + 1) = a
    BY <1>6, <2>1, <2>4, <2>5
  <2>7. InLine(routes', n)
    <3>1. ASSUME NEW i \in 1 .. Len(routes') PROVE routes'[i] = RouteOf(n + i)
      <4>1. CASE i = Len(rest) + 1
        BY <2>4, <2>5, <2>6, <4>1 DEF r
      <4>2. CASE i # Len(rest) + 1
        <5>1. i \in 1 .. Len(rest)
          BY <2>4, <2>5, <4>2
        <5> QED BY <1>2, <2>4, <2>5, <5>1 DEF InLine
      <4> QED BY <4>1, <4>2
    <3> QED BY <3>1 DEF InLine
  <2>8. /\ Len(routes') <= awTaken' /\ Len(routes') <= max
        /\ routes' \in Seq(Route)
    <3>1. Len(routes') = Len(rest) + 1 /\ routes' \in Seq(Route)
      BY <2>4, <2>5
    <3>2. Len(rest) < max /\ Len(rest) <= awTaken
      BY <1>2, <1>3, <1>6, <1>8, <2>4
    <3> QED BY <1>6, <2>1, <2>4, <3>1, <3>2
  <2> HIDE DEF n
  <2>9. RoutesFollow'
    BY <1>2, <2>6, <2>7, <2>8 DEF RoutesFollow, Current
  <2> QED BY <1>2, <1>3, <1>4, <1>5, <1>7, <2>8, <2>9 DEF ChannelsTyped, max
<1>9. CASE ~aw
  <2>1. routes' = rest /\ awTaken' = awTaken
    BY <1>1, <1>3, <1>6, <1>9, OneIs
  <2>2. Len(rest) \in Nat
    BY <1>2
  <2>3. /\ Len(routes') <= awTaken' /\ Len(routes') <= max
        /\ routes' \in Seq(Route)
    BY <1>2, <1>6, <2>1, <2>2
  <2>4. RoutesFollow'
    BY <1>2, <2>1, <2>3 DEF RoutesFollow, Current
  <2> QED BY <1>2, <1>3, <1>4, <1>5, <1>7, <2>3, <2>4 DEF ChannelsTyped, max
<1> QED BY <1>1, <1>8, <1>9

\* What is accepted on a channel is a list of transfers of this length.
Transfer1(k, i) ==
  CASE k = "ReadReq"   -> << <<Reads[i], k>>, <<i, 0>> >>
    [] k = "WriteReq"  -> << <<Writes[i].rp, k>>, <<i, 0>> >>
    [] k = "WriteData" -> << <<Writes[Beats[i][1]].rp, k>>, Beats[i] >>

Firsts(k, n) == [i \in 1 .. n |-> Transfer1(k, i)]

LEMMA TransfersAre ==
  /\ Transfers("ReadReq")   = Firsts("ReadReq", arTaken)
  /\ Transfers("WriteReq")  = Firsts("WriteReq", awTaken)
  /\ Transfers("WriteData") = Firsts("WriteData", wTaken)
BY DEF Transfers, Firsts, Transfer1

\* How many of them there are in all.
AllOf(k) == CASE k = "ReadReq" -> Len(Reads) [] k = "WriteReq" -> Len(Writes)
              [] k = "WriteData" -> Len(Beats)

LEMMA TransferTyped ==
  ASSUME NEW k \in ReqKind, NEW i \in 1 .. AllOf(k)
  PROVE  Transfer1(k, i) \in ReqCell \X What /\ i \in Nat
<1>1. CASE k = "ReadReq"
  <2>1. i \in 1 .. Len(Reads)
    BY <1>1 DEF AllOf
  <2>2. Reads \in Seq(Rp)
    BY RequestPathAssumption
  <2>3. Reads[i] \in Rp /\ i \in Nat
    BY <2>1, <2>2
  <2>4. Transfer1(k, i) = << <<Reads[i], k>>, <<i, 0>> >>
    BY <1>1 DEF Transfer1
  <2> QED BY <2>3, <2>4, Constants DEF What
<1>2. CASE k = "WriteReq"
  <2>1. i \in 1 .. Len(Writes)
    BY <1>2 DEF AllOf
  <2>2. Writes[i].rp \in Rp /\ i \in Nat
    BY <2>1, WriteIs
  <2>3. Transfer1(k, i) = << <<Writes[i].rp, k>>, <<i, 0>> >>
    BY <1>2 DEF Transfer1
  <2> QED BY <2>2, <2>3, Constants DEF What
<1>3. CASE k = "WriteData"
  <2>1. i \in 1 .. Len(Beats)
    BY <1>3 DEF AllOf
  <2>2. Beats \in Seq(Beat)
    <3>1. Len(Writes) \in 0 .. Len(Writes)
      BY RequestPathAssumption
    <3> QED BY <3>1, BeatsTyped DEF Beats
  <2>3. Beats[i] \in Beat /\ i \in Nat
    BY <2>1, <2>2
  <2>4. Writes[Beats[i][1]].rp \in Rp /\ Beats[i] \in What
    BY <2>3, WriteIs DEF Beat, What
  <2>5. Transfer1(k, i) = << <<Writes[Beats[i][1]].rp, k>>, Beats[i] >>
    BY <1>3 DEF Transfer1
  <2> QED BY <2>3, <2>4, <2>5, Constants
<1> QED BY <1>1, <1>2, <1>3 DEF ReqKind

\* One transfer more, in the list of its cell.
Grows(k, n, c) ==
  OfCell(Firsts(k, n + 1), c)
    = IF Transfer1(k, n + 1)[1] = c THEN Append(OfCell(Firsts(k, n), c), Transfer1(k, n + 1)[2])
                                    ELSE OfCell(Firsts(k, n), c)

LEMMA OneTransferMore ==
  ASSUME NEW k \in ReqKind, NEW n \in Nat, n < AllOf(k), AllOf(k) \in Nat, NEW c
  PROVE  Grows(k, n, c)
<1> DEFINE S == ReqCell \X What
           m == Transfer1(k, n + 1)
           s == Firsts(k, n)
<1>1. \A i \in 1 .. n + 1 : Transfer1(k, i) \in S
  BY TransferTyped
<1>2. m \in S /\ s \in Seq(S)
  <2>1. n + 1 \in 1 .. n + 1 /\ \A i \in 1 .. n : i \in 1 .. n + 1
    OBVIOUS
  <2> HIDE DEF S
  <2> QED BY <1>1, <2>1 DEF Firsts
<1> HIDE DEF S
<1>3. Firsts(k, n + 1) = Append(s, m)
  BY <1>2 DEF Firsts
<1> HIDE DEF m, s
<1>4. OfCell(Append(s, m), c) = IF m[1] = c THEN Append(OfCell(s, c), m[2]) ELSE OfCell(s, c)
  BY <1>2, OfCellAppend
<1> QED BY <1>3, <1>4, Zenon DEF Grows, m, s

LEMMA FirstsTyped ==
  ASSUME NEW k \in ReqKind, NEW n \in Nat, n <= AllOf(k), AllOf(k) \in Nat, NEW c
  PROVE  OfCell(Firsts(k, n), c) \in Seq(What)
<1> DEFINE S == ReqCell \X What
<1>1. \A i \in 1 .. n : Transfer1(k, i) \in S
  BY TransferTyped
<1> HIDE DEF S
<1>2. Firsts(k, n) \in Seq(S)
  BY <1>1 DEF Firsts
<1> QED BY <1>2, OfCellIsSeq, Zenon DEF S

\* What a channel has accepted so far.
Count(k) == CASE k = "ReadReq" -> arTaken [] k = "WriteReq" -> awTaken
              [] k = "WriteData" -> wTaken

LEMMA AcceptedIs ==
  ASSUME ChannelsTyped, NEW c \in ReqCell
  PROVE  /\ Accepted(c) = OfCell(Firsts(c[2], Count(c[2])), c) /\ Accepted(c) \in Seq(What)
         /\ Count(c[2]) \in Nat /\ AllOf(c[2]) \in Nat /\ Count(c[2]) <= AllOf(c[2])
<1>1. c[2] \in ReqKind
  BY Constants
<1>2. /\ awTaken \in 0 .. Len(Writes) /\ arTaken \in 0 .. Len(Reads) /\ wTaken \in 0 .. Len(Beats)
      /\ Len(Writes) \in Nat /\ Len(Reads) \in Nat /\ Len(Beats) \in Nat
  <2>1. Len(Writes) \in Nat /\ Len(Reads) \in Nat /\ Len(Writes) \in 0 .. Len(Writes)
    BY RequestPathAssumption
  <2> QED BY <2>1, BeatsTyped DEF ChannelsTyped, Beats
<1>3. Count(c[2]) \in Nat /\ AllOf(c[2]) \in Nat /\ Count(c[2]) <= AllOf(c[2])
  BY <1>1, <1>2 DEF Count, AllOf, ReqKind
<1>4. Transfers(c[2]) = Firsts(c[2], Count(c[2]))
  BY <1>1, TransfersAre DEF Count, ReqKind
<1> QED BY <1>1, <1>3, <1>4, FirstsTyped DEF Accepted

\* What the threads write into the FIFO of a cell is what they accept for it.
LEMMA AcceptedGrows ==
  ASSUME ChannelInv, NEW aw, NEW w, NEW ar, Threads(aw, w, ar), NEW c \in ReqCell
  PROVE  /\ Accepted(c)' = Accepted(c) \o Written(aw, w, ar, c)
         /\ Written(aw, w, ar, c) \in Seq(What) /\ Len(Written(aw, w, ar, c)) <= 1
         /\ Accepted(c) \in Seq(What)
         /\ Written(aw, w, ar, c) # <<>> => Len(fifo[c]) < Depth(c)
<1> DEFINE k == c[2]
           n == Count(c[2])
           m == Transfer1(k, n + 1)
           a == Accepted(c)
           t == IF k = "ReadReq" THEN ar ELSE IF k = "WriteReq" THEN aw ELSE w
<1>1. /\ aw \in BOOLEAN /\ w \in BOOLEAN /\ ar \in BOOLEAN
      /\ AwThread(aw) /\ WThread(w) /\ ArThread(ar)
  BY DEF Threads
<1>2. k \in ReqKind /\ c[1] \in Rp /\ c = <<c[1], k>>
  BY Constants
<1>3. /\ a = OfCell(Firsts(k, n), c) /\ a \in Seq(What)
      /\ n \in Nat /\ AllOf(k) \in Nat /\ n <= AllOf(k)
  BY AcceptedIs DEF ChannelInv
<1>4. Accepted(c)' = OfCell(Firsts(k, Count(k)'), c)
  <2>1. ChannelsTyped' => Accepted(c)' = OfCell(Firsts(k, Count(k)'), c)
    <3>1. Transfers(k)' = Firsts(k, Count(k)')
      BY <1>2, Zenon DEF Transfers, Firsts, Transfer1, Count, ReqKind
    <3> QED BY <3>1 DEF Accepted
  <2> QED BY <2>1, ThreadsFollow
<1>5. Count(k)' = n + One(t)
  <2>1. awTaken' = awTaken + One(aw) /\ arTaken' = arTaken + One(ar) /\ wTaken' = wTaken + One(w)
    BY <1>1 DEF AwThread, ArThread, WThread
  <2> QED BY <1>2, <2>1 DEF Count, ReqKind
<1>6. t \in BOOLEAN
  BY <1>1
<1>7. CASE ~t
  <2>1. One(t) = 0
    BY <1>6, <1>7, OneIs
  <2>2. Accepted(c)' = a
    BY <1>3, <1>4, <1>5, <2>1
  <2>3. Written(aw, w, ar, c) = <<>>
    BY <1>2, <1>7 DEF Written, ReqKind
  <2>4. a \o <<>> = a /\ Len(<<>>) = 0 /\ <<>> \in Seq(What)
    BY ONLY <1>3
  <2> QED BY <1>3, <2>2, <2>3, <2>4
<1>8. CASE t
  <2>1. One(t) = 1
    BY <1>6, <1>8, OneIs
  <2>2. n < AllOf(k)
    <3>1. CASE k = "ReadReq"
      BY <1>1, <1>8, <3>1 DEF ArThread, Count, AllOf
    <3>2. CASE k = "WriteReq"
      BY <1>1, <1>8, <3>2 DEF AwThread, Count, AllOf
    <3>3. CASE k = "WriteData"
      <4>1. wReady
        BY <1>1, <1>8, <3>3 DEF WThread
      <4>2. wTaken + 1 <= Len(Beats)
        BY <4>1, WriteUnderWay DEF ChannelInv
      <4>3. n = wTaken /\ AllOf(k) = Len(Beats)
        BY <3>3 DEF Count, AllOf
      <4> QED BY <1>3, <4>2, <4>3
    <3> QED BY <1>2, <3>1, <3>2, <3>3 DEF ReqKind
  <2>3. Grows(k, n, c)
    BY <1>2, <1>3, <2>2, OneTransferMore
  <2>4. Accepted(c)' = IF m[1] = c THEN Append(a, m[2]) ELSE a
    BY <1>3, <1>4, <1>5, <2>1, <2>3 DEF Grows
  <2>5. Written(aw, w, ar, c) = IF m[1] = c THEN <<m[2]>> ELSE <<>>
    <3>1. CASE k = "ReadReq"
      <4>1. m = << <<Reads[arTaken + 1], k>>, <<arTaken + 1, 0>> >>
        BY <3>1 DEF Transfer1, Count
      <4>2. Written(aw, w, ar, c) = IF Reads[arTaken + 1] = c[1] THEN << <<arTaken + 1, 0>> >> ELSE <<>>
        BY <1>8, <3>1 DEF Written
      <4> QED BY <1>2, <4>1, <4>2
    <3>2. CASE k = "WriteReq"
      <4>1. m = << <<Writes[awTaken + 1].rp, k>>, <<awTaken + 1, 0>> >>
        BY <3>2 DEF Transfer1, Count
      <4>2. Written(aw, w, ar, c) = IF Writes[awTaken + 1].rp = c[1] THEN << <<awTaken + 1, 0>> >> ELSE <<>>
        BY <1>8, <3>2 DEF Written
      <4> QED BY <1>2, <4>1, <4>2
    <3>3. CASE k = "WriteData"
      <4>1. m = << <<Writes[Beats[wTaken + 1][1]].rp, k>>, Beats[wTaken + 1] >>
        BY <3>3 DEF Transfer1, Count
      <4>2. Written(aw, w, ar, c) = IF route.rp = c[1] THEN << Beats[wTaken + 1] >> ELSE <<>>
        BY <1>8, <3>3 DEF Written
      <4>3. wReady
        BY <1>1, <1>8, <3>3 DEF WThread
      <4>4. Writes[Beats[wTaken + 1][1]].rp = route.rp
        BY <4>3, WriteUnderWay DEF ChannelInv
      <4> QED BY <1>2, <4>1, <4>2, <4>4
    <3> QED BY <1>2, <3>1, <3>2, <3>3 DEF ReqKind
  <2>6. m[2] \in What
    <3>1. n + 1 \in 1 .. AllOf(k)
      BY <1>3, <2>2
    <3> QED BY <1>2, <3>1, TransferTyped
  <2>7. Written(aw, w, ar, c) # <<>> => Len(fifo[c]) < Depth(c)
    <3>1. ReadyHasRoom
      BY DEF ChannelInv
    <3>2. CASE k = "ReadReq"
      <4>1. arReady
        BY <1>1, <1>8, <3>2 DEF ArThread
      <4> QED BY <1>2, <3>1, <3>2, <4>1 DEF ReadyHasRoom, Depth
    <3>3. CASE k = "WriteReq"
      <4>1. awReady
        BY <1>1, <1>8, <3>3 DEF AwThread
      <4> QED BY <1>2, <3>1, <3>3, <4>1 DEF ReadyHasRoom, Depth
    <3>4. CASE k = "WriteData"
      <4>1. wReady
        BY <1>1, <1>8, <3>4 DEF WThread
      <4>2. Written(aw, w, ar, c) # <<>> => route.rp = c[1]
        BY <3>4 DEF Written
      <4> QED BY <1>2, <3>1, <3>4, <4>1, <4>2 DEF ReadyHasRoom, Depth
    <3> QED BY <1>2, <3>2, <3>3, <3>4 DEF ReqKind
  <2> DEFINE v == m[2]
  <2>8. v \in What /\ a \in Seq(What)
    BY <1>3, <2>6
  <2>9. Append(a, v) = a \o <<v>> /\ a \o <<>> = a
    <3> HIDE DEF a, v
    <3> QED BY ONLY <2>8
  <2>10. Len(<<v>>) = 1 /\ <<v>> \in Seq(What) /\ Len(<<>>) = 0 /\ <<>> \in Seq(What)
    BY ONLY <2>8
  <2> HIDE DEF a, v
  <2>11. CASE m[1] = c
    <3>1. Written(aw, w, ar, c) = <<v>> /\ Accepted(c)' = Append(a, v)
      BY <2>4, <2>5, <2>11, Zenon DEF v
    <3>2. Accepted(c)' = a \o Written(aw, w, ar, c)
      BY <2>9, <3>1, Zenon
    <3>3. Written(aw, w, ar, c) \in Seq(What) /\ Len(Written(aw, w, ar, c)) <= 1
      BY <2>10, <3>1
    <3> QED BY <2>7, <2>8, <3>2, <3>3, Zenon DEF a
  <2>12. CASE m[1] # c
    <3>1. Written(aw, w, ar, c) = <<>> /\ Accepted(c)' = a
      BY <2>4, <2>5, <2>12, Zenon
    <3>2. Accepted(c)' = a \o Written(aw, w, ar, c)
      BY <2>9, <3>1, Zenon
    <3>3. Written(aw, w, ar, c) \in Seq(What) /\ Len(Written(aw, w, ar, c)) <= 1
      BY <2>10, <3>1
    <3> QED BY <2>7, <2>8, <3>2, <3>3, Zenon DEF a
  <2> QED BY <2>11, <2>12, Zenon
<1> QED BY <1>6, <1>7, <1>8

\* The FIFOs after an edge at which the packer has left f of them.
LEMMA RoomIsKept ==
  ASSUME ChannelInv, NEW aw, NEW w, NEW ar, Threads(aw, w, ar),
         NEW f \in [ReqCell -> Seq(What)], \A c \in ReqCell : Len(f[c]) <= Len(fifo[c]),
         fifo' = [c \in ReqCell |-> f[c] \o Written(aw, w, ar, c)]
  PROVE  ReadyHasRoom' /\ FifosTyped'
<1>0. /\ aw \in BOOLEAN /\ w \in BOOLEAN /\ ar \in BOOLEAN
      /\ AwThread(aw) /\ WThread(w) /\ ArThread(ar) /\ routes' = Routes(aw, w)
  BY DEF Threads
<1>1. ASSUME NEW c \in ReqCell
      PROVE  LET k == Written(aw, w, ar, c) IN
             /\ fifo'[c] \in Seq(What) /\ Len(fifo'[c]) <= Len(fifo[c]) + Len(k)
             /\ Len(k) \in 0 .. 1 /\ (k # <<>> <=> Len(k) = 1)
             /\ Len(fifo[c]) \in Nat /\ Len(fifo'[c]) \in Nat /\ Len(fifo[c]) <= Depth(c)
             /\ Len(fifo'[c]) <= Depth(c)
  <2> DEFINE k == Written(aw, w, ar, c)
             g == f[c]
  <2>1. /\ k \in Seq(What) /\ Len(k) <= 1 /\ (k # <<>> => Len(fifo[c]) < Depth(c))
    BY AcceptedGrows
  <2>2. g \in Seq(What) /\ fifo[c] \in Seq(What) /\ Len(g) <= Len(fifo[c])
        /\ Len(fifo[c]) <= Depth(c)
    BY DEF ChannelInv, FifosTyped
  <2>3. fifo'[c] = g \o k
    OBVIOUS
  <2>4. Depth(c) \in Nat
    BY Constants DEF Depth
  <2> HIDE DEF k, g
  <2>5. g \o k \in Seq(What) /\ Len(g \o k) = Len(g) + Len(k) /\ Len(g) \in Nat
    <3>1. k \in Seq(What) /\ g \in Seq(What)
      BY <2>1, <2>2
    <3> QED BY ONLY <3>1
  <2>6. Len(k) \in 0 .. 1 /\ (k # <<>> <=> Len(k) = 1) /\ Len(fifo[c]) \in Nat
    <3> DEFINE q == fifo[c]
    <3>1. k \in Seq(What) /\ Len(k) <= 1 /\ q \in Seq(What)
      BY <2>1, <2>2
    <3> HIDE DEF q
    <3>2. Len(q) \in Nat
      BY ONLY <3>1
    <3>3. k # <<>> => Len(k) # 0
      BY ONLY <3>1
    <3>4. Len(k) \in Nat
      BY ONLY <3>1
    <3> DEFINE i == Len(k)
    <3>5. i \in Nat /\ i <= 1 /\ (k # <<>> => i # 0) /\ (k = <<>> => i = 0)
      BY <3>1, <3>3, <3>4
    <3> HIDE DEF i
    <3>6. i \in 0 .. 1 /\ (k # <<>> <=> i = 1)
      BY ONLY <3>5
    <3> QED BY <3>2, <3>6 DEF q, i
  <2> DEFINE x == Len(fifo[c])
             y == Len(fifo'[c])
  <2>7. y = Len(g) + Len(k) /\ fifo'[c] \in Seq(What)
    BY <2>3, <2>5, Zenon
  <2>8. y <= x + Len(k) /\ y \in Nat /\ y <= Depth(c)
    <3> HIDE DEF x, y
    <3> DEFINE l == Len(g)
               i == Len(k)
               max == Depth(c)
    <3>1. /\ x \in Nat /\ l <= x /\ x <= max /\ (i = 1 => x < max)
          /\ max \in Nat /\ l \in Nat /\ i \in 0 .. 1 /\ y = l + i
      BY <2>1, <2>2, <2>4, <2>5, <2>6, <2>7 DEF x
    <3> HIDE DEF l, i, max
    <3>2. y <= x + i /\ y \in Nat /\ y <= max
      BY ONLY <3>1
    <3> QED BY <3>2 DEF i, max
  <2> QED BY <2>2, <2>6, <2>7, <2>8 DEF k
<1>2. FifosTyped'
  <2>1. fifo' \in [ReqCell -> Seq(What)]
    BY <1>1
  <2>2. \A c \in ReqCell : Len(fifo'[c]) <= Depth(c)
    BY <1>1
  <2> QED BY <2>1, <2>2 DEF FifosTyped, Depth
<1>3. ASSUME awReady'
      PROVE  Len(routes') < ReqDepth * RpCount /\ \A rp \in Rp : Len(fifo'[<<rp, "WriteReq">>]) < ReqDepth
  <2>1. /\ Len(routes) + One(aw) < ReqDepth * RpCount
        /\ \A rp \in Rp : Len(fifo[<<rp, "WriteReq">>])
                            + One(aw /\ Writes[awTaken + 1].rp = rp) < ReqDepth
    BY <1>0, <1>3, Zenon DEF AwThread
  <2>2. Len(routes') < ReqDepth * RpCount
    <3> DEFINE max  == ReqDepth * RpCount
               rest == IF TakesRoute(w) THEN Tail(routes) ELSE routes
    <3>1. max \in Nat /\ One(aw) \in 0 .. 1 /\ (One(aw) = 1 <=> aw)
      BY <1>0, Constants, OneIs
    <3>2. rest \in Seq(Route) /\ Len(rest) <= Len(routes) /\ Len(routes) \in Nat
      BY <1>0, WriteFollows, RoutesIs, Zenon DEF ChannelInv
    <3>3. routes' = IF aw THEN Append(rest, RouteOf(awTaken + 1)) ELSE rest
      BY <1>0 DEF Routes, RouteOf
    <3> HIDE DEF max, rest
    <3>4. Len(Append(rest, RouteOf(awTaken + 1))) = Len(rest) + 1 /\ Len(rest) \in Nat
      BY <3>2
    <3>5. Len(routes') = Len(rest) + One(aw)
      BY <1>0, <3>1, <3>3, <3>4
    <3>6. Len(routes) + One(aw) < max
      BY <2>1 DEF max
    <3>7. Len(routes') < max
      BY <3>1, <3>2, <3>4, <3>5, <3>6
    <3> QED BY <3>7 DEF max
  <2>3. ASSUME NEW rp \in Rp PROVE Len(fifo'[<<rp, "WriteReq">>]) < ReqDepth
    <3> DEFINE c == <<rp, "WriteReq">>
               k == Written(aw, w, ar, c)
               yes == aw /\ Writes[awTaken + 1].rp = rp
    <3>1. c \in ReqCell
      BY Constants, Zenon DEF ReqKind
    <3>2. k # <<>> => yes
      BY DEF Written
    <3>3. Len(k) <= One(yes) /\ One(yes) \in 0 .. 1 /\ Len(k) \in Nat
      <4>1. Len(k) <= 1 /\ Len(k) \in Nat /\ (k = <<>> => Len(k) = 0)
        BY <1>1, <3>1
      <4> HIDE DEF k, yes
      <4> QED BY ONLY <3>2, <4>1 DEF One
    <3>4. /\ Len(fifo'[c]) <= Len(fifo[c]) + Len(k)
          /\ Len(fifo[c]) \in Nat /\ Len(fifo'[c]) \in Nat
      BY <1>1, <3>1
    <3>5. Len(fifo[c]) + One(yes) < ReqDepth
      BY <2>1
    <3> HIDE DEF c, k, yes
    <3>6. ReqDepth \in Nat
      BY Constants
    <3>7. Len(fifo'[c]) < ReqDepth
      BY ONLY <3>3, <3>4, <3>5, <3>6
    <3> QED BY <3>7 DEF c
  <2> QED BY <2>2, <2>3, Zenon
<1>4. ASSUME arReady', NEW rp \in Rp PROVE Len(fifo'[<<rp, "ReadReq">>]) < ReqDepth
  <2> DEFINE c == <<rp, "ReadReq">>
             k == Written(aw, w, ar, c)
             yes == ar /\ Reads[arTaken + 1] = rp
  <2>1. c \in ReqCell
    BY Constants, Zenon DEF ReqKind
  <2>2. k # <<>> => yes
    BY DEF Written
  <2>3. Len(k) <= One(yes) /\ One(yes) \in 0 .. 1 /\ Len(k) \in Nat
    <3>1. Len(k) <= 1 /\ Len(k) \in Nat /\ (k = <<>> => Len(k) = 0)
      BY <1>1, <2>1
    <3> HIDE DEF k, yes
    <3> QED BY ONLY <2>2, <3>1 DEF One
  <2>4. /\ Len(fifo'[c]) <= Len(fifo[c]) + Len(k)
        /\ Len(fifo[c]) \in Nat /\ Len(fifo'[c]) \in Nat
    BY <1>1, <2>1
  <2>5. Len(fifo[c]) + One(yes) < ReqDepth
    BY <1>0, <1>4, Zenon DEF ArThread
  <2> HIDE DEF c, k, yes
  <2>6. ReqDepth \in Nat
    BY Constants
  <2>7. Len(fifo'[c]) < ReqDepth
    BY ONLY <2>3, <2>4, <2>5, <2>6
  <2> QED BY <2>7 DEF c
<1>5. ASSUME wReady'
      PROVE  route'.left > 0 /\ Len(fifo'[<<route'.rp, "WriteData">>]) < WDataDepth
  <2> DEFINE c == <<route'.rp, "WriteData">>
             k == Written(aw, w, ar, c)
             yes == w /\ route'.rp = route.rp
  <2>1. /\ route'.left > 0
        /\ Len(fifo[c]) + One(yes) < WDataDepth
    BY <1>0, <1>5, Zenon DEF WThread
  <2>2. route'.rp \in Rp
    BY <1>0, WriteFollows, Zenon DEF ChannelInv, Route
  <2>3. c \in ReqCell
    BY <2>2, Constants, Zenon DEF ReqKind
  <2>4. k # <<>> => yes
    BY DEF Written
  <2>5. Len(k) <= One(yes) /\ One(yes) \in 0 .. 1 /\ Len(k) \in Nat
    <3>1. Len(k) <= 1 /\ Len(k) \in Nat /\ (k = <<>> => Len(k) = 0)
      BY <1>1, <2>3
    <3> HIDE DEF k, yes
    <3> QED BY ONLY <2>4, <3>1 DEF One
  <2>6. /\ Len(fifo'[c]) <= Len(fifo[c]) + Len(k)
        /\ Len(fifo[c]) \in Nat /\ Len(fifo'[c]) \in Nat
    BY <1>1, <2>3
  <2> HIDE DEF c, k, yes
  <2>7. WDataDepth \in Nat
    BY Constants
  <2>8. Len(fifo'[c]) < WDataDepth
    BY ONLY <2>1, <2>5, <2>6, <2>7
  <2> QED BY <2>1, <2>8 DEF c
<1> QED BY <1>2, <1>3, <1>4, <1>5, Zenon DEF ReadyHasRoom


-----------------------------------------------------------------------------
\* The packer's state at an edge

LogEntry == [taken : ReqCell, eligible : SUBSET ReqCell]

PackState ==
  [fifo : [ReqCell -> Seq(What)], staged : [ReqCell -> Seq(What)],
   available : [ReqCell -> Nat], frame : Seq(Granule), spill : Seq(Granule), nextRp : Rp,
   log : Seq(LogEntry), done : BOOLEAN, exhausted : BOOLEAN]

\* The messages of a cell that are cut into granules; those the packer has, in
\* order; and the granules of credit of the cell, spent or not.
Cut(q, c)   == OfCell(Ends(q.frame \o q.spill), c)
Held(q, c)  == Cat(Cut(q, c), Cat(q.staged[c], q.fifo[c]))
Worth(q, c) == q.available[c] + SizeOfAll(c, Cut(q, c))

Framed(q) ==
  Len(q.frame) <= FlitGranules /\ (Len(q.frame) < FlitGranules => q.spill = <<>>)

\* Whole messages for a decoder that has the granules x already.
Streams(x, s) == Chain(Message, x, s) /\ After(x, s) = <<>>

SlotsTyped(q) == \A c \in ReqCell : Len(q.staged[c]) <= 1

\* The packer has come from p to q: it has moved messages on, and paid for them.
Moves(p, q) ==
  \A c \in ReqCell : /\ Held(q, c) = Held(p, c) /\ Worth(q, c) = Worth(p, c)
                     /\ Len(q.fifo[c]) <= Len(p.fifo[c])

Packing(x, p) ==
  {q \in PackState : /\ Framed(q) /\ Streams(x, q.frame \o q.spill)
                     /\ SlotsTyped(q) /\ Moves(p, q)}

LEMMA ModIs ==
  ASSUME NEW a \in Int, NEW b \in Nat \ {0}
  PROVE  a % b \in 0 .. b - 1
OBVIOUS

LEMMA HeadThenTail ==
  ASSUME NEW W, NEW s \in Seq(W), s # <<>>
  PROVE  /\ Head(s) \in W /\ <<Head(s)>> \in Seq(W) /\ Len(<<Head(s)>>) = 1
         /\ Tail(s) \in Seq(W) /\ Len(Tail(s)) <= Len(s) /\ Cat(<<Head(s)>>, Tail(s)) = s
<1>1. /\ Head(s) \in W /\ <<Head(s)>> \in Seq(W) /\ Len(<<Head(s)>>) = 1
      /\ Tail(s) \in Seq(W) /\ Len(Tail(s)) <= Len(s) /\ Len(Tail(s)) = Len(s) - 1
  OBVIOUS
<1>2. <<Head(s)>> \o Tail(s) = s
  OBVIOUS
<1> QED BY <1>1, <1>2 DEF Cat

LEMMA NothingJoined ==
  ASSUME NEW W, NEW s \in Seq(W)
  PROVE  Cat(<<>>, s) = s /\ Cat(s, <<>>) = s
BY DEF Cat

\* Filling the staging slots changes nothing in the order of messages.
LEMMA FillIs ==
  ASSUME NEW q \in PackState
  PROVE  /\ Fill(q) \in PackState
         /\ Fill(q).frame = q.frame /\ Fill(q).spill = q.spill
         /\ Fill(q).available = q.available
         /\ \A c \in ReqCell :
              /\ Cat(Fill(q).staged[c], Fill(q).fifo[c]) = Cat(q.staged[c], q.fifo[c])
              /\ Len(Fill(q).fifo[c]) <= Len(q.fifo[c])
              /\ Len(q.staged[c]) <= 1 => Len(Fill(q).staged[c]) <= 1
<1> DEFINE moves(c) == q.staged[c] = <<>> /\ q.fifo[c] # <<>>
           st == [c \in ReqCell |-> IF moves(c) THEN <<Head(q.fifo[c])>> ELSE q.staged[c]]
           ff == [c \in ReqCell |-> IF moves(c) THEN Tail(q.fifo[c]) ELSE q.fifo[c]]
<1>1. Fill(q) = [q EXCEPT !.staged = st, !.fifo = ff]
  BY DEF Fill
<1>2. q.fifo \in [ReqCell -> Seq(What)] /\ q.staged \in [ReqCell -> Seq(What)]
  BY DEF PackState
<1>3. ASSUME NEW c \in ReqCell
      PROVE  /\ st[c] \in Seq(What) /\ ff[c] \in Seq(What)
             /\ Cat(st[c], ff[c]) = Cat(q.staged[c], q.fifo[c])
             /\ Len(ff[c]) <= Len(q.fifo[c])
             /\ Len(q.staged[c]) <= 1 => Len(st[c]) <= 1
  <2>0. q.fifo[c] \in Seq(What) /\ q.staged[c] \in Seq(What)
    BY <1>2
  <2>1. CASE moves(c)
    <3>1. st[c] = <<Head(q.fifo[c])>> /\ ff[c] = Tail(q.fifo[c]) /\ q.staged[c] = <<>>
      BY <2>1
    <3> DEFINE s == q.fifo[c]
    <3>2. s # <<>> /\ s \in Seq(What)
      BY <2>0, <2>1
    <3> HIDE DEF s
    <3>3. /\ <<Head(s)>> \in Seq(What) /\ Len(<<Head(s)>>) = 1
          /\ Tail(s) \in Seq(What) /\ Len(Tail(s)) <= Len(s) /\ Cat(<<Head(s)>>, Tail(s)) = s
          /\ Cat(<<>>, s) = s
      BY <3>2, HeadThenTail, NothingJoined
    <3> HIDE DEF st, ff
    <3> QED BY <3>1, <3>3 DEF s
  <2>2. CASE ~moves(c)
    <3>1. st[c] = q.staged[c] /\ ff[c] = q.fifo[c]
      BY <2>2
    <3>2. Len(q.fifo[c]) \in Nat
      BY <2>0
    <3> HIDE DEF st, ff
    <3> QED BY <2>0, <3>1, <3>2
  <2> QED BY <2>1, <2>2
<1>4. st \in [ReqCell -> Seq(What)] /\ ff \in [ReqCell -> Seq(What)]
  BY <1>3, Zenon
<1> HIDE DEF st, ff
<1>5. /\ Fill(q) \in PackState
      /\ Fill(q).frame = q.frame /\ Fill(q).spill = q.spill
      /\ Fill(q).available = q.available /\ Fill(q).staged = st /\ Fill(q).fifo = ff
  BY <1>1, <1>4, Zenon DEF PackState
<1> QED BY <1>3, <1>5

\* The rest of a message that was cut begins the frame.
LEMMA ResumeIs ==
  ASSUME NEW q \in PackState, Len(q.frame) <= FlitGranules,
         q.spill # <<>> => q.frame = <<>> \/ Len(q.frame) = FlitGranules
  PROVE  /\ Resume(q) \in PackState /\ Framed(Resume(q))
         /\ Resume(q).frame \o Resume(q).spill = q.frame \o q.spill
         /\ Resume(q).fifo = q.fifo /\ Resume(q).staged = q.staged
         /\ Resume(q).available = q.available
<1>0. q.frame \in Seq(Granule) /\ q.spill \in Seq(Granule) /\ Len(q.frame) \in Nat
      /\ FlitGranules \in Nat
  BY FramesAssumption DEF PackState
<1>1. CASE q.spill = <<>>
  BY <1>1, Zenon DEF Resume, Framed
<1>2. CASE q.spill # <<>> /\ q.frame # <<>>
  <2>1. Resume(q) = [q EXCEPT !.done = TRUE]
    BY <1>2 DEF Resume
  <2>2. Resume(q) \in PackState /\ Resume(q).frame = q.frame /\ Resume(q).spill = q.spill
        /\ Resume(q).fifo = q.fifo /\ Resume(q).staged = q.staged
        /\ Resume(q).available = q.available
    BY <2>1, Zenon DEF PackState
  <2>3. Len(q.frame) = FlitGranules
    BY <1>2
  <2> QED BY <1>0, <2>2, <2>3 DEF Framed
<1>3. CASE q.spill # <<>> /\ q.frame = <<>>
  <2> DEFINE f == Fits(<<>>, q.spill)
             s == CutOff(<<>>, q.spill)
             sp == q.spill
  <2>1. Resume(q) = [q EXCEPT !.frame = f, !.spill = s, !.done = s # <<>>]
    BY <1>3 DEF Resume
  <2>2. <<>> \in Seq(Granule) /\ Len(<<>>) <= FlitGranules
    BY <1>0
  <2>3. /\ f \in Seq(Granule) /\ s \in Seq(Granule) /\ f \o s = <<>> \o sp
        /\ Len(f) <= FlitGranules /\ (Len(f) < FlitGranules => s = <<>>)
    BY <1>0, <2>2, CutIs, Zenon
  <2> HIDE DEF f, s
  <2>4. /\ Resume(q) \in PackState /\ Resume(q).frame = f /\ Resume(q).spill = s
        /\ Resume(q).fifo = q.fifo /\ Resume(q).staged = q.staged
        /\ Resume(q).available = q.available
    BY <2>1, <2>3, Zenon DEF PackState
  <2> QED BY <1>3, <2>3, <2>4 DEF Framed
<1> QED BY <1>1, <1>2, <1>3, Zenon

LEMMA RankIsNat ==
  ASSUME NEW q \in PackState, NEW c \in ReqCell
  PROVE  Rank(q, c) \in Nat
<1>1. c[1] \in Int /\ q.nextRp \in Int /\ c[2] \in ReqKind /\ RpCount \in Nat \ {0}
  <2>1. c[1] \in Rp /\ q.nextRp \in Rp
    BY Constants DEF PackState
  <2> QED BY <2>1, Constants DEF Rp
<1> DEFINE turn == (c[1] - q.nextRp) % RpCount
           kind == CASE c[2] = "ReadReq" -> 0 [] c[2] = "WriteReq" -> 1 [] c[2] = "WriteData" -> 2
<1>2. turn \in 0 .. RpCount - 1
  <2>1. c[1] - q.nextRp \in Int
    BY <1>1
  <2> QED BY <1>1, <2>1, ModIs, Zenon
<1>3. kind \in 0 .. 2
  BY <1>1 DEF ReqKind
<1>4. Rank(q, c) = RpCount * kind + turn
  BY DEF Rank
<1> HIDE DEF turn, kind
<1>5. RpCount * kind \in Nat
  BY <1>1, <1>3
<1> DEFINE n == RpCount * kind
<1> HIDE DEF n
<1>6. n \in Nat /\ turn \in Nat
  BY <1>1, <1>2, <1>5 DEF n
<1>7. n + turn \in Nat
  BY <1>6
<1> QED BY <1>4, <1>7 DEF n

LEMMA CandidateIs ==
  ASSUME NEW q \in PackState, EligibleCells(q) # {}
  PROVE  Candidate(q) \in EligibleCells(q)
<1> DEFINE T == {Rank(q, c) : c \in EligibleCells(q)}
<1>1. EligibleCells(q) \subseteq ReqCell
  BY DEF EligibleCells
<1>2. T \in SUBSET Nat /\ T # {}
  BY <1>1, RankIsNat
<1>3. \E n \in T : \A m \in T : n <= m
  <2> HIDE DEF T
  <2> QED BY <1>2, PackFold!LeastNumber
<1>4. \E c \in EligibleCells(q) : \A d \in EligibleCells(q) : Rank(q, c) <= Rank(q, d)
  BY <1>3
<1> QED BY <1>4 DEF Candidate

\* A message taken goes behind those that are cut already.
LEMMA ConsumeKeeps ==
  ASSUME NEW x, NEW p \in PackState, NEW q \in Packing(x, p), NEW c \in EligibleCells(q),
         Room(q.frame) # 0
  PROVE  Consume(q, c) \in Packing(x, p)
<1> DEFINE s     == q.staged[c]
           m     == Head(s)
           parts == MessageParts(c, m)
           msg   == <<c, m>>
           r     == Consume(q, c)
           f     == Fits(q.frame, parts)
           o     == CutOff(q.frame, parts)
           left  == q.available[c] - Len(parts)
<1>1. c \in ReqCell /\ s # <<>> /\ Size(c, m) <= q.available[c]
  BY DEF EligibleCells, Eligible
<1>2. /\ q \in PackState /\ Framed(q) /\ Streams(x, q.frame \o q.spill)
      /\ SlotsTyped(q) /\ Moves(p, q)
  BY DEF Packing
<1>3. /\ q.frame \in Seq(Granule) /\ q.spill \in Seq(Granule)
      /\ q.available \in [ReqCell -> Nat] /\ q.staged \in [ReqCell -> Seq(What)]
      /\ q.fifo \in [ReqCell -> Seq(What)] /\ FlitGranules \in Nat
  BY <1>2, FramesAssumption DEF PackState
<1>4. m \in What /\ s = <<m>> /\ s \in Seq(What)
  <2>1. s \in Seq(What) /\ Len(s) <= 1 /\ s # <<>>
    BY <1>1, <1>2, <1>3 DEF SlotsTyped
  <2> HIDE DEF s
  <2>2. Head(s) \in What /\ s = <<Head(s)>>
    BY ONLY <2>1
  <2> QED BY <2>1, <2>2
<1>5. Size(c, m) \in Nat \ {0} /\ msg \in Message
  BY <1>1, <1>4, SizeIsNat, Constants DEF Message
<1> HIDE DEF m, msg
<1>6. /\ Chain(Message, <<>>, parts) /\ After(<<>>, parts) = <<>>
      /\ parts \in Seq(Granule) /\ Len(parts) = Size(c, m)
  <2>1. parts = PartsOf(msg, Size(c, m))
    BY DEF MessageParts, msg
  <2> HIDE DEF parts
  <2> QED BY <1>5, <2>1, PartsChain DEF Granule
<1>7. Ends(parts) = <<msg>>
  <2>1. parts = PartsOf(msg, Size(c, m))
    BY DEF MessageParts, msg
  <2> HIDE DEF parts
  <2> QED BY <1>5, <2>1, EndsOfParts
<1> HIDE DEF parts
<1>8. q.spill = <<>> /\ Len(q.frame) <= FlitGranules
  <2>1. Len(q.frame) \in Nat
    BY <1>3
  <2>2. Len(q.frame) < FlitGranules
    BY <1>2, <1>3, <2>1 DEF Framed, Room
  <2> QED BY <1>2, <2>2 DEF Framed
<1>9. /\ f \in Seq(Granule) /\ o \in Seq(Granule) /\ f \o o = q.frame \o parts
      /\ Len(f) <= FlitGranules /\ (Len(f) < FlitGranules => o = <<>>)
  <2> DEFINE frame0 == q.frame
  <2>1. frame0 \in Seq(Granule) /\ parts \in Seq(Granule) /\ Len(frame0) <= FlitGranules
    BY <1>3, <1>6, <1>8
  <2> HIDE DEF frame0
  <2>2. /\ Fits(frame0, parts) \in Seq(Granule) /\ CutOff(frame0, parts) \in Seq(Granule)
        /\ Fits(frame0, parts) \o CutOff(frame0, parts) = frame0 \o parts
        /\ Len(Fits(frame0, parts)) <= FlitGranules
        /\ (Len(Fits(frame0, parts)) < FlitGranules => CutOff(frame0, parts) = <<>>)
    BY <2>1, CutIs, Zenon
  <2> QED BY <2>2 DEF frame0
<1>10. left \in Nat
  BY <1>1, <1>3, <1>5, <1>6
<1> HIDE DEF f, o
<1>11. r = [q EXCEPT !.available[c] = left, !.staged[c] = <<>>, !.frame = f, !.spill = o,
                     !.done = o # <<>>, !.nextRp = (c[1] + 1) % RpCount,
                     !.log = Append(@, [taken |-> c, eligible |-> EligibleCells(q)])]
  BY DEF Consume, parts, f, o, m
<1> HIDE DEF left
<1>12. /\ r \in PackState /\ r.frame = f /\ r.spill = o /\ r.fifo = q.fifo
       /\ r.available = [q.available EXCEPT ![c] = left]
       /\ r.staged = [q.staged EXCEPT ![c] = <<>>]
  <2>1. (c[1] + 1) % RpCount \in Rp
    <3>1. c[1] + 1 \in Int /\ RpCount \in Nat \ {0}
      BY <1>1, Constants DEF Rp
    <3> QED BY <3>1, ModIs, Zenon DEF Rp
  <2> DEFINE e == [taken |-> c, eligible |-> EligibleCells(q)]
             l == Append(q.log, e)
             n == (c[1] + 1) % RpCount
             d == o # <<>>
             a == [q.available EXCEPT ![c] = left]
             t == [q.staged EXCEPT ![c] = <<>>]
  <2>2. e \in LogEntry /\ q.log \in Seq(LogEntry)
    BY <1>1, <1>2 DEF LogEntry, EligibleCells, PackState
  <2>3. l \in Seq(LogEntry)
    <3> HIDE DEF e
    <3> QED BY <2>2
  <2>4. d \in BOOLEAN /\ n \in Rp
    BY <2>1
  <2>5. a \in [ReqCell -> Nat] /\ t \in [ReqCell -> Seq(What)]
    <3> DEFINE av == q.available
               sd == q.staged
    <3>1. av \in [ReqCell -> Nat] /\ sd \in [ReqCell -> Seq(What)] /\ <<>> \in Seq(What)
      BY <1>3
    <3> HIDE DEF av, sd
    <3>2. [av EXCEPT ![c] = left] \in [ReqCell -> Nat]
      BY <1>10, <3>1, Zenon
    <3>3. [sd EXCEPT ![c] = <<>>] \in [ReqCell -> Seq(What)]
      BY <3>1, Zenon
    <3> QED BY <3>2, <3>3 DEF av, sd
  <2>6. r = [q EXCEPT !.available = a, !.staged = t, !.frame = f, !.spill = o,
                      !.done = d, !.nextRp = n, !.log = l]
    BY <1>2, <1>11 DEF PackState
  <2> HIDE DEF l, n, d, a, t, r
  <2>7. /\ r \in PackState /\ r.frame = f /\ r.spill = o /\ r.fifo = q.fifo
        /\ r.available = a /\ r.staged = t
    BY <1>2, <1>9, <2>3, <2>4, <2>5, <2>6, Zenon DEF PackState
  <2> QED BY <2>7 DEF a, t
<1> HIDE DEF r
<1>13. Framed(r) /\ SlotsTyped(r)
  <2>1. Framed(r)
    BY <1>9, <1>12 DEF Framed
  <2>2. \A d \in ReqCell : Len(r.staged[d]) <= 1
    BY <1>2, <1>3, <1>12 DEF SlotsTyped
  <2> QED BY <2>1, <2>2 DEF SlotsTyped
<1> DEFINE u == q.frame
<1>14. u \in Seq(Granule) /\ u \o q.spill = u /\ r.frame \o r.spill = u \o parts
  <2>1. u \o <<>> = u
    BY <1>3
  <2> QED BY <1>3, <1>8, <1>9, <1>12, <2>1, Zenon
<1>15. Chain(Message, x, u) /\ After(x, u) = <<>>
  BY <1>2, <1>14 DEF Streams
<1> HIDE DEF u
<1>16. Streams(x, r.frame \o r.spill)
  <2>1. Chain(Message, x, u \o parts)
    BY <1>6, <1>14, <1>15, ChainJoined DEF Granule
  <2>2. After(x, u \o parts) = <<>>
    BY <1>6, <1>14, <1>15, AfterJoined
  <2> QED BY <1>14, <2>1, <2>2 DEF Streams
<1>17. Ends(u) \in Seq(Message) /\ Ends(u \o parts) = Append(Ends(u), msg)
  <2>1. Ends(u) \in Seq(Message)
    BY <1>14, EndsIsSeq DEF Granule
  <2>2. Ends(u \o parts) = Ends(u) \o <<msg>>
    BY <1>6, <1>7, <1>14, EndsJoined, Zenon DEF Granule
  <2> DEFINE e == Ends(u)
  <2>3. e \in Seq(Message) /\ msg \in Message
    BY <1>5, <2>1
  <2> HIDE DEF e
  <2>4. e \o <<msg>> = Append(e, msg)
    BY ONLY <2>3
  <2> QED BY <2>1, <2>2, <2>4 DEF e
<1>18. ASSUME NEW d \in ReqCell
       PROVE  /\ Cut(q, d) \in Seq(What)
              /\ Cut(r, d) = IF d = c THEN Append(Cut(q, d), m) ELSE Cut(q, d)
  <2>1. Cut(q, d) = OfCell(Ends(u), d)
    BY <1>14 DEF Cut, u
  <2>2. Cut(r, d) = OfCell(Append(Ends(u), msg), d)
    BY <1>14, <1>17 DEF Cut
  <2>3. OfCell(Append(Ends(u), msg), d)
          = IF msg[1] = d THEN Append(OfCell(Ends(u), d), msg[2]) ELSE OfCell(Ends(u), d)
    BY <1>5, <1>17, OfCellAppend
  <2>4. msg[1] = c /\ msg[2] = m
    BY DEF msg
  <2>5. OfCell(Ends(u), d) \in Seq(What)
    BY <1>17, OfCellIsSeq, Zenon DEF Message
  <2> QED BY <2>1, <2>2, <2>3, <2>4, <2>5
<1>19. ASSUME NEW d \in ReqCell
       PROVE  Held(r, d) = Held(q, d) /\ Worth(r, d) = Worth(q, d)
  <2>1. CASE d # c
    <3>1. /\ Cut(r, d) = Cut(q, d) /\ r.staged[d] = q.staged[d] /\ r.fifo[d] = q.fifo[d]
          /\ r.available[d] = q.available[d]
      BY <1>3, <1>12, <1>18, <2>1
    <3> QED BY <3>1 DEF Held, Worth
  <2>2. CASE d = c
    <3> DEFINE k == Cut(q, c)
               v == q.fifo[c]
    <3>1. /\ Cut(r, c) = Append(k, m) /\ k \in Seq(What) /\ v \in Seq(What)
          /\ r.staged[c] = <<>> /\ r.fifo[c] = v /\ r.available[c] = left
      BY <1>1, <1>3, <1>12, <1>18
    <3> HIDE DEF k, v
    <3>2. <<m>> \in Seq(What) /\ Append(k, m) = Cat(k, <<m>>)
      BY <1>4, <3>1 DEF Cat
    <3>3. Cat(Cat(k, <<m>>), v) = Cat(k, Cat(<<m>>, v))
      <4>1. Associative(Seq(What))
        BY SequencesAssociate
      <4> QED BY <3>1, <3>2, <4>1, Zenon DEF Associative
    <3>4. Cat(<<>>, v) = v
      BY <3>1, NothingJoined
    <3>5. Held(r, c) = Held(q, c)
      <4>1. Held(r, c) = Cat(Append(k, m), v)
        BY <3>1, <3>4 DEF Held
      <4>2. Held(q, c) = Cat(k, Cat(<<m>>, v))
        BY <1>4 DEF Held, k, v
      <4> QED BY <3>2, <3>3, <4>1, <4>2
    <3>6. SizeOfAll(c, Append(k, m)) = SizeOfAll(c, k) + Size(c, m) /\ SizeOfAll(c, k) \in Nat
      BY <1>1, <1>4, <3>1, SizeOfMore, SizeOfAllIsNat
    <3>7. Worth(r, c) = Worth(q, c)
      <4>1. left = q.available[c] - Size(c, m) /\ q.available[c] \in Nat
        BY <1>1, <1>3, <1>6 DEF left
      <4>2. Worth(r, c) = left + (SizeOfAll(c, k) + Size(c, m))
        BY <3>1, <3>6 DEF Worth
      <4>3. Worth(q, c) = q.available[c] + SizeOfAll(c, k)
        BY DEF Worth, k
      <4> QED BY <1>5, <3>6, <4>1, <4>2, <4>3
    <3> QED BY <2>2, <3>5, <3>7
  <2> QED BY <2>1, <2>2
<1>20. Moves(p, r)
  BY <1>2, <1>12, <1>19 DEF Moves
<1> QED BY <1>12, <1>13, <1>16, <1>20 DEF Packing, r

LEMMA PackOneKeeps ==
  ASSUME NEW x, NEW p \in PackState, NEW q \in Packing(x, p)
  PROVE  PackOne(q) \in Packing(x, p)
<1> DEFINE f == Fill(q)
<1>1. /\ q \in PackState /\ Framed(q) /\ Streams(x, q.frame \o q.spill)
      /\ SlotsTyped(q) /\ Moves(p, q)
  BY DEF Packing
<1>2. /\ f \in PackState /\ f.frame = q.frame /\ f.spill = q.spill
      /\ f.available = q.available
      /\ \A c \in ReqCell : /\ Cat(f.staged[c], f.fifo[c]) = Cat(q.staged[c], q.fifo[c])
                            /\ Len(f.fifo[c]) <= Len(q.fifo[c]) /\ Len(f.staged[c]) <= 1
  BY <1>1, FillIs DEF SlotsTyped
<1> HIDE DEF f
<1>3. ASSUME NEW c \in ReqCell
      PROVE  /\ Held(f, c) = Held(q, c) /\ Worth(f, c) = Worth(q, c)
             /\ Len(f.fifo[c]) <= Len(p.fifo[c])
  <2>1. Cut(f, c) = Cut(q, c)
    BY <1>2 DEF Cut
  <2>2. Held(f, c) = Held(q, c) /\ Worth(f, c) = Worth(q, c)
    BY <1>2, <2>1 DEF Held, Worth
  <2>3. f.fifo[c] \in Seq(What) /\ q.fifo[c] \in Seq(What) /\ p.fifo[c] \in Seq(What)
    BY <1>1, <1>2 DEF PackState
  <2> DEFINE a == f.fifo[c]
             b == q.fifo[c]
             d == p.fifo[c]
  <2>4. Len(a) <= Len(b) /\ Len(b) <= Len(d) /\ Len(a) \in Nat /\ Len(b) \in Nat /\ Len(d) \in Nat
    BY <1>1, <1>2, <2>3 DEF Moves
  <2> HIDE DEF a, b, d
  <2>5. Len(a) <= Len(d)
    BY <2>4
  <2> QED BY <2>2, <2>5 DEF a, d
<1>4. f \in Packing(x, p)
  <2>1. Moves(p, f)
    BY <1>1, <1>3 DEF Moves
  <2> QED BY <1>1, <1>2, <2>1 DEF Packing, Framed, SlotsTyped
<1>5. CASE q.done \/ Room(q.frame) = 0
  BY <1>5 DEF PackOne
<1>6. CASE ~(q.done \/ Room(q.frame) = 0) /\ EligibleCells(f) = {}
  <2> DEFINE g == [f EXCEPT !.done = TRUE, !.exhausted = TRUE]
  <2>1. PackOne(q) = g
    BY <1>6 DEF PackOne, f
  <2>2. /\ g \in PackState /\ g.frame = f.frame /\ g.spill = f.spill /\ g.fifo = f.fifo
        /\ g.staged = f.staged /\ g.available = f.available
    BY <1>2, Zenon DEF PackState
  <2> HIDE DEF g
  <2>3. Moves(p, g) /\ Framed(g) /\ SlotsTyped(g) /\ Streams(x, g.frame \o g.spill)
    BY <1>4, <2>2 DEF Packing, Moves, Held, Worth, Cut, Framed, SlotsTyped
  <2> QED BY <2>1, <2>2, <2>3 DEF Packing
<1>7. CASE ~(q.done \/ Room(q.frame) = 0) /\ EligibleCells(f) # {}
  <2>1. PackOne(q) = Consume(f, Candidate(f))
    BY <1>7 DEF PackOne, f
  <2>2. Candidate(f) \in EligibleCells(f) /\ Room(f.frame) # 0
    BY <1>2, <1>7, CandidateIs
  <2> QED BY <1>4, <2>1, <2>2, ConsumeKeeps
<1> QED BY <1>5, <1>6, <1>7

\* The packer's work of one edge, from any state in which it can be.
LEMMA PackCycleKeeps ==
  ASSUME NEW x, NEW p \in PackState, Len(p.frame) <= FlitGranules,
         p.spill # <<>> => p.frame = <<>> \/ Len(p.frame) = FlitGranules,
         SlotsTyped(p), Streams(x, p.frame \o p.spill)
  PROVE  PackCycle(p) \in Packing(x, p)
<1> DEFINE r == Resume(p)
<1>1. /\ r \in PackState /\ Framed(r) /\ r.frame \o r.spill = p.frame \o p.spill
      /\ r.fifo = p.fifo /\ r.staged = p.staged /\ r.available = p.available
  BY ResumeIs, Zenon
<1> HIDE DEF r
<1>2. r \in Packing(x, p)
  <2>1. ASSUME NEW c \in ReqCell PROVE Len(r.fifo[c]) <= Len(p.fifo[c])
    <3>1. Len(p.fifo[c]) \in Nat
      BY DEF PackState
    <3> QED BY <1>1, <3>1
  <2>2. Moves(p, r)
    BY <1>1, <2>1 DEF Moves, Held, Worth, Cut
  <2> QED BY <1>1, <2>2, Zenon DEF Packing, SlotsTyped
<1> DEFINE T == Packing(x, p)
           i == [j \in 1 .. PackMsgs |-> j]
<1>3. \A a \in T : \A e \in Nat : PackStep(0, a, e) \in T
  BY PackOneKeeps DEF PackStep
<1>4. i \in Seq(Nat)
  BY Constants
<1> HIDE DEF T, i
<1>5. PackFold!Folded(0, r, i) \in T
  BY <1>2, <1>3, <1>4, PackFold!FoldedIn DEF T
<1>6. PackCycle(p) = PackFold!Folded(0, r, i)
  BY PackCycleIsFold DEF r, i
<1> QED BY <1>5, <1>6 DEF T

-----------------------------------------------------------------------------
\* What the path keeps: whole messages from what the decoder has on, and as
\* many granules of credit as the receiver has granted.

PackerTyped ==
  /\ staged \in [ReqCell -> Seq(What)] /\ \A c \in ReqCell : Len(staged[c]) <= 1
  /\ frame \in Seq(Granule) /\ spill \in Seq(Granule) /\ Len(frame) <= FlitGranules
  /\ spill # <<>> => frame = <<>> \/ Len(frame) = FlitGranules
  /\ nextRp \in Rp

\* A frame that is not full ends with the end of a message.
OutputWhole ==
  /\ Sending \in Seq(Granule) /\ Len(Sending) <= FlitGranules
  /\ output # <<>> => (Len(Sending) < FlitGranules => After(carry, Sending) = <<>>)

CreditsTyped ==
  /\ available \in [ReqCell -> Nat] /\ updates \in [ReqCell -> Nat]
  /\ granted \in [ReqCell -> Nat] /\ decoded \in [ReqCell -> Seq(What)]

\* The receiver has granted no more than its buffer and what it has had out of it.
GrantedInBounds ==
  \A c \in ReqCell : granted[c] <= PeerCapacity[c] + SizeOfAll(c, decoded[c])

MessagesInv ==
  /\ ChannelInv /\ PackerTyped /\ OutputWhole /\ Streams(carry, OnTheWay) /\ ~refused
  /\ \A c \in ReqCell :
       Accepted(c) = decoded[c] \o OfCell(Ends(OnTheWay), c) \o staged[c] \o fifo[c]

CreditsInv == CreditsTyped /\ GrantedInBounds /\ PaysForMessages

PathInv == MessagesInv /\ CreditsInv

LEMMA PathTyped ==
  ASSUME PathInv, NEW c \in ReqCell
  PROVE  /\ Sending \in Seq(Granule) /\ frame \o spill \in Seq(Granule)
         /\ OnTheWay \in Seq(Granule)
         /\ Ends(Sending) \in Seq(Message) /\ Ends(frame \o spill) \in Seq(Message)
         /\ Ends(OnTheWay) = Ends(Sending) \o Ends(frame \o spill)
         /\ OfCell(Ends(Sending), c) \in Seq(What)
         /\ OfCell(Ends(frame \o spill), c) \in Seq(What)
         /\ OfCell(Ends(OnTheWay), c)
              = Cat(OfCell(Ends(Sending), c), OfCell(Ends(frame \o spill), c))
         /\ OfCell(Ends(OnTheWay), c) \in Seq(What)
<1> DEFINE s == Sending
           t == frame \o spill
<1>1. s \in Seq(Granule) /\ t \in Seq(Granule) /\ OnTheWay = s \o t
  BY DEF PathInv, MessagesInv, PackerTyped, OutputWhole, OnTheWay
<1> HIDE DEF s, t
<1>2. s \o t \in Seq(Granule)
  BY ONLY <1>1
<1>3. /\ Ends(s) \in Seq(Message) /\ Ends(t) \in Seq(Message)
      /\ Ends(s \o t) = Ends(s) \o Ends(t)
  BY <1>1, EndsIsSeq, EndsJoined DEF Granule
<1>4. OfCell(Ends(s), c) \in Seq(What) /\ OfCell(Ends(t), c) \in Seq(What)
  BY <1>3, OfCellIsSeq, Zenon DEF Message
<1>5. OfCell(Cat(Ends(s), Ends(t)), c) = Cat(OfCell(Ends(s), c), OfCell(Ends(t), c))
  <2>1. Joins(Seq(Message), c)
    BY CellsJoin, Zenon DEF Message
  <2> QED BY <1>3, <2>1 DEF Joins
<1>6. Cat(OfCell(Ends(s), c), OfCell(Ends(t), c)) \in Seq(What)
  BY <1>4, SequencesAssociate DEF Associative
<1>7. OfCell(Ends(s \o t), c) = Cat(OfCell(Ends(s), c), OfCell(Ends(t), c))
  BY <1>3, <1>5, Zenon DEF Cat
<1> QED BY <1>1, <1>2, <1>3, <1>4, <1>6, <1>7, Zenon DEF s, t

\* Credits never reach the limit of the counter.
LEMMA SuppliedIs ==
  ASSUME PathInv, NEW c \in ReqCell
  PROVE  /\ Supplied[c] = available[c] + updates[c] /\ Supplied[c] \in Nat
         /\ available[c] + updates[c] <= CreditCounterMax
<1> DEFINE a == SizeOfAll(c, decoded[c])
           b == SizeOfAll(c, OfCell(Ends(OnTheWay), c))
<1>1. a \in Nat /\ b \in Nat
  <2>1. OfCell(Ends(OnTheWay), c) \in Seq(What) /\ decoded[c] \in Seq(What)
    BY PathTyped DEF PathInv, CreditsInv, CreditsTyped
  <2> QED BY <2>1, SizeOfAllIsNat
<1>2. granted[c] <= PeerCapacity[c] + a
  BY DEF PathInv, CreditsInv, GrantedInBounds
<1>3. granted[c] = updates[c] + available[c] + a + b
  BY DEF PathInv, CreditsInv, PaysForMessages
<1>4. /\ updates[c] \in Nat /\ available[c] \in Nat /\ granted[c] \in Nat
      /\ PeerCapacity[c] \in Nat /\ PeerCapacity[c] <= CreditCounterMax
      /\ CreditCounterMax \in Nat
  BY Constants DEF PathInv, CreditsInv, CreditsTyped
<1> HIDE DEF a, b
<1>5. available[c] + updates[c] <= CreditCounterMax /\ available[c] + updates[c] \in Nat
  BY <1>1, <1>2, <1>3, <1>4
<1> QED BY <1>5 DEF Supplied, AtMost

\* The packer's state when an edge begins.
Begun ==
  [fifo |-> fifo, staged |-> staged, available |-> Supplied, frame |-> frame,
   spill |-> spill, nextRp |-> nextRp, log |-> <<>>, done |-> FALSE, exhausted |-> FALSE]

LEMMA PackedIs ==
  ASSUME PathInv
  PROVE  Begun \in PackState /\ Packed \in Packing(After(carry, Sending), Begun)
<1>0. /\ fifo \in [ReqCell -> Seq(What)] /\ PackerTyped
      /\ Streams(carry, OnTheWay) /\ Sending \in Seq(Granule)
  BY DEF PathInv, MessagesInv, ChannelInv, FifosTyped, OutputWhole
<1>1. Supplied \in [ReqCell -> Nat]
  <2>1. \A c \in ReqCell : Supplied[c] \in Nat
    BY SuppliedIs
  <2> QED BY <2>1 DEF Supplied
<1>2. Begun \in PackState
  <2>1. <<>> \in Seq(LogEntry)
    OBVIOUS
  <2> HIDE DEF Supplied
  <2> QED BY <1>0, <1>1, <2>1 DEF Begun, PackState, PackerTyped
<1>3. /\ Begun.frame = frame /\ Begun.spill = spill /\ Begun.staged = staged
  BY DEF Begun
<1> DEFINE s == Sending
           t == frame \o spill
           x == After(carry, s)
<1>4. Streams(x, t)
  <2>1. s \in Seq(Granule) /\ t \in Seq(Granule) /\ OnTheWay = s \o t
    BY <1>0 DEF PackerTyped, OnTheWay
  <2>2. Chain(Message, carry, OnTheWay) /\ After(carry, OnTheWay) = <<>>
    BY <1>0 DEF Streams
  <2> HIDE DEF s, t
  <2>3. Chain(Message, carry, s \o t) /\ After(carry, s \o t) = <<>>
    BY <2>1, <2>2
  <2>4. Chain(Message, x, t)
    BY <2>1, <2>3, ChainJoined, Zenon DEF Granule
  <2>5. After(x, t) = <<>>
    BY <2>1, <2>3, AfterJoined
  <2> QED BY <2>4, <2>5 DEF Streams
<1> HIDE DEF x
<1>5. PackCycle(Begun) \in Packing(x, Begun)
  <2> DEFINE b == Begun
  <2>1. /\ b \in PackState /\ Len(b.frame) <= FlitGranules
        /\ b.spill # <<>> => b.frame = <<>> \/ Len(b.frame) = FlitGranules
        /\ SlotsTyped(b) /\ Streams(x, b.frame \o b.spill)
    BY <1>0, <1>2, <1>3, <1>4 DEF PackerTyped, SlotsTyped
  <2> HIDE DEF b
  <2>2. PackCycle(b) \in Packing(x, b)
    BY <2>1, PackCycleKeeps
  <2> QED BY <2>2 DEF b
<1> QED BY <1>2, <1>5 DEF Packed, Begun, x

-----------------------------------------------------------------------------
\* One edge: the frame in the output register arrives

LEMMA FrameArrives ==
  ASSUME PathInv, NEW taken \in BOOLEAN, taken = (txReady /\ output # <<>>),
         output = <<>> \/ taken,
         \/ taken /\ Arrive(Head(output))
         \/ ~taken /\ UNCHANGED <<farVars, peerCredit>>
  PROVE  /\ carry' = After(carry, Sending) /\ ~refused'
         /\ decoded' = [c \in ReqCell |-> Cat(decoded[c], OfCell(Ends(Sending), c))]
<1>1. /\ ~refused /\ decoded \in [ReqCell -> Seq(What)] /\ OutputWhole
      /\ Streams(carry, OnTheWay)
  BY DEF PathInv, MessagesInv, CreditsInv, CreditsTyped
<1>2. CASE taken
  <2> DEFINE s == Sending
             d == Decoded(carry, s)
  <2>1. output # <<>> /\ s = Head(output).parts
    BY <1>2, Zenon DEF Sending
  <2>2. /\ carry' = d.carry /\ refused' = (refused \/ d.refused)
        /\ decoded' = [c \in ReqCell |-> decoded[c] \o OfCell(d.messages, c)]
    BY <1>2, <2>1, Zenon DEF Arrive
  <2>3. Chain(Message, carry, s)
    <3> DEFINE t == frame \o spill
    <3>1. s \in Seq(Granule) /\ t \in Seq(Granule) /\ OnTheWay = s \o t
      BY DEF PathInv, MessagesInv, PackerTyped, OutputWhole, OnTheWay
    <3>2. Chain(Message, carry, OnTheWay)
      BY <1>1 DEF Streams
    <3> HIDE DEF s, t
    <3>3. Chain(Message, carry, s \o t)
      BY <3>1, <3>2
    <3> QED BY <3>1, <3>3, ChainJoined DEF Granule
  <2>4. Len(s) <= FlitGranules /\ (Len(s) < FlitGranules => After(carry, s) = <<>>)
    BY <1>1, <2>1 DEF OutputWhole
  <2>5. d = Decoding(After(carry, s), Ends(s))
    <3> HIDE DEF s
    <3> QED BY <2>3, <2>4, DecodedIs
  <2>6. d.carry = After(carry, s) /\ d.messages = Ends(s) /\ d.refused = FALSE
    BY <2>5 DEF Decoding
  <2> HIDE DEF s, d
  <2>7. ~refused'
    BY <1>1, <2>2, <2>6, Zenon
  <2>8. decoded' = [c \in ReqCell |-> Cat(decoded[c], OfCell(Ends(s), c))]
    BY <2>2, <2>6, Zenon DEF Cat
  <2> QED BY <2>2, <2>6, <2>7, <2>8, Zenon DEF s
<1>3. CASE ~taken
  <2>1. output = <<>> /\ UNCHANGED farVars
    BY <1>3
  <2>2. Sending = <<>> /\ carry' = carry /\ decoded' = decoded /\ refused' = refused
    BY <2>1 DEF Sending, farVars
  <2>3. After(carry, <<>>) = carry
    BY ChainEmpty
  <2>4. \A c \in ReqCell : Cat(decoded[c], OfCell(Ends(<<>>), c)) = decoded[c]
    <3>1. \A c \in ReqCell : OfCell(Ends(<<>>), c) = <<>>
      BY EndsEmpty, OfCellEmpty
    <3>2. \A c \in ReqCell : Cat(decoded[c], <<>>) = decoded[c]
      <4>1. ASSUME NEW c \in ReqCell PROVE Cat(decoded[c], <<>>) = decoded[c]
        <5>1. decoded[c] \in Seq(What)
          BY <1>1
        <5> QED BY <5>1, NothingJoined
      <4> QED BY <4>1
    <3> QED BY <3>1, <3>2
  <2>5. decoded = [c \in ReqCell |-> decoded[c]]
    BY <1>1
  <2>6. [c \in ReqCell |-> Cat(decoded[c], OfCell(Ends(<<>>), c))] = [c \in ReqCell |-> decoded[c]]
    BY <2>4
  <2>7. decoded' = [c \in ReqCell |-> Cat(decoded[c], OfCell(Ends(Sending), c))]
    BY <2>2, <2>5, <2>6, Zenon
  <2>8. ~refused'
    BY <1>1, <2>2, Zenon
  <2> QED BY <2>2, <2>3, <2>7, <2>8, Zenon
<1> QED BY <1>2, <1>3

\* What becomes of the frame under construction.
LEMMA DecideIs ==
  ASSUME NEW p, Decide(p)
  PROVE  \/ frame' = <<>> /\ output' # <<>> /\ Sending' = p.frame
         \/ /\ frame' = p.frame /\ output' = <<>> /\ Sending' = <<>>
            /\ p.frame = <<>> \/ Room(p.frame) # 0
         \/ /\ frame' = <<>> /\ output' # <<>> /\ Sending' = CrdtGrant
            /\ p.frame = <<>>
<1>1. ASSUME NEW parts, NEW grant, Flush(parts, grant)
      PROVE  frame' = <<>> /\ output' # <<>> /\ Sending' = parts
  <2>1. frame' = <<>> /\ output' = << [parts |-> parts, grant |-> grant] >>
    BY <1>1 DEF Flush
  <2> QED BY <2>1 DEF Sending
<1>2. CASE FlushWithHeader(p)
  <2>1. \E grant : Flush(p.frame, grant)
    BY <1>2, Zenon DEF FlushWithHeader
  <2> QED BY <1>1, <2>1
<1>3. CASE ~MayFlush(p) /\ Keep(p) /\ output' = <<>>
  <2>1. Room(p.frame) # 0
    BY <1>3 DEF MayFlush
  <2> QED BY <1>3, <2>1 DEF Keep, Sending
<1>4. CASE p.frame = <<>> /\ DedicatedGrant
  BY <1>1, <1>4 DEF DedicatedGrant
<1>5. CASE p.frame = <<>> /\ Keep(p) /\ output' = <<>>
  BY <1>5 DEF Keep, Sending
<1> QED BY <1>2, <1>3, <1>4, <1>5 DEF Decide, CountsIdle

LEMMA CatIs ==
  ASSUME NEW W, NEW s \in Seq(W), NEW t \in Seq(W), NEW u \in Seq(W)
  PROVE  Cat(s, t) \in Seq(W) /\ Cat(Cat(s, t), u) = Cat(s, Cat(t, u))
<1>1. Associative(Seq(W))
  BY SequencesAssociate
<1> QED BY <1>1 DEF Associative

LEMMA CrdtGrantIs ==
  /\ CrdtGrant \in Seq(Granule) /\ Len(CrdtGrant) <= FlitGranules
  /\ Chain(Message, <<>>, CrdtGrant) /\ After(<<>>, CrdtGrant) = <<>>
  /\ \A c \in ReqCell : OfCell(Ends(CrdtGrant), c) = <<>>
<1> DEFINE msg == << <<0, "CrdtGrant">>, <<0, 0>> >>
           n   == Granules["CrdtGrant"]
<1>1. msg \in Message
  BY Constants DEF Message, What
<1>2. n \in Nat \ {0} /\ n <= FlitGranules
  BY RequestPathAssumption
<1>3. CrdtGrant = PartsOf(msg, n)
  BY DEF CrdtGrant
<1>4. ASSUME NEW c \in ReqCell PROVE msg[1] # c
  <2>1. c[2] # "CrdtGrant"
    BY Constants DEF ReqKind
  <2> QED BY <2>1
<1> HIDE DEF msg, n
<1>5. /\ CrdtGrant \in Seq(Granule) /\ Len(CrdtGrant) = n
      /\ Chain(Message, <<>>, CrdtGrant) /\ After(<<>>, CrdtGrant) = <<>>
  BY <1>1, <1>2, <1>3, PartsChain DEF Granule
<1>6. Ends(CrdtGrant) = <<msg>>
  BY <1>2, <1>3, EndsOfParts
<1>7. ASSUME NEW c \in ReqCell PROVE OfCell(Ends(CrdtGrant), c) = <<>>
  <2>1. <<>> \in Seq(Message) /\ <<msg>> = Append(<<>>, msg)
    OBVIOUS
  <2>2. OfCell(Append(<<>>, msg), c)
          = IF msg[1] = c THEN Append(OfCell(<<>>, c), msg[2]) ELSE OfCell(<<>>, c)
    BY <1>1, <2>1, OfCellAppend, Zenon
  <2> QED BY <1>4, <1>6, <2>1, <2>2, OfCellEmpty
<1> QED BY <1>2, <1>5, <1>7

\* What is on its way when the output register was free: what the packer has,
\* or a CrdtGrant if that is nothing.
LEMMA SentOn ==
  ASSUME NEW x, NEW b, NEW p \in Packing(x, b), Decide(p), spill' = p.spill
  PROVE  /\ frame' \in Seq(Granule) /\ spill' \in Seq(Granule) /\ Len(frame') <= FlitGranules
         /\ spill' # <<>> => frame' = <<>> \/ Len(frame') = FlitGranules
         /\ Sending' \in Seq(Granule) /\ Len(Sending') <= FlitGranules
         /\ output' # <<>> => (Len(Sending') < FlitGranules => After(x, Sending') = <<>>)
         /\ Streams(x, OnTheWay')
         /\ \A c \in ReqCell : OfCell(Ends(OnTheWay'), c) = Cut(p, c)
<1> DEFINE f == p.frame
           s == p.spill
<1>1. /\ f \in Seq(Granule) /\ s \in Seq(Granule) /\ Len(f) \in Nat /\ Len(f) <= FlitGranules
      /\ Len(f) < FlitGranules => s = <<>>
  BY DEF Packing, PackState, Framed
<1>2. Streams(x, f \o s) /\ \A c \in ReqCell : Cut(p, c) = OfCell(Ends(f \o s), c)
  BY DEF Packing, Cut
<1>3. OnTheWay' = Sending' \o (frame' \o spill')
  BY DEF OnTheWay
<1>4. /\ f \o s \in Seq(Granule) /\ <<>> \o (f \o s) = f \o s
      /\ f \o (<<>> \o s) = f \o s /\ <<>> \in Seq(Granule) /\ f \o <<>> = f
      /\ <<>> \o <<>> = <<>>
  BY <1>1
<1>5. 0 < FlitGranules /\ FlitGranules \in Nat /\ Len(<<>>) = 0
  BY FramesAssumption
<1> HIDE DEF f, s
<1>6. CASE frame' = <<>> /\ output' # <<>> /\ Sending' = f
  <2>1. OnTheWay' = f \o s
    BY <1>3, <1>4, <1>6 DEF s
  <2>2. Len(f) < FlitGranules => After(x, f) = <<>>
    BY <1>1, <1>2, <1>4 DEF Streams
  <2>3. /\ frame' \in Seq(Granule) /\ spill' \in Seq(Granule) /\ Len(frame') <= FlitGranules
        /\ spill' # <<>> => frame' = <<>> \/ Len(frame') = FlitGranules
    BY <1>1, <1>4, <1>5, <1>6 DEF s
  <2>4. /\ Sending' \in Seq(Granule) /\ Len(Sending') <= FlitGranules
        /\ output' # <<>> => (Len(Sending') < FlitGranules => After(x, Sending') = <<>>)
    BY <1>1, <1>6, <2>2
  <2> QED BY <1>2, <2>1, <2>3, <2>4, Zenon
<1>7. CASE frame' = f /\ output' = <<>> /\ Sending' = <<>>
  <2>1. OnTheWay' = f \o s
    BY <1>3, <1>4, <1>7 DEF s
  <2>2. s # <<>> => Len(f) = FlitGranules
    BY <1>1, <1>5
  <2>3. /\ frame' \in Seq(Granule) /\ spill' \in Seq(Granule) /\ Len(frame') <= FlitGranules
        /\ spill' # <<>> => frame' = <<>> \/ Len(frame') = FlitGranules
    BY <1>1, <1>7, <2>2 DEF s
  <2>4. /\ Sending' \in Seq(Granule) /\ Len(Sending') <= FlitGranules
        /\ output' # <<>> => (Len(Sending') < FlitGranules => After(x, Sending') = <<>>)
    BY <1>4, <1>5, <1>7
  <2> QED BY <1>2, <2>1, <2>3, <2>4, Zenon
<1>8. CASE frame' = <<>> /\ output' # <<>> /\ Sending' = CrdtGrant /\ f = <<>>
  <2>1. s = <<>>
    BY <1>1, <1>5, <1>8
  <2>2. x = <<>>
    <3>1. After(x, <<>>) = <<>>
      BY <1>2, <1>4, <1>8, <2>1 DEF Streams
    <3> QED BY <3>1, ChainEmpty
  <2>3. OnTheWay' = CrdtGrant
    <3>1. OnTheWay' = CrdtGrant \o <<>>
      BY <1>3, <1>4, <1>8, <2>1 DEF s
    <3> QED BY <3>1, CrdtGrantIs
  <2>4. \A c \in ReqCell : Cut(p, c) = <<>>
    BY <1>2, <1>4, <1>8, <2>1, EndsEmpty, OfCellEmpty
  <2>5. Streams(x, CrdtGrant)
    BY <2>2, CrdtGrantIs DEF Streams
  <2>6. /\ frame' \in Seq(Granule) /\ spill' \in Seq(Granule) /\ Len(frame') <= FlitGranules
        /\ spill' # <<>> => frame' = <<>> \/ Len(frame') = FlitGranules
    BY <1>1, <1>4, <1>5, <1>8 DEF s
  <2>7. /\ Sending' \in Seq(Granule) /\ Len(Sending') <= FlitGranules
        /\ output' # <<>> => (Len(Sending') < FlitGranules => After(x, Sending') = <<>>)
    BY <1>8, <2>2, CrdtGrantIs
  <2>8. \A c \in ReqCell : OfCell(Ends(OnTheWay'), c) = Cut(p, c)
    BY <2>3, <2>4, CrdtGrantIs, Zenon
  <2> QED BY <2>3, <2>5, <2>6, <2>7, <2>8, Zenon
<1> QED BY <1>6, <1>7, <1>8, DecideIs DEF f

\* What reaches the decoder at an edge or is on its way after it, and how the
\* packer's part of the state changes.
Delivers(p) ==
  /\ PackerTyped' /\ OutputWhole' /\ Streams(carry', OnTheWay') /\ ~refused'
  /\ available' = p.available /\ staged' = p.staged
  /\ \A c \in ReqCell :
       /\ OfCell(Ends(OnTheWay'), c) \in Seq(What)
       /\ Cat(decoded'[c], OfCell(Ends(OnTheWay'), c))
            = Cat(decoded[c], Cat(OfCell(Ends(Sending), c), Cut(p, c)))
       /\ \E s \in Seq(What) : decoded'[c] = Cat(decoded[c], s)
  /\ decoded' \in [ReqCell -> Seq(What)]

LEMMA PackerDelivers ==
  ASSUME PathInv, NEW p, p = Packed, NEW taken \in BOOLEAN, taken = (txReady /\ output # <<>>),
         Packer(p, taken),
         \/ taken /\ Arrive(Head(output))
         \/ ~taken /\ UNCHANGED <<farVars, peerCredit>>
  PROVE  Delivers(p)
<1> DEFINE x == After(carry, Sending)
<1>1. p \in Packing(x, Begun)
  BY PackedIs
<1>2. /\ p \in PackState /\ Framed(p) /\ Streams(x, p.frame \o p.spill) /\ SlotsTyped(p)
  BY <1>1 DEF Packing
<1>3. /\ available' = p.available /\ staged' = p.staged /\ spill' = p.spill
      /\ nextRp' = p.nextRp
  BY DEF Packer
<1>4. /\ staged' \in [ReqCell -> Seq(What)] /\ \A c \in ReqCell : Len(staged'[c]) <= 1
      /\ nextRp' \in Rp
  BY <1>2, <1>3 DEF PackState, SlotsTyped
<1>5. ASSUME NEW c \in ReqCell
      PROVE  /\ decoded[c] \in Seq(What) /\ OfCell(Ends(Sending), c) \in Seq(What)
             /\ Cut(p, c) \in Seq(What)
             /\ OfCell(Ends(Sending \o (p.frame \o p.spill)), c)
                  = Cat(OfCell(Ends(Sending), c), Cut(p, c))
  <2> DEFINE s == Sending
             t == p.frame \o p.spill
  <2>1. decoded[c] \in Seq(What) /\ OfCell(Ends(s), c) \in Seq(What) /\ s \in Seq(Granule)
        /\ Ends(s) \in Seq(Message)
    BY PathTyped DEF PathInv, CreditsInv, CreditsTyped
  <2>2. t \in Seq(Granule)
    BY <1>2 DEF PackState
  <2>3. Cut(p, c) = OfCell(Ends(t), c)
    BY DEF Cut
  <2> HIDE DEF s, t
  <2>4. Ends(t) \in Seq(Message) /\ Ends(s \o t) = Ends(s) \o Ends(t)
    BY <2>1, <2>2, EndsIsSeq, EndsJoined DEF Granule
  <2>5. OfCell(Ends(t), c) \in Seq(What)
    BY <2>4, OfCellIsSeq, Zenon DEF Message
  <2>6. OfCell(Cat(Ends(s), Ends(t)), c) = Cat(OfCell(Ends(s), c), OfCell(Ends(t), c))
    <3>1. Joins(Seq(Message), c)
      BY CellsJoin, Zenon DEF Message
    <3> QED BY <2>1, <2>4, <3>1 DEF Joins
  <2>7. OfCell(Ends(s \o t), c) = Cat(OfCell(Ends(s), c), OfCell(Ends(t), c))
    BY <2>4, <2>6, Zenon DEF Cat
  <2> QED BY <2>1, <2>3, <2>5, <2>7, Zenon DEF s, t
<1>6. Associative(Seq(What)) /\ <<>> \in Seq(What)
  BY SequencesAssociate
<1>7. CASE output = <<>> \/ taken
  <2>1. /\ carry' = x /\ ~refused'
        /\ decoded' = [c \in ReqCell |-> Cat(decoded[c], OfCell(Ends(Sending), c))]
    BY <1>7, FrameArrives, Zenon
  <2>2. Decide(p)
    BY <1>7 DEF Packer
  <2>3. /\ frame' \in Seq(Granule) /\ spill' \in Seq(Granule) /\ Len(frame') <= FlitGranules
        /\ spill' # <<>> => frame' = <<>> \/ Len(frame') = FlitGranules
        /\ Sending' \in Seq(Granule) /\ Len(Sending') <= FlitGranules
        /\ output' # <<>> => (Len(Sending') < FlitGranules => After(x, Sending') = <<>>)
        /\ Streams(x, OnTheWay')
        /\ \A c \in ReqCell : OfCell(Ends(OnTheWay'), c) = Cut(p, c)
    BY <1>1, <1>3, <2>2, SentOn
  <2>4. PackerTyped'
    BY <1>4, <2>3 DEF PackerTyped
  <2>5. OutputWhole' /\ Streams(carry', OnTheWay')
    BY <2>1, <2>3 DEF OutputWhole
  <2>6. ASSUME NEW c \in ReqCell
        PROVE  /\ decoded'[c] = Cat(decoded[c], OfCell(Ends(Sending), c))
               /\ decoded'[c] \in Seq(What)
               /\ Cat(decoded'[c], Cut(p, c))
                    = Cat(decoded[c], Cat(OfCell(Ends(Sending), c), Cut(p, c)))
    <3>1. decoded'[c] = Cat(decoded[c], OfCell(Ends(Sending), c))
      BY <2>1
    <3> DEFINE d == decoded[c]
               e == OfCell(Ends(Sending), c)
               k == Cut(p, c)
    <3>2. d \in Seq(What) /\ e \in Seq(What) /\ k \in Seq(What)
      BY <1>5
    <3> HIDE DEF d, e, k
    <3>3. Cat(d, e) \in Seq(What) /\ Cat(Cat(d, e), k) = Cat(d, Cat(e, k))
      BY <3>2, CatIs
    <3> QED BY <3>1, <3>3 DEF d, e, k
  <2>7. decoded' \in [ReqCell -> Seq(What)]
    BY <2>1, <2>6
  <2> QED BY <1>3, <1>5, <2>1, <2>3, <2>4, <2>5, <2>6, <2>7 DEF Delivers
<1>8. CASE output # <<>> /\ ~taken
  <2>1. Keep(p) /\ output' = output /\ UNCHANGED farVars
    BY <1>8 DEF Packer
  <2>2. /\ frame' = p.frame /\ Sending' = Sending /\ carry' = carry /\ decoded' = decoded
        /\ refused' = refused
    BY <2>1 DEF Keep, Sending, farVars
  <2>3. OnTheWay' = Sending \o (p.frame \o p.spill)
    BY <1>3, <2>2 DEF OnTheWay
  <2> DEFINE s == Sending
             f == p.frame
             i == p.spill
             t == f \o i
  <2>4. /\ s \in Seq(Granule) /\ f \in Seq(Granule) /\ i \in Seq(Granule)
        /\ t \in Seq(Granule) /\ OutputWhole /\ ~refused
        /\ Len(f) \in Nat /\ Len(f) <= FlitGranules /\ (Len(f) < FlitGranules => i = <<>>)
        /\ FlitGranules \in Nat
    BY <1>2, FramesAssumption DEF PackState, Framed, PathInv, MessagesInv, OutputWhole
  <2>5. PackerTyped'
    <3>1. i # <<>> => Len(f) = FlitGranules
      BY <2>4
    <3> QED BY <1>3, <1>4, <2>2, <2>4, <3>1 DEF PackerTyped
  <2>6. OutputWhole'
    BY <2>1, <2>2, <2>4 DEF OutputWhole
  <2>7. Streams(carry', OnTheWay')
    <3>1. Chain(Message, x, t) /\ After(x, t) = <<>>
      BY <1>2 DEF Streams
    <3>2. Chain(Message, carry, s)
      <4> DEFINE u == frame \o spill
      <4>1. u \in Seq(Granule) /\ OnTheWay = s \o u /\ Chain(Message, carry, OnTheWay)
        BY DEF PathInv, MessagesInv, PackerTyped, OnTheWay, Streams
      <4> HIDE DEF s, u
      <4>2. Chain(Message, carry, s \o u)
        BY <4>1
      <4> QED BY <2>4, <4>1, <4>2, ChainJoined DEF Granule
    <3> HIDE DEF s, t
    <3>3. After(carry, s) = x
      BY DEF s
    <3> HIDE DEF x
    <3>4. Chain(Message, carry, s \o t)
      BY <2>4, <3>1, <3>2, <3>3, ChainJoined DEF Granule
    <3>5. After(carry, s \o t) = <<>>
      BY <2>4, <3>1, <3>3, AfterJoined
    <3>6. OnTheWay' = s \o t /\ carry' = carry
      BY <2>2, <2>3, Zenon DEF s, t
    <3> QED BY <3>4, <3>5, <3>6, Zenon DEF Streams
  <2> HIDE DEF x, s, f, i, t
  <2>8. ASSUME NEW c \in ReqCell
        PROVE  /\ OfCell(Ends(OnTheWay'), c) = Cat(OfCell(Ends(Sending), c), Cut(p, c))
               /\ OfCell(Ends(OnTheWay'), c) \in Seq(What)
               /\ decoded'[c] = decoded[c] /\ decoded'[c] = Cat(decoded[c], <<>>)
    <3>1. OfCell(Ends(OnTheWay'), c) = Cat(OfCell(Ends(Sending), c), Cut(p, c))
      BY <1>5, <2>3, Zenon
    <3>2. Cat(decoded[c], <<>>) = decoded[c]
      BY <1>5, NothingJoined
    <3> QED BY <1>5, <1>6, <2>2, <3>1, <3>2 DEF Associative
  <2>9. ~refused' /\ decoded' \in [ReqCell -> Seq(What)]
    BY <2>2, <2>4 DEF PathInv, CreditsInv, CreditsTyped
  <2>10. ASSUME NEW c \in ReqCell
         PROVE  /\ OfCell(Ends(OnTheWay'), c) \in Seq(What)
                /\ Cat(decoded'[c], OfCell(Ends(OnTheWay'), c))
                     = Cat(decoded[c], Cat(OfCell(Ends(Sending), c), Cut(p, c)))
                /\ \E e \in Seq(What) : decoded'[c] = Cat(decoded[c], e)
    BY <1>6, <2>8, Zenon
  <2> QED BY <1>3, <2>5, <2>6, <2>7, <2>9, <2>10, Zenon DEF Delivers
<1> QED BY <1>7, <1>8

\* A list of four is the first and the rest.
LEMMA Grouped ==
  ASSUME NEW W, NEW e \in Seq(W), NEW a \in Seq(W), NEW b \in Seq(W), NEW c \in Seq(W)
  PROVE  /\ Cat(Cat(Cat(e, a), b), c) = Cat(e, Cat(a, Cat(b, c)))
         /\ Cat(Cat(e, a), b) \in Seq(W)
<1> DEFINE m == Cat(e, a)
           n == Cat(b, c)
<1>1. m \in Seq(W) /\ n \in Seq(W) /\ Cat(Cat(e, a), n) = Cat(e, Cat(a, n))
  BY CatIs
<1> HIDE DEF m
<1>2. Cat(m, b) \in Seq(W) /\ Cat(Cat(m, b), c) = Cat(m, n)
  BY <1>1, CatIs
<1> QED BY <1>1, <1>2 DEF m

LEMMA SizesJoin ==
  ASSUME NEW c \in ReqCell, NEW s \in Seq(What), NEW t \in Seq(What)
  PROVE  /\ SizeOfAll(c, Cat(s, t)) = SizeOfAll(c, s) + SizeOfAll(c, t)
         /\ SizeOfAll(c, s) \in Nat /\ SizeOfAll(c, t) \in Nat
BY SizeOfJoined, SizeOfAllIsNat DEF Cat

\* What an edge does to the path.
LEMMA EdgeIs ==
  ASSUME PathInv, Edge
  PROVE  \E aw, w, ar \in BOOLEAN :
           /\ Threads(aw, w, ar)
           /\ fifo' = [c \in ReqCell |-> Packed.fifo[c] \o Written(aw, w, ar, c)]
           /\ Delivers(Packed)
           /\ updates' = [c \in ReqCell |-> 0] /\ granted' = granted
<1> DEFINE taken == txReady /\ output # <<>>
<1>1. PICK aw \in BOOLEAN, w \in BOOLEAN, ar \in BOOLEAN :
        /\ AwThread(aw) /\ WThread(w) /\ ArThread(ar) /\ routes' = Routes(aw, w)
        /\ fifo' = [c \in ReqCell |-> Packed.fifo[c] \o Written(aw, w, ar, c)]
        /\ Packer(Packed, taken)
        /\ updates' = [c \in ReqCell |-> 0] /\ granted' = granted
        /\ \/ taken /\ Arrive(Head(output))
           \/ ~taken /\ UNCHANGED <<farVars, peerCredit>>
  BY ZenonT(40) DEF Edge
<1>2. Delivers(Packed)
  <2>1. taken = (txReady /\ output # <<>>) /\ taken \in BOOLEAN
    OBVIOUS
  <2> HIDE DEF taken
  <2> QED BY <1>1, <2>1, PackerDelivers, Zenon
<1> QED BY <1>1, <1>2, Zenon DEF Threads

LEMMA EdgeKeepsPath == PathInv /\ Edge => PathInv'
<1> SUFFICES ASSUME PathInv, Edge PROVE PathInv'
  OBVIOUS
<1> DEFINE p == Packed
<1>1. PICK aw \in BOOLEAN, w \in BOOLEAN, ar \in BOOLEAN :
        /\ Threads(aw, w, ar)
        /\ fifo' = [c \in ReqCell |-> p.fifo[c] \o Written(aw, w, ar, c)]
        /\ Delivers(p)
        /\ updates' = [c \in ReqCell |-> 0] /\ granted' = granted
  BY EdgeIs, Zenon
<1>2. /\ p \in PackState /\ Begun \in PackState
      /\ \A c \in ReqCell : /\ Held(p, c) = Held(Begun, c) /\ Worth(p, c) = Worth(Begun, c)
                            /\ Len(p.fifo[c]) <= Len(fifo[c])
  <2>1. p \in PackState /\ Moves(Begun, p) /\ Begun \in PackState
    BY PackedIs DEF Packing
  <2>2. Begun.fifo = fifo
    BY DEF Begun
  <2> QED BY <2>1, <2>2 DEF Moves
<1> HIDE DEF p
<1>3. /\ p.fifo \in [ReqCell -> Seq(What)] /\ p.staged \in [ReqCell -> Seq(What)]
      /\ p.available \in [ReqCell -> Nat]
  BY <1>2 DEF PackState
<1>4. ChannelInv /\ CreditsTyped /\ FifosTyped /\ PackerTyped
  BY DEF PathInv, MessagesInv, ChannelInv, CreditsInv
<1>5. ChannelInv'
  <2>1. ChannelsTyped' /\ RoutesFollow'
    BY <1>1, <1>4, ThreadsFollow
  <2>2. ReadyHasRoom' /\ FifosTyped'
    <3> DEFINE f == p.fifo
    <3>1. /\ f \in [ReqCell -> Seq(What)] /\ \A c \in ReqCell : Len(f[c]) <= Len(fifo[c])
          /\ fifo' = [c \in ReqCell |-> f[c] \o Written(aw, w, ar, c)]
      BY <1>1, <1>2, <1>3
    <3> HIDE DEF f
    <3> QED BY <1>1, <1>4, <3>1, RoomIsKept, ZenonT(40)
  <2> QED BY <2>1, <2>2 DEF ChannelInv
\* The lists of one cell
<1>6. ASSUME NEW c \in ReqCell
      PROVE  /\ decoded[c] \in Seq(What) /\ OfCell(Ends(Sending), c) \in Seq(What)
             /\ Cut(Begun, c) \in Seq(What) /\ Cut(p, c) \in Seq(What)
             /\ staged[c] \in Seq(What) /\ fifo[c] \in Seq(What)
             /\ p.staged[c] \in Seq(What) /\ p.fifo[c] \in Seq(What)
             /\ OfCell(Ends(OnTheWay), c) = Cat(OfCell(Ends(Sending), c), Cut(Begun, c))
             /\ Cat(Cut(p, c), Cat(p.staged[c], p.fifo[c]))
                  = Cat(Cut(Begun, c), Cat(staged[c], fifo[c]))
             /\ p.available[c] + SizeOfAll(c, Cut(p, c))
                  = available[c] + updates[c] + SizeOfAll(c, Cut(Begun, c))
  <2>1. /\ Begun.frame = frame /\ Begun.spill = spill /\ Begun.staged = staged
        /\ Begun.fifo = fifo /\ Begun.available = Supplied
    BY DEF Begun
  <2>2. Cut(Begun, c) = OfCell(Ends(frame \o spill), c)
    BY <2>1 DEF Cut
  <2>3. Held(p, c) = Held(Begun, c) /\ Worth(p, c) = Worth(Begun, c)
    BY <1>2
  <2>4. /\ Cat(Cut(p, c), Cat(p.staged[c], p.fifo[c]))
             = Cat(Cut(Begun, c), Cat(staged[c], fifo[c]))
    BY <2>1, <2>3 DEF Held
  <2>5. p.available[c] + SizeOfAll(c, Cut(p, c))
          = available[c] + updates[c] + SizeOfAll(c, Cut(Begun, c))
    BY <2>1, <2>3, SuppliedIs DEF Worth
  <2>6. Cut(p, c) \in Seq(What)
    <3>1. p.frame \in Seq(Granule) /\ p.spill \in Seq(Granule)
      BY <1>2 DEF PackState
    <3>2. p.frame \o p.spill \in Seq(Granule)
      BY <3>1
    <3>3. Ends(p.frame \o p.spill) \in Seq(Message)
      BY <3>2, EndsIsSeq, Zenon DEF Granule
    <3> QED BY <3>3, OfCellIsSeq, Zenon DEF Cut, Message
  <2>7. /\ decoded[c] \in Seq(What) /\ staged[c] \in Seq(What) /\ fifo[c] \in Seq(What)
        /\ p.staged[c] \in Seq(What) /\ p.fifo[c] \in Seq(What)
    BY <1>3, <1>4 DEF CreditsTyped, FifosTyped, PackerTyped
  <2> QED BY <2>2, <2>4, <2>5, <2>6, <2>7, PathTyped
<1>7. ASSUME NEW c \in ReqCell
      PROVE  Accepted(c)' = ((decoded'[c] \o OfCell(Ends(OnTheWay'), c)) \o staged'[c]) \o fifo'[c]
  <2> DEFINE d == decoded[c]
             s == OfCell(Ends(Sending), c)
             f == Cut(Begun, c)
             t == staged[c]
             q == fifo[c]
             g == Cut(p, c)
             u == p.staged[c]
             r == p.fifo[c]
             v == Written(aw, w, ar, c)
  <2>1. Accepted(c)' = Cat(Accepted(c), v) /\ v \in Seq(What)
    BY <1>1, <1>4, AcceptedGrows DEF Cat
  <2>2. Accepted(c) = ((d \o OfCell(Ends(OnTheWay), c)) \o t) \o q
    BY Zenon DEF PathInv, MessagesInv
  <2>3. Accepted(c) = Cat(Cat(Cat(d, OfCell(Ends(OnTheWay), c)), t), q)
    BY <2>2, Zenon DEF Cat
  <2>4. OfCell(Ends(OnTheWay), c) = Cat(s, f)
    BY <1>6
  <2>5. /\ Cat(decoded'[c], OfCell(Ends(OnTheWay'), c)) = Cat(d, Cat(s, g))
        /\ staged' = p.staged
    BY <1>1 DEF Delivers
  <2>6. fifo'[c] = Cat(r, v)
    BY <1>1 DEF Cat
  <2>7. /\ d \in Seq(What) /\ s \in Seq(What) /\ f \in Seq(What) /\ t \in Seq(What)
        /\ q \in Seq(What) /\ g \in Seq(What) /\ u \in Seq(What) /\ r \in Seq(What)
        /\ Cat(g, Cat(u, r)) = Cat(f, Cat(t, q))
    BY <1>6
  <2> HIDE DEF d, s, f, t, q, g, u, r, v
  <2> DEFINE e == Cat(d, s)
             m == Cat(Cat(e, g), u)
  <2>8. e \in Seq(What) /\ Cat(d, Cat(s, f)) = Cat(e, f) /\ Cat(d, Cat(s, g)) = Cat(e, g)
    <3>1. Cat(d, s) \in Seq(What) /\ Cat(Cat(d, s), f) = Cat(d, Cat(s, f))
      BY <2>7, CatIs
    <3>2. Cat(Cat(d, s), g) = Cat(d, Cat(s, g))
      BY <2>7, CatIs
    <3> QED BY <3>1, <3>2
  <2> HIDE DEF e
  <2>9. Cat(Cat(Cat(Cat(d, Cat(s, f)), t), q), v) = Cat(Cat(Cat(d, Cat(s, g)), u), Cat(r, v))
    <3>1. Cat(Cat(Cat(e, f), t), q) = Cat(e, Cat(f, Cat(t, q)))
      BY <2>7, <2>8, Grouped
    <3>2. Cat(m, r) = Cat(e, Cat(g, Cat(u, r))) /\ m \in Seq(What)
      BY <2>7, <2>8, Grouped
    <3> HIDE DEF m
    <3>3. Cat(Cat(m, r), v) = Cat(m, Cat(r, v))
      BY <2>1, <2>7, <3>2, CatIs
    <3> QED BY <2>7, <2>8, <3>1, <3>2, <3>3 DEF m
  <2>10. Accepted(c)' = Cat(Cat(Cat(d, Cat(s, g)), u), Cat(r, v))
    BY <2>1, <2>3, <2>4, <2>9, Zenon
  <2>11. Accepted(c)'
           = Cat(Cat(Cat(decoded'[c], OfCell(Ends(OnTheWay'), c)), staged'[c]), fifo'[c])
    BY <2>5, <2>6, <2>10, Zenon DEF u
  <2> QED BY <2>11, Zenon DEF Cat
<1>8. MessagesInv'
  BY <1>1, <1>5, <1>7, Zenon DEF MessagesInv, Delivers
<1>9. CreditsTyped'
  <2>1. updates' \in [ReqCell -> Nat] /\ granted' \in [ReqCell -> Nat]
    BY <1>1, <1>4 DEF CreditsTyped
  <2>2. available' = p.available /\ decoded' \in [ReqCell -> Seq(What)]
    BY <1>1 DEF Delivers
  <2> QED BY <1>3, <2>1, <2>2 DEF CreditsTyped
<1>10. GrantedInBounds'
  <2>1. ASSUME NEW c \in ReqCell
        PROVE  granted'[c] <= PeerCapacity[c] + SizeOfAll(c, decoded'[c])
    <3>1. PICK s \in Seq(What) : decoded'[c] = Cat(decoded[c], s)
      BY <1>1 DEF Delivers
    <3>2. /\ SizeOfAll(c, decoded'[c]) = SizeOfAll(c, decoded[c]) + SizeOfAll(c, s)
          /\ SizeOfAll(c, decoded[c]) \in Nat /\ SizeOfAll(c, s) \in Nat
      <4> DEFINE d == decoded[c]
      <4>1. d \in Seq(What)
        BY <1>6
      <4> HIDE DEF d
      <4>2. /\ SizeOfAll(c, Cat(d, s)) = SizeOfAll(c, d) + SizeOfAll(c, s)
            /\ SizeOfAll(c, d) \in Nat /\ SizeOfAll(c, s) \in Nat
        BY <4>1, SizesJoin
      <4> QED BY <3>1, <4>2, Zenon DEF d
    <3>3. granted[c] <= PeerCapacity[c] + SizeOfAll(c, decoded[c])
      BY DEF PathInv, CreditsInv, GrantedInBounds
    <3>4. granted'[c] = granted[c] /\ granted[c] \in Nat /\ PeerCapacity[c] \in Nat
      BY <1>1, <1>4, Constants DEF CreditsTyped
    <3> QED BY <3>2, <3>3, <3>4
  <2> QED BY <2>1 DEF GrantedInBounds
<1>11. PaysForMessages'
  <2>1. ASSUME NEW c \in ReqCell
        PROVE  granted'[c] = updates'[c] + available'[c]
                 + SizeOfAll(c, decoded'[c]) + SizeOfAll(c, OfCell(Ends(OnTheWay'), c))
    <3> DEFINE d == decoded[c]
               s == OfCell(Ends(Sending), c)
               f == Cut(Begun, c)
               g == Cut(p, c)
               e == decoded'[c]
               o == OfCell(Ends(OnTheWay'), c)
    <3>1. /\ Cat(e, o) = Cat(d, Cat(s, g)) /\ o \in Seq(What) /\ e \in Seq(What)
          /\ available'[c] = p.available[c] /\ updates'[c] = 0 /\ granted'[c] = granted[c]
      BY <1>1, <1>9 DEF Delivers, CreditsTyped
    <3>2. /\ d \in Seq(What) /\ s \in Seq(What) /\ f \in Seq(What) /\ g \in Seq(What)
          /\ OfCell(Ends(OnTheWay), c) = Cat(s, f)
          /\ p.available[c] + SizeOfAll(c, g) = available[c] + updates[c] + SizeOfAll(c, f)
      BY <1>6
    <3>3. granted[c] = updates[c] + available[c]
            + SizeOfAll(c, d) + SizeOfAll(c, OfCell(Ends(OnTheWay), c))
      BY DEF PathInv, CreditsInv, PaysForMessages
    <3>4. /\ p.available[c] \in Nat /\ available[c] \in Nat /\ updates[c] \in Nat
          /\ granted[c] \in Nat
      BY <1>3, <1>4 DEF CreditsTyped
    <3> HIDE DEF d, s, f, g, e, o
    <3>5. Cat(s, g) \in Seq(What) /\ Cat(s, f) \in Seq(What)
      BY <3>2, CatIs
    <3>6. /\ SizeOfAll(c, e) + SizeOfAll(c, o)
               = SizeOfAll(c, d) + (SizeOfAll(c, s) + SizeOfAll(c, g))
          /\ SizeOfAll(c, Cat(s, f)) = SizeOfAll(c, s) + SizeOfAll(c, f)
          /\ SizeOfAll(c, e) \in Nat /\ SizeOfAll(c, o) \in Nat /\ SizeOfAll(c, d) \in Nat
          /\ SizeOfAll(c, s) \in Nat /\ SizeOfAll(c, g) \in Nat /\ SizeOfAll(c, f) \in Nat
      BY <3>1, <3>2, <3>5, SizesJoin
    <3>7. granted'[c] = updates'[c] + available'[c] + SizeOfAll(c, e) + SizeOfAll(c, o)
      <4> DEFINE all == granted[c]
                 nu == updates[c]
                 na == available[c]
                 nb == p.available[c]
                 nd == SizeOfAll(c, d)
                 ns == SizeOfAll(c, s)
                 nf == SizeOfAll(c, f)
                 ng == SizeOfAll(c, g)
                 ne == SizeOfAll(c, e)
                 no == SizeOfAll(c, o)
      <4>1. /\ all \in Nat /\ nu \in Nat /\ na \in Nat /\ nb \in Nat
            /\ nd \in Nat /\ ns \in Nat /\ nf \in Nat /\ ng \in Nat
            /\ ne \in Nat /\ no \in Nat
        BY <3>4, <3>6
      <4>2. /\ ne + no = nd + (ns + ng)
            /\ all = nu + na + nd + (ns + nf)
            /\ nb + ng = na + nu + nf
        BY <3>2, <3>3, <3>6
      <4>3. granted'[c] = all /\ updates'[c] = 0 /\ available'[c] = nb
        BY <3>1
      <4> HIDE DEF all, nu, na, nb, nd, ns, nf, ng, ne, no
      <4>4. all = 0 + nb + ne + no
        BY ONLY <4>1, <4>2
      <4> QED BY <4>3, <4>4 DEF ne, no
    <3> QED BY <3>7 DEF e, o
  <2> QED BY <2>1 DEF PaysForMessages
<1> QED BY <1>8, <1>9, <1>10, <1>11 DEF PathInv, CreditsInv

-----------------------------------------------------------------------------
\* The surroundings, and the theorems

LEMMA MessagesRemain ==
  ASSUME MessagesInv, UNCHANGED <<channelVars, fifo, packVars, farVars>>
  PROVE  MessagesInv'
<1>1. /\ awReady' = awReady /\ wReady' = wReady /\ arReady' = arReady
      /\ awTaken' = awTaken /\ wTaken' = wTaken /\ arTaken' = arTaken
      /\ routes' = routes /\ route' = route /\ fifo' = fifo
      /\ staged' = staged /\ frame' = frame /\ spill' = spill /\ output' = output
      /\ nextRp' = nextRp
      /\ carry' = carry /\ decoded' = decoded /\ refused' = refused
  BY DEF channelVars, packVars, farVars
<1>2. ChannelInv'
  <2>1. ChannelsTyped'
    BY <1>1 DEF MessagesInv, ChannelInv, ChannelsTyped
  <2>2. RoutesFollow'
    <3>1. Current' = Current
      BY <1>1 DEF Current
    <3> QED BY <1>1, <3>1 DEF MessagesInv, ChannelInv, RoutesFollow
  <2>3. ReadyHasRoom' /\ FifosTyped'
    BY <1>1 DEF MessagesInv, ChannelInv, ReadyHasRoom, FifosTyped
  <2> QED BY <2>1, <2>2, <2>3 DEF ChannelInv
<1>3. PackerTyped'
  BY <1>1 DEF MessagesInv, PackerTyped
<1>4. Sending' = Sending
  BY <1>1 DEF Sending
<1>5. OnTheWay' = OnTheWay
  BY <1>1, <1>4 DEF OnTheWay
<1>6. OutputWhole' /\ Streams(carry', OnTheWay')
  BY <1>1, <1>4, <1>5 DEF MessagesInv, OutputWhole
<1>7. ASSUME NEW c \in ReqCell PROVE Accepted(c)' = Accepted(c)
  <2>1. Transfers(c[2])' = Transfers(c[2])
    BY <1>1 DEF Transfers
  <2> QED BY <2>1 DEF Accepted
<1>8. \A c \in ReqCell :
        Accepted(c)' = decoded'[c] \o OfCell(Ends(OnTheWay'), c) \o staged'[c] \o fifo'[c]
  BY <1>1, <1>5, <1>7, Zenon DEF MessagesInv
<1>9. ~refused'
  BY <1>1, Zenon DEF MessagesInv
<1> QED BY <1>2, <1>3, <1>6, <1>8, <1>9, Zenon DEF MessagesInv

LEMMA CreditsRemain ==
  ASSUME CreditsInv,
         UNCHANGED <<available, updates, granted, decoded, output, frame, spill>>
  PROVE  CreditsInv'
<1>1. Sending' = Sending
  BY DEF Sending
<1>2. OnTheWay' = OnTheWay
  BY <1>1 DEF OnTheWay
<1>3. CreditsTyped'
  BY DEF CreditsInv, CreditsTyped
<1>4. GrantedInBounds'
  BY DEF CreditsInv, GrantedInBounds
<1>5. PaysForMessages'
  BY <1>2 DEF CreditsInv, PaysForMessages
<1> QED BY <1>3, <1>4, <1>5 DEF CreditsInv

\* The receiver grants what is left of its buffer, or less.
LEMMA PeerGrantKeepsPath ==
  ASSUME PathInv, NEW d \in ReqCell, PeerGrant(d)
  PROVE  PathInv'
<1> DEFINE n == Response!Encoded(d[2], PeerOwes(d))
<1>1. /\ granted' = [granted EXCEPT ![d] = @ + n]
      /\ updates' = [updates EXCEPT ![d] = @ + n]
      /\ UNCHANGED <<channelVars, fifo, packVars, creditVars, returns, adapterVars, farVars,
                     peerCredit>>
  BY DEF PeerGrant
<1>2. CreditsTyped /\ GrantedInBounds /\ PaysForMessages
  BY DEF PathInv, CreditsInv
<1>3. PeerOwes(d) \in Nat
  <2>1. /\ granted[d] <= PeerCapacity[d] + SizeOfAll(d, decoded[d])
        /\ granted[d] \in Nat /\ PeerCapacity[d] \in Nat /\ SizeOfAll(d, decoded[d]) \in Nat
    BY <1>2, Constants, SizeOfAllIsNat DEF GrantedInBounds, CreditsTyped
  <2> QED BY <2>1 DEF PeerOwes
<1>4. n \in 0 .. PeerOwes(d)
  BY <1>3, Credit!EncodedIsOwed DEF Response!Encoded, Response!SizesOf, Response!GrantSizes,
     Credit!Encoded, Credit!SizesOf, Credit!GrantSizes
<1> HIDE DEF n
<1>5. MessagesInv'
  BY <1>1, MessagesRemain DEF PathInv
<1>6. /\ available' = available /\ decoded' = decoded /\ output' = output
      /\ frame' = frame /\ spill' = spill
  BY <1>1 DEF creditVars, farVars, packVars
<1>7. CreditsTyped'
  <2>1. n \in Nat
    BY <1>3, <1>4
  <2> QED BY <1>1, <1>2, <1>6, <2>1 DEF CreditsTyped
<1>8. ASSUME NEW c \in ReqCell
      PROVE  /\ granted'[c] = granted[c] + (IF c = d THEN n ELSE 0)
             /\ updates'[c] = updates[c] + (IF c = d THEN n ELSE 0)
             /\ granted[c] \in Nat /\ updates[c] \in Nat /\ n \in Nat
  BY <1>1, <1>2, <1>3, <1>4 DEF CreditsTyped
<1>9. GrantedInBounds'
  <2>1. ASSUME NEW c \in ReqCell
        PROVE  granted'[c] <= PeerCapacity[c] + SizeOfAll(c, decoded[c])
    <3>1. /\ granted[c] <= PeerCapacity[c] + SizeOfAll(c, decoded[c])
          /\ PeerCapacity[c] \in Nat /\ decoded[c] \in Seq(What)
      <4>1. PeerCapacity[c] \in Nat
        BY Constants
      <4> QED BY <1>2, <4>1 DEF GrantedInBounds, CreditsTyped
    <3> DEFINE a == SizeOfAll(c, decoded[c])
    <3>2. a \in Nat
      BY <3>1, SizeOfAllIsNat
    <3>3. c = d => n <= PeerCapacity[c] + SizeOfAll(c, decoded[c]) - granted[c]
      BY <1>3, <1>4 DEF PeerOwes
    <3> HIDE DEF a
    <3> QED BY <1>8, <3>1, <3>2, <3>3 DEF a
  <2> QED BY <1>6, <2>1 DEF GrantedInBounds
<1>10. PaysForMessages'
  <2>1. Sending' = Sending
    BY <1>6 DEF Sending
  <2>2. OnTheWay' = OnTheWay
    BY <1>6, <2>1 DEF OnTheWay
  <2>3. ASSUME NEW c \in ReqCell
        PROVE  granted'[c] = updates'[c] + available[c]
                 + SizeOfAll(c, decoded[c]) + SizeOfAll(c, OfCell(Ends(OnTheWay), c))
    <3>1. granted[c] = updates[c] + available[c]
            + SizeOfAll(c, decoded[c]) + SizeOfAll(c, OfCell(Ends(OnTheWay), c))
      BY <1>2 DEF PaysForMessages
    <3>2. /\ available[c] \in Nat /\ SizeOfAll(c, decoded[c]) \in Nat
          /\ SizeOfAll(c, OfCell(Ends(OnTheWay), c)) \in Nat
      BY <1>2, PathTyped, SizeOfAllIsNat, Zenon DEF CreditsTyped
    <3> QED BY <1>8, <3>1, <3>2
  <2> QED BY <1>6, <2>2, <2>3 DEF PaysForMessages
<1> QED BY <1>5, <1>7, <1>9, <1>10 DEF PathInv, CreditsInv

LEMMA PathStep == PathInv /\ [Next]_vars => PathInv'
<1> SUFFICES ASSUME PathInv, [Next]_vars PROVE PathInv'
  OBVIOUS
<1>1. ASSUME UNCHANGED <<channelVars, fifo, packVars, farVars, available, updates, granted>>
      PROVE  PathInv'
  <2>1. MessagesInv'
    BY <1>1, MessagesRemain DEF PathInv
  <2>2. CreditsInv'
    BY <1>1, CreditsRemain DEF PathInv, packVars, farVars
  <2> QED BY <2>1, <2>2 DEF PathInv
<1>2. ASSUME NEW c \in RspCell, Return(c) PROVE PathInv'
  BY <1>1, <1>2 DEF Return, creditVars
<1>3. CASE LinkTrained
  BY <1>1, <1>3 DEF LinkTrained, creditVars
<1>4. CASE UNCHANGED vars
  BY <1>1, <1>4 DEF vars, creditVars
<1> QED BY <1>2, <1>3, <1>4, EdgeKeepsPath, PeerGrantKeepsPath DEF Next, Surroundings

LEMMA PathInitially == Init => PathInv
<1> SUFFICES ASSUME Init PROVE PathInv
  OBVIOUS
<1>1. /\ awReady = FALSE /\ wReady = FALSE /\ arReady = FALSE
      /\ awTaken = 0 /\ wTaken = 0 /\ arTaken = 0
      /\ fifo = Empty /\ routes = <<>> /\ route = [rp |-> 0, left |-> 0]
      /\ staged = Empty /\ frame = <<>> /\ spill = <<>> /\ output = <<>> /\ nextRp = 0
      /\ available = Nothing /\ updates = Nothing /\ granted = Nothing
      /\ carry = <<>> /\ decoded = Empty /\ refused = FALSE
  BY DEF Init
<1>2. /\ Len(Writes) \in Nat /\ Len(Reads) \in Nat /\ Len(Beats) \in Nat
      /\ Len(<<>>) = 0 /\ \A S : <<>> \in Seq(S)
  <2>1. Len(Writes) \in Nat /\ Len(Reads) \in Nat /\ Len(Writes) \in 0 .. Len(Writes)
    BY RequestPathAssumption
  <2>2. Len(<<>>) = 0 /\ \A S : <<>> \in Seq(S)
    OBVIOUS
  <2> QED BY <2>1, <2>2, BeatsTyped DEF Beats
<1>3. ChannelsTyped
  <2>1. ReqDepth * RpCount \in Nat
    BY Constants
  <2>2. route \in Route
    BY <1>1, Constants DEF Route
  <2>3. 0 \in 0 .. Len(Writes) /\ 0 \in 0 .. Len(Reads) /\ 0 \in 0 .. Len(Beats)
    BY <1>2
  <2> DEFINE max == ReqDepth * RpCount
  <2> HIDE DEF max
  <2>4. Len(routes) <= max
    BY <1>1, <1>2, <2>1 DEF max
  <2> QED BY <1>1, <1>2, <2>2, <2>3, <2>4, Zenon DEF ChannelsTyped, max
<1>4. RoutesFollow
  <2>1. Current = 0 /\ Len(routes) <= awTaken
    <3>1. Len(routes) = 0 /\ awTaken = 0
      BY <1>1, <1>2, Zenon
    <3> QED BY <3>1 DEF Current
  <2>2. InLine(routes, Current)
    BY <1>1, <1>2 DEF InLine
  <2>3. AtWrite(route, 0, 0)
    BY <1>1, <1>2, NoBeats DEF AtWrite
  <2> QED BY <1>1, <2>1, <2>2, <2>3 DEF RoutesFollow
<1>5. ReadyHasRoom
  BY <1>1 DEF ReadyHasRoom
<1>6. FifosTyped
  <2>1. \A c \in ReqCell : Depth(c) \in Nat /\ fifo[c] = <<>>
    BY <1>1, Constants DEF Depth, Empty
  <2>2. fifo \in [ReqCell -> Seq(What)]
    BY <1>1, <1>2 DEF Empty
  <2>3. \A c \in ReqCell : Len(fifo[c]) <= Depth(c)
    BY <1>2, <2>1
  <2> QED BY <2>2, <2>3 DEF FifosTyped
<1>7. PackerTyped
  <2>1. staged \in [ReqCell -> Seq(What)] /\ \A c \in ReqCell : Len(staged[c]) <= 1
    BY <1>1, <1>2 DEF Empty
  <2>2. FlitGranules \in Nat
    BY Constants
  <2> QED BY <1>1, <1>2, <2>1, <2>2, Constants DEF PackerTyped
<1>8. Sending = <<>> /\ OnTheWay = <<>>
  <2>1. Sending = <<>>
    BY <1>1 DEF Sending
  <2>2. <<>> \o (<<>> \o <<>>) = <<>>
    OBVIOUS
  <2> QED BY <1>1, <2>1, <2>2 DEF OnTheWay
<1>9. OutputWhole /\ Streams(carry, OnTheWay)
  <2>1. OutputWhole
    BY <1>1, <1>2, <1>8, Constants DEF OutputWhole
  <2>2. Streams(<<>>, <<>>)
    BY ChainEmpty DEF Streams
  <2> QED BY <1>1, <1>8, <2>1, <2>2
<1>10. ASSUME NEW c \in ReqCell
       PROVE  /\ OfCell(Ends(OnTheWay), c) = <<>> /\ Accepted(c) = <<>>
              /\ decoded[c] = <<>> /\ staged[c] = <<>> /\ fifo[c] = <<>>
  <2>1. OfCell(Ends(OnTheWay), c) = <<>>
    BY <1>8, EndsEmpty, OfCellEmpty
  <2>2. Count(c[2]) = 0
    BY <1>1, Constants DEF Count, ReqKind
  <2>3. Firsts(c[2], 0) = <<>>
    BY DEF Firsts
  <2>4. Accepted(c) = OfCell(Firsts(c[2], 0), c)
    BY <1>3, <2>2, AcceptedIs
  <2>5. Accepted(c) = <<>>
    BY <2>3, <2>4, OfCellEmpty
  <2> QED BY <1>1, <2>1, <2>5 DEF Empty
<1>11. \A c \in ReqCell :
         Accepted(c) = decoded[c] \o OfCell(Ends(OnTheWay), c) \o staged[c] \o fifo[c]
  <2>1. <<>> = <<>> \o <<>> \o <<>> \o <<>>
    OBVIOUS
  <2> QED BY <1>10, <2>1, Zenon
<1>12. MessagesInv
  BY <1>1, <1>3, <1>4, <1>5, <1>6, <1>7, <1>9, <1>11 DEF MessagesInv, ChannelInv
<1>13. ASSUME NEW c \in ReqCell
       PROVE  /\ granted[c] = 0 /\ updates[c] = 0 /\ available[c] = 0
              /\ SizeOfAll(c, decoded[c]) = 0
              /\ SizeOfAll(c, OfCell(Ends(OnTheWay), c)) = 0 /\ PeerCapacity[c] \in Nat
  BY <1>1, <1>10, SizeOfNone, Constants DEF Nothing
<1>14. CreditsTyped
  BY <1>1, <1>2 DEF CreditsTyped, Nothing, Empty
<1>15. GrantedInBounds /\ PaysForMessages
  BY <1>13 DEF GrantedInBounds, PaysForMessages
<1> QED BY <1>12, <1>14, <1>15 DEF PathInv, CreditsInv

\* The inductive invariant: what the threads and the packer have in hand is
\* whole messages, in order, from where the decoder is; W follows the routes;
\* credits are those granted, which the receiver's buffers bound.
THEOREM RequestInvariance == Spec => []PathInv
BY PathInitially, PathStep, PTL DEF Spec

\* What AXI hands over arrives once, whole and in order, or is on its way, for any
\* planes, depths, sizes of messages and frames, timeouts and traffic
\* (flit_packer.cpp:142-159, 228-236; aou_stream_decoder.h:36-59): however
\* messages are cut, the receiver makes sense of every frame.
THEOREM NothingIsLost == Spec => []NothingLostOrReordered
<1>1. PathInv => NothingLostOrReordered
  BY Zenon DEF PathInv, MessagesInv, NothingLostOrReordered
<1> QED BY <1>1, RequestInvariance, PTL

\* The bridge never sends more than the receiver has granted, and loses no
\* credit: the counter's limit never cuts off a grant (flit_packer.cpp:197-200).
THEOREM MessagesArePaidFor == Spec => []PaysForMessages
<1>1. PathInv => PaysForMessages
  BY DEF PathInv, CreditsInv
<1> QED BY <1>1, RequestInvariance, PTL

-----------------------------------------------------------------------------
\* The counters

CountersTyped ==
  /\ flushCnt \in 0 .. FlushTimeout /\ idleCnt \in 0 .. ReturnTimeout - 1
  /\ nextHeaderRp \in Rp /\ linkUp \in BOOLEAN /\ tick \in 0 .. 1

LEMMA CountersStep == CountersTyped /\ [Next]_vars => CountersTyped'
<1> SUFFICES ASSUME CountersTyped, [Next]_vars PROVE CountersTyped'
  OBVIOUS
<1> DEFINE Counts == /\ flushCnt' \in 0 .. FlushTimeout /\ idleCnt' \in 0 .. ReturnTimeout - 1
                     /\ nextHeaderRp' \in Rp
<1>1. /\ flushCnt \in 0 .. FlushTimeout /\ idleCnt \in 0 .. ReturnTimeout - 1
      /\ nextHeaderRp \in Rp /\ linkUp \in BOOLEAN /\ tick \in 0 .. 1
      /\ FlushTimeout \in Nat /\ ReturnTimeout \in Nat \ {0}
      /\ 0 \in 0 .. FlushTimeout /\ 0 \in 0 .. ReturnTimeout - 1
  BY Constants DEF CountersTyped
<1>2. ASSUME NEW p, Decide(p) PROVE Counts
  <2>1. CASE FlushWithHeader(p)
    <3>1. CASE \E rp \in Rp : /\ Flush(p.frame, Response!Granted({rp}))
                              /\ nextHeaderRp' = (rp + 1) % RpCount /\ idleCnt' = 0
      <4>1. PICK rp \in Rp : nextHeaderRp' = (rp + 1) % RpCount
        BY <3>1
      <4>2. nextHeaderRp' \in Rp
        <5>1. rp + 1 \in Int /\ RpCount \in Nat \ {0}
          BY Constants DEF Rp
        <5> QED BY <4>1, <5>1, ModIs DEF Rp
      <4> QED BY <1>1, <3>1, <4>2 DEF Flush
    <3>2. CASE Flush(p.frame, NoGrant) /\ UNCHANGED <<nextHeaderRp, idleCnt>>
      BY <1>1, <3>2 DEF Flush
    <3> QED BY <2>1, <3>1, <3>2, Zenon DEF FlushWithHeader
  <2>2. CASE DedicatedGrant
    BY <1>1, <2>2 DEF DedicatedGrant, Flush
  <2>3. CASE /\ ~MayFlush(p) /\ flushCnt' = IF p.exhausted THEN flushCnt + 1 ELSE 0
             /\ Keep(p) /\ UNCHANGED idleCnt
    <3>1. flushCnt' \in 0 .. FlushTimeout
      <4>1. CASE p.exhausted
        BY <1>1, <2>3, <4>1 DEF MayFlush
      <4>2. CASE ~p.exhausted
        BY <1>1, <2>3, <4>2
      <4> QED BY <4>1, <4>2
    <3> QED BY <1>1, <2>3, <3>1 DEF Keep
  <2>4. CASE idleCnt + 1 < ReturnTimeout /\ idleCnt' = idleCnt + 1 /\ Keep(p) /\ UNCHANGED flushCnt
    BY <1>1, <2>4 DEF Keep
  <2>5. CASE Keep(p) /\ UNCHANGED <<flushCnt, idleCnt>>
    BY <1>1, <2>5 DEF Keep
  <2> QED BY <1>2, <2>1, <2>2, <2>3, <2>4, <2>5 DEF Decide
<1>3. CASE Edge
  <2>1. PICK p, ready : Packer(p, ready) /\ tick' = 1 - tick /\ linkUp' = linkUp
    BY <1>3, Zenon DEF Edge
  <2>2. Counts
    <3>1. CASE Keep(p) /\ UNCHANGED <<output, flushCnt, idleCnt>>
      BY <1>1, <3>1 DEF Keep
    <3> QED BY <1>2, <2>1, <3>1 DEF Packer
  <2>3. 1 - tick \in 0 .. 1
    BY <1>1
  <2> QED BY <1>1, <2>1, <2>2, <2>3 DEF CountersTyped
<1>4. ASSUME UNCHANGED <<flushCnt, idleCnt, nextHeaderRp, tick>>, linkUp' \in BOOLEAN
      PROVE  CountersTyped'
  BY <1>4 DEF CountersTyped
<1>5. ASSUME NEW c \in ReqCell, PeerGrant(c) PROVE CountersTyped'
  BY <1>1, <1>4, <1>5 DEF PeerGrant, packVars, creditVars, adapterVars
<1>6. ASSUME NEW c \in RspCell, Return(c) PROVE CountersTyped'
  BY <1>1, <1>4, <1>6 DEF Return, packVars, creditVars, adapterVars
<1>7. CASE LinkTrained
  BY <1>4, <1>7 DEF LinkTrained, packVars, creditVars
<1>8. CASE UNCHANGED vars
  BY <1>1, <1>4, <1>8 DEF vars, packVars, creditVars, adapterVars
<1> QED BY <1>3, <1>5, <1>6, <1>7, <1>8 DEF Next, Surroundings

LEMMA CountersInitially == Init => CountersTyped
<1> SUFFICES ASSUME Init PROVE CountersTyped
  OBVIOUS
<1>1. flushCnt = 0 /\ idleCnt = ReturnTimeout - 1 /\ nextHeaderRp = 0 /\ linkUp = FALSE /\ tick = 0
  BY DEF Init
<1>2. 0 \in 0 .. FlushTimeout /\ ReturnTimeout - 1 \in 0 .. ReturnTimeout - 1 /\ 0 \in 0 .. 1
  BY Constants
<1>3. 0 \in Rp /\ FALSE \in BOOLEAN
  BY Constants
<1> QED BY <1>1, <1>2, <1>3, Zenon DEF CountersTyped

\* What the type invariant takes from each of the invariants.
LEMMA TypesFollow ==
  ASSUME PathInv, GrantsInv, AdapterInv, CountersTyped
  PROVE  TypeOK
<1>1. ChannelsTyped /\ FifosTyped /\ PackerTyped
  BY DEF PathInv, MessagesInv, ChannelInv
<1>2. /\ awReady \in BOOLEAN /\ wReady \in BOOLEAN /\ arReady \in BOOLEAN
      /\ awTaken \in 0 .. Len(Writes) /\ wTaken \in 0 .. Len(Beats) /\ arTaken \in 0 .. Len(Reads)
      /\ Len(routes) <= ReqDepth * RpCount /\ route.rp \in Rp /\ route.left \in Nat
  BY <1>1 DEF ChannelsTyped, Route
<1>3. \A c \in ReqCell : Len(fifo[c]) <= Depth(c) /\ Len(staged[c]) <= 1
  BY <1>1 DEF FifosTyped, PackerTyped
<1>4. Len(frame) <= FlitGranules /\ nextRp \in Rp
  BY <1>1 DEF PackerTyped
<1>5. Len(output) <= 1
  <2>1. output = <<>> \/ \E f : output = <<f>>
    BY DEF GrantsInv, GrantsTyped, OutputTyped
  <2>2. Len(<<>>) <= 1 /\ \A f : Len(<<f>>) <= 1
    OBVIOUS
  <2> QED BY <2>1, <2>2, Zenon
<1>6. fdi \in Nat /\ txReady \in BOOLEAN
  BY Constants, RequestPathAssumption DEF AdapterInv
<1>7. ASSUME NEW c \in ReqCell PROVE available[c] \in 0 .. CreditCounterMax
  <2>1. available[c] + updates[c] <= CreditCounterMax
    BY SuppliedIs
  <2>2. available[c] \in Nat /\ updates[c] \in Nat /\ CreditCounterMax \in Nat
    BY Constants DEF PathInv, CreditsInv, CreditsTyped
  <2> QED BY <2>1, <2>2
<1>8. ASSUME NEW c \in RspCell PROVE owed[c] \in 0 .. RxCapacity[c[2]]
  <2>1. /\ owed[c] \in Nat /\ returns[c] \in Nat /\ peerCredit[c] \in Nat
        /\ GrantInOutput(c) \in Nat /\ RxCapacity[c[2]] \in Nat
    BY GrantInOutputIsNat, CapacityIsNat DEF GrantsInv, GrantsTyped
  <2>2. owed[c] + returns[c] + GrantInOutput(c) + peerCredit[c] = RxCapacity[c[2]]
    BY DEF GrantsInv, GrantsAreConserved
  <2> QED BY <2>1, <2>2
<1> QED BY <1>2, <1>3, <1>4, <1>5, <1>6, <1>7, <1>8 DEF TypeOK, CountersTyped

\* Every variable keeps its type.  In particular no FIFO of the channels is
\* written to when it is full, for any depths and traffic (axi2flit.cpp:128, 170,
\* 212): the place that ready promises is there an edge later.
THEOREM RequestTypeInvariant == Spec => []TypeOK
<1>1. Spec => []CountersTyped
  BY CountersInitially, CountersStep, PTL DEF Spec
<1>2. Spec => []GrantsInv
  BY GrantsInitially, GrantsStep, PTL DEF Spec
<1> QED BY <1>1, <1>2, RequestInvariance, AdapterInvariance, TypesFollow, PTL
=============================================================================
