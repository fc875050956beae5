---------------------------- MODULE RequestPath ----------------------------
(***************************************************************************)
(* The way of AXI requests through the bridge and its adapter to the link  *)
(* (axi2flit/systemc/src/axi2flit.cpp, flit_packer.cpp,                    *)
(* integration/ucie_aou_adapter.h):                                        *)
(*                                                                         *)
(*   AW -> fifo WriteReq --+                                               *)
(*     \-> routes          +-> staged -> frame -> output -> adapter -> link*)
(*   W  -> fifo WriteData -+                                               *)
(*   AR -> fifo ReadReq ---+                                               *)
(*                                                                         *)
(* All threads wake at the same clock edge and see what the others left    *)
(* there at the edge before: one edge is one step, the conjunction of what *)
(* the threads do.  A FIFO shows a written message, and a freed place, at  *)
(* the next edge only.  The link is left to UcieLinkDir: here the decoder  *)
(* of the receiver (aou_stream_decoder.h) gets a frame when the adapter    *)
(* takes it from the output register.  The link only takes from the FIFO   *)
(* the adapter writes, so what it takes between two edges is part of the   *)
(* second one.                                                             *)
(***************************************************************************)
EXTENDS AouFrames

CONSTANTS
  RpCount,        \* resource planes (1..4)
  Writes,         \* write requests in the order of AW: plane, beats, and the
                  \* set of beats with all strobes on
  Reads,          \* planes of the read requests in the order of AR
  ReqDepth,       \* TX_REQ_FIFO_DEPTH_PER_RP (16)
  WDataDepth,     \* TX_WDATA_FIFO_DEPTH_PER_RP (16)
  Granules,       \* granules of a message of each type
  PackMsgs,       \* PACK_MSGS_PER_CYCLE (8)
  FlushTimeout,   \* flush_timeout_cycles_ (default 0)
  ReturnTimeout,  \* CREDIT_RETURN_TIMEOUT_CYCLES (2)
  PeerCapacity,   \* rx_capacity_ of the receiver: granules of buffer per cell
  RxCapacity,     \* granules of the bridge's own buffers per kind, in each plane
  CreditCounterMax, \* CREDIT_COUNTER_MAX (4095)
  FdiDepth        \* frames in the FIFO at the link's port

Rp      == 0 .. RpCount - 1
ReqKind == {"ReadReq", "WriteReq", "WriteData"}
RspKind == {"WriteResp", "ReadData"}
ReqCell == Rp \X ReqKind
RspCell == Rp \X RspKind

ASSUME RequestPathAssumption ==
  /\ RpCount \in Nat \ {0}
  /\ ReqDepth \in Nat \ {0} /\ WDataDepth \in Nat \ {0}
  /\ PackMsgs \in Nat \ {0} /\ FlushTimeout \in Nat /\ ReturnTimeout \in Nat \ {0}
  /\ Granules \in [ReqKind \cup RspKind \cup {"WriteDataFull", "CrdtGrant"} -> Nat \ {0}]
  /\ Granules["CrdtGrant"] <= FlitGranules
  /\ Granules["WriteDataFull"] <= Granules["WriteData"]
  /\ Writes \in Seq([rp : Rp, beats : Nat \ {0}, full : SUBSET Nat]) /\ Reads \in Seq(Rp)
  /\ CreditCounterMax \in Nat
  /\ PeerCapacity \in [ReqCell -> 0 .. CreditCounterMax]
  /\ \A k \in RspKind : RxCapacity[k] \in 0 .. CreditCounterMax
  /\ FdiDepth \in Nat \ {0}

VARIABLES
  \* The channel threads
  awReady, wReady, arReady,
  awTaken, wTaken, arTaken, \* transfers accepted so far
  fifo,           \* sig_rreq_fifo, sig_wreq_fifo, sig_wdata_fifo
  routes,         \* sig_write_route_fifo
  route,          \* route of the W thread; no beats remain if there is none
  \* FlitPacker
  staged,         \* staging slots, of at most one message
  frame,          \* cur_flit_: its granules
  spill,          \* granules of the message in spill_msg_ from spill_done_ on
  output,         \* output register: at most one frame, with its grant
  flushCnt, idleCnt,  \* timeout_cnt_, credit_return_idle_cnt_
  nextRp,
  \* Its CreditManager and the FIFOs that feed it
  available, owed, nextHeaderRp,
  updates, returns, \* credits in sig_credit_update_fifo, sig_credit_return_fifo
  \* UcieAouAdapter and its FIFO
  linkUp,         \* link_state is Active or Degraded
  txReady,        \* its registered ready
  fdi,            \* frames in the FIFO
  tick,           \* turns over with each clock edge (history)
  \* The far side
  carry, decoded, \* the decoder, and the messages it has put together
  refused,        \* the decoder has met a frame it cannot make sense of
  granted,        \* granules the receiver has granted in total (history)
  peerCredit      \* granules of responses the receiver may send or has sent

channelVars == <<awReady, wReady, arReady, awTaken, wTaken, arTaken, routes, route>>
packVars    == <<staged, frame, spill, output, flushCnt, idleCnt, nextRp>>
creditVars  == <<available, owed, nextHeaderRp>>
adapterVars == <<linkUp, txReady, fdi, tick>>
farVars     == <<carry, decoded, refused>>
vars == <<channelVars, fifo, packVars, creditVars, updates, returns, adapterVars,
          farVars, granted, peerCredit>>

-----------------------------------------------------------------------------
\* Messages: the number of the request, and of the beat for write data

BeatsOf(n) == [b \in 1 .. Writes[n].beats |-> <<n, b>>]

\* The beats of the first n writes in the order of W.
BeatsUpTo(n) == FoldLeft(LAMBDA beats, i : beats \o BeatsOf(i), <<>>, [i \in 1 .. n |-> i])

Beats == BeatsUpTo(Len(Writes))

\* A beat with all strobes on travels as WriteDataFull.
Size(c, m) ==
  IF c[2] = "WriteData" /\ m[2] \in Writes[m[1]].full THEN Granules["WriteDataFull"]
                                                      ELSE Granules[c[2]]

MessageParts(c, m) == PartsOf(<<c, m>>, Size(c, m))

One(yes) == IF yes THEN 1 ELSE 0

-----------------------------------------------------------------------------
\* The AW, W and AR threads.  A transfer is accepted if it meets the ready of
\* the edge before; then ready is computed anew.

\* Both the message and the route of its data need a place.
AwThread(aw) ==
  LET written(rp) == One(aw /\ Writes[awTaken + 1].rp = rp) IN
  /\ aw => awReady /\ awTaken < Len(Writes)
  /\ awTaken' = awTaken + One(aw)
  /\ awReady' = /\ Len(routes) + One(aw) < ReqDepth * RpCount
                /\ \A rp \in Rp : Len(fifo[<<rp, "WriteReq">>]) + written(rp) < ReqDepth

ArThread(ar) ==
  LET written(rp) == One(ar /\ Reads[arTaken + 1] = rp) IN
  /\ ar => arReady /\ arTaken < Len(Reads)
  /\ arTaken' = arTaken + One(ar)
  /\ arReady' = \A rp \in Rp : Len(fifo[<<rp, "ReadReq">>]) + written(rp) < ReqDepth

\* Mutant: the thread goes on to the next route with the last beat still to come.
TakesRouteEarly(w) == route.left - One(w) <= 1 /\ routes # <<>>

\* W takes the next route when the beats of the last one are through.
TakesRoute(w) == route.left - One(w) = 0 /\ routes # <<>>

\* The route the W thread has after this edge.
RouteAfter(w) ==
  IF TakesRoute(w) THEN Head(routes) ELSE [route EXCEPT !.left = @ - One(w)]

\* Mutant: ready looks at the FIFO as it was before this edge's own write.
WThreadStaleSpace(w) ==
  LET next == RouteAfter(w) IN
  /\ w => wReady
  /\ wTaken' = wTaken + One(w)
  /\ route' = next
  /\ wReady' = (next.left > 0 /\ Len(fifo[<<next.rp, "WriteData">>]) < WDataDepth)

WThread(w) ==
  LET next == RouteAfter(w) IN
  /\ w => wReady
  /\ wTaken' = wTaken + One(w)
  /\ route' = next
  /\ wReady' = /\ next.left > 0
               /\ Len(fifo[<<next.rp, "WriteData">>]) + One(w /\ next.rp = route.rp) < WDataDepth

\* AW adds a route, W takes one when it has none left.
Routes(aw, w) ==
  LET rest == IF TakesRoute(w) THEN Tail(routes) ELSE routes
  IN  IF aw THEN Append(rest, [rp   |-> Writes[awTaken + 1].rp,
                               left |-> Writes[awTaken + 1].beats])
      ELSE rest

\* What the threads write into a FIFO at this edge.
Written(aw, w, ar, c) ==
  CASE c[2] = "WriteReq" ->
         IF aw /\ Writes[awTaken + 1].rp = c[1] THEN << <<awTaken + 1, 0>> >> ELSE <<>>
    [] c[2] = "ReadReq" ->
         IF ar /\ Reads[arTaken + 1] = c[1] THEN << <<arTaken + 1, 0>> >> ELSE <<>>
    [] c[2] = "WriteData" ->
         IF w /\ route.rp = c[1] THEN << Beats[wTaken + 1] >> ELSE <<>>

-----------------------------------------------------------------------------
\* FlitPacker::pack_cycle, as a function of the packer's state p.  done says
\* that nothing more is packed at this edge, exhausted that nothing more could;
\* log lists the cells taken, each with those that could have been.

\* The rest of a message that was cut begins the next frame.
Resume(p) ==
  IF p.spill = <<>> THEN p
  ELSE IF p.frame # <<>> THEN [p EXCEPT !.done = TRUE]
  ELSE [p EXCEPT !.frame = Fits(<<>>, p.spill),
                 !.spill = CutOff(<<>>, p.spill),
                 !.done  = CutOff(<<>>, p.spill) # <<>>]

\* fill_staging_slots
Fill(p) ==
  LET moves(c) == p.staged[c] = <<>> /\ p.fifo[c] # <<>> IN
  [p EXCEPT !.staged = [c \in ReqCell |-> IF moves(c) THEN <<Head(p.fifo[c])>> ELSE p.staged[c]],
            !.fifo   = [c \in ReqCell |-> IF moves(c) THEN Tail(p.fifo[c]) ELSE p.fifo[c]]]

\* can_consume
Eligible(p, c) == p.staged[c] # <<>> /\ Size(c, Head(p.staged[c])) <= p.available[c]
EligibleCells(p) == {c \in ReqCell : Eligible(p, c)}

\* select_candidate: reads before writes before write data, the planes in turn.
Rank(p, c) ==
  RpCount * (CASE c[2] = "ReadReq" -> 0 [] c[2] = "WriteReq" -> 1 [] c[2] = "WriteData" -> 2)
    + ((c[1] - p.nextRp) % RpCount)

Candidate(p) ==
  CHOOSE c \in EligibleCells(p) : \A d \in EligibleCells(p) : Rank(p, c) <= Rank(p, d)

\* Mutant: what is paid for is the part that fits into this frame.
ConsumeFragment(p, c) ==
  LET parts == MessageParts(c, Head(p.staged[c])) IN
  [p EXCEPT !.available[c] = @ - Taken(p.frame, parts),
            !.staged[c]    = <<>>,
            !.frame        = Fits(p.frame, parts),
            !.spill        = CutOff(p.frame, parts),
            !.done         = CutOff(p.frame, parts) # <<>>,
            !.nextRp       = (c[1] + 1) % RpCount,
            !.log          = Append(@, [taken |-> c, eligible |-> EligibleCells(p)])]

\* consume_candidate: the whole message is paid for, however it is cut.
Consume(p, c) ==
  LET parts == MessageParts(c, Head(p.staged[c])) IN
  [p EXCEPT !.available[c] = @ - Len(parts),
            !.staged[c]    = <<>>,
            !.frame        = Fits(p.frame, parts),
            !.spill        = CutOff(p.frame, parts),
            !.done         = CutOff(p.frame, parts) # <<>>,
            !.nextRp       = (c[1] + 1) % RpCount,
            !.log          = Append(@, [taken |-> c, eligible |-> EligibleCells(p)])]

PackOne(p) ==
  LET f == Fill(p) IN
  IF p.done \/ Room(p.frame) = 0 THEN p
  ELSE IF EligibleCells(f) = {}
       THEN [f EXCEPT !.done = TRUE, !.exhausted = TRUE]
       ELSE Consume(f, Candidate(f))

PackCycle(p) == FoldLeft(LAMBDA q, i : PackOne(q), Resume(p), [i \in 1 .. PackMsgs |-> i])

-----------------------------------------------------------------------------
\* FlitPacker::packing_thread

AtMost(limit, n) == IF n <= limit THEN n ELSE limit

\* drain_credit_events
Supplied == [c \in ReqCell |-> AtMost(CreditCounterMax, available[c] + updates[c])]
Due      == [c \in RspCell |-> AtMost(RxCapacity[c[2]], owed[c] + returns[c])]

NoGrant == [c \in RspCell |-> 0]

GrantInOutput(c) == IF output = <<>> THEN 0 ELSE Head(output).grant[c]

\* take_header_grant and take_misc_grants, on what is owed after the drain.  Of
\* the messages of responses only those accepted are seen here.
Response == INSTANCE CreditLoop
  WITH Kind <- RspKind, NarrowKind <- {"WriteResp"},
       Capacity <- [c \in RspCell |-> RxCapacity[c[2]]],
       pending <- Due, available <- peerCredit,
       flying <- [c \in RspCell |-> GrantInOutput(c)],
       sending <- NoGrant, buffered <- returns

Packed ==
  PackCycle([fifo |-> fifo, staged |-> staged, available |-> Supplied, frame |-> frame,
             spill |-> spill, nextRp |-> nextRp, log |-> <<>>,
             done |-> FALSE, exhausted |-> FALSE])

Owes == \E rp \in Rp : Response!Owes(rp)

Flush(parts, grant) ==
  /\ output' = << [parts |-> parts, grant |-> grant] >>
  /\ frame' = <<>>
  /\ flushCnt' = 0
  /\ owed' = [c \in RspCell |-> Due[c] - grant[c]]

FlushWithHeader(p) ==
  \/ \E rp \in Rp : /\ Response!InTurn(rp)
                    /\ Flush(p.frame, Response!Granted({rp}))
                    /\ nextHeaderRp' = (rp + 1) % RpCount
                    /\ idleCnt' = 0
  \/ ~Owes /\ Flush(p.frame, NoGrant) /\ UNCHANGED <<nextHeaderRp, idleCnt>>

CrdtGrant == PartsOf(<< <<0, "CrdtGrant">>, <<0, 0>> >>, Granules["CrdtGrant"])

\* Mutant: take_misc_grants leaves what it grants among what is owed.
DedicatedGrantStays ==
  /\ output' = << [parts |-> CrdtGrant, grant |-> Response!Granted(Rp)] >>
  /\ frame' = <<>> /\ flushCnt' = 0 /\ owed' = Due /\ idleCnt' = 0
  /\ UNCHANGED nextHeaderRp

\* send_dedicated_credit_grant: such a frame has no grant in its header.
DedicatedGrant ==
  /\ Flush(CrdtGrant, Response!Granted(Rp))
  /\ idleCnt' = 0
  /\ UNCHANGED nextHeaderRp

Keep(p) == frame' = p.frame /\ owed' = Due /\ UNCHANGED nextHeaderRp

\* Mutant: a frame goes out only if there is nothing more to pack.
MayFlushExhausted(p) == p.exhausted /\ flushCnt >= FlushTimeout

MayFlush(p) == Room(p.frame) = 0 \/ (p.exhausted /\ flushCnt >= FlushTimeout)

\* Mutant: the counter runs only while the packer has no message at all.
CountsIdleIfEmpty(p) == p.frame = <<>> /\ Owes /\ \A c \in ReqCell : p.staged[c] = <<>>

CountsIdle(p) == p.frame = <<>> /\ Owes

\* What becomes of the frame under construction if the output register is free.
Decide(p) ==
  \/ p.frame # <<>> /\ MayFlush(p) /\ FlushWithHeader(p)
  \/ /\ p.frame # <<>> /\ ~MayFlush(p)
     /\ flushCnt' = IF p.exhausted THEN flushCnt + 1 ELSE 0
     /\ Keep(p) /\ output' = <<>> /\ UNCHANGED idleCnt
  \/ CountsIdle(p) /\ idleCnt + 1 >= ReturnTimeout /\ DedicatedGrant
  \/ /\ CountsIdle(p) /\ idleCnt + 1 < ReturnTimeout
     /\ idleCnt' = idleCnt + 1
     /\ Keep(p) /\ output' = <<>> /\ UNCHANGED flushCnt
  \/ /\ p.frame = <<>> /\ ~CountsIdle(p)
     /\ Keep(p) /\ output' = <<>> /\ UNCHANGED <<flushCnt, idleCnt>>

Packer(p, ready) ==
  /\ available' = p.available
  /\ staged' = p.staged /\ spill' = p.spill
  /\ nextRp' = p.nextRp
  /\ \/ (output = <<>> \/ ready) /\ Decide(p)
     \/ output # <<>> /\ ~ready /\ Keep(p) /\ UNCHANGED <<output, flushCnt, idleCnt>>

\* The receiver gets a frame.
Arrive(f) ==
  /\ LET d == Decoded(carry, f.parts) IN
     /\ carry' = d.carry
     /\ refused' = (refused \/ d.refused)
     /\ decoded' = [c \in ReqCell |-> decoded[c] \o OfCell(d.messages, c)]
  /\ peerCredit' = [c \in RspCell |-> peerCredit[c] + f.grant[c]]

\* Mutant: the frame that is just being written is not counted.
PlacesLeftBefore(waiting, written) == FdiDepth - waiting

\* num_free() counts a write at once.
PlacesLeft(waiting, written) == FdiDepth - waiting - written

\* One turn of the adapter's thread, when the link has left so many frames in
\* the FIFO: a frame that meets ready is written, then ready is computed anew.
Transfer(waiting) ==
  LET written == IF txReady /\ output # <<>> THEN 1 ELSE 0 IN
  /\ fdi' = waiting + written
  /\ txReady' = (linkUp /\ PlacesLeft(waiting, written) > 0)

\* One clock edge: which transfers AXI offers, and how many frames the link
\* has left in the FIFO, is up to the surroundings.
Edge ==
  \E p \in {Packed}, aw, w, ar \in BOOLEAN, waiting \in 0 .. fdi :
    LET taken == txReady /\ output # <<>> IN
    /\ AwThread(aw) /\ WThread(w) /\ ArThread(ar)
    /\ routes' = Routes(aw, w)
    /\ fifo' = [c \in ReqCell |-> p.fifo[c] \o Written(aw, w, ar, c)]
    /\ Packer(p, taken)
    /\ updates' = [c \in ReqCell |-> 0] /\ returns' = NoGrant
    /\ Transfer(waiting)
    /\ \/ taken /\ Arrive(Head(output))
       \/ ~taken /\ UNCHANGED <<farVars, peerCredit>>
    /\ tick' = 1 - tick
    /\ UNCHANGED linkUp
    /\ UNCHANGED granted

-----------------------------------------------------------------------------
\* The far side, between two edges

SizeOfAll(c, msgs) == FoldLeft(LAMBDA n, m : n + Size(c, m), 0, msgs)

\* The receiver's CreditManager owes what its buffer holds and the messages it
\* has disposed of, less what it has granted.
PeerOwes(c) == PeerCapacity[c] + SizeOfAll(c, decoded[c]) - granted[c]

\* It grants to any of its cells what the field of a grant can express.
PeerGrant(c) ==
  LET amount == Response!Encoded(c[2], PeerOwes(c)) IN
  /\ amount > 0
  /\ granted' = [granted EXCEPT ![c] = @ + amount]
  /\ updates' = [updates EXCEPT ![c] = @ + amount]
  /\ UNCHANGED <<channelVars, fifo, packVars, creditVars, returns, adapterVars, farVars,
                 peerCredit>>

\* A response has come, and the AXI master has accepted it.
Return(c) ==
  /\ peerCredit[c] >= Granules[c[2]]
  /\ peerCredit' = [peerCredit EXCEPT ![c] = @ - Granules[c[2]]]
  /\ returns' = [returns EXCEPT ![c] = @ + Granules[c[2]]]
  /\ UNCHANGED <<channelVars, fifo, packVars, creditVars, updates, adapterVars, farVars,
                 granted>>

\* The link's training is over.
LinkTrained ==
  /\ ~linkUp
  /\ linkUp' = TRUE
  /\ UNCHANGED <<channelVars, fifo, packVars, creditVars, updates, returns, txReady, fdi,
                 tick, farVars, granted, peerCredit>>

-----------------------------------------------------------------------------
Nothing == [c \in ReqCell |-> 0]
Empty   == [c \in ReqCell |-> <<>>]

\* After the reset of the bridge, when the first idle edge sends a CrdtGrant.
Init ==
  /\ awReady = FALSE /\ wReady = FALSE /\ arReady = FALSE
  /\ awTaken = 0 /\ wTaken = 0 /\ arTaken = 0
  /\ fifo = Empty /\ routes = <<>> /\ route = [rp |-> 0, left |-> 0]
  /\ staged = Empty /\ frame = <<>> /\ spill = <<>> /\ output = <<>>
  /\ flushCnt = 0 /\ idleCnt = ReturnTimeout - 1 /\ nextRp = 0
  /\ available = Nothing /\ nextHeaderRp = 0
  /\ owed = [c \in RspCell |-> RxCapacity[c[2]]]
  /\ updates = Nothing /\ returns = NoGrant
  /\ linkUp = FALSE /\ txReady = FALSE /\ fdi = 0 /\ tick = 0
  /\ carry = <<>> /\ decoded = Empty /\ refused = FALSE
  /\ granted = Nothing /\ peerCredit = NoGrant

Surroundings ==
  \/ \E c \in ReqCell : PeerGrant(c)
  \/ \E c \in RspCell : Return(c)
  \/ LinkTrained

Next == Edge \/ Surroundings

Spec == Init /\ [][Next]_vars

\* The clock runs, and the link comes up and takes what is in the FIFO.
\* Nothing is assumed of the AXI master, nor of the receiver's grants.
ClockRuns == []<>(tick = 0) /\ []<>(tick = 1)
LinkTakes == []<>(linkUp /\ fdi < FdiDepth)

FairSpec == Spec /\ ClockRuns /\ LinkTakes

-----------------------------------------------------------------------------
\* Properties

\* The transfers accepted on a channel of AXI, each with its cell, in order.
Transfers(k) ==
  CASE k = "ReadReq"   -> [n \in 1 .. arTaken |-> << <<Reads[n], k>>, <<n, 0>> >>]
    [] k = "WriteReq"  -> [n \in 1 .. awTaken |-> << <<Writes[n].rp, k>>, <<n, 0>> >>]
    [] k = "WriteData" -> [i \in 1 .. wTaken |-> << <<Writes[Beats[i][1]].rp, k>>, Beats[i] >>]

Accepted(c) == OfCell(Transfers(c[2]), c)

\* The parts of messages between the staging slots and the decoder.
Sending  == IF output = <<>> THEN <<>> ELSE Head(output).parts
OnTheWay == Sending \o (frame \o spill)

Depth(c) == IF c[2] = "WriteData" THEN WDataDepth ELSE ReqDepth

\* Every variable keeps its type, and no FIFO is written to when it is full:
\* the assertions of the AW, W and AR threads (axi2flit.cpp:128, 170, 212) hold
\* although ready is computed an edge before the transfer it lets in.
TypeOK ==
  /\ awReady \in BOOLEAN /\ wReady \in BOOLEAN /\ arReady \in BOOLEAN
  /\ awTaken \in 0 .. Len(Writes) /\ wTaken \in 0 .. Len(Beats) /\ arTaken \in 0 .. Len(Reads)
  /\ \A c \in ReqCell : Len(fifo[c]) <= Depth(c) /\ Len(staged[c]) <= 1
  /\ Len(routes) <= ReqDepth * RpCount /\ route.rp \in Rp /\ route.left \in Nat
  /\ Len(frame) <= FlitGranules /\ Len(output) <= 1
  /\ flushCnt \in 0 .. FlushTimeout /\ idleCnt \in 0 .. ReturnTimeout - 1
  /\ nextRp \in Rp /\ nextHeaderRp \in Rp
  /\ linkUp \in BOOLEAN /\ txReady \in BOOLEAN /\ fdi \in Nat /\ tick \in 0 .. 1
  /\ \A c \in ReqCell : available[c] \in 0 .. CreditCounterMax
  /\ \A c \in RspCell : owed[c] \in 0 .. RxCapacity[c[2]]

\* What AXI has handed over for a plane and kind is received or on its way, each
\* message once, whole and in order: through the routes that pair the beats of W
\* with the requests of AW, the staging slots, and the cuts of frames.  The rest
\* of a cut message opens the next frame, before any CrdtGrant and without a
\* MsgStart bit, so the receiver makes sense of every frame
\* (flit_packer.cpp:142-159, 228-236; aou_stream_decoder.h:36-59).
NothingLostOrReordered ==
  /\ ~refused
  /\ \A c \in ReqCell :
       Accepted(c) = decoded[c] \o OfCell(Ends(OnTheWay), c) \o staged[c] \o fifo[c]

\* The bridge sends what the receiver has granted, and pays for it: credits on
\* hand and messages sent account for every granule granted, so the receiver's
\* buffers cannot be overrun (flit_packer.cpp:197-200).
PaysForMessages ==
  \A c \in ReqCell :
    granted[c] = updates[c] + available[c]
                 + SizeOfAll(c, decoded[c]) + SizeOfAll(c, OfCell(Ends(OnTheWay), c))

\* The bridge promises its peer the buffers it has and no more: every granule is
\* owed, in a frame, with the peer, or about to be returned, whether grants go
\* out in headers or in messages (flit_packer.cpp:232-236).
GrantsAreConserved ==
  \A c \in RspCell :
    owed[c] + returns[c] + GrantInOutput(c) + peerCredit[c] = RxCapacity[c[2]]

\* The place in the FIFO that ready promised at one edge is still free at the
\* next, when the frame comes: the adapter's write never fails
\* (ucie_aou_adapter.h:62-71).
ReadyHoldsItsPlace == txReady => fdi < FdiDepth

WaitsForCredit(c) == staged[c] # <<>> /\ Size(c, Head(staged[c])) > available[c] + updates[c]

\* A request accepted is held up for good only by the lack of credits of its own
\* plane and kind: not by messages of other planes that lack theirs, nor in a
\* frame that does not fill up, nor behind an unused grant.
OnlyCreditsHoldUp ==
  []<>(\A c \in ReqCell :
         /\ OfCell(Ends(OnTheWay), c) = <<>>
         /\ WaitsForCredit(c) \/ (staged[c] = <<>> /\ fifo[c] = <<>>))

\* What is owed to the peer goes out even if the bridge has nothing to send, or
\* nothing it has the credit to send: otherwise both sides could wait for each
\* other's credits (flit_packer.cpp:91-97).
OwedIsGranted == \A c \in RspCell : owed[c] > 0 ~> GrantInOutput(c) > 0
=============================================================================
