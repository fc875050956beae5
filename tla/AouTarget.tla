----------------------------- MODULE AouTarget -----------------------------
(***************************************************************************)
(* The memory side of the AoU protocol                                     *)
(* (axi2flit/systemc/integration/aou_target.h), between the UCIe link and  *)
(* a memory:                                                               *)
(*                                                                         *)
(*   linkRx -> receive -> writes, data -> assemble --+                     *)
(*                    \-> reads ---------------------+-> submit -> memReq  *)
(*   linkTx <- transmit <- replies <- collect <- memRsp                    *)
(*                                                                         *)
(* The thread runs receive, collect, assemble, submit and transmit at each *)
(* clock edge without waiting in between: phase says which comes next, and *)
(* the surroundings move only between two edges.  transmit builds a frame  *)
(* message by message, so it is the phases "transmit" and "pack".          *)
(*                                                                         *)
(* A request is known by its plane, its direction and its place among the  *)
(* requests of that plane and direction; a message by <<request, beat>>.   *)
(* A frame lists the messages it completes: how a message is cut and put   *)
(* together again is left to AouStreamDecoder, but a reply of the target   *)
(* that does not fit into its frame ends in a later one.                   *)
(***************************************************************************)
EXTENDS Integers, SequencesExt

CONSTANTS
  RpCount,          \* resource planes (1..4)
  Writes, Reads,    \* per plane, the requests of the initiator: id and beats
  RequestSlots,     \* REQUEST_SLOTS (4)
  WDataCapacity,    \* WDATA_GRANULES (64)
  MaxOutstanding,   \* MAX_OUTSTANDING (8)
  FlitGranules,     \* GRANULE_COUNT (48), granules in a frame
  Granules,         \* granules of a message of each kind
  MemDepth,         \* depth of the two FIFOs to the memory (4)
  LinkDepth,        \* depth of the two FIFOs to the link (8)
  PeerCapacity,     \* granules of buffer of the initiator per plane and kind
  FlitRequests,     \* BOUND: messages the initiator puts into one frame
  CreditCounterMax  \* CREDIT_COUNTER_MAX (4095)

Rp      == 0 .. RpCount - 1
ReqKind == {"WriteReq", "ReadReq", "WriteData"}
RspKind == {"WriteResp", "ReadData"}
ReqCell == Rp \X ReqKind
RspCell == Rp \X RspKind

\* AouTarget::capacity: what the target's CreditManager promises its peer.
Capacity ==
  [c \in ReqCell |-> IF c[2] = "WriteData" THEN WDataCapacity
                                           ELSE RequestSlots * Granules[c[2]]]

ASSUME TargetAssumption ==
  /\ RpCount \in Nat \ {0}
  /\ \A rp \in Rp : {Writes[rp], Reads[rp]} \subseteq Seq([id : Nat, beats : Nat \ {0}])
  /\ RequestSlots \in Nat \ {0} /\ MaxOutstanding \in Nat \ {0}
  /\ FlitGranules \in Nat \ {0} /\ MemDepth \in Nat \ {0} /\ LinkDepth \in Nat \ {0}
  /\ WDataCapacity \in Nat /\ CreditCounterMax \in Nat
  /\ Granules \in [ReqKind \cup RspKind -> Nat \ {0}]
  /\ Granules["WriteData"] <= WDataCapacity
  /\ \A c \in ReqCell : Capacity[c] <= CreditCounterMax
  /\ PeerCapacity \in [RspKind -> 0 .. CreditCounterMax]
  /\ \A kind \in RspKind : PeerCapacity[kind] >= Granules[kind]

VARIABLES
  \* The initiator and its CreditManager
  issued,       \* messages sent so far, per cell
  reqCredit,    \* tx_available_
  received,     \* responses received, per cell, oldest first (history)
  held,         \* granules of responses the AXI master has not accepted
  rspOwed,      \* rx_pending_return_
  peerNextRp,   \* next_header_rp_
  \* The link
  linkRx, linkTx,
  \* The target
  phase,
  writes,       \* per plane: write requests and the beats they have got
  reads,        \* per plane: read requests
  data,         \* per plane: write data not yet assembled
  tickets,      \* transactions the memory works on, oldest first
  replies,      \* per cell: responses to send, [n, beat], beat the next one
  outstanding, nextSubmit, nextReply,
  spill,        \* the message in spill_, how much of it is left, completes
  frame,        \* the frame transmit is building: messages and granules used
  owed, nextHeaderRp, rspCredit,   \* the target's CreditManager
  \* The memory
  memReq, memRsp,
  memory        \* requests in service, oldest first

peerVars   == <<issued, reqCredit, received, held, rspOwed, peerNextRp>>
linkVars   == <<linkRx, linkTx>>
jobVars    == <<writes, reads, data>>
sendVars   == <<nextReply, spill, frame>>
creditVars == <<owed, nextHeaderRp, rspCredit>>
memVars    == <<memReq, memRsp, memory>>
targetVars == <<phase, jobVars, tickets, replies, outstanding, nextSubmit,
                sendVars, creditVars>>
vars == <<peerVars, linkVars, targetVars, memVars>>

-----------------------------------------------------------------------------
\* Requests and messages

Job(write, rp, n) == IF write THEN Writes[rp][n] ELSE Reads[rp][n]
IdOf(t)    == Job(t.write, t.rp, t.n).id
BeatsOf(t) == Job(t.write, t.rp, t.n).beats

\* Address and order group of a transaction: the memory and the target agree
\* on the order of transactions of one group only.
Group(t) == <<t.write, t.rp, IdOf(t)>>

BurstOf(rp, n) == [b \in 1 .. Writes[rp][n].beats |-> <<n, b>>]

\* The messages of a cell in the order in which the initiator sends them.
Program(c) ==
  CASE c[2] = "WriteReq" -> [n \in 1 .. Len(Writes[c[1]]) |-> <<n, 0>>]
    [] c[2] = "ReadReq"  -> [n \in 1 .. Len(Reads[c[1]]) |-> <<n, 0>>]
    [] c[2] = "WriteData" ->
         FlattenSeq([n \in 1 .. Len(Writes[c[1]]) |-> BurstOf(c[1], n)])

Amount(c, k) == k * Granules[c[2]]

NoMessage(Cell) == [c \in Cell |-> <<>>]
NoGrant(Cell)   == [c \in Cell |-> 0]

\* Granules per cell: grants for requests in the frames to the initiator, requests
\* in the frames to the target, and what the target's buffers hold.
RequestGrants ==
  [c \in ReqCell |-> SumFunction([i \in DOMAIN linkTx |-> linkTx[i].grant[c]])]
RequestsFlying ==
  [c \in ReqCell |-> SumFunction([i \in DOMAIN linkRx |-> Amount(c, Len(linkRx[i].messages[c]))])]
RequestsBuffered ==
  [c \in ReqCell |-> CASE c[2] = "WriteReq"  -> Amount(c, Len(writes[c[1]]))
                       [] c[2] = "ReadReq"   -> Amount(c, Len(reads[c[1]]))
                       [] c[2] = "WriteData" -> Amount(c, Len(data[c[1]]))]

\* take_header_grant and take_misc_grants, as CreditLoop describes them
Request == INSTANCE CreditLoop
  WITH Kind <- ReqKind, NarrowKind <- {}, pending <- owed, flying <- RequestGrants,
       available <- reqCredit, sending <- RequestsFlying, buffered <- RequestsBuffered

SpillsInto(c) == IF spill.left > 0 /\ spill.cell = c THEN 1 ELSE 0

\* The same for responses, which are on their way from when they are paid for.
ResponseGrants ==
  [c \in RspCell |-> SumFunction([i \in DOMAIN linkRx |-> linkRx[i].grant[c]])]
ResponsesFlying ==
  [c \in RspCell |->
     Amount(c, SpillsInto(c) + Len(frame.messages[c]))
     + SumFunction([i \in DOMAIN linkTx |-> Amount(c, Len(linkTx[i].messages[c]))])]

Response == INSTANCE CreditLoop
  WITH Kind <- RspKind, NarrowKind <- {"WriteResp"},
       Capacity <- [c \in RspCell |-> PeerCapacity[c[2]]],
       pending <- rspOwed, nextHeaderRp <- peerNextRp, flying <- ResponseGrants,
       available <- rspCredit, sending <- ResponsesFlying, buffered <- held

\* The distance of x from next in a rotation over 0 .. size - 1.
Turns(x, next, size) == (x - next) % size

-----------------------------------------------------------------------------
\* The initiator.  It sends the messages of a cell in order, as far as its
\* credits go, and messages of different cells in any order: the data of a
\* write can overtake its request.

AtEdge == phase = "receive"

Batches ==
  LET one(a) == [c \in ReqCell |-> IF c = a THEN 1 ELSE 0]
      two(a, b) == [c \in ReqCell |-> one(a)[c] + one(b)[c]]
  IN {one(a) : a \in ReqCell}
     \cup (IF FlitRequests = 1 THEN {} ELSE {two(a, b) : a \in ReqCell, b \in ReqCell})

PeerFrame(batch, grant) ==
  /\ AtEdge
  /\ Len(linkRx) < LinkDepth
  /\ linkRx' = Append(linkRx,
       [messages |-> [c \in ReqCell |->
                        SubSeq(Program(c), issued[c] + 1, issued[c] + batch[c])],
        grant |-> grant])
  /\ issued' = [c \in ReqCell |-> issued[c] + batch[c]]
  /\ reqCredit' = [c \in ReqCell |-> reqCredit[c] - Amount(c, batch[c])]
  /\ rspOwed' = [c \in RspCell |-> rspOwed[c] - grant[c]]
  /\ UNCHANGED <<received, held, linkTx, targetVars, memVars>>

PeerSend ==
  \E batch \in Batches :
    /\ \A c \in ReqCell : /\ issued[c] + batch[c] <= Len(Program(c))
                          /\ Amount(c, batch[c]) <= reqCredit[c]
    /\ \/ \E rp \in Rp : /\ Response!InTurn(rp)
                         /\ PeerFrame(batch, Response!Granted({rp}))
                         /\ peerNextRp' = (rp + 1) % RpCount
       \/ /\ \A rp \in Rp : ~Response!Owes(rp)
          /\ PeerFrame(batch, NoGrant(RspCell))
          /\ UNCHANGED peerNextRp

\* A frame of its own for a CrdtGrant message.
PeerGrant ==
  /\ \E rp \in Rp : Response!Owes(rp)
  /\ PeerFrame(NoGrant(ReqCell), Response!Granted(Rp))
  /\ UNCHANGED peerNextRp

PeerReceive ==
  /\ AtEdge
  /\ linkTx # <<>>
  /\ linkTx' = Tail(linkTx)
  /\ LET f == Head(linkTx) IN
     /\ reqCredit' = [c \in ReqCell |->
                        Request!AtMost(CreditCounterMax, reqCredit[c] + f.grant[c])]
     /\ received' = [c \in RspCell |-> received[c] \o f.messages[c]]
     /\ held' = [c \in RspCell |-> held[c] + Amount(c, Len(f.messages[c]))]
  /\ UNCHANGED <<issued, rspOwed, peerNextRp, linkRx, targetVars, memVars>>

\* The AXI master accepts a response.
PeerAccept ==
  /\ AtEdge
  /\ \E c \in RspCell :
       /\ held[c] > 0
       /\ held' = [held EXCEPT ![c] = @ - Granules[c[2]]]
       /\ rspOwed' = [rspOwed EXCEPT ![c] = @ + Granules[c[2]]]
  /\ UNCHANGED <<issued, reqCredit, received, peerNextRp, linkVars, targetVars, memVars>>

-----------------------------------------------------------------------------
\* The memory works on any number of transactions at once; it may complete
\* them in any order but for those of one group (simple_mem_if.h:3).

MemTake ==
  /\ AtEdge
  /\ memReq # <<>>
  /\ memory' = Append(memory, Head(memReq))
  /\ memReq' = Tail(memReq)
  /\ UNCHANGED <<peerVars, linkVars, targetVars, memRsp>>

MemComplete ==
  /\ AtEdge
  /\ Len(memRsp) < MemDepth
  /\ \E i \in DOMAIN memory :
       /\ \A j \in 1 .. i - 1 : Group(memory[j]) # Group(memory[i])
       /\ memRsp' = Append(memRsp, memory[i])
       /\ memory' = RemoveAt(memory, i)
  /\ UNCHANGED <<peerVars, linkVars, targetVars, memReq>>

-----------------------------------------------------------------------------
\* AouTarget::receive

NewJobs(msgs) == [i \in DOMAIN msgs |-> [n |-> msgs[i][1], got |-> <<>>]]
NewReads(msgs) == [i \in DOMAIN msgs |-> msgs[i][1]]

TakeFrame(f) ==
  /\ rspCredit' = [c \in RspCell |->
                     Response!AtMost(CreditCounterMax, rspCredit[c] + f.grant[c])]
  /\ writes' = [rp \in Rp |-> writes[rp] \o NewJobs(f.messages[<<rp, "WriteReq">>])]
  /\ reads' = [rp \in Rp |-> reads[rp] \o NewReads(f.messages[<<rp, "ReadReq">>])]
  /\ data' = [rp \in Rp |-> data[rp] \o f.messages[<<rp, "WriteData">>]]

Receive ==
  /\ phase = "receive"
  /\ phase' = "collect"
  /\ \/ linkRx = <<>> /\ UNCHANGED <<linkRx, rspCredit, jobVars>>
     \/ linkRx # <<>> /\ linkRx' = Tail(linkRx) /\ TakeFrame(Head(linkRx))
  /\ UNCHANGED <<peerVars, linkTx, tickets, replies, outstanding, nextSubmit,
                 sendVars, owed, nextHeaderRp, memVars>>

-----------------------------------------------------------------------------
\* AouTarget::collect

\* Mutant: the ID is left out of the comparison.
TicketOfAnyId(rsp) ==
  SelectInSeq(tickets, LAMBDA t : t.write = rsp.write /\ t.rp = rsp.rp)

\* The oldest ticket of the response's direction, plane and ID; 0 if none.
TicketOf(rsp) == SelectInSeq(tickets, LAMBDA t : Group(t) = Group(rsp))

RspCellOf(t) == <<t.rp, IF t.write THEN "WriteResp" ELSE "ReadData">>

\* Mutant: the latest reply goes to the front.
CollectInFront(rsp) ==
  /\ TicketOf(rsp) # 0
  /\ tickets' = RemoveAt(tickets, TicketOf(rsp))
  /\ replies' = [replies EXCEPT ![RspCellOf(rsp)] = <<[n |-> rsp.n, beat |-> 1]>> \o @]

CollectResponse(rsp) ==
  /\ TicketOf(rsp) # 0
  /\ tickets' = RemoveAt(tickets, TicketOf(rsp))
  /\ replies' = [replies EXCEPT ![RspCellOf(rsp)] = Append(@, [n |-> rsp.n, beat |-> 1])]

Collect ==
  /\ phase = "collect"
  /\ phase' = "assemble"
  /\ \/ memRsp = <<>> /\ UNCHANGED <<memRsp, tickets, replies>>
     \/ memRsp # <<>> /\ memRsp' = Tail(memRsp) /\ CollectResponse(Head(memRsp))
  /\ UNCHANGED <<peerVars, linkVars, jobVars, outstanding, nextSubmit, sendVars,
                 creditVars, memReq, memory>>

-----------------------------------------------------------------------------
\* AouTarget::assemble

Complete(rp, job) == Len(job.got) = Writes[rp][job.n].beats

\* Mutant: the next beat goes to the request that came last.
OpenJobLast(rp) ==
  IF writes[rp] # <<>> /\ ~Complete(rp, writes[rp][Len(writes[rp])])
  THEN Len(writes[rp]) ELSE 0

\* The first request that waits for data; 0 if none.
OpenJob(rp) == SelectInSeq(writes[rp], LAMBDA job : ~Complete(rp, job))

GetsBeat(rp) == OpenJob(rp) # 0 /\ data[rp] # <<>>

Assemble ==
  /\ phase = "assemble"
  /\ phase' = "submit"
  /\ writes' = [rp \in Rp |->
       IF GetsBeat(rp)
       THEN [writes[rp] EXCEPT ![OpenJob(rp)].got = Append(@, Head(data[rp]))]
       ELSE writes[rp]]
  /\ data' = [rp \in Rp |-> IF GetsBeat(rp) THEN Tail(data[rp]) ELSE data[rp]]
  /\ owed' = [c \in ReqCell |->
       IF c[2] = "WriteData" /\ GetsBeat(c[1])
       THEN Request!AtMost(Capacity[c], owed[c] + Granules["WriteData"]) ELSE owed[c]]
  /\ UNCHANGED <<peerVars, linkVars, reads, tickets, replies, outstanding, nextSubmit,
                 sendVars, nextHeaderRp, rspCredit, memVars>>

-----------------------------------------------------------------------------
\* AouTarget::submit.  Slot 2 rp stands for the reads of plane rp, slot
\* 2 rp + 1 for its writes.

Slots == 0 .. 2 * RpCount - 1
SlotRp(slot) == slot \div 2
SlotWrites(slot) == slot % 2 = 1

Ready(slot) ==
  IF SlotWrites(slot)
  THEN /\ writes[SlotRp(slot)] # <<>>
       /\ Complete(SlotRp(slot), Head(writes[SlotRp(slot)]))
  ELSE reads[SlotRp(slot)] # <<>>

FirstReady(slot) ==
  /\ Ready(slot)
  /\ \A other \in Slots :
       Ready(other) => Turns(slot, nextSubmit, 2 * RpCount)
                         <= Turns(other, nextSubmit, 2 * RpCount)

\* Mutant: one transaction more than MAX_OUTSTANDING is let through.
MayNotSubmitLate ==
  \/ \A slot \in Slots : ~Ready(slot)
  \/ outstanding > MaxOutstanding
  \/ Len(memReq) = MemDepth

MayNotSubmit ==
  \/ \A slot \in Slots : ~Ready(slot)
  \/ outstanding = MaxOutstanding
  \/ Len(memReq) = MemDepth

SubmitSlot(slot) ==
  LET rp == SlotRp(slot)
      wr == SlotWrites(slot)
      n  == IF wr THEN Head(writes[rp]).n ELSE Head(reads[rp])
      c  == <<rp, IF wr THEN "WriteReq" ELSE "ReadReq">>
      t  == [write |-> wr, rp |-> rp, n |-> n]
  IN
  /\ memReq' = Append(memReq, t)
  /\ tickets' = Append(tickets, t)
  /\ outstanding' = outstanding + 1
  /\ writes' = IF wr THEN [writes EXCEPT ![rp] = Tail(@)] ELSE writes
  /\ reads' = IF wr THEN reads ELSE [reads EXCEPT ![rp] = Tail(@)]
  /\ owed' = [owed EXCEPT ![c] = Request!AtMost(Capacity[c], @ + Granules[c[2]])]
  /\ nextSubmit' = (slot + 1) % (2 * RpCount)

Submit ==
  /\ phase = "submit"
  /\ phase' = "transmit"
  /\ \/ MayNotSubmit /\ UNCHANGED <<memReq, tickets, outstanding, writes, reads, owed, nextSubmit>>
     \/ ~MayNotSubmit /\ \E slot \in Slots : FirstReady(slot) /\ SubmitSlot(slot)
  /\ UNCHANGED <<peerVars, linkVars, data, replies, sendVars, nextHeaderRp, rspCredit,
                 memRsp, memory>>

-----------------------------------------------------------------------------
\* AouTarget::transmit and next_message

NoSpill == [cell |-> <<0, "WriteResp">>, msg |-> <<0, 0>>, left |-> 0, completes |-> FALSE]
EmptyFrame == [messages |-> NoMessage(RspCell), used |-> 0]

Put(f, c, msg, granules) ==
  [messages |-> [f.messages EXCEPT ![c] = Append(@, msg)], used |-> f.used + granules]

\* The frame begins with what is left of the last message of an earlier one.
ResumeSpill ==
  IF spill.left <= FlitGranules
  THEN /\ frame' = IF spill.left = 0 THEN EmptyFrame
                   ELSE Put(EmptyFrame, spill.cell, spill.msg, spill.left)
       /\ outstanding' = IF spill.completes THEN outstanding - 1 ELSE outstanding
       /\ spill' = NoSpill
  ELSE /\ frame' = [EmptyFrame EXCEPT !.used = FlitGranules]
       /\ spill' = [spill EXCEPT !.left = @ - FlitGranules]
       /\ UNCHANGED outstanding

Transmit ==
  /\ phase = "transmit"
  /\ \/ /\ Len(linkTx) = LinkDepth
        /\ phase' = "receive"
        /\ UNCHANGED <<frame, spill, outstanding>>
     \/ /\ Len(linkTx) < LinkDepth
        /\ phase' = "pack"
        /\ ResumeSpill
  /\ UNCHANGED <<peerVars, linkVars, jobVars, tickets, replies, nextSubmit, nextReply,
                 creditVars, memVars>>

HasRoom == spill.left = 0 /\ frame.used < FlitGranules

CanReply(c) == replies[c] # <<>> /\ rspCredit[c] >= Granules[c[2]]

\* Mutant: a reply is chosen whether or not there is credit for it.
NextMessageUnpaid(c) ==
  /\ replies[c] # <<>>
  /\ \A other \in Rp : replies[<<other, c[2]>>] # <<>> =>
       Turns(c[1], nextReply, RpCount) <= Turns(other, nextReply, RpCount)
  /\ c[2] = "ReadData" => \A other \in Rp : replies[<<other, "WriteResp">>] = <<>>

\* Write responses go first; the planes take turns.
NextMessage(c) ==
  /\ CanReply(c)
  /\ \A other \in Rp : CanReply(<<other, c[2]>>) =>
       Turns(c[1], nextReply, RpCount) <= Turns(other, nextReply, RpCount)
  /\ c[2] = "ReadData" => \A other \in Rp : ~CanReply(<<other, "WriteResp">>)

LastBeat(c, reply) ==
  c[2] = "WriteResp" \/ reply.beat = Reads[c[1]][reply.n].beats

\* Mutant: a transaction is over as soon as its last message is begun.
PackMessageEarly(c) ==
  LET reply == Head(replies[c])
      msg   == <<reply.n, reply.beat>>
      last  == LastBeat(c, reply)
      fits  == Granules[c[2]] <= FlitGranules - frame.used
  IN
  /\ rspCredit' = [rspCredit EXCEPT ![c] = @ - Granules[c[2]]]
  /\ replies' = [replies EXCEPT ![c] =
                   IF last THEN Tail(@) ELSE <<[reply EXCEPT !.beat = @ + 1]>> \o Tail(@)]
  /\ nextReply' = (c[1] + 1) % RpCount
  /\ outstanding' = IF last THEN outstanding - 1 ELSE outstanding
  /\ IF fits
     THEN frame' = Put(frame, c, msg, Granules[c[2]]) /\ UNCHANGED spill
     ELSE /\ frame' = [frame EXCEPT !.used = FlitGranules]
          /\ spill' = [cell |-> c, msg |-> msg, completes |-> FALSE,
                       left |-> Granules[c[2]] - (FlitGranules - frame.used)]

\* The whole message is paid for although only a part of it may fit.
PackMessage(c) ==
  LET reply == Head(replies[c])
      msg   == <<reply.n, reply.beat>>
      last  == LastBeat(c, reply)
      fits  == Granules[c[2]] <= FlitGranules - frame.used
  IN
  /\ rspCredit' = [rspCredit EXCEPT ![c] = @ - Granules[c[2]]]
  /\ replies' = [replies EXCEPT ![c] =
                   IF last THEN Tail(@) ELSE <<[reply EXCEPT !.beat = @ + 1]>> \o Tail(@)]
  /\ nextReply' = (c[1] + 1) % RpCount
  /\ IF fits
     THEN /\ frame' = Put(frame, c, msg, Granules[c[2]])
          /\ outstanding' = IF last THEN outstanding - 1 ELSE outstanding
          /\ UNCHANGED spill
     ELSE /\ frame' = [frame EXCEPT !.used = FlitGranules]
          /\ spill' = [cell |-> c, msg |-> msg, completes |-> last,
                       left |-> Granules[c[2]] - (FlitGranules - frame.used)]
          /\ UNCHANGED outstanding

Pack ==
  /\ phase = "pack"
  /\ HasRoom
  /\ \E c \in RspCell : NextMessage(c) /\ PackMessage(c)
  /\ UNCHANGED <<peerVars, linkVars, phase, jobVars, tickets, nextSubmit, owed, nextHeaderRp,
                 memVars>>

\* Mutant: a frame without a message is not sent, and its grant is lost.
SendFrameLosesGrant(grant) ==
  /\ frame' = EmptyFrame
  /\ owed' = [c \in ReqCell |-> owed[c] - grant[c]]
  /\ linkTx' = IF frame.used = 0 THEN linkTx
               ELSE Append(linkTx, [messages |-> frame.messages, grant |-> grant])

\* A frame with neither a message nor a grant is not sent.
SendFrame(grant) ==
  /\ frame' = EmptyFrame
  /\ owed' = [c \in ReqCell |-> owed[c] - grant[c]]
  /\ linkTx' = IF frame.used = 0 /\ grant = NoGrant(ReqCell) THEN linkTx
               ELSE Append(linkTx, [messages |-> frame.messages, grant |-> grant])

Send ==
  /\ phase = "pack"
  /\ ~(HasRoom /\ \E c \in RspCell : CanReply(c))
  /\ phase' = "receive"
  /\ \/ \E rp \in Rp : /\ Request!InTurn(rp)
                       /\ SendFrame(Request!Granted({rp}))
                       /\ nextHeaderRp' = (rp + 1) % RpCount
     \/ /\ \A rp \in Rp : ~Request!Owes(rp)
        /\ SendFrame(NoGrant(ReqCell))
        /\ UNCHANGED nextHeaderRp
  /\ UNCHANGED <<peerVars, linkRx, jobVars, tickets, replies, outstanding, nextSubmit,
                 nextReply, spill, rspCredit, memVars>>

\* Mutant: transactions in the memory are forgotten.
IdleForgetsTickets ==
  /\ spill.left = 0
  /\ \A rp \in Rp : ~Request!Owes(rp)
  /\ \A rp \in Rp : writes[rp] = <<>> /\ reads[rp] = <<>> /\ data[rp] = <<>>

\* AouTarget::idle, without a message half received
Idle ==
  /\ outstanding = 0 /\ spill.left = 0
  /\ \A rp \in Rp : ~Request!Owes(rp)
  /\ \A rp \in Rp : writes[rp] = <<>> /\ reads[rp] = <<>> /\ data[rp] = <<>>

-----------------------------------------------------------------------------
Init ==
  /\ issued = NoGrant(ReqCell) /\ reqCredit = NoGrant(ReqCell)
  /\ received = NoMessage(RspCell) /\ held = NoGrant(RspCell)
  /\ rspOwed = [c \in RspCell |-> PeerCapacity[c[2]]] /\ peerNextRp = 0
  /\ linkRx = <<>> /\ linkTx = <<>>
  /\ phase = "receive"
  /\ writes = [rp \in Rp |-> <<>>] /\ reads = [rp \in Rp |-> <<>>]
  /\ data = [rp \in Rp |-> <<>>]
  /\ tickets = <<>> /\ replies = NoMessage(RspCell)
  /\ outstanding = 0 /\ nextSubmit = 0 /\ nextReply = 0
  /\ spill = NoSpill /\ frame = EmptyFrame
  /\ owed = Capacity /\ nextHeaderRp = 0 /\ rspCredit = NoGrant(RspCell)
  /\ memReq = <<>> /\ memRsp = <<>> /\ memory = <<>>

Edge == Receive \/ Collect \/ Assemble \/ Submit \/ Transmit \/ Pack \/ Send

Surroundings ==
  \/ PeerSend \/ PeerGrant \/ PeerReceive \/ PeerAccept
  \/ MemTake \/ MemComplete

Next ==
  \/ PeerSend \/ PeerGrant \/ PeerReceive \/ PeerAccept
  \/ MemTake \/ MemComplete
  \/ Receive \/ Collect \/ Assemble \/ Submit \/ Transmit \/ Pack \/ Send

Spec == Init /\ [][Next]_vars

\* The clock of the target runs; the memory, the link and the initiator go on
\* while there is anything they can do.  They get their turn between two edges
\* again and again, for an edge takes no time: hence strong fairness.
Fairness == WF_vars(Edge) /\ SF_vars(Surroundings)

FairSpec == Spec /\ Fairness

-----------------------------------------------------------------------------
\* Properties

Transaction == [write : BOOLEAN, rp : Rp, n : Nat]
Message == Nat \X Nat

\* Every variable keeps its type and every queue its capacity: none of the
\* capacity checks of receive (aou_target.h:110, 114, 120) ever fails, whatever
\* overtakes what on the way to the target.
TypeOK ==
  /\ phase \in {"receive", "collect", "assemble", "submit", "transmit", "pack"}
  /\ \A rp \in Rp :
       /\ Len(writes[rp]) <= RequestSlots
       /\ Len(reads[rp]) <= RequestSlots
       /\ data[rp] \in Seq(Message)
       /\ Len(data[rp]) * Granules["WriteData"] <= WDataCapacity
  /\ tickets \in Seq(Transaction) /\ memory \in Seq(Transaction)
  /\ memReq \in Seq(Transaction) /\ Len(memReq) <= MemDepth
  /\ memRsp \in Seq(Transaction) /\ Len(memRsp) <= MemDepth
  /\ outstanding \in 0 .. MaxOutstanding
  /\ nextSubmit \in Slots /\ nextReply \in Rp
  /\ spill.left \in Nat /\ frame.used \in 0 .. FlitGranules
  /\ Len(linkTx) <= LinkDepth /\ Len(linkRx) <= LinkDepth

\* The beats a write request has got are the first beats of its own burst,
\* although data may reach the target before its request does and the requests
\* of a plane are assembled in one stream (aou_target.h:126-147).
BeatsArePaired ==
  \A rp \in Rp : \A i \in DOMAIN writes[rp] :
    LET job == writes[rp][i] IN
    \A b \in DOMAIN job.got : job.got[b] = <<job.n, b>>

\* A response of the memory finds a ticket, and the ticket of the transaction it
\* answers: so its number of beats is the one the ticket holds
\* (aou_target.h:177-181).
ResponseFindsItsTicket ==
  memRsp # <<>> =>
    LET rsp == Head(memRsp) IN
    TicketOf(rsp) # 0 /\ tickets[TicketOf(rsp)] = rsp

LastMessageIsCut ==
  spill.left > 0 /\ LastBeat(spill.cell, [n |-> spill.msg[1], beat |-> spill.msg[2]])

\* outstanding_ counts the transactions that hold a slot: those with a ticket,
\* those whose responses are not all in a frame, and the one whose last response
\* waits for the next frame (aou_target.h:157, 218-238).
OutstandingIsExact ==
  outstanding = Len(tickets)
                + SumFunction([c \in RspCell |-> Len(replies[c])])
                + (IF LastMessageIsCut THEN 1 ELSE 0)

Before(m1, m2) == m1[1] < m2[1] \/ (m1[1] = m2[1] /\ m1[2] < m2[2])

SameId(c, m1, m2) ==
  LET write == c[2] = "WriteResp" IN
  Job(write, c[1], m1[1]).id = Job(write, c[1], m2[1]).id

ResponsesTo(c) ==
  IF c[2] = "WriteResp" THEN {<<n, 1>> : n \in DOMAIN Writes[c[1]]}
  ELSE UNION {{<<n, b>> : b \in 1 .. Reads[c[1]][n].beats} : n \in DOMAIN Reads[c[1]]}

\* What the initiator has received of one ID are the first responses to that
\* ID's requests, in order, every beat once: AXI's ordering rule, across the
\* memory's own order, the rotation between planes and the cuts of frames.
AnsweredInOrder ==
  \A c \in RspCell : \A i \in DOMAIN received[c] :
    LET m == received[c][i] IN
    /\ m \in ResponsesTo(c)
    /\ {r \in ResponsesTo(c) : SameId(c, r, m) /\ Before(r, m)}
         = {received[c][j] : j \in {k \in 1 .. i - 1 : SameId(c, received[c][k], m)}}

RequestsTaken(rp, kind) ==
  issued[<<rp, kind>>] - SumFunction([i \in DOMAIN linkRx |-> Len(linkRx[i].messages[<<rp, kind>>])])

Answers(c) ==
  {received[c][i] : i \in DOMAIN received[c]}
  \cup UNION {{linkTx[i].messages[c][j] : j \in DOMAIN linkTx[i].messages[c]}
                : i \in DOMAIN linkTx}

\* When idle() holds between two edges, every request the target has taken is
\* answered in full: the shutdown it allows loses nothing (aou_target.h:36-42).
IdleMeansDone ==
  AtEdge /\ Idle => \A rp \in Rp :
    /\ \A r \in ResponsesTo(<<rp, "WriteResp">>) :
         r[1] <= RequestsTaken(rp, "WriteReq") => r \in Answers(<<rp, "WriteResp">>)
    /\ \A r \in ResponsesTo(<<rp, "ReadData">>) :
         r[1] <= RequestsTaken(rp, "ReadReq") => r \in Answers(<<rp, "ReadData">>)

\* The credits for requests, and those for responses, go round as CreditLoop
\* says: nothing is sent without credit, returned before its space is free, or
\* lost.
KeepsRequestCredits  == Request!Spec
KeepsResponseCredits == Response!Spec

\* Every request is answered in the end: neither the credits, nor the limit on
\* outstanding transactions, nor full FIFOs bring the loop to a halt.
AllAnswered ==
  <>(\A c \in RspCell : {received[c][i] : i \in DOMAIN received[c]} = ResponsesTo(c))
=============================================================================
