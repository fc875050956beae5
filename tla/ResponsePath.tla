---------------------------- MODULE ResponsePath ----------------------------
(***************************************************************************)
(* The way of responses through the bridge                                 *)
(* (axi2flit/systemc/src/flit_unpacker.cpp, axi2flit.cpp,                  *)
(* rp_order_guard.h):                                                      *)
(*                                                                         *)
(*   link -> carry, pending -+-> fifo WriteResp -> active -> B             *)
(*              \            +-> fifo ReadData  -> active -> R             *)
(*               \-> updates -> packer                                     *)
(*                                                                         *)
(* As in RequestPath a clock edge is one step, and a FIFO shows what was   *)
(* written or read at the edge before.  The AW and AR threads appear with  *)
(* their entries in the order guards only, and the target with the order   *)
(* it keeps: that of requests of one ID in one plane (AouTarget).          *)
(***************************************************************************)
EXTENDS AouFrames, FiniteSetsExt

CONSTANTS
  RpCount,      \* resource planes (1..4)
  Requests,     \* per kind of response, the requests in the order in which AXI
                \* hands them over: id, plane and beats of the response
  Granules,     \* granules of a message of each kind
  Depth,        \* RX_RDATA_FIFO_DEPTH_PER_RP, RX_WRESP_FIFO_DEPTH_PER_RP
  UnpackMsgs,   \* UNPACK_MSGS_PER_CYCLE (8)
  UpdateDepth,  \* depth of sig_credit_update_fifo (64)
  FlitUpdates   \* BOUND: credit events a frame may bring

Rp   == 0 .. RpCount - 1
Kind == {"WriteResp", "ReadData"}
Cell == Rp \X Kind
Id   == UNION {{Requests[k][n].id : n \in DOMAIN Requests[k]} : k \in Kind}

ASSUME ResponsePathAssumption ==
  /\ RpCount \in Nat \ {0} /\ UnpackMsgs \in Nat \ {0} /\ UpdateDepth \in Nat \ {0}
  /\ FlitUpdates \in Nat
  /\ Granules \in [Kind -> Nat \ {0}] /\ Depth \in [Kind -> Nat \ {0}]
  /\ \A k \in Kind : Requests[k] \in Seq([id : Id, rp : Rp, beats : Nat \ {0}])

VARIABLES
  \* AXI and the order guards
  accepted,     \* requests accepted, per kind of response
  guard,        \* table_ of wr_order_guard_ and rd_order_guard_: per ID
  reported,     \* a guard has reported a conflict
  answered,     \* responses accepted by the AXI master, per kind (history)
  \* The target
  todo,         \* requests to answer, per cell, in order
  burst,        \* per cell, the next message of the response under way
  sent,         \* messages sent, per cell (history)
  credit,       \* its credits for responses
  stream,       \* granules that wait for a frame
  \* FlitUnpacker
  carry,        \* stream_decoder_
  refused,      \* the decoder has met a frame it cannot make sense of
  pending,      \* pending_messages_ from pending_index_ on
  pendingUpdates, \* pending_credits_ from pending_credit_index_ on: their number
  updates,      \* events in sig_credit_update_fifo
  fifo,         \* sig_wresp_fifo, sig_rdata_fifo
  \* The B and R threads
  active, nextRp

axiVars    == <<accepted, guard, reported>>
targetVars == <<todo, burst, sent, stream>>
bridgeVars == <<carry, refused, pending, pendingUpdates, updates, fifo, active, nextRp>>
vars == <<axiVars, answered, targetVars, credit, bridgeVars>>

-----------------------------------------------------------------------------
\* A response message is <<cell, <<request, beat>>>>.

RequestOf(c, m) == Requests[c[2]][m[1]]
IsLast(c, m)    == m[2] = RequestOf(c, m).beats

\* Mutant: the register of B or R counts as a place in the FIFO.
CapacityWithActive(k) == (Depth[k] + 1) * Granules[k]

\* RX_WRESP_CREDITS_PER_RP, RX_RDATA_CREDITS_PER_RP
Capacity(k) == Depth[k] * Granules[k]

-----------------------------------------------------------------------------
\* RpOrderGuard::bind, when AW or AR accepts a request

\* Mutant: the binding follows the latest request.
BindLatest(k, id, rp) ==
  /\ guard' = [guard EXCEPT ![k][id] = [rp |-> rp, outstanding |-> @.outstanding + 1]]
  /\ UNCHANGED reported

\* A conflict is reported and the binding stays, but the request goes on its way.
Bind(k, id, rp) ==
  LET e == guard[k][id]
      conflict == e.outstanding # 0 /\ e.rp # rp
  IN
  /\ reported' = (reported \/ conflict)
  /\ guard' = [guard EXCEPT ![k][id] =
                 [rp |-> IF conflict THEN e.rp ELSE rp, outstanding |-> e.outstanding + 1]]

Accept(k) ==
  /\ accepted[k] < Len(Requests[k])
  /\ LET n == accepted[k] + 1
         q == Requests[k][n]
     IN /\ accepted' = [accepted EXCEPT ![k] = n]
        /\ Bind(k, q.id, q.rp)
        /\ todo' = [todo EXCEPT ![<<q.rp, k>>] = Append(@, n)]
  /\ UNCHANGED <<answered, burst, sent, stream, credit, bridgeVars>>

-----------------------------------------------------------------------------
\* The target answers the requests of a cell one after the other, those of one
\* ID in order; all messages of a response in a row.

NoBurst == <<0, 0>>

Begin(c) ==
  /\ burst[c] = NoBurst
  /\ \E i \in DOMAIN todo[c] :
       /\ \A j \in 1 .. i - 1 :
            Requests[c[2]][todo[c][j]].id # Requests[c[2]][todo[c][i]].id
       /\ burst' = [burst EXCEPT ![c] = <<todo[c][i], 1>>]
       /\ todo' = [todo EXCEPT ![c] = RemoveAt(@, i)]
  /\ UNCHANGED <<axiVars, answered, sent, stream, credit, bridgeVars>>

Respond(c) ==
  LET m == burst[c] IN
  /\ m # NoBurst
  /\ credit[c] >= Granules[c[2]]
  /\ credit' = [credit EXCEPT ![c] = @ - Granules[c[2]]]
  /\ sent' = [sent EXCEPT ![c] = Append(@, m)]
  /\ stream' = stream \o PartsOf(<<c, m>>, Granules[c[2]])
  /\ burst' = [burst EXCEPT ![c] = IF IsLast(c, m) THEN NoBurst ELSE <<m[1], m[2] + 1>>]
  /\ UNCHANGED <<axiVars, answered, todo, bridgeVars>>

-----------------------------------------------------------------------------
\* FlitUnpacker::unpacking_thread at one edge.  flit_in_ready is high unless the
\* holding register is in use, and it is in use while anything of its frame is
\* pending.

Holding == pending # <<>> \/ pendingUpdates > 0

Frame == Fits(<<>>, stream)

\* What is there to route: the rest of the frame held, or the frame that comes
\* in, with the credit events of its header and its messages.
ToRoute(valid, brought) ==
  IF ~valid
  THEN [carry |-> carry, messages |-> pending, refused |-> FALSE, updates |-> pendingUpdates]
  ELSE LET d == Decoded(carry, Frame)
       IN  [carry |-> d.carry, messages |-> d.messages, refused |-> d.refused,
            updates |-> brought]

\* Mutant: the FIFO is taken to hold all events a frame can bring.
RoutedUpdatesUnbounded(n) == n

RoutedUpdates(n) == IF n <= UpdateDepth - updates THEN n ELSE UpdateDepth - updates

\* The first n messages find a place in their FIFOs.
FitsInFifos(msgs, n) ==
  \A c \in Cell : Len(fifo[c]) + Len(OfCell(SubSeq(msgs, 1, n), c)) <= Depth[c[2]]
                  \/ OfCell(SubSeq(msgs, 1, n), c) = <<>>

\* route_messages: credit events first; messages follow when all are through.
Routed(r) ==
  IF RoutedUpdates(r.updates) < r.updates THEN 0
  ELSE Max({n \in 0 .. Len(r.messages) : n <= UnpackMsgs /\ FitsInFifos(r.messages, n)})

\* Mutant: the frame is let go when its credit events are through.
RestDropped(r, n) == IF RoutedUpdates(r.updates) = r.updates THEN <<>> ELSE r.messages

Rest(r, n) == SubSeq(r.messages, n + 1, Len(r.messages))

-----------------------------------------------------------------------------
\* The B and R threads

Turns(rp, k) == (rp - nextRp[k]) % RpCount

Filled(k) == {rp \in Rp : fifo[<<rp, k>>] # <<>>}

\* The first plane of the rotation with a response; FIFOs show what they held
\* before this edge.
FirstFilled(rp, k) == rp \in Filled(k) /\ \A other \in Filled(k) : Turns(rp, k) <= Turns(other, k)

Handshake(k, ready) == active[k] # <<>> /\ ready
Takes(k, ready)     == (active[k] = <<>> \/ ready) /\ Filled(k) # {}

\* The plane k takes its next response from.
Chosen(k) == CHOOSE rp \in Rp : FirstFilled(rp, k)

\* Mutant: every beat of a burst releases its ID.
RetiredEachBeat(k, ready) ==
  IF Handshake(k, ready)
  THEN LET m == Head(active[k]) IN
       [guard[k] EXCEPT ![RequestOf(m[1], m[2]).id].outstanding = IF @ = 0 THEN 0 ELSE @ - 1]
  ELSE guard[k]

\* RpOrderGuard::retire: at the handshake of B, and of the last beat of R.
Retired(k, ready) ==
  IF Handshake(k, ready) /\ IsLast(Head(active[k])[1], Head(active[k])[2])
  THEN LET m == Head(active[k]) IN
       [guard[k] EXCEPT ![RequestOf(m[1], m[2]).id].outstanding = IF @ = 0 THEN 0 ELSE @ - 1]
  ELSE guard[k]

ActiveAfter(k, ready) ==
  IF Takes(k, ready) THEN << << <<Chosen(k), k>>, Head(fifo[<<Chosen(k), k>>]) >> >>
  ELSE IF Handshake(k, ready) THEN <<>> ELSE active[k]

Threads(ready) ==
  /\ active' = [k \in Kind |-> ActiveAfter(k, ready[k])]
  /\ nextRp' = [k \in Kind |-> IF Takes(k, ready[k]) THEN (Chosen(k) + 1) % RpCount
                                                      ELSE nextRp[k]]
  /\ guard' = [k \in Kind |-> Retired(k, ready[k])]
  /\ answered' = [k \in Kind |-> IF Handshake(k, ready[k]) THEN answered[k] \o active[k]
                                                            ELSE answered[k]]
  \* The credit goes back; at the earliest the target has it now.
  /\ credit' = [c \in Cell |->
       IF Handshake(c[2], ready[c[2]]) /\ Head(active[c[2]])[1] = c
       THEN credit[c] + Granules[c[2]] ELSE credit[c]]

FifoAfterRead(c, ready) ==
  IF Takes(c[2], ready[c[2]]) /\ Chosen(c[2]) = c[1] THEN Tail(fifo[c]) ELSE fifo[c]

-----------------------------------------------------------------------------
\* One clock edge: valid says that the link offers a frame, brought how many
\* credit events are in it, ready what the AXI master accepts.
Edge(valid, brought, ready) ==
  /\ valid => ~Holding /\ (stream # <<>> \/ brought > 0)
  /\ Threads(ready)
  /\ \E r \in {ToRoute(valid, brought)} :
     \E n \in {Routed(r)} :
       /\ carry' = r.carry
       /\ refused' = (refused \/ r.refused)
       /\ pending' = Rest(r, n)
       /\ pendingUpdates' = r.updates - RoutedUpdates(r.updates)
       /\ updates' = RoutedUpdates(r.updates)
       /\ fifo' = [c \in Cell |-> FifoAfterRead(c, ready)
                                  \o OfCell(SubSeq(r.messages, 1, n), c)]
  /\ stream' = IF valid THEN CutOff(<<>>, stream) ELSE stream
  /\ UNCHANGED <<accepted, reported, todo, burst, sent>>

Init ==
  /\ accepted = [k \in Kind |-> 0] /\ reported = FALSE
  /\ guard = [k \in Kind |-> [id \in Id |-> [rp |-> 0, outstanding |-> 0]]]
  /\ answered = [k \in Kind |-> <<>>]
  /\ todo = [c \in Cell |-> <<>>] /\ burst = [c \in Cell |-> NoBurst]
  /\ sent = [c \in Cell |-> <<>>]
  /\ credit = [c \in Cell |-> Capacity(c[2])]
  /\ stream = <<>> /\ carry = <<>> /\ refused = FALSE
  /\ pending = <<>> /\ pendingUpdates = 0 /\ updates = 0
  /\ fifo = [c \in Cell |-> <<>>]
  /\ active = [k \in Kind |-> <<>>] /\ nextRp = [k \in Kind |-> 0]

Frames   == \E ready \in [Kind -> BOOLEAN], brought \in 0 .. FlitUpdates : Edge(TRUE, brought, ready)
NoFrames == \E ready \in [Kind -> BOOLEAN] : Edge(FALSE, 0, ready)

Next ==
  \/ Frames
  \/ NoFrames
  \/ \E k \in Kind : Accept(k)
  \/ \E c \in Cell : Begin(c) \/ Respond(c)

Spec == Init /\ [][Next]_vars

-----------------------------------------------------------------------------
\* Properties

\* Every variable keeps its type, and no FIFO holds more than its depth.
TypeOK ==
  /\ \A k \in Kind : accepted[k] \in 0 .. Len(Requests[k])
  /\ \A k \in Kind : \A id \in Id :
       guard[k][id].rp \in Rp /\ guard[k][id].outstanding \in 0 .. accepted[k]
  /\ reported \in BOOLEAN /\ refused = FALSE
  /\ \A c \in Cell : Len(fifo[c]) <= Depth[c[2]] /\ credit[c] \in 0 .. Capacity(c[2])
  /\ \A k \in Kind : Len(active[k]) <= 1 /\ nextRp[k] \in Rp
  /\ updates \in 0 .. UpdateDepth /\ pendingUpdates \in Nat

\* The AXI master gets the responses of a plane as the target has sent them:
\* none is lost, repeated or overtaken in the cuts of frames, in a frame that is
\* routed over several edges, or in the register that waits for the master.
ResponsesArriveInOrder ==
  \A c \in Cell :
    sent[c] = OfCell(answered[c[2]], c) \o OfCell(active[c[2]], c) \o fifo[c]
              \o OfCell(pending, c) \o OfCell(Ends(stream), c)

\* Credits are worth a place in the FIFO: a message is never kept back by a full
\* FIFO, so a plane whose master is slow does not block the others behind it in
\* the frame (aou_types.h:231-237, flit_unpacker.cpp:143).
NoHeadOfLineBlocking ==
  \A c \in Cell : Len(fifo[c]) + Len(OfCell(pending, c)) <= Depth[c[2]]

Finished(k, n) ==
  \E i \in DOMAIN answered[k] :
    LET m == answered[k][i] IN m[2][1] = n /\ IsLast(m[1], m[2])

Outstanding(k, id) ==
  {n \in 1 .. accepted[k] : Requests[k][n].id = id /\ ~Finished(k, n)}

\* The guard counts the requests of an ID that AXI has not seen the end of, and
\* if it has reported nothing they are all in the plane it remembers
\* (rp_order_guard.h:22-46).
GuardIsExact ==
  \A k \in Kind : \A id \in Id :
    /\ guard[k][id].outstanding = Cardinality(Outstanding(k, id))
    /\ ~reported => \A n \in Outstanding(k, id) : Requests[k][n].rp = guard[k][id].rp

MessagesOf(k, id) ==
  UNION {{<<n, b>> : b \in 1 .. Requests[k][n].beats} :
           n \in {m \in DOMAIN Requests[k] : Requests[k][m].id = id}}

Before(m1, m2) == m1[1] < m2[1] \/ (m1[1] = m2[1] /\ m1[2] < m2[2])

\* AXI's ordering rule: unless the guard has reported a conflict, the responses
\* of an ID come in the order of its requests, although they may have gone
\* through several planes one after the other (axi2flit.cpp:119-121, 208).
OrderKeptOrReported ==
  ~reported => \A k \in Kind : \A i \in DOMAIN answered[k] :
    LET m == answered[k][i]
        id == RequestOf(m[1], m[2]).id
    IN {r \in MessagesOf(k, id) : Before(r, m[2])}
         = {answered[k][j][2] : j \in {h \in 1 .. i - 1 :
              RequestOf(answered[k][h][1], answered[k][h][2]).id = id}}
=============================================================================
