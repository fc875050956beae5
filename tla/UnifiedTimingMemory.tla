------------------------ MODULE UnifiedTimingMemory ------------------------
(***************************************************************************)
(* The memory that host, NPU and GPU share in the gem5 system: one port,   *)
(* one bandwidth regulator, one queue of responses.  A request is carried  *)
(* out when it is accepted and answered Latency later; a request that      *)
(* meets the busy regulator is refused once and retried once.              *)
(*                                                                         *)
(* Times are relative to the present: an entry of the queue and an event   *)
(* hold the ticks that are left, and an entry that is overdue holds 0.     *)
(***************************************************************************)
EXTENDS Integers, Sequences

CONSTANTS
  Kind,       \* the commands a packet can carry
  PostedKind, \* those that need no response
  AddrOf,     \* AddrOf[p]: the exact address and secure bit of p, which
              \* Packet::matchAddr compares
  Latency,    \* ticks from acceptance to response
  Duration,   \* ticks for which a packet occupies the regulator
  Delays      \* header and payload delays a packet can arrive with

ASSUME MemoryAssumption == /\ PostedKind \subseteq Kind
                           /\ Latency \in Nat
                           /\ Duration \in Nat \ {0}
                           /\ Delays \subseteq Nat

Packet == [kind : Kind, n : Nat]
Posted == {p \in Packet : p.kind \in PostedKind}

Unscheduled == -1

VARIABLES
  packetQueue,   \* responses to send: [pkt, tick, nth]
  isBusy, retryReq, retryResp,
  releaseEvent, dequeueEvent,   \* ticks until the event, or Unscheduled
  arrivals       \* history: requests accepted so far

memVars == <<packetQueue, isBusy, retryReq, retryResp, releaseEvent,
             dequeueEvent, arrivals>>

MemInit == /\ packetQueue = <<>>
           /\ isBusy = FALSE /\ retryReq = FALSE /\ retryResp = FALSE
           /\ releaseEvent = Unscheduled /\ dequeueEvent = Unscheduled
           /\ arrivals = 0

-----------------------------------------------------------------------------
\* Mutant: the queue is ordered by time alone.
StaysAheadByTime(d, e) == d.tick <= e.tick

\* The queue keeps the order of the ready times, but a response never
\* overtakes one to the same address; one to another address of its block it
\* may.  Search from the back for the entry to stay behind.
StaysAhead(d, e) == d.tick <= e.tick \/ AddrOf[d.pkt] = AddrOf[e.pkt]

Place(e) == CHOOSE k \in 0 .. Len(packetQueue) :
              /\ k > 0 => StaysAhead(packetQueue[k], e)
              /\ \A i \in k + 1 .. Len(packetQueue) : ~StaysAhead(packetQueue[i], e)

Inserted(e) == SubSeq(packetQueue, 1, Place(e)) \o <<e>>
                 \o SubSeq(packetQueue, Place(e) + 1, Len(packetQueue))

\* Mutant: the event is scheduled although the port owes a retry.
NobodyWillSendEager == dequeueEvent = Unscheduled

\* Neither the event nor the port's retry will look at the queue.
NobodyWillSend == ~retryResp /\ dequeueEvent = Unscheduled

Accept(p, delay) ==
  /\ ~retryReq /\ ~isBusy
  /\ isBusy' = TRUE
  /\ releaseEvent' = Duration
  /\ arrivals' = arrivals + 1
  /\ IF p \in Posted
       THEN UNCHANGED <<packetQueue, dequeueEvent>>
       ELSE /\ packetQueue' = Inserted([pkt |-> p, tick |-> delay + Latency,
                                        nth |-> arrivals])
            /\ dequeueEvent' = IF NobodyWillSend
                                 THEN Head(packetQueue').tick ELSE dequeueEvent
  /\ UNCHANGED <<retryReq, retryResp>>

\* Once one request is refused, all are (without a trace) until the retry.
Refuse == /\ isBusy /\ ~retryReq
          /\ retryReq' = TRUE
          /\ UNCHANGED <<packetQueue, isBusy, retryResp, releaseEvent,
                         dequeueEvent, arrivals>>

\* The retry is sent when retryReq falls.
Release == /\ releaseEvent = 0
           /\ releaseEvent' = Unscheduled
           /\ isBusy' = FALSE /\ retryReq' = FALSE
           /\ UNCHANGED <<packetQueue, retryResp, dequeueEvent, arrivals>>

\* Mutant: the response leaves the queue whether or not the port takes it.
UnsentForgotten(taken) == Tail(packetQueue)

Unsent(taken) == IF taken THEN Tail(packetQueue) ELSE packetQueue

\* Sending the first response, which the port takes or refuses.
Send(taken) ==
  /\ retryResp' = ~taken
  /\ packetQueue' = Unsent(taken)
  /\ dequeueEvent' = IF taken /\ packetQueue' # <<>>
                       THEN Head(packetQueue').tick ELSE Unscheduled
  /\ UNCHANGED <<isBusy, retryReq, releaseEvent, arrivals>>

Dequeue(taken) == dequeueEvent = 0 /\ Send(taken)

RecvRespRetry(taken) == retryResp /\ Send(taken)

\* Time passes only when no event is due.
Left(t) == IF t > 0 THEN t - 1 ELSE t

Elapse == /\ releaseEvent # 0 /\ dequeueEvent # 0
          /\ releaseEvent' = Left(releaseEvent)
          /\ dequeueEvent' = Left(dequeueEvent)
          /\ packetQueue' = [i \in DOMAIN packetQueue |->
                               [packetQueue[i] EXCEPT !.tick = Left(@)]]
          /\ UNCHANGED <<isBusy, retryReq, retryResp, arrivals>>

MemNext == \/ \E p \in Packet, delay \in Delays : Accept(p, delay)
           \/ Refuse
           \/ Release
           \/ \E taken \in BOOLEAN : Dequeue(taken) \/ RecvRespRetry(taken)
           \/ Elapse

MemSpec == MemInit /\ [][MemNext]_memVars

-----------------------------------------------------------------------------
\* Type correctness of the memory's state.
MemTypeOK ==
  /\ packetQueue \in Seq([pkt : Packet, tick : Nat, nth : Nat])
  /\ isBusy \in BOOLEAN /\ retryReq \in BOOLEAN /\ retryResp \in BOOLEAN
  /\ releaseEvent \in Nat \cup {Unscheduled}
  /\ dequeueEvent \in Nat \cup {Unscheduled}
  /\ arrivals \in Nat

\* Nobody waits for a call that will not come, and none comes too soon.  A
\* refused request has a release event ahead of it, which sends the retry;
\* queued responses have either a dequeue event or the port's retry ahead of
\* them, never both, and neither sends the first response before its time.
NoWakeupLost ==
  /\ isBusy <=> releaseEvent # Unscheduled
  /\ retryReq => isBusy
  /\ packetQueue = <<>> <=> (dequeueEvent = Unscheduled /\ ~retryResp)
  /\ dequeueEvent # Unscheduled =>
       ~retryResp /\ Head(packetQueue).tick <= dequeueEvent
  /\ retryResp => Head(packetQueue).tick = 0

\* Responses to one address leave in the order in which their requests
\* arrived, whatever delays they arrived with.
SameAddressInOrder ==
  \A i, j \in DOMAIN packetQueue :
    i < j /\ AddrOf[packetQueue[i].pkt] = AddrOf[packetQueue[j].pkt] =>
      packetQueue[i].nth < packetQueue[j].nth
=============================================================================
