--------------------------- MODULE HetSystemProofs ---------------------------
(***************************************************************************)
(* The components of the gem5 system, each alone: the memory, the NPU, the *)
(* GPU and the AXI monitor with its trace files.  Then the system as a     *)
(* whole: it is an implementation of the memory, of the NPU and of the     *)
(* GPU, so that what is proved of each of them alone holds of it in the    *)
(* system; and what a device waits for is on its way, once.  For any       *)
(* workloads, delays, latencies and AXI IDs.                               *)
(***************************************************************************)
EXTENDS HetSystem, SequenceTheorems, FiniteSetTheorems, WellFoundedInduction, TLAPS

-----------------------------------------------------------------------------
\* The memory: wake-ups and the order of responses, for any packets, latencies
\* and delays

Entry == [pkt : Packet, tick : Nat, nth : Nat]

\* Every queued response is older than the next request.
QueuedBefore == \A i \in DOMAIN packetQueue : packetQueue[i].nth < arrivals

MemInv == MemTypeOK /\ NoWakeupLost /\ QueuedBefore /\ SameAddressInOrder

-----------------------------------------------------------------------------
\* Lemmas on the queue

LEMMA QueueOfEntries ==
  ASSUME MemTypeOK
  PROVE  /\ packetQueue \in Seq(Entry)
         /\ packetQueue # <<>> =>
              Head(packetQueue) \in Entry /\ Head(packetQueue) = packetQueue[1]
<1>1. packetQueue \in Seq(Entry)
  BY DEF MemTypeOK, Entry
<1> QED BY <1>1

\* The search from the back always ends: at the last entry the new one has to
\* stay behind, or at the front.
LEMMA PlaceExists ==
  ASSUME MemTypeOK, NEW e \in Entry
  PROVE  /\ Place(e) \in 0 .. Len(packetQueue)
         /\ Place(e) > 0 => StaysAhead(packetQueue[Place(e)], e)
         /\ \A i \in Place(e) + 1 .. Len(packetQueue) : ~StaysAhead(packetQueue[i], e)
<1> DEFINE len  == Len(packetQueue)
           Good(k) == k > 0 => StaysAhead(packetQueue[k], e)
           Back == {n \in 0 .. len : Good(len - n)}
<1>1. len \in Nat
  BY DEF MemTypeOK
<1>2. len \in Back
  BY <1>1
<1>3. PICK m \in Back : \A n \in Back : ~(<<n, m>> \in OpToRel(<, Nat))
  <2>1. Back \subseteq Nat /\ Back # {}
    BY <1>1, <1>2
  <2> HIDE DEF Back
  <2> QED BY <2>1, NatLessThanWellFounded, WFMin
<1>4. ASSUME NEW n \in Back, n < m PROVE FALSE
  <2>1. Back \subseteq Nat
    BY <1>1
  <2> HIDE DEF Back
  <2> n \in Nat /\ m \in Nat
    BY <2>1
  <2>2. <<n, m>> \in OpToRel(<, Nat)
    BY <1>4, <2>1, ZenonT(20) DEF OpToRel
  <2> QED BY <2>2, <1>3
<1>5. m \in 0 .. len /\ Good(len - m)
  BY <1>3
<1> HIDE DEF Good
<1>6. ASSUME NEW i \in len - m + 1 .. len PROVE ~StaysAhead(packetQueue[i], e)
  <2>1. len - i \in 0 .. len /\ len - i < m /\ len - (len - i) = i
    BY <1>1, <1>5
  <2>2. ~Good(i)
    BY <2>1, <1>4
  <2> QED BY <2>2 DEF Good
<1>7. \E k \in 0 .. Len(packetQueue) :
        /\ k > 0 => StaysAhead(packetQueue[k], e)
        /\ \A i \in k + 1 .. Len(packetQueue) : ~StaysAhead(packetQueue[i], e)
  <2>1. len - m \in 0 .. len
    BY <1>1, <1>5
  <2> QED BY <2>1, <1>5, <1>6, Zenon DEF Good
<1> QED BY <1>7, Zenon DEF Place

\* The new entry stands behind its place, all others keep their order.
LEMMA InsertedQueue ==
  ASSUME MemTypeOK, NEW e \in Entry
  PROVE  /\ Inserted(e) \in Seq(Entry)
         /\ Len(Inserted(e)) = Len(packetQueue) + 1
         /\ \A i \in 1 .. Len(packetQueue) + 1 :
              Inserted(e)[i] = IF i <= Place(e) THEN packetQueue[i]
                               ELSE IF i = Place(e) + 1 THEN e ELSE packetQueue[i - 1]
<1> DEFINE q == packetQueue
           k == Place(e)
           front == SubSeq(q, 1, k)
           back  == SubSeq(q, k + 1, Len(q))
<1>1. q \in Seq(Entry) /\ Len(q) \in Nat /\ \A i \in 1 .. Len(q) : q[i] \in Entry
  <2>1. q \in Seq(Entry)
    BY DEF MemTypeOK, Entry
  <2> QED BY <2>1
<1>2. k \in 0 .. Len(q)
  BY PlaceExists
<1> HIDE DEF k, q
<1>3. /\ front \in Seq(Entry) /\ Len(front) = k
      /\ \A i \in 1 .. k : front[i] = q[i]
  <2>1. k \in Int /\ 1 \in Int /\ \A i \in 1 .. k : q[i] \in Entry
    BY <1>1, <1>2
  <2>2. /\ SubSeq(q, 1, k) \in Seq(Entry)
        /\ Len(SubSeq(q, 1, k)) = IF 1 <= k THEN k - 1 + 1 ELSE 0
        /\ \A i \in 1 .. k - 1 + 1 : SubSeq(q, 1, k)[i] = q[1 + i - 1]
    BY <1>1, <2>1
  <2> QED BY <1>2, <2>2
<1>4. /\ back \in Seq(Entry) /\ Len(back) = Len(q) - k
      /\ \A i \in 1 .. Len(q) - k : back[i] = q[k + i]
  <2>1. k + 1 \in Int /\ Len(q) \in Int /\ \A i \in k + 1 .. Len(q) : q[i] \in Entry
    BY <1>1, <1>2
  <2>2. /\ SubSeq(q, k + 1, Len(q)) \in Seq(Entry)
        /\ Len(SubSeq(q, k + 1, Len(q))) = IF k + 1 <= Len(q) THEN Len(q) - (k + 1) + 1 ELSE 0
        /\ \A i \in 1 .. Len(q) - (k + 1) + 1 :
             SubSeq(q, k + 1, Len(q))[i] = q[(k + 1) + i - 1]
    BY <1>1, <2>1
  <2> QED BY <1>1, <1>2, <2>2
<1> HIDE DEF front, back
<1>5. /\ front \o <<e>> \in Seq(Entry) /\ Len(front \o <<e>>) = k + 1
      /\ \A i \in 1 .. k + 1 : (front \o <<e>>)[i] = IF i <= k THEN q[i] ELSE e
  BY <1>2, <1>3
<1>6. Inserted(e) = (front \o <<e>>) \o back
  BY DEF Inserted, front, back, q, k
<1>7. /\ Inserted(e) \in Seq(Entry)
      /\ Len(Inserted(e)) = Len(q) + 1
      /\ \A i \in 1 .. Len(q) + 1 :
           Inserted(e)[i] = IF i <= k + 1 THEN (front \o <<e>>)[i] ELSE back[i - (k + 1)]
  <2>1. /\ (front \o <<e>>) \o back \in Seq(Entry)
        /\ Len((front \o <<e>>) \o back) = Len(front \o <<e>>) + Len(back)
        /\ \A i \in 1 .. Len(front \o <<e>>) + Len(back) :
             ((front \o <<e>>) \o back)[i] =
               IF i <= Len(front \o <<e>>) THEN (front \o <<e>>)[i]
               ELSE back[i - Len(front \o <<e>>)]
    BY <1>4, <1>5, ConcatProperties, Zenon
  <2>2. k + 1 + (Len(q) - k) = Len(q) + 1
    BY <1>1, <1>2
  <2> QED BY <1>4, <1>5, <1>6, <2>1, <2>2, Zenon
<1>8. ASSUME NEW i \in 1 .. Len(q) + 1
      PROVE  Inserted(e)[i] = IF i <= k THEN q[i] ELSE IF i = k + 1 THEN e ELSE q[i - 1]
  <2>1. CASE i <= k + 1
    <3>1. i \in 1 .. k + 1
      BY <1>2, <2>1
    <3>2. Inserted(e)[i] = IF i <= k THEN q[i] ELSE e
      BY <1>5, <1>7, <2>1, <3>1, Zenon
    <3> QED BY <1>2, <3>1, <3>2
  <2>2. CASE ~(i <= k + 1)
    <3>1. i - (k + 1) \in 1 .. Len(q) - k /\ k + (i - (k + 1)) = i - 1
      BY <1>1, <1>2, <2>2
    <3>2. Inserted(e)[i] = q[i - 1]
      BY <1>4, <1>7, <2>2, <3>1, Zenon
    <3> QED BY <1>2, <2>2, <3>2
  <2> QED BY <2>1, <2>2
<1> QED BY <1>7, <1>8 DEF q, k

\* The first response changes only when a more urgent one, to another
\* address, comes in front of it.
LEMMA FirstIsEarliest ==
  ASSUME MemTypeOK, NEW e \in Entry, packetQueue # <<>>
  PROVE  \/ Head(Inserted(e)) = Head(packetQueue)
         \/ /\ Head(Inserted(e)) = e /\ e.tick < Head(packetQueue).tick
<1> DEFINE k == Place(e)
<1>1. k \in 0 .. Len(packetQueue) /\ Len(packetQueue) \in Nat \ {0}
  BY PlaceExists DEF MemTypeOK
<1>2. Head(Inserted(e)) = Inserted(e)[1] /\ Head(packetQueue) = packetQueue[1]
  BY InsertedQueue DEF MemTypeOK
<1>3. CASE k > 0
  <2>1. 1 \in 1 .. Len(packetQueue) + 1 /\ 1 <= k
    BY <1>1, <1>3
  <2>2. Inserted(e)[1] = packetQueue[1]
    BY <2>1, InsertedQueue, Zenon
  <2> QED BY <1>2, <2>2
<1>4. CASE k = 0
  <2>1. Inserted(e)[1] = e
    BY <1>1, <1>4, InsertedQueue
  <2>2. ~StaysAhead(packetQueue[1], e)
    BY <1>1, <1>4, PlaceExists
  <2>3. ~(packetQueue[1].tick <= e.tick)
    BY <2>2 DEF StaysAhead
  <2>4. packetQueue[1] \in Entry
    BY <1>1, QueueOfEntries
  <2>5. packetQueue[1].tick \in Nat /\ e.tick \in Nat
    BY <2>4 DEF Entry
  <2> QED BY <1>2, <2>1, <2>3, <2>5
<1> QED BY <1>1, <1>3, <1>4

\* Time passing changes no order.
LEMMA ElapsedQueue ==
  ASSUME MemTypeOK
  PROVE  LET later == [i \in DOMAIN packetQueue |->
                         [packetQueue[i] EXCEPT !.tick = Left(@)]]
         IN /\ later \in Seq(Entry)
            /\ Len(later) = Len(packetQueue)
            /\ later = <<>> <=> packetQueue = <<>>
            /\ packetQueue # <<>> => Head(later).tick = Left(Head(packetQueue).tick)
            /\ \A i \in DOMAIN packetQueue :
                 later[i].nth = packetQueue[i].nth /\ later[i].pkt = packetQueue[i].pkt
<1> DEFINE L(r) == [r EXCEPT !.tick = Left(@)]
           later == [i \in DOMAIN packetQueue |-> L(packetQueue[i])]
<1>1. \A r \in Entry : /\ L(r) \in Entry /\ L(r).tick = Left(r.tick)
                        /\ L(r).nth = r.nth /\ L(r).pkt = r.pkt
  BY DEF Entry, Left
<1> HIDE DEF L
<1>2. packetQueue \in Seq(Entry)
  BY DEF MemTypeOK, Entry
<1>3. DOMAIN packetQueue = 1 .. Len(packetQueue) /\ Len(packetQueue) \in Nat
  BY <1>2
<1>4. \A i \in 1 .. Len(packetQueue) : packetQueue[i] \in Entry
  BY <1>2
<1>5. later \in Seq(Entry) /\ Len(later) = Len(packetQueue)
  BY <1>1, <1>3, <1>4
<1>6. packetQueue # <<>> => Head(later) = L(Head(packetQueue)) /\ Head(packetQueue) \in Entry
  BY <1>2, <1>3, <1>5
<1>7. later = <<>> <=> packetQueue = <<>>
  BY <1>2, <1>5
<1> QED BY <1>1, <1>3, <1>4, <1>5, <1>6, <1>7 DEF L

\* There is a response, and its time has come, when one is to be sent.
LEMMA SendsSomething ==
  ASSUME MemTypeOK, NoWakeupLost, dequeueEvent = 0 \/ retryResp
  PROVE  packetQueue # <<>> /\ Head(packetQueue).tick = 0
<1>1. packetQueue # <<>>
  BY DEF NoWakeupLost, Unscheduled
<1>2. Head(packetQueue) \in Entry
  BY <1>1, QueueOfEntries
<1> QED BY <1>1, <1>2 DEF NoWakeupLost, Unscheduled, Entry

-----------------------------------------------------------------------------
\* Type correctness is preserved by every handler (unified_timing_memory.cc:
\* 158-233).
LEMMA MemTypesStep == MemTypeOK /\ NoWakeupLost /\ [MemNext]_memVars => MemTypeOK'
<1> SUFFICES ASSUME MemTypeOK, NoWakeupLost, [MemNext]_memVars
             PROVE  MemTypeOK'
  OBVIOUS
<1> USE DEF MemTypeOK
<1>1. ASSUME NEW p \in Packet, NEW delay \in Delays, Accept(p, delay)
      PROVE  MemTypeOK'
  <2> DEFINE e == [pkt |-> p, tick |-> delay + Latency, nth |-> arrivals]
  <2>1. e \in Entry
    BY MemoryAssumption DEF Entry
  <2>2. Inserted(e) \in Seq(Entry) /\ Inserted(e) # <<>>
    BY <2>1, InsertedQueue
  <2> HIDE DEF e
  <2>3. Head(Inserted(e)).tick \in Nat
    <3>1. Head(Inserted(e)) \in Entry
      BY <2>2
    <3> QED BY <3>1 DEF Entry
  <2>4. packetQueue' \in Seq(Entry) /\ dequeueEvent' \in Nat \cup {Unscheduled}
    BY <1>1, <2>2, <2>3, Zenon DEF Accept, e, Entry
  <2>5. isBusy' \in BOOLEAN /\ retryReq' \in BOOLEAN /\ retryResp' \in BOOLEAN
    BY <1>1, Zenon DEF Accept
  <2>6. releaseEvent' \in Nat \cup {Unscheduled} /\ arrivals' \in Nat
    BY <1>1, MemoryAssumption DEF Accept
  <2> QED BY <2>4, <2>5, <2>6, Zenon DEF Entry
<1>2. CASE Refuse
  BY <1>2, Zenon DEF Refuse
<1>3. CASE Release
  BY <1>3, Zenon DEF Release
<1>4. ASSUME NEW taken \in BOOLEAN, Send(taken), packetQueue # <<>>
      PROVE  MemTypeOK'
  <2>1. packetQueue' \in Seq(Entry)
    BY <1>4 DEF Send, Unsent, Entry
  <2>2. dequeueEvent' \in Nat \cup {Unscheduled}
    <3>1. CASE packetQueue' = <<>>
      BY <1>4, <3>1, Zenon DEF Send
    <3>2. CASE packetQueue' # <<>>
      <4>1. Head(packetQueue') \in Entry
        BY <2>1, <3>2
      <4>2. Head(packetQueue').tick \in Nat
        BY <4>1 DEF Entry
      <4> QED BY <1>4, <4>2, Zenon DEF Send
    <3> QED BY <3>1, <3>2
  <2>3. retryResp' \in BOOLEAN
    BY <1>4, Zenon DEF Send
  <2> QED BY <1>4, <2>1, <2>2, <2>3, Zenon DEF Send, Entry
<1>5. CASE Elapse
  <2>1. releaseEvent' \in Nat \cup {Unscheduled} /\ dequeueEvent' \in Nat \cup {Unscheduled}
    BY <1>5 DEF Elapse, Left, Unscheduled
  <2>2. packetQueue' \in Seq(Entry)
    BY <1>5, ElapsedQueue DEF Elapse
  <2> QED BY <1>5, <2>1, <2>2, Zenon DEF Elapse, Entry
<1>6. CASE UNCHANGED memVars
  BY <1>6, Zenon DEF memVars
<1>7. ASSUME NEW taken \in BOOLEAN, Dequeue(taken) \/ RecvRespRetry(taken)
      PROVE  MemTypeOK'
  BY <1>4, <1>7, SendsSomething, Zenon DEF Dequeue, RecvRespRetry
<1> QED BY <1>1, <1>2, <1>3, <1>5, <1>6, <1>7 DEF MemNext

-----------------------------------------------------------------------------
\* The wake-up invariant is preserved.
LEMMA WakeUpsStep == MemTypeOK /\ NoWakeupLost /\ [MemNext]_memVars => NoWakeupLost'
<1> SUFFICES ASSUME MemTypeOK, NoWakeupLost, [MemNext]_memVars
             PROVE  NoWakeupLost'
  OBVIOUS
<1>1. ASSUME NEW p \in Packet, NEW delay \in Delays, Accept(p, delay)
      PROVE  NoWakeupLost'
  <2> DEFINE e == [pkt |-> p, tick |-> delay + Latency, nth |-> arrivals]
  <2>1. e \in Entry
    BY MemoryAssumption DEF Entry, MemTypeOK
  <2>2. Inserted(e) \in Seq(Entry) /\ Inserted(e) # <<>>
    BY <2>1, InsertedQueue DEF MemTypeOK
  <2>3. Head(Inserted(e)).tick \in Nat
    <3>1. Head(Inserted(e)) \in Entry
      BY <2>2
    <3> QED BY <3>1 DEF Entry
  <2>4. /\ isBusy' /\ releaseEvent' # Unscheduled
        /\ ~retryReq' /\ retryResp' = retryResp
    BY <1>1, MemoryAssumption DEF Accept, Unscheduled, MemTypeOK
  <2>5. CASE p \in Posted
    <3>1. UNCHANGED <<packetQueue, dequeueEvent>>
      BY <1>1, <2>5, Zenon DEF Accept
    <3> QED BY <2>4, <3>1, Zenon DEF NoWakeupLost
  <2>6. CASE p \notin Posted
    <3>1. packetQueue' = Inserted(e)
      BY <1>1, <2>6, Zenon DEF Accept
    <3>2. CASE NobodyWillSend
      <4>1. dequeueEvent' = Head(packetQueue').tick /\ ~retryResp
        BY <1>1, <2>6, <3>2, Zenon DEF Accept, NobodyWillSend
      <4>2. dequeueEvent' \in Nat
        BY <2>3, <3>1, <4>1, Zenon
      <4>3. dequeueEvent' # Unscheduled /\ Head(packetQueue').tick <= dequeueEvent'
        BY <4>1, <4>2 DEF Unscheduled
      <4> QED BY <2>2, <2>4, <3>1, <4>1, <4>3, Zenon DEF NoWakeupLost
    <3>3. CASE ~NobodyWillSend
      <4>1. dequeueEvent' = dequeueEvent /\ packetQueue # <<>>
        BY <1>1, <2>6, <3>3, Zenon DEF Accept, NobodyWillSend, NoWakeupLost
      <4>2. Head(packetQueue).tick \in Nat
        <5>1. Head(packetQueue) \in Entry
          BY <4>1, QueueOfEntries
        <5> QED BY <5>1 DEF Entry
      <4> HIDE DEF e
      <4>3. Head(packetQueue').tick <= Head(packetQueue).tick /\ Head(packetQueue').tick \in Nat
        <5>1. \/ Head(packetQueue').tick = Head(packetQueue).tick
              \/ Head(packetQueue').tick < Head(packetQueue).tick
          BY <2>1, <3>1, <4>1, FirstIsEarliest
        <5>2. Head(packetQueue').tick \in Nat
          BY <2>3, <3>1, Zenon
        <5> QED BY <4>2, <5>1, <5>2
      <4>4. dequeueEvent' # Unscheduled =>
              ~retryResp /\ Head(packetQueue').tick <= dequeueEvent'
        <5> SUFFICES ASSUME dequeueEvent' # Unscheduled
                     PROVE  ~retryResp /\ Head(packetQueue').tick <= dequeueEvent'
          OBVIOUS
        <5>1. ~retryResp /\ Head(packetQueue).tick <= dequeueEvent
          BY <4>1, Zenon DEF NoWakeupLost
        <5>2. dequeueEvent \in Nat
          BY <4>1 DEF MemTypeOK
        <5> QED BY <4>1, <4>2, <4>3, <5>1, <5>2
      <4>5. retryResp => Head(packetQueue').tick = 0
        BY <4>2, <4>3 DEF NoWakeupLost
      <4>6. dequeueEvent' # Unscheduled \/ retryResp'
        BY <2>4, <3>3, <4>1, Zenon DEF NobodyWillSend
      <4>7. packetQueue' # <<>>
        BY <2>2, <3>1, Zenon
      <4> QED BY <2>4, <4>4, <4>5, <4>6, <4>7, Zenon DEF NoWakeupLost
    <3> QED BY <3>2, <3>3
  <2> QED BY <2>5, <2>6
<1>2. CASE Refuse
  BY <1>2, Zenon DEF Refuse, NoWakeupLost
<1>3. CASE Release
  BY <1>3, Zenon DEF Release, NoWakeupLost
<1>4. ASSUME NEW taken \in BOOLEAN, Dequeue(taken) \/ RecvRespRetry(taken)
      PROVE  NoWakeupLost'
  <2>1. Send(taken) /\ packetQueue # <<>> /\ Head(packetQueue).tick = 0
    BY <1>4, SendsSomething DEF Dequeue, RecvRespRetry
  <2>2. UNCHANGED <<isBusy, retryReq, releaseEvent>>
    BY <2>1, Zenon DEF Send
  <2>3. CASE taken
    <3>1. ~retryResp' /\ packetQueue' = Tail(packetQueue)
      BY <2>1, <2>3, Zenon DEF Send, Unsent
    <3>2. CASE packetQueue' = <<>>
      <4>1. dequeueEvent' = Unscheduled
        BY <2>1, <3>2, Zenon DEF Send
      <4> QED BY <2>2, <3>1, <3>2, <4>1, Zenon DEF NoWakeupLost
    <3>3. CASE packetQueue' # <<>>
      <4>1. dequeueEvent' = Head(packetQueue').tick
        BY <2>1, <2>3, <3>3, Zenon DEF Send
      <4>2. Head(packetQueue') \in Entry
        <5>1. packetQueue' \in Seq(Entry)
          BY <2>1, <3>1, QueueOfEntries
        <5> QED BY <3>3, <5>1
      <4>3. dequeueEvent' # Unscheduled /\ Head(packetQueue').tick <= dequeueEvent'
        BY <4>1, <4>2 DEF Entry, Unscheduled
      <4> QED BY <2>2, <3>1, <3>3, <4>3, Zenon DEF NoWakeupLost
    <3> QED BY <3>2, <3>3
  <2>4. CASE ~taken
    <3>1. retryResp' /\ packetQueue' = packetQueue /\ dequeueEvent' = Unscheduled
      BY <2>1, <2>4, Zenon DEF Send, Unsent
    <3> QED BY <2>1, <2>2, <3>1, Zenon DEF NoWakeupLost
  <2> QED BY <2>3, <2>4
<1>5. CASE Elapse
  <2>1. /\ releaseEvent' # Unscheduled <=> releaseEvent # Unscheduled
        /\ dequeueEvent' # Unscheduled <=> dequeueEvent # Unscheduled
    BY <1>5 DEF Elapse, Left, Unscheduled, MemTypeOK
  <2>2. /\ packetQueue' = <<>> <=> packetQueue = <<>>
        /\ packetQueue # <<>> =>
             Head(packetQueue').tick = Left(Head(packetQueue).tick)
    BY <1>5, ElapsedQueue DEF Elapse
  <2>3. UNCHANGED <<isBusy, retryReq, retryResp>>
    BY <1>5, Zenon DEF Elapse
  <2>4. ASSUME packetQueue # <<>> PROVE Head(packetQueue).tick \in Nat
    <3>1. Head(packetQueue) \in Entry
      BY <2>4, QueueOfEntries
    <3> QED BY <3>1 DEF Entry
  <2>5. ASSUME dequeueEvent # Unscheduled
        PROVE  Head(packetQueue').tick <= dequeueEvent'
    <3>1. packetQueue # <<>> /\ Head(packetQueue).tick <= dequeueEvent
      BY <2>5, Zenon DEF NoWakeupLost
    <3>2. dequeueEvent' = Left(dequeueEvent) /\ dequeueEvent \in Nat
      BY <1>5, <2>5 DEF Elapse, MemTypeOK
    <3> QED BY <2>2, <2>4, <3>1, <3>2 DEF Left
  <2>6. ASSUME retryResp PROVE Head(packetQueue').tick = 0
    <3>1. packetQueue # <<>> /\ Head(packetQueue).tick = 0
      BY <2>6, Zenon DEF NoWakeupLost
    <3> QED BY <2>2, <3>1 DEF Left
  <2> QED BY <2>1, <2>2, <2>3, <2>5, <2>6, Zenon DEF NoWakeupLost
<1>6. CASE UNCHANGED memVars
  BY <1>6, Zenon DEF memVars, NoWakeupLost
<1> QED BY <1>1, <1>2, <1>3, <1>4, <1>5, <1>6 DEF MemNext

-----------------------------------------------------------------------------
\* The order of responses to one address is preserved.
LEMMA OrderStep ==
  MemTypeOK /\ NoWakeupLost /\ QueuedBefore /\ SameAddressInOrder /\ [MemNext]_memVars
    => QueuedBefore' /\ SameAddressInOrder'
<1> SUFFICES ASSUME MemTypeOK, NoWakeupLost, QueuedBefore, SameAddressInOrder,
                    [MemNext]_memVars
             PROVE  QueuedBefore' /\ SameAddressInOrder'
  OBVIOUS
<1> DEFINE q == packetQueue
<1>q. /\ q \in Seq(Entry) /\ Len(q) \in Nat /\ DOMAIN q = 1 .. Len(q)
      /\ \A i \in 1 .. Len(q) : q[i].nth \in Nat
  <2>1. q \in Seq(Entry)
    BY QueueOfEntries
  <2>2. Len(q) \in Nat /\ DOMAIN q = 1 .. Len(q) /\ \A i \in 1 .. Len(q) : q[i] \in Entry
    BY <2>1
  <2>3. \A r \in Entry : r.nth \in Nat
    BY DEF Entry
  <2> QED BY <2>1, <2>2, <2>3, Zenon
<1>a. arrivals \in Nat
  BY DEF MemTypeOK
<1>s. \A i, j \in 1 .. Len(q) :
        i < j /\ AddrOf[q[i].pkt] = AddrOf[q[j].pkt] => q[i].nth < q[j].nth
  BY <1>q DEF SameAddressInOrder
<1>b. \A i \in 1 .. Len(q) : q[i].nth < arrivals
  BY <1>q DEF QueuedBefore
<1>1. ASSUME NEW p \in Packet, NEW delay \in Delays, Accept(p, delay), p \notin Posted
      PROVE  QueuedBefore' /\ SameAddressInOrder'
  <2> DEFINE e == [pkt |-> p, tick |-> delay + Latency, nth |-> arrivals]
             k == Place(e)
  <2>1. e \in Entry /\ e.nth = arrivals
    BY MemoryAssumption DEF Entry, MemTypeOK
  <2>2. packetQueue' = Inserted(e) /\ arrivals' = arrivals + 1
    BY <1>1, Zenon DEF Accept
  <2> HIDE DEF e
  <2>3. k \in 0 .. Len(q) /\ \A i \in k + 1 .. Len(q) : AddrOf[q[i].pkt] # AddrOf[e.pkt]
    BY <2>1, PlaceExists DEF StaysAhead
  <2>4. /\ DOMAIN packetQueue' = 1 .. Len(q) + 1
        /\ \A i \in 1 .. Len(q) + 1 :
             packetQueue'[i] = IF i <= k THEN q[i] ELSE IF i = k + 1 THEN e ELSE q[i - 1]
    BY <2>1, <2>2, InsertedQueue
  <2> HIDE DEF k, q
  <2>5. \A i \in 1 .. Len(q) + 1 : packetQueue'[i].nth < arrivals'
    <3> TAKE i \in 1 .. Len(q) + 1
    <3>1. CASE i <= k
      BY <1>a, <1>b, <1>q, <2>2, <2>3, <2>4, <3>1
    <3>2. CASE i = k + 1
      BY <1>a, <1>q, <2>1, <2>2, <2>3, <2>4, <3>2
    <3>3. CASE i > k + 1
      <4>1. i - 1 \in 1 .. Len(q) /\ packetQueue'[i] = q[i - 1]
        BY <1>q, <2>3, <2>4, <3>3
      <4> QED BY <1>a, <1>b, <1>q, <2>2, <4>1
    <3> QED BY <1>q, <2>3, <3>1, <3>2, <3>3
  <2>6. ASSUME NEW i \in 1 .. Len(q) + 1, NEW j \in 1 .. Len(q) + 1, i < j,
               AddrOf[packetQueue'[i].pkt] = AddrOf[packetQueue'[j].pkt]
        PROVE  packetQueue'[i].nth < packetQueue'[j].nth
    <3>1. CASE j <= k
      BY <1>q, <1>s, <2>3, <2>4, <2>6, <3>1
    <3>2. CASE j = k + 1
      <4>1. i \in 1 .. Len(q) /\ packetQueue'[i] = q[i] /\ packetQueue'[j] = e
        BY <1>q, <2>3, <2>4, <2>6, <3>2
      <4> QED BY <1>b, <2>1, <4>1
    <3>3. CASE j > k + 1 /\ i <= k
      <4>1. /\ i \in 1 .. Len(q) /\ j - 1 \in 1 .. Len(q) /\ i < j - 1
            /\ packetQueue'[i] = q[i] /\ packetQueue'[j] = q[j - 1]
        BY <1>q, <2>3, <2>4, <2>6, <3>3
      <4> QED BY <1>s, <2>6, <4>1
    <3>4. CASE j > k + 1 /\ i = k + 1
      <4>1. j - 1 \in k + 1 .. Len(q) /\ packetQueue'[i] = e /\ packetQueue'[j] = q[j - 1]
        BY <1>q, <2>3, <2>4, <2>6, <3>4
      <4> QED BY <2>3, <2>6, <4>1
    <3>5. CASE j > k + 1 /\ i > k + 1
      <4>1. /\ i - 1 \in 1 .. Len(q) /\ j - 1 \in 1 .. Len(q) /\ i - 1 < j - 1
            /\ packetQueue'[i] = q[i - 1] /\ packetQueue'[j] = q[j - 1]
        BY <1>q, <2>3, <2>4, <2>6, <3>5
      <4> QED BY <1>s, <2>6, <4>1
    <3> QED BY <1>q, <2>3, <3>1, <3>2, <3>3, <3>4, <3>5
  <2> QED BY <2>4, <2>5, <2>6 DEF QueuedBefore, SameAddressInOrder
<1>2. ASSUME NEW p \in Packet, NEW delay \in Delays, Accept(p, delay), p \in Posted
      PROVE  QueuedBefore' /\ SameAddressInOrder'
  <2>1. packetQueue' = packetQueue /\ arrivals' = arrivals + 1
    BY <1>2, Zenon DEF Accept
  <2>2. QueuedBefore'
    BY <1>a, <1>b, <1>q, <2>1 DEF QueuedBefore
  <2> QED BY <2>1, <2>2 DEF SameAddressInOrder
<1>3. ASSUME UNCHANGED <<packetQueue, arrivals>>
      PROVE  QueuedBefore' /\ SameAddressInOrder'
  BY <1>3 DEF QueuedBefore, SameAddressInOrder
<1>4. ASSUME NEW taken \in BOOLEAN, Dequeue(taken) \/ RecvRespRetry(taken)
      PROVE  QueuedBefore' /\ SameAddressInOrder'
  <2>1. Send(taken) /\ packetQueue # <<>>
    BY <1>4, SendsSomething DEF Dequeue, RecvRespRetry
  <2>2. CASE ~taken
    BY <1>3, <2>1, <2>2, Zenon DEF Send, Unsent
  <2>3. CASE taken
    <3>1. packetQueue' = Tail(q) /\ arrivals' = arrivals
      BY <2>1, <2>3, Zenon DEF Send, Unsent
    <3>2. /\ DOMAIN packetQueue' = 1 .. Len(q) - 1
          /\ \A i \in 1 .. Len(q) - 1 : packetQueue'[i] = q[i + 1]
      BY <1>q, <2>1, <3>1
    <3> HIDE DEF q
    <3>3. \A i \in 1 .. Len(q) - 1 : packetQueue'[i].nth < arrivals'
      BY <1>b, <1>q, <3>1, <3>2
    <3>4. ASSUME NEW i \in 1 .. Len(q) - 1, NEW j \in 1 .. Len(q) - 1, i < j,
                 AddrOf[packetQueue'[i].pkt] = AddrOf[packetQueue'[j].pkt]
          PROVE  packetQueue'[i].nth < packetQueue'[j].nth
      <4>1. i + 1 \in 1 .. Len(q) /\ j + 1 \in 1 .. Len(q) /\ i + 1 < j + 1
        BY <1>q, <3>4
      <4> QED BY <1>s, <3>2, <3>4, <4>1
    <3> QED BY <3>2, <3>3, <3>4 DEF QueuedBefore, SameAddressInOrder
  <2> QED BY <2>2, <2>3
<1>5. CASE Elapse
  <2>1. /\ DOMAIN packetQueue' = 1 .. Len(q)
        /\ \A i \in 1 .. Len(q) :
             packetQueue'[i].nth = q[i].nth /\ packetQueue'[i].pkt = q[i].pkt
        /\ arrivals' = arrivals
    BY <1>5, <1>q, ElapsedQueue DEF Elapse
  <2>2. QueuedBefore'
    BY <1>b, <2>1 DEF QueuedBefore
  <2>3. SameAddressInOrder'
    BY <1>s, <2>1 DEF SameAddressInOrder
  <2> QED BY <2>2, <2>3
<1>6. Refuse \/ Release \/ UNCHANGED memVars => UNCHANGED <<packetQueue, arrivals>>
  BY DEF Refuse, Release, memVars
<1> QED BY <1>1, <1>2, <1>3, <1>4, <1>5, <1>6 DEF MemNext

-----------------------------------------------------------------------------
\* Types, wake-ups and the order of the queue are inductive together.
THEOREM MemInvariance == MemSpec => []MemInv
<1>1. MemInit => MemInv
  <2> SUFFICES ASSUME MemInit PROVE MemInv
    OBVIOUS
  <2>1. MemTypeOK
    <3>1. packetQueue \in Seq([pkt : Packet, tick : Nat, nth : Nat]) /\ arrivals \in Nat
      BY DEF MemInit
    <3> QED BY <3>1, Zenon DEF MemInit, MemTypeOK
  <2>2. NoWakeupLost
    BY Zenon DEF MemInit, NoWakeupLost
  <2>3. QueuedBefore /\ SameAddressInOrder
    BY DEF MemInit, QueuedBefore, SameAddressInOrder
  <2> QED BY <2>1, <2>2, <2>3 DEF MemInv
<1>2. MemInv /\ [MemNext]_memVars => MemInv'
  BY MemTypesStep, WakeUpsStep, OrderStep DEF MemInv
<1> QED BY <1>1, <1>2, PTL DEF MemSpec

\* A refused request is retried and a queued response is sent, by one event or
\* one retry of the port, not before its time (unified_timing_memory.cc:158-233).
THEOREM NoMemoryWakeupLost == MemSpec => []NoWakeupLost
<1>1. MemInv => NoWakeupLost
  BY DEF MemInv
<1> QED BY <1>1, MemInvariance, PTL

\* Responses to one address leave in the order of their requests: the search
\* from the back of the queue (unified_timing_memory.cc:182-189) stops at an
\* entry whose exact address and secure bit match.
THEOREM SameAddressOrderKept == MemSpec => []SameAddressInOrder
<1>1. MemInv => SameAddressInOrder
  BY DEF MemInv
<1> QED BY <1>1, MemInvariance, PTL

-----------------------------------------------------------------------------
\* The NPU: responses retire in the order of issue, for any AXI IDs, any number of
\* accesses and any order in which the memory finishes them

Queues == [Direction -> [AxiId -> Seq(Nat)]]
Txn    == [axiId : AxiId, memoryDone : BOOLEAN]

\* Shape of the device's tables.
NpuShape ==
  /\ npuStarted \in BOOLEAN /\ npuTickEvent \in BOOLEAN
  /\ nextAxiSequence \in Nat
  /\ orderById \in Queues /\ issued \in Queues /\ retired \in Queues
  /\ DOMAIN txns = Direction

\* A queue holds transactions of its ID ...
Queued ==
  \A dir \in Direction, id \in AxiId :
    \A i \in DOMAIN orderById[dir][id] :
      /\ orderById[dir][id][i] \in DOMAIN txns[dir]
      /\ txns[dir][orderById[dir][id][i]].axiId = id

\* ... oldest first, ...
OldestFirst ==
  \A dir \in Direction, id \in AxiId :
    \A i, j \in DOMAIN orderById[dir][id] :
      i < j => orderById[dir][id][i] < orderById[dir][id][j]

\* ... and every transaction is in the queue of its ID.
Tracked ==
  \A dir \in Direction : \A s \in DOMAIN txns[dir] :
    /\ s \in Nat /\ s < nextAxiSequence /\ txns[dir][s] \in Txn
    /\ \E i \in DOMAIN orderById[dir][txns[dir][s].axiId] :
         orderById[dir][txns[dir][s].axiId][i] = s

NpuInv == NpuShape /\ Queued /\ OldestFirst /\ Tracked /\ RetiresInIssueOrder

-----------------------------------------------------------------------------
\* Ready counts the complete transactions at the front, up to the first that
\* is not.
LEMMA ReadyPrefix ==
  ASSUME NEW order \in Seq(Nat), NEW done
  PROVE  /\ Ready(order, done) \in 0 .. Len(order)
         /\ \A i \in 1 .. Ready(order, done) : order[i] \in done
         /\ Ready(order, done) < Len(order) => order[Ready(order, done) + 1] \notin done
<1> DEFINE Open == {i \in 1 .. Len(order) : order[i] \notin done}
<1>1. Len(order) \in Nat /\ Open \subseteq Nat
  OBVIOUS
<1>2. \E n \in 0 .. Len(order) :
        /\ \A i \in 1 .. n : order[i] \in done
        /\ n < Len(order) => order[n + 1] \notin done
  <2>1. CASE Open = {}
    <3>1. Len(order) \in 0 .. Len(order) /\ \A i \in 1 .. Len(order) : order[i] \in done
      BY <1>1, <2>1
    <3> QED BY <1>1, <3>1
  <2>2. CASE Open # {}
    <3> HIDE DEF Open
    <3>1. PICK m \in Open : \A n \in Open : ~(<<n, m>> \in OpToRel(<, Nat))
      BY <1>1, <2>2, NatLessThanWellFounded, WFMin
    <3>2. ASSUME NEW n \in Open, n < m PROVE FALSE
      <4>1. n \in Nat /\ m \in Nat
        BY <1>1, <3>1
      <4>2. <<n, m>> \in OpToRel(<, Nat)
        BY <3>2, <4>1, ZenonT(20) DEF OpToRel
      <4> QED BY <3>1, <4>2
    <3>3. m \in 1 .. Len(order) /\ order[m] \notin done
      BY <3>1 DEF Open
    <3>4. ASSUME NEW i \in 1 .. m - 1 PROVE order[i] \in done
      <4>1. i \in 1 .. Len(order) /\ i < m
        BY <1>1, <3>3
      <4> QED BY <3>2, <4>1 DEF Open
    <3>5. m - 1 \in 0 .. Len(order) /\ m - 1 + 1 = m
      BY <1>1, <3>3
    <3> QED BY <3>3, <3>4, <3>5
  <2> QED BY <2>1, <2>2
<1> QED BY <1>2, Zenon DEF Ready

LEMMA JoinThree ==
  ASSUME NEW r \in Seq(Nat), NEW s \in Seq(Nat), NEW t \in Seq(Nat)
  PROVE  (r \o s) \o t = r \o (s \o t)
BY ConcatAssociative, SMTT(30)

LEMMA JoinAppend ==
  ASSUME NEW r \in Seq(Nat), NEW s \in Seq(Nat), NEW n \in Nat
  PROVE  Append(r \o s, n) = r \o Append(s, n)
<1>1. Append(r \o s, n) = (r \o s) \o <<n>> /\ Append(s, n) = s \o <<n>> /\ <<n>> \in Seq(Nat)
  <2>1. r \o s \in Seq(Nat)
    OBVIOUS
  <2> QED BY <2>1, AppendIsConcat
<1> QED BY <1>1, JoinThree

\* What retires and what stays, joined, is the queue.
LEMMA SplitQueue ==
  ASSUME NEW order \in Seq(Nat), NEW n \in 0 .. Len(order), NEW before \in Seq(Nat)
  PROVE  /\ SubSeq(order, 1, n) \in Seq(Nat)
         /\ SubSeq(order, n + 1, Len(order)) \in Seq(Nat)
         /\ Len(SubSeq(order, n + 1, Len(order))) = Len(order) - n
         /\ \A i \in 1 .. Len(order) - n :
              SubSeq(order, n + 1, Len(order))[i] = order[n + i]
         /\ (before \o SubSeq(order, 1, n)) \o SubSeq(order, n + 1, Len(order))
              = before \o order
<1> DEFINE rest == SubSeq(order, n + 1, Len(order))
<1>1. /\ SubSeq(order, 1, n) \in Seq(Nat)
      /\ rest \in Seq(Nat) /\ Len(rest) = Len(order) - n
      /\ \A i \in 1 .. Len(order) - n : rest[i] = order[n + i]
  <2>1. \A i \in 1 .. n : order[i] \in Nat
    OBVIOUS
  <2>2. \A i \in n + 1 .. Len(order) : order[i] \in Nat
    OBVIOUS
  <2>3. SubSeq(order, 1, n) \in Seq(Nat)
    BY <2>1, n \in Int, SubSeqProperties
  <2>4. /\ rest \in Seq(Nat)
        /\ Len(rest) = IF n + 1 <= Len(order) THEN Len(order) - (n + 1) + 1 ELSE 0
        /\ \A i \in 1 .. Len(order) - (n + 1) + 1 : rest[i] = order[n + 1 + i - 1]
    BY <2>2, n + 1 \in Int, Len(order) \in Int, SubSeqProperties
  <2>5. n \in Nat /\ Len(order) \in Nat /\ n <= Len(order)
    OBVIOUS
  <2> HIDE DEF rest
  <2>6. Len(rest) = Len(order) - n
    BY <2>4, <2>5
  <2>7. ASSUME NEW i \in 1 .. Len(order) - n PROVE rest[i] = order[n + i]
    <3>1. i \in 1 .. Len(order) - (n + 1) + 1 /\ n + 1 + i - 1 = n + i
      BY <2>5
    <3>2. rest[i] = order[n + 1 + i - 1]
      BY <2>4, <3>1, Zenon
    <3> QED BY <3>1, <3>2, Zenon
  <2> QED BY <2>3, <2>4, <2>6, <2>7, Zenon
<1>2. SubSeq(order, 1, n) \o SubSeq(order, n + 1, Len(order)) = SubSeq(order, 1, Len(order))
  <2>1. 1 \in 1 .. Len(order) + 1 /\ n \in 1 - 1 .. Len(order) /\ Len(order) \in n .. Len(order)
    OBVIOUS
  <2> QED BY <2>1, ConcatAdjacentSubSeq, Zenon
<1>3. SubSeq(order, 1, Len(order)) = order
  BY SubSeqFull
<1>4. (before \o SubSeq(order, 1, n)) \o SubSeq(order, n + 1, Len(order))
        = before \o (SubSeq(order, 1, n) \o SubSeq(order, n + 1, Len(order)))
  BY <1>1, JoinThree
<1> QED BY <1>1, <1>2, <1>3, <1>4

-----------------------------------------------------------------------------
\* An access is appended to the queue of its ID.
LEMMA IssueStep ==
  ASSUME NpuInv, NEW dir \in Direction, NEW id \in AxiId, NEW running \in BOOLEAN,
         NpuIssue(dir, id, running)
  PROVE  NpuInv'
<1> DEFINE next  == nextAxiSequence
           order == orderById[dir][id]
           new   == Append(order, next)
<1>1. next \in Nat /\ order \in Seq(Nat) /\ retired[dir][id] \in Seq(Nat)
  BY DEF NpuInv, NpuShape, Queues
<1>2. /\ new \in Seq(Nat) /\ Len(new) = Len(order) + 1 /\ DOMAIN new = 1 .. Len(order) + 1
      /\ DOMAIN order = 1 .. Len(order) /\ Len(order) \in Nat
      /\ \A i \in 1 .. Len(order) : new[i] = order[i]
      /\ new[Len(order) + 1] = next
  BY <1>1
<1>3. /\ orderById' = [orderById EXCEPT ![dir][id] = new]
      /\ issued' = [issued EXCEPT ![dir][id] = Append(issued[dir][id], next)]
      /\ retired' = retired /\ nextAxiSequence' = next + 1
      /\ npuStarted' = npuStarted /\ npuTickEvent' = running
  BY DEF NpuIssue
<1>4. /\ txns' = [txns EXCEPT ![dir] =
                   [s \in DOMAIN txns[dir] \cup {next} |->
                      IF s = next THEN [axiId |-> id, memoryDone |-> FALSE] ELSE txns[dir][s]]]
  BY DEF NpuIssue
<1>5. NpuShape'
  <2>1. orderById' \in Queues /\ issued' \in Queues /\ retired' \in Queues
    BY <1>1, <1>2, <1>3 DEF NpuInv, NpuShape, Queues
  <2>2. DOMAIN txns' = Direction
    BY <1>4 DEF NpuInv, NpuShape
  <2> QED BY <1>1, <1>3, <2>1, <2>2 DEF NpuInv, NpuShape
\* The queues and the transactions one by one.
<1>6. \A d \in Direction, a \in AxiId :
        orderById'[d][a] = IF d = dir /\ a = id THEN new ELSE orderById[d][a]
  BY <1>3 DEF NpuInv, NpuShape, Queues
<1>7. \A d \in Direction :
        DOMAIN txns'[d] = IF d = dir THEN DOMAIN txns[dir] \cup {next} ELSE DOMAIN txns[d]
  BY <1>4 DEF NpuInv, NpuShape
<1>8. next \notin DOMAIN txns[dir] /\ DOMAIN txns[dir] \subseteq Nat
  BY <1>1 DEF NpuInv, Tracked
<1>9. /\ \A d \in Direction : \A s \in DOMAIN txns[d] : txns'[d][s] = txns[d][s]
      /\ txns'[dir][next] = [axiId |-> id, memoryDone |-> FALSE]
  BY <1>4, <1>8 DEF NpuInv, NpuShape
<1> HIDE DEF next, order, new
<1>10. ASSUME NEW d \in Direction, NEW a \in AxiId, NEW i \in DOMAIN orderById'[d][a]
       PROVE  /\ orderById'[d][a][i] \in DOMAIN txns'[d]
              /\ txns'[d][orderById'[d][a][i]].axiId = a
  <2>1. CASE d = dir /\ a = id /\ i = Len(order) + 1
    BY <1>2, <1>6, <1>7, <1>9, <2>1
  <2>2. CASE ~(d = dir /\ a = id /\ i = Len(order) + 1)
    <3>1. i \in DOMAIN orderById[d][a] /\ orderById'[d][a][i] = orderById[d][a][i]
      <4>1. CASE d = dir /\ a = id
        <5>1. orderById'[d][a] = new /\ orderById[d][a] = order
          BY <1>6, <4>1 DEF order
        <5>2. i \in 1 .. Len(order)
          BY <1>2, <2>2, <4>1, <5>1
        <5> QED BY <1>2, <5>1, <5>2
      <4>2. CASE ~(d = dir /\ a = id)
        BY <1>6, <4>2
      <4> QED BY <4>1, <4>2
    <3>2. /\ orderById[d][a][i] \in DOMAIN txns[d]
          /\ txns[d][orderById[d][a][i]].axiId = a
      BY <3>1 DEF NpuInv, Queued
    <3> QED BY <1>7, <1>9, <3>1, <3>2
  <2> QED BY <2>1, <2>2
<1>11. \A i \in 1 .. Len(order) : order[i] < next
  BY <1>2 DEF NpuInv, Queued, Tracked, order, next
<1>12. ASSUME NEW d \in Direction, NEW a \in AxiId, NEW i \in DOMAIN orderById'[d][a],
              NEW j \in DOMAIN orderById'[d][a], i < j
       PROVE  orderById'[d][a][i] < orderById'[d][a][j]
  <2>1. CASE d = dir /\ a = id
    <3>1. i \in 1 .. Len(order) /\ j \in 1 .. Len(order) + 1
      BY <1>2, <1>6, <1>12, <2>1
    <3>2. CASE j = Len(order) + 1
      BY <1>2, <1>6, <1>11, <2>1, <3>1, <3>2
    <3>3. CASE j # Len(order) + 1
      <4>1. j \in 1 .. Len(order)
        BY <1>2, <3>1, <3>3
      <4>2. order[i] < order[j]
        BY <1>2, <1>12, <3>1, <4>1 DEF NpuInv, OldestFirst, order
      <4> QED BY <1>2, <1>6, <2>1, <3>1, <4>1, <4>2
    <3> QED BY <3>2, <3>3
  <2>2. CASE ~(d = dir /\ a = id)
    BY <1>6, <1>12, <2>2 DEF NpuInv, OldestFirst
  <2> QED BY <2>1, <2>2
<1>13. ASSUME NEW d \in Direction, NEW s \in DOMAIN txns'[d]
       PROVE  /\ s \in Nat /\ s < nextAxiSequence' /\ txns'[d][s] \in Txn
              /\ \E i \in DOMAIN orderById'[d][txns'[d][s].axiId] :
                   orderById'[d][txns'[d][s].axiId][i] = s
  <2>1. CASE d = dir /\ s = next
    <3>1. txns'[d][s] = [axiId |-> id, memoryDone |-> FALSE]
      BY <1>9, <2>1
    <3>2. orderById'[d][id] = new /\ Len(order) + 1 \in DOMAIN new /\ new[Len(order) + 1] = s
      BY <1>2, <1>6, <2>1
    <3>3. txns'[d][s] \in Txn /\ txns'[d][s].axiId = id
      BY <3>1 DEF Txn
    <3>4. s \in Nat /\ s < nextAxiSequence'
      BY <1>1, <1>3, <2>1 DEF next
    <3> QED BY <2>1, <3>2, <3>3, <3>4, Zenon
  <2>2. CASE ~(d = dir /\ s = next)
    <3>1. s \in DOMAIN txns[d] /\ txns'[d][s] = txns[d][s]
      BY <1>7, <1>9, <2>2
    <3>2. s \in Nat /\ s < next /\ txns[d][s] \in Txn
      BY <3>1 DEF NpuInv, Tracked, next
    <3>3. PICK i \in DOMAIN orderById[d][txns[d][s].axiId] :
                 orderById[d][txns[d][s].axiId][i] = s
      BY <3>1 DEF NpuInv, Tracked
    <3>4. txns[d][s].axiId \in AxiId
      BY <3>2 DEF Txn
    <3>5. /\ i \in DOMAIN orderById'[d][txns[d][s].axiId]
          /\ orderById'[d][txns[d][s].axiId][i] = s
      <4>1. CASE d = dir /\ txns[d][s].axiId = id
        <5>1. orderById'[d][txns[d][s].axiId] = new /\ orderById[d][txns[d][s].axiId] = order
          BY <1>6, <4>1 DEF order
        <5> QED BY <1>2, <3>3, <5>1
      <4>2. CASE ~(d = dir /\ txns[d][s].axiId = id)
        BY <1>6, <3>3, <3>4, <4>2
      <4> QED BY <4>1, <4>2
    <3>6. s < nextAxiSequence'
      BY <1>1, <1>3, <3>2 DEF next
    <3> QED BY <3>1, <3>2, <3>5, <3>6, Zenon
  <2> QED BY <2>1, <2>2
<1>14. ASSUME NEW d \in Direction, NEW a \in AxiId
       PROVE  issued'[d][a] = retired'[d][a] \o orderById'[d][a]
  <2>1. issued[d][a] = retired[d][a] \o orderById[d][a]
    BY DEF NpuInv, RetiresInIssueOrder
  <2>2. CASE d = dir /\ a = id
    <3>1. issued'[d][a] = Append(retired[dir][id] \o order, next)
      BY <1>3, <2>1, <2>2 DEF NpuInv, NpuShape, Queues, order
    <3>2. Append(retired[dir][id] \o order, next) = retired[dir][id] \o new
      BY <1>1, JoinAppend DEF new
    <3> QED BY <1>3, <1>6, <2>2, <3>1, <3>2
  <2>3. CASE ~(d = dir /\ a = id)
    <3>1. issued'[d][a] = issued[d][a]
      BY <1>3, <2>3 DEF NpuInv, NpuShape, Queues
    <3> QED BY <1>3, <1>6, <2>1, <2>3, <3>1
  <2> QED BY <2>2, <2>3
<1>15. ASSUME NEW d \in Direction, NEW a \in AxiId, orderById'[d][a] # <<>>
       PROVE  ~txns'[d][Head(orderById'[d][a])].memoryDone
  <2>1. CASE d = dir /\ a = id /\ order = <<>>
    <3>1. Head(orderById'[d][a]) = next
      BY <1>1, <1>6, <2>1 DEF new
    <3> QED BY <1>9, <2>1, <3>1
  <2>2. CASE ~(d = dir /\ a = id /\ order = <<>>)
    <3>1. orderById[d][a] # <<>> /\ Head(orderById'[d][a]) = Head(orderById[d][a])
      <4>1. CASE d = dir /\ a = id
        <5>1. orderById'[d][a] = new /\ orderById[d][a] = order /\ order # <<>>
          BY <1>6, <2>2, <4>1 DEF order
        <5> QED BY <1>1, <5>1 DEF new
      <4>2. CASE ~(d = dir /\ a = id)
        BY <1>6, <1>15, <4>2
      <4> QED BY <4>1, <4>2
    <3>2. orderById[d][a] \in Seq(Nat)
      BY DEF NpuInv, NpuShape, Queues
    <3>3. Head(orderById[d][a]) = orderById[d][a][1] /\ 1 \in DOMAIN orderById[d][a]
      BY <3>1, <3>2
    <3>4. Head(orderById[d][a]) \in DOMAIN txns[d]
      BY <3>3 DEF NpuInv, Queued
    <3>5. ~txns[d][Head(orderById[d][a])].memoryDone
      BY <3>1 DEF NpuInv, RetiresInIssueOrder
    <3> QED BY <1>9, <3>1, <3>4, <3>5
  <2> QED BY <2>1, <2>2
<1>16. Queued'
  BY <1>10 DEF Queued
<1>17. OldestFirst'
  BY <1>12 DEF OldestFirst
<1>18. Tracked'
  BY <1>13 DEF Tracked
<1>19. RetiresInIssueOrder'
  BY <1>14, <1>15 DEF RetiresInIssueOrder
<1> QED BY <1>5, <1>16, <1>17, <1>18, <1>19 DEF NpuInv

-----------------------------------------------------------------------------
\* A completion retires the complete transactions at the front of its queue
\* and leaves all others where they are.
LEMMA CompleteStep ==
  ASSUME NpuInv, NEW dir \in Direction, NEW s \in DOMAIN txns[dir], MemoryComplete(dir, s)
  PROVE  NpuInv'
<1> DEFINE id    == txns[dir][s].axiId
           order == orderById[dir][id]
           done  == {t \in DOMAIN txns[dir] : txns[dir][t].memoryDone} \cup {s}
           n     == Ready(order, done)
           gone  == {order[i] : i \in 1 .. n}
           rest  == SubSeq(order, n + 1, Len(order))
           mark(t) == IF t = s THEN [txns[dir][t] EXCEPT !.memoryDone = TRUE] ELSE txns[dir][t]
<1>1. id \in AxiId /\ order \in Seq(Nat) /\ retired[dir][id] \in Seq(Nat)
  BY DEF NpuInv, NpuShape, Queues, Tracked, Txn
<1>2. /\ orderById' = [orderById EXCEPT ![dir][id] = rest]
      /\ retired' = [retired EXCEPT ![dir][id] = retired[dir][id] \o SubSeq(order, 1, n)]
      /\ txns' = [txns EXCEPT ![dir] = [t \in DOMAIN txns[dir] \ gone |-> mark(t)]]
      /\ UNCHANGED <<npuStarted, npuTickEvent, nextAxiSequence, issued>>
  BY DEF MemoryComplete
<1> HIDE DEF n
<1>3. /\ n \in 0 .. Len(order)
      /\ \A i \in 1 .. n : order[i] \in done
      /\ n < Len(order) => order[n + 1] \notin done
  <2> HIDE DEF order, done
  <2> QED BY <1>1, ReadyPrefix DEF n
<1>4. /\ Len(order) \in Nat /\ DOMAIN order = 1 .. Len(order)
      /\ SubSeq(order, 1, n) \in Seq(Nat) /\ rest \in Seq(Nat)
      /\ Len(rest) = Len(order) - n /\ DOMAIN rest = 1 .. Len(order) - n
      /\ \A i \in 1 .. Len(order) - n : rest[i] = order[n + i]
      /\ (retired[dir][id] \o SubSeq(order, 1, n)) \o rest = retired[dir][id] \o order
  <2> HIDE DEF order, id
  <2>1. Len(order) \in Nat /\ DOMAIN order = 1 .. Len(order)
    BY <1>1
  <2>2. /\ SubSeq(order, 1, n) \in Seq(Nat) /\ rest \in Seq(Nat)
        /\ Len(rest) = Len(order) - n
        /\ \A i \in 1 .. Len(order) - n : rest[i] = order[n + i]
        /\ (retired[dir][id] \o SubSeq(order, 1, n)) \o rest = retired[dir][id] \o order
    BY <1>1, <1>3, SplitQueue
  <2> HIDE DEF rest
  <2>3. DOMAIN rest = 1 .. Len(order) - n
    BY <2>2
  <2> QED BY <2>1, <2>2, <2>3, Zenon
<1>5. /\ \A i \in DOMAIN order : order[i] \in DOMAIN txns[dir] /\ txns[dir][order[i]].axiId = id
      /\ \A i, j \in DOMAIN order : i < j => order[i] < order[j]
  BY <1>1 DEF NpuInv, Queued, OldestFirst
<1> HIDE DEF order, rest, done
<1>5a. /\ n \in Nat /\ Len(order) \in Nat /\ n <= Len(order)
       /\ DOMAIN order = 1 .. Len(order) /\ rest \in Seq(Nat) /\ Len(rest) = Len(order) - n
  <2>1. n \in 0 .. Len(order)
    BY <1>3, Zenon
  <2>2. /\ Len(order) \in Nat /\ DOMAIN order = 1 .. Len(order) /\ rest \in Seq(Nat)
        /\ Len(rest) = Len(order) - n
    BY <1>4, Zenon
  <2> QED BY <2>1, <2>2
\* What stays behind is neither gone nor was it just completed.
<1>6. ASSUME NEW i \in 1 .. Len(order) - n
      PROVE  n + i \in DOMAIN order /\ order[n + i] \notin gone
  <2>1. n + i \in 1 .. Len(order)
    BY <1>5a
  <2>2. ASSUME NEW j \in 1 .. n PROVE order[n + i] # order[j]
    <3>1. j \in DOMAIN order /\ n + i \in DOMAIN order /\ j < n + i
      BY <1>5a, <2>1
    <3>2. order[j] < order[n + i] /\ order[j] \in Nat /\ order[n + i] \in Nat
      BY <1>1, <1>5, <3>1
    <3> QED BY <3>2
  <2> QED BY <1>5a, <2>1, <2>2
<1>7. \A t \in gone : t \in DOMAIN txns[dir] /\ txns[dir][t].axiId = id
  <2>1. \A i \in 1 .. n : i \in DOMAIN order
    BY <1>5a
  <2> QED BY <1>5, <2>1
<1>8. \A d \in Direction :
        DOMAIN txns'[d] = IF d = dir THEN DOMAIN txns[dir] \ gone ELSE DOMAIN txns[d]
  BY <1>2 DEF NpuInv, NpuShape
<1>9. \A d \in Direction, a \in AxiId :
        /\ orderById'[d][a] = IF d = dir /\ a = id THEN rest ELSE orderById[d][a]
        /\ retired'[d][a] = IF d = dir /\ a = id
                             THEN retired[dir][id] \o SubSeq(order, 1, n) ELSE retired[d][a]
  <2> HIDE DEF id
  <2> QED BY <1>1, <1>2 DEF NpuInv, NpuShape, Queues
<1>10. ASSUME NEW d \in Direction, NEW t \in DOMAIN txns'[d]
       PROVE  /\ t \in DOMAIN txns[d] /\ txns'[d][t].axiId = txns[d][t].axiId
              /\ txns'[d][t] \in Txn
              /\ ~(d = dir /\ t = s) => txns'[d][t] = txns[d][t]
  <2>1. t \in DOMAIN txns[d] /\ txns[d][t] \in Txn
    BY <1>8 DEF NpuInv, Tracked
  <2>2. CASE d = dir
    <3>1. txns'[d][t] = mark(t)
      BY <1>2, <1>8, <2>2 DEF NpuInv, NpuShape
    <3> QED BY <2>1, <2>2, <3>1 DEF Txn
  <2>3. CASE d # dir
    BY <1>2, <2>1, <2>3 DEF NpuInv, NpuShape
  <2> QED BY <2>2, <2>3
\* The queues that are not touched keep their transactions.
<1>11. ASSUME NEW d \in Direction, NEW a \in AxiId, ~(d = dir /\ a = id),
              NEW t \in DOMAIN txns[d], txns[d][t].axiId = a
       PROVE  t \in DOMAIN txns'[d] /\ txns'[d][t] = txns[d][t]
  <2>1. t \in DOMAIN txns'[d]
    BY <1>7, <1>8, <1>11
  <2> QED BY <1>10, <1>11, <2>1
<1> HIDE DEF gone, mark
<1>12. NpuShape'
  <2> HIDE DEF id
  <2>1. orderById' \in Queues /\ retired' \in Queues
    <3>1. retired[dir][id] \o SubSeq(order, 1, n) \in Seq(Nat)
      BY <1>1, <1>4
    <3> QED BY <1>1, <1>2, <1>4, <3>1 DEF NpuInv, NpuShape, Queues
  <2>2. DOMAIN txns' = Direction
    BY <1>2 DEF NpuInv, NpuShape
  <2> QED BY <1>2, <2>1, <2>2, Zenon DEF NpuInv, NpuShape
<1>13. ASSUME NEW d \in Direction, NEW a \in AxiId, NEW i \in DOMAIN orderById'[d][a]
       PROVE  /\ orderById'[d][a][i] \in DOMAIN txns'[d]
              /\ txns'[d][orderById'[d][a][i]].axiId = a
  <2>1. CASE d = dir /\ a = id
    <3>1. i \in 1 .. Len(order) - n /\ orderById'[d][a][i] = order[n + i]
      BY <1>4, <1>9, <2>1
    <3>2. order[n + i] \in DOMAIN txns'[d] /\ txns[dir][order[n + i]].axiId = id
      BY <1>5, <1>6, <1>8, <2>1, <3>1
    <3> QED BY <1>10, <2>1, <3>1, <3>2
  <2>2. CASE ~(d = dir /\ a = id)
    <3>1. orderById'[d][a] = orderById[d][a]
      BY <1>9, <2>2
    <3>2. orderById[d][a][i] \in DOMAIN txns[d] /\ txns[d][orderById[d][a][i]].axiId = a
      BY <3>1 DEF NpuInv, Queued
    <3> QED BY <1>11, <2>2, <3>1, <3>2
  <2> QED BY <2>1, <2>2
<1>14. ASSUME NEW d \in Direction, NEW a \in AxiId, NEW i \in DOMAIN orderById'[d][a],
              NEW j \in DOMAIN orderById'[d][a], i < j
       PROVE  orderById'[d][a][i] < orderById'[d][a][j]
  <2>1. CASE d = dir /\ a = id
    <3>1. /\ i \in 1 .. Len(order) - n /\ orderById'[d][a][i] = order[n + i]
          /\ j \in 1 .. Len(order) - n /\ orderById'[d][a][j] = order[n + j]
      BY <1>4, <1>9, <2>1
    <3>2. n + i \in DOMAIN order /\ n + j \in DOMAIN order /\ n + i < n + j
      BY <1>14, <1>5a, <3>1
    <3> QED BY <1>5, <3>1, <3>2
  <2>2. CASE ~(d = dir /\ a = id)
    <3>1. orderById'[d][a] = orderById[d][a]
      BY <1>9, <2>2
    <3> QED BY <1>14, <3>1 DEF NpuInv, OldestFirst
  <2> QED BY <2>1, <2>2
<1>15. ASSUME NEW d \in Direction, NEW t \in DOMAIN txns'[d]
       PROVE  /\ t \in Nat /\ t < nextAxiSequence' /\ txns'[d][t] \in Txn
              /\ \E i \in DOMAIN orderById'[d][txns'[d][t].axiId] :
                   orderById'[d][txns'[d][t].axiId][i] = t
  <2> DEFINE a == txns[d][t].axiId
  <2>1. /\ t \in DOMAIN txns[d] /\ txns'[d][t].axiId = a /\ txns'[d][t] \in Txn
    BY <1>10
  <2>2. t \in Nat /\ t < nextAxiSequence' /\ a \in AxiId
    BY <1>2, <2>1 DEF NpuInv, Tracked, Txn
  <2>3. PICK i \in DOMAIN orderById[d][a] : orderById[d][a][i] = t
    BY <2>1 DEF NpuInv, Tracked
  <2> HIDE DEF a
  <2>4. \E k \in DOMAIN orderById'[d][a] : orderById'[d][a][k] = t
    <3>1. CASE d = dir /\ a = id
      <4>1. orderById[d][a] = order /\ orderById'[d][a] = rest
        BY <1>9, <2>2, <3>1 DEF order
      <4>2. i \in 1 .. Len(order) /\ order[i] = t
        BY <1>4, <2>3, <4>1
      <4>3. ~(i <= n)
        <5> SUFFICES ASSUME i <= n PROVE FALSE
          OBVIOUS
        <5>1. t \in gone
          BY <1>5a, <4>2 DEF gone
        <5> QED BY <1>8, <3>1, <5>1
      <4>4. i - n \in 1 .. Len(order) - n /\ n + (i - n) = i
        BY <1>5a, <4>2, <4>3
      <4> QED BY <1>4, <4>1, <4>2, <4>4
    <3>2. CASE ~(d = dir /\ a = id)
      <4>1. orderById'[d][a] = orderById[d][a]
        BY <1>9, <2>2, <3>2
      <4> QED BY <2>3, <4>1
    <3> QED BY <3>1, <3>2
  <2> QED BY <2>1, <2>2, <2>4
<1>16. ASSUME NEW d \in Direction, NEW a \in AxiId
       PROVE  issued'[d][a] = retired'[d][a] \o orderById'[d][a]
  <2>1. issued'[d][a] = issued[d][a] /\ issued[d][a] = retired[d][a] \o orderById[d][a]
    BY <1>2 DEF NpuInv, RetiresInIssueOrder
  <2>2. CASE d = dir /\ a = id
    <3>1. orderById[d][a] = order
      BY <2>2 DEF order
    <3> QED BY <1>4, <1>9, <2>1, <2>2, <3>1
  <2>3. CASE ~(d = dir /\ a = id)
    BY <1>9, <2>1, <2>3
  <2> QED BY <2>2, <2>3
<1>17. ASSUME NEW d \in Direction, NEW a \in AxiId, orderById'[d][a] # <<>>
       PROVE  ~txns'[d][Head(orderById'[d][a])].memoryDone
  <2>1. CASE d = dir /\ a = id
    <3>1. orderById'[d][a] = rest /\ rest # <<>>
      BY <1>9, <1>17, <2>1
    <3>2. n < Len(order) /\ Head(rest) = rest[1] /\ 1 \in 1 .. Len(order) - n
      BY <1>5a, <3>1
    <3>2a. rest[1] = order[n + 1]
      BY <1>4, <3>2, Zenon
    <3>3. /\ order[n + 1] \in DOMAIN txns[dir] /\ order[n + 1] \notin gone
          /\ order[n + 1] \notin done
      BY <1>3, <1>5, <1>6, <3>2
    <3>4. order[n + 1] \in DOMAIN txns'[d] /\ order[n + 1] # s /\ ~txns[dir][order[n + 1]].memoryDone
      BY <1>8, <2>1, <3>3 DEF done
    <3> QED BY <1>10, <2>1, <3>1, <3>2, <3>4, <3>2a
  <2>2. CASE ~(d = dir /\ a = id)
    <3>1. orderById'[d][a] = orderById[d][a] /\ orderById[d][a] # <<>>
      BY <1>9, <1>17, <2>2
    <3>2. orderById[d][a] \in Seq(Nat)
      BY DEF NpuInv, NpuShape, Queues
    <3>3. Head(orderById[d][a]) = orderById[d][a][1] /\ 1 \in DOMAIN orderById[d][a]
      BY <3>1, <3>2
    <3>4. /\ Head(orderById[d][a]) \in DOMAIN txns[d]
          /\ txns[d][Head(orderById[d][a])].axiId = a
      BY <3>3 DEF NpuInv, Queued
    <3>5. ~txns[d][Head(orderById[d][a])].memoryDone
      BY <3>1 DEF NpuInv, RetiresInIssueOrder
    <3> QED BY <1>11, <2>2, <3>1, <3>4, <3>5
  <2> QED BY <2>1, <2>2
<1>18. Queued'
  BY <1>13 DEF Queued
<1>19. OldestFirst'
  BY <1>14 DEF OldestFirst
<1>20. Tracked'
  BY <1>15 DEF Tracked
<1>21. RetiresInIssueOrder'
  BY <1>16, <1>17 DEF RetiresInIssueOrder
<1> QED BY <1>12, <1>18, <1>19, <1>20, <1>21 DEF NpuInv

-----------------------------------------------------------------------------
\* The tables of the device stay consistent, whatever the order of completions.
THEOREM NpuInvariance == NpuSpec => []NpuInv
<1>1. NpuInit => NpuInv
  <2> SUFFICES ASSUME NpuInit PROVE NpuInv
    OBVIOUS
  <2>1. /\ txns = [dir \in Direction |-> <<>>]
        /\ orderById = [dir \in Direction |-> [id \in AxiId |-> <<>>]]
        /\ issued = orderById /\ retired = orderById /\ nextAxiSequence = 0
        /\ npuStarted = FALSE /\ npuTickEvent = FALSE
    BY DEF NpuInit
  <2>2. NpuShape
    <3>1. orderById \in Queues
      BY <2>1 DEF Queues
    <3> QED BY <2>1, <3>1 DEF NpuShape
  <2>3. Queued /\ OldestFirst /\ Tracked
    BY <2>1 DEF Queued, OldestFirst, Tracked
  <2>4. RetiresInIssueOrder
    <3>1. \A dir \in Direction, id \in AxiId :
            orderById[dir][id] = <<>> /\ issued[dir][id] = <<>> /\ retired[dir][id] = <<>>
      BY <2>1
    <3>2. <<>> \o <<>> = <<>>
      OBVIOUS
    <3> QED BY <3>1, <3>2 DEF RetiresInIssueOrder
  <2> QED BY <2>2, <2>3, <2>4 DEF NpuInv
<1>2. NpuInv /\ [NpuNext]_npuVars => NpuInv'
  <2> SUFFICES ASSUME NpuInv, [NpuNext]_npuVars PROVE NpuInv'
    OBVIOUS
  <2>1. ASSUME UNCHANGED <<nextAxiSequence, txns, orderById, issued, retired>>,
               npuStarted' \in BOOLEAN, npuTickEvent' \in BOOLEAN
        PROVE  NpuInv'
    <3>1. NpuShape'
      BY <2>1, Zenon DEF NpuInv, NpuShape
    <3>2. Queued' /\ OldestFirst'
      BY <2>1 DEF NpuInv, Queued, OldestFirst
    <3>3. Tracked'
      BY <2>1 DEF NpuInv, Tracked
    <3>4. RetiresInIssueOrder'
      BY <2>1 DEF NpuInv, RetiresInIssueOrder
    <3> QED BY <3>1, <3>2, <3>3, <3>4 DEF NpuInv
  <2>2. CASE LoadAndStart
    BY <2>1, <2>2, Zenon DEF LoadAndStart
  <2>3. CASE NpuHalts
    BY <2>1, <2>3, Zenon DEF NpuHalts, NpuInv, NpuShape
  <2>4. CASE UNCHANGED npuVars
    BY <2>1, <2>4, Zenon DEF npuVars, NpuInv, NpuShape
  <2> QED BY <2>2, <2>3, <2>4, IssueStep, CompleteStep DEF NpuNext
<1> QED BY <1>1, <1>2, PTL DEF NpuSpec

\* Responses of one AXI ID reach the core in the order of issue, each once, and
\* wait only for older ones of their ID and direction (coralnpu_dev.cc:243-328).
THEOREM IssueOrderKept == NpuSpec => []RetiresInIssueOrder
<1>1. NpuInv => RetiresInIssueOrder
  BY DEF NpuInv
<1> QED BY <1>1, NpuInvariance, PTL

\* Types of the device's tables (coralnpu_dev.hh:193-227).
THEOREM NpuTypeCorrect == NpuSpec => []NpuTypeOK
<1>1. NpuInv => NpuTypeOK
  <2> SUFFICES ASSUME NpuInv PROVE NpuTypeOK
    OBVIOUS
  <2>1. \A dir \in Direction : \A s \in DOMAIN txns[dir] : txns[dir][s] \in Txn
    BY DEF NpuInv, Tracked
  <2>2. \A dir \in Direction, id \in AxiId : orderById[dir][id] \in Seq(Nat)
    BY DEF NpuInv, NpuShape, Queues
  <2> QED BY <2>1, <2>2, Zenon DEF NpuTypeOK, NpuInv, NpuShape, Txn
<1> QED BY <1>1, NpuInvariance, PTL

-----------------------------------------------------------------------------
\* The GPU: the wake-up invariant, for any commands and any number of them

GpuInv == GpuTypeOK /\ ResumedExactlyWithData

-----------------------------------------------------------------------------
\* Type correctness holds initially and is preserved by every step: writes of
\* the PIO handler, both tick events, completions (vortex_gpgpu_dev.cc).
LEMMA GpuTypes == GpuInit => GpuTypeOK
<1> SUFFICES ASSUME GpuInit PROVE GpuTypeOK
  OBVIOUS
<1>1. commands \in Seq(Command) /\ cpSteps \in Nat /\ kernelLeft \in Nat /\ nextToken \in Nat
  BY SMT DEF GpuInit
<1>2. /\ launched \in BOOLEAN /\ cpSuspended \in BOOLEAN /\ activeCpDma \in BOOLEAN
      /\ cpTickEvent \in BOOLEAN /\ vortexTickEvent \in BOOLEAN
      /\ coreDmas \subseteq Nat
  BY Zenon DEF GpuInit
<1> QED BY <1>1, <1>2, Zenon DEF GpuTypeOK

LEMMA GpuTypesStep == GpuTypeOK /\ [GpuNext]_gpuVars => GpuTypeOK'
<1> SUFFICES ASSUME GpuTypeOK, [GpuNext]_gpuVars
             PROVE  GpuTypeOK'
  OBVIOUS
<1> USE DEF GpuTypeOK
<1>1. ASSUME NEW c \in Command, Doorbell(c) PROVE GpuTypeOK'
  <2>1. commands' \in Seq(Command)
    BY <1>1 DEF Doorbell
  <2>2. cpTickEvent' \in BOOLEAN
    BY <1>1 DEF Doorbell, MaybeWakeCp
  <2> QED BY <1>1, <2>1, <2>2 DEF Doorbell
<1>2. CASE CpAccess
  <2>1. cpSteps' \in Nat
    BY <1>2, SMT DEF CpAccess
  <2> QED BY <1>2, <2>1, Zenon DEF CpAccess
<1>3. ASSUME NEW busy \in BOOLEAN, CpLaunch(busy) PROVE GpuTypeOK'
  <2>1. Head(commands) \in Command
    BY <1>3 DEF CpLaunch
  <2>2. kernelLeft' \in Nat
    BY <1>3, <2>1 DEF CpLaunch, Command
  <2> QED BY <1>3, <2>2 DEF CpLaunch
<1>4. ASSUME NEW busy \in BOOLEAN, CpPoll(busy) PROVE GpuTypeOK'
  BY <1>4 DEF CpPoll
<1>5. CASE CpRetire
  <2>1. commands' \in Seq(Command)
    BY <1>5 DEF CpRetire
  <2>2. cpTickEvent' \in BOOLEAN
    BY <1>5 DEF CpRetire
  <2> QED BY <1>5, <2>1, <2>2 DEF CpRetire
<1>6. CASE DmaComplete
  BY <1>6 DEF DmaComplete
<1>7. CASE IssueCoreTiming
  BY <1>7 DEF IssueCoreTiming
<1>8. ASSUME NEW token \in coreDmas, CoreDmaComplete(token) PROVE GpuTypeOK'
  BY <1>8 DEF CoreDmaComplete
<1>9. CASE KernelEnds
  <2>1. cpTickEvent' \in BOOLEAN
    BY <1>9 DEF KernelEnds, WokenByKernel, MaybeWakeCp
  <2> QED BY <1>9, <2>1 DEF KernelEnds
<1>10. CASE UNCHANGED gpuVars
  BY <1>10 DEF gpuVars
<1> QED BY <1>1, <1>2, <1>3, <1>4, <1>5, <1>6, <1>7, <1>8, <1>9, <1>10 DEF GpuNext

-----------------------------------------------------------------------------
\* A CP whose event is due is not waiting for data; so whatever the event does
\* meets no outstanding operation.
LEMMA NoDataDueAtTick ==
  ASSUME GpuInv, cpTickEvent
  PROVE  ~activeCpDma
BY DEF GpuInv, ResumedExactlyWithData, GpuTypeOK

\* maybeWakeCp keeps both promises: it never wakes a CP that waits for its
\* data, and always one that has work and does not.
LEMMA WakeIsSound ==
  ASSUME GpuInv, NEW left, left # <<>>
  PROVE  /\ cpSuspended => (activeCpDma <=> ~MaybeWakeCp(left))
         /\ ~cpSuspended => MaybeWakeCp(left)
BY DEF GpuInv, ResumedExactlyWithData, GpuTypeOK, MaybeWakeCp

LEMMA CpWakeUpsStep == GpuInv /\ [GpuNext]_gpuVars => ResumedExactlyWithData'
<1> SUFFICES ASSUME GpuInv, [GpuNext]_gpuVars
             PROVE  ResumedExactlyWithData'
  OBVIOUS
<1> USE DEF GpuInv
<1>1. ASSUME NEW c \in Command, Doorbell(c) PROVE ResumedExactlyWithData'
  <2>1. commands' # <<>>
    BY <1>1 DEF Doorbell, GpuTypeOK
  <2>2. cpTickEvent' = MaybeWakeCp(commands')
    BY <1>1 DEF Doorbell
  <2>3. UNCHANGED <<cpSuspended, activeCpDma, launched, vortexTickEvent>>
    BY <1>1 DEF Doorbell
  <2>4. /\ cpSuspended => (activeCpDma <=> ~cpTickEvent')
        /\ ~cpSuspended => cpTickEvent'
    BY <2>1, <2>2, WakeIsSound, Zenon
  <2> QED BY <2>3, <2>4, Zenon DEF ResumedExactlyWithData
<1>2. CASE CpAccess
  BY <1>2 DEF CpAccess, ResumedExactlyWithData
<1>3. ASSUME NEW busy \in BOOLEAN, CpLaunch(busy) PROVE ResumedExactlyWithData'
  BY <1>3, NoDataDueAtTick DEF CpLaunch, ResumedExactlyWithData
<1>4. ASSUME NEW busy \in BOOLEAN, CpPoll(busy) PROVE ResumedExactlyWithData'
  BY <1>4, NoDataDueAtTick DEF CpPoll, ResumedExactlyWithData
<1>5. CASE CpRetire
  BY <1>5, NoDataDueAtTick DEF CpRetire, ResumedExactlyWithData
<1>6. CASE DmaComplete
  <2>1. activeCpDma /\ cpSuspended
    BY <1>6 DEF DmaComplete, ResumedExactlyWithData
  <2>2. ~activeCpDma' /\ cpTickEvent' /\ cpSuspended'
    BY <1>6, <2>1, Zenon DEF DmaComplete
  <2> QED BY <2>2, Zenon DEF ResumedExactlyWithData
<1>7. CASE IssueCoreTiming
  BY <1>7 DEF IssueCoreTiming, ResumedExactlyWithData
<1>8. ASSUME NEW token \in coreDmas, CoreDmaComplete(token) PROVE ResumedExactlyWithData'
  BY <1>8 DEF CoreDmaComplete, ResumedExactlyWithData
<1>9. CASE KernelEnds
  <2>1. CASE commands = <<>>
    <3>1. cpTickEvent' = cpTickEvent
      BY <1>9, <2>1 DEF KernelEnds, WokenByKernel, MaybeWakeCp, GpuTypeOK
    <3> QED BY <1>9, <2>1, <3>1 DEF KernelEnds, ResumedExactlyWithData
  <2>2. CASE commands # <<>>
    <3>1. cpTickEvent' = MaybeWakeCp(commands)
      BY <1>9 DEF KernelEnds, WokenByKernel
    <3>2. UNCHANGED <<commands, cpSuspended, activeCpDma>>
      BY <1>9 DEF KernelEnds
    <3>3. /\ cpSuspended => (activeCpDma <=> ~cpTickEvent')
          /\ ~cpSuspended => cpTickEvent'
      BY <2>2, <3>1, WakeIsSound, Zenon
    <3> QED BY <3>2, <3>3, Zenon DEF ResumedExactlyWithData
  <2> QED BY <2>1, <2>2
<1>10. CASE UNCHANGED gpuVars
  BY <1>10 DEF gpuVars, ResumedExactlyWithData
<1> QED BY <1>1, <1>2, <1>3, <1>4, <1>5, <1>6, <1>7, <1>8, <1>9, <1>10 DEF GpuNext

-----------------------------------------------------------------------------
\* Types and wake-ups together are inductive.
THEOREM GpuInvariance == GpuSpec => []GpuInv
<1>1. GpuInit => GpuInv
  BY GpuTypes DEF GpuInit, GpuInv, ResumedExactlyWithData
<1>2. GpuInv /\ [GpuNext]_gpuVars => GpuInv'
  BY GpuTypesStep, CpWakeUpsStep DEF GpuInv
<1> QED BY <1>1, <1>2, PTL DEF GpuSpec

\* The CP is resumed once for each DMA operation and only with its data, and
\* no command is left without a wake-up (vortex_gpgpu_dev.cc:355-385, 555-577).
THEOREM NoCpWakeupLost == GpuSpec => []ResumedExactlyWithData
<1>1. GpuInv => ResumedExactlyWithData
  BY DEF GpuInv
<1> QED BY <1>1, GpuInvariance, PTL

-----------------------------------------------------------------------------
\* The traces of the AXI monitor, for any number of IDs, any age at which ticks
\* stop counting, any delays of atomic accesses

Id         == 0 .. IdCount - 1
Completion == [tick : Int, allocatedId : Id]

\* The ends kept back, in the order of their ticks, none behind the last record.
InOrder(pending, last) ==
  /\ \A i, j \in DOMAIN pending : i < j => pending[i].tick <= pending[j].tick
  /\ \A i \in DOMAIN pending : last <= pending[i].tick

\* IDs in use by source s: of its requests in the memory and of the ends kept
\* back, all different.
Requests(state, s) == {p \in DOMAIN state : state[p].source = s}

Held(state, s) == {state[p].allocatedId : p \in Requests(state, s)}

OthersKept(s, new, state) ==
  \A t : t # s => /\ Requests(new, t) = Requests(state, t)
                 /\ \A p \in Requests(state, t) : new[p] = state[p]

OneIdEach(s, pending, live, state) ==
  /\ \A i, j \in DOMAIN pending : pending[i].allocatedId = pending[j].allocatedId => i = j
  /\ \A i \in DOMAIN pending : pending[i].allocatedId \notin Held(state, s)
  /\ \A p, q \in Requests(state, s) : state[p].allocatedId = state[q].allocatedId => p = q
  /\ live = Held(state, s) \cup IdsOf(pending)

-----------------------------------------------------------------------------
\* Lemmas on sequences: a cut and an insertion

LEMMA CutSequence ==
  ASSUME NEW S, NEW q \in Seq(S), NEW n \in 0 .. Len(q)
  PROVE  /\ SubSeq(q, 1, n) \in Seq(S) /\ Len(SubSeq(q, 1, n)) = n
         /\ \A i \in 1 .. n : SubSeq(q, 1, n)[i] = q[i]
         /\ SubSeq(q, n + 1, Len(q)) \in Seq(S)
         /\ Len(SubSeq(q, n + 1, Len(q))) = Len(q) - n
         /\ \A i \in 1 .. Len(q) - n : SubSeq(q, n + 1, Len(q))[i] = q[n + i]
<1>1. Len(q) \in Nat /\ \A i \in 1 .. Len(q) : q[i] \in S
  OBVIOUS
<1>2. /\ SubSeq(q, 1, n) \in Seq(S) /\ Len(SubSeq(q, 1, n)) = n
      /\ \A i \in 1 .. n : SubSeq(q, 1, n)[i] = q[i]
  <2>1. n \in Int /\ 1 \in Int /\ \A i \in 1 .. n : q[i] \in S
    BY <1>1
  <2>2. /\ SubSeq(q, 1, n) \in Seq(S)
        /\ Len(SubSeq(q, 1, n)) = IF 1 <= n THEN n - 1 + 1 ELSE 0
        /\ \A i \in 1 .. n - 1 + 1 : SubSeq(q, 1, n)[i] = q[1 + i - 1]
    BY <1>1, <2>1, SubSeqProperties
  <2> QED BY <1>1, <2>2
<1>3. /\ SubSeq(q, n + 1, Len(q)) \in Seq(S)
      /\ Len(SubSeq(q, n + 1, Len(q))) = Len(q) - n
      /\ \A i \in 1 .. Len(q) - n : SubSeq(q, n + 1, Len(q))[i] = q[n + i]
  <2>1. n + 1 \in Int /\ Len(q) \in Int /\ \A i \in n + 1 .. Len(q) : q[i] \in S
    BY <1>1
  <2>2. /\ SubSeq(q, n + 1, Len(q)) \in Seq(S)
        /\ Len(SubSeq(q, n + 1, Len(q))) = IF n + 1 <= Len(q) THEN Len(q) - (n + 1) + 1 ELSE 0
        /\ \A i \in 1 .. Len(q) - (n + 1) + 1 :
             SubSeq(q, n + 1, Len(q))[i] = q[(n + 1) + i - 1]
    BY <1>1, <2>1, SubSeqProperties
  <2> QED BY <1>1, <2>2
<1> QED BY <1>2, <1>3

\* e, between the first k elements of q and the others.
Among(new, q, k, e) ==
  \A i \in 1 .. Len(q) + 1 :
    new[i] = IF i <= k THEN q[i] ELSE IF i = k + 1 THEN e ELSE q[i - 1]

LEMMA InsertSequence ==
  ASSUME NEW S, NEW q \in Seq(S), NEW k \in 0 .. Len(q), NEW e \in S
  PROVE  /\ InsertAt(q, k + 1, e) \in Seq(S)
         /\ Len(InsertAt(q, k + 1, e)) = Len(q) + 1
         /\ Among(InsertAt(q, k + 1, e), q, k, e)
<1> DEFINE front == SubSeq(q, 1, k)
           back  == SubSeq(q, k + 1, Len(q))
           new   == InsertAt(q, k + 1, e)
<1>1. Len(q) \in Nat /\ k \in Nat /\ k <= Len(q)
  OBVIOUS
<1>2. /\ front \in Seq(S) /\ Len(front) = k /\ \A i \in 1 .. k : front[i] = q[i]
      /\ back \in Seq(S) /\ Len(back) = Len(q) - k
      /\ \A i \in 1 .. Len(q) - k : back[i] = q[k + i]
  BY CutSequence
<1>3. new = (front \o <<e>>) \o back
  <2>1. (k + 1) - 1 = k
    BY <1>1
  <2> QED BY <2>1, Zenon DEF InsertAt
<1> HIDE DEF front, back, new
<1>4. /\ front \o <<e>> \in Seq(S) /\ Len(front \o <<e>>) = k + 1
      /\ \A i \in 1 .. k + 1 : (front \o <<e>>)[i] = IF i <= k THEN q[i] ELSE e
  BY <1>1, <1>2
<1>5. /\ new \in Seq(S) /\ Len(new) = Len(front \o <<e>>) + Len(back)
      /\ \A i \in 1 .. Len(front \o <<e>>) + Len(back) :
           new[i] = IF i <= Len(front \o <<e>>) THEN (front \o <<e>>)[i]
                    ELSE back[i - Len(front \o <<e>>)]
  BY <1>2, <1>3, <1>4, ConcatProperties, Zenon
<1>6. Len(front \o <<e>>) + Len(back) = Len(q) + 1
  <2>1. Len(front \o <<e>>) = k + 1 /\ Len(back) = Len(q) - k
    BY <1>2, <1>4, Zenon
  <2> QED BY <1>1, <2>1
<1>7. ASSUME NEW i \in 1 .. Len(q) + 1
      PROVE  new[i] = IF i <= k THEN q[i] ELSE IF i = k + 1 THEN e ELSE q[i - 1]
  <2>1. CASE i <= k + 1
    <3>1. i \in 1 .. k + 1
      BY <1>1, <2>1
    <3>2. new[i] = IF i <= k THEN q[i] ELSE e
      BY <1>4, <1>5, <1>6, <2>1, <3>1, Zenon
    <3> QED BY <1>1, <3>1, <3>2
  <2>2. CASE ~(i <= k + 1)
    <3>1. i - (k + 1) \in 1 .. Len(q) - k /\ k + (i - (k + 1)) = i - 1
      BY <1>1, <2>2
    <3>2. new[i] = back[i - (k + 1)]
      BY <1>4, <1>5, <1>6, <2>2, Zenon
    <3>3. new[i] = q[i - 1]
      BY <1>2, <3>1, <3>2, Zenon
    <3> QED BY <1>1, <2>2, <3>3
  <2> QED BY <2>1, <2>2
<1> QED BY <1>5, <1>6, <1>7 DEF new, Among

-----------------------------------------------------------------------------
LEMMA Completions ==
  ASSUME NEW pending \in Seq(Completion)
  PROVE  /\ Len(pending) \in Nat /\ DOMAIN pending = 1 .. Len(pending)
         /\ \A i \in 1 .. Len(pending) : pending[i].tick \in Int /\ pending[i].allocatedId \in Id
<1>1. \A i \in 1 .. Len(pending) : pending[i] \in Completion
  OBVIOUS
<1> QED BY <1>1 DEF Completion

\* The cut at a tick: all ends before it lie at or before the tick, the first
\* one behind it lies later.
LEMMA ThroughCuts ==
  ASSUME NEW pending \in Seq(Completion), NEW tick \in Int
  PROVE  /\ Through(pending, tick) \in 0 .. Len(pending)
         /\ \A i \in 1 .. Through(pending, tick) : pending[i].tick <= tick
         /\ Through(pending, tick) < Len(pending) =>
              pending[Through(pending, tick) + 1].tick > tick
<1> DEFINE len == Len(pending)
           Late == {i \in 1 .. len : pending[i].tick > tick}
<1>1. len \in Nat /\ Late \subseteq Nat /\ \A i \in 1 .. len : pending[i].tick \in Int
  BY Completions
<1>2. \E n \in 0 .. len :
        /\ \A i \in 1 .. n : pending[i].tick <= tick
        /\ n < len => pending[n + 1].tick > tick
  <2>1. CASE Late = {}
    <3>1. len \in 0 .. len /\ \A i \in 1 .. len : pending[i].tick <= tick
      BY <1>1, <2>1
    <3> QED BY <1>1, <3>1
  <2>2. CASE Late # {}
    <3> HIDE DEF Late
    <3>1. PICK m \in Late : \A n \in Late : ~(<<n, m>> \in OpToRel(<, Nat))
      BY <1>1, <2>2, NatLessThanWellFounded, WFMin
    <3>2. ASSUME NEW n \in Late, n < m PROVE FALSE
      <4>1. n \in Nat /\ m \in Nat
        BY <1>1, <3>1
      <4>2. <<n, m>> \in OpToRel(<, Nat)
        BY <3>2, <4>1, ZenonT(20) DEF OpToRel
      <4> QED BY <3>1, <4>2
    <3>3. m \in 1 .. len /\ pending[m].tick > tick
      BY <3>1 DEF Late
    <3>4. ASSUME NEW i \in 1 .. m - 1 PROVE pending[i].tick <= tick
      <4>1. i \in 1 .. len /\ i < m
        BY <1>1, <3>3
      <4> QED BY <1>1, <3>2, <4>1 DEF Late
    <3>5. m - 1 \in 0 .. len /\ m - 1 + 1 = m
      BY <1>1, <3>3
    <3> QED BY <3>3, <3>4, <3>5
  <2> QED BY <2>1, <2>2
<1> QED BY <1>2, Zenon DEF Through

\* Of ends in order, all behind the cut lie later.
LEMMA LaterIsLater ==
  ASSUME NEW pending \in Seq(Completion), NEW last, InOrder(pending, last), NEW tick \in Int,
         NEW i \in 1 .. Len(pending), i > Through(pending, tick)
  PROVE  pending[i].tick > tick
<1> DEFINE n == Through(pending, tick)
<1>1. n \in 0 .. Len(pending) /\ (n < Len(pending) => pending[n + 1].tick > tick)
  BY ThroughCuts
<1>2. Len(pending) \in Nat /\ DOMAIN pending = 1 .. Len(pending)
      /\ \A k \in 1 .. Len(pending) : pending[k].tick \in Int
  BY Completions
<1> HIDE DEF n
<1>3. n + 1 \in 1 .. Len(pending) /\ pending[n + 1].tick > tick /\ n + 1 <= i
  BY <1>1, <1>2 DEF n
<1>4. pending[n + 1].tick <= pending[i].tick
  <2>1. CASE n + 1 = i
    BY <1>2, <2>1
  <2>2. CASE n + 1 < i
    BY <1>2, <1>3, <2>2 DEF InOrder
  <2> QED BY <1>1, <1>3, <2>1, <2>2
<1> QED BY <1>2, <1>3, <1>4

\* What the flush writes and what it leaves, of ends in order.
LEMMA FlushCuts ==
  ASSUME NEW pending \in Seq(Completion), NEW last \in Int, InOrder(pending, last),
         NEW n \in 0 .. Len(pending), n = Through(pending, 0)
  PROVE  /\ SubSeq(pending, 1, n) \in Seq(Completion) /\ Len(SubSeq(pending, 1, n)) = n
         /\ \A i \in 1 .. n : SubSeq(pending, 1, n)[i] = pending[i] /\ pending[i].tick <= 0
         /\ SubSeq(pending, n + 1, Len(pending)) \in Seq(Completion)
         /\ Len(SubSeq(pending, n + 1, Len(pending))) = Len(pending) - n
         /\ \A i \in 1 .. Len(pending) - n :
              /\ SubSeq(pending, n + 1, Len(pending))[i] = pending[n + i]
              /\ pending[n + i].tick > 0
<1>1. n \in 0 .. Len(pending) /\ \A i \in 1 .. n : pending[i].tick <= 0
  BY ThroughCuts
<1>2. Len(pending) \in Nat
  BY Completions
<1>3. ASSUME NEW i \in 1 .. Len(pending) - n PROVE pending[n + i].tick > 0
  <2>1. n + i \in 1 .. Len(pending) /\ n + i > Through(pending, 0)
    BY <1>1, <1>2
  <2> QED BY <2>1, LaterIsLater
<1> QED BY <1>1, <1>3, CutSequence, Zenon

\* The first n ticks of p, all of them past, and then the present, m times.
PastAndPresent(ticks, p, n, m) ==
  /\ \A i \in 1 .. n : p[i] <= 0 /\ ticks[i] = p[i]
  /\ Len(ticks) = n + m
  /\ \A i \in n + 1 .. n + m : ticks[i] = 0

Rising(p, last) ==
  /\ \A i, j \in 1 .. Len(p) : i < j => p[i] <= p[j]
  /\ \A i \in 1 .. Len(p) : last <= p[i]

\* Ticks in order, up to the present, and then the present itself.
LEMMA PresentComesLast ==
  ASSUME NEW p \in Seq(Int), NEW last \in Int, last <= 0, Rising(p, last),
         NEW n \in 0 .. Len(p), NEW m \in Nat \ {0},
         NEW ticks \in Seq(Int), PastAndPresent(ticks, p, n, m)
  PROVE  /\ ticks # <<>> /\ Last(ticks) = 0
         /\ \A i \in DOMAIN ticks : ~(ticks[i] < IF i = 1 THEN last ELSE ticks[i - 1])
<1> USE DEF Rising, PastAndPresent
<1>1. ticks # <<>> /\ Last(ticks) = 0
  BY DEF Last
<1>2. ASSUME NEW i \in 1 .. n + m
      PROVE  ~(ticks[i] < IF i = 1 THEN last ELSE ticks[i - 1])
  <2>1. \A k \in 1 .. Len(p) : p[k] \in Int
    OBVIOUS
  <2>2. CASE i <= n
    <3>1. i \in 1 .. n /\ i \in 1 .. Len(p) /\ ticks[i] = p[i] /\ last <= p[i]
      BY <2>2
    <3>2. CASE i = 1
      BY <2>1, <3>1, <3>2
    <3>3. CASE i # 1
      <4>1. i - 1 \in 1 .. n /\ i - 1 \in 1 .. Len(p) /\ i - 1 < i
        BY <3>1, <3>3
      <4>2. ticks[i - 1] = p[i - 1] /\ p[i - 1] <= p[i]
        BY <3>1, <4>1
      <4> QED BY <2>1, <3>1, <3>3, <4>1, <4>2
    <3> QED BY <3>2, <3>3
  <2>3. CASE ~(i <= n)
    <3>1. ticks[i] = 0
      BY <2>3
    <3>2. CASE i = 1
      BY <3>1, <3>2
    <3>3. CASE i # 1
      <4>1. i - 1 \in 1 .. n \/ i - 1 \in n + 1 .. n + m
        BY <3>3
      <4>2. ticks[i - 1] \in Int /\ ticks[i - 1] <= 0
        <5>1. CASE i - 1 \in 1 .. n
          <6>1. i - 1 \in 1 .. Len(p) /\ ticks[i - 1] = p[i - 1] /\ p[i - 1] <= 0
            BY <5>1
          <6> QED BY <2>1, <6>1
        <5>2. CASE i - 1 \in n + 1 .. n + m
          BY <5>2
        <5> QED BY <4>1, <5>1, <5>2
      <4> QED BY <3>1, <3>3, <4>2
    <3> QED BY <3>2, <3>3
  <2> QED BY <2>2, <2>3
<1>3. DOMAIN ticks = 1 .. n + m
  OBVIOUS
<1> QED BY <1>1, <1>2, <1>3

LEMMA TicksAre ==
  ASSUME NEW q \in Seq(Completion)
  PROVE  /\ Ticks(q) \in Seq(Int) /\ Len(Ticks(q)) = Len(q)
         /\ \A i \in 1 .. Len(q) : Ticks(q)[i] = q[i].tick
<1>1. /\ Len(q) \in Nat /\ DOMAIN q = 1 .. Len(q)
      /\ \A i \in 1 .. Len(q) : q[i].tick \in Int
  BY Completions
<1>2. Ticks(q) = [i \in 1 .. Len(q) |-> q[i].tick]
  BY <1>1 DEF Ticks
<1> QED BY <1>1, <1>2

\* The records written with an event of the present, one or two, are in order,
\* and what is left comes after them.
LEMMA RecordsInOrder ==
  ASSUME NEW pending \in Seq(Completion), NEW last \in Int, InOrder(pending, last), last <= 0,
         NEW now \in Seq(Int), now # <<>>, \A i \in 1 .. Len(now) : now[i] = 0
  PROVE  LET n     == Through(pending, 0)
             rest  == SubSeq(pending, n + 1, Len(pending))
             ticks == Ticks(SubSeq(pending, 1, n)) \o now
         IN  /\ ticks # <<>> /\ Last(ticks) = 0
             /\ \A i \in DOMAIN ticks : ~(ticks[i] < IF i = 1 THEN last ELSE ticks[i - 1])
             /\ rest \in Seq(Completion) /\ InOrder(rest, 0)
<1> DEFINE n     == Through(pending, 0)
           due   == SubSeq(pending, 1, n)
           rest  == SubSeq(pending, n + 1, Len(pending))
           ticks == Ticks(due) \o now
           p     == Ticks(pending)
<1>1. n \in 0 .. Len(pending)
  BY ThroughCuts
<1>2. /\ due \in Seq(Completion) /\ Len(due) = n
      /\ \A i \in 1 .. n : due[i] = pending[i] /\ pending[i].tick <= 0
      /\ rest \in Seq(Completion) /\ Len(rest) = Len(pending) - n
      /\ \A i \in 1 .. Len(pending) - n : rest[i] = pending[n + i] /\ pending[n + i].tick > 0
  BY <1>1, FlushCuts, Zenon
<1>3. /\ Len(pending) \in Nat /\ DOMAIN pending = 1 .. Len(pending)
      /\ \A i \in 1 .. Len(pending) : pending[i].tick \in Int
  BY Completions
<1>4. /\ p \in Seq(Int) /\ Len(p) = Len(pending)
      /\ \A i \in 1 .. Len(pending) : p[i] = pending[i].tick
  BY TicksAre
<1>5. Rising(p, last)
  <2> HIDE DEF p
  <2>1. /\ \A i, j \in 1 .. Len(pending) : i < j => pending[i].tick <= pending[j].tick
        /\ \A i \in 1 .. Len(pending) : last <= pending[i].tick
    BY <1>3, Zenon DEF InOrder
  <2> QED BY <1>4, <2>1, Zenon DEF Rising
<1>6. Ticks(due) \in Seq(Int) /\ Len(Ticks(due)) = n /\ \A i \in 1 .. n : Ticks(due)[i] = due[i].tick
  BY <1>2, TicksAre, Zenon
<1> HIDE DEF n, due, rest, p
<1>7. \A i \in 1 .. n : Ticks(due)[i] = p[i] /\ p[i] <= 0
  <2>1. \A i \in 1 .. n : i \in 1 .. Len(pending)
    BY <1>1, <1>3
  <2> QED BY <1>2, <1>4, <1>6, <2>1, Zenon
<1>8. Len(now) \in Nat \ {0}
  OBVIOUS
<1>9. /\ ticks \in Seq(Int) /\ Len(ticks) = n + Len(now)
      /\ \A i \in 1 .. n : ticks[i] = p[i]
      /\ \A i \in n + 1 .. n + Len(now) : ticks[i] = 0
  <2> DEFINE before == Ticks(due)
  <2>1. /\ before \in Seq(Int) /\ Len(before) = n /\ ticks = before \o now
        /\ \A i \in 1 .. n : before[i] = p[i]
    BY <1>6, <1>7
  <2> HIDE DEF before, ticks
  <2>2. /\ ticks \in Seq(Int) /\ Len(ticks) = Len(before) + Len(now)
        /\ \A i \in 1 .. Len(before) + Len(now) :
             ticks[i] = IF i <= Len(before) THEN before[i] ELSE now[i - Len(before)]
    BY <2>1, ConcatProperties, Zenon
  <2>3. ASSUME NEW i \in 1 .. n PROVE ticks[i] = p[i]
    BY <1>1, <1>3, <1>8, <2>1, <2>2
  <2>4. ASSUME NEW i \in n + 1 .. n + Len(now) PROVE ticks[i] = 0
    <3>1. i \in 1 .. n + Len(now) /\ ~(i <= n) /\ i - n \in 1 .. Len(now)
      BY <1>1, <1>3, <1>8
    <3>2. ticks[i] = now[i - n]
      BY <2>1, <2>2, <3>1, Zenon
    <3> QED BY <3>1, <3>2, Zenon
  <2> QED BY <2>1, <2>2, <2>3, <2>4, Zenon
<1> HIDE DEF ticks
<1>10. /\ ticks # <<>> /\ Last(ticks) = 0
       /\ \A i \in DOMAIN ticks : ~(ticks[i] < IF i = 1 THEN last ELSE ticks[i - 1])
  <2>1. n \in 0 .. Len(p)
    BY <1>1, <1>4
  <2>2. PastAndPresent(ticks, p, n, Len(now))
    BY <1>7, <1>9, Zenon DEF PastAndPresent
  <2> QED BY <1>4, <1>5, <1>8, <1>9, <2>1, <2>2, PresentComesLast, Zenon
<1>11. InOrder(rest, 0)
  <2>1. DOMAIN rest = 1 .. Len(pending) - n
    BY <1>2
  <2>2. ASSUME NEW i \in 1 .. Len(pending) - n
        PROVE  n + i \in 1 .. Len(pending) /\ rest[i].tick = pending[n + i].tick
               /\ rest[i].tick \in Int /\ 0 <= rest[i].tick
    BY <1>1, <1>2, <1>3
  <2>3. ASSUME NEW i \in 1 .. Len(pending) - n, NEW j \in 1 .. Len(pending) - n, i < j
        PROVE  rest[i].tick <= rest[j].tick
    <3>1. n + i < n + j
      BY <1>1, <1>3, <2>3
    <3> QED BY <1>3, <2>2, <3>1 DEF InOrder
  <2> QED BY <2>1, <2>2, <2>3 DEF InOrder
<1> QED BY <1>2, <1>10, <1>11, Zenon DEF n, due, rest, ticks

\* The end of an atomic access takes its place among those that are left.
LEMMA InsertInOrder ==
  ASSUME NEW pending \in Seq(Completion), InOrder(pending, 0), NEW e \in Completion, e.tick >= 0,
         NEW new, new = InsertAt(pending, Through(pending, e.tick) + 1, e)
  PROVE  new \in Seq(Completion) /\ InOrder(new, 0)
<1> DEFINE k == Through(pending, e.tick)
           len == Len(pending)
<1>1. /\ e.tick \in Int /\ len \in Nat /\ DOMAIN pending = 1 .. len
      /\ \A i \in 1 .. len : pending[i].tick \in Int
  BY Completions DEF Completion
<1>2. k \in 0 .. len /\ \A i \in 1 .. k : pending[i].tick <= e.tick
  BY <1>1, ThroughCuts
<1>3. \A i \in 1 .. len : i > k => pending[i].tick > e.tick
  BY <1>1, LaterIsLater
<1>4. /\ new \in Seq(Completion) /\ Len(new) = len + 1
      /\ \A i \in 1 .. len + 1 :
           new[i] = IF i <= k THEN pending[i] ELSE IF i = k + 1 THEN e ELSE pending[i - 1]
  BY <1>2, InsertSequence DEF Among
<1>5. DOMAIN new = 1 .. len + 1
  BY <1>4, Completions
<1> HIDE DEF k, len
<1>6. ASSUME NEW i \in 1 .. len + 1
      PROVE  /\ i <= k => i \in 1 .. len /\ new[i] = pending[i]
             /\ i = k + 1 => new[i] = e
             /\ i > k + 1 => i - 1 \in 1 .. len /\ i - 1 > k /\ new[i] = pending[i - 1]
  BY <1>1, <1>2, <1>4
<1>7. ASSUME NEW i \in 1 .. len + 1, NEW j \in 1 .. len + 1, i < j
      PROVE  new[i].tick <= new[j].tick
  <2>1. \A a, b \in 1 .. len : a < b => pending[a].tick <= pending[b].tick
    BY <1>1 DEF InOrder
  <2>2. CASE j <= k
    BY <1>2, <1>6, <1>7, <2>1, <2>2
  <2>3. CASE j = k + 1
    BY <1>2, <1>6, <1>7, <2>3
  <2>4. CASE j > k + 1 /\ i <= k
    BY <1>2, <1>6, <1>7, <2>1, <2>4
  <2>5. CASE j > k + 1 /\ i = k + 1
    BY <1>1, <1>3, <1>6, <1>7, <2>5
  <2>6. CASE j > k + 1 /\ i > k + 1
    BY <1>2, <1>6, <1>7, <2>1, <2>6
  <2> QED BY <1>2, <2>2, <2>3, <2>4, <2>5, <2>6
<1>8. ASSUME NEW i \in 1 .. len + 1 PROVE 0 <= new[i].tick
  <2>1. \A a \in 1 .. len : 0 <= pending[a].tick
    BY <1>1 DEF InOrder
  <2> QED BY <1>1, <1>2, <1>6, <2>1
<1> QED BY <1>4, <1>5, <1>7, <1>8 DEF InOrder

-----------------------------------------------------------------------------
\* IDs

\* The flush frees the IDs of the ends it writes, and no other.
LEMMA FlushIds ==
  ASSUME NEW s, NEW pending, NEW live, NEW state, OneIdEach(s, pending, live, state),
         NEW len \in Nat, DOMAIN pending = 1 .. len, NEW n \in 0 .. len,
         NEW due, DOMAIN due = 1 .. n, \A i \in 1 .. n : due[i] = pending[i],
         NEW rest, DOMAIN rest = 1 .. len - n, \A i \in 1 .. len - n : rest[i] = pending[n + i]
  PROVE  OneIdEach(s, rest, live \ IdsOf(due), state)
<1>1. \A i \in 1 .. n : i \in 1 .. len
  OBVIOUS
<1>2. \A i \in 1 .. len - n : n + i \in 1 .. len
  OBVIOUS
<1>3. \A i \in 1 .. len - n, j \in 1 .. n : n + i # j
  OBVIOUS
<1>4. \A i, j \in 1 .. len - n : n + i = n + j => i = j
  OBVIOUS
<1>5. \A k \in 1 .. len : k \in 1 .. n \/ \E i \in 1 .. len - n : n + i = k
  <2>1. ASSUME NEW k \in 1 .. len, k \notin 1 .. n PROVE \E i \in 1 .. len - n : n + i = k
    <3>1. k - n \in 1 .. len - n /\ n + (k - n) = k
      BY <2>1
    <3> QED BY <3>1, Zenon
  <2> QED BY <2>1, Zenon
<1> DEFINE held == Held(state, s)
<1>0. /\ \A i, j \in 1 .. len : pending[i].allocatedId = pending[j].allocatedId => i = j
      /\ \A i \in 1 .. len : pending[i].allocatedId \notin held
      /\ \A p, q \in Requests(state, s) : state[p].allocatedId = state[q].allocatedId => p = q
      /\ live = held \cup IdsOf(pending)
  BY DEF OneIdEach
<1>p. IdsOf(pending) = {pending[i].allocatedId : i \in 1 .. len}
  BY Zenon DEF IdsOf
<1>a. IdsOf(due) = {pending[i].allocatedId : i \in 1 .. n}
  BY Zenon DEF IdsOf
<1>b. IdsOf(rest) = {rest[i].allocatedId : i \in 1 .. len - n}
  BY Zenon DEF IdsOf
<1> HIDE DEF held
<1>6. ASSUME NEW x \in live \ IdsOf(due)
      PROVE  x \in held \cup IdsOf(rest)
  <2>1. CASE x \in held
    BY <2>1
  <2>2. CASE \E k \in 1 .. len : x = pending[k].allocatedId
    <3>1. PICK k \in 1 .. len : x = pending[k].allocatedId
      BY <2>2
    <3>2. k \notin 1 .. n
      BY <1>6, <1>a, <3>1, Zenon
    <3>3. PICK i \in 1 .. len - n : n + i = k
      BY <1>5, <3>2, Zenon
    <3>4. rest[i] = pending[k]
      BY <3>3
    <3>5. x = rest[i].allocatedId
      BY <3>1, <3>4
    <3> QED BY <1>b, <3>5, Zenon
  <2> QED BY <1>0, <1>p, <1>6, <2>1, <2>2, Zenon
<1>7. ASSUME NEW x \in held \cup IdsOf(rest)
      PROVE  x \in live \ IdsOf(due)
  <2>1. CASE x \in held
    <3>1. x \in live
      BY <1>0, <2>1, Zenon
    <3>2. \A i \in 1 .. n : x # pending[i].allocatedId
      BY <1>0, <1>1, <2>1
    <3> QED BY <1>a, <3>1, <3>2, Zenon
  <2>2. CASE \E i \in 1 .. len - n : x = rest[i].allocatedId
    <3>1. PICK i \in 1 .. len - n : x = rest[i].allocatedId
      BY <2>2
    <3>2. n + i \in 1 .. len /\ x = pending[n + i].allocatedId
      BY <1>2, <3>1
    <3>3. \A j \in 1 .. n : x # pending[j].allocatedId
      BY <1>0, <1>1, <1>3, <3>2
    <3> QED BY <1>0, <1>a, <1>p, <3>2, <3>3, Zenon
  <2> QED BY <1>7, <1>b, <2>1, <2>2, Zenon
<1>8. live \ IdsOf(due) = held \cup IdsOf(rest)
  BY <1>6, <1>7, Zenon
<1>9. ASSUME NEW i \in 1 .. len - n
      PROVE  n + i \in 1 .. len /\ rest[i].allocatedId = pending[n + i].allocatedId
  BY <1>2
<1>10. \A i, j \in 1 .. len - n : rest[i].allocatedId = rest[j].allocatedId => i = j
  BY <1>0, <1>4, <1>9
<1>11. \A i \in 1 .. len - n : rest[i].allocatedId \notin held
  BY <1>0, <1>9
<1> QED BY <1>0, <1>b, <1>8, <1>10, <1>11, Zenon DEF OneIdEach, held

\* An end that is kept back keeps the ID it was given.
LEMMA InsertIds ==
  ASSUME NEW s, NEW pending, NEW live, NEW state, OneIdEach(s, pending, live, state),
         NEW len \in Nat, DOMAIN pending = 1 .. len, NEW k \in 0 .. len,
         NEW e, e.allocatedId \notin live,
         NEW new, DOMAIN new = 1 .. len + 1,
         \A i \in 1 .. len + 1 :
           new[i] = IF i <= k THEN pending[i] ELSE IF i = k + 1 THEN e ELSE pending[i - 1]
  PROVE  OneIdEach(s, new, live \cup {e.allocatedId}, state)
<1> DEFINE At(i) == IF i <= k THEN i ELSE IF i = k + 1 THEN 0 ELSE i - 1
<1>1. \A i \in 1 .. len + 1 : At(i) \in 0 .. len
  OBVIOUS
<1>2. \A i, j \in 1 .. len + 1 : At(i) = At(j) => i = j
  OBVIOUS
<1>3. \A i \in 1 .. len + 1 : IF At(i) = 0 THEN new[i] = e ELSE new[i] = pending[At(i)]
  OBVIOUS
<1>4. \A j \in 0 .. len : \E i \in 1 .. len + 1 : At(i) = j
  <2>1. TAKE j \in 0 .. len
  <2>2. CASE j = 0
    <3>1. k + 1 \in 1 .. len + 1 /\ At(k + 1) = 0
      OBVIOUS
    <3> QED BY <2>2, <3>1, Zenon
  <2>3. CASE j # 0 /\ j <= k
    <3>1. j \in 1 .. len + 1 /\ At(j) = j
      BY <2>3
    <3> QED BY <3>1, Zenon
  <2>4. CASE j # 0 /\ ~(j <= k)
    <3>1. j + 1 \in 1 .. len + 1 /\ At(j + 1) = j
      BY <2>4
    <3> QED BY <3>1, Zenon
  <2> QED BY <2>2, <2>3, <2>4
<1>5. \A j \in 0 .. len : j # 0 <=> j \in DOMAIN pending
  OBVIOUS
<1> HIDE DEF At
<1> DEFINE held == Held(state, s)
           id(i) == IF i = 0 THEN e.allocatedId ELSE pending[i].allocatedId
<1>6. /\ \A i, j \in 1 .. len : pending[i].allocatedId = pending[j].allocatedId => i = j
      /\ \A i \in 1 .. len : pending[i].allocatedId \notin held
      /\ \A p, q \in Requests(state, s) : state[p].allocatedId = state[q].allocatedId => p = q
      /\ live = held \cup IdsOf(pending)
  BY DEF OneIdEach
<1>p. IdsOf(pending) = {pending[i].allocatedId : i \in 1 .. len}
  BY Zenon DEF IdsOf
<1>7. IdsOf(new) = {new[i].allocatedId : i \in 1 .. len + 1}
  BY Zenon DEF IdsOf
<1> HIDE DEF held
<1>8. \A i \in 1 .. len + 1 : new[i].allocatedId = id(At(i))
  BY <1>1, <1>3
<1>9. \A j \in 0 .. len : j = 0 \/ j \in 1 .. len
  OBVIOUS
<1>10. \A i, j \in 0 .. len : id(i) = id(j) => i = j
  <2>1. \A i \in 1 .. len : e.allocatedId # pending[i].allocatedId
    BY <1>6, <1>p, Zenon
  <2> QED BY <1>6, <1>9, <2>1
<1>11. \A i \in 0 .. len : id(i) \notin held
  BY <1>6, <1>9
<1>12. live \cup {e.allocatedId} = held \cup {id(i) : i \in 0 .. len}
  <2>1. \A i \in 1 .. len : i \in 0 .. len /\ id(i) = pending[i].allocatedId
    OBVIOUS
  <2>2. 0 \in 0 .. len /\ id(0) = e.allocatedId
    OBVIOUS
  <2> HIDE DEF id
  <2>3. {id(i) : i \in 0 .. len} = {e.allocatedId} \cup {pending[i].allocatedId : i \in 1 .. len}
    <3>1. ASSUME NEW x \in {id(i) : i \in 0 .. len}
          PROVE  x \in {e.allocatedId} \cup {pending[i].allocatedId : i \in 1 .. len}
      <4>1. PICK i \in 0 .. len : x = id(i)
        BY <3>1, Zenon
      <4> QED BY <1>9, <2>1, <2>2, <4>1, Zenon
    <3>2. ASSUME NEW x \in {e.allocatedId} \cup {pending[i].allocatedId : i \in 1 .. len}
          PROVE  x \in {id(i) : i \in 0 .. len}
      BY <2>1, <2>2, <3>2, Zenon
    <3> QED BY <3>1, <3>2, Zenon
  <2> QED BY <1>6, <1>p, <2>3, Zenon
<1> HIDE DEF id
<1>13. \A i, j \in 1 .. len + 1 : new[i].allocatedId = new[j].allocatedId => i = j
  <2> TAKE i, j \in 1 .. len + 1
  <2>1. new[i].allocatedId = new[j].allocatedId => At(i) = At(j)
    BY <1>1, <1>8, <1>10
  <2> QED BY <1>2, <2>1, Zenon
<1>14. \A i \in 1 .. len + 1 : new[i].allocatedId \notin held
  BY <1>1, <1>8, <1>11, Zenon
<1>15. IdsOf(new) = {id(i) : i \in 0 .. len}
  BY <1>1, <1>4, <1>7, <1>8, Zenon
<1> QED BY <1>6, <1>7, <1>12, <1>13, <1>14, <1>15, Zenon DEF OneIdEach, held

\* A source whose requests keep their IDs has them as before.
LEMMA SameRequests ==
  ASSUME NEW s, NEW pending, NEW live, NEW state, NEW new,
         OneIdEach(s, pending, live, state),
         Requests(new, s) = Requests(state, s),
         \A p \in Requests(state, s) : new[p].allocatedId = state[p].allocatedId
  PROVE  OneIdEach(s, pending, live, new)
<1>1. Held(new, s) = Held(state, s)
  BY Zenon DEF Held
<1>2. \A p, q \in Requests(new, s) : new[p].allocatedId = new[q].allocatedId => p = q
  BY DEF OneIdEach
<1> QED BY <1>1, <1>2, Zenon DEF OneIdEach

\* A request gets an ID that is not in use, ...
LEMMA BeginIds ==
  ASSUME NEW s, NEW pending, NEW live, NEW state, OneIdEach(s, pending, live, state),
         NEW p, p \notin DOMAIN state, NEW id, id \notin live,
         NEW new, DOMAIN new = DOMAIN state \cup {p},
         new[p].source = s, new[p].allocatedId = id,
         \A q \in DOMAIN state : new[q] = state[q]
  PROVE  /\ OneIdEach(s, pending, live \cup {id}, new)
         /\ OthersKept(s, new, state)
<1>1. /\ DOMAIN new = DOMAIN state \cup {p}
      /\ new[p].source = s /\ new[p].allocatedId = id
      /\ \A q \in DOMAIN state : new[q] = state[q] /\ q # p
  OBVIOUS
<1>2. Requests(new, s) = Requests(state, s) \cup {p}
  BY <1>1, Zenon DEF Requests
<1>3. \A q \in Requests(state, s) : new[q].allocatedId = state[q].allocatedId /\ q # p
  BY <1>1, Zenon DEF Requests
<1>4. Held(new, s) = Held(state, s) \cup {id}
  <2>1. ASSUME NEW x \in Held(new, s) PROVE x \in Held(state, s) \cup {id}
    <3>1. PICK q \in Requests(state, s) \cup {p} : x = new[q].allocatedId
      BY <1>2, <2>1, Zenon DEF Held
    <3> QED BY <1>1, <1>3, <3>1 DEF Held
  <2>2. ASSUME NEW x \in Held(state, s) PROVE x \in Held(new, s)
    <3>1. PICK q \in Requests(state, s) : x = state[q].allocatedId
      BY <2>2, Zenon DEF Held
    <3>2. q \in Requests(new, s) /\ x = new[q].allocatedId
      BY <1>2, <1>3, <3>1
    <3> QED BY <3>2, Zenon DEF Held
  <2>3. id \in Held(new, s)
    <3>1. p \in Requests(new, s)
      BY <1>2, Zenon
    <3> QED BY <1>1, <3>1, Zenon DEF Held
  <2> QED BY <2>1, <2>2, <2>3, Zenon
<1>5. \A i \in DOMAIN pending : pending[i].allocatedId # id
  BY Zenon DEF OneIdEach, IdsOf
<1>6. \A q \in Requests(state, s) : state[q].allocatedId # id
  BY Zenon DEF OneIdEach, Held
<1>7. \A q, r \in Requests(new, s) : new[q].allocatedId = new[r].allocatedId => q = r
  <2>1. \A q, r \in Requests(state, s) : state[q].allocatedId = state[r].allocatedId => q = r
    BY Zenon DEF OneIdEach
  <2>2. new[p].allocatedId = id
    BY <1>1
  <2> TAKE q, r \in Requests(new, s)
  <2>3. CASE q \in Requests(state, s) /\ r \in Requests(state, s)
    BY <1>3, <2>1, <2>3
  <2>4. CASE q = p \/ r = p
    <3>1. \A x \in Requests(state, s) : new[x].allocatedId # id
      BY <1>3, <1>6
    <3> QED BY <1>2, <2>2, <2>4, <3>1, Zenon
  <2> QED BY <1>2, <2>3, <2>4, Zenon
<1>8. OneIdEach(s, pending, live \cup {id}, new)
  <2>1. \A i \in DOMAIN pending : pending[i].allocatedId \notin Held(new, s)
    BY <1>4, <1>5, Zenon DEF OneIdEach
  <2>2. live \cup {id} = Held(new, s) \cup IdsOf(pending)
    BY <1>4, Zenon DEF OneIdEach
  <2>3. \A i, j \in DOMAIN pending : pending[i].allocatedId = pending[j].allocatedId => i = j
    BY Zenon DEF OneIdEach
  <2> QED BY <1>7, <2>1, <2>2, <2>3, Zenon DEF OneIdEach
<1>9. OthersKept(s, new, state)
  BY <1>1, Zenon DEF Requests, OthersKept
<1> QED BY <1>8, <1>9

\* ... and gives it back with its response.
LEMMA EndIds ==
  ASSUME NEW s, NEW pending, NEW live, NEW state, OneIdEach(s, pending, live, state),
         NEW p \in Requests(state, s),
         NEW new, DOMAIN new = DOMAIN state \ {p},
         \A q \in DOMAIN state \ {p} : new[q] = state[q]
  PROVE  /\ OneIdEach(s, pending, live \ {state[p].allocatedId}, new)
         /\ OthersKept(s, new, state)
<1> DEFINE id == state[p].allocatedId
<1>1. DOMAIN new = DOMAIN state \ {p} /\ \A q \in DOMAIN state \ {p} : new[q] = state[q]
  OBVIOUS
<1>2. Requests(new, s) = Requests(state, s) \ {p}
  BY <1>1, Zenon DEF Requests
<1>3. \A q \in Requests(state, s) \ {p} : new[q].allocatedId = state[q].allocatedId
  BY <1>1, Zenon DEF Requests
<1>4. /\ \A q \in Requests(state, s) \ {p} : state[q].allocatedId # id
      /\ \A i \in DOMAIN pending : pending[i].allocatedId # id
  <2>1. id \in Held(state, s)
    BY Zenon DEF Held
  <2>2. \A q \in Requests(state, s) : state[q].allocatedId = id => q = p
    BY Zenon DEF OneIdEach
  <2> HIDE DEF id
  <2> QED BY <2>1, <2>2, Zenon DEF OneIdEach
<1>5. Held(new, s) = Held(state, s) \ {id}
  <2> HIDE DEF id
  <2>1. ASSUME NEW x \in Held(new, s) PROVE x \in Held(state, s) \ {id}
    <3>1. PICK q \in Requests(state, s) \ {p} : x = new[q].allocatedId
      BY <1>2, <2>1, Zenon DEF Held
    <3>2. x = state[q].allocatedId /\ x # id
      BY <1>3, <1>4, <3>1
    <3> QED BY <3>2, Zenon DEF Held
  <2>2. ASSUME NEW x \in Held(state, s) \ {id} PROVE x \in Held(new, s)
    <3>1. PICK q \in Requests(state, s) : x = state[q].allocatedId
      BY <2>2, Zenon DEF Held
    <3>2. q # p
      BY <2>2, <3>1 DEF id
    <3>3. q \in Requests(new, s) /\ x = new[q].allocatedId
      BY <1>2, <1>3, <3>1, <3>2
    <3> QED BY <3>3, Zenon DEF Held
  <2> QED BY <2>1, <2>2, Zenon
<1> HIDE DEF id
<1>6. id \notin IdsOf(pending)
  BY <1>4, Zenon DEF IdsOf
<1>7. OneIdEach(s, pending, live \ {id}, new)
  <2>1. \A i \in DOMAIN pending : pending[i].allocatedId \notin Held(new, s)
    BY <1>5, Zenon DEF OneIdEach
  <2>2. live \ {id} = Held(new, s) \cup IdsOf(pending)
    BY <1>5, <1>6, Zenon DEF OneIdEach
  <2>3. /\ \A i, j \in DOMAIN pending : pending[i].allocatedId = pending[j].allocatedId => i = j
        /\ \A q, r \in Requests(state, s) : state[q].allocatedId = state[r].allocatedId => q = r
    BY Zenon DEF OneIdEach
  <2>4. \A q, r \in Requests(new, s) : new[q].allocatedId = new[r].allocatedId => q = r
    BY <1>2, <1>3, <2>3
  <2> QED BY <2>1, <2>2, <2>3, <2>4, Zenon DEF OneIdEach
<1>8. OthersKept(s, new, state)
  BY <1>1, Zenon DEF Requests, OthersKept
<1> QED BY <1>7, <1>8 DEF id

LEMMA AsManyValues ==
  ASSUME NEW S, IsFiniteSet(S), NEW f, \A x, y \in S : f[x] = f[y] => x = y,
         NEW T, T = {f[x] : x \in S}
  PROVE  IsFiniteSet(T) /\ Cardinality(T) = Cardinality(S)
<1> DEFINE g == [x \in S |-> f[x]]
<1>1. g \in Bijection(S, T)
  BY DEF Bijection, Injection, Surjection, IsInjective
<1>2. ExistsBijection(S, T)
  BY <1>1, Zenon DEF ExistsBijection
<1> QED BY <1>2, FS_Bijection, Zenon

\* As many IDs are in use as there are requests and ends kept back.
LEMMA IdsCounted ==
  ASSUME NEW s, NEW pending, NEW live, NEW state, OneIdEach(s, pending, live, state),
         IsFiniteSet(DOMAIN state), NEW len \in Nat, DOMAIN pending = 1 .. len
  PROVE  Cardinality(live) = Cardinality(Requests(state, s)) + len
<1> DEFINE f == [p \in Requests(state, s) |-> state[p].allocatedId]
           g == [i \in 1 .. len |-> pending[i].allocatedId]
<1>1. IsFiniteSet(Requests(state, s))
  BY FS_Subset, Zenon DEF Requests
<1>2. \A p, q \in Requests(state, s) : f[p] = f[q] => p = q
  BY Zenon DEF OneIdEach
<1>3. Held(state, s) = {f[p] : p \in Requests(state, s)}
  BY Zenon DEF Held
<1>4. \A i, j \in 1 .. len : g[i] = g[j] => i = j
  BY DEF OneIdEach
<1>5. IdsOf(pending) = {g[i] : i \in 1 .. len}
  <2>1. \A i \in 1 .. len : g[i] = pending[i].allocatedId
    OBVIOUS
  <2> HIDE DEF g
  <2> QED BY <2>1, Zenon DEF IdsOf
<1>6. IsFiniteSet(1 .. len) /\ Cardinality(1 .. len) = len
  BY FS_Interval
<1> HIDE DEF f, g
<1>7. /\ IsFiniteSet(Held(state, s))
      /\ Cardinality(Held(state, s)) = Cardinality(Requests(state, s))
  BY <1>1, <1>2, <1>3, AsManyValues
<1>8. IsFiniteSet(IdsOf(pending)) /\ Cardinality(IdsOf(pending)) = len
  BY <1>4, <1>5, <1>6, AsManyValues
<1>9. Held(state, s) \cap IdsOf(pending) = {}
  BY Zenon DEF OneIdEach, IdsOf
<1>10. Cardinality(Held(state, s)) \in Nat
  BY <1>7, FS_CardinalityType
<1>11. Cardinality({}) = 0
  BY FS_EmptySet
<1>12. live = Held(state, s) \cup IdsOf(pending)
  BY Zenon DEF OneIdEach
<1>13. Cardinality(live) = Cardinality(Held(state, s)) + len - 0
  <2>1. Cardinality(Held(state, s) \cup IdsOf(pending))
          = Cardinality(Held(state, s)) + Cardinality(IdsOf(pending))
              - Cardinality(Held(state, s) \cap IdsOf(pending))
    BY <1>7, <1>8, FS_Union, Zenon
  <2> QED BY <1>8, <1>9, <1>11, <1>12, <2>1, Zenon
<1> QED BY <1>7, <1>10, <1>13

-----------------------------------------------------------------------------
\* The invariant

MonTyped ==
  /\ liveIds \in [Source -> SUBSET Id] /\ nextIds \in [Source -> Id]
  /\ IsFiniteSet(DOMAIN senderState)
  /\ \A p \in DOMAIN senderState :
       senderState[p].source \in Source /\ senderState[p].allocatedId \in Id
  /\ pendingAtomic \in [Source -> Seq(Completion)]
  /\ lastTick \in [Source -> Int] /\ nonMonotonic = [s \in Source |-> FALSE]

MonInv ==
  /\ MonTyped
  /\ \A s \in Source : InOrder(pendingAtomic[s], lastTick[s])
  /\ \A s \in Source : OneIdEach(s, pendingAtomic[s], liveIds[s], senderState)

\* Until the traces are closed no record of the future is written.
NothingAhead == \A s \in Source : lastTick[s] <= 0

\* An allocated ID is one that the flush leaves free.
LEMMA AllocatedIsFree ==
  ASSUME MonTyped, NEW s \in Source, NEW id, Allocate(s, id)
  PROVE  /\ id \in Id /\ id \notin liveIds[s] \ IdsOf(Due(s))
         /\ nextIds' \in [Source -> Id]
<1> DEFINE live == liveIds[s] \ IdsOf(Due(s))
           free == Id \ live
           far  == {Distance(s, i) : i \in free}
<1>1. IdCount \in Nat \ {0} /\ nextIds[s] \in Id
  BY MonitorAssumption DEF MonTyped
<1>2. \A i \in Id : Distance(s, i) \in Nat
  <2>1. ASSUME NEW i \in Id PROVE Distance(s, i) \in Nat
    <3>1. i + IdCount - nextIds[s] \in Nat
      BY <1>1 DEF Id
    <3> QED BY <1>1, <3>1 DEF Distance
  <2> QED BY <2>1
<1>3. \E i \in free : \A other \in free : Distance(s, i) <= Distance(s, other)
  <2>1. free # {}
    <3>1. live # Id /\ live \subseteq Id
      BY DEF Allocate, MonTyped, Id
    <3> QED BY <3>1
  <2> HIDE DEF live
  <2>2. far # {} /\ far \subseteq Nat
    BY <1>2, <2>1, Zenon
  <2> HIDE DEF far
  <2>3. PICK d \in far : \A e \in far : ~(<<e, d>> \in OpToRel(<, Nat))
    BY <2>2, NatLessThanWellFounded, WFMin
  <2>4. ASSUME NEW e \in far PROVE d <= e
    <3>1. d \in Nat /\ e \in Nat
      BY <2>2, <2>3
    <3>2. e < d => <<e, d>> \in OpToRel(<, Nat)
      BY <3>1, ZenonT(20) DEF OpToRel
    <3>3. ~(e < d)
      BY <2>3, <3>2, Zenon
    <3> QED BY <3>1, <3>3
  <2>5. PICK i \in free : d = Distance(s, i)
    BY <2>3, Zenon DEF far
  <2>6. \A other \in free : Distance(s, other) \in far
    BY Zenon DEF far
  <2> QED BY <2>4, <2>5, <2>6, Zenon
<1>4. FreeId(s, live) \in free
  <2> HIDE DEF live
  <2> QED BY <1>3, Zenon DEF FreeId, Id
<1>5. id = FreeId(s, live)
  BY Zenon DEF Allocate
<1>6. (id + 1) % IdCount \in Id
  <2>1. id + 1 \in Nat
    BY <1>1, <1>4, <1>5 DEF Id
  <2> QED BY <1>1, <2>1 DEF Id
<1>7. nextIds' \in [Source -> Id]
  <2>1. nextIds' = [nextIds EXCEPT ![s] = (id + 1) % IdCount]
    BY Zenon DEF Allocate
  <2> QED BY <1>6, <2>1 DEF MonTyped
<1> QED BY <1>4, <1>5, <1>7, Zenon

LEMMA Presents ==
  ASSUME NEW now, now = << 0 >> \/ now = <<0, 0>>
  PROVE  now \in Seq(Int) /\ now # <<>> /\ \A i \in 1 .. Len(now) : now[i] = 0
<1>1. CASE now = <<0>>
  BY <1>1
<1>2. CASE now = <<0, 0>>
  BY <1>2
<1> QED BY <1>1, <1>2

\* What the flush does for the source of an event of the present.
LEMMA Flushes ==
  ASSUME MonInv, NothingAhead, NEW s \in Source,
         NEW now, now = << 0 >> \/ now = <<0, 0>>, Write(s, Ticks(Due(s)) \o now)
  PROVE  /\ lastTick' = [lastTick EXCEPT ![s] = 0] /\ nonMonotonic' = nonMonotonic
         /\ Later(s) \in Seq(Completion) /\ InOrder(Later(s), 0)
         /\ OneIdEach(s, Later(s), liveIds[s] \ IdsOf(Due(s)), senderState)
<1> DEFINE pending == pendingAtomic[s]
           last == lastTick[s]
           ticks == Ticks(Due(s)) \o now
<1>1. pending \in Seq(Completion) /\ last \in Int /\ last <= 0
  BY DEF MonInv, MonTyped, NothingAhead
<1>2. InOrder(pending, last) /\ OneIdEach(s, pending, liveIds[s], senderState)
  BY Zenon DEF MonInv
<1>3. now \in Seq(Int) /\ now # <<>> /\ \A i \in 1 .. Len(now) : now[i] = 0
  BY Presents, Zenon
<1>4. /\ ticks # <<>> /\ Last(ticks) = 0
      /\ \A i \in DOMAIN ticks : ~(ticks[i] < IF i = 1 THEN last ELSE ticks[i - 1])
      /\ Later(s) \in Seq(Completion) /\ InOrder(Later(s), 0)
  <2> HIDE DEF pending, last
  <2> QED BY <1>1, <1>2, <1>3, RecordsInOrder, Zenon DEF Due, Later, DueCount, pending
<1>5. lastTick' = [lastTick EXCEPT ![s] = 0]
  BY <1>4, Zenon DEF Write
<1>6. nonMonotonic' = nonMonotonic
  <2>1. nonMonotonic = [t \in Source |-> FALSE]
    BY Zenon DEF MonInv, MonTyped
  <2>2. nonMonotonic' = [nonMonotonic EXCEPT ![s] = FALSE]
    <3>1. ~(\/ nonMonotonic[s]
            \/ \E i \in DOMAIN ticks : ticks[i] < IF i = 1 THEN last ELSE ticks[i - 1])
      BY <1>4, <2>1, Zenon
    <3> QED BY <3>1, Zenon DEF Write
  <2> QED BY <2>1, <2>2
<1>7. OneIdEach(s, Later(s), liveIds[s] \ IdsOf(Due(s)), senderState)
  <2> DEFINE n == DueCount(s)
             len == Len(pending)
  <2>1. n \in 0 .. len
    BY <1>1, ThroughCuts DEF DueCount
  <2>2. len \in Nat /\ DOMAIN pending = 1 .. len
    BY <1>1, Completions
  <2>3. /\ Due(s) \in Seq(Completion) /\ Len(Due(s)) = n
        /\ \A i \in 1 .. n : Due(s)[i] = pending[i]
        /\ Later(s) \in Seq(Completion) /\ Len(Later(s)) = len - n
        /\ \A i \in 1 .. len - n : Later(s)[i] = pending[n + i]
    <3>1. Due(s) = SubSeq(pending, 1, n) /\ Later(s) = SubSeq(pending, n + 1, Len(pending))
      BY Zenon DEF Due, Later
    <3>2. pending \in Seq(Completion) /\ n \in 0 .. Len(pending)
      BY <1>1, <2>1
    <3> HIDE DEF n, pending
    <3>3. /\ SubSeq(pending, 1, n) \in Seq(Completion) /\ Len(SubSeq(pending, 1, n)) = n
          /\ \A i \in 1 .. n : SubSeq(pending, 1, n)[i] = pending[i]
          /\ SubSeq(pending, n + 1, Len(pending)) \in Seq(Completion)
          /\ Len(SubSeq(pending, n + 1, Len(pending))) = Len(pending) - n
          /\ \A i \in 1 .. Len(pending) - n :
               SubSeq(pending, n + 1, Len(pending))[i] = pending[n + i]
      BY <3>2, CutSequence, Zenon
    <3> QED BY <3>1, <3>3, Zenon DEF len
  <2>4. DOMAIN Due(s) = 1 .. n /\ DOMAIN Later(s) = 1 .. len - n
    BY <2>3
  <2> HIDE DEF n, len, pending
  <2>5. /\ \A i \in 1 .. n : Due(s)[i] = pending[i]
        /\ \A i \in 1 .. len - n : Later(s)[i] = pending[n + i]
    BY <2>3
  <2> QED BY <1>2, <2>1, <2>2, <2>4, <2>5, FlushIds
<1> QED BY <1>4, <1>5, <1>6, <1>7, Zenon

\* What is to be shown of an event of source s.
LEMMA EventOf ==
  ASSUME MonInv, NothingAhead, NEW s \in Source,
         lastTick' = [lastTick EXCEPT ![s] = 0], nonMonotonic' = nonMonotonic,
         nextIds' \in [Source -> Id],
         NEW new \in Seq(Completion), InOrder(new, 0),
         pendingAtomic' = [pendingAtomic EXCEPT ![s] = new],
         NEW live \in SUBSET Id, liveIds' = [liveIds EXCEPT ![s] = live],
         IsFiniteSet(DOMAIN senderState'),
         \A p \in DOMAIN senderState' :
           senderState'[p].source \in Source /\ senderState'[p].allocatedId \in Id,
         OneIdEach(s, new, live, senderState'),
         OthersKept(s, senderState', senderState)
  PROVE  MonInv' /\ NothingAhead'
<1>1. MonTyped
  BY Zenon DEF MonInv
<1>2. /\ pendingAtomic' \in [Source -> Seq(Completion)]
      /\ \A t \in Source : pendingAtomic'[t] = IF t = s THEN new ELSE pendingAtomic[t]
  BY <1>1 DEF MonTyped
<1>3. /\ liveIds' \in [Source -> SUBSET Id]
      /\ \A t \in Source : liveIds'[t] = IF t = s THEN live ELSE liveIds[t]
  BY <1>1 DEF MonTyped
<1>4. /\ lastTick' \in [Source -> Int]
      /\ \A t \in Source : lastTick'[t] = IF t = s THEN 0 ELSE lastTick[t]
  BY <1>1 DEF MonTyped
<1>5. MonTyped'
  BY <1>1, <1>2, <1>3, <1>4, Zenon DEF MonTyped
<1>6. ASSUME NEW t \in Source PROVE InOrder(pendingAtomic'[t], lastTick'[t])
  <2>1. InOrder(pendingAtomic[t], lastTick[t])
    BY Zenon DEF MonInv
  <2>2. CASE t = s
    BY <1>2, <1>4, <2>2, Zenon
  <2>3. CASE t # s
    BY <1>2, <1>4, <2>1, <2>3, Zenon
  <2> QED BY <2>2, <2>3, Zenon
<1>7. ASSUME NEW t \in Source
      PROVE  OneIdEach(t, pendingAtomic'[t], liveIds'[t], senderState')
  <2>1. CASE t = s
    BY <1>2, <1>3, <2>1, Zenon
  <2>2. CASE t # s
    <3>1. OneIdEach(t, pendingAtomic[t], liveIds[t], senderState)
      BY Zenon DEF MonInv
    <3>2. /\ Requests(senderState', t) = Requests(senderState, t)
          /\ \A q \in Requests(senderState, t) :
               senderState'[q].allocatedId = senderState[q].allocatedId
      BY <2>2, Zenon DEF OthersKept
    <3>3. OneIdEach(t, pendingAtomic[t], liveIds[t], senderState')
      BY <3>1, <3>2, SameRequests, Zenon
    <3> QED BY <1>2, <1>3, <2>2, <3>3, Zenon
  <2> QED BY <2>1, <2>2, Zenon
<1>8. NothingAhead'
  BY <1>4 DEF NothingAhead
<1> QED BY <1>5, <1>6, <1>7, <1>8, Zenon DEF MonInv

LEMMA LogRequestStep ==
  ASSUME MonInv, NothingAhead, NEW s \in Source, NEW p, p \notin DOMAIN senderState,
         LogRequest(p, s)
  PROVE  MonInv' /\ NothingAhead'
<1> DEFINE freed == liveIds[s] \ IdsOf(Due(s))
<1>1. PICK id \in 0 .. IdCount - 1 :
        /\ Allocate(s, id)
        /\ liveIds' = [liveIds EXCEPT ![s] = freed \cup {id}]
        /\ senderState' = [q \in DOMAIN senderState \cup {p} |->
                             IF q = p THEN [source |-> s, allocatedId |-> id]
                             ELSE senderState[q]]
        /\ pendingAtomic' = [pendingAtomic EXCEPT ![s] = Later(s)]
        /\ Write(s, Ticks(Due(s)) \o <<0>>)
  BY Zenon DEF LogRequest
<1>2. MonTyped
  BY Zenon DEF MonInv
<1>3. /\ lastTick' = [lastTick EXCEPT ![s] = 0] /\ nonMonotonic' = nonMonotonic
      /\ Later(s) \in Seq(Completion) /\ InOrder(Later(s), 0)
      /\ OneIdEach(s, Later(s), freed, senderState)
  BY <1>1, Flushes, Zenon
<1>4. id \in Id /\ id \notin freed /\ nextIds' \in [Source -> Id]
  BY <1>1, <1>2, AllocatedIsFree, Zenon
<1>5. /\ OneIdEach(s, Later(s), freed \cup {id}, senderState')
      /\ OthersKept(s, senderState', senderState)
  <2>1. /\ DOMAIN senderState' = DOMAIN senderState \cup {p}
        /\ senderState'[p].source = s /\ senderState'[p].allocatedId = id
        /\ \A q \in DOMAIN senderState : senderState'[q] = senderState[q]
    BY <1>1
  <2> HIDE DEF freed
  <2>2. OneIdEach(s, Later(s), freed, senderState) /\ id \notin freed
    BY <1>3, <1>4
  <2> QED BY <2>1, <2>2, BeginIds, Zenon
<1>6. freed \cup {id} \in SUBSET Id
  BY <1>2, <1>4 DEF MonTyped
<1>7. IsFiniteSet(DOMAIN senderState')
  <2>1. DOMAIN senderState' = DOMAIN senderState \cup {p}
    BY <1>1
  <2> QED BY <1>2, <2>1, FS_AddElement DEF MonTyped
<1>8. \A q \in DOMAIN senderState' :
        senderState'[q].source \in Source /\ senderState'[q].allocatedId \in Id
  <2>1. ASSUME NEW q \in DOMAIN senderState'
        PROVE  senderState'[q].source \in Source /\ senderState'[q].allocatedId \in Id
    <3>1. CASE q = p
      <4>1. senderState'[q] = [source |-> s, allocatedId |-> id]
        BY <1>1, <3>1, Zenon
      <4> QED BY <1>4, <4>1
    <3>2. CASE q # p
      <4>1. q \in DOMAIN senderState /\ senderState'[q] = senderState[q]
        BY <1>1, <2>1, <3>2, Zenon
      <4> QED BY <1>2, <4>1, Zenon DEF MonTyped
    <3> QED BY <3>1, <3>2, Zenon
  <2> QED BY <2>1, Zenon
<1> HIDE DEF freed
<1> QED BY <1>1, <1>3, <1>4, <1>5, <1>6, <1>7, <1>8, EventOf, Zenon

\* An event that leaves no request behind.
LEMMA EventWithoutRequest ==
  ASSUME MonInv, NothingAhead, NEW s \in Source, NEW id, Allocate(s, id),
         UNCHANGED senderState,
         NEW now, now = << 0 >> \/ now = <<0, 0>>, Write(s, Ticks(Due(s)) \o now),
         NEW new \in Seq(Completion), InOrder(new, 0),
         pendingAtomic' = [pendingAtomic EXCEPT ![s] = new],
         NEW live \in SUBSET Id, liveIds' = [liveIds EXCEPT ![s] = live],
         OneIdEach(s, new, live, senderState)
  PROVE  MonInv' /\ NothingAhead'
<1>1. MonTyped
  BY Zenon DEF MonInv
<1>2. lastTick' = [lastTick EXCEPT ![s] = 0] /\ nonMonotonic' = nonMonotonic
  BY Flushes, Zenon
<1>3. nextIds' \in [Source -> Id]
  BY <1>1, AllocatedIsFree, Zenon
<1>4. /\ IsFiniteSet(DOMAIN senderState') /\ OneIdEach(s, new, live, senderState')
      /\ \A p \in DOMAIN senderState' :
           senderState'[p].source \in Source /\ senderState'[p].allocatedId \in Id
      /\ OthersKept(s, senderState', senderState)
  BY <1>1, Zenon DEF MonTyped, OthersKept
<1> QED BY <1>2, <1>3, <1>4, EventOf, Zenon

LEMMA LogPostedStep ==
  ASSUME MonInv, NothingAhead, NEW s \in Source, LogPosted(s)
  PROVE  MonInv' /\ NothingAhead'
<1> DEFINE freed == liveIds[s] \ IdsOf(Due(s))
<1>1. PICK id \in 0 .. IdCount - 1 :
        /\ Allocate(s, id)
        /\ liveIds' = [liveIds EXCEPT ![s] = freed]
        /\ pendingAtomic' = [pendingAtomic EXCEPT ![s] = Later(s)]
        /\ Write(s, Ticks(Due(s)) \o <<0, 0>>)
        /\ UNCHANGED senderState
  BY Zenon DEF LogPosted
<1>2. /\ Later(s) \in Seq(Completion) /\ InOrder(Later(s), 0)
      /\ OneIdEach(s, Later(s), freed, senderState)
  BY <1>1, Flushes, Zenon
<1>3. freed \in SUBSET Id
  BY DEF MonInv, MonTyped
<1> HIDE DEF freed
<1> QED BY <1>1, <1>2, <1>3, EventWithoutRequest, Zenon

LEMMA LogAtomicStep ==
  ASSUME MonInv, NothingAhead, NEW s \in Source, NEW delay \in Nat, LogAtomic(s, delay)
  PROVE  MonInv' /\ NothingAhead'
<1> DEFINE freed == liveIds[s] \ IdsOf(Due(s))
           later == Later(s)
<1>1. freed \in SUBSET Id
  BY DEF MonInv, MonTyped
<1>2. CASE delay = 0
  <2>1. PICK id \in 0 .. IdCount - 1 :
          /\ Allocate(s, id)
          /\ liveIds' = [liveIds EXCEPT ![s] = freed]
          /\ pendingAtomic' = [pendingAtomic EXCEPT ![s] = later]
          /\ Write(s, Ticks(Due(s)) \o <<0, 0>>)
          /\ UNCHANGED senderState
    BY <1>2, Zenon DEF LogAtomic
  <2>2. /\ later \in Seq(Completion) /\ InOrder(later, 0)
        /\ OneIdEach(s, later, freed, senderState)
    BY <2>1, Flushes, Zenon
  <2> HIDE DEF freed, later
  <2> QED BY <1>1, <2>1, <2>2, EventWithoutRequest, Zenon
<1>3. CASE delay # 0
  <2> DEFINE end(id) == [tick |-> delay, allocatedId |-> id]
             k == Through(later, delay)
  <2>1. PICK id \in 0 .. IdCount - 1 :
          /\ Allocate(s, id)
          /\ liveIds' = [liveIds EXCEPT ![s] = freed \cup {id}]
          /\ pendingAtomic' = [pendingAtomic EXCEPT ![s] = InsertAt(later, k + 1, end(id))]
          /\ Write(s, Ticks(Due(s)) \o <<0>>)
          /\ UNCHANGED senderState
    BY <1>3, Zenon DEF LogAtomic
  <2>2. /\ later \in Seq(Completion) /\ InOrder(later, 0)
        /\ OneIdEach(s, later, freed, senderState)
    BY <2>1, Flushes, Zenon
  <2>3. id \in Id /\ id \notin freed
    BY <2>1, AllocatedIsFree, Zenon DEF MonInv
  <2> DEFINE new == InsertAt(later, k + 1, end(id))
             len == Len(later)
  <2>4. /\ end(id) \in Completion /\ end(id).tick = delay /\ end(id).tick >= 0
        /\ end(id).allocatedId = id
    BY <2>3 DEF Completion
  <2> HIDE DEF freed, later, end
  <2>5. new \in Seq(Completion) /\ InOrder(new, 0)
    BY <2>2, <2>4, InsertInOrder, Zenon
  <2>6. len \in Nat /\ DOMAIN later = 1 .. len /\ k \in 0 .. len
    BY <2>2, Completions, ThroughCuts
  <2>7. /\ Len(new) = len + 1
        /\ \A i \in 1 .. len + 1 :
             new[i] = IF i <= k THEN later[i] ELSE IF i = k + 1 THEN end(id) ELSE later[i - 1]
    <3>1. Len(new) = len + 1 /\ Among(new, later, k, end(id))
      <4> HIDE DEF k
      <4> QED BY <2>2, <2>4, <2>6, InsertSequence, Zenon
    <3> HIDE DEF new, k
    <3> QED BY <3>1, Zenon DEF Among
  <2>8. DOMAIN new = 1 .. len + 1
    <3> HIDE DEF new
    <3> QED BY <2>5, <2>7, Completions
  <2> HIDE DEF new, len, k
  <2>9. OneIdEach(s, new, freed \cup {id}, senderState)
    <3>1. end(id).allocatedId \notin freed
      BY <2>3, <2>4
    <3>2. OneIdEach(s, new, freed \cup {end(id).allocatedId}, senderState)
      BY <2>2, <2>6, <2>7, <2>8, <3>1, InsertIds, Zenon
    <3> QED BY <2>4, <3>2, Zenon
  <2>10. freed \cup {id} \in SUBSET Id
    BY <1>1, <2>3
  <2>11. pendingAtomic' = [pendingAtomic EXCEPT ![s] = new]
    BY <2>1, Zenon DEF new
  <2> QED BY <2>1, <2>5, <2>9, <2>10, <2>11, EventWithoutRequest, Zenon
<1> QED BY <1>2, <1>3

LEMMA LogResponseStep ==
  ASSUME MonInv, NothingAhead, NEW p \in DOMAIN senderState, LogResponse(p)
  PROVE  MonInv' /\ NothingAhead'
<1> DEFINE s == senderState[p].source
           id == senderState[p].allocatedId
           freed == liveIds[s] \ IdsOf(Due(s))
<1>1. MonTyped /\ s \in Source
  BY Zenon DEF MonInv, MonTyped
<1>2. /\ liveIds' = [liveIds EXCEPT ![s] = freed \ {id}]
      /\ senderState' = [q \in DOMAIN senderState \ {p} |-> senderState[q]]
      /\ pendingAtomic' = [pendingAtomic EXCEPT ![s] = Later(s)]
      /\ Write(s, Ticks(Due(s)) \o <<0>>)
      /\ UNCHANGED nextIds
  BY Zenon DEF LogResponse
<1>3. p \in Requests(senderState, s)
  BY Zenon DEF Requests
<1> HIDE DEF s
<1>4. /\ lastTick' = [lastTick EXCEPT ![s] = 0] /\ nonMonotonic' = nonMonotonic
      /\ Later(s) \in Seq(Completion) /\ InOrder(Later(s), 0)
      /\ OneIdEach(s, Later(s), freed, senderState)
  BY <1>1, <1>2, Flushes, Zenon
<1>5. freed \ {id} \in SUBSET Id /\ nextIds' \in [Source -> Id]
  BY <1>1, <1>2 DEF MonTyped
<1> HIDE DEF freed
<1>6. /\ OneIdEach(s, Later(s), freed \ {id}, senderState')
      /\ OthersKept(s, senderState', senderState)
  <2>1. /\ DOMAIN senderState' = DOMAIN senderState \ {p}
        /\ \A q \in DOMAIN senderState \ {p} : senderState'[q] = senderState[q]
    BY <1>2, Zenon
  <2> QED BY <1>3, <1>4, <2>1, EndIds, Zenon
<1>7. IsFiniteSet(DOMAIN senderState')
  <2>1. DOMAIN senderState' = DOMAIN senderState \ {p}
    BY <1>2, Zenon
  <2>2. IsFiniteSet(DOMAIN senderState)
    BY <1>1, Zenon DEF MonTyped
  <2>3. IsFiniteSet(DOMAIN senderState \ {p})
    BY <2>2, FS_RemoveElement
  <2> QED BY <2>1, <2>3
<1>8. \A q \in DOMAIN senderState' :
        senderState'[q].source \in Source /\ senderState'[q].allocatedId \in Id
  BY <1>1, <1>2, Zenon DEF MonTyped
<1> HIDE DEF id
<1> QED BY <1>1, <1>2, <1>4, <1>5, <1>6, <1>7, <1>8, EventOf, Zenon

\* Closing a trace writes the ends kept back, in order, and frees their IDs.
LEMMA CloseTraceStep ==
  ASSUME MonInv, NEW s \in Source, CloseTrace(s)
  PROVE  MonInv'
<1> DEFINE pending == pendingAtomic[s]
           last == lastTick[s]
           ticks == Ticks(pending)
           len == Len(pending)
<1>1. MonTyped
  BY Zenon DEF MonInv
<1>2. /\ liveIds' = [liveIds EXCEPT ![s] = @ \ IdsOf(pending)]
      /\ pendingAtomic' = [pendingAtomic EXCEPT ![s] = <<>>]
      /\ Write(s, ticks) /\ UNCHANGED <<nextIds, senderState>>
  BY Zenon DEF CloseTrace
<1>3. pending \in Seq(Completion) /\ last \in Int
  BY <1>1 DEF MonTyped
<1>4. /\ ticks \in Seq(Int) /\ Len(ticks) = len /\ \A i \in 1 .. len : ticks[i] = pending[i].tick
  BY <1>3, TicksAre, Zenon
<1>5. /\ len \in Nat /\ DOMAIN pending = 1 .. len
      /\ \A i \in 1 .. len : pending[i].tick \in Int
  BY <1>3, Completions
<1>6. InOrder(pending, last) /\ OneIdEach(s, pending, liveIds[s], senderState)
  BY Zenon DEF MonInv
<1> HIDE DEF pending, last, ticks, len
<1>7. ASSUME NEW i \in DOMAIN ticks PROVE ~(ticks[i] < IF i = 1 THEN last ELSE ticks[i - 1])
  <2>1. i \in 1 .. len
    BY <1>4
  <2>2. CASE i = 1
    <3>1. ticks[i] = pending[i].tick /\ last <= pending[i].tick
      BY <1>4, <1>5, <1>6, <2>1, Zenon DEF InOrder
    <3> QED BY <1>3, <1>5, <2>1, <2>2, <3>1
  <2>3. CASE i # 1
    <3>1. i - 1 \in 1 .. len /\ i - 1 < i
      BY <1>5, <2>1, <2>3
    <3>2. pending[i - 1].tick <= pending[i].tick
      BY <1>5, <1>6, <2>1, <3>1 DEF InOrder
    <3> QED BY <1>4, <1>5, <2>1, <2>3, <3>1, <3>2
  <2> QED BY <2>2, <2>3
<1>8. nonMonotonic' = [t \in Source |-> FALSE]
  <2>1. nonMonotonic = [t \in Source |-> FALSE]
    BY <1>1, Zenon DEF MonTyped
  <2>2. nonMonotonic' = [nonMonotonic EXCEPT ![s] = FALSE]
    <3>1. ~(\/ nonMonotonic[s]
            \/ \E i \in DOMAIN ticks : ticks[i] < IF i = 1 THEN last ELSE ticks[i - 1])
      BY <1>7, <2>1, Zenon
    <3> QED BY <1>2, <3>1, Zenon DEF Write, last
  <2> QED BY <2>1, <2>2
<1>9. lastTick' \in [Source -> Int] /\ \A t \in Source : t # s => lastTick'[t] = lastTick[t]
  <2>1. PICK tick : tick \in Int /\ lastTick' = [lastTick EXCEPT ![s] = tick]
    <3>1. CASE ticks = <<>>
      BY <1>1, <1>2, <1>3, <3>1 DEF Write, last, MonTyped
    <3>2. CASE ticks # <<>>
      <4>1. Last(ticks) \in Int
        BY <1>4, <3>2 DEF Last
      <4>2. lastTick' = [lastTick EXCEPT ![s] = Last(ticks)]
        BY <1>2, <3>2, Zenon DEF Write
      <4> QED BY <4>1, <4>2, Zenon
    <3> QED BY <3>1, <3>2
  <2> QED BY <1>1, <2>1 DEF MonTyped
<1>10. /\ pendingAtomic' \in [Source -> Seq(Completion)]
       /\ \A t \in Source : pendingAtomic'[t] = IF t = s THEN <<>> ELSE pendingAtomic[t]
  BY <1>1, <1>2 DEF MonTyped
<1>11. /\ liveIds' \in [Source -> SUBSET Id]
       /\ \A t \in Source : liveIds'[t] = IF t = s THEN liveIds[s] \ IdsOf(pending) ELSE liveIds[t]
  BY <1>1, <1>2 DEF MonTyped
<1>12. MonTyped'
  BY <1>1, <1>2, <1>8, <1>9, <1>10, <1>11, Zenon DEF MonTyped
<1>13. ASSUME NEW t \in Source PROVE InOrder(pendingAtomic'[t], lastTick'[t])
  <2>1. CASE t = s
    <3>1. pendingAtomic'[t] = <<>>
      BY <1>10, <2>1, Zenon
    <3> QED BY <3>1 DEF InOrder
  <2>2. CASE t # s
    <3>1. InOrder(pendingAtomic[t], lastTick[t])
      BY Zenon DEF MonInv
    <3> QED BY <1>9, <1>10, <2>2, <3>1, Zenon
  <2> QED BY <2>1, <2>2, Zenon
<1>14. ASSUME NEW t \in Source
       PROVE  OneIdEach(t, pendingAtomic'[t], liveIds'[t], senderState')
  <2>1. CASE t = s
    <3>1. IdsOf(<<>>) = {} /\ DOMAIN <<>> = {}
      BY DEF IdsOf
    <3>2. liveIds[s] \ IdsOf(pending) = Held(senderState, s)
      <4>1. \A x \in Held(senderState, s) : x \notin IdsOf(pending)
        BY <1>6, Zenon DEF OneIdEach, IdsOf
      <4>2. liveIds[s] = Held(senderState, s) \cup IdsOf(pending)
        BY <1>6, Zenon DEF OneIdEach
      <4> QED BY <4>1, <4>2, Zenon
    <3>3. OneIdEach(s, <<>>, Held(senderState, s), senderState)
      BY <1>6, <3>1, Zenon DEF OneIdEach
    <3> QED BY <1>2, <1>10, <1>11, <2>1, <3>2, <3>3, Zenon
  <2>2. CASE t # s
    <3>1. OneIdEach(t, pendingAtomic[t], liveIds[t], senderState)
      BY Zenon DEF MonInv
    <3> QED BY <1>2, <1>10, <1>11, <2>2, <3>1, Zenon
  <2> QED BY <2>1, <2>2, Zenon
<1> QED BY <1>12, <1>13, <1>14, Zenon DEF MonInv

LEMMA FunctionIsSequence ==
  ASSUME NEW S, NEW n \in Nat, NEW f \in [1 .. n -> S]
  PROVE  f \in Seq(S)
OBVIOUS

LEMMA OlderKeepsOrder ==
  ASSUME NEW t \in Int, NEW u \in Int
  PROVE  /\ Older(t) \in Int
         /\ t <= u => Older(t) <= Older(u)
         /\ t <= 0 => Older(t) <= 0
BY MonitorAssumption DEF Older

\* As time passes everything ages alike.
LEMMA MonElapseStep ==
  ASSUME MonInv, MonElapse
  PROVE  MonInv' /\ (NothingAhead => NothingAhead')
<1>1. MonTyped
  BY Zenon DEF MonInv
<1>2. lastTick' \in [Source -> Int]
      /\ \A s \in Source : lastTick'[s] = Older(lastTick[s]) /\ lastTick[s] \in Int
  <2>1. \A s \in Source : lastTick[s] \in Int /\ Older(lastTick[s]) \in Int
    BY <1>1, OlderKeepsOrder DEF MonTyped
  <2> QED BY <2>1 DEF MonElapse
<1>3. UNCHANGED <<liveIds, nextIds, senderState, nonMonotonic>>
  BY Zenon DEF MonElapse
<1>4. ASSUME NEW s \in Source
      PROVE  /\ pendingAtomic'[s] \in Seq(Completion)
             /\ InOrder(pendingAtomic'[s], lastTick'[s])
             /\ OneIdEach(s, pendingAtomic'[s], liveIds'[s], senderState')
  <2> DEFINE pending == pendingAtomic[s]
             new == [i \in DOMAIN pending |-> [pending[i] EXCEPT !.tick = Older(@)]]
             len == Len(pending)
  <2>1. pending \in Seq(Completion) /\ pendingAtomic'[s] = new
    BY <1>1 DEF MonTyped, MonElapse
  <2>2. len \in Nat /\ DOMAIN pending = 1 .. len /\ \A i \in 1 .. len : pending[i] \in Completion
    BY <2>1, Completions
  <2>3. ASSUME NEW i \in 1 .. len
        PROVE  /\ new[i] \in Completion /\ new[i].allocatedId = pending[i].allocatedId
               /\ new[i].tick = Older(pending[i].tick) /\ pending[i].tick \in Int
    <3>1. pending[i] \in Completion /\ pending[i].tick \in Int
      BY <2>2 DEF Completion
    <3>2. Older(pending[i].tick) \in Int
      BY <3>1, OlderKeepsOrder
    <3>3. new[i] = [pending[i] EXCEPT !.tick = Older(pending[i].tick)]
      BY <2>2
    <3> QED BY <3>1, <3>2, <3>3 DEF Completion
  <2>4. new \in Seq(Completion) /\ DOMAIN new = 1 .. len
    <3>1. DOMAIN new = 1 .. len /\ new = [i \in 1 .. len |-> new[i]]
      BY <2>2
    <3>2. \A i \in 1 .. len : new[i] \in Completion
      BY <2>3, Zenon
    <3> HIDE DEF new, len
    <3>3. new \in [1 .. len -> Completion]
      BY <3>1, <3>2, Zenon
    <3>4. new \in Seq(Completion)
      BY <2>2, <3>3, FunctionIsSequence, Zenon
    <3> QED BY <3>1, <3>4
  <2> HIDE DEF new, len, pending
  <2>5. InOrder(pending, lastTick[s]) /\ OneIdEach(s, pending, liveIds[s], senderState)
    BY Zenon DEF MonInv, pending
  <2>6. InOrder(new, lastTick'[s])
    <3>1. ASSUME NEW i \in 1 .. len, NEW j \in 1 .. len, i < j
          PROVE  new[i].tick <= new[j].tick
      <4>1. pending[i].tick <= pending[j].tick
        BY <2>2, <2>5, <3>1, Zenon DEF InOrder
      <4> QED BY <2>3, <4>1, OlderKeepsOrder
    <3>2. ASSUME NEW i \in 1 .. len PROVE lastTick'[s] <= new[i].tick
      <4>1. lastTick[s] <= pending[i].tick
        BY <2>2, <2>5, Zenon DEF InOrder
      <4> QED BY <1>2, <2>3, <4>1, OlderKeepsOrder
    <3> QED BY <2>4, <3>1, <3>2, Zenon DEF InOrder
  <2>7. OneIdEach(s, new, liveIds[s], senderState)
    <3>1. IdsOf(new) = IdsOf(pending)
      BY <2>2, <2>3, <2>4, Zenon DEF IdsOf
    <3>2. /\ \A i, j \in DOMAIN new : new[i].allocatedId = new[j].allocatedId => i = j
          /\ \A i \in DOMAIN new : new[i].allocatedId \notin Held(senderState, s)
      BY <2>2, <2>3, <2>4, <2>5 DEF OneIdEach
    <3> QED BY <2>5, <3>1, <3>2, Zenon DEF OneIdEach
  <2> QED BY <1>3, <2>1, <2>4, <2>6, <2>7, Zenon
<1>5. pendingAtomic' \in [Source -> Seq(Completion)]
  BY <1>4 DEF MonElapse
<1>6. MonTyped'
  BY <1>1, <1>2, <1>3, <1>5, Zenon DEF MonTyped
<1>7. NothingAhead => NothingAhead'
  BY <1>2, OlderKeepsOrder DEF NothingAhead
<1> QED BY <1>4, <1>6, <1>7, Zenon DEF MonInv

LEMMA MonInitially ==
  ASSUME MonInit
  PROVE  MonInv /\ NothingAhead
<1>1. /\ IsFiniteSet(DOMAIN senderState) /\ DOMAIN senderState = {}
  <2>1. DOMAIN senderState = {}
    BY DEF MonInit
  <2> QED BY <2>1, FS_EmptySet, Zenon
<1>2. \A s \in Source : liveIds[s] = {} /\ pendingAtomic[s] = <<>> /\ lastTick[s] = -MaxAge
  BY DEF MonInit
<1>3. MonTyped
  BY <1>1, MonitorAssumption DEF MonInit, MonTyped, Id
<1>4. NothingAhead
  BY <1>2, MonitorAssumption DEF NothingAhead
<1>5. ASSUME NEW s \in Source PROVE InOrder(pendingAtomic[s], lastTick[s])
  BY <1>2 DEF InOrder
<1>6. ASSUME NEW s \in Source
      PROVE  OneIdEach(s, pendingAtomic[s], liveIds[s], senderState)
  <2>1. IdsOf(<<>>) = {} /\ DOMAIN <<>> = {}
    BY DEF IdsOf
  <2>2. Requests(senderState, s) = {} /\ Held(senderState, s) = {}
    BY <1>1, Zenon DEF Requests, Held
  <2>3. OneIdEach(s, <<>>, {}, senderState)
    BY <2>1, <2>2, Zenon DEF OneIdEach
  <2> QED BY <1>2, <2>3, Zenon
<1> QED BY <1>3, <1>4, <1>5, <1>6, Zenon DEF MonInv

\* The property of the traces follows.
LEMMA MonSafe ==
  ASSUME MonInv
  PROVE  TraceIsWellFormed
<1>1. SUFFICES ASSUME NEW s \in Source
               PROVE  /\ ~nonMonotonic[s]
                      /\ liveIds[s] = {senderState[p].allocatedId : p \in InFlight(s)}
                                        \cup IdsOf(pendingAtomic[s])
                      /\ Cardinality(liveIds[s])
                           = Cardinality(InFlight(s)) + Len(pendingAtomic[s])
  BY Zenon DEF TraceIsWellFormed
<1>2. OneIdEach(s, pendingAtomic[s], liveIds[s], senderState)
  BY Zenon DEF MonInv
<1>3. InFlight(s) = Requests(senderState, s)
  BY Zenon DEF InFlight, Requests
<1>4. ~nonMonotonic[s]
  BY Zenon DEF MonInv, MonTyped
<1>5. liveIds[s] = {senderState[p].allocatedId : p \in InFlight(s)} \cup IdsOf(pendingAtomic[s])
  BY <1>2, <1>3, Zenon DEF OneIdEach, Held
<1>6. Cardinality(liveIds[s]) = Cardinality(InFlight(s)) + Len(pendingAtomic[s])
  <2>1. pendingAtomic[s] \in Seq(Completion) /\ IsFiniteSet(DOMAIN senderState)
    BY DEF MonInv, MonTyped
  <2>2. /\ Len(pendingAtomic[s]) \in Nat
        /\ DOMAIN pendingAtomic[s] = 1 .. Len(pendingAtomic[s])
    BY <2>1, Completions
  <2> QED BY <1>2, <1>3, <2>1, <2>2, IdsCounted
<1> QED BY <1>4, <1>5, <1>6

-----------------------------------------------------------------------------
\* The system

\* What the sources still have to do, and what they sent, has its type.
HetTyped ==
  /\ work \in Workload
  /\ bus \in Seq(Packet)
  /\ nextAxiSequence \in Nat /\ nextToken \in Nat

-----------------------------------------------------------------------------
\* Types of the workload and of the bus

LEMMA KindsOfPackets ==
  /\ \A dir \in Direction, n \in Nat : [kind |-> dir, n |-> n] \in Packet
  /\ \A n \in Nat : /\ [kind |-> "cp", n |-> n] \in Packet
                    /\ [kind |-> "core", n |-> n] \in Packet
                    /\ [kind |-> "load", n |-> n] \in Packet
                    /\ [kind |-> "writeback", n |-> n] \in Packet
BY HetAssumption DEF Packet

LEMMA FirstAndRest ==
  ASSUME NEW S, NEW q \in Seq(S), q # <<>>
  PROVE  Head(q) \in S /\ Tail(q) \in Seq(S)
OBVIOUS

\* The first thing left to do is one of the things that can be done.
LEMMA WorkLeft ==
  ASSUME HetTyped
  PROVE  /\ work.host # <<>> =>
              /\ Head(work.host) \in {"load", "writeback"} /\ Len(work.host) \in Nat
              /\ [work EXCEPT !.host = Tail(work.host)] \in Workload
         /\ work.npu # <<>> =>
              /\ Head(work.npu).dir \in Direction /\ Head(work.npu).id \in AxiId
              /\ [work EXCEPT !.npu = Tail(work.npu)] \in Workload
         /\ work.gpu # <<>> =>
              /\ Head(work.gpu) \in Command
              /\ [work EXCEPT !.gpu = Tail(work.gpu)] \in Workload
<1>1. /\ work \in [atomics : Nat, host : Seq({"load", "writeback"}),
                   npu : Seq([dir : Direction, id : AxiId]), gpu : Seq(Command)]
  BY DEF HetTyped, Workload
<1>2. /\ work.host \in Seq({"load", "writeback"})
      /\ work.npu \in Seq([dir : Direction, id : AxiId])
      /\ work.gpu \in Seq(Command)
  BY <1>1
<1>3. ASSUME work.host # <<>>
      PROVE  /\ Head(work.host) \in {"load", "writeback"} /\ Len(work.host) \in Nat
             /\ Tail(work.host) \in Seq({"load", "writeback"})
  BY <1>2, <1>3
<1>4. ASSUME work.npu # <<>>
      PROVE  /\ Head(work.npu) \in [dir : Direction, id : AxiId]
             /\ Tail(work.npu) \in Seq([dir : Direction, id : AxiId])
  BY <1>2, <1>4, FirstAndRest, Zenon
<1>5. ASSUME work.gpu # <<>>
      PROVE  Head(work.gpu) \in Command /\ Tail(work.gpu) \in Seq(Command)
  BY <1>2, <1>5
<1> QED BY <1>1, <1>3, <1>4, <1>5 DEF Workload

LEMMA IssueTyped ==
  ASSUME HetTyped, NEW kind, NEW n, [kind |-> kind, n |-> n] \in Packet, Issue(kind, n)
  PROVE  bus' \in Seq(Packet)
BY DEF HetTyped, Issue

LEMMA TypedStep ==
  ASSUME HetTyped, [HetNext]_vars
  PROVE  HetTyped'
<1>1. ASSUME NEW delay \in AtomicDelays, HostAtomic(delay) PROVE HetTyped'
  <2>1. work.atomics - 1 \in Nat
    BY <1>1 DEF HetTyped, Workload, HostAtomic
  <2>2. work' \in Workload
    BY <1>1, <2>1 DEF HetTyped, Workload, HostAtomic
  <2> QED BY <1>1, <2>2 DEF HetTyped, HostAtomic, npuVars, gpuVars
<1>2. CASE SwitchToTiming
  BY <1>2 DEF HetTyped, SwitchToTiming, npuVars, gpuVars
<1>3. CASE HostSend
  <2>1. bus' \in Seq(Packet)
    <3>1. [kind |-> Head(work.host), n |-> Len(work.host)] \in Packet
      BY <1>3, WorkLeft, KindsOfPackets DEF HostSend
    <3> QED BY <1>3, <3>1, IssueTyped DEF HostSend
  <2> QED BY <1>3, <2>1, WorkLeft DEF HetTyped, HostSend, npuVars, gpuVars
<1>4. CASE HostRings
  BY <1>4, WorkLeft DEF HetTyped, HostRings, Doorbell, npuVars
<1>5. CASE HostStartsNpu
  BY <1>5 DEF HetTyped, HostStartsNpu, LoadAndStart, gpuVars, hetVars
<1>6. CASE NpuTick
  <2>1. CASE work.npu = <<>>
    BY <1>6, <2>1 DEF HetTyped, NpuTick, NpuHalts, gpuVars
  <2>2. CASE work.npu # <<>>
    <3>1. Issue(Head(work.npu).dir, nextAxiSequence) /\ nextAxiSequence' = nextAxiSequence + 1
      BY <1>6, <2>2 DEF NpuTick, NpuIssue
    <3>2. bus' \in Seq(Packet)
      BY <2>2, <3>1, WorkLeft, KindsOfPackets, IssueTyped DEF HetTyped
    <3>3. work' \in Workload /\ nextToken' = nextToken
      BY <1>6, <2>2, WorkLeft DEF NpuTick, gpuVars
    <3> QED BY <3>1, <3>2, <3>3 DEF HetTyped
  <2> QED BY <2>1, <2>2
<1>7. CASE CpTick
  <2>1. UNCHANGED <<work, nextAxiSequence>>
    BY <1>7 DEF CpTick, npuVars
  <2>2. nextToken' = nextToken
    BY <1>7 DEF CpTick, CpAccess, CpLaunch, CpPoll, CpRetire
  <2>3. bus' \in Seq(Packet)
    <3>1. Issue("cp", 0) \/ UNCHANGED bus
      BY <1>7 DEF CpTick
    <3> QED BY <3>1, KindsOfPackets, IssueTyped DEF HetTyped
  <2> QED BY <2>1, <2>2, <2>3 DEF HetTyped
<1>8. CASE VortexTick
  <2>1. UNCHANGED <<work, nextAxiSequence>>
    BY <1>8 DEF VortexTick, npuVars
  <2>2. nextToken' \in Nat
    BY <1>8 DEF VortexTick, IssueCoreTiming, KernelEnds, HetTyped
  <2>3. bus' \in Seq(Packet)
    <3>1. Issue("core", nextToken) \/ UNCHANGED bus
      BY <1>8 DEF VortexTick
    <3> QED BY <3>1, KindsOfPackets, IssueTyped DEF HetTyped
  <2> QED BY <2>1, <2>2, <2>3 DEF HetTyped
<1>9. ASSUME NEW delay \in Delays, Request(delay) PROVE HetTyped'
  BY <1>9 DEF HetTyped, Request, npuVars, gpuVars
<1>10. CASE RequestRefused
  BY <1>10 DEF HetTyped, RequestRefused, npuVars, gpuVars, hetVars
<1>11. CASE MemRelease
  BY <1>11 DEF HetTyped, MemRelease, npuVars, gpuVars, hetVars
<1>12. ASSUME NEW taken \in BOOLEAN, Respond(taken) PROVE HetTyped'
  BY <1>12 DEF HetTyped, Respond, npuVars, gpuVars
<1>13. ASSUME NEW p \in returning, Deliver(p) PROVE HetTyped'
  <2>1. UNCHANGED <<work, bus>>
    BY <1>13 DEF Deliver
  <2>2. UNCHANGED <<nextAxiSequence, nextToken>>
    BY <1>13 DEF Deliver, MemoryComplete, DmaComplete, CoreDmaComplete, npuVars, gpuVars
  <2> QED BY <2>1, <2>2 DEF HetTyped
<1>14. CASE TimePasses
  BY <1>14 DEF HetTyped, TimePasses, npuVars, gpuVars, hetVars
<1>15. CASE Exit
  BY <1>15 DEF HetTyped, Exit, npuVars, gpuVars
<1>16. CASE UNCHANGED vars
  BY <1>16 DEF HetTyped, vars, npuVars, gpuVars, hetVars
<1> QED BY <1>1, <1>2, <1>3, <1>4, <1>5, <1>6, <1>7, <1>8, <1>9, <1>10, <1>11, <1>12,
           <1>13, <1>14, <1>15, <1>16 DEF HetNext

LEMMA TypedAlways == HetSpec => []HetTyped
<1>1. HetInit => HetTyped
  BY HetAssumption DEF HetInit, HetTyped, NpuInit, GpuInit
<1> QED BY <1>1, TypedStep, PTL DEF HetSpec

-----------------------------------------------------------------------------
\* Each component in the system only does what it does alone.

LEMMA MemoryStep ==
  ASSUME HetTyped, [HetNext]_vars
  PROVE  [MemNext]_memVars
<1>1. ASSUME NEW delay \in AtomicDelays, HostAtomic(delay) PROVE UNCHANGED memVars
  BY <1>1 DEF HostAtomic
<1>2. CASE SwitchToTiming \/ HostSend \/ HostRings \/ HostStartsNpu
  BY <1>2 DEF SwitchToTiming, HostSend, HostRings, HostStartsNpu
<1>3. CASE NpuTick \/ CpTick \/ VortexTick \/ Exit
  BY <1>3 DEF NpuTick, CpTick, VortexTick, Exit
<1>4. ASSUME NEW p \in returning, Deliver(p) PROVE UNCHANGED memVars
  BY <1>4 DEF Deliver
<1>5. CASE UNCHANGED vars
  BY <1>5 DEF vars
<1>6. ASSUME NEW delay \in Delays, Request(delay) PROVE MemNext
  <2>1. Head(bus) \in Packet /\ Accept(Head(bus), delay)
    BY <1>6 DEF Request, HetTyped
  <2> QED BY <2>1 DEF MemNext
<1>7. CASE RequestRefused \/ MemRelease \/ TimePasses
  BY <1>7 DEF RequestRefused, MemRelease, TimePasses, MemNext
<1>8. ASSUME NEW taken \in BOOLEAN, Respond(taken) PROVE MemNext
  BY <1>8 DEF Respond, MemNext
<1> QED BY <1>1, <1>2, <1>3, <1>4, <1>5, <1>6, <1>7, <1>8 DEF HetNext

LEMMA NpuStep ==
  ASSUME HetTyped, [HetNext]_vars
  PROVE  [NpuNext]_npuVars
<1>1. ASSUME NEW delay \in AtomicDelays, HostAtomic(delay) PROVE UNCHANGED npuVars
  BY <1>1 DEF HostAtomic
<1>2. CASE SwitchToTiming \/ HostSend \/ HostRings
  BY <1>2 DEF SwitchToTiming, HostSend, HostRings
<1>3. CASE CpTick \/ VortexTick \/ Exit
  BY <1>3 DEF CpTick, VortexTick, Exit
<1>4. CASE RequestRefused \/ MemRelease \/ TimePasses
  BY <1>4 DEF RequestRefused, MemRelease, TimePasses
<1>5. ASSUME NEW delay \in Delays, Request(delay) PROVE UNCHANGED npuVars
  BY <1>5 DEF Request
<1>6. ASSUME NEW taken \in BOOLEAN, Respond(taken) PROVE UNCHANGED npuVars
  BY <1>6 DEF Respond
<1>7. CASE UNCHANGED vars
  BY <1>7 DEF vars
<1>8. CASE HostStartsNpu
  BY <1>8 DEF HostStartsNpu, NpuNext
<1>9. CASE NpuTick
  <2>1. CASE work.npu = <<>>
    BY <1>9, <2>1 DEF NpuTick, NpuNext
  <2>2. CASE work.npu # <<>>
    <3>1. /\ NpuIssue(Head(work.npu).dir, Head(work.npu).id, Tail(work.npu) # <<>>)
          /\ Head(work.npu).dir \in Direction /\ Head(work.npu).id \in AxiId
          /\ (Tail(work.npu) # <<>>) \in BOOLEAN
      BY <1>9, <2>2, WorkLeft DEF NpuTick
    <3> QED BY <3>1, Zenon DEF NpuNext
  <2> QED BY <2>1, <2>2
<1>10. ASSUME NEW p \in returning, Deliver(p) PROVE [NpuNext]_npuVars
  <2>1. UNCHANGED npuVars \/ (p.kind \in Direction /\ MemoryComplete(p.kind, p.n))
    BY <1>10 DEF Deliver
  <2>2. ASSUME p.kind \in Direction, MemoryComplete(p.kind, p.n) PROVE NpuNext
    <3>1. p.n \in DOMAIN txns[p.kind]
      BY <2>2 DEF MemoryComplete
    <3> QED BY <2>2, <3>1, Zenon DEF NpuNext
  <2> QED BY <2>1, <2>2
<1> QED BY <1>1, <1>2, <1>3, <1>4, <1>5, <1>6, <1>7, <1>8, <1>9, <1>10 DEF HetNext

LEMMA GpuStep ==
  ASSUME HetTyped, [HetNext]_vars
  PROVE  [GpuNext]_gpuVars
<1>1. ASSUME NEW delay \in AtomicDelays, HostAtomic(delay) PROVE UNCHANGED gpuVars
  BY <1>1 DEF HostAtomic
<1>2. CASE SwitchToTiming \/ HostSend \/ HostStartsNpu
  BY <1>2 DEF SwitchToTiming, HostSend, HostStartsNpu
<1>3. CASE NpuTick \/ Exit
  BY <1>3 DEF NpuTick, Exit
<1>4. CASE RequestRefused \/ MemRelease \/ TimePasses
  BY <1>4 DEF RequestRefused, MemRelease, TimePasses
<1>5. ASSUME NEW delay \in Delays, Request(delay) PROVE UNCHANGED gpuVars
  BY <1>5 DEF Request
<1>6. ASSUME NEW taken \in BOOLEAN, Respond(taken) PROVE UNCHANGED gpuVars
  BY <1>6 DEF Respond
<1>7. CASE UNCHANGED vars
  BY <1>7 DEF vars
<1>8. CASE HostRings
  <2>1. Head(work.gpu) \in Command /\ Doorbell(Head(work.gpu))
    BY <1>8, WorkLeft DEF HostRings
  <2> QED BY <2>1 DEF GpuNext
<1>9. CASE CpTick
  BY <1>9 DEF CpTick, GpuNext
<1>10. CASE VortexTick
  BY <1>10 DEF VortexTick, GpuNext
<1>11. ASSUME NEW p \in returning, Deliver(p) PROVE [GpuNext]_gpuVars
  <2>1. UNCHANGED gpuVars \/ DmaComplete \/ CoreDmaComplete(p.n)
    BY <1>11 DEF Deliver
  <2>2. ASSUME CoreDmaComplete(p.n) PROVE GpuNext
    <3>1. p.n \in coreDmas
      BY <2>2 DEF CoreDmaComplete
    <3> QED BY <2>2, <3>1, Zenon DEF GpuNext
  <2>3. ASSUME DmaComplete PROVE GpuNext
    BY <2>3 DEF GpuNext
  <2> QED BY <2>1, <2>2, <2>3
<1> QED BY <1>1, <1>2, <1>3, <1>4, <1>5, <1>6, <1>7, <1>8, <1>9, <1>10, <1>11 DEF HetNext

\* The memory behind bus and monitor is the memory of UnifiedTimingMemory: the
\* sources never ask for what it does not take (unified_timing_memory.cc).
THEOREM HetImplementsMemory == HetSpec => MemSpec
<1>1. HetInit => MemInit
  BY DEF HetInit
<1> QED BY <1>1, MemoryStep, TypedAlways, PTL DEF HetSpec, MemSpec

\* The NPU, fed by the bus, is the NPU of CoralNpu (coralnpu_dev.cc).
THEOREM HetImplementsNpu == HetSpec => NpuSpec
<1>1. HetInit => NpuInit
  BY DEF HetInit
<1> QED BY <1>1, NpuStep, TypedAlways, PTL DEF HetSpec, NpuSpec

\* The GPU, rung by the host, is the GPU of VortexGpgpu (vortex_gpgpu_dev.cc).
THEOREM HetImplementsGpu == HetSpec => GpuSpec
<1>1. HetInit => GpuInit
  BY DEF HetInit
<1> QED BY <1>1, GpuStep, TypedAlways, PTL DEF HetSpec, GpuSpec

\* What is proved of memory, NPU and GPU alone, in the system.
Components == HetTyped /\ MemInv /\ NpuInv /\ GpuInv

LEMMA ComponentsAlways == HetSpec => []Components
<1>1. HetTyped /\ MemInv /\ NpuInv /\ GpuInv => Components
  BY DEF Components
<1> QED BY <1>1, TypedAlways, HetImplementsMemory, HetImplementsNpu, HetImplementsGpu,
           MemInvariance, NpuInvariance, GpuInvariance, PTL

\* No wake-up of the memory or of the command processor is lost, and responses
\* keep the order of their address and of their AXI ID, in the system as alone.
THEOREM ContractsInSystem ==
  HetSpec => [](NoWakeupLost /\ SameAddressInOrder /\ RetiresInIssueOrder /\ ResumedExactlyWithData)
<1>1. Components =>
        NoWakeupLost /\ SameAddressInOrder /\ RetiresInIssueOrder /\ ResumedExactlyWithData
  BY DEF Components, MemInv, NpuInv, GpuInv
<1> QED BY <1>1, ComponentsAlways, PTL

-----------------------------------------------------------------------------
\* Packets that expect an answer

Sent == {bus[i] : i \in {j \in DOMAIN bus : bus[j] \notin Posted}}

\* Each is in one place: once on the bus, in the memory or on the way back.
EachOnce ==
  /\ \A i, j \in DOMAIN bus : bus[i] \notin Posted /\ bus[i] = bus[j] => i = j
  /\ Sent \cap DOMAIN senderState = {} /\ Sent \cap returning = {}
  /\ DOMAIN senderState \cap returning = {}
  /\ \A i, j \in DOMAIN packetQueue : packetQueue[i].pkt = packetQueue[j].pkt => i = j
  /\ {packetQueue[i].pkt : i \in DOMAIN packetQueue} = DOMAIN senderState

Traffic == EachOnce /\ OnTheWay \subseteq Packet \ Posted

\* What the devices and the host wait for: the packets of each of them.
NpuClaims  == {p \in OnTheWay : p.kind \in Direction} = NpuWaits
CoreClaims == {p.n : p \in {q \in OnTheWay : q.kind = "core"}} = coreDmas
CpClaims   == /\ activeCpDma <=> \E p \in OnTheWay : p.kind = "cp"
              /\ \A p \in OnTheWay : p.kind = "cp" => p.n = 0
HostClaims == \/ hostLoads = 0 /\ \A p \in OnTheWay : p.kind # "load"
              \/ hostLoads = 1 /\ \E p \in OnTheWay : {q \in OnTheWay : q.kind = "load"} = {p}
TokensUsed == \A token \in coreDmas : token < nextToken

HetInv == Traffic /\ NpuClaims /\ CoreClaims /\ CpClaims /\ HostClaims /\ TokensUsed

LEMMA OnTheWayIs == OnTheWay = Sent \cup DOMAIN senderState \cup returning
BY DEF OnTheWay, Sent

\* A packet put on the bus is one more on its way, unless it is posted.
LEMMA Issuing ==
  ASSUME HetTyped, Traffic, NEW p \in Packet, p \notin OnTheWay,
         bus' = Append(bus, p), UNCHANGED <<senderState, returning, packetQueue>>
  PROVE  /\ Traffic'
         /\ p \notin Posted => OnTheWay' = OnTheWay \cup {p}
         /\ p \in Posted => OnTheWay' = OnTheWay
<1> DEFINE len == Len(bus)
<1>1. /\ bus \in Seq(Packet) /\ len \in Nat /\ DOMAIN bus = 1 .. len
      /\ DOMAIN bus' = 1 .. len + 1 /\ bus'[len + 1] = p
      /\ \A i \in 1 .. len : bus'[i] = bus[i]
  BY DEF HetTyped
<1> HIDE DEF len
<1>2. Sent' = IF p \in Posted THEN Sent ELSE Sent \cup {p}
  <2>1. ASSUME NEW q \in Sent' PROVE q \in Sent \/ (q = p /\ p \notin Posted)
    <3>1. PICK i \in DOMAIN bus' : bus'[i] \notin Posted /\ q = bus'[i]
      BY DEF Sent
    <3>2. CASE i = len + 1
      BY <1>1, <3>1, <3>2
    <3>3. CASE i # len + 1
      <4>1. i \in 1 .. len
        BY <1>1, <3>3
      <4> QED BY <1>1, <3>1, <4>1 DEF Sent
    <3> QED BY <3>2, <3>3
  <2>2. ASSUME NEW q \in Sent PROVE q \in Sent'
    <3>1. PICK i \in DOMAIN bus : bus[i] \notin Posted /\ q = bus[i]
      BY DEF Sent
    <3>2. i \in DOMAIN bus' /\ bus'[i] = bus[i]
      BY <1>1, <3>1
    <3> QED BY <3>1, <3>2 DEF Sent
  <2>3. p \notin Posted => p \in Sent'
    <3>1. len + 1 \in DOMAIN bus'
      BY <1>1
    <3> QED BY <1>1, <3>1 DEF Sent
  <2> QED BY <2>1, <2>2, <2>3
<1>3. OnTheWay' = Sent' \cup DOMAIN senderState \cup returning
  BY DEF OnTheWay, Sent
<1>4. EachOnce'
  <2>1. ASSUME NEW i \in DOMAIN bus', NEW j \in DOMAIN bus', bus'[i] \notin Posted, bus'[i] = bus'[j]
        PROVE  i = j
    <3>1. \A k \in 1 .. len : bus[k] \notin Posted => bus[k] # p
      BY <1>1, OnTheWayIs DEF Sent
    <3>2. CASE i = len + 1 \/ j = len + 1
      BY <1>1, <2>1, <3>1, <3>2
    <3>3. CASE i # len + 1 /\ j # len + 1
      <4>1. i \in 1 .. len /\ j \in 1 .. len
        BY <1>1, <3>3
      <4> QED BY <1>1, <2>1, <4>1 DEF Traffic, EachOnce
    <3> QED BY <3>2, <3>3
  <2>2. Sent' \cap DOMAIN senderState = {} /\ Sent' \cap returning = {}
    BY <1>2, OnTheWayIs DEF Traffic, EachOnce
  <2>3. UNCHANGED <<senderState, returning, packetQueue>>
    OBVIOUS
  <2> QED BY <2>1, <2>2, <2>3 DEF Traffic, EachOnce
<1>5. UNCHANGED Posted /\ UNCHANGED Packet
  BY DEF Posted, Packet
<1> QED BY <1>2, <1>3, <1>4, OnTheWayIs DEF Traffic

\* A packet that reaches its source is no longer on its way.
LEMMA Delivering ==
  ASSUME Traffic, NEW p \in returning, returning' = returning \ {p},
         UNCHANGED <<bus, senderState, packetQueue>>
  PROVE  Traffic' /\ OnTheWay' = OnTheWay \ {p}
<1>1. Sent' = Sent
  BY DEF Sent
<1>2. OnTheWay' = Sent \cup DOMAIN senderState \cup (returning \ {p})
  BY <1>1 DEF OnTheWay, Sent
<1>3. p \notin Sent /\ p \notin DOMAIN senderState
  BY DEF Traffic, EachOnce
<1>4. OnTheWay' = OnTheWay \ {p}
  BY <1>2, <1>3, OnTheWayIs
<1>5. EachOnce'
  BY <1>1 DEF Traffic, EachOnce
<1> QED BY <1>4, <1>5 DEF Traffic

\* The packets in the response queue, with one more and with one less.
LEMMA QueuedPackets ==
  ASSUME MemTypeOK, NEW e \in Entry,
         \A i, j \in DOMAIN packetQueue : packetQueue[i].pkt = packetQueue[j].pkt => i = j,
         \A i \in DOMAIN packetQueue : packetQueue[i].pkt # e.pkt
  PROVE  /\ \A i, j \in DOMAIN Inserted(e) : Inserted(e)[i].pkt = Inserted(e)[j].pkt => i = j
         /\ {Inserted(e)[i].pkt : i \in DOMAIN Inserted(e)}
              = {packetQueue[i].pkt : i \in DOMAIN packetQueue} \cup {e.pkt}
<1> DEFINE q == packetQueue
           k == Place(e)
           new == Inserted(e)
<1>1. /\ Len(q) \in Nat /\ DOMAIN q = 1 .. Len(q)
      /\ k \in 0 .. Len(q)
      /\ DOMAIN new = 1 .. Len(q) + 1
      /\ \A i \in 1 .. Len(q) + 1 :
           new[i] = IF i <= k THEN q[i] ELSE IF i = k + 1 THEN e ELSE q[i - 1]
  <2>1. q \in Seq(Entry)
    BY QueueOfEntries
  <2>2. k \in 0 .. Len(q)
    BY PlaceExists
  <2>3. /\ new \in Seq(Entry) /\ Len(new) = Len(q) + 1
        /\ \A i \in 1 .. Len(q) + 1 :
             new[i] = IF i <= k THEN q[i] ELSE IF i = k + 1 THEN e ELSE q[i - 1]
    BY InsertedQueue, Zenon
  <2> HIDE DEF q, k, new
  <2>4. Len(q) \in Nat /\ DOMAIN q = 1 .. Len(q) /\ DOMAIN new = 1 .. Len(q) + 1
    BY <2>1, <2>3
  <2> QED BY <2>2, <2>3, <2>4
<1>2. /\ \A i, j \in 1 .. Len(q) : q[i].pkt = q[j].pkt => i = j
      /\ \A i \in 1 .. Len(q) : q[i].pkt # e.pkt
  BY <1>1
<1>3. {q[i].pkt : i \in DOMAIN q} = {q[i].pkt : i \in 1 .. Len(q)}
  BY <1>1
<1> HIDE DEF q, k, new
<1>4. \A i, j \in 1 .. Len(q) + 1 : new[i].pkt = new[j].pkt => i = j
  BY <1>1, <1>2
<1>5. \A i \in 1 .. Len(q) + 1 :
        new[i].pkt \in {q[j].pkt : j \in 1 .. Len(q)} \cup {e.pkt}
  <2>1. ASSUME NEW i \in 1 .. Len(q) + 1
        PROVE  new[i] = e \/ \E j \in 1 .. Len(q) : new[i] = q[j]
    <3>1. CASE i <= k
      <4>1. i \in 1 .. Len(q)
        BY <1>1, <3>1
      <4> QED BY <1>1, <3>1, <4>1
    <3>2. CASE i > k + 1
      <4>1. i - 1 \in 1 .. Len(q) /\ new[i] = q[i - 1]
        BY <1>1, <3>2
      <4> QED BY <4>1
    <3>3. CASE i = k + 1
      BY <1>1, <3>3
    <3> QED BY <1>1, <3>1, <3>2, <3>3
  <2> QED BY <2>1
<1>6. ASSUME NEW i \in 1 .. Len(q)
      PROVE  \E j \in 1 .. Len(q) + 1 : new[j] = q[i]
  <2>1. CASE i <= k
    BY <1>1, <2>1
  <2>2. CASE i > k
    <3>1. i + 1 \in 1 .. Len(q) + 1 /\ new[i + 1] = q[i]
      BY <1>1, <2>2
    <3> QED BY <3>1
  <2> QED BY <1>1, <2>1, <2>2
<1>7. \E j \in 1 .. Len(q) + 1 : new[j] = e
  <2>1. k + 1 \in 1 .. Len(q) + 1 /\ new[k + 1] = e
    BY <1>1
  <2> QED BY <2>1
<1>8. {new[i].pkt : i \in 1 .. Len(q) + 1} = {q[i].pkt : i \in 1 .. Len(q)} \cup {e.pkt}
  <2>1. ASSUME NEW x \in {new[i].pkt : i \in 1 .. Len(q) + 1}
        PROVE  x \in {q[i].pkt : i \in 1 .. Len(q)} \cup {e.pkt}
    BY <1>5
  <2>2. ASSUME NEW x \in {q[i].pkt : i \in 1 .. Len(q)} \cup {e.pkt}
        PROVE  x \in {new[i].pkt : i \in 1 .. Len(q) + 1}
    <3>1. PICK j \in 1 .. Len(q) + 1 : new[j].pkt = x
      BY <1>6, <1>7
    <3> QED BY <3>1
  <2> QED BY <2>1, <2>2, Zenon
<1> QED BY <1>1, <1>3, <1>4, <1>8 DEF q, new

LEMMA QueuedPacketsTail ==
  ASSUME MemTypeOK, packetQueue # <<>>,
         \A i, j \in DOMAIN packetQueue : packetQueue[i].pkt = packetQueue[j].pkt => i = j
  PROVE  /\ \A i, j \in DOMAIN Tail(packetQueue) :
              Tail(packetQueue)[i].pkt = Tail(packetQueue)[j].pkt => i = j
         /\ {Tail(packetQueue)[i].pkt : i \in DOMAIN Tail(packetQueue)}
              = {packetQueue[i].pkt : i \in DOMAIN packetQueue} \ {Head(packetQueue).pkt}
         /\ Head(packetQueue).pkt \in {packetQueue[i].pkt : i \in DOMAIN packetQueue}
<1> DEFINE q == packetQueue
           rest == Tail(packetQueue)
<1>1. /\ Len(q) \in Nat \ {0} /\ DOMAIN q = 1 .. Len(q) /\ Head(q) = q[1]
      /\ DOMAIN rest = 1 .. Len(q) - 1
      /\ \A i \in 1 .. Len(q) - 1 : rest[i] = q[i + 1]
  BY QueueOfEntries
<1>2. \A i, j \in 1 .. Len(q) : q[i].pkt = q[j].pkt => i = j
  BY <1>1
<1>3. \A i \in 1 .. Len(q) - 1 : i + 1 \in 1 .. Len(q) /\ i + 1 # 1
  BY <1>1
<1>4. \A i \in 1 .. Len(q) : i # 1 => i - 1 \in 1 .. Len(q) - 1 /\ (i - 1) + 1 = i
  BY <1>1
<1> HIDE DEF q, rest
<1>5. \A i, j \in 1 .. Len(q) - 1 : rest[i].pkt = rest[j].pkt => i = j
  BY <1>1, <1>2, <1>3
<1>6. \A i \in 1 .. Len(q) - 1 : rest[i].pkt \in {q[j].pkt : j \in 1 .. Len(q)} \ {q[1].pkt}
  <2>1. ASSUME NEW i \in 1 .. Len(q) - 1
        PROVE  rest[i].pkt \in {q[j].pkt : j \in 1 .. Len(q)} \ {q[1].pkt}
    <3>1. i + 1 \in 1 .. Len(q) /\ i + 1 # 1 /\ 1 \in 1 .. Len(q) /\ rest[i] = q[i + 1]
      BY <1>1, <1>3
    <3>2. q[i + 1].pkt # q[1].pkt
      BY <1>2, <3>1
    <3> QED BY <3>1, <3>2
  <2> QED BY <2>1
<1>7. \A x \in {q[j].pkt : j \in 1 .. Len(q)} \ {q[1].pkt} :
        \E i \in 1 .. Len(q) - 1 : rest[i].pkt = x
  <2>1. ASSUME NEW j \in 1 .. Len(q), q[j].pkt # q[1].pkt
        PROVE  \E i \in 1 .. Len(q) - 1 : rest[i].pkt = q[j].pkt
    <3>1. j # 1
      BY <2>1
    <3>2. j - 1 \in 1 .. Len(q) - 1 /\ rest[j - 1] = q[j]
      BY <1>1, <1>4, <3>1
    <3> QED BY <3>2
  <2> QED BY <2>1
<1>8. {rest[i].pkt : i \in 1 .. Len(q) - 1} = {q[j].pkt : j \in 1 .. Len(q)} \ {q[1].pkt}
  <2>1. ASSUME NEW x \in {rest[i].pkt : i \in 1 .. Len(q) - 1}
        PROVE  x \in {q[j].pkt : j \in 1 .. Len(q)} \ {q[1].pkt}
    BY <1>6
  <2>2. ASSUME NEW x \in {q[j].pkt : j \in 1 .. Len(q)} \ {q[1].pkt}
        PROVE  x \in {rest[i].pkt : i \in 1 .. Len(q) - 1}
    <3>1. PICK i \in 1 .. Len(q) - 1 : rest[i].pkt = x
      BY <1>7
    <3> QED BY <3>1
  <2> QED BY <2>1, <2>2, Zenon
<1>9. q[1].pkt \in {q[j].pkt : j \in 1 .. Len(q)}
  BY <1>1
<1> QED BY <1>1, <1>5, <1>8, <1>9 DEF q, rest

\* A packet that the memory accepts leaves the bus and, unless it is posted,
\* is one the memory will answer.
LEMMA Requesting ==
  ASSUME Components, Traffic, NEW delay \in Delays, Request(delay)
  PROVE  Traffic' /\ OnTheWay' = OnTheWay
<1> DEFINE p == Head(bus)
           len == Len(bus)
<1>1. /\ bus # <<>> /\ bus \in Seq(Packet) /\ len \in Nat \ {0}
      /\ p \in Packet /\ p = bus[1] /\ DOMAIN bus = 1 .. len
      /\ DOMAIN bus' = 1 .. len - 1
      /\ \A i \in 1 .. len - 1 : bus'[i] = bus[i + 1]
  BY DEF Request, Components, HetTyped
<1>2. /\ Accept(p, delay) /\ returning' = returning
      /\ IF p \in Posted THEN senderState' = senderState
         ELSE DOMAIN senderState' = DOMAIN senderState \cup {p}
  BY DEF Request, LogPosted, LogRequest
<1>3. \A i \in 1 .. len - 1 : i + 1 \in 1 .. len /\ i + 1 # 1
  BY <1>1
<1>4. \A i \in 1 .. len : i # 1 => i - 1 \in 1 .. len - 1 /\ (i - 1) + 1 = i
  BY <1>1
<1>5. \A i, j \in 1 .. len : bus[i] \notin Posted /\ bus[i] = bus[j] => i = j
  BY <1>1 DEF Traffic, EachOnce
<1> HIDE DEF p, len
<1>6. Sent' = IF p \in Posted THEN Sent ELSE Sent \ {p}
  <2>1. ASSUME NEW q \in Sent' PROVE q \in Sent /\ (p \notin Posted => q # p)
    <3>1. PICK i \in 1 .. len - 1 : bus'[i] \notin Posted /\ q = bus'[i]
      BY <1>1 DEF Sent
    <3>2. bus[i + 1] = q /\ i + 1 \in 1 .. len /\ i + 1 # 1 /\ 1 \in 1 .. len
      BY <1>1, <1>3, <3>1
    <3>3. q \in Sent
      BY <1>1, <3>1, <3>2 DEF Sent
    <3>4. q # p
      BY <1>1, <1>5, <3>1, <3>2
    <3> QED BY <3>3, <3>4
  <2>2. ASSUME NEW q \in Sent, q # p PROVE q \in Sent'
    <3>1. PICK i \in 1 .. len : bus[i] \notin Posted /\ q = bus[i]
      BY <1>1 DEF Sent
    <3>2. i - 1 \in 1 .. len - 1 /\ bus'[i - 1] = q
      BY <1>1, <1>4, <2>2, <3>1
    <3> QED BY <1>1, <3>1, <3>2 DEF Sent
  <2>3. p \in Posted => p \notin Sent
    BY DEF Sent
  <2> QED BY <2>1, <2>2, <2>3
<1>7. p \notin Posted => p \in Sent
  BY <1>1 DEF Sent
<1>8. OnTheWay' = Sent' \cup DOMAIN senderState' \cup returning
  BY <1>2 DEF OnTheWay, Sent
<1>9. OnTheWay' = OnTheWay
  <2>1. CASE p \in Posted
    BY <1>2, <1>6, <1>8, <2>1, OnTheWayIs
  <2>2. CASE p \notin Posted
    BY <1>2, <1>6, <1>7, <1>8, <2>2, OnTheWayIs
  <2> QED BY <2>1, <2>2
<1>10. /\ \A i, j \in DOMAIN packetQueue' : packetQueue'[i].pkt = packetQueue'[j].pkt => i = j
       /\ {packetQueue'[i].pkt : i \in DOMAIN packetQueue'} = DOMAIN senderState'
  <2>1. CASE p \in Posted
    <3>1. packetQueue' = packetQueue
      BY <1>2, <2>1 DEF Accept
    <3> QED BY <1>2, <2>1, <3>1 DEF Traffic, EachOnce
  <2>2. CASE p \notin Posted
    <3> DEFINE e == [pkt |-> p, tick |-> delay + Latency, nth |-> arrivals]
    <3>1. packetQueue' = Inserted(e)
      BY <1>2, <2>2 DEF Accept
    <3>2. e \in Entry /\ MemTypeOK
      BY <1>1, MemoryAssumption DEF Components, MemInv, MemTypeOK, Entry
    <3>3. e.pkt = p
      OBVIOUS
    <3> HIDE DEF e
    <3>4. p \notin DOMAIN senderState
      BY <1>7, <2>2 DEF Traffic, EachOnce
    <3>5. /\ \A i, j \in DOMAIN packetQueue : packetQueue[i].pkt = packetQueue[j].pkt => i = j
          /\ {packetQueue[i].pkt : i \in DOMAIN packetQueue} = DOMAIN senderState
      BY DEF Traffic, EachOnce
    <3>6. \A i \in DOMAIN packetQueue : packetQueue[i].pkt # e.pkt
      BY <3>3, <3>4, <3>5
    <3>7. /\ \A i, j \in DOMAIN Inserted(e) : Inserted(e)[i].pkt = Inserted(e)[j].pkt => i = j
          /\ {Inserted(e)[i].pkt : i \in DOMAIN Inserted(e)}
               = {packetQueue[i].pkt : i \in DOMAIN packetQueue} \cup {e.pkt}
      BY <3>2, <3>5, <3>6, QueuedPackets
    <3> QED BY <1>2, <2>2, <3>1, <3>3, <3>5, <3>7
  <2> QED BY <2>1, <2>2
<1>11. \A i, j \in DOMAIN bus' : bus'[i] \notin Posted /\ bus'[i] = bus'[j] => i = j
  BY <1>1, <1>3, <1>5
<1>12. /\ Sent' \cap DOMAIN senderState' = {} /\ Sent' \cap returning = {}
       /\ DOMAIN senderState' \cap returning = {}
  <2>1. /\ Sent \cap DOMAIN senderState = {} /\ Sent \cap returning = {}
        /\ DOMAIN senderState \cap returning = {}
    BY DEF Traffic, EachOnce
  <2>2. CASE p \in Posted
    BY <1>2, <1>6, <2>1, <2>2
  <2>3. CASE p \notin Posted
    BY <1>2, <1>6, <1>7, <2>1, <2>3
  <2> QED BY <2>2, <2>3
<1>13. EachOnce'
  BY <1>2, <1>10, <1>11, <1>12, Zenon DEF EachOnce
<1> QED BY <1>9, <1>13, Zenon DEF Traffic

\* A response that the port takes leaves the memory and is on the way back.
LEMMA Responding ==
  ASSUME Components, Traffic, NEW taken \in BOOLEAN, Respond(taken)
  PROVE  Traffic' /\ OnTheWay' = OnTheWay
<1> DEFINE p == Head(packetQueue).pkt
<1>1. /\ packetQueue # <<>> /\ MemTypeOK /\ bus' = bus
      /\ packetQueue' = IF taken THEN Tail(packetQueue) ELSE packetQueue
  <2>1. dequeueEvent = 0 \/ retryResp
    BY DEF Respond, Dequeue, RecvRespRetry
  <2>2. packetQueue # <<>>
    BY <2>1, SendsSomething DEF Components, MemInv
  <2>3. packetQueue' = IF taken THEN Tail(packetQueue) ELSE packetQueue
    BY DEF Respond, Dequeue, RecvRespRetry, Send, Unsent
  <2> QED BY <2>2, <2>3 DEF Respond, Components, MemInv
<1>2. Sent' = Sent
  BY <1>1 DEF Sent
<1>3. CASE taken
  <2>1. returning' = returning \cup {p} /\ DOMAIN senderState' = DOMAIN senderState \ {p}
    BY <1>3 DEF Respond, LogResponse
  <2>2. /\ \A i, j \in DOMAIN packetQueue : packetQueue[i].pkt = packetQueue[j].pkt => i = j
        /\ {packetQueue[i].pkt : i \in DOMAIN packetQueue} = DOMAIN senderState
    BY DEF Traffic, EachOnce
  <2>3. /\ \A i, j \in DOMAIN packetQueue' : packetQueue'[i].pkt = packetQueue'[j].pkt => i = j
        /\ {packetQueue'[i].pkt : i \in DOMAIN packetQueue'} = DOMAIN senderState \ {p}
        /\ p \in DOMAIN senderState
    BY <1>1, <1>3, <2>2, QueuedPacketsTail
  <2> HIDE DEF p
  <2>4. OnTheWay' = Sent \cup DOMAIN senderState' \cup returning'
    BY <1>2 DEF OnTheWay, Sent
  <2>5. OnTheWay' = OnTheWay
    BY <2>1, <2>3, <2>4, OnTheWayIs
  <2>6. EachOnce'
    BY <1>1, <1>2, <2>1, <2>3 DEF Traffic, EachOnce
  <2> QED BY <2>5, <2>6 DEF Traffic
<1>4. CASE ~taken
  <2>1. UNCHANGED <<bus, packetQueue, returning, senderState>>
    BY <1>1, <1>4 DEF Respond, monVars
  <2>2. OnTheWay' = OnTheWay
    BY <2>1 DEF OnTheWay
  <2>3. EachOnce'
    BY <1>2, <2>1 DEF Traffic, EachOnce
  <2> QED BY <2>2, <2>3 DEF Traffic
<1> QED BY <1>3, <1>4

\* Time that passes leaves every packet where it is.
LEMMA Elapsing ==
  ASSUME Traffic, packetQueue' = [i \in DOMAIN packetQueue |->
                                    [packetQueue[i] EXCEPT !.tick = Left(@)]],
         MemTypeOK, UNCHANGED <<bus, senderState, returning>>
  PROVE  Traffic' /\ OnTheWay' = OnTheWay
<1>1. /\ DOMAIN packetQueue' = DOMAIN packetQueue
      /\ \A i \in DOMAIN packetQueue : packetQueue'[i].pkt = packetQueue[i].pkt
  <2>1. \A i \in DOMAIN packetQueue : packetQueue[i] \in Entry
    BY QueueOfEntries
  <2> QED BY <2>1 DEF Entry
<1>2. {packetQueue'[i].pkt : i \in DOMAIN packetQueue'}
        = {packetQueue[i].pkt : i \in DOMAIN packetQueue}
  BY <1>1
<1>3. OnTheWay' = OnTheWay /\ Sent' = Sent
  BY DEF OnTheWay, Sent
<1>4. EachOnce'
  <2>1. \A i, j \in DOMAIN packetQueue' : packetQueue'[i].pkt = packetQueue'[j].pkt => i = j
    BY <1>1 DEF Traffic, EachOnce
  <2>2. {packetQueue'[i].pkt : i \in DOMAIN packetQueue'} = DOMAIN senderState
    BY <1>2 DEF Traffic, EachOnce
  <2>3. UNCHANGED <<bus, senderState, returning>>
    OBVIOUS
  <2> QED BY <1>3, <2>1, <2>2, <2>3 DEF Traffic, EachOnce
<1> QED BY <1>3, <1>4 DEF Traffic

LEMMA Resting ==
  ASSUME Traffic, UNCHANGED <<bus, senderState, returning, packetQueue>>
  PROVE  Traffic' /\ OnTheWay' = OnTheWay
BY DEF Traffic, EachOnce, OnTheWay, Sent

-----------------------------------------------------------------------------
\* What the devices wait for

\* The transactions that wait for their memory operation: their sequence
\* numbers are used up, so Expected counts them all.
LEMMA WaitsAre ==
  ASSUME NEW next \in Nat, NEW table,
         \A dir \in Direction : \A s \in DOMAIN table[dir] : s \in Nat /\ s < next
  PROVE  {p \in {[kind |-> dir, n |-> s] : dir \in Direction, s \in 0 .. next} :
            p.n \in DOMAIN table[p.kind] /\ ~table[p.kind][p.n].memoryDone}
          = {p \in [kind : Direction, n : Nat] :
               p.n \in DOMAIN table[p.kind] /\ ~table[p.kind][p.n].memoryDone}
<1> DEFINE Counted == {[kind |-> dir, n |-> s] : dir \in Direction, s \in 0 .. next}
           Waiting(p) == p.n \in DOMAIN table[p.kind] /\ ~table[p.kind][p.n].memoryDone
<1>1. \A p \in Counted : p \in [kind : Direction, n : Nat]
  OBVIOUS
<1>2. ASSUME NEW p \in [kind : Direction, n : Nat], Waiting(p) PROVE p \in Counted
  <2>1. p.kind \in Direction /\ p.n \in DOMAIN table[p.kind]
    BY <1>2
  <2>2. p.n \in 0 .. next
    BY <2>1
  <2>3. p = [kind |-> p.kind, n |-> p.n]
    OBVIOUS
  <2> QED BY <2>1, <2>2, <2>3
<1> HIDE DEF Counted, Waiting
<1>3. {p \in Counted : Waiting(p)} = {p \in [kind : Direction, n : Nat] : Waiting(p)}
  BY <1>1, <1>2
<1> QED BY <1>3 DEF Counted, Waiting

Open == {p \in [kind : Direction, n : Nat] :
           p.n \in DOMAIN txns[p.kind] /\ ~txns[p.kind][p.n].memoryDone}

LEMMA NpuWaitsAre ==
  /\ NpuInv => NpuWaits = Open
  /\ NpuInv' => NpuWaits' = Open'
<1>1. ASSUME NpuInv PROVE NpuWaits = Open
  <2>1. /\ nextAxiSequence \in Nat
        /\ \A dir \in Direction : \A s \in DOMAIN txns[dir] : s \in Nat /\ s < nextAxiSequence
    BY <1>1 DEF NpuInv, NpuShape, Tracked
  <2> QED BY <2>1, WaitsAre DEF NpuWaits, Expected, Open
<1>2. ASSUME NpuInv' PROVE NpuWaits' = Open'
  <2>1. /\ nextAxiSequence' \in Nat
        /\ \A dir \in Direction : \A s \in DOMAIN txns'[dir] : s \in Nat /\ s < nextAxiSequence'
    BY <1>2 DEF NpuInv, NpuShape, Tracked
  <2> QED BY <2>1, WaitsAre DEF NpuWaits, Expected, Open
<1> QED BY <1>1, <1>2

LEMMA NpuIssues ==
  ASSUME NpuInv, NpuInv', NpuClaims, NEW dir \in Direction, NEW id, NEW running,
         NpuIssue(dir, id, running),
         OnTheWay' = OnTheWay \cup {[kind |-> dir, n |-> nextAxiSequence]}
  PROVE  NpuClaims'
<1> DEFINE p == [kind |-> dir, n |-> nextAxiSequence]
<1>1. /\ DOMAIN txns = Direction /\ nextAxiSequence \in Nat
      /\ nextAxiSequence \notin DOMAIN txns[dir]
  BY DEF NpuInv, NpuShape, Tracked
<1>2. /\ \A d \in Direction : d # dir => txns'[d] = txns[d]
      /\ DOMAIN txns'[dir] = DOMAIN txns[dir] \cup {nextAxiSequence}
      /\ \A s \in DOMAIN txns[dir] : txns'[dir][s] = txns[dir][s]
      /\ txns'[dir][nextAxiSequence] = [axiId |-> id, memoryDone |-> FALSE]
  BY <1>1 DEF NpuIssue
<1>3. p \in [kind : Direction, n : Nat] /\ p.kind = dir /\ p.n = nextAxiSequence
  BY <1>1
<1>4. Open' = Open \cup {p}
  <2>1. ASSUME NEW q \in [kind : Direction, n : Nat], q # p
        PROVE  q \in Open' <=> q \in Open
    <3>1. CASE q.kind = dir
      <4>1. q.n # nextAxiSequence
        BY <2>1, <3>1
      <4> QED BY <1>2, <3>1, <4>1 DEF Open
    <3>2. CASE q.kind # dir
      BY <1>2, <3>2 DEF Open
    <3> QED BY <3>1, <3>2
  <2>2. p \in Open'
    BY <1>2, <1>3 DEF Open
  <2>3. Open \subseteq [kind : Direction, n : Nat] /\ Open' \subseteq [kind : Direction, n : Nat]
    BY DEF Open
  <2> QED BY <1>3, <2>1, <2>2, <2>3
<1> HIDE DEF p
<1>5. OnTheWay' = OnTheWay \cup {p} /\ p.kind \in Direction
  BY <1>3 DEF p
<1>6. {q \in OnTheWay : q.kind \in Direction} = Open
  BY NpuWaitsAre DEF NpuClaims
<1>7. {q \in OnTheWay' : q.kind \in Direction} = Open \cup {p}
  BY <1>5, <1>6
<1> QED BY <1>4, <1>7, NpuWaitsAre DEF NpuClaims

\* A completion ends one wait: the other transactions it retires had ended
\* theirs before.
LEMMA NpuCompletes ==
  ASSUME NpuInv, NpuInv', NpuClaims, NEW p \in Packet, p.kind \in Direction,
         MemoryComplete(p.kind, p.n), OnTheWay' = OnTheWay \ {p}
  PROVE  NpuClaims'
<1> DEFINE dir   == p.kind
           s     == p.n
           id    == txns[dir][s].axiId
           order == orderById[dir][id]
           done  == {t \in DOMAIN txns[dir] : txns[dir][t].memoryDone} \cup {s}
           n     == Ready(order, done)
           gone  == {order[i] : i \in 1 .. n}
           mark(t) == IF t = s THEN [txns[dir][t] EXCEPT !.memoryDone = TRUE] ELSE txns[dir][t]
<1>1. /\ s \in DOMAIN txns[dir] /\ DOMAIN txns = Direction
      /\ txns' = [txns EXCEPT ![dir] = [t \in DOMAIN txns[dir] \ gone |-> mark(t)]]
  BY DEF MemoryComplete, NpuInv, NpuShape
<1>2. id \in AxiId /\ order \in Seq(Nat)
  <2>1. dir \in Direction /\ s \in DOMAIN txns[dir]
    BY <1>1
  <2> HIDE DEF dir, s
  <2> QED BY <2>1 DEF NpuInv, NpuShape, Queues, Tracked, Txn
<1>3. gone \subseteq done
  <2> HIDE DEF order, done
  <2>1. \A i \in 1 .. n : order[i] \in done
    BY <1>2, ReadyPrefix
  <2> HIDE DEF n
  <2> QED BY <2>1
<1>4. /\ \A d \in Direction : d # dir => txns'[d] = txns[d]
      /\ DOMAIN txns'[dir] = DOMAIN txns[dir] \ gone
      /\ \A t \in DOMAIN txns[dir] \ gone : txns'[dir][t] = mark(t)
  <2> HIDE DEF gone, mark
  <2> QED BY <1>1
<1>5. /\ \A t \in gone : t = s \/ txns[dir][t].memoryDone
      /\ txns[dir][s] \in Txn
  BY <1>1, <1>3 DEF NpuInv, Tracked
<1>6. \A t \in DOMAIN txns[dir] : mark(t).memoryDone <=> (t = s \/ txns[dir][t].memoryDone)
  BY <1>5 DEF Txn
<1> HIDE DEF gone, mark, id, order, done, n
<1>7. Open' = Open \ {p}
  <2>1. ASSUME NEW q \in [kind : Direction, n : Nat]
        PROVE  q \in Open' <=> q \in Open /\ q # p
    <3>1. CASE q.kind = dir
      <4>1. q # p <=> q.n # s
        <5>1. q = [kind |-> q.kind, n |-> q.n] /\ p = [kind |-> p.kind, n |-> p.n]
          BY DEF Packet
        <5> QED BY <3>1, <5>1
      <4>2. q \in Open' <=> q.n \in DOMAIN txns'[dir] /\ ~txns'[dir][q.n].memoryDone
        BY <3>1 DEF Open
      <4>3. q \in Open <=> q.n \in DOMAIN txns[dir] /\ ~txns[dir][q.n].memoryDone
        BY <3>1 DEF Open
      <4> QED BY <1>4, <1>5, <1>6, <4>1, <4>2, <4>3
    <3>2. CASE q.kind # dir
      BY <1>4, <3>2 DEF Open
    <3> QED BY <3>1, <3>2
  <2>2. Open \subseteq [kind : Direction, n : Nat] /\ Open' \subseteq [kind : Direction, n : Nat]
    BY DEF Open
  <2> QED BY <2>1, <2>2
<1>8. {q \in OnTheWay : q.kind \in Direction} = Open
  BY NpuWaitsAre DEF NpuClaims
<1>9. {q \in OnTheWay' : q.kind \in Direction} = Open \ {p}
  BY <1>8
<1> QED BY <1>7, <1>9, NpuWaitsAre DEF NpuClaims

LEMMA NpuRests ==
  ASSUME NpuClaims, UNCHANGED <<txns, nextAxiSequence>>,
         {p \in OnTheWay' : p.kind \in Direction} = {p \in OnTheWay : p.kind \in Direction}
  PROVE  NpuClaims'
<1>1. NpuWaits' = NpuWaits
  BY DEF NpuWaits, Expected
<1> QED BY <1>1 DEF NpuClaims

LEMMA CoreRests ==
  ASSUME CoreClaims, UNCHANGED coreDmas,
         {p \in OnTheWay' : p.kind = "core"} = {p \in OnTheWay : p.kind = "core"}
  PROVE  CoreClaims'
BY DEF CoreClaims

LEMMA CpRests ==
  ASSUME CpClaims, UNCHANGED activeCpDma,
         {p \in OnTheWay' : p.kind = "cp"} = {p \in OnTheWay : p.kind = "cp"}
  PROVE  CpClaims'
<1>1. \A p : p \in OnTheWay' /\ p.kind = "cp" <=> p \in OnTheWay /\ p.kind = "cp"
  OBVIOUS
<1> QED BY <1>1 DEF CpClaims

LEMMA HostRests ==
  ASSUME HostClaims, UNCHANGED hostLoads,
         {p \in OnTheWay' : p.kind = "load"} = {p \in OnTheWay : p.kind = "load"}
  PROVE  HostClaims'
<1>1. \A p : p \in OnTheWay' /\ p.kind = "load" <=> p \in OnTheWay /\ p.kind = "load"
  OBVIOUS
<1> QED BY <1>1 DEF HostClaims

\* A packet that comes or goes is of one kind.
LEMMA KindsApart ==
  ASSUME NEW p, OnTheWay' = OnTheWay \cup {p} \/ OnTheWay' = OnTheWay \ {p}
  PROVE  /\ p.kind \notin Direction =>
              {q \in OnTheWay' : q.kind \in Direction} = {q \in OnTheWay : q.kind \in Direction}
         /\ \A k : p.kind # k =>
              {q \in OnTheWay' : q.kind = k} = {q \in OnTheWay : q.kind = k}
OBVIOUS

\* What a step leaves as it is when no packet comes or goes.
LEMMA ClaimsRest ==
  ASSUME HetInv, OnTheWay' = OnTheWay,
         UNCHANGED <<txns, nextAxiSequence, coreDmas, nextToken, activeCpDma, hostLoads>>
  PROVE  NpuClaims' /\ CoreClaims' /\ CpClaims' /\ HostClaims' /\ TokensUsed'
<1>1. NpuClaims'
  BY NpuRests DEF HetInv
<1>2. CoreClaims'
  BY CoreRests DEF HetInv
<1>3. CpClaims'
  BY CpRests DEF HetInv
<1>4. HostClaims'
  BY HostRests DEF HetInv
<1>5. TokensUsed'
  BY DEF HetInv, TokensUsed
<1> QED BY <1>1, <1>2, <1>3, <1>4, <1>5

-----------------------------------------------------------------------------
\* The steps that put a packet on the bus

LEMMA NewPacket ==
  ASSUME Components, HetInv, NEW kind, NEW n \in Nat,
         kind \in Direction \cup {"cp", "core", "load"}, Issue(kind, n),
         [kind |-> kind, n |-> n] \notin OnTheWay,
         UNCHANGED <<memVars, monVars, returning>>
  PROVE  Traffic' /\ OnTheWay' = OnTheWay \cup {[kind |-> kind, n |-> n]}
<1> DEFINE p == [kind |-> kind, n |-> n]
<1>1. p \in Packet /\ p \notin Posted
  BY HetAssumption DEF Packet, Posted, Direction
<1>2. bus' = Append(bus, p) /\ UNCHANGED <<senderState, returning, packetQueue>>
  BY DEF Issue, memVars, monVars
<1> HIDE DEF p
<1>3. p \notin OnTheWay
  BY DEF p
<1>4. HetTyped /\ Traffic
  BY DEF Components, HetInv
<1>5. Traffic' /\ OnTheWay' = OnTheWay \cup {p}
  BY <1>1, <1>2, <1>3, <1>4, Issuing
<1> QED BY <1>5 DEF p

LEMMA HostSendStep ==
  ASSUME Components, HetInv, HostSend
  PROVE  HetInv'
<1> DEFINE kind == Head(work.host)
           n == Len(work.host)
           p == [kind |-> kind, n |-> n]
<1>1. kind \in {"load", "writeback"} /\ n \in Nat /\ p \in Packet
  BY WorkLeft, KindsOfPackets DEF HostSend, Components
<1>2. /\ bus' = Append(bus, p)
      /\ UNCHANGED <<senderState, returning, packetQueue, memVars, monVars>>
      /\ UNCHANGED <<txns, nextAxiSequence, coreDmas, nextToken, activeCpDma>>
  BY DEF HostSend, Issue, memVars, monVars, npuVars, gpuVars
<1>3. /\ kind = "load" => hostLoads = 0 /\ hostLoads' = hostLoads + 1
      /\ kind = "writeback" => hostLoads' = hostLoads
      /\ Issue(kind, n)
  BY DEF HostSend
<1> HIDE DEF kind, n
<1>4. CASE kind = "load"
  <2>1. \A q \in OnTheWay : q.kind # "load"
    BY <1>3, <1>4 DEF HetInv, HostClaims
  <2>2. p \notin OnTheWay
    BY <1>4, <2>1
  <2>3. Traffic' /\ OnTheWay' = OnTheWay \cup {p}
    BY <1>1, <1>2, <1>3, <1>4, <2>2, NewPacket
  <2> HIDE DEF p
  <2>4. p.kind = "load"
    BY <1>4 DEF p
  <2>5. NpuClaims' /\ CoreClaims' /\ CpClaims' /\ TokensUsed'
    <3>1. NpuClaims'
      BY <1>2, <2>3, <2>4, KindsApart, NpuRests DEF HetInv, Direction
    <3>2. CoreClaims'
      BY <1>2, <2>3, <2>4, KindsApart, CoreRests DEF HetInv
    <3>3. CpClaims'
      BY <1>2, <2>3, <2>4, KindsApart, CpRests DEF HetInv
    <3> QED BY <1>2, <3>1, <3>2, <3>3 DEF HetInv, TokensUsed
  <2>6. HostClaims'
    <3>1. hostLoads' = 1
      BY <1>3, <1>4
    <3>2. {q \in OnTheWay' : q.kind = "load"} = {p} /\ p \in OnTheWay'
      BY <2>1, <2>3, <2>4
    <3> QED BY <3>1, <3>2 DEF HostClaims
  <2> QED BY <2>3, <2>5, <2>6 DEF HetInv
<1>5. CASE kind = "writeback"
  <2>1. p \in Posted
    BY <1>1, <1>5, HetAssumption DEF Posted
  <2>2. p \notin OnTheWay
    BY <2>1 DEF HetInv, Traffic
  <2> HIDE DEF p
  <2>3. Traffic' /\ OnTheWay' = OnTheWay
    BY <1>1, <1>2, <2>1, <2>2, Issuing DEF Components, HetInv
  <2> QED BY <1>2, <1>3, <1>5, <2>3, ClaimsRest DEF HetInv
<1> QED BY <1>1, <1>4, <1>5

LEMMA NpuTickStep ==
  ASSUME Components, Components', HetInv, NpuTick
  PROVE  HetInv'
<1>1. UNCHANGED <<memVars, monVars, returning, senderState, packetQueue>>
  BY DEF NpuTick, memVars, monVars
<1>2. UNCHANGED <<coreDmas, nextToken, activeCpDma, hostLoads>>
  BY DEF NpuTick, gpuVars
<1>3. CASE work.npu = <<>>
  <2>1. UNCHANGED <<bus, txns, nextAxiSequence>>
    BY <1>3 DEF NpuTick, NpuHalts
  <2>2. Traffic' /\ OnTheWay' = OnTheWay
    BY <1>1, <2>1, Resting DEF HetInv
  <2> QED BY <1>2, <2>1, <2>2, ClaimsRest DEF HetInv
<1>4. CASE work.npu # <<>>
  <2> DEFINE dir == Head(work.npu).dir
             id == Head(work.npu).id
             running == Tail(work.npu) # <<>>
             p == [kind |-> dir, n |-> nextAxiSequence]
  <2>1. NpuIssue(dir, id, running) /\ Issue(dir, nextAxiSequence) /\ dir \in Direction
    BY <1>4, WorkLeft DEF NpuTick, Components
  <2> HIDE DEF dir, id, running
  <2>2. NpuInv /\ NpuInv' /\ nextAxiSequence \in Nat
    BY DEF Components, NpuInv, NpuShape
  <2>3. p \notin OnTheWay
    <3>1. \A s \in DOMAIN txns[dir] : s < nextAxiSequence
      BY <2>1, <2>2 DEF NpuInv, Tracked
    <3>2. p \notin Open
      BY <2>2, <3>1 DEF Open
    <3>3. p.kind \in Direction
      BY <2>1
    <3> HIDE DEF p
    <3> QED BY <2>2, <3>2, <3>3, NpuWaitsAre DEF HetInv, NpuClaims
  <2>4. Traffic' /\ OnTheWay' = OnTheWay \cup {p}
    BY <1>1, <2>1, <2>2, <2>3, NewPacket
  <2>5. NpuClaims'
    BY <2>1, <2>2, <2>4, NpuIssues DEF HetInv
  <2>6. p.kind \in Direction
    BY <2>1
  <2> HIDE DEF p
  <2>7. CoreClaims'
    BY <1>2, <2>4, <2>6, KindsApart, CoreRests DEF HetInv, Direction
  <2>8. CpClaims'
    BY <1>2, <2>4, <2>6, KindsApart, CpRests DEF HetInv, Direction
  <2>9. HostClaims'
    BY <1>2, <2>4, <2>6, KindsApart, HostRests DEF HetInv, Direction
  <2>10. TokensUsed'
    BY <1>2 DEF HetInv, TokensUsed
  <2> QED BY <2>4, <2>5, <2>7, <2>8, <2>9, <2>10 DEF HetInv
<1> QED BY <1>3, <1>4

LEMMA CpTickStep ==
  ASSUME Components, HetInv, CpTick
  PROVE  HetInv'
<1>1. UNCHANGED <<memVars, monVars, returning, senderState, packetQueue>>
  BY DEF CpTick, memVars, monVars
<1>2. UNCHANGED <<txns, nextAxiSequence, hostLoads>>
  BY DEF CpTick, npuVars
<1>3. UNCHANGED <<coreDmas, nextToken>>
  BY DEF CpTick, CpAccess, CpLaunch, CpPoll, CpRetire
<1>4. CASE UNCHANGED <<bus, activeCpDma>>
  <2>1. Traffic' /\ OnTheWay' = OnTheWay
    BY <1>1, <1>4, Resting DEF HetInv
  <2> QED BY <1>2, <1>3, <1>4, <2>1, ClaimsRest DEF HetInv
<1>5. CASE CpAccess /\ Issue("cp", 0)
  <2> DEFINE p == [kind |-> "cp", n |-> 0]
  <2>1. ~activeCpDma /\ activeCpDma'
    BY <1>5, NoDataDueAtTick DEF CpAccess, Components
  <2>2. p \notin OnTheWay
    BY <2>1 DEF HetInv, CpClaims
  <2>3. Traffic' /\ OnTheWay' = OnTheWay \cup {p}
    BY <1>1, <1>5, <2>2, NewPacket
  <2>4. p.kind = "cp" /\ p.n = 0
    OBVIOUS
  <2> HIDE DEF p
  <2>5. NpuClaims'
    BY <1>2, <2>3, <2>4, KindsApart, NpuRests DEF HetInv, Direction
  <2>6. CoreClaims'
    BY <1>3, <2>3, <2>4, KindsApart, CoreRests DEF HetInv
  <2>7. HostClaims'
    BY <1>2, <2>3, <2>4, KindsApart, HostRests DEF HetInv
  <2>8. CpClaims'
    BY <2>1, <2>3, <2>4 DEF HetInv, CpClaims
  <2>9. TokensUsed'
    BY <1>3 DEF HetInv, TokensUsed
  <2> QED BY <2>3, <2>5, <2>6, <2>7, <2>8, <2>9 DEF HetInv
<1> QED BY <1>4, <1>5 DEF CpTick, CpLaunch, CpPoll, CpRetire

LEMMA VortexTickStep ==
  ASSUME Components, HetInv, VortexTick
  PROVE  HetInv'
<1>1. UNCHANGED <<memVars, monVars, returning, senderState, packetQueue>>
  BY DEF VortexTick, memVars, monVars
<1>2. UNCHANGED <<txns, nextAxiSequence, hostLoads>>
  BY DEF VortexTick, npuVars
<1>3. UNCHANGED activeCpDma
  BY DEF VortexTick, IssueCoreTiming, KernelEnds
<1>4. CASE KernelEnds /\ UNCHANGED bus
  <2>1. UNCHANGED <<coreDmas, nextToken>>
    BY <1>4 DEF KernelEnds
  <2>2. Traffic' /\ OnTheWay' = OnTheWay
    BY <1>1, <1>4, Resting DEF HetInv
  <2> QED BY <1>2, <1>3, <2>1, <2>2, ClaimsRest DEF HetInv
<1>5. CASE IssueCoreTiming /\ Issue("core", nextToken)
  <2> DEFINE p == [kind |-> "core", n |-> nextToken]
  <2>1. /\ coreDmas' = coreDmas \cup {nextToken} /\ nextToken' = nextToken + 1
        /\ nextToken \in Nat /\ coreDmas \subseteq Nat
    BY <1>5 DEF IssueCoreTiming, Components, HetTyped, GpuInv, GpuTypeOK
  <2>2. p \notin OnTheWay
    <3> SUFFICES ASSUME p \in OnTheWay PROVE FALSE
      OBVIOUS
    <3>1. nextToken \in coreDmas
      BY DEF HetInv, CoreClaims
    <3> QED BY <2>1, <3>1 DEF HetInv, TokensUsed
  <2>3. Traffic' /\ OnTheWay' = OnTheWay \cup {p}
    BY <1>1, <1>5, <2>1, <2>2, NewPacket
  <2>4. p.kind = "core" /\ p.n = nextToken
    OBVIOUS
  <2> HIDE DEF p
  <2>5. NpuClaims'
    BY <1>2, <2>3, <2>4, KindsApart, NpuRests DEF HetInv, Direction
  <2>6. CpClaims'
    BY <1>3, <2>3, <2>4, KindsApart, CpRests DEF HetInv
  <2>7. HostClaims'
    BY <1>2, <2>3, <2>4, KindsApart, HostRests DEF HetInv
  <2>8. CoreClaims'
    <3>1. {q \in OnTheWay' : q.kind = "core"} = {q \in OnTheWay : q.kind = "core"} \cup {p}
      BY <2>3, <2>4
    <3>2. {q.n : q \in {r \in OnTheWay : r.kind = "core"} \cup {p}}
            = {q.n : q \in {r \in OnTheWay : r.kind = "core"}} \cup {p.n}
      OBVIOUS
    <3> QED BY <2>1, <2>4, <3>1, <3>2 DEF HetInv, CoreClaims
  <2>9. TokensUsed'
    BY <2>1 DEF HetInv, TokensUsed
  <2> QED BY <2>3, <2>5, <2>6, <2>7, <2>8, <2>9 DEF HetInv
<1> QED BY <1>4, <1>5 DEF VortexTick

-----------------------------------------------------------------------------
\* A response that reaches its source ends what the source waits for.
LEMMA DeliverStep ==
  ASSUME Components, Components', HetInv, NEW p \in returning, Deliver(p)
  PROVE  HetInv'
<1>1. UNCHANGED <<bus, senderState, packetQueue>> /\ returning' = returning \ {p}
  BY DEF Deliver, memVars, monVars
<1>2. Traffic' /\ OnTheWay' = OnTheWay \ {p}
  BY <1>1, Delivering DEF HetInv
<1>3. p \in OnTheWay /\ p \in Packet
  BY OnTheWayIs DEF HetInv, Traffic
<1>4. /\ p.kind \notin Direction => UNCHANGED <<txns, nextAxiSequence>>
      /\ p.kind # "core" => UNCHANGED coreDmas
      /\ p.kind # "cp" => UNCHANGED activeCpDma
      /\ p.kind # "load" => UNCHANGED hostLoads
      /\ UNCHANGED nextToken
  <2>1. CASE p.kind \in Direction /\ MemoryComplete(p.kind, p.n) /\ UNCHANGED <<gpuVars, hostLoads>>
    BY <2>1 DEF gpuVars, Direction
  <2>2. CASE p.kind = "cp" /\ DmaComplete /\ UNCHANGED <<npuVars, hostLoads>>
    BY <2>2 DEF npuVars, DmaComplete, Direction
  <2>3. CASE p.kind = "core" /\ CoreDmaComplete(p.n) /\ UNCHANGED <<npuVars, hostLoads>>
    BY <2>3 DEF npuVars, CoreDmaComplete, Direction
  <2>4. CASE p.kind = "load" /\ hostLoads' = hostLoads - 1 /\ UNCHANGED <<npuVars, gpuVars>>
    BY <2>4 DEF npuVars, gpuVars, Direction
  <2> QED BY <2>1, <2>2, <2>3, <2>4 DEF Deliver
<1>5. NpuClaims'
  <2>1. CASE p.kind \in Direction
    <3>1. MemoryComplete(p.kind, p.n)
      BY <2>1 DEF Deliver, Direction
    <3> QED BY <1>2, <1>3, <2>1, <3>1, NpuCompletes DEF HetInv, Components
  <2>2. CASE p.kind \notin Direction
    BY <1>2, <1>4, <2>2, KindsApart, NpuRests DEF HetInv
  <2> QED BY <2>1, <2>2
<1>6. CoreClaims'
  <2>1. CASE p.kind = "core"
    <3>1. coreDmas' = coreDmas \ {p.n}
      BY <2>1 DEF Deliver, CoreDmaComplete, Direction
    <3>2. \A q \in OnTheWay : q.kind = "core" /\ q.n = p.n => q = p
      <4>1. \A q \in OnTheWay : q \in Packet
        BY DEF HetInv, Traffic
      <4> QED BY <1>3, <2>1, <4>1 DEF Packet
    <3>3. {q.n : q \in {r \in OnTheWay' : r.kind = "core"}}
            = {q.n : q \in {r \in OnTheWay : r.kind = "core"}} \ {p.n}
      BY <1>2, <3>2
    <3> QED BY <3>1, <3>3 DEF HetInv, CoreClaims
  <2>2. CASE p.kind # "core"
    BY <1>2, <1>4, <2>2, KindsApart, CoreRests DEF HetInv
  <2> QED BY <2>1, <2>2
<1>7. CpClaims'
  <2>1. CASE p.kind = "cp"
    <3>1. ~activeCpDma'
      BY <2>1 DEF Deliver, DmaComplete, Direction
    <3>2. \A q \in OnTheWay : q.kind = "cp" => q = p
      <4>1. \A q \in OnTheWay : q \in Packet
        BY DEF HetInv, Traffic
      <4>2. \A q \in OnTheWay : q.kind = "cp" => q.n = 0
        BY DEF HetInv, CpClaims
      <4> QED BY <1>3, <2>1, <4>1, <4>2 DEF Packet
    <3>3. \A q \in OnTheWay' : q.kind # "cp"
      BY <1>2, <3>2
    <3> QED BY <3>1, <3>3 DEF CpClaims
  <2>2. CASE p.kind # "cp"
    BY <1>2, <1>4, <2>2, KindsApart, CpRests DEF HetInv
  <2> QED BY <2>1, <2>2
<1>8. HostClaims'
  <2>1. CASE p.kind = "load"
    <3>1. hostLoads = 1 /\ \E r \in OnTheWay : {q \in OnTheWay : q.kind = "load"} = {r}
      BY <1>3, <2>1 DEF HetInv, HostClaims
    <3>2. hostLoads' = 0
      BY <2>1, <3>1 DEF Deliver, Direction
    <3>3. \A q \in OnTheWay : q.kind = "load" => q = p
      BY <1>3, <2>1, <3>1
    <3> QED BY <1>2, <3>2, <3>3 DEF HostClaims
  <2>2. CASE p.kind # "load"
    BY <1>2, <1>4, <2>2, KindsApart, HostRests DEF HetInv
  <2> QED BY <2>1, <2>2
<1>9. TokensUsed'
  <2>1. coreDmas' \subseteq coreDmas
    BY <1>4 DEF Deliver, CoreDmaComplete, Direction
  <2> QED BY <1>4, <2>1 DEF HetInv, TokensUsed
<1> QED BY <1>2, <1>5, <1>6, <1>7, <1>8, <1>9 DEF HetInv

LEMMA HetStep ==
  ASSUME Components, Components', HetInv, [HetNext]_vars
  PROVE  HetInv'
<1>1. ASSUME UNCHANGED <<bus, senderState, returning, packetQueue>>,
             UNCHANGED <<txns, nextAxiSequence, coreDmas, nextToken, activeCpDma, hostLoads>>
      PROVE  HetInv'
  <2>1. Traffic' /\ OnTheWay' = OnTheWay
    BY <1>1, Resting DEF HetInv
  <2> QED BY <1>1, <2>1, ClaimsRest DEF HetInv
<1>2. ASSUME NEW delay \in AtomicDelays, HostAtomic(delay) PROVE HetInv'
  BY <1>1, <1>2 DEF HostAtomic, LogAtomic, memVars, npuVars, gpuVars
<1>3. CASE SwitchToTiming
  BY <1>1, <1>3 DEF SwitchToTiming, memVars, npuVars, gpuVars, monVars
<1>4. CASE HostRings
  BY <1>1, <1>4 DEF HostRings, Doorbell, memVars, npuVars, monVars
<1>5. CASE HostStartsNpu
  BY <1>1, <1>5 DEF HostStartsNpu, LoadAndStart, memVars, gpuVars, monVars, hetVars
<1>6. ASSUME NEW delay \in Delays, Request(delay) PROVE HetInv'
  <2>1. Traffic' /\ OnTheWay' = OnTheWay
    BY <1>6, Requesting DEF HetInv
  <2>2. UNCHANGED <<txns, nextAxiSequence, coreDmas, nextToken, activeCpDma, hostLoads>>
    BY <1>6 DEF Request, npuVars, gpuVars
  <2> QED BY <2>1, <2>2, ClaimsRest DEF HetInv
<1>7. CASE RequestRefused
  BY <1>1, <1>7 DEF RequestRefused, Refuse, npuVars, gpuVars, monVars, hetVars
<1>8. CASE MemRelease
  BY <1>1, <1>8 DEF MemRelease, Release, npuVars, gpuVars, monVars, hetVars
<1>9. ASSUME NEW taken \in BOOLEAN, Respond(taken) PROVE HetInv'
  <2>1. Traffic' /\ OnTheWay' = OnTheWay
    BY <1>9, Responding DEF HetInv
  <2>2. UNCHANGED <<txns, nextAxiSequence, coreDmas, nextToken, activeCpDma, hostLoads>>
    BY <1>9 DEF Respond, npuVars, gpuVars
  <2> QED BY <2>1, <2>2, ClaimsRest DEF HetInv
<1>10. CASE TimePasses
  <2>1. Traffic' /\ OnTheWay' = OnTheWay
    BY <1>10, Elapsing DEF TimePasses, Elapse, MonElapse, hetVars, HetInv, Components, MemInv
  <2>2. UNCHANGED <<txns, nextAxiSequence, coreDmas, nextToken, activeCpDma, hostLoads>>
    BY <1>10 DEF TimePasses, npuVars, gpuVars, hetVars
  <2> QED BY <2>1, <2>2, ClaimsRest DEF HetInv
<1>11. CASE Exit
  BY <1>1, <1>11 DEF Exit, CloseTrace, memVars, npuVars, gpuVars
<1>12. CASE UNCHANGED vars
  BY <1>1, <1>12 DEF vars, memVars, npuVars, gpuVars, monVars, hetVars
<1> QED BY <1>2, <1>3, <1>4, <1>5, <1>6, <1>7, <1>8, <1>9, <1>10, <1>11, <1>12,
           HostSendStep, NpuTickStep, CpTickStep, VortexTickStep, DeliverStep DEF HetNext

\* Every packet that expects an answer is in one place, and the packets on
\* their way are what the devices and the host wait for.
THEOREM HetInvariance == HetSpec => []HetInv
<1>1. HetInit => HetInv
  <2> SUFFICES ASSUME HetInit PROVE HetInv
    OBVIOUS
  <2>1. bus = <<>> /\ senderState = <<>> /\ returning = {} /\ packetQueue = <<>>
    BY DEF HetInit, MonInit, MemInit
  <2>2. OnTheWay = {} /\ Sent = {}
    BY <2>1 DEF OnTheWay, Sent
  <2>3. Traffic
    BY <2>1, <2>2 DEF Traffic, EachOnce
  <2>4. NpuClaims
    <3>1. \A dir \in Direction : txns[dir] = <<>>
      BY DEF HetInit, NpuInit
    <3>2. NpuWaits = {}
      BY <3>1 DEF NpuWaits, Expected
    <3> QED BY <2>2, <3>2 DEF NpuClaims
  <2>5. CoreClaims /\ CpClaims /\ HostClaims /\ TokensUsed
    BY <2>2 DEF CoreClaims, CpClaims, HostClaims, TokensUsed, HetInit, GpuInit
  <2> QED BY <2>3, <2>4, <2>5 DEF HetInv
<1>2. Components /\ Components' /\ HetInv /\ [HetNext]_vars => HetInv'
  BY HetStep
<1> QED BY <1>1, <1>2, ComponentsAlways, PTL DEF HetSpec

\* What a device believes to be outstanding is on its way, once, wherever the
\* steps of bus, memory, monitor and devices interleave (het_system.py,
\* unified_timing_memory.cc, coralnpu_dev.cc, vortex_gpgpu_dev.cc).
THEOREM NothingOutstandingIsLost == HetSpec => []OutstandingIsOnTheWay
<1>1. HetInv => OutstandingIsOnTheWay
  <2> SUFFICES ASSUME HetInv PROVE OutstandingIsOnTheWay
    OBVIOUS
  <2>1. hostLoads = Cardinality({p \in OnTheWay : p.kind = "load"})
    <3>1. CASE hostLoads = 0 /\ \A p \in OnTheWay : p.kind # "load"
      <4>1. {p \in OnTheWay : p.kind = "load"} = {}
        BY <3>1
      <4> QED BY <3>1, <4>1, FS_EmptySet
    <3>2. CASE hostLoads = 1 /\ \E p \in OnTheWay : {q \in OnTheWay : q.kind = "load"} = {p}
      <4>1. PICK p \in OnTheWay : {q \in OnTheWay : q.kind = "load"} = {p}
        BY <3>2
      <4>2. Cardinality({p}) = 1
        BY FS_Singleton
      <4> QED BY <3>2, <4>1, <4>2
    <3> QED BY <3>1, <3>2 DEF HetInv, HostClaims
  <2>2. {packetQueue[i].pkt : i \in DOMAIN packetQueue} = DOMAIN senderState
    BY DEF HetInv, Traffic, EachOnce
  <2> QED BY <2>1, <2>2
          DEF OutstandingIsOnTheWay, HetInv, NpuClaims, CoreClaims, CpClaims
<1> QED BY <1>1, HetInvariance, PTL

-----------------------------------------------------------------------------
\* The traces

\* Once the simulation has ended no request or response is left to be written.
TracesInv ==
  /\ MonInv
  /\ closed \in BOOLEAN /\ (closed => Done)
  /\ closed \/ NothingAhead

LEMMA SourcesOfPackets ==
  ASSUME NEW p \in Packet
  PROVE  SourceOf(p) \in Source
<1>1. p.kind \in Direction \cup {"cp", "core", "load", "writeback"}
  BY HetAssumption DEF Packet
<1> QED BY <1>1, HetAssumption DEF SourceOf

LEMMA FirstOnTheBus ==
  ASSUME HetTyped, Traffic, bus # <<>>
  PROVE  /\ Head(bus) \in Packet
         /\ Head(bus) \notin Posted => Head(bus) \notin DOMAIN senderState
<1>1. bus \in Seq(Packet)
  BY DEF HetTyped
<1>2. Head(bus) \in Packet /\ 1 \in DOMAIN bus /\ Head(bus) = bus[1]
  BY <1>1
<1>3. Head(bus) \notin Posted => Head(bus) \in Sent
  BY <1>2, Zenon DEF Sent
<1> QED BY <1>2, <1>3, Zenon DEF Traffic, EachOnce

LEMMA RespondingTo ==
  ASSUME Components, Traffic, NEW taken \in BOOLEAN, Respond(taken)
  PROVE  packetQueue # <<>> /\ Head(packetQueue).pkt \in DOMAIN senderState
<1>1. packetQueue # <<>>
  <2>1. dequeueEvent = 0 \/ retryResp
    BY DEF Respond, Dequeue, RecvRespRetry
  <2> QED BY <2>1, SendsSomething DEF Components, MemInv
<1>2. 1 \in DOMAIN packetQueue /\ Head(packetQueue) = packetQueue[1]
  BY <1>1 DEF Components, MemInv, MemTypeOK
<1>3. DOMAIN senderState = {packetQueue[i].pkt : i \in DOMAIN packetQueue}
  BY Zenon DEF Traffic, EachOnce
<1> QED BY <1>1, <1>2, <1>3, Zenon

\* Whatever the step, the traces stay in order.
LEMMA TracesStep ==
  ASSUME Components, HetInv, TracesInv, [HetNext]_vars
  PROVE  TracesInv'
<1>1. Traffic /\ HetTyped /\ MonInv /\ closed \in BOOLEAN
  BY Zenon DEF HetInv, Components, TracesInv
\* Steps of the devices and of the host write nothing, and none of them is
\* possible after the end.
<1>2. ASSUME UNCHANGED monVars PROVE MonInv' /\ (NothingAhead => NothingAhead')
  BY <1>1, <1>2, Zenon DEF monVars, MonInv, MonTyped, NothingAhead
<1>3. ASSUME ~closed, closed' = closed, MonInv', NothingAhead' PROVE TracesInv'
  BY <1>3, Zenon DEF TracesInv
<1>4. ASSUME ~closed, closed' = closed, UNCHANGED monVars PROVE TracesInv'
  BY <1>2, <1>3, <1>4, Zenon DEF TracesInv
<1>5. ~closed => NothingAhead
  BY Zenon DEF TracesInv
<1>6. closed => Done
  BY Zenon DEF TracesInv
<1>7. ASSUME NEW delay \in AtomicDelays, HostAtomic(delay) PROVE TracesInv'
  <2>1. ~closed /\ closed' = closed /\ LogAtomic("Host", delay)
    BY <1>6, <1>7, Zenon DEF HostAtomic, Done
  <2>2. delay \in Nat /\ "Host" \in Source
    BY HetAssumption
  <2> QED BY <1>1, <1>3, <1>5, <2>1, <2>2, LogAtomicStep, Zenon
<1>8. CASE SwitchToTiming
  BY <1>4, <1>6, <1>8, Zenon DEF SwitchToTiming, Done
<1>9. CASE HostSend
  BY <1>4, <1>6, <1>9, Zenon DEF HostSend, Done
<1>10. CASE HostRings
  BY <1>4, <1>6, <1>10, Zenon DEF HostRings, Done
<1>11. CASE HostStartsNpu
  BY <1>4, <1>6, <1>11, Zenon DEF HostStartsNpu, Done, hetVars
<1>12. CASE NpuTick
  <2>1. npuTickEvent
    BY <1>12, Zenon DEF NpuTick, NpuIssue, NpuHalts
  <2>2. closed' = closed /\ UNCHANGED monVars
    BY <1>12, Zenon DEF NpuTick
  <2> QED BY <1>4, <1>6, <2>1, <2>2, Zenon DEF Done
<1>13. CASE CpTick
  <2>1. cpTickEvent
    BY <1>13, Zenon DEF CpTick, CpAccess, CpLaunch, CpPoll, CpRetire
  <2>2. closed' = closed /\ UNCHANGED monVars
    BY <1>13, Zenon DEF CpTick
  <2> QED BY <1>4, <1>6, <2>1, <2>2, Zenon DEF Done
<1>14. CASE VortexTick
  <2>1. vortexTickEvent
    BY <1>14, Zenon DEF VortexTick, IssueCoreTiming, KernelEnds
  <2>2. closed' = closed /\ UNCHANGED monVars
    BY <1>14, Zenon DEF VortexTick
  <2> QED BY <1>4, <1>6, <2>1, <2>2, Zenon DEF Done
<1>15. ASSUME NEW delay \in Delays, Request(delay) PROVE TracesInv'
  <2>1. ~closed /\ closed' = closed /\ bus # <<>>
    BY <1>6, <1>15, Zenon DEF Request, Done
  <2>2. IF Head(bus) \in Posted THEN LogPosted(SourceOf(Head(bus)))
                                ELSE LogRequest(Head(bus), SourceOf(Head(bus)))
    BY <1>15, Zenon DEF Request
  <2>3. SourceOf(Head(bus)) \in Source
        /\ (Head(bus) \notin Posted => Head(bus) \notin DOMAIN senderState)
    BY <1>1, <2>1, FirstOnTheBus, SourcesOfPackets, Zenon
  <2>4. MonInv' /\ NothingAhead'
    BY <1>1, <1>5, <2>1, <2>2, <2>3, LogPostedStep, LogRequestStep, Zenon
  <2> QED BY <1>3, <2>1, <2>4, Zenon
<1>16. CASE RequestRefused
  BY <1>4, <1>6, <1>16, Zenon DEF RequestRefused, hetVars, Done
<1>17. ASSUME UNCHANGED <<timing, work, bus, returning, hostLoads, closed>>,
              UNCHANGED <<txns, commands, cpTickEvent, vortexTickEvent, npuTickEvent>>,
              packetQueue = <<>> => packetQueue' = <<>>,
              MonInv', NothingAhead => NothingAhead'
       PROVE  TracesInv'
  <2>1. closed' => Done'
    BY <1>6, <1>17, Zenon DEF Done
  <2> QED BY <1>1, <1>5, <1>17, <2>1, Zenon DEF TracesInv
<1>18. CASE MemRelease
  <2>1. /\ UNCHANGED <<timing, work, bus, returning, hostLoads, closed>>
        /\ UNCHANGED <<txns, commands, cpTickEvent, vortexTickEvent, npuTickEvent>>
        /\ packetQueue' = packetQueue /\ UNCHANGED monVars
    BY <1>18, Zenon DEF MemRelease, Release, npuVars, gpuVars, hetVars
  <2> QED BY <1>2, <1>17, <2>1, Zenon
<1>19. ASSUME NEW taken \in BOOLEAN, Respond(taken) PROVE TracesInv'
  <2>1. packetQueue # <<>> /\ Head(packetQueue).pkt \in DOMAIN senderState
    BY <1>1, <1>19, RespondingTo, Zenon
  <2>2. ~closed /\ closed' = closed
    BY <1>6, <1>19, <2>1, Zenon DEF Respond, Done
  <2>3. LogResponse(Head(packetQueue).pkt) \/ UNCHANGED monVars
    BY <1>19, Zenon DEF Respond
  <2>4. CASE LogResponse(Head(packetQueue).pkt)
    BY <1>1, <1>3, <1>5, <2>1, <2>2, <2>4, LogResponseStep, Zenon
  <2>5. CASE UNCHANGED monVars
    BY <1>4, <2>2, <2>5, Zenon
  <2> QED BY <2>3, <2>4, <2>5, Zenon
<1>20. ASSUME NEW p \in returning, Deliver(p) PROVE TracesInv'
  <2>1. returning # {} /\ closed' = closed /\ UNCHANGED monVars
    BY <1>20, Zenon DEF Deliver
  <2> QED BY <1>4, <1>6, <2>1, Zenon DEF Done
<1>21. CASE TimePasses
  <2>1. /\ UNCHANGED <<timing, work, bus, returning, hostLoads, closed>>
        /\ UNCHANGED <<txns, commands, cpTickEvent, vortexTickEvent, npuTickEvent>>
        /\ MonElapse
    BY <1>21, Zenon DEF TimePasses, npuVars, gpuVars, hetVars
  <2>2. packetQueue = <<>> => packetQueue' = <<>>
    BY <1>21 DEF TimePasses, Elapse
  <2>3. MonInv' /\ (NothingAhead => NothingAhead')
    BY <1>1, <2>1, MonElapseStep, Zenon
  <2> QED BY <1>17, <2>1, <2>2, <2>3, Zenon
<1>22. CASE Exit
  <2>1. Done /\ closed' = TRUE /\ CloseTrace("Host")
        /\ UNCHANGED <<memVars, npuVars, gpuVars, work, timing, bus, returning, hostLoads>>
    BY <1>22, Zenon DEF Exit
  <2>2. MonInv'
    BY <1>1, <2>1, CloseTraceStep, HetAssumption
  <2>3. Done'
    BY <2>1, Zenon DEF Done, memVars, npuVars, gpuVars
  <2> QED BY <2>1, <2>2, <2>3, Zenon DEF TracesInv
<1>23. CASE UNCHANGED vars
  <2>1. /\ UNCHANGED <<timing, work, bus, returning, hostLoads, closed>>
        /\ UNCHANGED <<txns, commands, cpTickEvent, vortexTickEvent, npuTickEvent>>
        /\ packetQueue' = packetQueue /\ UNCHANGED monVars
    BY <1>23, Zenon DEF vars, memVars, npuVars, gpuVars, hetVars
  <2> QED BY <1>2, <1>17, <2>1, Zenon
<1> QED BY <1>7, <1>8, <1>9, <1>10, <1>11, <1>12, <1>13, <1>14, <1>15, <1>16, <1>18, <1>19,
           <1>20, <1>21, <1>22, <1>23, Zenon DEF HetNext

\* The trace of each source is in the order of time, also where the ends of
\* atomic accesses are written late and where the simulation changes to timing
\* accesses; each access in flight, and each end kept back, has an ID of its own
\* (het_axi_monitor.cc: flushAtomicCompletions, emitBegin, allocateAxiId).
THEOREM TracesStayWellFormed == HetSpec => []TraceIsWellFormed
<1>1. HetInit => TracesInv
  <2> SUFFICES ASSUME HetInit PROVE TracesInv
    OBVIOUS
  <2>1. MonInv /\ NothingAhead
    BY MonInitially, Zenon DEF HetInit
  <2> QED BY <2>1 DEF TracesInv, HetInit
<1>2. Components /\ HetInv /\ TracesInv /\ [HetNext]_vars => TracesInv'
  BY TracesStep
<1>3. TracesInv => TraceIsWellFormed
  BY MonSafe, Zenon DEF TracesInv
<1> QED BY <1>1, <1>2, <1>3, ComponentsAlways, HetInvariance, PTL DEF HetSpec
=============================================================================
