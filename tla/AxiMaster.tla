----------------------------- MODULE AxiMaster -----------------------------
(***************************************************************************)
(* The AXI master of the gem5 demo: it takes TLM transactions from gem5's  *)
(* bridge, gives each an AXI ID, cuts it into legal bursts, runs these one *)
(* after the other on the five channels and answers when the last one is   *)
(* done.  Its clocked method is sequential, so a tick is a composition of  *)
(* functions on the state of the master.                                   *)
(*                                                                         *)
(* Delays count the clock edges that are left.                             *)
(***************************************************************************)
EXTENDS Integers, Sequences, SequencesExt, FiniteSets, FiniteSetsExt

CONSTANTS
  Widths,      \* bytes of a beat: the powers of two up to DataBytes
  Boundary,    \* what a burst may not cross (4096)
  MaxBeats,    \* beats of a burst (256)
  Slots,       \* transactions in progress
  MaxId,       \* the largest ID
  Skew         \* clocks by which AW or W lags behind when stalls are on (3)

ASSUME MasterAssumption == Slots \in 1 .. MaxId /\ Skew \in Nat

DataBytes == Max(Widths)

-----------------------------------------------------------------------------
\* A beat is as wide as the rest and the alignment allow.
Widest(addr, n) == Max({w \in Widths : w <= n /\ addr % w = 0})

\* Mutant: a burst runs on over the boundary.
RoomOfAny(addr, width) == MaxBeats

\* Beats before the next boundary.
Room(addr, width) == (Boundary - (addr % Boundary)) \div width

Split(addr, len) ==
  LET rest[offset \in 0 .. len] ==
        IF offset = len THEN <<>> ELSE
        LET at    == addr + offset
            width == Widest(at, len - offset)
            beats == Min({(len - offset) \div width, MaxBeats, Room(at, width)})
        IN <<[address |-> at, offset |-> offset, bytes |-> width, beats |-> beats]>>
             \o rest[offset + width * beats]
  IN rest[0]

-----------------------------------------------------------------------------
\* A transaction gp is [n, write, addr, len]: the n-th of the program.
NoGp == [n |-> 0]

IdleMaster == [pending |-> NoGp, pendingAt |-> 0, active |-> <<>>,
               awq |-> <<>>, wq |-> <<>>, arq |-> <<>>,
               responses |-> <<>>, responding |-> 0, nextId |-> 1,
               stalls |-> FALSE]

\* The burst a transaction is at, and the channels' payloads.
Segment(t) == t.bursts[t.segment]
Txn(m, id) == m.active[id]

AwValid(m) == m.awq # <<>> /\ Txn(m, Head(m.awq)).awAfter = 0
WValid(m)  == m.wq # <<>> /\ Txn(m, Head(m.wq)).wAfter = 0
ArValid(m) == m.arq # <<>>

Ax(m, id) == [id |-> id, address |-> Segment(Txn(m, id)).address,
              bytes |-> Segment(Txn(m, id)).bytes, beats |-> Segment(Txn(m, id)).beats]

\* A W beat stands for the bytes of its transaction that it carries.
WBeat(m) == LET t == Txn(m, Head(m.wq)) IN
  [n |-> t.gp.n, offset |-> Segment(t).offset + t.wbeat * Segment(t).bytes,
   last |-> t.wbeat + 1 = Segment(t).beats]

-----------------------------------------------------------------------------
EnqueueSegment(m, id) ==
  LET write == Txn(m, id).gp.write
      lag(odd) == IF m.stalls /\ id % 2 = odd THEN Skew ELSE 0
  IN [m EXCEPT !.active[id] = [@ EXCEPT !.wbeat = 0, !.rbeat = 0,
                                        !.awAfter = lag(1), !.wAfter = lag(0)],
               !.awq = IF write THEN Append(@, id) ELSE @,
               !.wq  = IF write THEN Append(@, id) ELSE @,
               !.arq = IF write THEN @ ELSE Append(@, id)]

FinishSegment(m, id) ==
  IF Txn(m, id).segment < Len(Txn(m, id).bursts)
    THEN EnqueueSegment([m EXCEPT !.active[id].segment = @ + 1], id)
    ELSE [m EXCEPT !.responses = Append(@, id)]

\* The five handshakes of the past cycle, in the order of the code.
Addressed(m, shake) == [m EXCEPT !.awq = IF "AW" \in shake THEN Tail(@) ELSE @,
                                 !.arq = IF "AR" \in shake THEN Tail(@) ELSE @]

SentW(m, shake) ==
  IF "W" \notin shake THEN m ELSE
  LET id == Head(m.wq) IN
    [m EXCEPT !.active[id].wbeat = @ + 1,
              !.wq = IF WBeat(m).last THEN Tail(@) ELSE @]

GotR(m, shake, r) ==
  IF "R" \notin shake THEN m ELSE
  LET read == [m EXCEPT !.active[r.id] = [@ EXCEPT !.rbeat = @ + 1,
                                                   !.ok = @ /\ ~r.error]]
  IN IF Txn(read, r.id).rbeat = Segment(Txn(read, r.id)).beats
       THEN FinishSegment(read, r.id) ELSE read

\* Mutant: the response of the last burst decides.
StatusOfLast(ok, b) == ~b.error

\* One burst in error is enough.
Status(ok, b) == ok /\ ~b.error

GotB(m, shake, b) ==
  IF "B" \notin shake THEN m
  ELSE FinishSegment([m EXCEPT !.active[b.id].ok = Status(@, b)], b.id)

\* Mutant: an ID is used although its transaction is in progress.
FreeIdNext(m) == m.nextId

\* The next ID in turn that is not in use.
After(id) == IF id = MaxId THEN 1 ELSE id + 1
FreeId(m) ==
  LET from[k \in 0 .. MaxId] == IF k = 0 THEN m.nextId ELSE After(from[k - 1])
  IN from[Min({k \in 0 .. MaxId : from[k] \notin DOMAIN m.active})]

\* An empty transaction stands for those that are answered with an error
\* without being sent.
Admit(m) ==
  IF m.pending = NoGp \/ Cardinality(DOMAIN m.active) >= Slots \/ m.pendingAt > 0 THEN m ELSE
  LET gp == m.pending
      id == FreeId(m)
      t  == [gp |-> gp, bursts |-> Split(gp.addr, gp.len), segment |-> 1,
             wbeat |-> 0, rbeat |-> 0, awAfter |-> 0, wAfter |-> 0, ok |-> gp.len > 0]
      with == [m EXCEPT !.pending = NoGp, !.nextId = After(id),
                        !.active = [i \in DOMAIN @ \cup {id} |-> IF i = id THEN t ELSE @[i]]]
  IN IF gp.len > 0 THEN EnqueueSegment(with, id)
     ELSE [with EXCEPT !.responses = Append(@, id)]

Respond(m) == IF m.responding # 0 \/ m.responses = <<>> THEN m
              ELSE [m EXCEPT !.responding = Head(m.responses), !.responses = Tail(@)]

\* The clock edge itself.
Less(n) == IF n > 0 THEN n - 1 ELSE 0
Age(m) == [m EXCEPT !.pendingAt = Less(@),
                    !.active = [id \in DOMAIN @ |->
                      [@[id] EXCEPT !.awAfter = Less(@), !.wAfter = Less(@)]]]

MasterTick(m, shake, r, b) ==
  Respond(Admit(GotB(GotR(SentW(Addressed(Age(m), shake), shake), shake, r), shake, b)))

-----------------------------------------------------------------------------
\* BEGIN_REQ: gem5's bridge has one request on its way until END_REQ.
BeginReq(m, gp, delay) == [m EXCEPT !.pending = gp, !.pendingAt = delay]

\* END_RESP: the transaction is over and its ID free.
EndResp(m) == [m EXCEPT !.active = [id \in DOMAIN @ \ {m.responding} |-> @[id]],
                        !.responding = 0]

\* What the master asserts about the responses it gets.
MasterAccepts(m, shake, r, b) ==
  /\ "R" \in shake => /\ r.id \in DOMAIN m.active
                      /\ ~Txn(m, r.id).gp.write
                      /\ r.last = (Txn(m, r.id).rbeat + 1 = Segment(Txn(m, r.id)).beats)
  /\ "B" \in shake => b.id \in DOMAIN m.active /\ Txn(m, b.id).gp.write
=============================================================================
