------------------------------ MODULE AxiDemo ------------------------------
(***************************************************************************)
(* The gem5 AXI demo: gem5's bridge, the AXI master and, on one set of     *)
(* wires, the RAM or the AoU backend with the memory simulator behind it.  *)
(* Master and backend are clocked by the same edge and read each other's   *)
(* pins as they were before it: a Tick moves both.  Readiness under the    *)
(* stall patterns, and that of the AoU bridge, is a free choice of the     *)
(* handshakes that happen.                                                 *)
(***************************************************************************)
EXTENDS AxiMaster, AxiRam, AouFabric, MemSimBackend

CONSTANTS
  Setups,          \* [backend, stalls, faults, program]: the runs of the demo;
                   \* with faults the memory simulator may fail a child
  PayloadDelays    \* clocks a payload needs to arrive

ASSUME DemoAssumption == MemWindow = Window /\ AxiBoundary = Boundary /\ PayloadDelays \subseteq Nat

VARIABLES
  setup,
  begun,       \* transactions that gem5 has begun
  master, ram, fabric,
  link, resetn,
  aclk,        \* turns over with every edge
  shake,       \* history: the handshakes of the last step, or "MEM" if it
               \* was a cycle in which the simulator refused nothing and had
               \* completed all it held
  moved,       \* history: per transaction, <<offset in the payload, address
               \* in memory>> of the bytes moved, in order
  answered,    \* history: per transaction, "no", "ok" or "error"
  failed,      \* history: transactions of which a child failed
  broken       \* history: a component's assertion failed

demoVars == <<setup, begun, master, ram, fabric, link, resetn, aclk, shake,
              moved, answered, failed, broken>>
vars == <<demoVars, memSimVars>>

DemoInit ==
  /\ setup \in Setups
  /\ begun = 0
  /\ master = [IdleMaster EXCEPT !.stalls = setup.stalls]
  /\ ram = EmptyRam /\ fabric = EmptyFabric
  /\ link = "Training" /\ resetn = FALSE /\ aclk = FALSE
  /\ shake = {}
  /\ moved = [n \in DOMAIN setup.program |-> <<>>]
  /\ answered = [n \in DOMAIN setup.program |-> "no"]
  /\ failed = {} /\ broken = FALSE
  /\ MemSimInit

OnRam == setup.backend = "ram"

-----------------------------------------------------------------------------
\* The pins.
Channel == {"AW", "W", "AR", "B", "R"}

Valid(ch) ==
  CASE ch = "AW" -> AwValid(master)
    [] ch = "W"  -> WValid(master)
    [] ch = "AR" -> ArValid(master)
    [] ch = "B"  -> IF OnRam THEN RamBValid(ram) ELSE FabricBValid(fabric)
    [] ch = "R"  -> IF OnRam THEN RamRValid(ram) ELSE FabricRValid(fabric)

Payload(ch) ==
  CASE ch = "AW" -> Ax(master, Head(master.awq))
    [] ch = "W"  -> WBeat(master)
    [] ch = "AR" -> Ax(master, Head(master.arq))
    [] ch = "B"  -> IF OnRam THEN RamB(ram) ELSE FabricB(fabric)
    [] ch = "R"  -> IF OnRam THEN RamR(ram) ELSE FabricR(fabric)

Offered(ch) == ch \in {"B", "R"} \cup IF OnRam THEN RamReady(ram) ELSE FabricReady(fabric)

CanShake == {ch \in Channel : resetn /\ Valid(ch) /\ Offered(ch)}

\* Whose readiness is not settled by the queues.
MayStall == IF setup.stalls THEN Channel ELSE IF OnRam THEN {} ELSE {"AW", "W", "AR"}

-----------------------------------------------------------------------------
\* Bytes that move in a tick: <<transaction, offset, address, count>>.
Run(offset, address, count) == [k \in 1 .. count |-> <<offset + k - 1, address + k - 1>>]

Record(m, n, run) == [m EXCEPT ![n] = @ \o run]

ReadMoves(m, hs) ==
  IF "R" \notin hs THEN m ELSE
  LET r == Payload("R")
      t == Txn(master, r.id)
      s == Segment(t)
  IN IF r.error THEN m
     ELSE Record(m, t.gp.n, Run(s.offset + t.rbeat * s.bytes, r.address, s.bytes))

RamWrites(m, s) ==
  IF ~HasBeat(s) THEN m ELSE
  LET w == Head(s.writes)
      beat == Head(s.data)
  IN IF ~InWindow(At(w), w.bytes) THEN m
     ELSE Record(m, beat.n, Run(beat.offset, At(w), w.bytes))

Tick(hs) ==
  /\ resetn
  /\ hs \subseteq CanShake /\ CanShake \ hs \subseteq MayStall
  /\ LET payload(ch) == IF ch \in hs THEN Payload(ch) ELSE <<>>
         before == Shaken(ram, hs, payload("AW"), payload("W"), payload("AR"))
     IN /\ master' = MasterTick(master, hs, payload("R"), payload("B"))
        /\ ram' = IF OnRam THEN Landed(before) ELSE ram
        /\ fabric' = IF OnRam THEN fabric
                     ELSE FabricTick(fabric, hs, payload("AW"), payload("W"), payload("AR"))
        /\ moved' = IF OnRam THEN RamWrites(ReadMoves(moved, hs), before)
                    ELSE ReadMoves(moved, hs)
        /\ broken' = (broken \/ ~(/\ MasterAccepts(master, hs, payload("R"), payload("B"))
                                  /\ OnRam => RamAccepts(before)
                                  /\ ~OnRam => FabricAccepts(fabric, hs, payload("W"),
                                                             payload("AR"))))
  /\ shake' = hs /\ aclk' = ~aclk
  /\ UNCHANGED <<setup, begun, link, resetn, answered, failed, memSimVars>>

-----------------------------------------------------------------------------
\* Reset is held for some clocks and until the link is up, if there is one.
\* Mutant: only until the link is Active.
LinkIsUpIfActive == OnRam \/ link = "Active"

LinkIsUp == OnRam \/ link \in {"Active", "Degraded"}

ReleaseReset ==
  /\ ~resetn /\ LinkIsUp
  /\ resetn' = TRUE /\ shake' = {}
  /\ UNCHANGED <<setup, aclk, begun, master, ram, fabric, link, moved, answered, failed, broken, memSimVars>>

\* The link goes from Training to Active, and to Degraded for good.  It is
\* looked at until reset is released.
LinkStatus ==
  /\ ~OnRam /\ ~resetn /\ link # "Degraded"
  /\ link' = IF link = "Training" THEN "Active" ELSE "Degraded"
  /\ shake' = {}
  /\ UNCHANGED <<setup, aclk, begun, master, ram, fabric, resetn, moved, answered, failed, broken, memSimVars>>

\* gem5's bridge.
Begin(delay) ==
  /\ master.pending = NoGp /\ begun < Len(setup.program)
  /\ begun' = begun + 1
  /\ master' = BeginReq(master, setup.program[begun + 1], delay)
  /\ shake' = {}
  /\ UNCHANGED <<setup, aclk, ram, fabric, link, resetn, moved, answered, failed, broken, memSimVars>>

End ==
  /\ master.responding # 0
  /\ LET t == Txn(master, master.responding) IN
       answered' = [answered EXCEPT ![t.gp.n] =
                      IF @ # "no" THEN "twice" ELSE IF t.ok THEN "ok" ELSE "error"]
  /\ master' = EndResp(master)
  /\ shake' = {}
  /\ UNCHANGED <<setup, aclk, begun, ram, fabric, link, resetn, moved, failed, broken, memSimVars>>

-----------------------------------------------------------------------------
\* The AoU path.
Down(c) ==
  /\ fabric.down[c] # <<>> /\ Len(requests) < FifoDepth
  /\ requests' = Append(requests, Head(fabric.down[c]))
  /\ fabric' = Departed(fabric, c)
  /\ shake' = {}
  /\ UNCHANGED <<setup, aclk, begun, master, ram, link, resetn, moved, answered, failed, broken,
                 responses, bursts, children>>

Up == /\ responses # <<>>
      /\ responses' = Tail(responses)
      /\ fabric' = Answered(fabric, Head(responses))
      /\ shake' = {}
      /\ UNCHANGED <<setup, aclk, begun, master, ram, link, resetn, moved, answered, failed, broken,
                     requests, bursts, children>>

Show(c) ==
  /\ CanShow(fabric, c)
  /\ fabric' = Shown(fabric, c)
  /\ shake' = {}
  /\ UNCHANGED <<setup, aclk, begun, master, ram, link, resetn, moved, answered, failed, broken, memSimVars>>

\* A cycle of the memory's own clock.  The bytes of a write move when the
\* simulator takes the child.
Taken(b, c) ==
  [k \in 1 .. c.bytes |->
     LET at == c.offset + k - 1
         beat == b.req.data[at \div b.req.bytes + 1]
     IN <<beat.offset + (at % b.req.bytes), b.req.address + at>>]

Memory(accepted, finished, failing) ==
  /\ ~OnRam
  /\ MemCycle(accepted, finished, failing)
  /\ failed' = failed \cup {Txn(master, c.id).gp.n : c \in failing}
  /\ moved' = IF accepted /\ Submitted.req.write
                THEN Record(moved, Submitted.req.data[1].n, Taken(Submitted, NextChild(Submitted)))
                ELSE moved
  /\ shake' = IF children \subseteq finished /\ (Unsent(AfterAccept) # {} => accepted)
                THEN {"MEM"} ELSE {}
  /\ broken' = (broken \/ ~MemAccepts)
  /\ UNCHANGED <<setup, aclk, begun, master, ram, fabric, link, resetn, answered>>

Newest == IF Unsent(AfterAccept) = {} THEN {} ELSE {NextChild(Submitted)}

\* What takes its time but happens: the bridge of gem5, the link, the path.
Quick == \/ ReleaseReset \/ LinkStatus
         \/ \E delay \in PayloadDelays : Begin(delay)
         \/ End
         \/ \E c \in Classes : Down(c) \/ Show(c)
         \/ Up

DemoNext ==
  \/ \E hs \in SUBSET CanShake : Tick(hs)
  \/ Quick
  \/ \E accepted \in BOOLEAN, finished \in SUBSET (children \cup Newest) :
       \E failing \in IF setup.faults THEN SUBSET finished ELSE {{}} :
         Memory(accepted, finished, failing)

DemoSpec == DemoInit /\ [][DemoNext]_vars

\* The clock runs, the stall patterns come round and the bridge is ready in
\* the end; so is the simulator, and completes what it took.
Fairness ==
  /\ []<>(~resetn \/ aclk) /\ []<>(~resetn \/ ~aclk)
  /\ \A ch \in Channel : []<>(ch \notin CanShake \/ ch \in shake)
  /\ []<>(OnRam \/ "MEM" \in shake)
  /\ WF_vars(Quick)

DemoFairSpec == DemoSpec /\ Fairness

-----------------------------------------------------------------------------
\* Every byte of a payload goes to, or comes from, its own address, in order
\* and once, and a transaction is answered with success only when all of it
\* has moved.
BytesInPlace ==
  \A n \in DOMAIN moved :
    LET gp == setup.program[n] IN
    /\ \A i \in DOMAIN moved[n] :
         /\ moved[n][i] = <<moved[n][i][1], gp.addr + moved[n][i][1]>>
         /\ i > 1 => moved[n][i - 1][1] < moved[n][i][1]
    /\ answered[n] = "ok" => moved[n] = Run(0, gp.addr, gp.len)

\* Overlapping bursts: the memory simulator has not taken a byte of a burst
\* while an earlier one still has a byte for the same address.
TakenBytes(b) == IF Outside(b.req) THEN {} ELSE b.req.address .. b.req.address + b.sent - 1
BytesToCome(b) == b.req.address + b.sent .. b.req.address + Length(b.req) - 1

OverlapsInOrder ==
  \A i, j \in DOMAIN bursts :
    i < j => TakenBytes(bursts[j]) \cap BytesToCome(bursts[i]) = {}

\* Bytes arrive at their own addresses, in order and once, however payloads are
\* cut into segments, beats and children, in whatever order these complete, and
\* however bursts overlap.
BytesArriveInOrder == BytesInPlace /\ OverlapsInOrder

\* A transaction is answered once, with an error exactly when it is empty, one
\* of its bytes is not in the memory, or the simulator failed one of the
\* children of its segments, whichever child completed last.
AnsweredWithItsStatus ==
  \A n \in DOMAIN answered :
    LET gp == setup.program[n]
        good == /\ gp.len > 0 /\ gp.addr .. gp.addr + gp.len - 1 \subseteq Window
                /\ n \notin failed
    IN answered[n] \in {"no", IF good THEN "ok" ELSE "error"}

\* No assertion of a component about its neighbour fails: responses find their
\* transaction and have its length, data has its burst's, an ID is not used
\* twice, and a burst is legal when it gets to the memory.
ContractsHold == ~broken

\* AXI's handshake rule: a channel that is valid and not taken stays valid
\* with the same payload.
HandshakeStable ==
  [][\A ch \in Channel :
       Valid(ch) /\ ch \notin shake' => Valid(ch)' /\ Payload(ch)' = Payload(ch)]_vars

\* Every transaction that gem5 begins is answered.
AllAnswered == <>(\A n \in DOMAIN answered : answered[n] # "no")
=============================================================================
