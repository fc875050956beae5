# Formal models of the full-link simulation system

The repository simulates a whole memory path: processors in gem5 (a CPU, a
Vortex GPU, a CoralNPU) issue AXI transactions, a bridge packs them into
"AXI over UCIe" (AoU) frames, a model of a UCIe link with retransmission carries
the frames, and a target on the far side turns them into requests to a memory
model.

```
 CPU / GPU / NPU -> AXI master -> Axi2Flit -> UcieAouAdapter -+
                                                              |  UcieLink, two
        memory <-> AouTarget <-------------------------------+   directions
```

A second system in gem5 leaves the link out: host, CoralNPU and Vortex share one
`UnifiedTimingMemory` behind an AXI monitor that writes traces.

This directory holds TLA+ modules for the parts that carry the protocol logic,
TLC configurations that check them on small instances, and TLAPS proofs for
every value of their constants.

## Components

| Component | State | Operations | What is hard | What makes it correct |
|---|---|---|---|---|
| UCIe link direction (`ucie-model/src/ucie_link.h`) | retry buffer, replay range, wire sequence number, expected number, queues of the channel and of the feedback path | sender and feedback threads of `TxAdapter`, `PhyChannel`, `RxAdapter::run`, `FeedbackPath` | two threads share the replay state across a wait; 8-bit numbers; ACK, NAK and timer cross | a reliable FIFO between the FDI ports |
| Physical layer (`ucie_phy.h`, `ucie_common.h`) | CDR state, random generator | `transmit`, `observe`, CRC | numerical | any frame may be corrupted, a corrupted frame is detected |
| Link status (`UcieLink`) | `link_state`, `failed_` | `status_thread`, `fail` | leaves Active for good | users treat Degraded as up; Failed is final |
| AoU credits (`axi2flit/systemc/include/credit_manager.h`) | credits to spend, credits owed, rotation | grants in headers and messages, consume, return | rounding of grants, cut-offs, rotation | conservation, no starvation |
| AoU target (`integration/aou_target.h`) | queues per plane, tickets, replies, spill, rotations | `receive`, `collect`, `assemble`, `submit`, `transmit` | data before request, reordering memory, cut replies, limits | AXI order, no overflow, every request answered |
| AXI bridge (`axi2flit.cpp`, `flit_packer.cpp`, `flit_unpacker.cpp`, `aou_stream_decoder.h`) | FIFOs per plane, staging slots, spill, output and holding registers | five channel threads, pack, unpack, reset | registered ready signals, atomic double enqueue, held output | no message lost or reordered within a kind and plane |
| Order guard (`rp_order_guard.h`) | outstanding count and plane per ID | `bind`, `retire` | reports but does not stop a conflict | an ID stays in one plane if nothing is reported |
| Adapter (`ucie_aou_adapter.h`) | ready and held flags | `transfer` | ready is a cycle old; link state gate | no frame lost |
| Burst memory (`simple_burst_memory.h`) | bursts | accept, complete | any order across IDs | order within an ID |
| Memory simulator bridge (`gem5_axi/memsim_backend.cc`) | bursts in slots, children | admit, submit, complete, return | children out of order, full response FIFO | each byte once, bursts in order of arrival, a failed child fails its burst |
| AXI master (`gem5_axi/axi_master.cc`) | transaction slots, IDs, segment queues | `beginReq`, `admit`, `tick`, `endResp` | ID reuse, two sets of queues, skew of AW and W | each transaction answered once with its status |
| AXI RAM, AoU backend (`axi_ram.cc`, `aou_backend.cc`) | burst queues; cursors | the five channels, reset until the link is up | data before its address, responses across planes | answers in order of each plane |
| UnifiedTimingMemory (`gem5_new/.../unified_timing_memory.cc`) | response queue, retry flags, two events | timing request, release, dequeue, response retry | retries of both sides | one retry per refusal, no early response |
| AXI monitor (`gem5_new/gem5int/src/hettrace/het_axi_monitor.cc`) | synthetic IDs, ends kept back | timing request and response, atomic access, close | ends that lie in the future | trace in order of time, IDs unique in flight |
| CoralNPU (`dev/coralnpu/coralnpu_dev.cc`) | transactions, order per ID | issue, complete, retire | completion in any order | retirement in order of issue |
| Vortex (`dev/vortex/vortex_gpgpu_dev.cc`) | coroutine, CP DMA, core DMA, two tick events | doorbell, CP tick, kernel, completion | lost or premature wake-ups | resumed once, with its data |

Ramulator2 with DRAMPower (third party), the trace file format and its tools, the
storage-chain RTL and the scripts are left out.

The parts interact through bounded FIFOs (`sc_fifo`), registered handshake
signals and credits. The SystemC kernel is cooperative: a thread runs from one
`wait` to the next without interruption, and every model takes such a stretch as
one step. gem5 is a discrete-event simulator: an event's handler is one step, and
ports call each other within it. The hazards, each at its line, are listed in `PROJECT.json`.

## Modules

### ReliableFifo and UcieLinkDir

`ReliableFifo` is the promise of a link direction: flits come out in order, each
once, and at most `Capacity` of them are inside. `UcieLinkDir` models the four
modules between the FDI ports.

* `TxTrained`, `TxWake`, `TxTimeout` and `TxWrite` are the four places at which
  `TxAdapter::sender` resumes; `Turn` is the stretch of its loop up to the next
  wait (`SendReplay`, `SendNew`, `Sleep`). `send_one` waits for the
  serialisation and for room in the FIFO, so while `txPc = "serialize"` the
  feedback thread may change the retry buffer and the replay range.
* After `send_one` the code reads its map iterator again (line 109). If an ACK
  has erased the entry the value is undefined, and `CursorAfterSend` takes any
  number.
* `TxFeedback` is one turn of `TxAdapter::feedback`; `PhyIngress`, `PhyEgress`,
  `FbIngress` and `FbEgress` are the turns of the channel and feedback threads;
  `RxTake`, `RxWriteFdi` and `RxWriteFb` are the stretches of `RxAdapter::run`
  between its blocking calls.
* A flit is its 64-bit number; the receiver looks at the number modulo `SeqMod`
  only. CRC failure is a choice in `PhyTransmit`.
* The replay timer fires when no answer is on its way (`AnswerOverdue`): its
  value is four times the delay of the loop. It does not count the lane skew, so
  with `TimerMayBeEarly` it fires at any time.

### CreditLoop

The credits of one direction. A cell is a resource plane and a kind of message.
Credits go from `pending` (owed by the receiver of messages) through `flying`,
`available` and `sending` to `buffered` and back. `TakeHeaderGrant` and
`TakeMiscGrants` are the two ways to grant, with the encoding of
`encode_credit_amount` and the rotation; `AddTxCredit`, `Consume` and
`ReturnRxCredit` move credits in any amounts, cut off where the code cuts off.

### AouTarget

The thread of `AouTarget` with its surroundings. `phase` walks through
`Receive`, `Collect`, `Assemble`, `Submit` and `Transmit` at each edge; `Pack`
adds one message to the frame under construction and `Send` completes it. The
surroundings move between edges: the initiator (`PeerSend`, `PeerGrant`,
`PeerReceive`, `PeerAccept`) sends the messages of a kind and plane in order as
far as its credits go, the memory (`MemTake`, `MemComplete`) obeys the order
contract of `simple_mem_if.h` and nothing more.

The module composes two `CreditLoop`s. The target's requests and its responses
each have one, and `KeepsRequestCredits` and `KeepsResponseCredits` state that
every step of the whole is a step of that loop under a mapping that counts the
granules in every queue, frame and buffer.

Abstracted: the bytes of a message, and how incoming messages are cut (a frame
lists the messages it completes; the cuts are in `RequestPath`). A write-data
message has one size. The requests the initiator will send are a constant.

### AouFrames

A frame is a sequence of granules, and a granule tells which part of which
message it is and whether its `MsgStart` bit is set. `Fits` and `CutOff` split a
message as `pack_fragment` does; `Decoded` is `AouStreamDecoder`, which trusts
the start bits and the length in a message's first granule and carries an
unfinished message into the next frame. If it ever put granules together that do
not belong together, `refused` would tell.

### RequestPath and RequestHistory

The AW, W and AR threads of the bridge with `FlitPacker`. All wait for the same
clock edge and see what the others wrote at the edge before, so `Edge` is one
step: `AwThread`, `WThread`, `ArThread` and `Packer` are conjoined, and a FIFO
shows writes and freed places at the next edge only, like an `sc_fifo`.

* `awReady`, `wReady` and `arReady` are the registered ready signals: a transfer
  needs the one of the edge before. `routes` is `sig_write_route_fifo`, `route`
  the W thread's current entry.
* `PackCycle` folds `PackOne` over the slots of one edge: fill the staging
  slots, choose (`Candidate`), pay and cut (`Consume`). `Resume` puts the rest of
  a cut message at the start of the next frame.
* `Decide` is what becomes of the frame under construction when the output
  register is free: flush with a header grant, wait, or a frame with a CrdtGrant.
  The two grants are the actions of `CreditLoop`, taken by INSTANCE.
* The surroundings: the link comes up and takes frames from the FIFO or does not,
  AXI offers transfers or does not; `PeerGrant` gives credits for what has been decoded, `Return` is a
  response that has been accepted.

* `Transfer` is the sending half of a turn of `UcieAouAdapter`: the ready signal it
  promises an edge ahead, the FIFO at the link's port (`fdi`) and the gate on the
  link state. `tick` tells edges apart; fairness is stated on it.

`RequestHistory` adds how often a message was passed over.

### ResponsePath

`FlitUnpacker`, the B and R threads, and the order guards of both directions.
`Edge` is again one clock edge: `ToRoute` is the frame held or the one that comes
in, `Routed` how many of its messages find a place once its credit events are
through, `Threads` the registers of B and R with their rotation, the retirement
of IDs and the return of credits. `Accept` is `RpOrderGuard::bind`. The target
keeps its promise (requests of one ID in one plane are answered in order), which
`AnsweredInOrder` checks of the real one.

The guard does not stop a conflict, it reports it. `OrderKeptOrReported` says
that AXI's order holds unless it has; without the condition TLC finds the order
broken, so the property is not empty.

### The gem5 system: UnifiedTimingMemory, CoralNpu, VortexGpgpu, HetAxiMonitor, HetSystem

`HetSystem` composes the four others by EXTENDS: each action of the system is an
action of a device with what it makes the memory, the monitor or the bus do.

* `UnifiedTimingMemory`: `Accept` and `Refuse` are the two outcomes of
  `recvTimingReq`, `Release` is `release()` with its retry, `Dequeue` and
  `RecvRespRetry` send the first response, which the port takes or refuses.
  `Place` is the search from the back of the queue. It stops at an entry of the
  same address: `matchAddr` compares the exact address and the secure bit, not the
  block, so packets to two addresses of one block may overtake each other. Times are ticks that are left;
  `Elapse` lets one pass when no event is due.
* `CoralNpu`: `NpuIssue` is `issueRead` or `issueWrite`, `MemoryComplete` the end of
  a DMA operation with the retirement it makes possible.
* `VortexGpgpu`: the CP tick event starts or resumes the coroutine, which runs to
  its next DMA operation (`CpAccess`), to the end of a tick that launches a
  kernel (`CpLaunch`), polls (`CpPoll`) or retires (`CpRetire`). `Doorbell`,
  `DmaComplete` and `KernelEnds` schedule the same event. libvortex is external:
  a command is a number of accesses with or without a kernel.
* `HetAxiMonitor`: what is written into a trace is only its time. `LogAtomic` keeps
  the end of an atomic access back, `Due` are those whose time has come when the
  next event of the source is logged.
* `HetSystem`: the CPU makes atomic accesses first, then the system is switched to
  timing. The bus keeps the order of requests and returns responses in any order.

### The AXI demo: AxiMaster, AxiRam, AouFabric, MemSimBackend, AxiDemo

Master and RAM each have one clocked method that runs top to bottom, so a tick is
a composition of functions on a record (`MasterTick`, `Shaken` and `Landed`).
`AxiDemo` joins them: its `Tick(hs)` is a clock edge at which the channels in `hs`
shake hands; both sides see the pins of before.

* `AxiMaster`: `Split` is `split()`, `FreeId` the cyclic search for an ID; a
  transaction is cut into segments, which run one after the other.
* `AxiRam`: data may come before its address; B and R follow from the queues.
* `AouFabric`: the cursors of `aou_backend.cc`. Bridge, link and target between
  its two ends are external here and do what their own modules promise: the order
  within a plane and direction, nothing lost, anything overtaking across planes.
* `MemSimBackend`: `MemCycle` is one turn of `run()`; the simulator takes or
  refuses a child and completes children as it likes, with success or without. A
  child that completes with a status above one turns the answer of its whole burst
  into an error (`InError`, `memsim_backend.cc:88`). SLVERR and DECERR are one
  `error`, for the master tells only OKAY from the rest.

A byte is followed by its place: `moved` lists, for each transaction, the offset
in the payload and the address in memory of each byte as it moves. The bytes
themselves are not modelled. Bursts that overlap belong to different transactions: their
order is judged from the bursts in the memory bridge (`OverlapsInOrder`).

## Runs

| Run | Question | Bounds and why they suffice |
|---|---|---|
| `UcieLinkDir_safety` | order, exactly once, early release, verdict, refinement | numbers modulo 4, a window of 2 (the largest allowed) and five flits, so the number wraps; every FIFO holds one entry, so every writer blocks; the timer may be early |
| `UcieLinkDir_liveness` | delivery and acknowledgement | three flits through a window of two: full window, replay, lost last frame |
| `UcieLinkDir_nak` | the documented answer to a NAK | as above; violated, see Findings |
| `CreditLoop` | conservation and starvation | two planes, a two-bit field, capacity 5: granted as 4 and 1, so rounding and remainders occur |
| `AouTarget` | overflow, pairing, matching, slots, order, shutdown, credits | three writes of two IDs (one burst) and a read burst; two request slots, two outstanding transactions, FIFOs of one, frames of three granules with replies of two, so that replies are cut and every limit is reached |
| `AouTarget_planes` | credits of responses, every request answered | two planes with reads and a write, capacity for one request each |
| `RequestPath` | overflow, order, cuts, payment | a burst of three beats with full and partial strobes in plane 0 and a write in plane 1; every FIFO holds one entry, a beat of four granules is cut over two frames of three; the peer has room for one message of each cell; `FlushTimeout` 1, so a frame waits for more |
| `RequestPath_live` | waiting for own credits only, buffers promised once, grants get out, the adapter keeps its ready | a write and a read in two planes, one granule of response buffer; a FIFO of one frame at the link's port, which is full when the link is slow; the link is in training first |
| `RequestHistory_turns` | the documented rotation | three writes in two planes and a read, one message packed per edge; violated, see Findings |
| `ResponsePath` | order, head-of-line blocking, order guard | FIFOs of one message, two granules of read data cut over frames of three; one ID used in both planes, one message and one credit event routed per edge, so frames are held |
| `HetSystem` | wake-ups, order of addresses and AXI IDs, traces, every access answered | four workloads: the NPU with two reads of one ID, a third and a write against a write-back; the GPU with a kernel and a command posted meanwhile; the host with three atomic accesses of delays 0, 1, 3 before its timing ones; all three at once. Two addresses, delays 0 and 2, latency and duration 1: so requests are refused, responses wait in a different order than they came, and ends of atomic accesses are overtaken. 166 513 states |
| `AxiDemo` | each byte moved once, statuses, order of overlapping bursts, assertions, handshakes, every transaction answered | beats of 1 or 2 bytes, bursts of at most 3 beats that do not cross multiples of 4, memory addresses 2 to 9; six setups: RAM with stalls, RAM with errors, AoU path with three overlapping transactions, with errors, with failures, and with reads of two planes; where failures are enabled (errors, failures) the simulator may fail any child: the setup has a write in two segments and a read of two children, so either may fail first or last; 3 slots for 3 IDs, 2 slots in the memory bridge, FIFOs of one. So transactions have several segments, bursts several children, IDs are used again, every queue fills. 273 362 states |

`CHECK_DEADLOCK FALSE` stands where the producer's bounded traffic comes to its
end. In `CreditLoop` it is not needed: credits can always move on. `HetSystem` ends
when gem5 exits, `AxiDemo` when the program of transactions is done.

Every property has a mutant in `PROJECT.json`: an operator changed as a
plausible bug would change the code, under which TLC finds the property
violated.

### Fairness

* Link: weak fairness of every thread step, because the kernel runs each thread
  that can run and simulated time passes; of `FdiRead`, because the
  consumers at the FDI port keep reading; strong fairness of each
  uncorrupted transmission, because errors are drawn at random with a rate below
  one. Nothing is assumed of the producer.
* Credits: weak fairness of `TakeHeaderGrant` only. `AouTarget::transmit` sends
  a frame with a grant even when it has no message.
* Target: weak fairness of the clock edge. The surroundings have strong fairness:
  they can move only between two edges, but there they get their turn again and
  again, as an edge takes no time in the simulation.
* Bridge: the clock runs (`ClockRuns`), and the link comes up and takes what is in
  its FIFO (`LinkTakes`), which `UcieLinkDir_liveness` shows of the link. Nothing
  is assumed of the AXI master nor of the peer's grants.
* gem5 system: weak fairness of each event, because gem5 serves its event queue in
  order of time; the port that refused a response takes it in the end.
* Demo: the clock runs (`aclk` alternates); a channel on which a handshake is
  possible again and again has one, because the stall patterns are periodic; the
  memory simulator again and again has a cycle in which it refuses nothing and
  has completed what it took; and gem5's bridge, the link and the path make
  progress (weak fairness of `Quick`).

### Findings

`MODELING_AND_VERIFICATION.md` 4.5.4 says that after `NAK(n)` the sender starts
again from the first unacknowledged flit at or after `n`. When the NAK arrives
while a replayed frame is being serialised, `ucie_link.h:109` overwrites the
cursor, and the frames before it wait for another NAK or for the timer. The run
`UcieLinkDir_nak` shows it. The liveness run shows that they still arrive.

The comment at `flit_packer.cpp:187` says that within each kind of request the
planes take turns. There is one pointer for all kinds, and a read moves it too
(line 215), so a write request with credit may be passed over by another plane's
writes more than once. The run `RequestHistory_turns` shows it.

## Proofs

The proofs hold for every value of the constants that satisfies the named
assumptions, which TLC evaluates in the runs.

| Module | About | Theorems |
|---|---|---|
| `UcieLinkDirProofs` | a link direction | `Invariance`, `TypeCorrect`, `ExactlyOnce`, `NothingReleasedEarly`, `VerdictSound`, `LinkImplementsFifo` |
| `CreditLoopProofs` | the credits of one direction | `CreditInvariance`, `CountersInRange`, `CreditsConserved`, `BuffersSuffice` |
| `AouTargetProofs` | the target with initiator, link and memory | `RequestCreditsGoRound`, `ResponseCreditsGoRound`, `OutstandingCountIsExact`, `QueuesStayInTheirBounds`; its order: `OrderInvariance`, `ResponsesFindTheirTickets`, `BurstsGetTheirBeats`, `ResponsesAreInOrder`, `IdleTargetIsDone` |
| `AouFramesProofs` | cutting messages into frames and decoding them | `DecodedIs` |
| `ResponsePathProofs` | the bridge's response side | `PathInvariant`, `ArriveInOrder`, `NeverBlocked`, `GuardExact`, `AxiOrder`, `PathTypeOK` |
| `RequestPathProofs` | the bridge's request side | `RequestInvariance`, `NothingIsLost`, `MessagesArePaidFor`, `RequestTypeInvariant`, `GrantsStayConserved`, `AdapterNeverOverruns` |
| `HetSystemProofs` | memory, NPU and GPU of the gem5 system | `MemInvariance`, `NoMemoryWakeupLost`, `SameAddressOrderKept`, `NpuInvariance`, `IssueOrderKept`, `NpuTypeCorrect`, `GpuInvariance`, `NoCpWakeupLost` |
| | the composed gem5 system | `HetImplementsMemory`, `HetImplementsNpu`, `HetImplementsGpu`, `ContractsInSystem`, `HetInvariance`, `NothingOutstandingIsLost`, `TracesStayWellFormed` |
| `FoldLemmas` | sums over functions and queues, flattening, and folds over sequences | lemmas only |

Of the 28 invariants the passing runs check, these are proved for every value of
the constants: `InOrderExactlyOnce`, `ReleasedWereDelivered`, `Conservation`,
all six of `AouTarget` (`TypeOK`, `BeatsArePaired`, `ResponseFindsItsTicket`,
`OutstandingIsExact`, `AnsweredInOrder`, `IdleMeansDone`), `GrantsAreConserved`, `ReadyHoldsItsPlace`, `NoWakeupLost`,
`SameAddressInOrder`, `RetiresInIssueOrder`, `ResumedExactlyWithData`,
`TraceIsWellFormed` and `OutstandingIsOnTheWay`, all five of `ResponsePath`
(`TypeOK`, `ResponsesArriveInOrder`, `NoHeadOfLineBlocking`, `GuardIsExact`,
`OrderKeptOrReported`) and those of `RequestPath` (`TypeOK`,
`NothingLostOrReordered`, `PaysForMessages`); and of the temporal ones
`ImplementsFifo`, `KeepsRequestCredits` and `KeepsResponseCredits`.

### The link direction

None of the invariants is inductive alone: exactly-once
delivery depends on the verdict on a truncated number, and that verdict is right
only if no frame in the channel is too old. The inductive invariant `IInv` adds

* `RetryIsWindow`: the retry buffer holds the last numbers handed out, without
  a gap, and starts at or before the expected number;
* `ReceiverInv`: what `RxAdapter` has delivered and expects at each of its
  blocking points;
* `PipeInv`: a frame in the three FIFOs differs by at most a window from the
  expected number and from every frame ahead of it;
* `SerialInv`: the same of the frame being serialised;
* that every ACK on its way acknowledges only what has been delivered.

The pipe of three FIFOs is seen as one sequence (`PipeSeq`), so that moving a
frame from one FIFO to the next changes nothing. The mapped behaviour is that of
`ReliableFifo` with a flit sent when it enters the retry buffer. `LinkAssumption`
is what `require_valid_config` enforces.

### The credit loop

Range and conservation are inductive only together: conservation keeps each sum
below its cut-off, and without a cut-off nothing is lost. `EncodedIsOwed` shows
that a grant never exceeds what is owed. The constructor of `CreditManager` does
not check that a capacity fits the counter, which `CreditAssumption` asks; the
capacities in the code (at most 621) do. `CreditCounterMax` is that limit.

### The target: credits and slots

`Typed` gives every variable its type and is inductive alone. Then every step of
the target, its initiator, the link and the memory is shown to be a step of
`CreditLoop` or to leave the loop as it is, once for requests and once for
responses: a refinement, step by step. The granules on the link are sums over its
frames, so each step needs a lemma on what it does to a sum (`FoldLemmas`). What
`CreditLoopProofs` proves of the loop then holds in the target by INSTANCE, and
from conservation follow the bounds of its queues (`QueuesStayInTheirBounds`):
they never hold more than the credits pay for, so the checks at
`aou_target.h:110-120` never fail.

`OutstandingCountIsExact` counts the slots of MAX_OUTSTANDING: one for each ticket,
each transaction with responses to send and the one whose last response waits in
the spill. It is inductive with `Typed` and with what `completes` says of the spill.

`TargetAssumption` asks that a message of each kind fits its buffer, that
capacities fit the counter and that requests are finite sequences; the code's
parameters do.

### The target: order

The link holds, for each cell, a stretch of the initiator's program. `Carries` says
so with an offset for each frame, and `Taken(c, n)` that the target has taken the
first `n` messages. On it rest four invariants.

* `Sequences` follows the numbers of the requests into the target's queues: those that
  wait are the last ones taken, in order, and the tickets are of numbers before.
* `Pipe` says that the tickets are exactly those of what is in the memory and in the
  FIFOs to it, that each of the four queues has each group in order, and that of one
  group responses are older than what is in service, and that older than what
  waits. The memory breaks the order between groups as it likes; all that is used of
  it is its contract for one group. So the first ticket of the group of the response
  in front is its own (`ResponsesFindTheirTickets`), although the code compares
  direction, plane and ID only.
* `Bursts` joins the two streams of a plane's writes. `Beats` is the plane's write data,
  the bursts one after the other, so that each beat follows from the one before
  (`NextBeat`, which `BeatsFollow` proves by induction over the bursts). `Stream` says
  that what waits in `data` are the last beats taken. `Jobs` says that of the writes
  that wait the first `p` are complete, the ones behind the next are empty, and the
  beat to come next is the one that the write behind those `p` lacks. `JobsJoin`,
  `JobsGetBeat` and `JobsLeave` are the three things that happen to them, in any order:
  a request arrives before or after its data, a beat is dealt, a write is submitted.
  `BurstsGetTheirBeats` follows.
* `AnswerInv` accounts for every response of a cell. `Left` is what has left: received, in
  the frames on the link, in the frame being packed and, last, in the spill, so that
  packing a message appends to it, cut or not, and sending, cutting and receiving move
  things inside it. `Submitted` counts the requests submitted (`Counted` gives the
  number that `Sequences` only says exists). Of these, a response has left exactly when
  its request has no ticket and is not waiting in `replies` with that beat or an
  earlier one to send (`Gone`); and of one ID what waits in `replies` is in order and
  before what has a ticket. Three lemmas say what the steps do to this:
  `SubmitAnswers`, `CollectAnswers`, which needs that a ticket collected is the first
  of its ID (`Pipe`), and `PackAnswers`, by which the message packed next is the one
  AXI's order asks for. `ResponsesAreInOrder` follows because what has been received is
  the beginning of `Left`; and `IdleTargetIsDone` because `outstanding_` counts tickets
  and replies: when it is 0 and nothing is cut or waits, every response to a request
  taken is `Gone`.

### The bridge

`GrantsStayConserved`: what is owed, granted in the output register, held by the peer
and about to be returned adds up to the response buffers, and each edge only moves it
from one to another. No counter reaches its cut-off, because `RequestPathAssumption`
asks that capacities fit the counter, as the code's do. The two kinds of grant are
those of `CreditLoop`, whose lemmas are cited by INSTANCE. `AdapterNeverOverruns` is
inductive with the contents of the FIFO: the ready of an edge ago is a place that only
the adapter itself can use.

### Frames and the decoder

`AouFrames` is written with folds over sequences: over the granules of a frame for
the decoder (`WithGranule` for each) and for the messages that end in them, and over
messages for those of a cell. `FoldLemmas` takes the step of a fold as a constant
operator and shows what the fold of the empty sequence and of a sequence with one
element more are; `AouFramesProofs` instantiates it three times.

`DecodedIs` is about any stream of messages of any sizes, cut anywhere: if what the
decoder carries together with what is in the stream is a whole number of messages,
laid end to end (`Chain`), then a frame cut from it is not refused, gives exactly the
messages that end in it, and leaves a carry with which the rest is again such a
stream. `MsgStart` is right because only the first granule of a message has it.
`CutIs` says that the frame and what is cut off are the stream.

### The requests of the bridge

`PathInv` says of each cell (plane and kind) two things: that one list is kept, and
one sum.

* The list: what the peer's decoder has handed on, what ends in the granules on their
  way (`OnTheWay`: output register, frame under construction, spill), what is in the
  staging slot and in the FIFO is, in this order, what AXI has handed over
  (`NothingLostOrReordered`). `Streams` adds that decoder and granules together are
  whole messages, so `DecodedIs` applies to each frame the link takes. A frame that
  goes out before it is full ends with a message (`OutputWhole`, `PackerTyped`).
* The sum: the granules granted are those on hand and those the messages packed have
  cost (`PaysForMessages`). A message is paid for when it is cut, so the cut ones
  count, sent or not. `GrantedInBounds` bounds the grants by the peer's buffers and
  what it has had out of them, which is why no counter ever reaches its limit.

An edge is proved in two halves. The packer works on the FIFOs of before the edge,
and each turn of its fold moves messages from FIFO to slot to granules and pays for
them (`Packing`, with `Worth` the credits on hand and those spent); `FoldLemmas`
carries that through any number of turns. The threads append to what the packer has
left; that a FIFO has a place is what the registered ready of an edge ago means
(`ReadyHasRoom`), as the packer only takes out. `ChannelInv` keeps W with the
routes of AW: `WriteFollows` says that the beat W is at is the next of `Beats`, so
that data goes to the plane of its own write.

`RequestPathAssumption` asks of the traffic that its bursts have at least one beat,
of sizes and depths that they are positive, and that capacities fit the counter.

### The responses of the bridge

`PathInv` has three parts.

* `Arriving`: types; `Streamed`, that carry and stream are messages end to end, so
  that `DecodedIs` applies; `ResponsesArriveInOrder` itself; and `AtTarget`, which
  says how the requests accepted stand before the target: `Queued` (those of a cell
  still to answer are accepted, of that cell, in order, and none twice),
  `EarlierFurther` and `SentIsBegun` (of one ID in one plane the earlier request is
  further), `SentInOrder` (so their beats were sent in order, each once).
* `Paid`: the credits of a cell are worth the places of its FIFO less the messages sent
  and not yet accepted by the master, and these never exceed the places. With it `NeverBlocked` holds: what is in the FIFO and in the
  frame held was paid for out of the places of the FIFO. So does the place for a
  message at routing, and with it the type invariant (`PathTypeOK`).
* `Ordered`: `GuardIsExact`, `OrderKeptOrReported`, and `PlaneKept`, which is what joins
  them: as long as nothing was reported, a request that is not finished is in the
  plane of all later ones of its ID. Requests of one ID under way are therefore in
  one cell, where the order of the stream is that of the requests.

No part is inductive without the others: the guard counts an end that has to be the
end of the right request (`Arriving`), and the order at the master needs the guard.
The proof goes thread by thread through an edge; what it takes from the FIFOs and
puts into them is joined in `ResponsesArriveInOrder`, cell by cell.
`ResponsePathAssumption` asks only that sizes, depths and numbers are positive and
that the requests are a finite sequence for each kind.

### The gem5 components

* Memory: `MemInv` joins wake-ups and order with the types and with `QueuedBefore`:
  what is queued arrived earlier than what will come. `PlaceExists` and the lemmas
  on insertion show that the search from the back of the queue ends at a place, and
  that nothing of the same address is behind it.
* GPU: no wake-up of the CP is lost, for any sequence of commands and kernels;
  inductive with the types.
* NPU: the invariant `NpuInv` adds that each queue holds transactions of its ID and
  direction (`Queued`), oldest first (`OldestFirst`), and that every transaction is in
  the queue of its ID (`Tracked`); without these a completion could retire what another
  queue still holds. `ReadyPrefix` shows that the count of transactions to retire
  exists and what it means.

### The composed system

`HetImplementsMemory`, `HetImplementsNpu` and `HetImplementsGpu` prove, action by
action, that the composed system does to each part only what the part's own
specification allows, so that what is proved of a part holds in the system
(`ContractsInSystem`). `HetInv` adds where the packets are: `Traffic` says that every
packet that expects an answer is in one place on its way, once, and `NpuClaims`,
`CoreClaims`, `CpClaims` and `HostClaims` say of each source that these packets are what
it waits for (`TokensUsed` keeps the names of the GPU's accesses apart).
`NothingOutstandingIsLost` follows. `TracesStayWellFormed` needs of the monitor that the
last record is not later than the present, that the ends kept back are in order and not
before the last record, and that each ID in use belongs to a request on its way or an
end kept back. `HetAssumption` fixes the three sources and the kinds of packets, of
which write-backs alone expect no response, and lets workloads and delays be any.

### What is model-checked only

* Liveness: it needs fairness and ENABLED, which the prover cannot reason about.
* The demo: its three invariants (`BytesArriveInOrder`, `AnsweredWithItsStatus`,
  `ContractsHold`) and `HandshakeStable`. They are about master, memory and fabric together, and no
  invariant over the tables of all of them has been worked out.

## Not modelled

* The link's timing (only the order of events), the numerical part of the physical
  layer, statistics and tracing. A failed link or a `SC_REPORT_FATAL` stops the
  simulation, so the models have no state for it.
* Input that violates AXI or the message format, at which the program stops.
* A reset in the middle of traffic: only a reset of both sides together is
  supported, and it leads back to `Init`.
* The receiving half of the adapter as a register of its own; byte coding.
* In the gem5 system: drain and checkpoints, functional accesses, packets without
  duration, the standalone and the untimed mode of the Vortex device, the
  register files, and the contents of memory.
* In the demo: the event log and statistics of the memory bridge, byte enables, and
  with them the errors the memory bridge gives to exclusive accesses and to strobes
  outside their lanes, which the master never sends; whether the simulator's memory
  holds the bytes of a write it failed.
* Ramulator2 and DRAMPower are third-party DRAM simulators kept in the repository,
  by far its largest part; the system reaches them through `MemSimBackend`, where
  they are the environment. The storage-chain RTL, the trace file format with its
  readers, and the build and plotting scripts have no protocol logic of their own
  or belong to separate experiments. Test benches are read, not modelled. These
  parts together are most of the repository's lines.

## Plan

1. Link direction with its abstract FIFO and proofs: done.
2. Credit loop with proofs; target over two credit loops: done.
3. The bridge: requests, responses, order guard, cutting of messages, the adapter's
   sending half: done.
4. The gem5 system with its memory, devices and monitor; proofs of memory and
   devices: done.
5. The AXI demo with master, RAM, AoU fabric and memory bridge: done.
6. Proofs of the target (all its invariants and both credit loops), of the
   bridge's requests and responses, its grants and adapter, of the decoder, and of the
   composed gem5 system with its traces: done.
7. Proofs still worth having: the invariants of the demo; the order of completion of
   `MemSimBackend`.
8. Models still worth having: drain of the memory and the devices; the Vortex
   device's standalone mode.
