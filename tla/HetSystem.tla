----------------------------- MODULE HetSystem -----------------------------
(***************************************************************************)
(* The gem5 system: host, CoralNPU and Vortex reach the unified memory     *)
(* through one bus and the AXI monitor, each from its own events.          *)
(*                                                                         *)
(* The CPU first runs with atomic accesses; the first CP register write    *)
(* switches to timing accesses.  The bus and the DMA ports are external:   *)
(* requests reach the memory in the order in which they were issued,       *)
(* responses return in any order.                                          *)
(***************************************************************************)
EXTENDS UnifiedTimingMemory, CoralNpu, VortexGpgpu, HetAxiMonitor

CONSTANTS
  Workloads,      \* [atomics, host, npu, gpu]: what the sources do
  AtomicDelays    \* the service delays of atomic accesses

\* What the sources do, command by command and handshake by handshake.
Workload == [atomics : Nat, host : Seq({"load", "writeback"}),
             npu : Seq([dir : Direction, id : AxiId]), gpu : Seq(Command)]

ASSUME HetAssumption ==
  /\ Kind = Direction \cup {"cp", "core", "load", "writeback"}
  /\ PostedKind = {"writeback"}
  /\ Workloads \subseteq Workload /\ AtomicDelays \subseteq Nat
  /\ Source = {"Host", "Vortex", "CoralNpu"}

VARIABLES
  work,        \* what is left of the workload: the atomic accesses and the
               \* loads and write-backs of the host, the handshakes of the
               \* NPU core, the commands for the GPU
  timing,      \* mem_mode is "timing"
  bus,         \* packets on the way to the memory
  returning,   \* responses on the way back
  hostLoads,   \* loads the host waits for
  closed       \* the simulation has ended

hetVars == <<work, timing, bus, returning, hostLoads, closed>>
vars == <<memVars, npuVars, gpuVars, monVars, hetVars>>

HetInit == /\ MemInit /\ NpuInit /\ GpuInit /\ MonInit
           /\ work \in Workloads
           /\ timing = FALSE /\ bus = <<>> /\ returning = {}
           /\ hostLoads = 0 /\ closed = FALSE

SourceOf(p) == CASE p.kind \in Direction      -> "CoralNpu"
                 [] p.kind \in {"cp", "core"} -> "Vortex"
                 [] OTHER                     -> "Host"

Issue(kind, n) == bus' = Append(bus, [kind |-> kind, n |-> n])

-----------------------------------------------------------------------------
\* Host.
HostAtomic(delay) ==
  /\ ~timing /\ work.atomics > 0
  /\ work' = [work EXCEPT !.atomics = @ - 1]
  /\ LogAtomic("Host", delay)
  /\ UNCHANGED <<memVars, npuVars, gpuVars, timing, bus, returning, hostLoads, closed>>

SwitchToTiming ==
  /\ ~timing /\ work.atomics = 0
  /\ timing' = TRUE
  /\ UNCHANGED <<memVars, npuVars, gpuVars, monVars, work, bus, returning, hostLoads, closed>>

\* A load (of which the CPU has one outstanding) or a write-back.
HostSend ==
  /\ timing /\ work.host # <<>>
  /\ Head(work.host) = "load" => hostLoads = 0
  /\ Issue(Head(work.host), Len(work.host))
  /\ hostLoads' = IF Head(work.host) = "load" THEN hostLoads + 1 ELSE hostLoads
  /\ work' = [work EXCEPT !.host = Tail(@)]
  /\ UNCHANGED <<memVars, npuVars, gpuVars, monVars, timing, returning, closed>>

HostRings ==
  /\ timing /\ work.gpu # <<>>
  /\ Doorbell(Head(work.gpu))
  /\ work' = [work EXCEPT !.gpu = Tail(@)]
  /\ UNCHANGED <<memVars, npuVars, monVars, timing, bus, returning, hostLoads, closed>>

HostStartsNpu ==
  /\ timing /\ work.npu # <<>> /\ LoadAndStart
  /\ UNCHANGED <<memVars, gpuVars, monVars, hetVars>>

-----------------------------------------------------------------------------
\* NPU: the core runs until it has made its handshakes.
NpuTick ==
  /\ IF work.npu # <<>>
       THEN LET a == Head(work.npu)
                rest == Tail(work.npu)
            IN /\ NpuIssue(a.dir, a.id, rest # <<>>)
               /\ Issue(a.dir, nextAxiSequence)
               /\ work' = [work EXCEPT !.npu = rest]
       ELSE NpuHalts /\ UNCHANGED <<bus, work>>
  /\ UNCHANGED <<memVars, gpuVars, monVars, timing, returning, hostLoads, closed>>

-----------------------------------------------------------------------------
\* GPU.
CpTick ==
  /\ \/ CpAccess /\ Issue("cp", 0)
     \/ (\E busy \in BOOLEAN : CpLaunch(busy) \/ CpPoll(busy)) /\ UNCHANGED bus
     \/ CpRetire /\ UNCHANGED bus
  /\ UNCHANGED <<memVars, npuVars, monVars, work, timing, returning, hostLoads, closed>>

VortexTick ==
  /\ \/ IssueCoreTiming /\ Issue("core", nextToken)
     \/ KernelEnds /\ UNCHANGED bus
  /\ UNCHANGED <<memVars, npuVars, monVars, work, timing, returning, hostLoads, closed>>

-----------------------------------------------------------------------------
\* Memory side: the monitor writes what the memory accepts and answers.
Request(delay) ==
  /\ bus # <<>>
  /\ LET p == Head(bus) IN
       /\ Accept(p, delay)
       /\ IF p \in Posted THEN LogPosted(SourceOf(p)) ELSE LogRequest(p, SourceOf(p))
  /\ bus' = Tail(bus)
  /\ UNCHANGED <<npuVars, gpuVars, work, timing, returning, hostLoads, closed>>

RequestRefused ==
  /\ bus # <<>> /\ Refuse
  /\ UNCHANGED <<npuVars, gpuVars, monVars, hetVars>>

MemRelease == Release /\ UNCHANGED <<npuVars, gpuVars, monVars, hetVars>>

Respond(taken) ==
  /\ Dequeue(taken) \/ RecvRespRetry(taken)
  /\ IF taken
       THEN /\ returning' = returning \cup {Head(packetQueue).pkt}
            /\ LogResponse(Head(packetQueue).pkt)
       ELSE UNCHANGED <<returning, monVars>>
  /\ UNCHANGED <<npuVars, gpuVars, work, timing, bus, hostLoads, closed>>

\* A response reaches its source.
Deliver(p) ==
  /\ p \in returning
  /\ returning' = returning \ {p}
  /\ \/ p.kind \in Direction /\ MemoryComplete(p.kind, p.n) /\ UNCHANGED <<gpuVars, hostLoads>>
     \/ p.kind = "cp" /\ DmaComplete /\ UNCHANGED <<npuVars, hostLoads>>
     \/ p.kind = "core" /\ CoreDmaComplete(p.n) /\ UNCHANGED <<npuVars, hostLoads>>
     \/ p.kind = "load" /\ hostLoads' = hostLoads - 1 /\ UNCHANGED <<npuVars, gpuVars>>
  /\ UNCHANGED <<memVars, monVars, work, timing, bus, closed>>

TimePasses == Elapse /\ MonElapse /\ UNCHANGED <<npuVars, gpuVars, hetVars>>

-----------------------------------------------------------------------------
\* Everything was issued and answered, and the devices are dormant.
Done ==
  /\ timing
  /\ work.host = <<>> /\ work.npu = <<>> /\ work.gpu = <<>>
  /\ bus = <<>> /\ packetQueue = <<>> /\ returning = {} /\ hostLoads = 0
  /\ \A dir \in Direction : txns[dir] = <<>>
  /\ commands = <<>> /\ ~cpTickEvent /\ ~vortexTickEvent /\ ~npuTickEvent

Exit == /\ Done /\ ~closed
        /\ closed' = TRUE
        /\ CloseTrace("Host")
        /\ UNCHANGED <<memVars, npuVars, gpuVars, work, timing, bus, returning, hostLoads>>

HetNext ==
  \/ \E delay \in AtomicDelays : HostAtomic(delay)
  \/ SwitchToTiming \/ HostSend \/ HostRings \/ HostStartsNpu
  \/ NpuTick \/ CpTick \/ VortexTick
  \/ \E delay \in Delays : Request(delay)
  \/ RequestRefused \/ MemRelease
  \/ \E taken \in BOOLEAN : Respond(taken)
  \/ \E p \in returning : Deliver(p)
  \/ TimePasses
  \/ Exit

\* Every event in gem5's queue comes to its turn, and the port that refused a
\* response takes it in the end.
Fairness ==
  /\ WF_vars(\E delay \in AtomicDelays : HostAtomic(delay))
  /\ WF_vars(SwitchToTiming) /\ WF_vars(HostSend) /\ WF_vars(HostRings)
  /\ WF_vars(HostStartsNpu) /\ WF_vars(NpuTick)
  /\ WF_vars(CpTick) /\ WF_vars(VortexTick)
  /\ WF_vars(\E delay \in Delays : Request(delay)) /\ WF_vars(MemRelease)
  /\ WF_vars(Respond(TRUE)) /\ WF_vars(\E p \in returning : Deliver(p))
  /\ WF_vars(TimePasses) /\ WF_vars(Exit)

HetSpec == HetInit /\ [][HetNext]_vars
HetFairSpec == HetSpec /\ Fairness

-----------------------------------------------------------------------------
\* Every access of every source is answered: no request is forgotten between
\* the bus and the busy memory, no response in its queue, no CP tick between
\* the end of an operation, a doorbell and the end of a kernel.
EverythingCompletes == <>closed

\* What a device believes to be outstanding is on its way, once: an NPU
\* transaction that is not done, the CP operation, a core token and the load
\* of the host each have one packet on the bus, in the memory or on the way
\* back, and no other packet exists that expects an answer.
OnTheWay == {bus[i] : i \in {j \in DOMAIN bus : bus[j] \notin Posted}}
            \cup DOMAIN senderState \cup returning
Expected == {[kind |-> dir, n |-> s] : dir \in Direction, s \in 0 .. nextAxiSequence}
NpuWaits == {p \in Expected : p.n \in DOMAIN txns[p.kind] /\ ~txns[p.kind][p.n].memoryDone}

OutstandingIsOnTheWay ==
  /\ {p \in OnTheWay : p.kind \in Direction} = NpuWaits
  /\ {p.n : p \in {q \in OnTheWay : q.kind = "core"}} = coreDmas
  /\ activeCpDma <=> \E p \in OnTheWay : p.kind = "cp"
  /\ hostLoads = Cardinality({p \in OnTheWay : p.kind = "load"})
  /\ {packetQueue[i].pkt : i \in DOMAIN packetQueue} = DOMAIN senderState
=============================================================================
