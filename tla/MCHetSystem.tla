---------------------------- MODULE MCHetSystem ----------------------------
(***************************************************************************)
(* The system with small workloads, one chosen in the initial state.       *)
(***************************************************************************)
EXTENDS HetSystem

MCKind == Direction \cup {"cp", "core", "load", "writeback"}
\* Two addresses, which may be in one block: between them nothing keeps order.
MCAddrOf == [p \in Packet |-> p.n % 2]

Handshake(dir, id) == [dir |-> dir, id |-> id]
Run(accesses, kernel) == [accesses |-> accesses, kernel |-> kernel]

\* The NPU, whose reads of two IDs and write meet a write-back of the host; ...
NpuWork == [atomics |-> 0, host |-> <<"writeback">>,
            npu |-> <<Handshake("read", 0), Handshake("read", 1),
                      Handshake("read", 0), Handshake("write", 0)>>,
            gpu |-> <<>>]
\* the GPU, with a command posted while another runs; ...
GpuWork == [atomics |-> 0, host |-> <<>>, npu |-> <<>>,
            gpu |-> <<Run(2, 3), Run(1, NoLaunch)>>]
\* the host, with atomic accesses before timing ones; ...
HostWork == [atomics |-> 3, host |-> <<"load", "writeback", "load">>,
             npu |-> <<>>, gpu |-> <<>>]
\* all of them.
MixedWork == [atomics |-> 0, host |-> <<"load">>,
              npu |-> <<Handshake("read", 0)>>, gpu |-> <<Run(1, 1)>>]

MCWorkloads == {NpuWork, GpuWork, HostWork, MixedWork}
=============================================================================
