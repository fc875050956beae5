------------------------------ MODULE CoralNpu ------------------------------
(***************************************************************************)
(* The CoralNPU device of the gem5 system.  Its core issues AXI reads and  *)
(* writes of one beat from the tick event; each becomes a DMA operation of *)
(* its own.  DMA operations complete in any order, the core must see the   *)
(* responses of one AXI ID in the order of issue, so a completion is held  *)
(* back until all older ones of its ID and direction are complete.         *)
(*                                                                         *)
(* The core and the DMA port are external.  An operation is named by its   *)
(* sequence number, which the DMA engine gets as the substream ID.         *)
(***************************************************************************)
EXTENDS Naturals, Sequences, FiniteSets

CONSTANTS
  AxiId      \* the AXI IDs the core uses

Direction == {"read", "write"}

VARIABLES
  npuStarted,       \* started_: set once, never cleared
  npuTickEvent,     \* is the tick event scheduled?
  nextAxiSequence,
  txns,             \* txns[dir]: sequence number |-> [axiId, memoryDone]
  orderById,        \* orderById[dir][id]: outstanding, oldest first
  issued, retired   \* history, per direction and ID: what the core issued
                    \* and what it got back

npuVars == <<npuStarted, npuTickEvent, nextAxiSequence, txns, orderById,
             issued, retired>>

NpuInit ==
  /\ npuStarted = FALSE /\ npuTickEvent = FALSE
  /\ nextAxiSequence = 0
  /\ txns = [dir \in Direction |-> <<>>]
  /\ orderById = [dir \in Direction |-> [id \in AxiId |-> <<>>]]
  /\ issued = orderById /\ retired = orderById

-----------------------------------------------------------------------------
\* REG_CTRL: a kernel is started once in the life of the device.
LoadAndStart == /\ ~npuStarted
                /\ npuStarted' = TRUE
                /\ npuTickEvent' = TRUE
                /\ UNCHANGED <<nextAxiSequence, txns, orderById, issued, retired>>

\* The core reports in a cycle without a handshake that it does not run on;
\* other such cycles change nothing here.
NpuHalts ==
  /\ npuTickEvent
  /\ npuTickEvent' = FALSE
  /\ UNCHANGED <<npuStarted, nextAxiSequence, txns, orderById, issued, retired>>

\* A cycle in which an AXI handshake completes.
NpuIssue(dir, id, running) ==
  /\ npuTickEvent
  /\ npuTickEvent' = running
  /\ nextAxiSequence' = nextAxiSequence + 1
  /\ txns' = [txns EXCEPT ![dir] =
                [s \in DOMAIN @ \cup {nextAxiSequence} |->
                   IF s = nextAxiSequence
                     THEN [axiId |-> id, memoryDone |-> FALSE] ELSE @[s]]]
  /\ orderById' = [orderById EXCEPT ![dir][id] = Append(@, nextAxiSequence)]
  /\ issued' = [issued EXCEPT ![dir][id] = Append(@, nextAxiSequence)]
  /\ UNCHANGED <<npuStarted, retired>>

\* Mutant: a completion retires one transaction at most.
ReadyFirst(order, done) == IF order[1] \in done THEN 1 ELSE 0

\* How many of the oldest transactions in a queue can retire.
Ready(order, done) ==
  CHOOSE n \in 0 .. Len(order) :
    /\ \A i \in 1 .. n : order[i] \in done
    /\ n < Len(order) => order[n + 1] \notin done

\* The DMA engine reports the end of operation s; the device retires what is
\* ready and keeps the rest.
MemoryComplete(dir, s) ==
  /\ s \in DOMAIN txns[dir]
  /\ ~txns[dir][s].memoryDone
  /\ LET id    == txns[dir][s].axiId
         order == orderById[dir][id]
         done  == {t \in DOMAIN txns[dir] : txns[dir][t].memoryDone} \cup {s}
         n     == Ready(order, done)
         gone  == {order[i] : i \in 1 .. n}
     IN /\ orderById' = [orderById EXCEPT ![dir][id] = SubSeq(order, n + 1, Len(order))]
        /\ retired' = [retired EXCEPT ![dir][id] = @ \o SubSeq(order, 1, n)]
        /\ txns' = [txns EXCEPT ![dir] =
                      [t \in DOMAIN @ \ gone |->
                         IF t = s THEN [@[t] EXCEPT !.memoryDone = TRUE] ELSE @[t]]]
  /\ UNCHANGED <<npuStarted, npuTickEvent, nextAxiSequence, issued>>

NpuNext ==
  \/ LoadAndStart \/ NpuHalts
  \/ \E dir \in Direction, id \in AxiId, running \in BOOLEAN :
       NpuIssue(dir, id, running)
  \/ \E dir \in Direction : \E s \in DOMAIN txns[dir] : MemoryComplete(dir, s)

NpuSpec == NpuInit /\ [][NpuNext]_npuVars

-----------------------------------------------------------------------------
\* Type correctness: every outstanding transaction is in the queue of its ID.
NpuTypeOK ==
  /\ npuStarted \in BOOLEAN /\ npuTickEvent \in BOOLEAN
  /\ nextAxiSequence \in Nat
  /\ \A dir \in Direction :
       /\ \A s \in DOMAIN txns[dir] :
            txns[dir][s] \in [axiId : AxiId, memoryDone : BOOLEAN]
       /\ \A id \in AxiId : orderById[dir][id] \in Seq(Nat)

\* Responses of one AXI ID reach the core in the order of issue, each once,
\* whatever the order in which the memory finishes; and a finished one waits
\* only for an older one of its own ID and direction.
RetiresInIssueOrder ==
  \A dir \in Direction, id \in AxiId :
    /\ issued[dir][id] = retired[dir][id] \o orderById[dir][id]
    /\ orderById[dir][id] # <<>> =>
         ~txns[dir][Head(orderById[dir][id])].memoryDone
=============================================================================
