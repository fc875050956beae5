---------------------------- MODULE ReliableFifo ----------------------------
(***************************************************************************)
(* What one direction of the UCIe link promises to the two FDI ports it    *)
(* joins: flits come out in the order in which they went in, none is lost, *)
(* none is repeated, and no more than Capacity of them are inside at once. *)
(* UcieLinkDir implements this specification with Capacity equal to the    *)
(* size of its retry buffer.                                               *)
(***************************************************************************)
EXTENDS Naturals, Sequences

CONSTANTS
  Flit,      \* the flits a producer can hand to the link
  Capacity   \* how many accepted flits may be undelivered at once

VARIABLES
  sent,      \* every flit accepted so far, oldest first
  delivered  \* every flit handed to the consumer so far, oldest first

vars == <<sent, delivered>>

TypeOK == /\ sent \in Seq(Flit)
          /\ delivered \in Seq(Flit)

Init == /\ sent = <<>>
        /\ delivered = <<>>

Accept == /\ Len(sent) - Len(delivered) < Capacity
          /\ \E f \in Flit : sent' = Append(sent, f)
          /\ UNCHANGED delivered

Deliver == /\ Len(delivered) < Len(sent)
           /\ delivered' = Append(delivered, sent[Len(delivered) + 1])
           /\ UNCHANGED sent

Next == Accept \/ Deliver

Spec == Init /\ [][Next]_vars

FairSpec == Spec /\ WF_vars(Deliver)
=============================================================================
