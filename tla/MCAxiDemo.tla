----------------------------- MODULE MCAxiDemo -----------------------------
(***************************************************************************)
(* Small setups of the demo, one chosen in the initial state.  Beats have  *)
(* up to two bytes, bursts do not cross multiples of four, and the memory  *)
(* has the addresses 2 to 9.                                               *)
(***************************************************************************)
EXTENDS AxiDemo

Gp(n, write, addr, len) == [n |-> n, write |-> write, addr |-> addr, len |-> len]

\* A write in two segments next to a read of odd addresses, then a write and
\* a read that use the IDs again.
Mixed == <<Gp(1, TRUE, 2, 4), Gp(2, FALSE, 5, 2), Gp(3, TRUE, 4, 3), Gp(4, FALSE, 4, 4)>>
\* A write that starts before the memory, one that is empty, and a read that
\* ends behind it.
Errors == <<Gp(1, TRUE, 1, 4), Gp(2, TRUE, 0, 0), Gp(3, FALSE, 8, 3)>>
\* Writes and a read over the AoU path, the first write in two segments.
Path == <<Gp(1, TRUE, 3, 4), Gp(2, FALSE, 4, 3), Gp(3, TRUE, 4, 3)>>
\* A write in two segments and a read of two children, any of which may fail.
Faults == <<Gp(1, TRUE, 3, 3), Gp(2, FALSE, 4, 4)>>
\* Reads of both planes.
Reads == <<Gp(1, FALSE, 2, 4), Gp(2, FALSE, 4, 4), Gp(3, FALSE, 6, 2)>>

Demo(backend, stalls, faults, program) ==
  [backend |-> backend, stalls |-> stalls, faults |-> faults, program |-> program]

MCSetups == {Demo("ram", TRUE, FALSE, Mixed), Demo("ram", TRUE, FALSE, Errors),
             Demo("aou", FALSE, FALSE, Path), Demo("aou", FALSE, TRUE, Errors),
             Demo("aou", FALSE, TRUE, Faults), Demo("aou", TRUE, FALSE, Reads)}
=============================================================================
