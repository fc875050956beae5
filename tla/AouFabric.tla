----------------------------- MODULE AouFabric -----------------------------
(***************************************************************************)
(* The AoU backend of the gem5 demo: its AXI side follows every burst with *)
(* a cursor, its far side is the burst memory.  What lies between (bridge, *)
(* link and target, modelled by RequestPath, UcieLinkDir, AouTarget and    *)
(* ResponsePath) is external here and does what those modules promise:     *)
(* the bursts of one resource plane and direction keep their order, others *)
(* may overtake, and nothing is lost.                                      *)
(***************************************************************************)
EXTENDS Integers, Sequences

CONSTANT Planes

Classes == (0 .. Planes - 1) \X {"read", "write"}
ClassOf(id, direction) == <<id % Planes, direction>>

None == -1

EmptyFabric ==
  [writes |-> <<>>,                        \* cursors: [ax, data]
   reads  |-> <<>>,                        \* ID |-> beats to come
   down   |-> [c \in Classes |-> <<>>],    \* bursts on the way to the target
   up     |-> [c \in Classes |-> <<>>],    \* responses on the way back
   b |-> None, r |-> None]                 \* the planes shown on B and R

-----------------------------------------------------------------------------
\* The cap of 1023 cursors is not modelled: the master has at most as many IDs.
WReady(f) == f.writes # <<>>

FabricReady(f) == {"AW", "AR"} \cup IF WReady(f) THEN {"W"} ELSE {}

FabricBValid(f) == f.b # None
FabricB(f) == LET rsp == Head(f.up[<<f.b, "write">>]) IN
  [id |-> rsp.id, error |-> rsp.error]

\* A beat of a read holds the bytes that the memory had when it answered.
FabricRValid(f) == f.r # None
FabricR(f) ==
  LET rsp == Head(f.up[<<f.r, "read">>])
      beat == rsp.seen * rsp.bytes .. (rsp.seen + 1) * rsp.bytes - 1
  IN [id |-> rsp.id, last |-> rsp.seen + 1 = rsp.beats, error |-> rsp.error,
      address |-> IF beat \subseteq rsp.done THEN rsp.address + rsp.seen * rsp.bytes ELSE None]

-----------------------------------------------------------------------------
Request(ax, write, data) ==
  [id |-> ax.id, write |-> write, address |-> ax.address, bytes |-> ax.bytes,
   beats |-> ax.beats, data |-> data]

AcceptedAw(f, shake, aw) ==
  IF "AW" \notin shake THEN f
  ELSE [f EXCEPT !.writes = Append(@, [ax |-> aw, data |-> <<>>])]

AcceptedW(f, shake, w) ==
  IF "W" \notin shake THEN f ELSE
  LET c == Head(f.writes)
      data == Append(c.data, w)
  IN IF Len(data) < c.ax.beats THEN [f EXCEPT !.writes[1].data = data]
     ELSE [f EXCEPT !.writes = Tail(@),
                    !.down[ClassOf(c.ax.id, "write")] =
                       Append(@, Request(c.ax, TRUE, data))]

AcceptedAr(f, shake, ar) ==
  IF "AR" \notin shake THEN f
  ELSE [f EXCEPT !.reads = [id \in DOMAIN @ \cup {ar.id} |->
                              IF id = ar.id THEN ar.beats ELSE @[id]],
                 !.down[ClassOf(ar.id, "read")] = Append(@, Request(ar, FALSE, <<>>))]

ReturnedB(f, shake) ==
  IF "B" \notin shake THEN f
  ELSE [f EXCEPT !.up[<<f.b, "write">>] = Tail(@), !.b = None]

ReturnedR(f, shake) ==
  IF "R" \notin shake THEN f ELSE
  LET r == FabricR(f)
      left == f.reads[r.id] - 1
  IN [f EXCEPT !.reads = IF left > 0 THEN [@ EXCEPT ![r.id] = left]
                         ELSE [id \in DOMAIN @ \ {r.id} |-> @[id]],
               !.up[<<f.r, "read">>] = IF r.last THEN Tail(@) ELSE [@ EXCEPT ![1].seen = @ + 1],
               !.r = None]

FabricTick(f, shake, aw, w, ar) ==
  ReturnedR(ReturnedB(AcceptedAr(AcceptedW(AcceptedAw(f, shake, aw), shake, w), shake, ar),
                      shake), shake)

\* What the fabric asserts about a handshake.
FabricAccepts(f, shake, w, ar) ==
  /\ "W" \in shake => /\ f.writes # <<>>
                      /\ w.last = (Len(Head(f.writes).data) + 1 = Head(f.writes).ax.beats)
  /\ "AR" \in shake => ar.id \notin DOMAIN f.reads
  /\ "R" \in shake => /\ FabricR(f).id \in DOMAIN f.reads
                      /\ FabricR(f).last = (f.reads[FabricR(f).id] = 1)

-----------------------------------------------------------------------------
\* A burst reaches the memory's FIFO, a response comes from there, and the
\* bridge shows one of those that have arrived.
Departed(f, c) == [f EXCEPT !.down[c] = Tail(@)]

Response(rsp) ==
  [id |-> rsp.req.id, address |-> rsp.req.address, bytes |-> rsp.req.bytes,
   beats |-> rsp.req.beats, seen |-> 0, done |-> rsp.done, error |-> rsp.error]

Answered(f, rsp) ==
  [f EXCEPT !.up[ClassOf(rsp.req.id, IF rsp.req.write THEN "write" ELSE "read")] =
     Append(@, Response(rsp))]

CanShow(f, c) == f.up[c] # <<>> /\ IF c[2] = "write" THEN f.b = None ELSE f.r = None

Shown(f, c) == IF c[2] = "write" THEN [f EXCEPT !.b = c[1]] ELSE [f EXCEPT !.r = c[1]]
=============================================================================
