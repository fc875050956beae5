------------------------------- MODULE AxiRam -------------------------------
(***************************************************************************)
(* The AXI RAM of the gem5 demo: write bursts wait for their data, data    *)
(* may come before its address, and each direction is answered in order, a *)
(* latency later.  The contents are abstracted to the places the beats     *)
(* come from and go to; the pins of B and R follow from the queues.        *)
(***************************************************************************)
EXTENDS Integers, Sequences

CONSTANTS
  RamLatency,
  RamBursts,    \* bursts of each direction in the RAM (16)
  RamBeats,     \* W beats that wait (512)
  Window        \* addresses the memory has

ASSUME RamAssumption == RamLatency \in Nat \ {0}

EmptyRam == [writes |-> <<>>, data |-> <<>>, reads |-> <<>>, responses |-> <<>>]

InWindow(address, n) == address .. address + n - 1 \subseteq Window

RamReady(s) ==
  {ch \in {"AW", "W", "AR"} :
     CASE ch = "AW" -> Len(s.writes) + Len(s.responses) < RamBursts
       [] ch = "W"  -> Len(s.data) < RamBeats
       [] ch = "AR" -> Len(s.reads) < RamBursts}

RamBValid(s) == s.responses # <<>> /\ Head(s.responses).ready = 0
RamB(s) == [id |-> Head(s.responses).id, error |-> Head(s.responses).error]

At(burst) == burst.address + burst.seen * burst.bytes

RamRValid(s) == s.reads # <<>> /\ Head(s.reads).ready = 0
RamR(s) == LET r == Head(s.reads) IN
  [id |-> r.id, address |-> At(r), last |-> r.seen + 1 = r.beats,
   error |-> ~InWindow(At(r), r.bytes)]

-----------------------------------------------------------------------------
\* A step of the clock, then the handshakes of B, R, AW, AR and W.
Aged(queue) == [i \in DOMAIN queue |->
  [queue[i] EXCEPT !.ready = IF @ > 0 THEN @ - 1 ELSE 0]]

Arrived(ax, ready) == [id |-> ax.id, address |-> ax.address, bytes |-> ax.bytes,
                       beats |-> ax.beats, seen |-> 0, error |-> FALSE, ready |-> ready]

ReadOn(reads) == IF Head(reads).seen + 1 = Head(reads).beats THEN Tail(reads)
                 ELSE [reads EXCEPT ![1].seen = @ + 1]

Shaken(s, shake, aw, w, ar) ==
  LET responses == Aged(s.responses)
      reads     == Aged(s.reads)
      readsLeft == IF "R" \in shake THEN ReadOn(reads) ELSE reads
  IN [responses |-> IF "B" \in shake THEN Tail(responses) ELSE responses,
      reads  |-> IF "AR" \in shake THEN Append(readsLeft, Arrived(ar, RamLatency))
                 ELSE readsLeft,
      writes |-> IF "AW" \in shake THEN Append(s.writes, Arrived(aw, 0)) ELSE s.writes,
      data   |-> IF "W" \in shake THEN Append(s.data, w) ELSE s.data]

\* A beat that waits goes to the oldest write burst.
HasBeat(s) == s.writes # <<>> /\ s.data # <<>>

Landed(s) ==
  IF ~HasBeat(s) THEN s ELSE
  LET w     == Head(s.writes)
      error == w.error \/ ~InWindow(At(w), w.bytes)
  IN IF w.seen + 1 < w.beats
       THEN [s EXCEPT !.data = Tail(@), !.writes[1].seen = @ + 1, !.writes[1].error = error]
       ELSE [s EXCEPT !.data = Tail(@), !.writes = Tail(@),
                      !.responses = Append(@, [id |-> w.id, error |-> error,
                                               ready |-> RamLatency])]

RamTick(s, shake, aw, w, ar) == Landed(Shaken(s, shake, aw, w, ar))

\* What the RAM asserts about the beat it uses.
RamAccepts(s) == HasBeat(s) =>
  Head(s.data).last = (Head(s.writes).seen + 1 = Head(s.writes).beats)
=============================================================================
