----------------------------- MODULE AouFrames -----------------------------
(***************************************************************************)
(* How messages are cut into the granules of frames, and put together      *)
(* again (AouFlit in aou_types.h, AouStreamDecoder).                       *)
(*                                                                         *)
(* The bytes of a granule tell which part of which message it is; the      *)
(* first byte of a message tells how many granules the message has.  The   *)
(* decoder looks at that byte in the first granule of a message only, and  *)
(* otherwise at the bits of MsgStart.                                      *)
(***************************************************************************)
EXTENDS Integers, Sequences, SequencesExt

CONSTANT FlitGranules   \* GRANULE_COUNT (48)

ASSUME FramesAssumption == FlitGranules \in Nat \ {0}

\* A message of size granules.  pack_fragment sets the bit of MsgStart at the
\* granule with offset 0 only.
PartsOf(msg, size) ==
  [i \in 1 .. size |-> [msg |-> msg, part |-> i, of |-> size, start |-> i = 1]]

\* What fits behind the granules of a frame, and what is left for the next.
Room(frame)           == FlitGranules - Len(frame)
Taken(frame, parts)   == IF Len(parts) <= Room(frame) THEN Len(parts) ELSE Room(frame)
Fits(frame, parts)    == frame \o SubSeq(parts, 1, Taken(frame, parts))
CutOff(frame, parts)  == SubSeq(parts, Taken(frame, parts) + 1, Len(parts))

\* The rest of a frame that is not full.
Blank == [start |-> FALSE]
Padded(frame) == frame \o [i \in 1 .. Room(frame) |-> Blank]

\* The messages of which these granules hold the last one.
Ends(parts) ==
  FoldLeft(LAMBDA msgs, g : IF g.part = g.of THEN Append(msgs, g.msg) ELSE msgs, <<>>, parts)

\* Of messages <<cell, what>>, those of a cell.
OfCell(msgs, c) ==
  FoldLeft(LAMBDA of, m : IF m[1] = c THEN Append(of, m[2]) ELSE of, <<>>, msgs)

\* AouStreamDecoder: carry holds the granules of a message begun.  A start
\* inside a message is refused; so is here a message made of granules that do
\* not belong together, which the program would not notice.
WithGranule(s, g) ==
  IF s.carry = <<>> /\ ~g.start THEN s
  ELSE LET now == Append(s.carry, g) IN
       IF s.carry # <<>> /\ g.start THEN [s EXCEPT !.refused = TRUE]
       ELSE IF Len(now) < now[1].of THEN [carry |-> now, messages |-> s.messages, refused |-> s.refused]
       ELSE [carry    |-> <<>>,
             messages |-> Append(s.messages, now[1].msg),
             refused  |-> s.refused \/ now # PartsOf(now[1].msg, now[1].of)]

Decoded(carry, frame) ==
  FoldLeft(WithGranule, [carry |-> carry, messages |-> <<>>, refused |-> FALSE], Padded(frame))
=============================================================================
