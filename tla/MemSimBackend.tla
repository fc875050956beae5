--------------------------- MODULE MemSimBackend ---------------------------
(***************************************************************************)
(* The bridge from AoU's memory requests to the HBM simulator: bursts      *)
(* wait in slots, are cut into children of at most a granule, which are    *)
(* submitted in order and complete in any order, and are returned whole in *)
(* the order of arrival.  The simulator is external: it refuses a child or *)
(* takes it, and completes it in some later cycle, with success or not.    *)
(***************************************************************************)
EXTENDS Integers, Sequences, FiniteSets, FiniteSetsExt

CONSTANTS
  MemSlots,    \* bursts in the bridge
  Granule,     \* bytes of a transaction of the simulator
  Hold,        \* cycles for which a complete burst is held back
  FifoDepth,   \* of the FIFOs of requests and responses
  MemWindow,   \* addresses the memory has
  AxiBoundary  \* what a burst may not cross (4096)

ASSUME MemSimAssumption == /\ MemSlots \in Nat \ {0} /\ Granule \in Nat \ {0}
                           /\ Hold \in Nat

VARIABLES
  requests, responses,   \* the FIFOs to and from the AoU target
  bursts,                \* admitted, oldest first: [req, sent, done, ready, error]
  children               \* submitted and not complete: [id, offset, bytes]

memSimVars == <<requests, responses, bursts, children>>

MemSimInit == requests = <<>> /\ responses = <<>> /\ bursts = <<>> /\ children = {}

-----------------------------------------------------------------------------
\* A request is [id, write, address, bytes, beats, data].
Length(req) == req.bytes * req.beats

Outside(req) == ~(req.address .. req.address + Length(req) - 1 \subseteq MemWindow)

Admitted(req) == [req |-> req, sent |-> IF Outside(req) THEN Length(req) ELSE 0,
                  done |-> {}, ready |-> Hold, error |-> Outside(req)]

\* The contract of a burst: aligned, within one page, its data complete.
Legal(req) ==
  /\ req.address % req.bytes = 0
  /\ (req.address % AxiBoundary) + Length(req) <= AxiBoundary
  /\ Len(req.data) = (IF req.write THEN req.beats ELSE 0)

AfterAccept == IF Len(bursts) < MemSlots /\ requests # <<>>
                 THEN Append(bursts, Admitted(Head(requests))) ELSE bursts

\* A burst that is not legal is refused with an assertion.
MemAccepts == AfterAccept # bursts => Legal(Head(requests))

\* The oldest burst that is not wholly submitted, and its next child.
Unsent(bs) == {i \in DOMAIN bs : bs[i].sent < Length(bs[i].req)}

\* Mutant: bursts take turns.
NextBurstInTurns(bs) == CHOOSE i \in Unsent(bs) : \A j \in Unsent(bs) : bs[i].sent <= bs[j].sent

NextBurst(bs) == Min(Unsent(bs))
NextChild(b) ==
  [id |-> b.req.id, offset |-> b.sent,
   bytes |-> Min({Length(b.req) - b.sent,
                  Granule - ((b.req.address + b.sent) % Granule)})]

\* Mutant: a burst is complete when it is wholly submitted.
WholeWhenSent(b, kids) == b.sent = Length(b.req)

Whole(b, kids) == /\ b.sent = Length(b.req)
                  /\ \A c \in kids : c.id # b.req.id

Bytes(c) == c.offset .. c.offset + c.bytes - 1
ChildrenOf(b, kids) == {c \in kids : c.id = b.req.id}

\* Mutant: the completions of the latest cycle decide.
InErrorIfLatest(b, finished, failing) ==
  IF ChildrenOf(b, finished) # {} THEN ChildrenOf(b, failing) # {} ELSE b.error

\* One failed child is enough for the burst to be answered with an error.
InError(b, finished, failing) == b.error \/ ChildrenOf(b, failing) # {}

\* Completions are noted in their bursts.
Noted(bs, finished, failing) ==
  [i \in DOMAIN bs |->
     [bs[i] EXCEPT !.done = @ \cup UNION {Bytes(c) : c \in ChildrenOf(bs[i], finished)},
                   !.error = InError(bs[i], finished, failing)]]

\* A response carries the bytes that were complete when it was made.
ResponseOf(b) == [req |-> b.req, done |-> b.done, error |-> b.error]

\* One cycle: admit, submit one child, collect completions, return one burst.
\* The simulator accepts the child or not and completes those in finished,
\* those in failing without success.
MemCycle(accepted, finished, failing) ==
  LET admitted == AfterAccept
      i        == NextBurst(admitted)
      submits  == Unsent(admitted) # {} /\ accepted
      child    == NextChild(admitted[i])
      sent     == IF submits THEN [admitted EXCEPT ![i].sent = @ + child.bytes] ELSE admitted
      kids     == IF submits THEN children \cup {child} ELSE children
      noted    == Noted(sent, finished, failing)
      whole    == noted # <<>> /\ Whole(Head(noted), kids \ finished)
      returns  == whole /\ Head(noted).ready = 0 /\ Len(responses) < FifoDepth
  IN /\ accepted => Unsent(admitted) # {}
     /\ finished \subseteq kids /\ failing \subseteq finished
     /\ children' = kids \ finished
     /\ requests' = IF admitted # bursts THEN Tail(requests) ELSE requests
     /\ responses' = IF returns THEN Append(responses, ResponseOf(Head(noted))) ELSE responses
     /\ bursts' = CASE returns -> Tail(noted)
                    [] whole /\ ~returns /\ Head(noted).ready > 0 ->
                         [noted EXCEPT ![1].ready = @ - 1]
                    [] OTHER -> noted

\* The burst whose child the cycle submits.
Submitted == AfterAccept[NextBurst(AfterAccept)]
=============================================================================
