----------------------------- MODULE CreditLoop -----------------------------
(***************************************************************************)
(* The flow-control credits of one direction of the AoU protocol           *)
(* (axi2flit/systemc/include/credit_manager.h).  The CreditManager of the  *)
(* side that receives messages owes its peer credits for free buffer       *)
(* space; the CreditManager of the side that sends messages holds the      *)
(* credits it may still spend.  One credit is one granule of buffer space  *)
(* of one cell, a resource plane and a kind of message.                    *)
(*                                                                         *)
(*        take_header_grant,           add_tx_credit                       *)
(*        take_misc_grants                                                 *)
(*  pending ------------------> flying -------------> available            *)
(*     ^                                                  |                *)
(*     | return_rx_credit                                 | consume        *)
(*  buffered <--------------------------------------- sending              *)
(*                      a message arrives                                  *)
(*                                                                         *)
(* What is between the two CreditManagers is counted per cell: grants of   *)
(* one cell are added to one counter and messages of one cell fill one     *)
(* buffer, so only their sums tell states apart.                           *)
(***************************************************************************)
EXTENDS Integers

CONSTANTS
  RpCount,          \* resource planes in use (1..4)
  Kind,             \* kinds of message the receiver takes: WriteReq, ReadReq
                    \* and WriteData at the target, ReadData and WriteResp
                    \* at the initiator
  NarrowKind,       \* those with a grant field of two bits: WriteResp
  Capacity,         \* rx_capacity_: buffer granules per cell
  CreditCounterMax  \* CREDIT_COUNTER_MAX (4095)

Rp   == 0 .. RpCount - 1
Cell == Rp \X Kind

ASSUME CreditAssumption ==
  /\ RpCount \in Nat \ {0}
  /\ NarrowKind \subseteq Kind
  /\ Capacity \in [Cell -> 0 .. CreditCounterMax]
  /\ CreditCounterMax \in Nat

VARIABLES
  pending,      \* rx_pending_return_ of the receiver
  nextHeaderRp, \* next_header_rp_ of the receiver
  flying,       \* granted, not yet added by the sender
  available,    \* tx_available_ of the sender
  sending,      \* granules of the messages on their way
  buffered      \* granules in the receiver's buffers

vars == <<pending, nextHeaderRp, flying, available, sending, buffered>>

-----------------------------------------------------------------------------
\* Encoding of a grant in its field of three or two bits

GrantSizes == {0, 1, 4, 8, 16, 32, 64, 128}

SizesOf(kind) == IF kind \in NarrowKind THEN {0, 1, 4, 8} ELSE GrantSizes

\* The largest amount the field can express that is owed.
Encoded(kind, owed) ==
  CHOOSE n \in SizesOf(kind) :
    n <= owed /\ \A m \in SizesOf(kind) : m <= owed => m <= n

AtMost(limit, n) == IF n <= limit THEN n ELSE limit

-----------------------------------------------------------------------------
\* The receiver grants

Owes(rp) == \E kind \in Kind : pending[<<rp, kind>>] # 0

\* How far the rotation is from rp.
Turns(rp) == (rp - nextHeaderRp) % RpCount

Grant(amount) ==
  /\ pending' = [c \in Cell |-> pending[c] - amount[c]]
  /\ flying' = [c \in Cell |-> flying[c] + amount[c]]
  /\ UNCHANGED <<available, sending, buffered>>

\* What can be granted to these planes at once.
Granted(planes) ==
  [c \in Cell |-> IF c[1] \in planes THEN Encoded(c[2], pending[c]) ELSE 0]

\* Mutant: the search for a plane starts at plane 0 every time.
InTurnUnfair(rp) ==
  /\ Owes(rp)
  /\ \A other \in Rp : Owes(other) => rp <= other

\* The first plane in the rotation that is owed something.
InTurn(rp) ==
  /\ Owes(rp)
  /\ \A other \in Rp : Owes(other) => Turns(rp) <= Turns(other)

\* take_header_grant: a header carries grants of a single plane.
TakeHeaderGrant ==
  \E rp \in Rp :
    /\ InTurn(rp)
    /\ Grant(Granted({rp}))
    /\ nextHeaderRp' = (rp + 1) % RpCount

\* take_misc_grants: a CrdtGrant message carries grants of every plane.
TakeMiscGrants ==
  /\ \E rp \in Rp : Owes(rp)
  /\ Grant(Granted(Rp))
  /\ UNCHANGED nextHeaderRp

-----------------------------------------------------------------------------
\* Credits move on in any amounts: how much at once is up to the sizes of the
\* messages and to the grants and messages the two sides handle together.

\* Some of x is taken away.
Less(xNext, x) ==
  /\ xNext \in [Cell -> 0 .. CreditCounterMax]
  /\ \A c \in Cell : xNext[c] <= x[c]
  /\ xNext # x

\* y and what x has lost.
Plus(y, x, xNext) == [c \in Cell |-> y[c] + (x[c] - xNext[c])]

\* Mutant: the grants that arrive together for a cell count as one credit.
AddTxCreditOnce ==
  /\ Less(flying', flying)
  /\ available' = [c \in Cell |-> IF flying'[c] < flying[c] THEN available[c] + 1
                                                            ELSE available[c]]
  /\ UNCHANGED <<pending, nextHeaderRp, sending, buffered>>

\* add_tx_credit: the counter saturates.
AddTxCredit ==
  /\ Less(flying', flying)
  /\ LET sum == Plus(available, flying, flying') IN
     available' = [c \in Cell |-> AtMost(CreditCounterMax, sum[c])]
  /\ UNCHANGED <<pending, nextHeaderRp, sending, buffered>>

\* can_consume, consume: never more than is available.
Consume ==
  /\ Less(available', available)
  /\ sending' = Plus(sending, available, available')
  /\ UNCHANGED <<pending, nextHeaderRp, flying, buffered>>

Arrive ==
  /\ Less(sending', sending)
  /\ buffered' = Plus(buffered, sending, sending')
  /\ UNCHANGED <<pending, nextHeaderRp, flying, available>>

\* return_rx_credit: what is owed is cut off at the capacity.
ReturnRxCredit ==
  /\ Less(buffered', buffered)
  /\ LET sum == Plus(pending, buffered, buffered') IN
     pending' = [c \in Cell |-> AtMost(Capacity[c], sum[c])]
  /\ UNCHANGED <<nextHeaderRp, flying, available, sending>>

-----------------------------------------------------------------------------
Nothing == [c \in Cell |-> 0]

\* The receiver has called publish_initial_capacity.
Init ==
  /\ pending = Capacity
  /\ nextHeaderRp = 0
  /\ flying = Nothing /\ available = Nothing
  /\ sending = Nothing /\ buffered = Nothing

Next ==
  \/ TakeHeaderGrant \/ TakeMiscGrants
  \/ AddTxCredit \/ Consume \/ Arrive \/ ReturnRxCredit

Spec == Init /\ [][Next]_vars

\* Frames with a header go out while anything is owed: AouTarget sends one even
\* if it has no message.  Nothing is assumed of the messages.
FairSpec == Spec /\ WF_vars(TakeHeaderGrant)

-----------------------------------------------------------------------------
\* Properties

\* Every count is a natural number within the range of its counter, and no
\* subtraction in the code wraps around below zero.
TypeOK ==
  /\ pending \in [Cell -> 0 .. CreditCounterMax]
  /\ nextHeaderRp \in Rp
  /\ flying \in [Cell -> 0 .. CreditCounterMax]
  /\ available \in [Cell -> 0 .. CreditCounterMax]
  /\ sending \in [Cell -> 0 .. CreditCounterMax]
  /\ buffered \in [Cell -> 0 .. CreditCounterMax]

\* No credit is lost or made up anywhere on its way round: the granules of a
\* cell always add up to its capacity.  So the sender can never overrun the
\* receiver's buffers, and neither cut-off (credit_manager.h:129, 151) ever
\* takes effect.
Conservation ==
  \A c \in Cell :
    pending[c] + flying[c] + available[c] + sending[c] + buffered[c] = Capacity[c]

\* The rotation of take_header_grant reaches every plane: credits owed for one
\* plane are granted in the end however busy the other planes are, even if no
\* CrdtGrant message is ever sent.
NoPlaneStarves == \A c \in Cell : pending[c] > 0 ~> flying[c] > 0
=============================================================================
