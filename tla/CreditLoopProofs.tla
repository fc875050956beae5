-------------------------- MODULE CreditLoopProofs --------------------------
(***************************************************************************)
(* Proofs about CreditLoop for any number of planes and kinds of message   *)
(* and any capacities: every counter stays in its range and credits are    *)
(* conserved.  The two invariants hold each other up.  Conservation bounds *)
(* each of the five places of a cell by its capacity, so a sum never       *)
(* reaches a cut-off; and because no sum is cut off, nothing is lost.      *)
(***************************************************************************)
EXTENDS CreditLoop, TLAPS

\* A grant is one of the encodable sizes and never more than is owed, so that
\* what is left is a natural number (encode_credit_amount).
LEMMA EncodedIsOwed ==
  ASSUME NEW kind, NEW owed \in Nat
  PROVE  Encoded(kind, owed) \in 0 .. owed
<1>. DEFINE Best(n) == /\ n <= owed
                       /\ \A m \in SizesOf(kind) : m <= owed => m <= n
<1>1. SizesOf(kind) \subseteq Nat
  BY DEF SizesOf, GrantSizes
<1>2. \E n \in SizesOf(kind) : Best(n)
  <2>1. CASE kind \in NarrowKind
    <3>. SizesOf(kind) = {0, 1, 4, 8}
      BY <2>1 DEF SizesOf
    <3>1. CASE owed < 1           BY <3>1
    <3>2. CASE 1 <= owed /\ owed < 4  BY <3>2
    <3>3. CASE 4 <= owed /\ owed < 8  BY <3>3
    <3>4. CASE 8 <= owed          BY <3>4
    <3>. QED  BY <3>1, <3>2, <3>3, <3>4
  <2>2. CASE kind \notin NarrowKind
    <3>. SizesOf(kind) = {0, 1, 4, 8, 16, 32, 64, 128}
      BY <2>2 DEF SizesOf, GrantSizes
    <3>1. CASE owed < 1                 BY <3>1
    <3>2. CASE 1 <= owed /\ owed < 4    BY <3>2
    <3>3. CASE 4 <= owed /\ owed < 8    BY <3>3
    <3>4. CASE 8 <= owed /\ owed < 16   BY <3>4
    <3>5. CASE 16 <= owed /\ owed < 32  BY <3>5
    <3>6. CASE 32 <= owed /\ owed < 64  BY <3>6
    <3>7. CASE 64 <= owed /\ owed < 128 BY <3>7
    <3>8. CASE 128 <= owed              BY <3>8
    <3>. QED  BY <3>1, <3>2, <3>3, <3>4, <3>5, <3>6, <3>7, <3>8
  <2>. QED  BY <2>1, <2>2
<1>3. Encoded(kind, owed) \in SizesOf(kind) /\ Encoded(kind, owed) <= owed
  BY <1>2 DEF Encoded
<1>. QED  BY <1>1, <1>3

-----------------------------------------------------------------------------
Inv == TypeOK /\ Conservation

\* What the invariant says of one cell.
LEMMA CellFacts ==
  ASSUME Inv, NEW c \in Cell
  PROVE  /\ pending[c] \in 0 .. CreditCounterMax
         /\ flying[c] \in 0 .. CreditCounterMax
         /\ available[c] \in 0 .. CreditCounterMax
         /\ sending[c] \in 0 .. CreditCounterMax
         /\ buffered[c] \in 0 .. CreditCounterMax
         /\ Capacity[c] \in 0 .. CreditCounterMax
         /\ CreditCounterMax \in Nat
         /\ pending[c] + flying[c] + available[c] + sending[c] + buffered[c] = Capacity[c]
BY CreditAssumption DEF Inv, TypeOK, Conservation

-----------------------------------------------------------------------------
LEMMA InitInv == Init => Inv
<1>. SUFFICES ASSUME Init PROVE Inv
  OBVIOUS
<1>. USE CreditAssumption
<1>1. Capacity \in [Cell -> 0 .. CreditCounterMax]
  OBVIOUS
<1>2. TypeOK
  BY <1>1 DEF Init, Nothing, TypeOK, Rp
<1>3. Conservation
  BY <1>1 DEF Init, Nothing, Conservation
<1>. QED  BY <1>2, <1>3 DEF Inv

\* What is granted to some planes is part of what is owed.
LEMMA GrantedIsOwed ==
  ASSUME Inv, NEW planes, NEW c \in Cell
  PROVE  Granted(planes)[c] \in 0 .. pending[c]
<1>1. c[2] \in Kind
  BY DEF Cell
<1>2. pending[c] \in Nat
  BY CellFacts
<1>3. Encoded(c[2], pending[c]) \in 0 .. pending[c]
  BY <1>1, <1>2, EncodedIsOwed
<1>. QED  BY <1>2, <1>3 DEF Granted

\* Both kinds of grant move credits from what is owed to what is on its way.
LEMMA GrantInv ==
  ASSUME Inv, NEW planes, Grant(Granted(planes)), nextHeaderRp' \in Rp
  PROVE  Inv'
<1>1. ASSUME NEW c \in Cell
      PROVE  /\ pending[c] - Granted(planes)[c] \in 0 .. CreditCounterMax
             /\ flying[c] + Granted(planes)[c] \in 0 .. CreditCounterMax
             /\ (pending[c] - Granted(planes)[c]) + (flying[c] + Granted(planes)[c])
                  + available[c] + sending[c] + buffered[c] = Capacity[c]
  <2>. DEFINE g == Granted(planes)[c]
  <2>1. g \in 0 .. pending[c]
    BY GrantedIsOwed
  <2>. HIDE DEF g
  <2>2. /\ pending[c] - g \in 0 .. CreditCounterMax
        /\ flying[c] + g \in 0 .. CreditCounterMax
        /\ (pending[c] - g) + (flying[c] + g)
             + available[c] + sending[c] + buffered[c] = Capacity[c]
    BY <2>1, CellFacts
  <2>. QED  BY <2>2 DEF g
<1>2. TypeOK'
  BY <1>1 DEF Inv, TypeOK, Grant
<1>3. Conservation'
  BY <1>1 DEF Inv, Conservation, Grant
<1>. QED  BY <1>2, <1>3 DEF Inv

LEMMA NextInv == Inv /\ [Next]_vars => Inv'
<1>. SUFFICES ASSUME Inv, [Next]_vars PROVE Inv'
  OBVIOUS
<1>1. CASE TakeHeaderGrant
  <2>1. PICK rp \in Rp : /\ Grant(Granted({rp}))
                         /\ nextHeaderRp' = (rp + 1) % RpCount
    BY <1>1 DEF TakeHeaderGrant
  <2>2. nextHeaderRp' \in Rp
    BY <2>1, CreditAssumption DEF Rp
  <2>. QED  BY <2>1, <2>2, GrantInv
<1>2. CASE TakeMiscGrants
  BY <1>2, GrantInv DEF TakeMiscGrants, Inv, TypeOK
<1>3. CASE AddTxCredit
  <2>1. PICK rest \in [Cell -> 0 .. CreditCounterMax] :
          flying' = rest /\ \A c \in Cell : rest[c] <= flying[c]
    BY <1>3 DEF AddTxCredit, Less
  <2>2. ASSUME NEW c \in Cell
        PROVE  /\ AtMost(CreditCounterMax, available[c] + (flying[c] - rest[c]))
                    = available[c] + (flying[c] - rest[c])
               /\ available[c] + (flying[c] - rest[c]) \in 0 .. CreditCounterMax
               /\ pending[c] + rest[c] + (available[c] + (flying[c] - rest[c]))
                    + sending[c] + buffered[c] = Capacity[c]
    BY <2>1, CellFacts DEF AtMost
  <2>3. available' = [c \in Cell |-> available[c] + (flying[c] - rest[c])]
    BY <1>3, <2>1, <2>2 DEF AddTxCredit, Plus
  <2>4. TypeOK'
    BY <1>3, <2>1, <2>2, <2>3 DEF Inv, TypeOK, AddTxCredit
  <2>5. Conservation'
    BY <1>3, <2>1, <2>2, <2>3 DEF Conservation, AddTxCredit
  <2>. QED  BY <2>4, <2>5 DEF Inv
<1>4. CASE Consume
  <2>1. PICK rest \in [Cell -> 0 .. CreditCounterMax] :
          available' = rest /\ \A c \in Cell : rest[c] <= available[c]
    BY <1>4 DEF Consume, Less
  <2>2. ASSUME NEW c \in Cell
        PROVE  /\ sending[c] + (available[c] - rest[c]) \in 0 .. CreditCounterMax
               /\ pending[c] + flying[c] + rest[c]
                    + (sending[c] + (available[c] - rest[c])) + buffered[c] = Capacity[c]
    BY <2>1, CellFacts
  <2>3. sending' = [c \in Cell |-> sending[c] + (available[c] - rest[c])]
    BY <1>4, <2>1 DEF Consume, Plus
  <2>4. TypeOK'
    BY <1>4, <2>1, <2>2, <2>3 DEF Inv, TypeOK, Consume
  <2>5. Conservation'
    BY <1>4, <2>1, <2>2, <2>3 DEF Conservation, Consume
  <2>. QED  BY <2>4, <2>5 DEF Inv
<1>5. CASE Arrive
  <2>1. PICK rest \in [Cell -> 0 .. CreditCounterMax] :
          sending' = rest /\ \A c \in Cell : rest[c] <= sending[c]
    BY <1>5 DEF Arrive, Less
  <2>2. ASSUME NEW c \in Cell
        PROVE  /\ buffered[c] + (sending[c] - rest[c]) \in 0 .. CreditCounterMax
               /\ pending[c] + flying[c] + available[c] + rest[c]
                    + (buffered[c] + (sending[c] - rest[c])) = Capacity[c]
    BY <2>1, CellFacts
  <2>3. buffered' = [c \in Cell |-> buffered[c] + (sending[c] - rest[c])]
    BY <1>5, <2>1 DEF Arrive, Plus
  <2>4. TypeOK'
    BY <1>5, <2>1, <2>2, <2>3 DEF Inv, TypeOK, Arrive
  <2>5. Conservation'
    BY <1>5, <2>1, <2>2, <2>3 DEF Conservation, Arrive
  <2>. QED  BY <2>4, <2>5 DEF Inv
<1>6. CASE ReturnRxCredit
  <2>1. PICK rest \in [Cell -> 0 .. CreditCounterMax] :
          buffered' = rest /\ \A c \in Cell : rest[c] <= buffered[c]
    BY <1>6 DEF ReturnRxCredit, Less
  <2>2. ASSUME NEW c \in Cell
        PROVE  /\ AtMost(Capacity[c], pending[c] + (buffered[c] - rest[c]))
                    = pending[c] + (buffered[c] - rest[c])
               /\ pending[c] + (buffered[c] - rest[c]) \in 0 .. CreditCounterMax
               /\ (pending[c] + (buffered[c] - rest[c])) + flying[c] + available[c]
                    + sending[c] + rest[c] = Capacity[c]
    BY <2>1, CellFacts DEF AtMost
  <2>3. pending' = [c \in Cell |-> pending[c] + (buffered[c] - rest[c])]
    BY <1>6, <2>1, <2>2 DEF ReturnRxCredit, Plus
  <2>4. TypeOK'
    BY <1>6, <2>1, <2>2, <2>3 DEF Inv, TypeOK, ReturnRxCredit
  <2>5. Conservation'
    BY <1>6, <2>1, <2>2, <2>3 DEF Conservation, ReturnRxCredit
  <2>. QED  BY <2>4, <2>5 DEF Inv
<1>7. CASE UNCHANGED vars
  BY <1>7 DEF vars, Inv, TypeOK, Conservation
<1>. QED  BY <1>1, <1>2, <1>3, <1>4, <1>5, <1>6, <1>7 DEF Next

-----------------------------------------------------------------------------
\* The two invariants hold in every reachable state.
THEOREM CreditInvariance == Spec => []Inv
BY InitInv, NextInv, PTL DEF Spec

\* Every counter of both CreditManagers stays within its range: no subtraction
\* wraps around below zero.
THEOREM CountersInRange == Spec => []TypeOK
<1>1. Inv => TypeOK
  BY DEF Inv
<1>. QED  BY <1>1, CreditInvariance, PTL

\* Credits are conserved: none is lost, none is made up.
THEOREM CreditsConserved == Spec => []Conservation
<1>1. Inv => Conservation
  BY DEF Inv
<1>. QED  BY <1>1, CreditInvariance, PTL

\* What the receiver holds and what is on its way to it fit into its buffers,
\* even if all the credit the sender has, or is about to get, is spent: the
\* requires of AouTarget::receive cannot fail.
THEOREM BuffersSuffice ==
  Spec => [](\A c \in Cell : flying[c] + available[c] + sending[c] + buffered[c]
                               <= Capacity[c])
<1>1. Inv => \A c \in Cell : flying[c] + available[c] + sending[c] + buffered[c]
                               <= Capacity[c]
  BY CellFacts
<1>. QED  BY <1>1, CreditInvariance, PTL

-----------------------------------------------------------------------------
\* The steps of the loop as its users take them: for each cell an amount, which
\* may be 0, moves on.  If it is 0 for all of them nothing happens to the loop.

Amounts(g, x) == g \in [Cell -> Nat] /\ \A c \in Cell : g[c] <= x[c]

Minus(x, g) == [c \in Cell |-> x[c] - g[c]]
Added(x, g) == [c \in Cell |-> x[c] + g[c]]
Capped(x, g, limit) == [c \in Cell |-> AtMost(limit[c], x[c] + g[c])]

\* Some of x moves on to y, as Less and Plus put it.
LEMMA MovesOn ==
  ASSUME NEW x \in [Cell -> 0 .. CreditCounterMax], NEW g, Amounts(g, x),
         NEW xNext, xNext = Minus(x, g), NEW y, y \in [Cell -> 0 .. CreditCounterMax]
  PROVE  /\ \/ xNext = x /\ g = Nothing
            \/ Less(xNext, x)
         /\ Plus(y, x, xNext) = Added(y, g)
<1>0. CreditCounterMax \in Nat
  BY CreditAssumption
<1>1. ASSUME NEW c \in Cell
      PROVE  /\ xNext[c] = x[c] - g[c] /\ xNext[c] \in 0 .. CreditCounterMax
             /\ xNext[c] <= x[c]
             /\ xNext[c] = x[c] => g[c] = 0
             /\ y[c] + (x[c] - xNext[c]) = y[c] + g[c]
  <2>1. x[c] \in 0 .. CreditCounterMax /\ g[c] \in Nat /\ g[c] <= x[c] /\ y[c] \in Nat
    BY <1>0 DEF Amounts
  <2>2. xNext[c] = x[c] - g[c]
    BY DEF Minus
  <2> QED BY <1>0, <2>1, <2>2
<1>2. xNext \in [Cell -> 0 .. CreditCounterMax]
  BY <1>1 DEF Minus
<1>3. CASE xNext = x
  <2>1. \A c \in Cell : g[c] = 0
    BY <1>1, <1>3
  <2>2. g = Nothing
    BY <2>1 DEF Amounts, Nothing
  <2> QED BY <1>1, <1>3, <2>2 DEF Plus, Added
<1>4. CASE xNext # x
  BY <1>1, <1>2, <1>4 DEF Less, Plus, Added
<1> QED BY <1>3, <1>4

LEMMA NothingAdded ==
  ASSUME NEW x \in [Cell -> 0 .. CreditCounterMax], NEW limit,
         \A c \in Cell : x[c] <= limit[c]
  PROVE  Added(x, Nothing) = x /\ Capped(x, Nothing, limit) = x
<1>1. ASSUME NEW c \in Cell
      PROVE  /\ x[c] + Nothing[c] = x[c]
             /\ AtMost(limit[c], x[c] + Nothing[c]) = x[c]
  BY CreditAssumption DEF Nothing, AtMost
<1> QED BY <1>1 DEF Added, Capped

Limit == [c \in Cell |-> CreditCounterMax]

LEMMA AddStep ==
  ASSUME Inv, NEW g, Amounts(g, flying), flying' = Minus(flying, g),
         available' = Capped(available, g, Limit),
         UNCHANGED <<pending, nextHeaderRp, sending, buffered>>
  PROVE  [Next]_vars
<1>1. flying \in [Cell -> 0 .. CreditCounterMax] /\ available \in [Cell -> 0 .. CreditCounterMax]
  BY DEF Inv, TypeOK
<1>2. /\ \/ flying' = flying /\ g = Nothing
         \/ Less(flying', flying)
      /\ Plus(available, flying, flying') = Added(available, g)
  BY <1>1, MovesOn
<1>3. CASE flying' = flying /\ g = Nothing
  <2>1. \A c \in Cell : available[c] <= Limit[c]
    BY <1>1, CreditAssumption DEF Limit
  <2>2. available' = available
    BY <1>1, <1>3, <2>1, NothingAdded
  <2> QED BY <1>3, <2>2 DEF vars
<1>4. CASE Less(flying', flying)
  <2>1. available' = [c \in Cell |-> AtMost(CreditCounterMax, Plus(available, flying, flying')[c])]
    BY <1>2 DEF Capped, Limit, Added
  <2> QED BY <1>4, <2>1 DEF AddTxCredit, Next
<1> QED BY <1>2, <1>3, <1>4

LEMMA ConsumeStep ==
  ASSUME Inv, NEW g, Amounts(g, available), available' = Minus(available, g),
         sending' = Added(sending, g),
         UNCHANGED <<pending, nextHeaderRp, flying, buffered>>
  PROVE  [Next]_vars
<1>1. available \in [Cell -> 0 .. CreditCounterMax] /\ sending \in [Cell -> 0 .. CreditCounterMax]
  BY DEF Inv, TypeOK
<1>2. /\ \/ available' = available /\ g = Nothing
         \/ Less(available', available)
      /\ Plus(sending, available, available') = Added(sending, g)
  BY <1>1, MovesOn
<1>3. CASE available' = available /\ g = Nothing
  <2>1. sending' = sending
    <3>1. \A c \in Cell : sending[c] <= Limit[c]
      BY <1>1, CreditAssumption DEF Limit
    <3> QED BY <1>1, <1>3, <3>1, NothingAdded
  <2> QED BY <1>3, <2>1 DEF vars
<1>4. CASE Less(available', available)
  BY <1>2, <1>4 DEF Consume, Next
<1> QED BY <1>2, <1>3, <1>4

LEMMA ArriveStep ==
  ASSUME Inv, NEW g, Amounts(g, sending), sending' = Minus(sending, g),
         buffered' = Added(buffered, g),
         UNCHANGED <<pending, nextHeaderRp, flying, available>>
  PROVE  [Next]_vars
<1>1. sending \in [Cell -> 0 .. CreditCounterMax] /\ buffered \in [Cell -> 0 .. CreditCounterMax]
  BY DEF Inv, TypeOK
<1>2. /\ \/ sending' = sending /\ g = Nothing
         \/ Less(sending', sending)
      /\ Plus(buffered, sending, sending') = Added(buffered, g)
  BY <1>1, MovesOn
<1>3. CASE sending' = sending /\ g = Nothing
  <2>1. buffered' = buffered
    <3>1. \A c \in Cell : buffered[c] <= Limit[c]
      BY <1>1, CreditAssumption DEF Limit
    <3> QED BY <1>1, <1>3, <3>1, NothingAdded
  <2> QED BY <1>3, <2>1 DEF vars
<1>4. CASE Less(sending', sending)
  BY <1>2, <1>4 DEF Arrive, Next
<1> QED BY <1>2, <1>3, <1>4

LEMMA ReturnStep ==
  ASSUME Inv, NEW g, Amounts(g, buffered), buffered' = Minus(buffered, g),
         pending' = Capped(pending, g, Capacity),
         UNCHANGED <<nextHeaderRp, flying, available, sending>>
  PROVE  [Next]_vars
<1>1. buffered \in [Cell -> 0 .. CreditCounterMax] /\ pending \in [Cell -> 0 .. CreditCounterMax]
  BY DEF Inv, TypeOK
<1>2. /\ \/ buffered' = buffered /\ g = Nothing
         \/ Less(buffered', buffered)
      /\ Plus(pending, buffered, buffered') = Added(pending, g)
  BY <1>1, MovesOn
<1>3. CASE buffered' = buffered /\ g = Nothing
  <2>1. \A c \in Cell : pending[c] <= Capacity[c]
    BY CellFacts
  <2>2. pending' = pending
    BY <1>1, <1>3, <2>1, NothingAdded
  <2> QED BY <1>3, <2>2 DEF vars
<1>4. CASE Less(buffered', buffered)
  <2>1. pending' = [c \in Cell |-> AtMost(Capacity[c], Plus(pending, buffered, buffered')[c])]
    BY <1>2 DEF Capped, Added
  <2> QED BY <1>4, <2>1 DEF ReturnRxCredit, Next
<1> QED BY <1>2, <1>3, <1>4
=============================================================================
