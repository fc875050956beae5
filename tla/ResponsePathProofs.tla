------------------------- MODULE ResponsePathProofs -------------------------
(***************************************************************************)
(* Proofs about ResponsePath for any planes, requests, depths and lengths  *)
(* of frames.                                                              *)
(***************************************************************************)
EXTENDS ResponsePath, AouFramesProofs, FiniteSetTheorems

What    == Nat \X Nat       \* request, beat
Message == Cell \X What

-----------------------------------------------------------------------------
\* The inductive invariant

\* active holds a message of its kind, and answered messages of its kind.
OfKind(k, s) == \A i \in DOMAIN s : s[i][1][2] = k

Typed ==
  /\ accepted \in [Kind -> Nat] /\ \A k \in Kind : accepted[k] <= Len(Requests[k])
  /\ guard \in [Kind -> [Id -> [rp : Rp, outstanding : Nat]]]
  /\ reported \in BOOLEAN /\ refused = FALSE
  /\ answered \in [Kind -> Seq(Message)] /\ \A k \in Kind : OfKind(k, answered[k])
  /\ todo \in [Cell -> Seq(Nat)] /\ burst \in [Cell -> What] /\ sent \in [Cell -> Seq(What)]
  /\ credit \in [Cell -> Nat]
  /\ pending \in Seq(Message) /\ pendingUpdates \in Nat /\ updates \in 0 .. UpdateDepth
  /\ fifo \in [Cell -> Seq(What)]
  /\ active \in [Kind -> Seq(Message)]
  /\ \A k \in Kind : OfKind(k, active[k]) /\ Len(active[k]) <= 1
  /\ nextRp \in [Kind -> Rp]

\* Whatever is cut off, the stream and what the decoder holds go together.
Streamed == Chain(Message, carry, stream) /\ After(carry, stream) = <<>>

\* A message on its way, in a FIFO or with the master has its place paid for.
InFlight(c) == Len(OfCell(active[c[2]], c)) + Len(fifo[c]) + Len(OfCell(pending, c))
               + Len(OfCell(Ends(stream), c))

Paid == \A c \in Cell : /\ InFlight(c) <= Depth[c[2]]
                        /\ credit[c] = Granules[c[2]] * (Depth[c[2]] - InFlight(c))

\* The requests of a cell that the target has got.
Home(c) == {n \in 1 .. accepted[c[2]] : Requests[c[2]][n].rp = c[1]}

SameId(k, n, o) == Requests[k][n].id = Requests[k][o].id

\* What waits at the target, in order, and is not begun.
Queued ==
  \A c \in Cell :
    /\ \A i \in DOMAIN todo[c] : todo[c][i] \in Home(c) /\ todo[c][i] # burst[c][1]
    /\ \A i, j \in DOMAIN todo[c] : i < j => todo[c][i] < todo[c][j]
    /\ burst[c] # NoBurst => /\ burst[c][1] \in Home(c)
                             /\ burst[c][2] \in 1 .. Requests[c[2]][burst[c][1]].beats

\* Of the requests of an ID, the earlier ones are further.
EarlierFurther ==
  \A c \in Cell : \A n, o \in Home(c) :
    SameId(c[2], n, o) /\ n \notin Range(todo[c]) =>
      /\ o \in Range(todo[c]) => n < o
      /\ o = burst[c][1] => n <= o

\* The messages of a cell that are sent: all of those of requests begun.
SentIsBegun ==
  \A c \in Cell : \A n, b \in Nat :
    <<n, b>> \in Range(sent[c]) <=>
      /\ n \in Home(c) /\ b \in 1 .. Requests[c[2]][n].beats
      /\ n \notin Range(todo[c])
      /\ n = burst[c][1] => b < burst[c][2]

\* The messages of a cell with the ID of request n.
Fellows(c, n) ==
  {m \in What : /\ m[1] \in DOMAIN Requests[c[2]] /\ Requests[c[2]][m[1]].rp = c[1]
                /\ SameId(c[2], m[1], n) /\ m[2] \in 1 .. Requests[c[2]][m[1]].beats}

\* Those of one ID are sent in their order.
SentInOrder ==
  \A c \in Cell : \A i \in DOMAIN sent[c] :
    {m \in Fellows(c, sent[c][i][1]) : Before(m, sent[c][i])}
      = {sent[c][j] : j \in {h \in 1 .. i - 1 : SameId(c[2], sent[c][h][1], sent[c][i][1])}}

\* If nothing is reported, all requests of an ID after one that is not finished
\* are in its plane.
PlaneKept ==
  ~reported =>
    \A k \in Kind : \A n, o \in 1 .. accepted[k] :
      n < o /\ SameId(k, n, o) /\ ~Finished(k, n) => Requests[k][n].rp = Requests[k][o].rp

AtTarget == Queued /\ EarlierFurther /\ SentIsBegun /\ SentInOrder
Arriving == Typed /\ Streamed /\ ResponsesArriveInOrder /\ AtTarget
Ordered  == GuardIsExact /\ PlaneKept /\ OrderKeptOrReported

PathInv == Arriving /\ Paid /\ Ordered

-----------------------------------------------------------------------------
\* Constants and sequences

LEMMA Constants ==
  /\ RpCount \in Nat \ {0} /\ UnpackMsgs \in Nat \ {0} /\ UpdateDepth \in Nat \ {0}
  /\ \A k \in Kind : Granules[k] \in Nat \ {0} /\ Depth[k] \in Nat \ {0}
  /\ \A k \in Kind : Requests[k] \in Seq([id : Id, rp : Rp, beats : Nat \ {0}])
  /\ \A c \in Cell : c[1] \in Rp /\ c[2] \in Kind /\ c = <<c[1], c[2]>>
  /\ \A rp \in Rp, k \in Kind : <<rp, k>> \in Cell
<1>1. /\ RpCount \in Nat \ {0} /\ UnpackMsgs \in Nat \ {0} /\ UpdateDepth \in Nat \ {0}
      /\ \A k \in Kind : Requests[k] \in Seq([id : Id, rp : Rp, beats : Nat \ {0}])
  BY ResponsePathAssumption, Zenon
<1>2. \A k \in Kind : Granules[k] \in Nat \ {0} /\ Depth[k] \in Nat \ {0}
  <2>1. Granules \in [Kind -> Nat \ {0}] /\ Depth \in [Kind -> Nat \ {0}]
    BY ResponsePathAssumption, Zenon
  <2> QED BY <2>1
<1>3. /\ \A c \in Cell : c[1] \in Rp /\ c[2] \in Kind /\ c = <<c[1], c[2]>>
      /\ \A rp \in Rp, k \in Kind : <<rp, k>> \in Cell
  BY DEF Cell
<1> QED BY <1>1, <1>2, <1>3, Zenon

LEMMA RequestIs ==
  ASSUME NEW k \in Kind, NEW n \in 1 .. Len(Requests[k])
  PROVE  /\ Requests[k][n].id \in Id /\ Requests[k][n].rp \in Rp
         /\ Requests[k][n].beats \in Nat \ {0}
         /\ n \in DOMAIN Requests[k] /\ n \in Nat
<1> DEFINE S == [id : Id, rp : Rp, beats : Nat \ {0}]
           q == Requests[k]
<1>1. q \in Seq(S) /\ n \in 1 .. Len(q)
  BY Constants, Zenon
<1>2. q[n] \in S /\ n \in DOMAIN q
  <2> HIDE DEF S, q
  <2> QED BY <1>1
<1> QED BY <1>2

LEMMA OfCellTyped ==
  ASSUME NEW s \in Seq(Message), NEW c
  PROVE  OfCell(s, c) \in Seq(What)
BY OfCellIsSeq DEF Message

LEMMA OfCellOfJoined ==
  ASSUME NEW s \in Seq(Message), NEW t \in Seq(Message), NEW c
  PROVE  OfCell(s \o t, c) = OfCell(s, c) \o OfCell(t, c)
<1> DEFINE S == Seq(Message)
<1>1. Joins(S, c)
  BY CellsJoin DEF Message
<1>2. s \in S /\ t \in S
  OBVIOUS
<1> HIDE DEF S
<1>3. OfCell(Cat(s, t), c) = Cat(OfCell(s, c), OfCell(t, c))
  BY <1>1, <1>2, Zenon DEF Joins
<1> QED BY <1>3, Zenon DEF Cat

LEMMA OfCellOfOne ==
  ASSUME NEW m \in Message, NEW c
  PROVE  OfCell(<<m>>, c) = IF m[1] = c THEN <<m[2]>> ELSE <<>>
<1>1. Append(<<>>, m) = <<m>> /\ <<>> \in Seq(Message) /\ Append(<<>>, m[2]) = <<m[2]>>
  OBVIOUS
<1>2. OfCell(Append(<<>>, m), c) = IF m[1] = c THEN Append(OfCell(<<>>, c), m[2]) ELSE OfCell(<<>>, c)
  BY <1>1, OfCellAppend
<1> QED BY <1>1, <1>2, OfCellEmpty

SameParts(S, u, p, e, v, g, r, q, d) ==
  /\ Associative(S)
  /\ u \in S /\ p \in S /\ e \in S /\ v \in S /\ g \in S /\ r \in S /\ q \in S /\ d \in S
  /\ u = Cat(v, g) /\ Cat(p, e) = Cat(Cat(r, q), d)

LEMMA CatRearranged ==
  ASSUME NEW S, NEW u, NEW p, NEW e, NEW v, NEW g, NEW r, NEW q, NEW d,
         SameParts(S, u, p, e, v, g, r, q, d)
  PROVE  Cat(Cat(u, p), e) = Cat(Cat(Cat(v, Cat(g, r)), q), d)
<1>0. /\ Associative(S)
      /\ u \in S /\ p \in S /\ e \in S /\ v \in S /\ g \in S /\ r \in S /\ q \in S /\ d \in S
      /\ u = Cat(v, g) /\ Cat(p, e) = Cat(Cat(r, q), d)
  BY DEF SameParts
<1>1. Cat(Cat(u, p), e) = Cat(u, Cat(p, e))
  BY <1>0 DEF Associative
<1>2. Cat(v, g) \in S /\ Cat(q, d) \in S /\ Cat(g, r) \in S
  BY <1>0 DEF Associative
<1>3. Cat(v, Cat(g, r)) \in S
  BY <1>0, <1>2 DEF Associative
<1>4. Cat(Cat(r, q), d) = Cat(r, Cat(q, d))
  BY <1>0 DEF Associative
<1>5. Cat(Cat(v, g), Cat(r, Cat(q, d))) = Cat(Cat(Cat(v, g), r), Cat(q, d))
  BY <1>0, <1>2 DEF Associative
<1>6. Cat(Cat(v, g), r) = Cat(v, Cat(g, r))
  BY <1>0 DEF Associative
<1>7. Cat(Cat(v, Cat(g, r)), Cat(q, d)) = Cat(Cat(Cat(v, Cat(g, r)), q), d)
  BY <1>0, <1>3 DEF Associative
<1> QED BY <1>0, <1>1, <1>4, <1>5, <1>6, <1>7

SameWay(a, x, f, p, e, b, y, g, r, q, d) ==
  (((a \o x) \o f) \o p) \o e = (((b \o y) \o (g \o r)) \o q) \o d

LEMMA Rearranged ==
  ASSUME NEW W, NEW a \in Seq(W), NEW x \in Seq(W), NEW f \in Seq(W), NEW p \in Seq(W),
         NEW e \in Seq(W), NEW b \in Seq(W), NEW y \in Seq(W), NEW g \in Seq(W),
         NEW r \in Seq(W), NEW q \in Seq(W), NEW d \in Seq(W),
         Cat(Cat(a, x), f) = Cat(Cat(b, y), g), Cat(p, e) = Cat(Cat(r, q), d)
  PROVE  SameWay(a, x, f, p, e, b, y, g, r, q, d)
<1> DEFINE S == Seq(W)
           u == Cat(Cat(a, x), f)
           v == Cat(b, y)
<1>1. Associative(S)
  BY SequencesAssociate
<1>2. /\ a \in S /\ x \in S /\ f \in S /\ b \in S /\ y \in S
      /\ p \in S /\ e \in S /\ g \in S /\ r \in S /\ q \in S /\ d \in S
  OBVIOUS
<1> HIDE DEF S
<1>3. u \in S /\ v \in S
  BY <1>1, <1>2, Zenon DEF Associative
<1>4. u = Cat(v, g)
  OBVIOUS
<1> HIDE DEF u, v
<1>5. SameParts(S, u, p, e, v, g, r, q, d)
  BY <1>1, <1>2, <1>3, <1>4, Zenon DEF SameParts
<1>6. Cat(Cat(u, p), e) = Cat(Cat(Cat(v, Cat(g, r)), q), d)
  BY <1>5, CatRearranged
<1> QED BY <1>6, Zenon DEF u, v, Cat, SameWay

-----------------------------------------------------------------------------
\* What an edge routes

\* What is left of the stream.
Onward(valid) == IF valid THEN CutOff(<<>>, stream) ELSE stream

\* What is there to route has been on its way, and is not lost from it.
RoutesOnward(r, valid) ==
  /\ r.messages \in Seq(Message) /\ r.refused = FALSE /\ r.updates \in Nat
  /\ Chain(Message, r.carry, Onward(valid)) /\ After(r.carry, Onward(valid)) = <<>>
  /\ \A c \in Cell : OfCell(pending, c) \o OfCell(Ends(stream), c)
                       = OfCell(r.messages, c) \o OfCell(Ends(Onward(valid)), c)

LEMMA StreamTyped ==
  ASSUME Streamed
  PROVE  /\ stream \in Seq(GranulesOf(Message)) /\ Ends(stream) \in Seq(Message)
BY EndsIsSeq DEF Streamed, Chain

LEMMA HeldIsRouted ==
  ASSUME Typed, Streamed, NEW brought \in 0 .. FlitUpdates
  PROVE  RoutesOnward(ToRoute(FALSE, brought), FALSE)
<1> DEFINE r == ToRoute(FALSE, brought)
<1>1. /\ r.messages = pending /\ r.refused = FALSE /\ r.updates = pendingUpdates
      /\ r.carry = carry
  BY DEF ToRoute
<1>2. Onward(FALSE) = stream
  BY DEF Onward
<1>3. pending \in Seq(Message) /\ pendingUpdates \in Nat
  BY DEF Typed
<1> HIDE DEF r
<1>4. RoutesOnward(r, FALSE)
  BY <1>1, <1>2, <1>3 DEF RoutesOnward, Streamed
<1> QED BY <1>4 DEF r

LEMMA FrameIsRouted ==
  ASSUME Typed, Streamed, ~Holding, NEW brought \in 0 .. FlitUpdates
  PROVE  RoutesOnward(ToRoute(TRUE, brought), TRUE)
<1> DEFINE r    == ToRoute(TRUE, brought)
           G    == GranulesOf(Message)
           f    == Frame
           rest == CutOff(<<>>, stream)
<1>1. stream \in Seq(G) /\ <<>> \in Seq(G) /\ Len(<<>>) <= FlitGranules
  BY StreamTyped, FramesAssumption
<1>2. /\ f \in Seq(G) /\ rest \in Seq(G) /\ f \o rest = stream
      /\ Len(f) <= FlitGranules /\ (Len(f) < FlitGranules => rest = <<>>)
  <2> HIDE DEF G
  <2>1. <<>> \o stream = stream
    BY <1>1
  <2> QED BY <1>1, <2>1, CutIs DEF Frame
<1>3. Onward(TRUE) = rest
  BY DEF Onward
<1> HIDE DEF f, rest
<1>4. Chain(Message, carry, f \o rest) /\ After(carry, f \o rest) = <<>>
  BY <1>2 DEF Streamed
<1>5. Chain(Message, carry, f) /\ Chain(Message, After(carry, f), rest)
  BY <1>2, <1>4, ChainJoined
<1>6. After(After(carry, f), rest) = <<>>
  <2> HIDE DEF G
  <2>1. f \in Seq(G) /\ rest \in Seq(G)
    BY <1>2
  <2>2. After(carry, f \o rest) = After(After(carry, f), rest)
    BY <2>1, AfterJoined
  <2> QED BY <1>4, <2>2
<1>7. Len(f) < FlitGranules => After(carry, f) = <<>>
  <2>1. ASSUME Len(f) < FlitGranules PROVE After(carry, f) = <<>>
    BY <1>2, <1>6, <2>1, ChainEmpty
  <2> QED BY <2>1
<1>8. Decoded(carry, f) = Decoding(After(carry, f), Ends(f))
  BY <1>2, <1>5, <1>7, DecodedIs
<1>9. /\ r.carry = After(carry, f) /\ r.messages = Ends(f) /\ r.refused = FALSE
      /\ r.updates = brought
  BY <1>8 DEF ToRoute, Decoding, f
<1>10. Ends(f) \in Seq(Message) /\ Ends(rest) \in Seq(Message) /\ Ends(stream) = Ends(f) \o Ends(rest)
  BY <1>2, EndsIsSeq, EndsJoined
<1>11. ASSUME NEW c \in Cell
       PROVE  OfCell(pending, c) \o OfCell(Ends(stream), c)
                = OfCell(Ends(f), c) \o OfCell(Ends(rest), c)
  <2>1. pending = <<>> /\ OfCell(pending, c) = <<>>
    BY OfCellEmpty DEF Holding
  <2>2. OfCell(Ends(stream), c) = OfCell(Ends(f), c) \o OfCell(Ends(rest), c)
    BY <1>10, OfCellOfJoined
  <2>3. OfCell(Ends(stream), c) \in Seq(What)
    BY OfCellTyped, StreamTyped
  <2>4. <<>> \o OfCell(Ends(stream), c) = OfCell(Ends(stream), c)
    BY <2>3
  <2> QED BY <2>1, <2>2, <2>4
<1>12. brought \in Nat
  BY ResponsePathAssumption
<1> HIDE DEF r
<1>13. RoutesOnward(r, TRUE)
  BY <1>3, <1>5, <1>6, <1>9, <1>10, <1>11, <1>12 DEF RoutesOnward
<1> QED BY <1>13 DEF r

LEMMA RoutedIs ==
  ASSUME NEW r, r.messages \in Seq(Message), r.updates \in Nat, updates \in 0 .. UpdateDepth
  PROVE  /\ Routed(r) \in 0 .. Len(r.messages)
         /\ RoutedUpdates(r.updates) \in 0 .. UpdateDepth /\ r.updates - RoutedUpdates(r.updates) \in Nat
<1>1. RoutedUpdates(r.updates) \in 0 .. UpdateDepth /\ r.updates - RoutedUpdates(r.updates) \in Nat
  BY Constants DEF RoutedUpdates
<1> DEFINE N == {n \in 0 .. Len(r.messages) : n <= UnpackMsgs /\ FitsInFifos(r.messages, n)}
<1>2. 0 \in N
  <2>1. SubSeq(r.messages, 1, 0) = <<>>
    BY SubSeqEmpty
  <2>2. FitsInFifos(r.messages, 0)
    BY <2>1, OfCellEmpty DEF FitsInFifos
  <2>3. 0 \in 0 .. Len(r.messages) /\ 0 <= UnpackMsgs
    BY Constants
  <2> QED BY <2>2, <2>3
<1>3. IsFiniteSet(N) /\ N \in SUBSET Nat
  <2>1. N \subseteq 0 .. Len(r.messages) /\ Len(r.messages) \in Nat
    OBVIOUS
  <2>2. IsFiniteSet(0 .. Len(r.messages))
    BY <2>1, FS_Interval
  <2> QED BY <2>1, <2>2, FS_Subset
<1>4. Max(N) \in N
  <2> HIDE DEF N
  <2>1. EndsFold!IsFiniteSet(N)
    BY <1>3 DEF IsFiniteSet, EndsFold!IsFiniteSet
  <2>2. EndsFold!Max(N) \in N
    BY <1>2, <1>3, <2>1, EndsFold!MaxIsElement
  <2> QED BY <2>2 DEF Max, EndsFold!Max
<1>5. Routed(r) = IF RoutedUpdates(r.updates) < r.updates THEN 0 ELSE Max(N)
  BY DEF Routed
<1>6. Max(N) \in 0 .. Len(r.messages) /\ 0 \in 0 .. Len(r.messages)
  BY <1>2, <1>4
<1> HIDE DEF N
<1> QED BY <1>1, <1>5, <1>6

-----------------------------------------------------------------------------
\* The B and R threads

LEMMA ChosenIsFilled ==
  ASSUME NEW k \in Kind, nextRp \in [Kind -> Rp], Filled(k) # {}
  PROVE  Chosen(k) \in Rp /\ fifo[<<Chosen(k), k>>] # <<>>
<1> DEFINE T == {Turns(rp, k) : rp \in Filled(k)}
<1>1. ASSUME NEW rp \in Filled(k) PROVE Turns(rp, k) \in Nat
  BY Constants DEF Turns, Filled, Rp
<1>2. T \in SUBSET Nat /\ T # {}
  BY <1>1
<1>3. PICK n \in T : \A m \in T : n <= m
  BY <1>2, EndsFold!LeastNumber
<1>4. PICK rp \in Filled(k) : n = Turns(rp, k)
  BY <1>3
<1>5. FirstFilled(rp, k)
  BY <1>3, <1>4 DEF FirstFilled
<1>6. rp \in Rp
  BY DEF Filled
<1>7. Chosen(k) \in Rp /\ FirstFilled(Chosen(k), k)
  BY <1>5, <1>6 DEF Chosen
<1> QED BY <1>7 DEF FirstFilled, Filled

LEMMA ActiveIs ==
  ASSUME Typed, NEW k \in Kind
  PROVE  active[k] = <<>> \/ \E m \in Message : active[k] = <<m>> /\ m[1][2] = k
<1>1. active[k] \in Seq(Message) /\ Len(active[k]) <= 1 /\ OfKind(k, active[k])
  BY DEF Typed
<1> DEFINE a == active[k]
<1> HIDE DEF a
<1>2. a \in Seq(Message) /\ Len(a) <= 1 /\ OfKind(k, a)
  BY <1>1 DEF a
<1>3. CASE Len(a) = 0
  <2>1. a = <<>>
    BY <1>2, <1>3
  <2> QED BY <2>1 DEF a
<1>4. CASE Len(a) = 1
  <2>1. a = <<a[1]>> /\ a[1] \in Message /\ 1 \in DOMAIN a
    BY <1>2, <1>4
  <2>2. a[1][1][2] = k
    BY <1>2, <2>1 DEF OfKind
  <2> QED BY <2>1, <2>2 DEF a
<1>5. Len(a) = 0 \/ Len(a) = 1
  <2> DEFINE n == Len(a)
  <2>1. n \in Nat /\ n <= 1
    BY <1>2
  <2> HIDE DEF n
  <2>2. n = 0 \/ n = 1
    BY <2>1
  <2> QED BY <2>2 DEF n
<1> QED BY <1>3, <1>4, <1>5

LEMMA MessageIs ==
  ASSUME NEW m \in Message
  PROVE  /\ m = <<m[1], m[2]>> /\ m[1] \in Cell /\ m[2] \in What
         /\ m[1] = <<m[1][1], m[1][2]>> /\ m[1][1] \in Rp /\ m[1][2] \in Kind
         /\ m[2] = <<m[2][1], m[2][2]>> /\ m[2][1] \in Nat /\ m[2][2] \in Nat
BY DEF Message, What, Cell

\* What a thread takes.
LEMMA TakenIs ==
  ASSUME Typed, NEW k \in Kind, NEW r \in BOOLEAN, Takes(k, r)
  PROVE  /\ Chosen(k) \in Rp /\ <<Chosen(k), k>> \in Cell
         /\ fifo[<<Chosen(k), k>>] # <<>>
         /\ Head(fifo[<<Chosen(k), k>>]) \in What
         /\ << <<Chosen(k), k>>, Head(fifo[<<Chosen(k), k>>]) >> \in Message
         /\ ActiveAfter(k, r) = << << <<Chosen(k), k>>, Head(fifo[<<Chosen(k), k>>]) >> >>
<1>1. Filled(k) # {} /\ nextRp \in [Kind -> Rp]
  BY DEF Takes, Typed
<1>2. Chosen(k) \in Rp /\ fifo[<<Chosen(k), k>>] # <<>>
  BY <1>1, ChosenIsFilled
<1> DEFINE d == <<Chosen(k), k>>
           f == fifo[d]
<1>3. d \in Cell
  BY <1>2, Constants
<1>4. f \in Seq(What)
  BY <1>3 DEF Typed
<1>5. Head(f) \in What
  <2> HIDE DEF f, d
  <2>1. f # <<>>
    BY <1>2 DEF f, d
  <2> QED BY <1>4, <2>1
<1>6. <<d, Head(f)>> \in Message
  <2> HIDE DEF f, d
  <2> QED BY <1>3, <1>5 DEF Message
<1> QED BY <1>2, <1>3, <1>5, <1>6, Zenon DEF ActiveAfter

LEMMA ActiveAfterIs ==
  ASSUME Typed, NEW k \in Kind, NEW r \in BOOLEAN
  PROVE  /\ ActiveAfter(k, r) \in Seq(Message) /\ Len(ActiveAfter(k, r)) <= 1
         /\ OfKind(k, ActiveAfter(k, r))
<1>1. CASE Takes(k, r)
  <2> DEFINE m == << <<Chosen(k), k>>, Head(fifo[<<Chosen(k), k>>]) >>
  <2>1. m \in Message /\ ActiveAfter(k, r) = <<m>> /\ m[1][2] = k
    BY <1>1, TakenIs
  <2> HIDE DEF m
  <2>2. <<m>> \in Seq(Message) /\ Len(<<m>>) = 1 /\ DOMAIN <<m>> = {1} /\ <<m>>[1] = m
    BY <2>1
  <2> QED BY <2>1, <2>2 DEF OfKind
<1>2. CASE ~Takes(k, r) /\ Handshake(k, r)
  <2>1. ActiveAfter(k, r) = <<>>
    BY <1>2 DEF ActiveAfter
  <2> QED BY <2>1 DEF OfKind
<1>3. CASE ~Takes(k, r) /\ ~Handshake(k, r)
  <2>1. ActiveAfter(k, r) = active[k]
    BY <1>3 DEF ActiveAfter
  <2> QED BY <2>1 DEF Typed
<1> QED BY <1>1, <1>2, <1>3

\* A guard counts down for the request whose last message is accepted.
Ends1(k, r, id) ==
  /\ Handshake(k, r) /\ IsLast(Head(active[k])[1], Head(active[k])[2])
  /\ RequestOf(Head(active[k])[1], Head(active[k])[2]).id = id

LEMMA RetiredIs ==
  ASSUME Typed, NEW k \in Kind, NEW r \in BOOLEAN
  PROVE  /\ Retired(k, r) \in [Id -> [rp : Rp, outstanding : Nat]]
         /\ \A id \in Id :
              /\ Retired(k, r)[id].rp = guard[k][id].rp
              /\ Retired(k, r)[id].outstanding
                   = IF Ends1(k, r, id) /\ guard[k][id].outstanding # 0
                     THEN guard[k][id].outstanding - 1 ELSE guard[k][id].outstanding
<1> DEFINE g == guard[k]
           x == RequestOf(Head(active[k])[1], Head(active[k])[2]).id
           last == Handshake(k, r) /\ IsLast(Head(active[k])[1], Head(active[k])[2])
<1>1. g \in [Id -> [rp : Rp, outstanding : Nat]]
  BY DEF Typed
<1>2. Retired(k, r) = IF last THEN [g EXCEPT ![x].outstanding = IF @ = 0 THEN 0 ELSE @ - 1] ELSE g
  BY Zenon DEF Retired
<1>3. \A id \in Id : Ends1(k, r, id) <=> last /\ x = id
  BY Zenon DEF Ends1
<1> HIDE DEF g, x, last
<1>4. CASE last
  <2> DEFINE h == [g EXCEPT ![x].outstanding = IF @ = 0 THEN 0 ELSE @ - 1]
  <2>1. Retired(k, r) = h
    BY <1>2, <1>4, Zenon
  <2>2. ASSUME NEW id \in Id
        PROVE  /\ h[id] \in [rp : Rp, outstanding : Nat] /\ h[id].rp = g[id].rp
               /\ h[id].outstanding = IF x = id /\ g[id].outstanding # 0
                                      THEN g[id].outstanding - 1 ELSE g[id].outstanding
    <3>1. g[id] \in [rp : Rp, outstanding : Nat]
      BY <1>1
    <3>2. CASE x = id
      <4>1. h[id] = [g[id] EXCEPT !.outstanding = IF @ = 0 THEN 0 ELSE @ - 1]
        BY <1>1, <3>2
      <4> HIDE DEF h
      <4> QED BY <3>1, <3>2, <4>1
    <3>3. CASE x # id
      <4>1. h[id] = g[id]
        BY <1>1, <3>3
      <4> HIDE DEF h
      <4> QED BY <3>1, <3>3, <4>1
    <3> QED BY <3>2, <3>3
  <2>3. h \in [Id -> [rp : Rp, outstanding : Nat]]
    <3>1. h = [id \in Id |-> h[id]]
      BY <1>1
    <3> HIDE DEF h
    <3> QED BY <2>2, <3>1
  <2> HIDE DEF h
  <2> QED BY <1>3, <1>4, <2>1, <2>2, <2>3 DEF g
<1>5. CASE ~last
  <2>1. Retired(k, r) = g
    BY <1>2, <1>5, Zenon
  <2> QED BY <1>1, <1>3, <1>5, <2>1 DEF g
<1> QED BY <1>4, <1>5

\* What a message in the register, its FIFO and the answers become.
Moves(A, X, F, B, Y, H) == \/ B = Cat(A, X) /\ Cat(Y, H) = F
                           \/ B = A /\ Y = X /\ H = F

LEMMA ThreadsMove ==
  ASSUME Typed, NEW ready \in [Kind -> BOOLEAN], Threads(ready), NEW c \in Cell
  PROVE  /\ Moves(OfCell(answered[c[2]], c), OfCell(active[c[2]], c), fifo[c],
                  OfCell(answered'[c[2]], c), OfCell(active'[c[2]], c), FifoAfterRead(c, ready))
         /\ FifoAfterRead(c, ready) \in Seq(What)
         /\ Len(OfCell(active[c[2]], c)) <= 1
         /\ \/ /\ credit'[c] = IF OfCell(active[c[2]], c) = <<>> THEN credit[c]
                               ELSE credit[c] + Granules[c[2]]
               /\ Cat(OfCell(active'[c[2]], c), FifoAfterRead(c, ready)) = fifo[c]
            \/ /\ credit'[c] = credit[c]
               /\ OfCell(active'[c[2]], c) = OfCell(active[c[2]], c)
               /\ FifoAfterRead(c, ready) = fifo[c]
<1> DEFINE k == c[2]
           r == ready[k]
           A == OfCell(answered[k], c)
           X == OfCell(active[k], c)
           F == fifo[c]
           B == OfCell(answered'[k], c)
           Y == OfCell(active'[k], c)
           H == FifoAfterRead(c, ready)
<1>1. k \in Kind /\ r \in BOOLEAN /\ c = <<c[1], k>> /\ c[1] \in Rp
  BY Constants
<1>2. /\ active'[k] = ActiveAfter(k, r)
      /\ answered'[k] = IF Handshake(k, r) THEN answered[k] \o active[k] ELSE answered[k]
      /\ credit'[c] = IF Handshake(k, r) /\ Head(active[k])[1] = c
                      THEN credit[c] + Granules[k] ELSE credit[c]
      /\ H = IF Takes(k, r) /\ Chosen(k) = c[1] THEN Tail(F) ELSE F
  BY <1>1 DEF Threads, FifoAfterRead
<1>3. answered[k] \in Seq(Message) /\ active[k] \in Seq(Message) /\ F \in Seq(What)
  BY <1>1 DEF Typed
<1>4. A \in Seq(What) /\ X \in Seq(What)
  BY <1>3, OfCellTyped
<1>5. /\ X = <<>> \/ Len(X) = 1
      /\ active[k] = <<>> => X = <<>>
      /\ active[k] # <<>> => (X # <<>> <=> Head(active[k])[1] = c)
  <2>1. CASE active[k] = <<>>
    BY <2>1, OfCellEmpty
  <2>2. CASE \E m \in Message : active[k] = <<m>> /\ m[1][2] = k
    <3>1. PICK m \in Message : active[k] = <<m>>
      BY <2>2
    <3>2. X = IF m[1] = c THEN <<m[2]>> ELSE <<>>
      BY <3>1, OfCellOfOne
    <3>3. Head(active[k]) = m /\ active[k] # <<>>
      BY <3>1
    <3>4. <<m[2]>> # <<>> /\ Len(<<m[2]>>) = 1
      OBVIOUS
    <3> HIDE DEF X
    <3> QED BY <3>2, <3>3, <3>4
  <2> QED BY <1>1, <2>1, <2>2, ActiveIs
<1>6. Handshake(k, r) => B = Cat(A, X)
  <2>1. OfCell(answered[k] \o active[k], c) = A \o X
    BY <1>3, OfCellOfJoined
  <2> QED BY <1>2, <2>1 DEF Cat
<1>7. ~Handshake(k, r) => B = A
  BY <1>2
<1>8. Cat(A, <<>>) = A /\ Cat(<<>>, F) = F
  BY <1>3, <1>4 DEF Cat
<1>9. ~Handshake(k, r) /\ Takes(k, r) => active[k] = <<>>
  BY DEF Handshake, Takes
<1>10. Takes(k, r) => Cat(Y, H) = F /\ H \in Seq(What)
  <2> SUFFICES ASSUME Takes(k, r) PROVE Cat(Y, H) = F /\ H \in Seq(What)
    OBVIOUS
  <2> DEFINE d == <<Chosen(k), k>>
             m == <<d, Head(fifo[d])>>
  <2>1. m \in Message /\ active'[k] = <<m>> /\ fifo[d] # <<>> /\ m[1] = d /\ m[2] = Head(fifo[d])
    BY <1>1, <1>2, TakenIs
  <2>2. Y = IF d = c THEN <<Head(fifo[d])>> ELSE <<>>
    <3> HIDE DEF m
    <3> QED BY <2>1, OfCellOfOne
  <2>3. CASE d = c
    <3>1. Chosen(k) = c[1]
      BY <1>1, <2>3
    <3>2. Y = <<Head(F)>> /\ H = Tail(F) /\ F # <<>>
      BY <1>2, <2>1, <2>2, <2>3, <3>1
    <3>3. <<Head(F)>> \o Tail(F) = F /\ Tail(F) \in Seq(What)
      <4> HIDE DEF F
      <4>1. F # <<>>
        BY <3>2
      <4> QED BY <1>3, <4>1
    <3> QED BY <3>2, <3>3, Zenon DEF Cat
  <2>4. CASE d # c
    <3>1. Chosen(k) # c[1]
      BY <1>1, <2>4
    <3>2. Y = <<>> /\ H = F
      BY <1>2, <2>2, <2>4, <3>1
    <3> QED BY <1>3, <1>8, <3>2, Zenon
  <2> QED BY <2>3, <2>4
<1>11. ~Takes(k, r) => H = F
  BY <1>2
<1>12. ~Takes(k, r) => Y = IF Handshake(k, r) THEN <<>> ELSE X
  BY <1>2, OfCellEmpty DEF ActiveAfter
<1>13. credit'[c] = IF Handshake(k, r) /\ X # <<>> THEN credit[c] + Granules[k] ELSE credit[c]
  BY <1>2, <1>5 DEF Handshake
<1> HIDE DEF A, X, F, B, Y, H, k, r
<1>14. Len(X) <= 1
  <2>1. CASE X = <<>>
    BY <2>1
  <2>2. CASE Len(X) = 1
    BY <2>2
  <2> QED BY <1>5, <2>1, <2>2, Zenon
<1>15. CASE Handshake(k, r)
  <2>1. B = Cat(A, X) /\ Cat(Y, H) = F /\ H \in Seq(What)
    BY <1>3, <1>6, <1>8, <1>10, <1>11, <1>12, <1>15
  <2>2. credit'[c] = IF X = <<>> THEN credit[c] ELSE credit[c] + Granules[k]
    BY <1>13, <1>15
  <2> QED BY <1>14, <2>1, <2>2, Zenon DEF Moves, A, X, F, B, Y, H, k, r
<1>16. CASE ~Handshake(k, r) /\ Takes(k, r)
  <2>1. B = Cat(A, X) /\ Cat(Y, H) = F /\ H \in Seq(What) /\ X = <<>>
    BY <1>5, <1>7, <1>8, <1>9, <1>10, <1>16
  <2>2. credit'[c] = IF X = <<>> THEN credit[c] ELSE credit[c] + Granules[k]
    BY <1>13, <1>16, <2>1
  <2> QED BY <1>14, <2>1, <2>2, Zenon DEF Moves, A, X, F, B, Y, H, k, r
<1>17. CASE ~Handshake(k, r) /\ ~Takes(k, r)
  <2>1. B = A /\ Y = X /\ H = F
    BY <1>7, <1>11, <1>12, <1>17
  <2>2. credit'[c] = credit[c]
    BY <1>13, <1>17
  <2> QED BY <1>3, <1>14, <2>1, <2>2, Zenon DEF Moves, A, X, F, B, Y, H, k, r
<1> QED BY <1>15, <1>16, <1>17

-----------------------------------------------------------------------------
\* What the steps do

\* An edge with what it routes.
Routes(r, n, valid, ready) ==
  /\ RoutesOnward(r, valid) /\ n \in 0 .. Len(r.messages)
  /\ Threads(ready)
  /\ carry' = r.carry /\ refused' = FALSE /\ stream' = Onward(valid)
  /\ pending' = Rest(r, n) /\ pendingUpdates' \in Nat /\ updates' \in 0 .. UpdateDepth
  /\ fifo' = [c \in Cell |-> FifoAfterRead(c, ready) \o OfCell(SubSeq(r.messages, 1, n), c)]
  /\ UNCHANGED <<accepted, reported, todo, burst, sent>>

LEMMA EdgeRoutes ==
  ASSUME Typed, Streamed, NEW valid \in BOOLEAN, NEW brought \in 0 .. FlitUpdates, NEW ready,
         Edge(valid, brought, ready)
  PROVE  \E r, n : Routes(r, n, valid, ready)
<1> DEFINE r == ToRoute(valid, brought)
           n == Routed(r)
<1>1. RoutesOnward(r, valid)
  <2>1. CASE valid = TRUE
    <3>1. ~Holding
      BY <2>1 DEF Edge
    <3> QED BY <2>1, <3>1, FrameIsRouted
  <2>2. CASE valid = FALSE
    BY <2>2, HeldIsRouted
  <2> QED BY <2>1, <2>2
<1>2. /\ carry' = r.carry /\ refused' = (refused \/ r.refused) /\ pending' = Rest(r, n)
      /\ pendingUpdates' = r.updates - RoutedUpdates(r.updates)
      /\ updates' = RoutedUpdates(r.updates)
      /\ fifo' = [c \in Cell |-> FifoAfterRead(c, ready) \o OfCell(SubSeq(r.messages, 1, n), c)]
      /\ Threads(ready) /\ stream' = Onward(valid)
      /\ UNCHANGED <<accepted, reported, todo, burst, sent>>
  BY DEF Edge, Onward
<1> HIDE DEF r
<1>3. /\ n \in 0 .. Len(r.messages) /\ RoutedUpdates(r.updates) \in 0 .. UpdateDepth
      /\ r.updates - RoutedUpdates(r.updates) \in Nat
  BY <1>1, RoutedIs DEF RoutesOnward, Typed
<1>4. refused' = FALSE
  BY <1>1, <1>2 DEF RoutesOnward, Typed
<1> HIDE DEF n
<1>5. Routes(r, n, valid, ready)
  BY <1>1, <1>2, <1>3, <1>4, Zenon DEF Routes
<1> QED BY <1>5

LEMMA EdgesRoute ==
  ASSUME Typed, Streamed, Frames \/ NoFrames
  PROVE  \E r, n, valid, ready :
           /\ valid \in BOOLEAN /\ ready \in [Kind -> BOOLEAN] /\ Routes(r, n, valid, ready)
<1>1. CASE Frames
  <2>1. PICK ready \in [Kind -> BOOLEAN], brought \in 0 .. FlitUpdates : Edge(TRUE, brought, ready)
    BY <1>1 DEF Frames
  <2>2. \E r, n : Routes(r, n, TRUE, ready)
    BY <2>1, EdgeRoutes
  <2> QED BY <2>2
<1>2. CASE NoFrames
  <2>1. PICK ready \in [Kind -> BOOLEAN] : Edge(FALSE, 0, ready)
    BY <1>2 DEF NoFrames
  <2>2. 0 \in 0 .. FlitUpdates
    BY ResponsePathAssumption
  <2>3. \E r, n : Routes(r, n, FALSE, ready)
    BY <2>1, <2>2, EdgeRoutes
  <2> QED BY <2>3
<1> QED BY <1>1, <1>2

LEMMA RoutesIs ==
  ASSUME Typed, NEW r, NEW n, NEW valid \in BOOLEAN, NEW ready, Routes(r, n, valid, ready)
  PROVE  /\ SubSeq(r.messages, 1, n) \in Seq(Message) /\ pending' \in Seq(Message)
         /\ SubSeq(r.messages, 1, n) \o pending' = r.messages
         /\ stream' \in Seq(GranulesOf(Message)) /\ Ends(stream') \in Seq(Message)
<1>1. r.messages \in Seq(Message) /\ n \in 0 .. Len(r.messages)
  BY DEF Routes, RoutesOnward
<1>2. pending' = SubSeq(r.messages, n + 1, Len(r.messages))
  BY DEF Routes, Rest
<1>3. stream' \in Seq(GranulesOf(Message))
  BY DEF Routes, RoutesOnward, Chain
<1>4. Ends(stream') \in Seq(Message)
  BY <1>3, EndsIsSeq
<1>5. /\ SubSeq(r.messages, 1, n) \in Seq(Message)
      /\ SubSeq(r.messages, n + 1, Len(r.messages)) \in Seq(Message)
      /\ SubSeq(r.messages, 1, n) \o SubSeq(r.messages, n + 1, Len(r.messages)) = r.messages
  BY <1>1, SplitAt
<1> QED BY <1>2, <1>3, <1>4, <1>5

\* What AW or AR changes when it accepts a request.
Accepts(k, n, q) ==
  /\ n = accepted[k] + 1 /\ n \in 1 .. Len(Requests[k]) /\ q = Requests[k][n]
  /\ q.id \in Id /\ q.rp \in Rp /\ <<q.rp, k>> \in Cell
  /\ accepted' = [accepted EXCEPT ![k] = n]
  /\ Bind(k, q.id, q.rp)
  /\ todo' = [todo EXCEPT ![<<q.rp, k>>] = Append(@, n)]
  /\ UNCHANGED <<answered, burst, sent, stream, credit, bridgeVars>>

LEMMA AcceptIs ==
  ASSUME Typed, NEW k \in Kind, Accept(k)
  PROVE  \E n, q : Accepts(k, n, q)
<1> DEFINE n == accepted[k] + 1
           q == Requests[k][n]
<1>1. accepted[k] \in Nat /\ Len(Requests[k]) \in Nat
  BY Constants DEF Typed
<1>2. n \in 1 .. Len(Requests[k])
  BY <1>1 DEF Accept
<1>3. q.id \in Id /\ q.rp \in Rp
  BY <1>2, RequestIs
<1>4. <<q.rp, k>> \in Cell
  BY <1>3, Constants
<1>5. Accepts(k, n, q)
  BY <1>2, <1>3, <1>4, Zenon DEF Accept, Accepts
<1> QED BY <1>5

\* The entry of a guard after a request.
Bound(k, id, rp) ==
  [rp |-> IF guard[k][id].outstanding # 0 /\ guard[k][id].rp # rp THEN guard[k][id].rp ELSE rp,
   outstanding |-> guard[k][id].outstanding + 1]

LEMMA BindIs ==
  ASSUME Typed, NEW k \in Kind, NEW id \in Id, NEW rp \in Rp, Bind(k, id, rp)
  PROVE  /\ guard' \in [Kind -> [Id -> [rp : Rp, outstanding : Nat]]]
         /\ \A l \in Kind, i \in Id :
              guard'[l][i] = IF l = k /\ i = id THEN Bound(k, id, rp) ELSE guard[l][i]
         /\ reported' \in BOOLEAN
         /\ reported' <=> reported \/ (guard[k][id].outstanding # 0 /\ guard[k][id].rp # rp)
<1> DEFINE R == [rp : Rp, outstanding : Nat]
           b == Bound(k, id, rp)
<1>1. guard \in [Kind -> [Id -> R]]
  BY DEF Typed
<1>2. guard[k] \in [Id -> R] /\ guard[k][id] \in R
  BY <1>1
<1>3. b \in R
  BY <1>2 DEF Bound
<1>4. guard' = [guard EXCEPT ![k][id] = b]
  <2>1. guard' = [guard EXCEPT ![k][id] =
                   [rp |-> IF guard[k][id].outstanding # 0 /\ guard[k][id].rp # rp
                           THEN guard[k][id].rp ELSE rp,
                    outstanding |-> guard[k][id].outstanding + 1]]
    BY DEF Bind
  <2> QED BY <2>1 DEF Bound
<1>5. reported' = (reported \/ (guard[k][id].outstanding # 0 /\ guard[k][id].rp # rp))
  BY Zenon DEF Bind
<1> HIDE DEF R, b
<1>6. guard' \in [Kind -> [Id -> R]]
  BY <1>1, <1>3, <1>4
<1>7. \A l \in Kind, i \in Id : guard'[l][i] = IF l = k /\ i = id THEN b ELSE guard[l][i]
  BY <1>1, <1>4
<1>8. reported' \in BOOLEAN
        /\ (reported' <=> reported \/ (guard[k][id].outstanding # 0 /\ guard[k][id].rp # rp))
  BY <1>5, Zenon
<1> QED BY <1>6, <1>7, <1>8, Zenon DEF R, b

\* The message that the target sends.
LEMMA MessageSent ==
  ASSUME Typed, Queued, NEW c \in Cell, Respond(c)
  PROVE  /\ burst[c] \in What /\ <<c, burst[c]>> \in Message
         /\ burst[c][1] \in Home(c) /\ burst[c][1] \in 1 .. Len(Requests[c[2]])
         /\ burst[c][2] \in 1 .. Requests[c[2]][burst[c][1]].beats
         /\ burst'[c] \in What
<1>1. c[2] \in Kind /\ accepted[c[2]] \in Nat /\ accepted[c[2]] <= Len(Requests[c[2]])
      /\ Len(Requests[c[2]]) \in Nat /\ burst[c] \in What
  BY Constants DEF Typed
<1>2. burst[c] # NoBurst
  BY DEF Respond
<1>3. /\ burst[c][1] \in Home(c)
      /\ burst[c][2] \in 1 .. Requests[c[2]][burst[c][1]].beats
  BY <1>2 DEF Queued
<1>4. burst[c][1] \in 1 .. Len(Requests[c[2]])
  BY <1>1, <1>3 DEF Home
<1>5. <<c, burst[c]>> \in Message
  BY <1>1 DEF Message
<1>6. burst'[c] \in What
  <2>1. burst'[c] = IF IsLast(c, burst[c]) THEN NoBurst ELSE <<burst[c][1], burst[c][2] + 1>>
    BY DEF Respond, Typed
  <2>2. NoBurst \in What
    BY DEF NoBurst, What
  <2>3. <<burst[c][1], burst[c][2] + 1>> \in What
    BY <1>1 DEF What
  <2> QED BY <2>1, <2>2, <2>3
<1> QED BY <1>1, <1>3, <1>4, <1>5, <1>6

-----------------------------------------------------------------------------
\* Types

LEMMA AcceptTyped ==
  ASSUME Typed, NEW k \in Kind, Accept(k)
  PROVE  Typed'
<1>1. PICK n, q : Accepts(k, n, q)
  BY AcceptIs
<1>2. /\ n \in Nat /\ n <= Len(Requests[k]) /\ q.id \in Id /\ q.rp \in Rp /\ Bind(k, q.id, q.rp)
      /\ accepted' = [accepted EXCEPT ![k] = n]
      /\ todo' = [todo EXCEPT ![<<q.rp, k>>] = Append(@, n)] /\ <<q.rp, k>> \in Cell
      /\ UNCHANGED <<answered, burst, sent, stream, credit, bridgeVars>>
  BY <1>1 DEF Accepts
<1>3. guard' \in [Kind -> [Id -> [rp : Rp, outstanding : Nat]]] /\ reported' \in BOOLEAN
  BY <1>2, BindIs
<1>4. accepted' \in [Kind -> Nat] /\ \A l \in Kind : accepted'[l] <= Len(Requests[l])
  BY <1>2 DEF Typed
<1>5. todo' \in [Cell -> Seq(Nat)]
  <2>1. todo \in [Cell -> Seq(Nat)] /\ Append(todo[<<q.rp, k>>], n) \in Seq(Nat)
    BY <1>2 DEF Typed
  <2> QED BY <1>2, <2>1
<1> QED BY <1>2, <1>3, <1>4, <1>5 DEF Typed, bridgeVars

\* Taking an element out of a sequence.
LEMMA Removed ==
  ASSUME NEW S, NEW s \in Seq(S), NEW i \in 1 .. Len(s)
  PROVE  /\ RemoveAt(s, i) \in Seq(S) /\ Len(RemoveAt(s, i)) = Len(s) - 1
         /\ \A j \in 1 .. Len(s) - 1 : RemoveAt(s, i)[j] = IF j < i THEN s[j] ELSE s[j + 1]
<1> DEFINE r == RemoveAt(s, i)
<1>1. Len(s) \in Nat /\ i \in Nat /\ i >= 1 /\ i <= Len(s)
  OBVIOUS
<1>2. r = SubSeq(s, 1, i - 1) \o SubSeq(s, i + 1, Len(s))
  BY DEF RemoveAt
<1> DEFINE a == SubSeq(s, 1, i - 1)
           b == SubSeq(s, i + 1, Len(s))
<1>3. a \in Seq(S) /\ Len(a) = i - 1 /\ \A j \in 1 .. i - 1 : a[j] = s[j]
  BY <1>1
<1>4. b \in Seq(S) /\ Len(b) = Len(s) - i /\ \A j \in 1 .. Len(s) - i : b[j] = s[i + j]
  BY <1>1
<1> HIDE DEF a, b, r
<1>0. r = a \o b
  BY <1>2 DEF a, b
<1>5. r \in Seq(S) /\ Len(r) = Len(s) - 1
  <2>0. a \in Seq(S) /\ b \in Seq(S)
    BY <1>3, <1>4
  <2>1. a \o b \in Seq(S) /\ Len(a \o b) = Len(a) + Len(b)
    BY <2>0
  <2>2. r \in Seq(S) /\ Len(r) = Len(a) + Len(b)
    BY <1>0, <2>1, Zenon
  <2>3. Len(a) + Len(b) = Len(s) - 1
    BY <1>1, <1>3, <1>4
  <2> QED BY <2>2, <2>3, Zenon
<1>6. ASSUME NEW j \in 1 .. Len(s) - 1 PROVE r[j] = IF j < i THEN s[j] ELSE s[j + 1]
  <2>0. r = a \o b
    BY <1>0
  <2>1. CASE j < i
    BY <1>1, <1>3, <1>4, <2>0, <2>1
  <2>2. CASE ~(j < i)
    <3>1. j - (i - 1) \in 1 .. Len(s) - i /\ i + (j - (i - 1)) = j + 1
      BY <1>1, <2>2
    <3>2. r[j] = b[j - (i - 1)]
      BY <1>1, <1>3, <1>4, <2>0, <2>2
    <3>3. b[j - (i - 1)] = s[i + (j - (i - 1))]
      BY <1>4, <3>1
    <3> QED BY <2>2, <3>1, <3>2, <3>3
  <2> QED BY <2>1, <2>2
<1> QED BY <1>5, <1>6 DEF r

\* The request that the target begins to answer.
Begins(c, i) ==
  /\ burst[c] = NoBurst /\ i \in 1 .. Len(todo[c]) /\ todo[c][i] \in Nat
  /\ \A j \in 1 .. i - 1 : ~SameId(c[2], todo[c][j], todo[c][i])
  /\ burst' = [burst EXCEPT ![c] = <<todo[c][i], 1>>]
  /\ todo' = [todo EXCEPT ![c] = RemoveAt(@, i)]
  /\ UNCHANGED <<axiVars, answered, sent, stream, credit, bridgeVars>>

LEMMA BeginIs ==
  ASSUME Typed, NEW c \in Cell, Begin(c)
  PROVE  \E i : Begins(c, i)
<1>1. todo[c] \in Seq(Nat)
  BY DEF Typed
<1>2. PICK i \in DOMAIN todo[c] :
        /\ \A j \in 1 .. i - 1 : Requests[c[2]][todo[c][j]].id # Requests[c[2]][todo[c][i]].id
        /\ burst' = [burst EXCEPT ![c] = <<todo[c][i], 1>>]
        /\ todo' = [todo EXCEPT ![c] = RemoveAt(@, i)]
  BY DEF Begin
<1>3. i \in 1 .. Len(todo[c]) /\ todo[c][i] \in Nat
  BY <1>1, <1>2
<1>4. /\ burst[c] = NoBurst
      /\ UNCHANGED <<axiVars, answered, sent, stream, credit, bridgeVars>>
  BY DEF Begin
<1>5. Begins(c, i)
  BY <1>2, <1>3, <1>4, Zenon DEF Begins, SameId
<1> QED BY <1>5

LEMMA BeginTyped ==
  ASSUME Typed, NEW c \in Cell, Begin(c)
  PROVE  Typed'
<1>1. PICK i : Begins(c, i)
  BY BeginIs
<1>2. /\ i \in 1 .. Len(todo[c]) /\ todo[c][i] \in Nat
      /\ burst' = [burst EXCEPT ![c] = <<todo[c][i], 1>>]
      /\ todo' = [todo EXCEPT ![c] = RemoveAt(@, i)]
      /\ UNCHANGED <<axiVars, answered, sent, stream, credit, bridgeVars>>
  BY <1>1 DEF Begins
<1>3. burst' \in [Cell -> What]
  <2>1. burst \in [Cell -> What] /\ <<todo[c][i], 1>> \in What
    BY <1>2 DEF Typed, What
  <2> QED BY <1>2, <2>1
<1>4. todo' \in [Cell -> Seq(Nat)]
  <2>1. todo \in [Cell -> Seq(Nat)] /\ todo[c] \in Seq(Nat)
    BY DEF Typed
  <2>2. RemoveAt(todo[c], i) \in Seq(Nat)
    BY <1>2, <2>1, Removed
  <2> QED BY <1>2, <2>1, <2>2
<1> QED BY <1>2, <1>3, <1>4 DEF Typed, axiVars, bridgeVars

LEMMA RespondTyped ==
  ASSUME Typed, Queued, NEW c \in Cell, Respond(c)
  PROVE  Typed'
<1>1. burst[c] \in What /\ burst'[c] \in What
  BY MessageSent
<1>2. /\ credit[c] >= Granules[c[2]]
      /\ credit' = [credit EXCEPT ![c] = @ - Granules[c[2]]]
      /\ sent' = [sent EXCEPT ![c] = Append(@, burst[c])]
      /\ burst' = [burst EXCEPT ![c] = burst'[c]]
      /\ UNCHANGED <<axiVars, answered, todo, bridgeVars>>
  BY DEF Respond, Typed
<1>3. credit' \in [Cell -> Nat]
  <2>1. credit \in [Cell -> Nat] /\ Granules[c[2]] \in Nat
    BY Constants DEF Typed
  <2>2. credit[c] - Granules[c[2]] \in Nat
    BY <1>2, <2>1
  <2> QED BY <1>2, <2>1, <2>2
<1>4. sent' \in [Cell -> Seq(What)]
  <2>1. sent \in [Cell -> Seq(What)] /\ Append(sent[c], burst[c]) \in Seq(What)
    BY <1>1 DEF Typed
  <2> QED BY <1>2, <2>1
<1>5. burst' \in [Cell -> What]
  <2>1. burst \in [Cell -> What]
    BY DEF Typed
  <2> QED BY <1>1, <1>2, <2>1
<1> QED BY <1>2, <1>3, <1>4, <1>5 DEF Typed, axiVars, bridgeVars

LEMMA RoutesTyped ==
  ASSUME Typed, NEW r, NEW n, NEW valid \in BOOLEAN, NEW ready \in [Kind -> BOOLEAN],
         Routes(r, n, valid, ready)
  PROVE  Typed'
<1>0. Threads(ready)
  BY DEF Routes
<1>1. /\ active' = [k \in Kind |-> ActiveAfter(k, ready[k])]
      /\ nextRp' = [k \in Kind |-> IF Takes(k, ready[k]) THEN (Chosen(k) + 1) % RpCount
                                                         ELSE nextRp[k]]
      /\ guard' = [k \in Kind |-> Retired(k, ready[k])]
      /\ answered' = [k \in Kind |-> IF Handshake(k, ready[k]) THEN answered[k] \o active[k]
                                                                ELSE answered[k]]
      /\ credit' = [c \in Cell |->
           IF Handshake(c[2], ready[c[2]]) /\ Head(active[c[2]])[1] = c
           THEN credit[c] + Granules[c[2]] ELSE credit[c]]
  BY <1>0 DEF Threads
<1>2. \A k \in Kind : ready[k] \in BOOLEAN
  OBVIOUS
<1>3. /\ active' \in [Kind -> Seq(Message)]
      /\ \A k \in Kind : OfKind(k, active'[k]) /\ Len(active'[k]) <= 1
  <2>1. \A k \in Kind : /\ ActiveAfter(k, ready[k]) \in Seq(Message)
                        /\ Len(ActiveAfter(k, ready[k])) <= 1
                        /\ OfKind(k, ActiveAfter(k, ready[k]))
    BY <1>2, ActiveAfterIs
  <2> QED BY <1>1, <2>1
<1>4. nextRp' \in [Kind -> Rp]
  <2>1. ASSUME NEW k \in Kind
        PROVE  (IF Takes(k, ready[k]) THEN (Chosen(k) + 1) % RpCount ELSE nextRp[k]) \in Rp
    <3>1. CASE Takes(k, ready[k])
      <4>1. Chosen(k) \in Rp
        BY <1>2, <3>1, TakenIs
      <4>2. (Chosen(k) + 1) % RpCount \in Rp
        BY <4>1, Constants DEF Rp
      <4> QED BY <3>1, <4>2
    <3>2. CASE ~Takes(k, ready[k])
      BY <3>2 DEF Typed
    <3> QED BY <3>1, <3>2
  <2> QED BY <1>1, <2>1
<1>5. guard' \in [Kind -> [Id -> [rp : Rp, outstanding : Nat]]]
  <2>1. \A k \in Kind : Retired(k, ready[k]) \in [Id -> [rp : Rp, outstanding : Nat]]
    BY <1>2, RetiredIs
  <2> HIDE DEF Id
  <2> QED BY <1>1, <2>1
<1>6. answered' \in [Kind -> Seq(Message)] /\ \A k \in Kind : OfKind(k, answered'[k])
  <2>1. ASSUME NEW k \in Kind
        PROVE  answered'[k] \in Seq(Message) /\ OfKind(k, answered'[k])
    <3>1. CASE Handshake(k, ready[k])
      <4> DEFINE a == answered[k]
                 b == active[k]
      <4>1. answered'[k] = a \o b
        BY <1>1, <3>1
      <4>2. a \in Seq(Message) /\ b \in Seq(Message) /\ OfKind(k, a) /\ OfKind(k, b)
        BY DEF Typed
      <4> HIDE DEF a, b
      <4>3. OfKind(k, a \o b)
        <5>1. a \o b \in Seq(Message) /\ Len(a \o b) = Len(a) + Len(b)
          BY <4>2
        <5>2. ASSUME NEW i \in 1 .. Len(a) + Len(b) PROVE (a \o b)[i][1][2] = k
          <6>1. CASE i <= Len(a)
            <7>1. (a \o b)[i] = a[i] /\ i \in DOMAIN a
              BY <4>2, <6>1
            <7> QED BY <4>2, <7>1 DEF OfKind
          <6>2. CASE ~(i <= Len(a))
            <7>1. (a \o b)[i] = b[i - Len(a)] /\ i - Len(a) \in DOMAIN b
              BY <4>2, <6>2
            <7> QED BY <4>2, <7>1 DEF OfKind
          <6> QED BY <6>1, <6>2
        <5> QED BY <5>1, <5>2 DEF OfKind
      <4>4. a \o b \in Seq(Message)
        BY <4>2
      <4> QED BY <4>1, <4>3, <4>4
    <3>2. CASE ~Handshake(k, ready[k])
      BY <1>1, <3>2 DEF Typed
    <3> QED BY <3>1, <3>2
  <2>2. answered' = [k \in Kind |-> answered'[k]]
    BY <1>1
  <2> QED BY <2>1, <2>2
<1>7. credit' \in [Cell -> Nat]
  <2>1. \A c \in Cell : credit[c] \in Nat /\ Granules[c[2]] \in Nat
    BY Constants DEF Typed
  <2> QED BY <1>1, <2>1
<1>8. fifo' \in [Cell -> Seq(What)]
  <2>1. ASSUME NEW c \in Cell
        PROVE  FifoAfterRead(c, ready) \o OfCell(SubSeq(r.messages, 1, n), c) \in Seq(What)
    <3>1. FifoAfterRead(c, ready) \in Seq(What)
      BY <1>0, ThreadsMove
    <3>2. OfCell(SubSeq(r.messages, 1, n), c) \in Seq(What)
      BY RoutesIs, OfCellTyped
    <3> QED BY <3>1, <3>2
  <2> QED BY <2>1 DEF Routes
<1>9. /\ pending' \in Seq(Message) /\ pendingUpdates' \in Nat /\ updates' \in 0 .. UpdateDepth
      /\ refused' = FALSE
  BY RoutesIs DEF Routes
<1>10. UNCHANGED <<accepted, reported, todo, burst, sent>>
  BY DEF Routes
<1> QED BY <1>3, <1>4, <1>5, <1>6, <1>7, <1>8, <1>9, <1>10 DEF Typed

-----------------------------------------------------------------------------
\* The stream

LEMMA CatAssociates ==
  ASSUME NEW W, NEW s \in Seq(W), NEW t \in Seq(W), NEW u \in Seq(W)
  PROVE  Cat(Cat(s, t), u) = Cat(s, Cat(t, u))
<1> DEFINE S == Seq(W)
<1>1. Associative(S)
  BY SequencesAssociate
<1>2. s \in S /\ t \in S /\ u \in S
  OBVIOUS
<1> HIDE DEF S
<1> QED BY <1>1, <1>2 DEF Associative

AppendsBehind(s, t, w) == Append(s \o t, w) = s \o Append(t, w)

LEMMA AppendToJoined ==
  ASSUME NEW W, NEW s \in Seq(W), NEW t \in Seq(W), NEW w \in W
  PROVE  AppendsBehind(s, t, w)
<1>1. s \o t \in Seq(W) /\ Append(t, w) \in Seq(W)
  OBVIOUS
<1>2. Append(s \o t, w) = (s \o t) \o <<w>> /\ Append(t, w) = t \o <<w>> /\ <<w>> \in Seq(W)
  BY <1>1
<1>3. Cat(Cat(s, t), <<w>>) = Cat(s, Cat(t, <<w>>))
  <2> DEFINE v == <<w>>
  <2>1. v \in Seq(W)
    OBVIOUS
  <2> HIDE DEF v
  <2>2. Cat(Cat(s, t), v) = Cat(s, Cat(t, v))
    BY <2>1, CatAssociates
  <2> QED BY <2>2 DEF v
<1> QED BY <1>2, <1>3, Zenon DEF Cat, AppendsBehind

\* What the target sends is the last message to come out of the stream.
LEMMA RespondStreamed ==
  ASSUME Typed, Streamed, Queued, NEW c \in Cell, Respond(c)
  PROVE  Streamed' /\ Ends(stream') = Append(Ends(stream), <<c, burst[c]>>)
<1> DEFINE m == <<c, burst[c]>>
           p == PartsOf(m, Granules[c[2]])
           G == GranulesOf(Message)
<1>1. m \in Message
  BY MessageSent
<1>2. Granules[c[2]] \in Nat \ {0}
  BY Constants
<1>3. stream' = stream \o p /\ carry' = carry
  BY DEF Respond, bridgeVars
<1>4. stream \in Seq(G) /\ Ends(stream) \in Seq(Message)
  BY StreamTyped
<1>5. p \in Seq(G) /\ Chain(Message, <<>>, p) /\ After(<<>>, p) = <<>> /\ Ends(p) = <<m>>
  <2> HIDE DEF m
  <2> QED BY <1>1, <1>2, PartsChain, EndsOfParts
<1> HIDE DEF m, p
<1>6. After(carry, stream \o p) = After(After(carry, stream), p)
  BY <1>4, <1>5, AfterJoined
<1>7. After(carry, stream) = <<>> /\ Chain(Message, carry, stream)
  BY DEF Streamed
<1>8. Chain(Message, carry, stream \o p)
  BY <1>4, <1>5, <1>7, ChainJoined
<1>9. Ends(stream \o p) = Ends(stream) \o <<m>>
  BY <1>4, <1>5, EndsJoined
<1>10. Ends(stream) \o <<m>> = Append(Ends(stream), m)
  BY <1>1, <1>4
<1> QED BY <1>3, <1>5, <1>6, <1>7, <1>8, <1>9, <1>10, Zenon DEF Streamed, m

LEMMA RoutesStreamed ==
  ASSUME NEW r, NEW n, NEW valid, NEW ready, Routes(r, n, valid, ready)
  PROVE  Streamed'
<1>1. carry' = r.carry /\ stream' = Onward(valid)
  BY DEF Routes
<1>2. Chain(Message, r.carry, Onward(valid)) /\ After(r.carry, Onward(valid)) = <<>>
  BY DEF Routes, RoutesOnward
<1> QED BY <1>1, <1>2, Zenon DEF Streamed

-----------------------------------------------------------------------------
\* The order in which responses arrive

\* The messages of a cell that are on their way, as sequences.
LEMMA WayTyped ==
  ASSUME Typed, Streamed, NEW c \in Cell
  PROVE  /\ OfCell(answered[c[2]], c) \in Seq(What) /\ OfCell(active[c[2]], c) \in Seq(What)
         /\ fifo[c] \in Seq(What) /\ OfCell(pending, c) \in Seq(What)
         /\ OfCell(Ends(stream), c) \in Seq(What) /\ sent[c] \in Seq(What)
<1>1. /\ answered[c[2]] \in Seq(Message) /\ active[c[2]] \in Seq(Message)
      /\ pending \in Seq(Message) /\ fifo[c] \in Seq(What) /\ sent[c] \in Seq(What)
  BY Constants DEF Typed
<1>2. Ends(stream) \in Seq(Message)
  BY StreamTyped
<1> QED BY <1>1, <1>2, OfCellTyped

LEMMA RespondArrives ==
  ASSUME Typed, Streamed, Queued, ResponsesArriveInOrder, NEW c \in Cell, Respond(c)
  PROVE  ResponsesArriveInOrder'
<1>1. Ends(stream') = Append(Ends(stream), <<c, burst[c]>>)
  BY RespondStreamed
<1>2. UNCHANGED <<answered, active, fifo, pending>>
  BY DEF Respond, bridgeVars
<1>3. <<c, burst[c]>> \in Message /\ burst[c] \in What /\ Ends(stream) \in Seq(Message)
  BY MessageSent, StreamTyped
<1>4. ASSUME NEW d \in Cell
      PROVE  sent'[d] = OfCell(answered[d[2]], d) \o OfCell(active[d[2]], d) \o fifo[d]
                        \o OfCell(pending, d) \o OfCell(Ends(stream'), d)
  <2> DEFINE u == OfCell(answered[d[2]], d) \o OfCell(active[d[2]], d) \o fifo[d] \o OfCell(pending, d)
             e == OfCell(Ends(stream), d)
             w == burst[c]
  <2>1. sent[d] = u \o e
    BY DEF ResponsesArriveInOrder
  <2>2. u \in Seq(What) /\ e \in Seq(What)
    <3> DEFINE S == Seq(What)
    <3>1. /\ OfCell(answered[d[2]], d) \in S /\ OfCell(active[d[2]], d) \in S
          /\ fifo[d] \in S /\ OfCell(pending, d) \in S /\ e \in S
      BY WayTyped
    <3>2. \A s, t \in S : s \o t \in S
      OBVIOUS
    <3> HIDE DEF S
    <3> QED BY <3>1, <3>2 DEF S
  <2>3. OfCell(Ends(stream'), d) = IF c = d THEN Append(e, w) ELSE e
    BY <1>1, <1>3, OfCellAppend
  <2> HIDE DEF u, e
  <2>4. CASE c = d
    <3>1. sent'[d] = Append(sent[d], w)
      BY <2>4 DEF Respond, Typed
    <3>2. AppendsBehind(u, e, w)
      BY <1>3, <2>2, AppendToJoined
    <3> QED BY <2>1, <2>3, <2>4, <3>1, <3>2, Zenon DEF u, AppendsBehind
  <2>5. CASE c # d
    <3>1. sent'[d] = sent[d]
      BY <2>5 DEF Respond, Typed
    <3> QED BY <2>1, <2>3, <2>5, <3>1, Zenon DEF u
  <2> QED BY <2>4, <2>5
<1> QED BY <1>2, <1>4, Zenon DEF ResponsesArriveInOrder

\* What an edge does to the messages of a cell: R goes into its FIFO.
CellGets(c, ready, R) ==
  /\ R \in Seq(What)
  /\ fifo'[c] = FifoAfterRead(c, ready) \o R
  /\ Cat(OfCell(pending, c), OfCell(Ends(stream), c))
       = Cat(Cat(R, OfCell(pending', c)), OfCell(Ends(stream'), c))
  /\ OfCell(pending', c) \in Seq(What) /\ OfCell(Ends(stream'), c) \in Seq(What)

LEMMA CellRouted ==
  ASSUME Typed, Streamed, NEW r, NEW n, NEW valid \in BOOLEAN,
         NEW ready \in [Kind -> BOOLEAN], Routes(r, n, valid, ready), NEW c \in Cell
  PROVE  \E R : CellGets(c, ready, R)
<1> DEFINE s == SubSeq(r.messages, 1, n)
           R == OfCell(s, c)
<1>1. /\ s \in Seq(Message) /\ pending' \in Seq(Message) /\ s \o pending' = r.messages
      /\ Ends(stream') \in Seq(Message)
  BY RoutesIs
<1>2. fifo'[c] = FifoAfterRead(c, ready) \o R /\ stream' = Onward(valid)
  BY DEF Routes
<1>3. OfCell(pending, c) \o OfCell(Ends(stream), c)
        = OfCell(r.messages, c) \o OfCell(Ends(Onward(valid)), c)
  BY DEF Routes, RoutesOnward
<1> HIDE DEF s
<1>4. OfCell(r.messages, c) = R \o OfCell(pending', c)
  <2>1. OfCell(s \o pending', c) = OfCell(s, c) \o OfCell(pending', c)
    BY <1>1, OfCellOfJoined
  <2> QED BY <1>1, <2>1
<1>5. R \in Seq(What) /\ OfCell(pending', c) \in Seq(What) /\ OfCell(Ends(stream'), c) \in Seq(What)
  BY <1>1, OfCellTyped
<1> HIDE DEF R
<1>6. Cat(OfCell(pending, c), OfCell(Ends(stream), c))
        = Cat(Cat(R, OfCell(pending', c)), OfCell(Ends(stream'), c))
  BY <1>2, <1>3, <1>4, Zenon DEF Cat
<1>7. CellGets(c, ready, R)
  BY <1>2, <1>5, <1>6, Zenon DEF CellGets
<1> QED BY <1>7

LEMMA RoutesArrive ==
  ASSUME Typed, Streamed, ResponsesArriveInOrder, NEW r, NEW n, NEW valid \in BOOLEAN,
         NEW ready \in [Kind -> BOOLEAN], Routes(r, n, valid, ready)
  PROVE  ResponsesArriveInOrder'
<1>1. Typed' /\ Streamed'
  BY RoutesTyped, RoutesStreamed
<1>2. ASSUME NEW c \in Cell
      PROVE  sent'[c] = OfCell(answered'[c[2]], c) \o OfCell(active'[c[2]], c) \o fifo'[c]
                        \o OfCell(pending', c) \o OfCell(Ends(stream'), c)
  <2> DEFINE A == OfCell(answered[c[2]], c)
             X == OfCell(active[c[2]], c)
             F == fifo[c]
             P == OfCell(pending, c)
             E == OfCell(Ends(stream), c)
             B == OfCell(answered'[c[2]], c)
             Y == OfCell(active'[c[2]], c)
             H == FifoAfterRead(c, ready)
             Q == OfCell(pending', c)
             D == OfCell(Ends(stream'), c)
  <2>1. /\ A \in Seq(What) /\ X \in Seq(What) /\ F \in Seq(What) /\ P \in Seq(What)
        /\ E \in Seq(What)
    BY WayTyped
  <2>2. B \in Seq(What) /\ Y \in Seq(What)
    <3>1. answered'[c[2]] \in Seq(Message) /\ active'[c[2]] \in Seq(Message)
      BY <1>1, Constants DEF Typed
    <3> QED BY <3>1, OfCellTyped
  <2>0. PICK R : CellGets(c, ready, R)
    BY CellRouted
  <2>3. /\ fifo'[c] = H \o R /\ Cat(P, E) = Cat(Cat(R, Q), D)
        /\ R \in Seq(What) /\ Q \in Seq(What) /\ D \in Seq(What)
    BY <2>0, Zenon DEF CellGets
  <2>4. Moves(A, X, F, B, Y, H) /\ H \in Seq(What)
    BY ThreadsMove DEF Routes
  <2>5. sent'[c] = sent[c] /\ sent[c] = (((A \o X) \o F) \o P) \o E
    BY DEF Routes, ResponsesArriveInOrder
  <2> HIDE DEF A, X, F, P, E, B, Y, H, Q, D
  <2>6. Cat(Cat(A, X), F) = Cat(Cat(B, Y), H)
    <3>1. CASE B = Cat(A, X) /\ Cat(Y, H) = F
      <4>1. Cat(Cat(B, Y), H) = Cat(B, Cat(Y, H))
        BY <2>2, <2>4, CatAssociates
      <4> QED BY <3>1, <4>1, Zenon
    <3>2. CASE B = A /\ Y = X /\ H = F
      BY <3>2
    <3> QED BY <2>4, <3>1, <3>2 DEF Moves
  <2>7. SameWay(A, X, F, P, E, B, Y, H, R, Q, D)
    BY <2>1, <2>2, <2>3, <2>4, <2>6, Rearranged
  <2> QED BY <2>3, <2>5, <2>7, Zenon DEF B, Y, Q, D, SameWay
<1> QED BY <1>2, Zenon DEF ResponsesArriveInOrder

-----------------------------------------------------------------------------
\* Credits

LEMMA Spent ==
  ASSUME NEW g \in Nat \ {0}, NEW room \in Nat, g * room >= g
  PROVE  room - 1 \in Nat /\ g * room - g = g * (room - 1)
<1>1. CASE room = 0
  BY <1>1
<1>2. CASE room # 0
  <2>1. g * room = g * (room - 1) + g
    BY <1>2, SMT
  <2> QED BY <1>2, <2>1
<1> QED BY <1>1, <1>2

LEMMA Returned ==
  ASSUME NEW g \in Nat, NEW room \in Nat
  PROVE  g * room + g = g * (room + 1)
OBVIOUS

LEMMA InFlightIs ==
  ASSUME Typed, Streamed, NEW c \in Cell
  PROVE  /\ InFlight(c) \in Nat
         /\ Len(OfCell(active[c[2]], c)) \in Nat /\ Len(fifo[c]) \in Nat
         /\ Len(OfCell(pending, c)) \in Nat /\ Len(OfCell(Ends(stream), c)) \in Nat
<1> DEFINE x == Len(OfCell(active[c[2]], c))
           f == Len(fifo[c])
           p == Len(OfCell(pending, c))
           e == Len(OfCell(Ends(stream), c))
<1>1. x \in Nat /\ f \in Nat /\ p \in Nat /\ e \in Nat
  BY WayTyped
<1>2. InFlight(c) = x + f + p + e
  BY Zenon DEF InFlight
<1> HIDE DEF x, f, p, e
<1>3. x + f + p + e \in Nat
  BY <1>1
<1> QED BY <1>1, <1>2, <1>3, Zenon DEF x, f, p, e

LEMMA RespondPaid ==
  ASSUME Typed, Streamed, Queued, Paid, NEW c \in Cell, Respond(c)
  PROVE  Paid'
<1>1. Ends(stream') = Append(Ends(stream), <<c, burst[c]>>)
  BY RespondStreamed
<1>2. UNCHANGED <<active, fifo, pending>>
  BY DEF Respond, bridgeVars
<1>3. <<c, burst[c]>> \in Message /\ burst[c] \in What /\ Ends(stream) \in Seq(Message)
  BY MessageSent, StreamTyped
<1>4. ASSUME NEW d \in Cell
      PROVE  InFlight(d)' <= Depth[d[2]] /\ credit'[d] = Granules[d[2]] * (Depth[d[2]] - InFlight(d)')
  <2> DEFINE e == OfCell(Ends(stream), d)
             w == burst[c]
             i == InFlight(d)
             g == Granules[d[2]]
             z == Depth[d[2]]
  <2>1. OfCell(Ends(stream'), d) = IF c = d THEN Append(e, w) ELSE e
    BY <1>1, <1>3, OfCellAppend
  <2>2. e \in Seq(What)
    BY WayTyped
  <2>3. i \in Nat /\ g \in Nat \ {0} /\ z \in Nat /\ i <= z /\ credit[d] = g * (z - i)
    BY InFlightIs, Constants DEF Paid
  <2>4. Len(Append(e, w)) = Len(e) + 1
    <3> HIDE DEF e, w
    <3>1. w \in What
      BY <1>3 DEF w
    <3> QED BY <2>2, <3>1
  <2>5. InFlight(d)' = IF c = d THEN i + 1 ELSE i
    <3> DEFINE f == OfCell(Ends(stream'), d)
               x == Len(OfCell(active[d[2]], d)) + Len(fifo[d]) + Len(OfCell(pending, d))
    <3>1. InFlight(d)' = x + Len(f)
      BY <1>2, Zenon DEF InFlight
    <3>2. i = x + Len(e) /\ x \in Nat /\ Len(e) \in Nat
      <4> DEFINE x1 == Len(OfCell(active[d[2]], d))
                 x2 == Len(fifo[d])
                 x3 == Len(OfCell(pending, d))
      <4>1. x1 \in Nat /\ x2 \in Nat /\ x3 \in Nat /\ Len(e) \in Nat
        BY InFlightIs
      <4>2. i = x1 + x2 + x3 + Len(e) /\ x = x1 + x2 + x3
        BY Zenon DEF InFlight
      <4> HIDE DEF x1, x2, x3, e, i, x
      <4> QED BY <4>1, <4>2
    <3>3. Len(f) = IF c = d THEN Len(e) + 1 ELSE Len(e)
      BY <2>1, <2>4
    <3> HIDE DEF f, x, e, i
    <3> QED BY <3>1, <3>2, <3>3
  <2>6. CASE c = d
    <3>1. credit[d] >= g /\ credit'[d] = credit[d] - g
      BY <2>6 DEF Respond, Typed
    <3> HIDE DEF i, g, z
    <3>2. (z - i) - 1 \in Nat /\ credit'[d] = g * ((z - i) - 1)
      <4>1. z - i \in Nat /\ g * (z - i) >= g
        BY <2>3, <3>1
      <4> QED BY <2>3, <3>1, <4>1, Spent
    <3>3. (z - i) - 1 = z - (i + 1) /\ i + 1 <= z
      BY <2>3, <3>2
    <3> QED BY <2>5, <2>6, <3>2, <3>3 DEF i, g, z
  <2>7. CASE c # d
    <3>1. credit'[d] = credit[d]
      BY <2>7 DEF Respond, Typed
    <3> HIDE DEF i, g, z
    <3> QED BY <2>3, <2>5, <2>7, <3>1 DEF i, g, z
  <2> QED BY <2>6, <2>7
<1> QED BY <1>4 DEF Paid

LEMMA RoutesPaid ==
  ASSUME Typed, Streamed, Paid, NEW r, NEW n, NEW valid \in BOOLEAN,
         NEW ready \in [Kind -> BOOLEAN], Routes(r, n, valid, ready)
  PROVE  Paid'
<1>1. Typed' /\ Streamed'
  BY RoutesTyped, RoutesStreamed
<1>2. ASSUME NEW c \in Cell
      PROVE  InFlight(c)' <= Depth[c[2]] /\ credit'[c] = Granules[c[2]] * (Depth[c[2]] - InFlight(c)')
  <2> DEFINE X == OfCell(active[c[2]], c)
             F == fifo[c]
             P == OfCell(pending, c)
             E == OfCell(Ends(stream), c)
             Y == OfCell(active'[c[2]], c)
             H == FifoAfterRead(c, ready)
             Q == OfCell(pending', c)
             D == OfCell(Ends(stream'), c)
             i == InFlight(c)
             j == InFlight(c)'
             g == Granules[c[2]]
             z == Depth[c[2]]
  <2>1. X \in Seq(What) /\ F \in Seq(What) /\ P \in Seq(What) /\ E \in Seq(What)
    BY WayTyped
  <2>2. Y \in Seq(What)
    <3>1. active'[c[2]] \in Seq(Message)
      BY <1>1, Constants DEF Typed
    <3> QED BY <3>1, OfCellTyped
  <2>0. PICK R : CellGets(c, ready, R)
    BY CellRouted
  <2>3. /\ fifo'[c] = H \o R /\ Cat(P, E) = Cat(Cat(R, Q), D)
        /\ R \in Seq(What) /\ Q \in Seq(What) /\ D \in Seq(What)
    BY <2>0, Zenon DEF CellGets
  <2>4. /\ H \in Seq(What) /\ Len(X) <= 1
        /\ \/ credit'[c] = (IF X = <<>> THEN credit[c] ELSE credit[c] + g) /\ Cat(Y, H) = F
           \/ credit'[c] = credit[c] /\ Y = X /\ H = F
    BY ThreadsMove, Zenon DEF Routes
  <2>5. i = Len(X) + Len(F) + Len(P) + Len(E) /\ j = Len(Y) + Len(fifo'[c]) + Len(Q) + Len(D)
    BY Zenon DEF InFlight
  <2>6. i \in Nat /\ g \in Nat \ {0} /\ z \in Nat /\ i <= z /\ credit[c] = g * (z - i)
    BY InFlightIs, Constants DEF Paid
  <2> HIDE DEF X, F, P, E, Y, H, Q, D, i, j, g, z
  <2>7. Len(P) + Len(E) = Len(R) + Len(Q) + Len(D)
    <3>1. Len(P \o E) = Len(P) + Len(E)
      BY <2>1
    <3>2. R \o Q \in Seq(What) /\ Len(R \o Q) = Len(R) + Len(Q)
      BY <2>3
    <3>3. Len((R \o Q) \o D) = Len(R \o Q) + Len(D)
      BY <2>3, <3>2
    <3> QED BY <2>3, <3>1, <3>2, <3>3 DEF Cat
  <2>8. Len(fifo'[c]) = Len(H) + Len(R)
    <3>1. Len(H \o R) = Len(H) + Len(R)
      BY <2>4, <2>3
    <3> QED BY <2>3, <3>1
  <2>9. /\ Len(X) \in Nat /\ Len(F) \in Nat /\ Len(P) \in Nat /\ Len(E) \in Nat
        /\ Len(Y) \in Nat /\ Len(H) \in Nat /\ Len(Q) \in Nat /\ Len(D) \in Nat /\ Len(R) \in Nat
        /\ (X = <<>> => Len(X) = 0) /\ (X # <<>> => Len(X) # 0)
    BY <2>1, <2>2, <2>3, <2>4
  <2> DEFINE lx == Len(X)
             lf == Len(F)
             lp == Len(P)
             le == Len(E)
             ly == Len(Y)
             lh == Len(H)
             lq == Len(Q)
             ld == Len(D)
             lr == Len(R)
  <2>10. /\ lx \in Nat /\ lf \in Nat /\ lp \in Nat /\ le \in Nat /\ ly \in Nat /\ lh \in Nat
         /\ lq \in Nat /\ ld \in Nat /\ lr \in Nat /\ lx <= 1
         /\ lp + le = lr + lq + ld /\ i = lx + lf + lp + le /\ j = ly + (lh + lr) + lq + ld
    BY <2>4, <2>5, <2>7, <2>8, <2>9
  <2>11. CASE Cat(Y, H) = F /\ credit'[c] = (IF X = <<>> THEN credit[c] ELSE credit[c] + g)
    <3>1. ly + lh = lf
      <4>1. Len(Y \o H) = Len(Y) + Len(H)
        BY <2>2, <2>4
      <4> QED BY <2>11, <4>1 DEF Cat
    <3>2. credit'[c] = IF lx = 0 THEN credit[c] ELSE credit[c] + g
      BY <2>9, <2>11
    <3> HIDE DEF lx, lf, lp, le, ly, lh, lq, ld, lr
    <3>3. j = i - lx /\ j \in Nat /\ j <= z
      BY <2>6, <2>10, <3>1
    <3>4. CASE lx = 0
      <4>1. j = i
        BY <2>6, <3>3, <3>4
      <4> QED BY <2>6, <3>2, <3>4, <4>1 DEF i, j, g, z
    <3>5. CASE lx = 1
      <4>1. z - i \in Nat /\ z - j = (z - i) + 1
        BY <2>6, <3>3, <3>5
      <4>2. g * (z - i) + g = g * ((z - i) + 1)
        BY <2>6, <4>1, Returned
      <4>3. credit'[c] = g * (z - j)
        BY <2>6, <3>2, <3>5, <4>1, <4>2
      <4> QED BY <3>3, <4>3 DEF j, g, z
    <3> QED BY <2>10, <3>4, <3>5
  <2>12. CASE credit'[c] = credit[c] /\ Y = X /\ H = F
    <3>1. ly = lx /\ lh = lf
      BY <2>12
    <3> HIDE DEF lx, lf, lp, le, ly, lh, lq, ld, lr
    <3>2. j = i
      BY <2>10, <3>1
    <3> QED BY <2>6, <2>12, <3>2 DEF i, j, g, z
  <2> QED BY <2>4, <2>11, <2>12
<1> QED BY <1>2 DEF Paid

-----------------------------------------------------------------------------
\* The order at the target

Increasing(s) == \A i, j \in DOMAIN s : i < j => s[i] < s[j]

LEMMA HomeIs ==
  ASSUME Typed, NEW c \in Cell, NEW n \in Home(c)
  PROVE  /\ n \in Nat \ {0} /\ n <= accepted[c[2]] /\ accepted[c[2]] \in Nat
         /\ n \in DOMAIN Requests[c[2]]
         /\ Requests[c[2]][n].rp = c[1] /\ Requests[c[2]][n].beats \in Nat \ {0}
<1>1. c[2] \in Kind /\ accepted[c[2]] \in Nat /\ accepted[c[2]] <= Len(Requests[c[2]])
      /\ Len(Requests[c[2]]) \in Nat
  BY Constants DEF Typed
<1>2. n \in 1 .. accepted[c[2]] /\ Requests[c[2]][n].rp = c[1]
  BY DEF Home
<1>3. n \in 1 .. Len(Requests[c[2]]) /\ n \in Nat \ {0} /\ n <= accepted[c[2]]
  BY <1>1, <1>2
<1> QED BY <1>1, <1>2, <1>3, RequestIs

LEMMA RangeOfAppend ==
  ASSUME NEW S, NEW s \in Seq(S), NEW x \in S
  PROVE  Range(Append(s, x)) = Range(s) \cup {x}
<1> DEFINE a == Append(s, x)
<1>1. /\ DOMAIN a = 1 .. Len(s) + 1 /\ DOMAIN s = 1 .. Len(s) /\ Len(s) \in Nat
      /\ a[Len(s) + 1] = x /\ \A j \in 1 .. Len(s) : a[j] = s[j]
  OBVIOUS
<1> HIDE DEF a
<1>2. Range(a) = {a[j] : j \in 1 .. Len(s) + 1} /\ Range(s) = {s[j] : j \in 1 .. Len(s)}
  BY <1>1 DEF Range
<1>3. 1 .. Len(s) + 1 = (1 .. Len(s)) \cup {Len(s) + 1}
  BY <1>1
<1>4. Range(a) = Range(s) \cup {x}
  BY <1>1, <1>2, <1>3
<1> QED BY <1>4 DEF a

LEMMA IncreasingAppend ==
  ASSUME NEW s \in Seq(Nat), NEW x \in Nat, Increasing(s), \A i \in DOMAIN s : s[i] < x
  PROVE  Increasing(Append(s, x))
<1> SUFFICES ASSUME NEW i \in DOMAIN Append(s, x), NEW j \in DOMAIN Append(s, x), i < j
             PROVE  Append(s, x)[i] < Append(s, x)[j]
  BY DEF Increasing
<1>1. i \in 1 .. Len(s) /\ i \in DOMAIN s /\ Append(s, x)[i] = s[i]
  OBVIOUS
<1>2. CASE j = Len(s) + 1
  BY <1>1, <1>2
<1>3. CASE j # Len(s) + 1
  <2>1. j \in DOMAIN s /\ Append(s, x)[j] = s[j]
    BY <1>3
  <2> QED BY <1>1, <2>1 DEF Increasing
<1> QED BY <1>2, <1>3

LEMMA RangeOfRemoved ==
  ASSUME NEW s \in Seq(Nat), Increasing(s), NEW i \in 1 .. Len(s)
  PROVE  /\ Range(RemoveAt(s, i)) = Range(s) \ {s[i]}
         /\ Increasing(RemoveAt(s, i))
<1> DEFINE r == RemoveAt(s, i)
<1>1. /\ r \in Seq(Nat) /\ Len(r) = Len(s) - 1
      /\ \A j \in 1 .. Len(s) - 1 : r[j] = IF j < i THEN s[j] ELSE s[j + 1]
  BY Removed
<1> HIDE DEF r
<1>2. DOMAIN s = 1 .. Len(s) /\ DOMAIN r = 1 .. Len(s) - 1 /\ Len(s) \in Nat
  BY <1>1
<1>3. \A j \in DOMAIN s : s[j] \in Nat
  OBVIOUS
<1>0. \A a, b \in 1 .. Len(s) : a < b => s[a] < s[b]
  BY <1>2 DEF Increasing
<1>4. ASSUME NEW j \in DOMAIN r PROVE r[j] \in Range(s) \ {s[i]}
  <2>1. CASE j < i
    <3>0. j \in 1 .. Len(s) - 1 /\ j \in 1 .. Len(s)
      BY <1>2
    <3>1. j \in DOMAIN s /\ r[j] = s[j] /\ s[j] < s[i]
      BY <1>0, <1>1, <1>2, <2>1, <3>0
    <3> QED BY <1>2, <1>3, <3>1 DEF Range
  <2>2. CASE ~(j < i)
    <3>0. j \in 1 .. Len(s) - 1 /\ j + 1 \in 1 .. Len(s) /\ i < j + 1
      BY <1>2, <2>2
    <3>1. j + 1 \in DOMAIN s /\ r[j] = s[j + 1] /\ s[i] < s[j + 1]
      BY <1>0, <1>1, <1>2, <2>2, <3>0
    <3> QED BY <1>2, <1>3, <3>1 DEF Range
  <2> QED BY <2>1, <2>2
<1>5. ASSUME NEW x \in Range(s), x # s[i] PROVE x \in Range(r)
  <2>1. PICK j \in DOMAIN s : x = s[j]
    BY DEF Range
  <2>2. j # i /\ j \in 1 .. Len(s)
    BY <1>2, <1>5, <2>1
  <2>3. CASE j < i
    <3>1. j \in DOMAIN r /\ r[j] = s[j]
      BY <1>1, <1>2, <2>2, <2>3
    <3> QED BY <2>1, <3>1 DEF Range
  <2>4. CASE j > i
    <3>1. j - 1 \in DOMAIN r /\ r[j - 1] = s[j]
      BY <1>1, <1>2, <2>2, <2>4
    <3> QED BY <2>1, <3>1 DEF Range
  <2> QED BY <2>2, <2>3, <2>4
<1>6. Increasing(r)
  <2> SUFFICES ASSUME NEW a \in DOMAIN r, NEW b \in DOMAIN r, a < b PROVE r[a] < r[b]
    BY DEF Increasing
  <2> DEFINE at(j) == IF j < i THEN j ELSE j + 1
  <2>1. a \in 1 .. Len(s) - 1 /\ b \in 1 .. Len(s) - 1
    BY <1>2
  <2>2. at(a) \in 1 .. Len(s) /\ at(b) \in 1 .. Len(s) /\ at(a) < at(b)
    BY <1>2, <2>1
  <2>3. r[a] = s[at(a)] /\ r[b] = s[at(b)]
    BY <1>1, <2>1
  <2> HIDE DEF at
  <2> QED BY <1>0, <2>2, <2>3
<1>7. Range(r) = Range(s) \ {s[i]}
  <2>1. \A x \in Range(r) : x \in Range(s) \ {s[i]}
    BY <1>4 DEF Range
  <2> QED BY <1>5, <2>1
<1> QED BY <1>6, <1>7 DEF r

\* A cell as the steps find it.
Waiting(c, t, b) ==
  /\ \A n \in Range(t) : n \in Home(c) /\ n # b[1]
  /\ Increasing(t)
  /\ b # NoBurst => b[1] \in Home(c) /\ b[2] \in 1 .. Requests[c[2]][b[1]].beats

LEMMA QueuedIs ==
  Queued <=> \A c \in Cell : Waiting(c, todo[c], burst[c])
BY DEF Queued, Waiting, Increasing, Range

LEMMA QueuedNextIs ==
  Queued' <=> \A c \in Cell : Waiting(c, todo[c], burst[c])'
BY DEF Queued, Waiting, Increasing, Range

LEMMA AcceptedHome ==
  ASSUME Typed, NEW k \in Kind, NEW n, NEW q, Accepts(k, n, q), NEW c \in Cell
  PROVE  /\ Home(c)' = IF c = <<q.rp, k>> THEN Home(c) \cup {n} ELSE Home(c)
         /\ n \in Nat /\ (c[2] = k => \A m \in Home(c) : m < n)
         /\ todo'[c] = IF c = <<q.rp, k>> THEN Append(todo[c], n) ELSE todo[c]
<1>1. /\ n = accepted[k] + 1 /\ accepted' = [accepted EXCEPT ![k] = n]
      /\ accepted \in [Kind -> Nat] /\ c[2] \in Kind /\ c = <<c[1], c[2]>>
      /\ Requests[k][n].rp = q.rp
  BY Constants DEF Accepts, Typed
<1>2. todo'[c] = IF c = <<q.rp, k>> THEN Append(todo[c], n) ELSE todo[c]
  BY DEF Accepts, Typed
<1>3. n \in Nat /\ (c[2] = k => \A m \in Home(c) : m < n)
  BY <1>1 DEF Home
<1>4. CASE c[2] = k
  <2>1. 1 .. accepted'[k] = (1 .. accepted[k]) \cup {n}
    BY <1>1
  <2>2. Home(c)' = {m \in (1 .. accepted[k]) \cup {n} : Requests[k][m].rp = c[1]}
    BY <1>4, <2>1 DEF Home
  <2>3. Home(c) = {m \in 1 .. accepted[k] : Requests[k][m].rp = c[1]}
    BY <1>4 DEF Home
  <2>4. CASE c[1] = q.rp
    <3>1. c = <<q.rp, k>>
      BY <1>1, <1>4, <2>4
    <3> QED BY <1>1, <1>2, <1>3, <2>2, <2>3, <2>4, <3>1
  <2>5. CASE c[1] # q.rp
    <3>1. c # <<q.rp, k>>
      BY <2>5
    <3> QED BY <1>1, <1>2, <1>3, <2>2, <2>3, <2>5, <3>1
  <2> QED BY <2>4, <2>5
<1>5. CASE c[2] # k
  <2>1. accepted'[c[2]] = accepted[c[2]] /\ c # <<q.rp, k>>
    BY <1>1, <1>5
  <2> QED BY <1>2, <1>3, <2>1 DEF Home
<1> QED BY <1>4, <1>5

LEMMA AcceptAtTarget ==
  ASSUME Typed, AtTarget, NEW k \in Kind, Accept(k)
  PROVE  AtTarget'
<1>1. PICK n, q : Accepts(k, n, q)
  BY AcceptIs
<1>2. UNCHANGED <<burst, sent>>
  BY <1>1 DEF Accepts
<1>3. ASSUME NEW c \in Cell
      PROVE  /\ todo[c] \in Seq(Nat) /\ n \in Nat \ {0} /\ (c[2] = k => \A m \in Home(c) : m < n)
             /\ \/ Home(c)' = Home(c) \cup {n} /\ c[2] = k /\ todo'[c] = Append(todo[c], n)
                   /\ Range(todo'[c]) = Range(todo[c]) \cup {n}
                \/ Home(c)' = Home(c) /\ todo'[c] = todo[c]
  <2>1. /\ Home(c)' = IF c = <<q.rp, k>> THEN Home(c) \cup {n} ELSE Home(c)
        /\ n \in Nat /\ (c[2] = k => \A m \in Home(c) : m < n)
        /\ todo'[c] = IF c = <<q.rp, k>> THEN Append(todo[c], n) ELSE todo[c]
    BY <1>1, AcceptedHome
  <2>2. todo[c] \in Seq(Nat) /\ n # 0
    BY <1>1 DEF Typed, Accepts
  <2>3. Range(Append(todo[c], n)) = Range(todo[c]) \cup {n}
    BY <2>1, <2>2, RangeOfAppend
  <2> QED BY <2>1, <2>2, <2>3
<1>4. ASSUME NEW c \in Cell
      PROVE  Waiting(c, todo[c], burst[c])'
  <2> DEFINE t == todo[c]
             b == burst[c]
  <2>1. Waiting(c, t, b)
    BY QueuedIs DEF AtTarget
  <2>2. CASE Home(c)' = Home(c) /\ todo'[c] = t
    BY <1>2, <2>1, <2>2 DEF Waiting
  <2>3. CASE Home(c)' = Home(c) \cup {n} /\ c[2] = k /\ todo'[c] = Append(t, n)
             /\ Range(todo'[c]) = Range(t) \cup {n}
    <3>1. n # b[1]
      <4>1. b # NoBurst => b[1] < n /\ b[1] \in Nat
        BY <1>3, <2>1, <2>3, HomeIs DEF Waiting
      <4>2. b = NoBurst => b[1] = 0
        BY DEF NoBurst
      <4> QED BY <1>3, <4>1, <4>2
    <3>2. Increasing(Append(t, n))
      <4>1. \A i \in DOMAIN t : t[i] \in Range(t)
        BY DEF Range
      <4>2. \A i \in DOMAIN t : t[i] < n
        BY <1>3, <2>1, <2>3, <4>1 DEF Waiting
      <4> HIDE DEF t
      <4>3. t \in Seq(Nat)
        BY <1>3 DEF t
      <4> QED BY <1>3, <2>1, <4>2, <4>3, IncreasingAppend DEF Waiting
    <3>3. burst'[c] = b
      BY <1>2
    <3> HIDE DEF t, b
    <3>4. \A m \in Range(todo'[c]) : m \in Home(c)' /\ m # b[1]
      BY <2>1, <2>3, <3>1 DEF Waiting
    <3>5. b # NoBurst => b[1] \in Home(c)' /\ b[2] \in 1 .. Requests[c[2]][b[1]].beats
      BY <2>1, <2>3 DEF Waiting
    <3> QED BY <2>3, <3>2, <3>3, <3>4, <3>5 DEF Waiting
  <2> QED BY <1>3, <2>2, <2>3
<1>5. Queued'
  BY <1>4, QueuedNextIs
<1>6. ASSUME NEW c \in Cell, NEW m \in Home(c)', NEW o \in Home(c)',
             SameId(c[2], m, o), m \notin Range(todo'[c])
      PROVE  /\ o \in Range(todo'[c]) => m < o
             /\ o = burst'[c][1] => m <= o
  <2>1. m \in Home(c) /\ m \in Nat /\ m \notin Range(todo[c])
    BY <1>3, <1>6, HomeIs
  <2>2. CASE o \in Home(c)
    <3>1. (o \in Range(todo[c]) => m < o) /\ (o = burst[c][1] => m <= o)
      BY <1>6, <2>1, <2>2 DEF AtTarget, EarlierFurther
    <3>2. c[2] = k => o # n
      <4>1. o \in Nat /\ n \in Nat /\ (c[2] = k => o < n)
        BY <1>3, <2>2, HomeIs
      <4> QED BY <4>1
    <3>3. o \in Range(todo'[c]) => o \in Range(todo[c])
      BY <1>3, <3>2
    <3> QED BY <1>2, <3>1, <3>3
  <2>3. CASE o \notin Home(c)
    <3>1. o = n /\ c[2] = k
      BY <1>3, <2>3
    <3> QED BY <1>3, <2>1, <3>1
  <2> QED BY <2>2, <2>3
<1>7. EarlierFurther'
  BY <1>6 DEF EarlierFurther, SameId
<1>8. ASSUME NEW c \in Cell, NEW m \in Nat, NEW b \in Nat
      PROVE  <<m, b>> \in Range(sent'[c]) <=>
               /\ m \in Home(c)' /\ b \in 1 .. Requests[c[2]][m].beats
               /\ m \notin Range(todo'[c])
               /\ m = burst'[c][1] => b < burst'[c][2]
  <2>1. <<m, b>> \in Range(sent[c]) <=>
               /\ m \in Home(c) /\ b \in 1 .. Requests[c[2]][m].beats
               /\ m \notin Range(todo[c])
               /\ m = burst[c][1] => b < burst[c][2]
    BY DEF AtTarget, SentIsBegun
  <2>2. c[2] = k => n \notin Home(c)
    BY <1>3
  <2>3. m \in Home(c)' /\ m \notin Range(todo'[c]) <=> m \in Home(c) /\ m \notin Range(todo[c])
    BY <1>3, <2>2
  <2> QED BY <1>2, <2>1, <2>3
<1>9. SentIsBegun'
  BY <1>8 DEF SentIsBegun
<1>10. SentInOrder'
  BY <1>2 DEF AtTarget, SentInOrder
<1> QED BY <1>5, <1>7, <1>9, <1>10 DEF AtTarget

LEMMA BeginAtTarget ==
  ASSUME Typed, AtTarget, NEW c \in Cell, Begin(c)
  PROVE  AtTarget'
<1>1. PICK i : Begins(c, i)
  BY BeginIs
<1> DEFINE n == todo[c][i]
           t == todo[c]
<1>2. /\ burst[c] = NoBurst /\ i \in 1 .. Len(t) /\ n \in Nat /\ t \in Seq(Nat)
      /\ \A j \in 1 .. i - 1 : ~SameId(c[2], t[j], n)
      /\ UNCHANGED <<accepted, sent>>
  BY <1>1 DEF Begins, axiVars, Typed
<1>3. \A d \in Cell : /\ burst'[d] = IF d = c THEN <<n, 1>> ELSE burst[d]
                      /\ todo'[d] = IF d = c THEN RemoveAt(t, i) ELSE todo[d]
  BY <1>1 DEF Begins, Typed
<1>4. Waiting(c, t, burst[c])
  BY QueuedIs DEF AtTarget
<1>5. Range(RemoveAt(t, i)) = Range(t) \ {n} /\ Increasing(RemoveAt(t, i))
  BY <1>2, <1>4, RangeOfRemoved DEF Waiting
<1>6. n \in Range(t) /\ n \in Home(c)
  <2>1. n \in Range(t)
    BY <1>2 DEF Range
  <2> QED BY <1>4, <2>1 DEF Waiting
<1>7. \A d \in Cell : Home(d)' = Home(d)
  BY <1>2 DEF Home
<1>8. burst[c][1] = 0 /\ NoBurst[1] = 0 /\ <<n, 1>>[1] = n /\ <<n, 1>>[2] = 1
  BY <1>2 DEF NoBurst
\* Those behind n in todo are later ones, those before it have other IDs.
<1>9. ASSUME NEW o \in Range(t), o # n, SameId(c[2], n, o)
      PROVE  n < o
  <2>1. PICK j \in DOMAIN t : o = t[j]
    BY DEF Range
  <2>2. DOMAIN t = 1 .. Len(t) /\ Len(t) \in Nat
    BY <1>2
  <2>3. ~(j < i)
    <3>1. SameId(c[2], o, n)
      BY <1>9 DEF SameId
    <3>2. j < i => j \in 1 .. i - 1
      BY <1>2, <2>2
    <3> QED BY <1>2, <2>1, <3>1, <3>2
  <2>4. j # i
    BY <1>9, <2>1
  <2>5. i < j /\ i \in DOMAIN t
    BY <1>2, <2>2, <2>3, <2>4
  <2> QED BY <1>4, <2>1, <2>5 DEF Waiting, Increasing
<1> HIDE DEF n, t
<1>10. ASSUME NEW d \in Cell PROVE Waiting(d, todo[d], burst[d])'
  <2>1. CASE d = c
    <3>1. n \in Nat \ {0} /\ Requests[c[2]][n].beats \in Nat \ {0}
      BY <1>6, HomeIs
    <3>2. 1 \in 1 .. Requests[c[2]][n].beats
      BY <3>1
    <3>3. \A m \in Range(RemoveAt(t, i)) : m \in Home(c)' /\ m # n
      BY <1>4, <1>5, <1>7 DEF Waiting
    <3> QED BY <1>3, <1>5, <1>6, <1>7, <1>8, <2>1, <3>2, <3>3 DEF Waiting
  <2>2. CASE d # c
    <3>1. Waiting(d, todo[d], burst[d])
      BY QueuedIs DEF AtTarget
    <3> QED BY <1>3, <1>7, <2>2, <3>1 DEF Waiting
  <2> QED BY <2>1, <2>2
<1>11. Queued'
  BY <1>10, QueuedNextIs
<1>12. ASSUME NEW d \in Cell, NEW m \in Home(d)', NEW o \in Home(d)',
              SameId(d[2], m, o), m \notin Range(todo'[d])
       PROVE  /\ o \in Range(todo'[d]) => m < o
              /\ o = burst'[d][1] => m <= o
  <2>1. m \in Home(d) /\ o \in Home(d) /\ m \in Nat /\ o \in Nat
    BY <1>7, <1>12, HomeIs
  <2>2. m \notin Range(todo[d]) =>
          (o \in Range(todo[d]) => m < o) /\ (o = burst[d][1] => m <= o)
    BY <1>12, <2>1 DEF AtTarget, EarlierFurther
  <2>3. CASE d # c
    BY <1>3, <1>12, <2>2, <2>3
  <2>4. CASE d = c /\ m # n
    <3>1. todo[d] = t /\ todo'[d] = RemoveAt(t, i) /\ burst'[d][1] = n
      BY <1>3, <1>8, <2>4 DEF t
    <3>2. m \notin Range(t)
      BY <1>5, <1>12, <2>4, <3>1
    <3>3. o \in Range(t) => m < o
      BY <2>2, <3>1, <3>2
    <3> QED BY <1>5, <1>6, <2>1, <3>1, <3>3
  <2>5. CASE d = c /\ m = n
    <3>1. todo'[d] = RemoveAt(t, i) /\ burst'[d][1] = n
      BY <1>3, <1>8, <2>5
    <3>2. o \in Range(todo'[d]) => o \in Range(t) /\ o # n
      BY <1>5, <3>1
    <3> QED BY <1>9, <1>12, <2>1, <2>5, <3>1, <3>2
  <2> QED BY <2>3, <2>4, <2>5
<1>13. EarlierFurther'
  BY <1>12 DEF EarlierFurther, SameId
<1>14. ASSUME NEW d \in Cell, NEW m \in Nat, NEW b \in Nat
       PROVE  <<m, b>> \in Range(sent'[d]) <=>
                /\ m \in Home(d)' /\ b \in 1 .. Requests[d[2]][m].beats
                /\ m \notin Range(todo'[d])
                /\ m = burst'[d][1] => b < burst'[d][2]
  <2>1. <<m, b>> \in Range(sent[d]) <=>
                /\ m \in Home(d) /\ b \in 1 .. Requests[d[2]][m].beats
                /\ m \notin Range(todo[d])
                /\ m = burst[d][1] => b < burst[d][2]
    BY DEF AtTarget, SentIsBegun
  <2>2. CASE d # c
    BY <1>2, <1>3, <1>7, <2>1, <2>2
  <2>3. CASE d = c
    <3>1. /\ todo[d] = t /\ Range(todo'[d]) = Range(t) \ {n} /\ burst'[d][1] = n /\ burst'[d][2] = 1
          /\ burst[d][1] = 0 /\ sent'[d] = sent[d] /\ Home(d)' = Home(d)
      BY <1>2, <1>3, <1>5, <1>7, <1>8, <2>3 DEF t
    <3>2. m \in Home(d) => m # 0
      BY HomeIs
    <3>3. ~(b < 1) \/ b \notin 1 .. Requests[d[2]][m].beats
      OBVIOUS
    <3>4. CASE m = n
      BY <1>6, <2>1, <3>1, <3>3, <3>4
    <3>5. CASE m # n
      BY <2>1, <3>1, <3>2, <3>5
    <3> QED BY <3>4, <3>5
  <2> QED BY <2>2, <2>3
<1>15. SentIsBegun'
  BY <1>14 DEF SentIsBegun
<1>16. SentInOrder'
  <2>1. sent' = sent /\ SentInOrder
    BY <1>2 DEF AtTarget
  <2> QED BY <2>1 DEF SentInOrder
<1> QED BY <1>11, <1>13, <1>15, <1>16 DEF AtTarget

LEMMA RespondAtTarget ==
  ASSUME Typed, AtTarget, NEW c \in Cell, Respond(c)
  PROVE  AtTarget'
<1> DEFINE n == burst[c][1]
           b == burst[c][2]
           k == c[2]
           s == sent[c]
<1>1. /\ burst[c] = <<n, b>> /\ n \in Home(c) /\ b \in 1 .. Requests[k][n].beats
      /\ n \in Nat \ {0} /\ b \in Nat \ {0} /\ Requests[k][n].beats \in Nat \ {0}
      /\ s \in Seq(What) /\ <<n, b>> \in What
  <2>1. burst[c] \in What /\ n \in Home(c) /\ b \in 1 .. Requests[k][n].beats
    BY MessageSent DEF AtTarget
  <2>2. n \in Nat \ {0} /\ Requests[k][n].beats \in Nat \ {0}
    BY <2>1, HomeIs
  <2>3. s \in Seq(What)
    BY DEF Typed
  <2> QED BY <2>1, <2>2, <2>3 DEF What
<1>2. UNCHANGED <<accepted, todo>>
  BY DEF Respond, axiVars
<1>3. \A d \in Cell : /\ burst'[d] = IF d # c THEN burst[d]
                                     ELSE IF b = Requests[k][n].beats THEN NoBurst ELSE <<n, b + 1>>
                      /\ sent'[d] = IF d = c THEN Append(s, <<n, b>>) ELSE sent[d]
  BY <1>1 DEF Respond, Typed, IsLast, RequestOf
<1>4. Waiting(c, todo[c], <<n, b>>)
  BY <1>1, QueuedIs DEF AtTarget
<1>5. \A d \in Cell : Home(d)' = Home(d)
  BY <1>2 DEF Home
<1>6. n \notin Range(todo[c])
  BY <1>4 DEF Waiting
<1>7. NoBurst[1] = 0 /\ NoBurst[2] = 0
  BY DEF NoBurst
<1> HIDE DEF n, b, s
<1>8. ASSUME NEW d \in Cell PROVE Waiting(d, todo[d], burst[d])'
  <2>1. Waiting(d, todo[d], burst[d])
    BY QueuedIs DEF AtTarget
  <2>2. CASE d # c
    BY <1>2, <1>3, <1>5, <2>1, <2>2 DEF Waiting
  <2>3. CASE d = c /\ b = Requests[k][n].beats
    <3>1. \A m \in Range(todo[d]) : m # 0
      BY <2>1, HomeIs DEF Waiting
    <3> QED BY <1>2, <1>3, <1>5, <1>7, <2>1, <2>3, <3>1 DEF Waiting
  <2>4. CASE d = c /\ b # Requests[k][n].beats
    <3>1. b + 1 \in 1 .. Requests[k][n].beats
      BY <1>1, <2>4
    <3>2. burst'[d] = <<n, b + 1>> /\ <<n, b + 1>>[1] = n /\ <<n, b + 1>>[2] = b + 1
      BY <1>3, <2>4
    <3>3. \A m \in Range(todo[d]) : m # n
      BY <1>6, <2>4
    <3> QED BY <1>1, <1>2, <1>5, <2>1, <2>4, <3>1, <3>2, <3>3 DEF Waiting
  <2> QED BY <2>2, <2>3, <2>4
<1>9. Queued'
  BY <1>8, QueuedNextIs
<1>10. ASSUME NEW d \in Cell, NEW m \in Home(d)', NEW o \in Home(d)',
              SameId(d[2], m, o), m \notin Range(todo'[d])
       PROVE  /\ o \in Range(todo'[d]) => m < o
              /\ o = burst'[d][1] => m <= o
  <2>1. m \in Home(d) /\ o \in Home(d) /\ o # 0
    BY <1>5, <1>10, HomeIs
  <2>2. (o \in Range(todo[d]) => m < o) /\ (o = burst[d][1] => m <= o)
    BY <1>2, <1>10, <2>1 DEF AtTarget, EarlierFurther
  <2>3. o = burst'[d][1] => o = burst[d][1]
    BY <1>1, <1>3, <1>7, <2>1
  <2> QED BY <1>2, <2>2, <2>3
<1>11. EarlierFurther'
  BY <1>10 DEF EarlierFurther, SameId
<1>12. Range(Append(s, <<n, b>>)) = Range(s) \cup {<<n, b>>}
  BY <1>1, RangeOfAppend
<1>13. ASSUME NEW d \in Cell, NEW m \in Nat, NEW h \in Nat
       PROVE  <<m, h>> \in Range(sent'[d]) <=>
                /\ m \in Home(d)' /\ h \in 1 .. Requests[d[2]][m].beats
                /\ m \notin Range(todo'[d])
                /\ m = burst'[d][1] => h < burst'[d][2]
  <2>1. <<m, h>> \in Range(sent[d]) <=>
                /\ m \in Home(d) /\ h \in 1 .. Requests[d[2]][m].beats
                /\ m \notin Range(todo[d])
                /\ m = burst[d][1] => h < burst[d][2]
    BY DEF AtTarget, SentIsBegun
  <2>2. CASE d # c
    BY <1>2, <1>3, <1>5, <2>1, <2>2
  <2>3. CASE d = c /\ m # n
    <3>1. m \in Home(d) => (m = burst'[d][1] => h < burst'[d][2]) /\ (m = burst[d][1] => h < burst[d][2])
      <4>1. m \in Home(d) => m # 0
        BY HomeIs
      <4>2. burst'[d][1] = 0 \/ burst'[d][1] = n
        BY <1>3, <1>7, <2>3
      <4>3. burst[d][1] = n
        BY <1>1, <2>3
      <4> QED BY <2>3, <4>1, <4>2, <4>3
    <3>2. <<m, h>> \in Range(sent'[d]) <=> <<m, h>> \in Range(sent[d])
      BY <1>3, <1>12, <2>3 DEF s
    <3> QED BY <1>2, <1>5, <2>1, <3>1, <3>2
  <2>4. CASE d = c /\ m = n
    <3>1. <<m, h>> \in Range(sent'[d]) <=> <<m, h>> \in Range(sent[d]) \/ h = b
      BY <1>3, <1>12, <2>4 DEF s
    <3>2. burst[d][1] = n /\ burst[d][2] = b
      BY <1>1, <2>4
    <3>3. \/ burst'[d][1] = 0 /\ b = Requests[k][n].beats
          \/ burst'[d][1] = n /\ burst'[d][2] = b + 1
      BY <1>3, <1>7, <2>4
    <3>4. h \in 1 .. Requests[k][n].beats =>
            ((h < b \/ h = b) <=> (m = burst'[d][1] => h < burst'[d][2]))
      BY <1>1, <2>4, <3>3
    <3> QED BY <1>1, <1>2, <1>5, <1>6, <2>1, <2>4, <3>1, <3>2, <3>4
  <2> QED BY <2>2, <2>3, <2>4
<1>14. SentIsBegun'
  BY <1>13 DEF SentIsBegun
<1>15. ASSUME NEW x \in Nat, NEW y \in Nat
       PROVE  <<x, y>> \in Range(s) <=>
                /\ x \in Home(c) /\ y \in 1 .. Requests[k][x].beats
                /\ x \notin Range(todo[c])
                /\ x = n => y < b
  BY <1>1 DEF AtTarget, SentIsBegun, s
\* What is sent last comes behind all of its ID that are sent.
<1>16. {m \in Fellows(c, n) : Before(m, <<n, b>>)} = {m \in Range(s) : SameId(k, m[1], n)}
  <2>1. ASSUME NEW m \in Fellows(c, n), Before(m, <<n, b>>)
        PROVE  m \in Range(s) /\ SameId(k, m[1], n)
    <3>1. /\ m = <<m[1], m[2]>> /\ m[1] \in Nat /\ m[2] \in Nat /\ m[1] \in DOMAIN Requests[k]
          /\ Requests[k][m[1]].rp = c[1] /\ SameId(k, m[1], n)
          /\ m[2] \in 1 .. Requests[k][m[1]].beats
      BY DEF Fellows, What
    <3>2. m[1] < n \/ (m[1] = n /\ m[2] < b)
      BY <2>1 DEF Before
    <3>3. m[1] \in Home(c)
      <4>1. n <= accepted[k] /\ accepted[k] \in Nat
        BY <1>1, HomeIs
      <4>2. Requests[k] \in Seq([id : Id, rp : Rp, beats : Nat \ {0}])
        BY Constants
      <4>3. m[1] >= 1
        BY <3>1, <4>2
      <4>4. m[1] \in 1 .. accepted[k]
        BY <1>1, <3>1, <3>2, <4>1, <4>3
      <4> QED BY <3>1, <4>4 DEF Home
    <3>4. m[1] \notin Range(todo[c])
      <4>1. SUFFICES ASSUME m[1] \in Range(todo[c]) PROVE FALSE
        OBVIOUS
      <4>2. SameId(k, n, m[1])
        BY <3>1 DEF SameId
      <4>3. n < m[1]
        BY <1>1, <1>6, <3>3, <4>1, <4>2 DEF AtTarget, EarlierFurther
      <4> QED BY <1>1, <3>1, <3>2, <4>3
    <3>5. <<m[1], m[2]>> \in Range(s)
      BY <1>1, <1>15, <3>1, <3>2, <3>3, <3>4
    <3> QED BY <3>1, <3>5
  <2>2. ASSUME NEW m \in Range(s), SameId(k, m[1], n)
        PROVE  m \in Fellows(c, n) /\ Before(m, <<n, b>>)
    <3>1. m \in What /\ m = <<m[1], m[2]>> /\ m[1] \in Nat /\ m[2] \in Nat
      <4>1. m \in What
        BY <1>1 DEF Range
      <4> QED BY <4>1 DEF What
    <3>2. /\ m[1] \in Home(c) /\ m[2] \in 1 .. Requests[k][m[1]].beats
          /\ m[1] \notin Range(todo[c]) /\ (m[1] = n => m[2] < b)
      BY <1>15, <3>1
    <3>3. m[1] \in DOMAIN Requests[k] /\ Requests[k][m[1]].rp = c[1]
      BY <3>2, HomeIs
    <3>4. m \in Fellows(c, n)
      BY <2>2, <3>1, <3>2, <3>3 DEF Fellows
    <3>5. m[1] <= n
      BY <1>1, <2>2, <3>2 DEF AtTarget, EarlierFurther
    <3>6. m[1] < n \/ m[1] = n
      BY <1>1, <3>1, <3>5
    <3> QED BY <3>2, <3>4, <3>6 DEF Before
  <2> QED BY <2>1, <2>2
<1>17. ASSUME NEW d \in Cell, NEW i \in DOMAIN sent'[d]
       PROVE  {m \in Fellows(d, sent'[d][i][1]) : Before(m, sent'[d][i])}
                = {sent'[d][j] : j \in {h \in 1 .. i - 1 : SameId(d[2], sent'[d][h][1], sent'[d][i][1])}}
  <2>1. i \in DOMAIN sent[d] =>
          {m \in Fellows(d, sent[d][i][1]) : Before(m, sent[d][i])}
            = {sent[d][j] : j \in {h \in 1 .. i - 1 : SameId(d[2], sent[d][h][1], sent[d][i][1])}}
    BY DEF AtTarget, SentInOrder
  <2>2. CASE d # c
    BY <1>3, <2>1, <2>2
  <2>3. CASE d = c
    <3> DEFINE a == Append(s, <<n, b>>)
    <3>0. sent'[d] = a /\ sent[d] = s
      BY <1>3, <2>3 DEF s
    <3>1. /\ DOMAIN a = 1 .. Len(s) + 1 /\ DOMAIN s = 1 .. Len(s) /\ Len(s) \in Nat
          /\ a[Len(s) + 1] = <<n, b>> /\ \A j \in 1 .. Len(s) : a[j] = s[j]
      <4> DEFINE w == <<n, b>>
      <4>1. s \in Seq(What) /\ w \in What
        BY <1>1
      <4> HIDE DEF w
      <4> QED BY <4>1
    <3> HIDE DEF a
    <3>2. CASE i \in 1 .. Len(s)
      <4>1. a[i] = s[i] /\ \A h \in 1 .. i - 1 : a[h] = s[h]
        BY <3>1, <3>2
      <4>2. {a[j] : j \in {h \in 1 .. i - 1 : SameId(k, a[h][1], a[i][1])}}
              = {s[j] : j \in {h \in 1 .. i - 1 : SameId(k, s[h][1], s[i][1])}}
        BY <4>1
      <4> QED BY <2>1, <2>3, <3>0, <3>1, <3>2, <4>1, <4>2
    <3>3. CASE i = Len(s) + 1
      <4>1. i - 1 = Len(s) /\ a[i] = <<n, b>> /\ a[i][1] = n
        BY <3>1, <3>3
      <4>2. {a[j] : j \in {h \in 1 .. Len(s) : SameId(k, a[h][1], n)}}
              = {m \in Range(s) : SameId(k, m[1], n)}
        BY <3>1 DEF Range
      <4> QED BY <1>16, <2>3, <3>0, <4>1, <4>2
    <3> QED BY <3>0, <3>1, <3>2, <3>3
  <2> QED BY <2>2, <2>3
<1>18. SentInOrder'
  BY <1>17 DEF SentInOrder, Fellows, SameId
<1> QED BY <1>9, <1>11, <1>14, <1>18 DEF AtTarget

-----------------------------------------------------------------------------
\* What is answered

LEMMA OfCellRange ==
  ASSUME NEW msgs \in Seq(Message), NEW c
  PROVE  \A w : w \in Range(OfCell(msgs, c)) <=> <<c, w>> \in Range(msgs)
<1> DEFINE Same(s) == \A w : w \in Range(OfCell(s, c)) <=> <<c, w>> \in Range(s)
           T == {s \in Seq(Message) : Same(s)}
<1>1. <<>> \in T
  <2>1. <<>> \in Seq(Message) /\ Range(<<>>) = {}
    BY DEF Range
  <2> QED BY <2>1, OfCellEmpty
<1>2. ASSUME NEW s \in Seq(Message), NEW m \in Message, s \in T PROVE Append(s, m) \in T
  <2> DEFINE o == OfCell(s, c)
             p == OfCell(Append(s, m), c)
  <2>1. p = IF m[1] = c THEN Append(o, m[2]) ELSE o
    BY OfCellAppend
  <2>2. o \in Seq(What) /\ m[2] \in What /\ m = <<m[1], m[2]>>
    BY OfCellTyped, MessageIs
  <2>3. Range(Append(s, m)) = Range(s) \cup {m}
    BY RangeOfAppend
  <2>4. Same(s)
    BY <1>2
  <2>5. Append(s, m) \in Seq(Message)
    OBVIOUS
  <2> HIDE DEF p
  <2>6. CASE m[1] = c
    <3>1. Range(Append(o, m[2])) = Range(o) \cup {m[2]}
      BY <2>2, RangeOfAppend
    <3>2. \A w : <<c, w>> = m <=> w = m[2]
      BY <2>2, <2>6
    <3>3. \A w : w \in Range(p) <=> <<c, w>> \in Range(Append(s, m))
      BY <2>1, <2>3, <2>4, <2>6, <3>1, <3>2
    <3> QED BY <2>5, <3>3 DEF p
  <2>7. CASE m[1] # c
    <3>1. \A w : <<c, w>> # m
      BY <2>2, <2>7
    <3>2. \A w : w \in Range(p) <=> <<c, w>> \in Range(Append(s, m))
      BY <2>1, <2>3, <2>4, <2>7, <3>1
    <3> QED BY <2>5, <3>2 DEF p
  <2> QED BY <2>6, <2>7
<1> HIDE DEF T
<1>3. Seq(Message) \subseteq T
  BY <1>1, <1>2, CellFold!AllSequences
<1> QED BY <1>3 DEF T

\* The beginning of a concatenation.
StartsWith(t, s) ==
  /\ Len(s) <= Len(t) /\ \A i \in 1 .. Len(s) : t[i] = s[i]

LEMMA JoinedStarts ==
  ASSUME NEW W, NEW s \in Seq(W), NEW t \in Seq(W)
  PROVE  s \o t \in Seq(W) /\ StartsWith(s \o t, s)
BY DEF StartsWith

LEMMA StartsFurther ==
  ASSUME NEW W, NEW s \in Seq(W), NEW t \in Seq(W), NEW u \in Seq(W),
         StartsWith(t, s), StartsWith(u, t)
  PROVE  StartsWith(u, s)
<1>1. Len(s) \in Nat /\ Len(t) \in Nat /\ Len(u) \in Nat
  OBVIOUS
<1> QED BY <1>1 DEF StartsWith

\* Of the messages sent in a cell those answered come first, then that of the
\* register.
LEMMA AnsweredFirst ==
  ASSUME Typed, Streamed, ResponsesArriveInOrder, NEW c \in Cell
  PROVE  StartsWith(sent[c], OfCell(answered[c[2]], c) \o OfCell(active[c[2]], c))
<1> DEFINE a == OfCell(answered[c[2]], c)
           x == OfCell(active[c[2]], c)
           f == fifo[c]
           p == OfCell(pending, c)
           e == OfCell(Ends(stream), c)
<1>1. a \in Seq(What) /\ x \in Seq(What) /\ f \in Seq(What) /\ p \in Seq(What) /\ e \in Seq(What)
  BY WayTyped
<1>2. sent[c] = (((a \o x) \o f) \o p) \o e
  BY DEF ResponsesArriveInOrder
<1> HIDE DEF a, x, f, p, e
<1> DEFINE u == a \o x
           v == u \o f
           w == v \o p
<1>3. u \in Seq(What)
  BY <1>1, JoinedStarts
<1> HIDE DEF u
<1>4. v \in Seq(What) /\ StartsWith(v, u)
  BY <1>1, <1>3, JoinedStarts
<1> HIDE DEF v
<1>5. w \in Seq(What) /\ StartsWith(w, v)
  BY <1>1, <1>4, JoinedStarts
<1> HIDE DEF w
<1>6. w \o e \in Seq(What) /\ StartsWith(w \o e, w)
  BY <1>1, <1>5, JoinedStarts
<1>7. StartsWith(w, u)
  BY <1>3, <1>4, <1>5, StartsFurther
<1> DEFINE t == w \o e
<1>8. t \in Seq(What) /\ StartsWith(t, w)
  BY <1>6
<1>9. sent[c] = t
  BY <1>2 DEF u, v, w
<1> HIDE DEF t
<1>10. StartsWith(t, u)
  BY <1>3, <1>5, <1>7, <1>8, StartsFurther
<1> QED BY <1>9, <1>10 DEF u, a, x

\* Messages of the cell and ID at a place, that are before it: those at the
\* places before.
LEMMA PlacesBefore ==
  ASSUME Typed, AtTarget, NEW c \in Cell, NEW p \in DOMAIN sent[c]
  PROVE  /\ sent[c][p] \in What /\ sent[c][p] \in Range(sent[c])
         /\ \A w \in Fellows(c, sent[c][p][1]) : Before(w, sent[c][p]) =>
              \E j \in 1 .. p - 1 : sent[c][j] = w
         /\ \A j \in 1 .. p - 1 : SameId(c[2], sent[c][j][1], sent[c][p][1]) =>
              Before(sent[c][j], sent[c][p])
<1> DEFINE s == sent[c]
<1>1. s \in Seq(What)
  BY DEF Typed
<1>2. {m \in Fellows(c, s[p][1]) : Before(m, s[p])}
        = {s[j] : j \in {h \in 1 .. p - 1 : SameId(c[2], s[h][1], s[p][1])}}
  BY DEF AtTarget, SentInOrder
<1> HIDE DEF s
<1>3. s[p] \in What /\ s[p] \in Range(s)
  BY <1>1 DEF Range, s
<1> QED BY <1>2, <1>3 DEF s

LEMMA SentAreFellows ==
  ASSUME Typed, AtTarget, NEW c \in Cell, NEW w \in Range(sent[c])
  PROVE  /\ w = <<w[1], w[2]>> /\ w \in What
         /\ w[1] \in Home(c) /\ w[2] \in 1 .. Requests[c[2]][w[1]].beats
         /\ \A n : SameId(c[2], w[1], n) => w \in Fellows(c, n)
<1>1. w \in What
  BY DEF Typed, Range
<1>2. w = <<w[1], w[2]>> /\ w[1] \in Nat /\ w[2] \in Nat
  BY <1>1 DEF What
<1>3. w[1] \in Home(c) /\ w[2] \in 1 .. Requests[c[2]][w[1]].beats
  BY <1>2 DEF AtTarget, SentIsBegun
<1>4. w[1] \in DOMAIN Requests[c[2]] /\ Requests[c[2]][w[1]].rp = c[1]
  BY <1>3, HomeIs
<1> QED BY <1>1, <1>2, <1>3, <1>4 DEF Fellows

LEMMA NothingBeforeItself ==
  ASSUME NEW w \in What
  PROVE  ~Before(w, w)
BY DEF Before, What

LEMMA SentOnce ==
  ASSUME Typed, AtTarget, NEW c \in Cell, NEW i \in DOMAIN sent[c], NEW j \in 1 .. i - 1
  PROVE  sent[c][i] # sent[c][j]
<1> SUFFICES ASSUME sent[c][i] = sent[c][j] PROVE FALSE
  OBVIOUS
<1>1. SameId(c[2], sent[c][j][1], sent[c][i][1])
  BY DEF SameId
<1>2. Before(sent[c][j], sent[c][i]) /\ sent[c][i] \in What
  BY <1>1, PlacesBefore
<1> QED BY <1>2, NothingBeforeItself

\* Messages answered, at their places.
LEMMA AnsweredPlace ==
  ASSUME Arriving, NEW c \in Cell, NEW w, <<c, w>> \in Range(answered[c[2]])
  PROVE  /\ w \in Range(sent[c])
         /\ \E p \in DOMAIN sent[c] :
              sent[c][p] = w /\ p <= Len(OfCell(answered[c[2]], c))
<1> DEFINE a == OfCell(answered[c[2]], c)
           x == OfCell(active[c[2]], c)
           s == sent[c]
<1>1. a \in Seq(What) /\ x \in Seq(What) /\ s \in Seq(What)
  BY WayTyped DEF Arriving
<1>2. StartsWith(s, a \o x)
  BY AnsweredFirst DEF Arriving
<1>3. w \in Range(a)
  <2>1. answered[c[2]] \in Seq(Message)
    BY Constants DEF Arriving, Typed
  <2> QED BY <2>1, OfCellRange
<1> HIDE DEF a, x, s
<1>4. a \o x \in Seq(What) /\ StartsWith(a \o x, a)
  BY <1>1, JoinedStarts
<1>5. StartsWith(s, a)
  <2> DEFINE u == a \o x
  <2>1. u \in Seq(What) /\ StartsWith(u, a) /\ StartsWith(s, u)
    BY <1>2, <1>4
  <2> HIDE DEF u
  <2> QED BY <1>1, <2>1, StartsFurther
<1>6. PICK p \in DOMAIN a : a[p] = w
  BY <1>3 DEF Range
<1>7. p \in DOMAIN s /\ s[p] = w /\ p <= Len(a)
  BY <1>1, <1>5, <1>6 DEF StartsWith
<1>8. w \in Range(s)
  BY <1>7 DEF Range
<1> QED BY <1>7, <1>8 DEF a, s

\* What is before a message answered is answered.
LEMMA AnsweredDown ==
  ASSUME Arriving, NEW c \in Cell, NEW p \in DOMAIN sent[c],
         p <= Len(OfCell(answered[c[2]], c)) + 1,
         NEW j \in 1 .. p - 1
  PROVE  <<c, sent[c][j]>> \in Range(answered[c[2]])
<1> DEFINE a == OfCell(answered[c[2]], c)
           x == OfCell(active[c[2]], c)
           s == sent[c]
<1>1. a \in Seq(What) /\ x \in Seq(What) /\ s \in Seq(What)
  BY WayTyped DEF Arriving
<1>2. StartsWith(s, a \o x)
  BY AnsweredFirst DEF Arriving
<1>3. answered[c[2]] \in Seq(Message)
  BY Constants DEF Arriving, Typed
<1>4. p <= Len(a) + 1 /\ p \in DOMAIN s
  OBVIOUS
<1> HIDE DEF a, x, s
<1>5. j \in 1 .. Len(a) /\ j \in DOMAIN a
  BY <1>1, <1>4
<1>6. (a \o x)[j] = a[j] /\ Len(a) <= Len(a \o x) /\ Len(a \o x) \in Nat
  BY <1>1, <1>5
<1>7. s[j] = a[j]
  BY <1>1, <1>2, <1>5, <1>6 DEF StartsWith
<1>8. s[j] \in Range(a)
  BY <1>5, <1>7 DEF Range
<1> QED BY <1>3, <1>8, OfCellRange DEF a, s

LEMMA FinishedIs ==
  ASSUME Typed, NEW k \in Kind, NEW n
  PROVE  Finished(k, n) <=>
           \E c \in Cell : \E b : c[2] = k /\ <<c, <<n, b>>>> \in Range(answered[k])
                              /\ b = Requests[k][n].beats
<1>1. answered[k] \in Seq(Message) /\ OfKind(k, answered[k])
  BY DEF Typed
<1>2. ASSUME Finished(k, n)
      PROVE  \E c \in Cell : \E b : c[2] = k /\ <<c, <<n, b>>>> \in Range(answered[k])
                                /\ b = Requests[k][n].beats
  <2>1. PICK i \in DOMAIN answered[k] :
          answered[k][i][2][1] = n /\ IsLast(answered[k][i][1], answered[k][i][2])
    BY <1>2 DEF Finished
  <2> DEFINE m == answered[k][i]
  <2>2. m \in Message /\ m[1][2] = k /\ m \in Range(answered[k])
    BY <1>1, <2>1 DEF OfKind, Range
  <2>3. m[2][1] = n /\ m[2][2] = Requests[k][n].beats
    BY <2>1, <2>2 DEF IsLast, RequestOf
  <2> HIDE DEF m
  <2>4. m = <<m[1], <<n, m[2][2]>>>> /\ m[1] \in Cell
    BY <2>2, <2>3, MessageIs
  <2> QED BY <2>2, <2>3, <2>4
<1>3. ASSUME NEW c \in Cell, NEW b, c[2] = k, <<c, <<n, b>>>> \in Range(answered[k]),
             b = Requests[k][n].beats
      PROVE  Finished(k, n)
  <2>1. PICK i \in DOMAIN answered[k] : answered[k][i] = <<c, <<n, b>>>>
    BY <1>3 DEF Range
  <2>2. answered[k][i][1] = c /\ answered[k][i][2][1] = n /\ answered[k][i][2][2] = b
    BY <2>1
  <2>3. IsLast(answered[k][i][1], answered[k][i][2])
    BY <1>3, <2>2 DEF IsLast, RequestOf
  <2> QED BY <2>2, <2>3 DEF Finished
<1> QED BY <1>2, <1>3

\* Where a request is at home.
PlaneOf(k, n) == <<Requests[k][n].rp, k>>

LEMMA HomeIsPlane ==
  ASSUME Typed, NEW c \in Cell, NEW n \in Home(c)
  PROVE  c = PlaneOf(c[2], n)
BY HomeIs, Constants DEF PlaneOf

\* Of a request that is finished all messages are answered.
LEMMA FinishedWhole ==
  ASSUME Arriving, NEW k \in Kind, NEW n, Finished(k, n)
  PROVE  /\ PlaneOf(k, n) \in Cell /\ n \in Home(PlaneOf(k, n))
         /\ \A b \in 1 .. Requests[k][n].beats :
              <<PlaneOf(k, n), <<n, b>>>> \in Range(answered[k])
<1>1. PICK c \in Cell : c[2] = k /\ <<c, <<n, Requests[k][n].beats>>>> \in Range(answered[k])
  BY FinishedIs DEF Arriving
<1> DEFINE last == Requests[k][n].beats
           w == <<n, last>>
<1>2. PICK p \in DOMAIN sent[c] : sent[c][p] = w /\ p <= Len(OfCell(answered[k], c))
  BY <1>1, AnsweredPlace
<1>3. w \in Range(sent[c])
  BY <1>1, AnsweredPlace
<1>4. n \in Home(c) /\ w[1] = n /\ w[2] = last
  BY <1>3, SentAreFellows DEF Arriving
<1>5. c = PlaneOf(k, n)
  BY <1>1, <1>4, HomeIsPlane DEF Arriving
<1>6. n \in Nat /\ n \in DOMAIN Requests[k] /\ Requests[k][n].rp = c[1] /\ last \in Nat \ {0}
  BY <1>1, <1>4, HomeIs DEF Arriving
<1>7. ASSUME NEW b \in 1 .. last PROVE <<c, <<n, b>>>> \in Range(answered[k])
  <2>1. CASE b = last
    BY <1>1, <2>1
  <2>2. CASE b # last
    <3>1. <<n, b>> \in Fellows(c, n)
      BY <1>1, <1>6 DEF Fellows, What, SameId
    <3>2. Before(<<n, b>>, w)
      BY <1>6, <2>2 DEF Before
    <3>0. <<n, b>> \in Fellows(c, sent[c][p][1]) /\ Before(<<n, b>>, sent[c][p])
      BY <1>2, <1>4, <3>1, <3>2
    <3>3. PICK j \in 1 .. p - 1 : sent[c][j] = <<n, b>>
      <4> DEFINE v == <<n, b>>
      <4> HIDE DEF v
      <4>1. v \in Fellows(c, sent[c][p][1]) /\ Before(v, sent[c][p])
        BY <3>0 DEF v
      <4>2. \E j \in 1 .. p - 1 : sent[c][j] = v
        BY <4>1, PlacesBefore DEF Arriving
      <4> QED BY <4>2 DEF v
    <3>4. Len(OfCell(answered[k], c)) \in Nat /\ p \in Nat
      BY <1>1, WayTyped DEF Arriving
    <3>5. <<c, sent[c][j]>> \in Range(answered[c[2]])
      <4> DEFINE size == Len(OfCell(answered[c[2]], c))
      <4>1. size \in Nat /\ p <= size
        BY <1>1, <1>2, <3>4
      <4> HIDE DEF size
      <4>2. p <= size + 1
        BY <3>4, <4>1
      <4> QED BY <4>2, AnsweredDown, Zenon DEF size
    <3> QED BY <1>1, <3>3, <3>5
  <2> QED BY <2>1, <2>2
<1> QED BY <1>4, <1>5, <1>7

-----------------------------------------------------------------------------
\* The answer that the master accepts

\* The message m of the register is the next in the order of its ID.
LEMMA NextAnswer ==
  ASSUME Arriving, NEW k \in Kind, NEW m \in Message, m[1][2] = k, active[k] = <<m>>
  PROVE  /\ m[2] \in Range(sent[m[1]]) /\ m[2][1] \in Home(m[1]) /\ m[1] = PlaneOf(k, m[2][1])
         /\ ~Finished(k, m[2][1])
         /\ \A w \in Fellows(m[1], m[2][1]) :
              Before(w, m[2]) => <<m[1], w>> \in Range(answered[k])
         /\ \A w : <<m[1], w>> \in Range(answered[k]) /\ SameId(k, w[1], m[2][1]) => Before(w, m[2])
<1> DEFINE c == m[1]
           w0 == m[2]
           n == m[2][1]
           a == OfCell(answered[k], c)
           x == OfCell(active[k], c)
           s == sent[c]
           p == Len(a) + 1
<1>1. c \in Cell /\ c[2] = k /\ w0 \in What /\ w0 = <<n, w0[2]>>
  BY MessageIs
<1>2. a \in Seq(What) /\ x \in Seq(What) /\ s \in Seq(What)
  BY <1>1, WayTyped DEF Arriving
<1>3. x = <<w0>>
  <2> HIDE DEF x
  <2>1. OfCell(<<m>>, c) = <<w0>>
    BY OfCellOfOne
  <2> QED BY <2>1 DEF x
<1>4. StartsWith(s, a \o x)
  BY <1>1, AnsweredFirst DEF Arriving
<1>5. p \in DOMAIN s /\ s[p] = w0 /\ p \in Nat
  <2> HIDE DEF a, s, w0
  <2>1. StartsWith(s, a \o <<w0>>)
    BY <1>3, <1>4
  <2> DEFINE u == a \o <<w0>>
  <2>2. Len(u) = p /\ u[p] = w0 /\ p \in 1 .. Len(u) /\ p \in Nat
    BY <1>1, <1>2
  <2> HIDE DEF u
  <2>3. p <= Len(s) /\ s[p] = w0
    BY <2>1, <2>2 DEF StartsWith, u
  <2> QED BY <1>2, <2>2, <2>3
<1>6. w0 \in Range(s)
  BY <1>5 DEF Range
<1>7. n \in Home(c)
  BY <1>1, <1>6, SentAreFellows DEF Arriving
<1>8. c = PlaneOf(k, n)
  BY <1>1, <1>7, HomeIsPlane DEF Arriving
<1>9. ASSUME NEW w \in Fellows(c, n), Before(w, w0)
      PROVE  <<c, w>> \in Range(answered[k])
  <2>1. w \in Fellows(c, s[p][1]) /\ Before(w, s[p])
    BY <1>5, <1>9
  <2>2. PICK j \in 1 .. p - 1 : s[j] = w
    BY <1>1, <1>5, <2>1, PlacesBefore DEF Arriving
  <2>3. <<c, s[j]>> \in Range(answered[c[2]])
    <3>1. p \in DOMAIN sent[c] /\ p <= Len(OfCell(answered[c[2]], c)) + 1
      BY <1>1, <1>5
    <3> HIDE DEF p
    <3> QED BY <1>1, <3>1, AnsweredDown
  <2> QED BY <1>1, <2>2, <2>3
<1>10. ASSUME NEW w, <<c, w>> \in Range(answered[k])
       PROVE  /\ w # w0
              /\ SameId(k, w[1], n) => Before(w, w0)
  <2>1. PICK j \in DOMAIN s : s[j] = w /\ j <= Len(a)
    BY <1>1, <1>10, AnsweredPlace
  <2>2. j \in 1 .. p - 1
    BY <1>2, <2>1
  <2>3. s[p] # s[j]
    BY <1>1, <1>5, <2>2, SentOnce DEF Arriving
  <2>4. SameId(c[2], s[j][1], s[p][1]) => Before(s[j], s[p])
    BY <1>1, <1>5, <2>2, PlacesBefore DEF Arriving
  <2>5. s[j] = w /\ s[p] = w0 /\ s[p][1] = n
    BY <1>5, <2>1
  <2> HIDE DEF s, p, w0, n
  <2> QED BY <1>1, <2>3, <2>4, <2>5
<1>11. ~Finished(k, n)
  <2> SUFFICES ASSUME Finished(k, n) PROVE FALSE
    OBVIOUS
  <2>1. w0[2] \in 1 .. Requests[k][n].beats
    BY <1>1, <1>6, SentAreFellows DEF Arriving
  <2>2. <<c, <<n, w0[2]>>>> \in Range(answered[k])
    BY <1>8, <2>1, FinishedWhole
  <2>3. <<c, w0>> \in Range(answered[k])
    BY <1>1, <2>2
  <2> QED BY <1>10, <2>3
<1> QED BY <1>6, <1>7, <1>8, <1>9, <1>10, <1>11

\* What the edge does with the register of a kind: the master accepts m, ...
Answers(k, m) ==
  /\ m \in Message /\ m[1][2] = k /\ active[k] = <<m>>
  /\ answered'[k] = Append(answered[k], m)
  /\ \A id \in Id :
       /\ guard'[k][id].rp = guard[k][id].rp
       /\ guard'[k][id].outstanding
            = IF /\ m[2][2] = Requests[k][m[2][1]].beats /\ Requests[k][m[2][1]].id = id
                 /\ guard[k][id].outstanding # 0
              THEN guard[k][id].outstanding - 1 ELSE guard[k][id].outstanding

\* ... or accepts nothing.
NoAnswer(k) ==
  /\ answered'[k] = answered[k]
  /\ \A id \in Id : /\ guard'[k][id].rp = guard[k][id].rp
                    /\ guard'[k][id].outstanding = guard[k][id].outstanding

LEMMA AnswerIs ==
  ASSUME Typed, NEW ready \in [Kind -> BOOLEAN], Threads(ready), NEW k \in Kind
  PROVE  NoAnswer(k) \/ \E m : Answers(k, m)
<1> DEFINE r == ready[k]
<1>1. /\ guard'[k] = Retired(k, r)
      /\ answered'[k] = IF Handshake(k, r) THEN answered[k] \o active[k] ELSE answered[k]
  BY DEF Threads
<1>2. \A id \in Id :
         /\ Retired(k, r)[id].rp = guard[k][id].rp
         /\ Retired(k, r)[id].outstanding
              = IF Ends1(k, r, id) /\ guard[k][id].outstanding # 0
                THEN guard[k][id].outstanding - 1 ELSE guard[k][id].outstanding
  BY RetiredIs
<1>3. CASE ~Handshake(k, r)
  <2>1. \A id \in Id : ~Ends1(k, r, id)
    BY <1>3 DEF Ends1
  <2> QED BY <1>1, <1>2, <1>3, <2>1 DEF NoAnswer
<1>4. CASE Handshake(k, r)
  <2>1. active[k] # <<>>
    BY <1>4 DEF Handshake
  <2>2. PICK m \in Message : active[k] = <<m>> /\ m[1][2] = k
    BY <2>1, ActiveIs
  <2>3. answered'[k] = Append(answered[k], m)
    <3>1. answered[k] \in Seq(Message)
      BY DEF Typed
    <3>2. answered[k] \o <<m>> = Append(answered[k], m)
      BY <3>1
    <3> QED BY <1>1, <1>4, <2>2, <3>2
  <2>4. Head(active[k]) = m
    BY <2>2
  <2>5. \A id \in Id : Ends1(k, r, id) <=>
                         m[2][2] = Requests[k][m[2][1]].beats /\ Requests[k][m[2][1]].id = id
    BY <1>4, <2>2, <2>4 DEF Ends1, IsLast, RequestOf
  <2>6. Answers(k, m)
    BY <1>1, <1>2, <2>2, <2>3, <2>5 DEF Answers
  <2> QED BY <2>6
<1> QED BY <1>3, <1>4

\* A request is finished with its last message.
LEMMA FinishedNext ==
  ASSUME Typed, Typed', NEW k \in Kind, NEW m, Answers(k, m), NEW n
  PROVE  Finished(k, n)' <=> \/ Finished(k, n)
                             \/ n = m[2][1] /\ m[2][2] = Requests[k][n].beats
<1>1. /\ answered[k] \in Seq(Message) /\ m \in Message /\ m[1][2] = k
      /\ answered'[k] = Append(answered[k], m)
  BY DEF Typed, Answers
<1>2. IsLast(m[1], m[2]) <=> m[2][2] = Requests[k][m[2][1]].beats
  BY <1>1 DEF IsLast, RequestOf
<1> DEFINE a == answered[k]
           b == answered'[k]
<1>3. /\ DOMAIN a = 1 .. Len(a) /\ DOMAIN b = 1 .. Len(a) + 1 /\ Len(a) \in Nat
      /\ b[Len(a) + 1] = m /\ \A i \in 1 .. Len(a) : b[i] = a[i]
  BY <1>1
<1> HIDE DEF a, b
<1>4. (\E i \in DOMAIN b : b[i][2][1] = n /\ IsLast(b[i][1], b[i][2]))
        <=> \/ \E i \in DOMAIN a : a[i][2][1] = n /\ IsLast(a[i][1], a[i][2])
            \/ m[2][1] = n /\ IsLast(m[1], m[2])
  <2>1. DOMAIN b = DOMAIN a \cup {Len(a) + 1}
    BY <1>3
  <2> QED BY <1>3, <2>1
<1>5. Finished(k, n) <=> \E i \in DOMAIN a : a[i][2][1] = n /\ IsLast(a[i][1], a[i][2])
  BY DEF Finished, a
<1>6. Finished(k, n)' <=> \E i \in DOMAIN b : b[i][2][1] = n /\ IsLast(b[i][1], b[i][2])
  BY DEF Finished, b, IsLast, RequestOf
<1> QED BY <1>2, <1>4, <1>5, <1>6

-----------------------------------------------------------------------------
\* The order guards

LEMMA OutstandingIs ==
  ASSUME Typed, NEW k \in Kind, NEW id
  PROVE  /\ IsFiniteSet(Outstanding(k, id)) /\ Cardinality(Outstanding(k, id)) \in Nat
         /\ \A n \in Outstanding(k, id) : n \in 1 .. accepted[k]
<1>1. accepted[k] \in Nat
  BY DEF Typed
<1>2. IsFiniteSet(1 .. accepted[k])
  BY <1>1, FS_Interval
<1>3. Outstanding(k, id) \in SUBSET (1 .. accepted[k])
  BY DEF Outstanding
<1>4. IsFiniteSet(Outstanding(k, id))
  BY <1>2, <1>3, FS_Subset
<1> QED BY <1>3, <1>4, FS_CardinalityType

LEMMA FinishedAccepted ==
  ASSUME Arriving, NEW k \in Kind, NEW n, Finished(k, n)
  PROVE  n \in 1 .. accepted[k] /\ n \in Nat
<1>1. PlaneOf(k, n) \in Cell /\ n \in Home(PlaneOf(k, n)) /\ PlaneOf(k, n)[2] = k
  BY FinishedWhole DEF PlaneOf
<1> QED BY <1>1, HomeIs DEF Arriving

\* Answers in the order of their requests, as OrderKeptOrReported has it, ...
AnswersOrdered(a) ==
  \A k \in Kind : \A i \in DOMAIN a[k] :
    LET m == a[k][i]
        id == RequestOf(m[1], m[2]).id
    IN {r \in MessagesOf(k, id) : Before(r, m[2])}
         = {a[k][j][2] : j \in {h \in 1 .. i - 1 : RequestOf(a[k][h][1], a[k][h][2]).id = id}}

\* ... and at a place of the answers of a kind.
OrderAt(k, s, i) ==
  {r \in MessagesOf(k, Requests[k][s[i][2][1]].id) : Before(r, s[i][2])}
    = {s[j][2] : j \in {h \in 1 .. i - 1 : SameId(k, s[h][2][1], s[i][2][1])}}

LEMMA OrderKeptIs ==
  /\ OrderKeptOrReported <=> (~reported => AnswersOrdered(answered))
  /\ OrderKeptOrReported' <=> (~reported' => AnswersOrdered(answered'))
<1>1. OrderKeptOrReported <=> (~reported => AnswersOrdered(answered))
  BY Zenon DEF OrderKeptOrReported, AnswersOrdered
<1>2. OrderKeptOrReported' <=> (~reported' => AnswersOrdered(answered'))
  BY Zenon DEF OrderKeptOrReported, AnswersOrdered, MessagesOf, RequestOf, Before
<1> QED BY <1>1, <1>2

LEMMA OrderAtIs ==
  ASSUME NEW a, \A k \in Kind : a[k] \in Seq(Message) /\ OfKind(k, a[k])
  PROVE  AnswersOrdered(a) <=> \A k \in Kind : \A i \in DOMAIN a[k] : OrderAt(k, a[k], i)
<1>1. ASSUME NEW k \in Kind, NEW i \in DOMAIN a[k]
      PROVE  (LET m == a[k][i]
                  id == RequestOf(m[1], m[2]).id
              IN {r \in MessagesOf(k, id) : Before(r, m[2])}
                   = {a[k][j][2] : j \in {h \in 1 .. i - 1 : RequestOf(a[k][h][1], a[k][h][2]).id = id}})
             <=> OrderAt(k, a[k], i)
  <2> DEFINE s == a[k]
             id == Requests[k][s[i][2][1]].id
             R(h) == RequestOf(s[h][1], s[h][2]).id
  <2>1. s \in Seq(Message) /\ OfKind(k, s)
    OBVIOUS
  <2>2. \A h \in DOMAIN s : R(h) = Requests[k][s[h][2][1]].id
    BY <2>1 DEF OfKind, RequestOf
  <2>3. \A h \in 1 .. i - 1 : h \in DOMAIN s
    <3> HIDE DEF s
    <3>1. i \in DOMAIN s
      BY DEF s
    <3> QED BY <2>1, <3>1
  <2>4. R(i) = id
    BY <2>2
  <2> HIDE DEF R
  <2>5. {h \in 1 .. i - 1 : R(h) = id} = {h \in 1 .. i - 1 : SameId(k, s[h][2][1], s[i][2][1])}
    BY <2>2, <2>3 DEF SameId
  <2>6. OrderAt(k, s, i) <=>
          {r \in MessagesOf(k, id) : Before(r, s[i][2])}
            = {s[j][2] : j \in {h \in 1 .. i - 1 : R(h) = id}}
    BY <2>5, Zenon DEF OrderAt
  <2> HIDE DEF id
  <2>7. OrderAt(k, s, i) <=>
          {r \in MessagesOf(k, R(i)) : Before(r, s[i][2])}
            = {s[j][2] : j \in {h \in 1 .. i - 1 : R(h) = R(i)}}
    BY <2>4, <2>6, Zenon
  <2> QED BY <2>7, Zenon DEF R, s
<1> QED BY <1>1, Zenon DEF AnswersOrdered

LEMMA AcceptOrdered ==
  ASSUME Arriving, Ordered, NEW k \in Kind, Accept(k)
  PROVE  Ordered'
<1>0. Typed
  BY DEF Arriving
<1>1. PICK n, q : Accepts(k, n, q)
  BY <1>0, AcceptIs
<1>2. /\ n = accepted[k] + 1 /\ n \in 1 .. Len(Requests[k]) /\ q = Requests[k][n]
      /\ q.id \in Id /\ q.rp \in Rp /\ accepted' = [accepted EXCEPT ![k] = n]
      /\ Bind(k, q.id, q.rp) /\ answered' = answered
      /\ accepted \in [Kind -> Nat] /\ guard \in [Kind -> [Id -> [rp : Rp, outstanding : Nat]]]
  BY <1>0, <1>1 DEF Accepts, Typed
<1>3. /\ \A l \in Kind, i \in Id :
           guard'[l][i] = IF l = k /\ i = q.id THEN Bound(k, q.id, q.rp) ELSE guard[l][i]
      /\ reported' <=> reported \/ (guard[k][q.id].outstanding # 0 /\ guard[k][q.id].rp # q.rp)
  BY <1>0, <1>2, BindIs
<1>4. \A l \in Kind : \A x : Finished(l, x)' <=> Finished(l, x)
  BY <1>2 DEF Finished, IsLast, RequestOf
<1>5. ~Finished(k, n) /\ \A i : n \notin Outstanding(k, i)
  <2>1. n \notin 1 .. accepted[k]
    BY <1>2
  <2> QED BY <1>0, <2>1, FinishedAccepted, OutstandingIs
<1>6. ASSUME NEW l \in Kind, NEW i \in Id
      PROVE  Outstanding(l, i)' = IF l = k /\ i = q.id THEN Outstanding(l, i) \cup {n}
                                                       ELSE Outstanding(l, i)
  <2>1. CASE l = k
    <3>1. 1 .. accepted'[l] = (1 .. accepted[l]) \cup {n}
      BY <1>2, <2>1
    <3>2. Outstanding(l, i)' = {x \in (1 .. accepted[l]) \cup {n} :
                                  Requests[l][x].id = i /\ ~Finished(l, x)}
      BY <1>4, <3>1 DEF Outstanding
    <3> QED BY <1>2, <1>5, <2>1, <3>2 DEF Outstanding
  <2>2. CASE l # k
    <3>1. accepted'[l] = accepted[l]
      BY <1>2, <2>2
    <3> QED BY <1>4, <2>2, <3>1 DEF Outstanding
  <2> QED BY <2>1, <2>2
<1>7. ASSUME NEW l \in Kind, NEW i \in Id
      PROVE  /\ guard'[l][i].outstanding = Cardinality(Outstanding(l, i)')
             /\ ~reported' => \A x \in Outstanding(l, i)' : Requests[l][x].rp = guard'[l][i].rp
  <2>1. /\ guard[l][i].outstanding = Cardinality(Outstanding(l, i))
        /\ ~reported => \A x \in Outstanding(l, i) : Requests[l][x].rp = guard[l][i].rp
    BY DEF Ordered, GuardIsExact
  <2>2. CASE ~(l = k /\ i = q.id)
    BY <1>3, <1>6, <2>1, <2>2
  <2>3. CASE l = k /\ i = q.id
    <3> DEFINE O == Outstanding(l, i)
    <3>1. Outstanding(l, i)' = O \cup {n} /\ n \notin O /\ IsFiniteSet(O)
      BY <1>0, <1>5, <1>6, <2>3, OutstandingIs
    <3>2. Cardinality(O \cup {n}) = Cardinality(O) + 1
      <4> HIDE DEF O
      <4> QED BY <3>1, FS_AddElement
    <3>3. /\ guard'[l][i].outstanding = guard[l][i].outstanding + 1
          /\ guard'[l][i].rp = IF guard[l][i].outstanding # 0 /\ guard[l][i].rp # q.rp
                               THEN guard[l][i].rp ELSE q.rp
      BY <1>3, <2>3 DEF Bound
    <3>4. ASSUME ~reported', NEW x \in O \cup {n} PROVE Requests[l][x].rp = guard'[l][i].rp
      <4>1. ~reported /\ (guard[l][i].outstanding = 0 \/ guard[l][i].rp = q.rp)
        BY <1>3, <2>3, <3>4
      <4>2. guard'[l][i].rp = q.rp
        BY <3>3, <4>1
      <4>3. CASE x = n
        BY <1>2, <2>3, <4>2, <4>3
      <4>4. CASE x \in O
        <5>1. Cardinality(O) # 0
          <6> HIDE DEF O
          <6> QED BY <3>1, <4>4, FS_EmptySet
        <5> QED BY <2>1, <4>1, <4>2, <4>4, <5>1
      <4> QED BY <4>3, <4>4
    <3> QED BY <2>1, <3>1, <3>2, <3>3, <3>4
  <2> QED BY <2>2, <2>3
<1>8. GuardIsExact'
  BY <1>7 DEF GuardIsExact
<1>9. ASSUME ~reported', NEW l \in Kind, NEW x \in 1 .. accepted'[l], NEW o \in 1 .. accepted'[l],
             x < o, SameId(l, x, o), ~Finished(l, x)
      PROVE  Requests[l][x].rp = Requests[l][o].rp
  <2>1. ~reported
    BY <1>3, <1>9
  <2>2. CASE x \in 1 .. accepted[l] /\ o \in 1 .. accepted[l]
    BY <1>9, <2>1, <2>2 DEF Ordered, PlaneKept
  <2>3. CASE ~(x \in 1 .. accepted[l] /\ o \in 1 .. accepted[l])
    <3>1. l = k /\ o = n /\ x \in 1 .. accepted[k]
      BY <1>2, <1>9, <2>3
    <3>2. x \in Outstanding(k, q.id)
      BY <1>2, <1>9, <3>1 DEF Outstanding, SameId
    <3>3. x \in Outstanding(k, q.id)' /\ n \in Outstanding(k, q.id)'
      BY <1>2, <1>6, <3>2
    <3> QED BY <1>2, <1>7, <1>9, <3>1, <3>3
  <2> QED BY <2>2, <2>3
<1>10. PlaneKept'
  BY <1>4, <1>9 DEF PlaneKept, SameId
<1>11. OrderKeptOrReported'
  <2>1. (~reported' => ~reported) /\ answered' = answered /\ OrderKeptOrReported
    BY <1>2, <1>3 DEF Ordered
  <2> QED BY <2>1, OrderKeptIs
<1> QED BY <1>8, <1>10, <1>11 DEF Ordered

LEMMA TargetOrdered ==
  ASSUME Ordered, UNCHANGED <<axiVars, answered>>
  PROVE  Ordered'
<1>1. accepted' = accepted /\ guard' = guard /\ reported' = reported /\ answered' = answered
  BY DEF axiVars
<1>2. \A l, x : Finished(l, x)' <=> Finished(l, x)
  BY <1>1 DEF Finished, IsLast, RequestOf
<1>3. \A l, i : Outstanding(l, i)' = Outstanding(l, i)
  BY <1>1, <1>2 DEF Outstanding
<1>4. GuardIsExact'
  BY <1>1, <1>3 DEF Ordered, GuardIsExact
<1>5. PlaneKept'
  BY <1>1, <1>2 DEF Ordered, PlaneKept, SameId
<1>6. OrderKeptOrReported'
  <2>1. OrderKeptOrReported
    BY DEF Ordered
  <2> QED BY <1>1, <2>1, OrderKeptIs
<1> QED BY <1>4, <1>5, <1>6 DEF Ordered

LEMMA MessagesOfIs ==
  ASSUME NEW k \in Kind, NEW id, NEW r
  PROVE  r \in MessagesOf(k, id) <=>
           \E n \in DOMAIN Requests[k] : \E b \in 1 .. Requests[k][n].beats :
             Requests[k][n].id = id /\ r = <<n, b>>
BY DEF MessagesOf

\* A message answered in the order of its ID.
LEMMA AnswerInOrder ==
  ASSUME Arriving, Ordered, ~reported, NEW k \in Kind, NEW m, Answers(k, m)
  PROVE  {r \in MessagesOf(k, Requests[k][m[2][1]].id) : Before(r, m[2])}
           = {w[2] : w \in {v \in Range(answered[k]) : SameId(k, v[2][1], m[2][1])}}
<1> DEFINE n == m[2][1]
           b == m[2][2]
           c == m[1]
<1>1. /\ m \in Message /\ m[1][2] = k /\ active[k] = <<m>> /\ c \in Cell /\ c[2] = k
      /\ m[2] = <<n, b>> /\ n \in Nat /\ b \in Nat
  BY MessageIs DEF Answers
<1>2. /\ m[2] \in Range(sent[c]) /\ n \in Home(c) /\ c = PlaneOf(k, n) /\ ~Finished(k, n)
      /\ \A w \in Fellows(c, n) : Before(w, m[2]) => <<c, w>> \in Range(answered[k])
      /\ \A w : <<c, w>> \in Range(answered[k]) /\ SameId(k, w[1], n) => Before(w, m[2])
  BY <1>1, NextAnswer
<1>3. n \in 1 .. accepted[k] /\ accepted[k] \in Nat /\ accepted[k] <= Len(Requests[k])
      /\ b \in 1 .. Requests[k][n].beats
  <2>1. b \in 1 .. Requests[k][n].beats
    BY <1>1, <1>2, SentAreFellows DEF Arriving
  <2>2. n \in Nat \ {0} /\ n <= accepted[c[2]] /\ accepted[c[2]] \in Nat
    BY <1>1, <1>2, HomeIs DEF Arriving
  <2>3. accepted[k] <= Len(Requests[k])
    BY DEF Arriving, Typed
  <2> HIDE DEF n, b, c
  <2> QED BY <1>1, <2>1, <2>2, <2>3
<1>4. \A x, y \in 1 .. accepted[k] :
        x < y /\ SameId(k, x, y) /\ ~Finished(k, x) => Requests[k][x].rp = Requests[k][y].rp
  BY DEF Ordered, PlaneKept
<1> HIDE DEF n, b, c
\* What comes before m is answered, ...
<1>5. ASSUME NEW x \in DOMAIN Requests[k], NEW y \in 1 .. Requests[k][x].beats,
             SameId(k, x, n), Before(<<x, y>>, m[2])
      PROVE  \E v \in Range(answered[k]) : SameId(k, v[2][1], n) /\ v[2] = <<x, y>>
  <2>1. x \in Nat \ {0} /\ y \in Nat /\ x \in 1 .. Len(Requests[k]) /\ Len(Requests[k]) \in Nat
    BY Constants
  <2>2. x < n \/ (x = n /\ y < b)
    BY <1>1, <1>5 DEF Before
  <2>3. CASE Requests[k][x].rp = Requests[k][n].rp
    <3>1. Requests[k][x].rp = c[1]
      BY <1>2, <2>3 DEF PlaneOf
    <3>2. <<x, y>> \in Fellows(c, n)
      BY <1>1, <1>5, <2>1, <3>1 DEF Fellows, What
    <3>3. <<c, <<x, y>>>> \in Range(answered[k])
      BY <1>2, <1>5, <3>2
    <3> QED BY <1>5, <3>3
  <2>4. CASE Requests[k][x].rp # Requests[k][n].rp
    <3>1. x < n /\ x \in 1 .. accepted[k]
      BY <1>1, <1>3, <2>1, <2>2, <2>4
    <3>2. Finished(k, x)
      BY <1>3, <1>4, <1>5, <2>4, <3>1
    <3>3. <<PlaneOf(k, x), <<x, y>>>> \in Range(answered[k])
      BY <3>2, FinishedWhole
    <3> QED BY <1>5, <3>3
  <2> QED BY <2>3, <2>4
\* ... and what is answered comes before m.
<1>6. ASSUME NEW v \in Range(answered[k]), SameId(k, v[2][1], n)
      PROVE  /\ v[2] = <<v[2][1], v[2][2]>> /\ v[2][1] \in DOMAIN Requests[k]
             /\ v[2][2] \in 1 .. Requests[k][v[2][1]].beats /\ Before(v[2], m[2])
  <2>1. v \in Message /\ v[1][2] = k
    <3>1. answered[k] \in Seq(Message) /\ OfKind(k, answered[k])
      BY DEF Arriving, Typed
    <3> QED BY <3>1 DEF OfKind, Range
  <2> DEFINE d == v[1]
             x == v[2][1]
             y == v[2][2]
  <2>2. v = <<d, v[2]>> /\ d \in Cell /\ d[2] = k /\ v[2] = <<x, y>>
    BY <2>1, MessageIs
  <2>3. v[2] \in Range(sent[d])
    BY <2>2, AnsweredPlace
  <2>4. x \in Home(d) /\ y \in 1 .. Requests[k][x].beats
    BY <2>2, <2>3, SentAreFellows DEF Arriving
  <2>5. d = PlaneOf(k, x) /\ x \in DOMAIN Requests[k] /\ x \in 1 .. accepted[k] /\ x \in Nat
    BY <1>3, <2>2, <2>4, HomeIs, HomeIsPlane DEF Arriving
  <2> HIDE DEF d, x, y
  <2>6. Before(v[2], m[2])
    <3>1. CASE d = c
      <4>1. <<c, v[2]>> \in Range(answered[k]) /\ SameId(k, v[2][1], n)
        BY <1>6, <2>2, <3>1
      <4> QED BY <1>2, <4>1
    <3>2. CASE d # c
      <4>1. Requests[k][x].rp # Requests[k][n].rp
        BY <1>2, <2>5, <3>2 DEF PlaneOf
      <4>2. SameId(k, n, x)
        BY <1>6 DEF SameId, x
      <4>3. ~(n < x)
        BY <1>2, <1>3, <1>4, <2>5, <4>1, <4>2
      <4>4. x # n
        BY <4>1
      <4>5. x < n
        BY <1>1, <2>5, <4>3, <4>4
      <4> QED BY <1>1, <4>5 DEF Before, x
    <3> QED BY <3>1, <3>2
  <2> QED BY <2>2, <2>4, <2>5, <2>6 DEF x, y
<1>7. ASSUME NEW r
      PROVE  r \in MessagesOf(k, Requests[k][n].id) /\ Before(r, m[2])
               <=> \E v \in Range(answered[k]) : SameId(k, v[2][1], n) /\ v[2] = r
  <2>1. ASSUME r \in MessagesOf(k, Requests[k][n].id), Before(r, m[2])
        PROVE  \E v \in Range(answered[k]) : SameId(k, v[2][1], n) /\ v[2] = r
    <3>1. PICK x \in DOMAIN Requests[k] : \E y \in 1 .. Requests[k][x].beats :
            Requests[k][x].id = Requests[k][n].id /\ r = <<x, y>>
      BY <2>1, MessagesOfIs
    <3> QED BY <1>5, <2>1, <3>1 DEF SameId
  <2>2. ASSUME NEW v \in Range(answered[k]), SameId(k, v[2][1], n), v[2] = r
        PROVE  r \in MessagesOf(k, Requests[k][n].id) /\ Before(r, m[2])
    <3>1. /\ v[2] = <<v[2][1], v[2][2]>> /\ v[2][1] \in DOMAIN Requests[k]
          /\ v[2][2] \in 1 .. Requests[k][v[2][1]].beats /\ Before(v[2], m[2])
      BY <1>6, <2>2
    <3> QED BY <2>2, <3>1, MessagesOfIs DEF SameId
  <2> QED BY <2>1, <2>2
<1> QED BY <1>7 DEF n

LEMMA OrderAtAppend ==
  ASSUME NEW k \in Kind, NEW s \in Seq(Message), NEW m \in Message,
         \A i \in DOMAIN s : OrderAt(k, s, i),
         {r \in MessagesOf(k, Requests[k][m[2][1]].id) : Before(r, m[2])}
           = {w[2] : w \in {v \in Range(s) : SameId(k, v[2][1], m[2][1])}}
  PROVE  \A i \in DOMAIN Append(s, m) : OrderAt(k, Append(s, m), i)
<1> DEFINE a == Append(s, m)
<1>1. /\ DOMAIN s = 1 .. Len(s) /\ DOMAIN a = 1 .. Len(s) + 1 /\ Len(s) \in Nat
      /\ a[Len(s) + 1] = m /\ \A j \in 1 .. Len(s) : a[j] = s[j]
  OBVIOUS
<1> HIDE DEF a
<1>2. ASSUME NEW i \in 1 .. Len(s) PROVE OrderAt(k, a, i)
  <2>1. a[i] = s[i] /\ \A j \in 1 .. i - 1 : a[j] = s[j]
    BY <1>1
  <2>2. {a[j][2] : j \in {h \in 1 .. i - 1 : SameId(k, a[h][2][1], a[i][2][1])}}
          = {s[j][2] : j \in {h \in 1 .. i - 1 : SameId(k, s[h][2][1], s[i][2][1])}}
    BY <2>1
  <2>3. OrderAt(k, s, i)
    BY <1>1
  <2> QED BY <2>1, <2>2, <2>3 DEF OrderAt
<1>3. OrderAt(k, a, Len(s) + 1)
  <2>1. {a[j][2] : j \in {h \in 1 .. Len(s) : SameId(k, a[h][2][1], m[2][1])}}
          = {w[2] : w \in {v \in Range(s) : SameId(k, v[2][1], m[2][1])}}
    BY <1>1 DEF Range
  <2>2. (Len(s) + 1) - 1 = Len(s) /\ a[Len(s) + 1] = m
    BY <1>1
  <2> QED BY <2>1, <2>2 DEF OrderAt
<1>4. ASSUME NEW i \in DOMAIN a PROVE OrderAt(k, a, i)
  <2>1. i \in 1 .. Len(s) \/ i = Len(s) + 1
    BY <1>1
  <2> QED BY <1>2, <1>3, <2>1
<1> QED BY <1>4 DEF a

LEMMA AnswerExact ==
  ASSUME Arriving, Typed', GuardIsExact, NEW k \in Kind, accepted' = accepted, reported' = reported,
         NoAnswer(k) \/ \E m : Answers(k, m), NEW id \in Id
  PROVE  /\ guard'[k][id].outstanding = Cardinality(Outstanding(k, id)')
         /\ ~reported' => \A n \in Outstanding(k, id)' : Requests[k][n].rp = guard'[k][id].rp
         /\ \A n : Finished(k, n) => Finished(k, n)'
<1> DEFINE O == Outstanding(k, id)
           g == guard[k][id].outstanding
<1>0. Typed
  BY DEF Arriving
<1>1. /\ g = Cardinality(O) /\ g \in Nat
      /\ ~reported => \A n \in O : Requests[k][n].rp = guard[k][id].rp
      /\ IsFiniteSet(O)
  BY <1>0, OutstandingIs DEF GuardIsExact
<1>2. guard'[k][id].rp = guard[k][id].rp
  BY DEF NoAnswer, Answers
<1>3. CASE NoAnswer(k)
  <2>1. \A n : Finished(k, n)' <=> Finished(k, n)
    BY <1>3 DEF NoAnswer, Finished, IsLast, RequestOf
  <2>2. Outstanding(k, id)' = O
    BY <2>1 DEF Outstanding
  <2>3. guard'[k][id].outstanding = g
    BY <1>3 DEF NoAnswer
  <2> QED BY <1>1, <1>2, <2>1, <2>2, <2>3
<1>4. CASE \E m : Answers(k, m)
  <2>1. PICK m : Answers(k, m)
    BY <1>4
  <2> DEFINE n == m[2][1]
  <2>2. \A x : Finished(k, x)' <=> Finished(k, x) \/ (x = n /\ m[2][2] = Requests[k][x].beats)
    BY <1>0, <2>1, FinishedNext
  <2>3. ~Finished(k, n) /\ n \in 1 .. accepted[k]
    <3>1. m \in Message /\ m[1][2] = k /\ active[k] = <<m>> /\ m[1] \in Cell
      BY <2>1, MessageIs DEF Answers
    <3>2. ~Finished(k, n) /\ n \in Home(m[1])
      BY <3>1, NextAnswer
    <3> QED BY <3>1, <3>2 DEF Home
  <2>4. guard'[k][id].outstanding
            = IF m[2][2] = Requests[k][n].beats /\ Requests[k][n].id = id /\ g # 0
              THEN g - 1 ELSE g
    BY <2>1 DEF Answers
  <2> HIDE DEF n, g
  <2>5. CASE m[2][2] = Requests[k][n].beats /\ Requests[k][n].id = id
    <3>1. n \in O
      BY <2>3, <2>5 DEF Outstanding
    <3>2. Outstanding(k, id)' = O \ {n}
      BY <2>2, <2>5 DEF Outstanding
    <3>3. Cardinality(O \ {n}) = Cardinality(O) - 1 /\ Cardinality(O) # 0
      <4> HIDE DEF O
      <4> QED BY <1>1, <3>1, FS_RemoveElement, FS_EmptySet
    <3> QED BY <1>1, <1>2, <2>2, <2>4, <2>5, <3>2, <3>3
  <2>6. CASE ~(m[2][2] = Requests[k][n].beats /\ Requests[k][n].id = id)
    <3>1. Outstanding(k, id)' = O
      BY <2>2, <2>6 DEF Outstanding
    <3> QED BY <1>1, <1>2, <2>2, <2>4, <2>6, <3>1
  <2> QED BY <2>5, <2>6
<1> QED BY <1>3, <1>4

LEMMA RoutesOrdered ==
  ASSUME Arriving, Ordered, Typed', NEW r, NEW n, NEW valid \in BOOLEAN,
         NEW ready \in [Kind -> BOOLEAN], Routes(r, n, valid, ready)
  PROVE  Ordered'
<1>0. Typed /\ Threads(ready)
  BY DEF Arriving, Routes
<1>1. accepted' = accepted /\ reported' = reported
  BY DEF Routes
<1>2. \A k \in Kind : NoAnswer(k) \/ \E m : Answers(k, m)
  BY <1>0, AnswerIs
<1>3. ASSUME NEW k \in Kind, NEW id \in Id
      PROVE  /\ guard'[k][id].outstanding = Cardinality(Outstanding(k, id)')
             /\ ~reported' => \A x \in Outstanding(k, id)' : Requests[k][x].rp = guard'[k][id].rp
             /\ \A x : Finished(k, x) => Finished(k, x)'
  BY <1>1, <1>2, AnswerExact DEF Ordered
<1>4. GuardIsExact'
  BY <1>3 DEF GuardIsExact
<1>5. PlaneKept'
  <2> SUFFICES ASSUME ~reported', NEW k \in Kind, NEW x \in 1 .. accepted'[k],
                      NEW o \in 1 .. accepted'[k], x < o, SameId(k, x, o), ~Finished(k, x)'
               PROVE  Requests[k][x].rp = Requests[k][o].rp
    BY DEF PlaneKept, SameId
  <2>1. Requests[k][x].id \in Id
    <3>1. accepted[k] \in Nat /\ accepted[k] <= Len(Requests[k]) /\ Len(Requests[k]) \in Nat
      BY <1>0, Constants DEF Typed
    <3>2. x \in 1 .. Len(Requests[k])
      BY <1>1, <3>1
    <3> QED BY <3>2, RequestIs
  <2>2. ~Finished(k, x)
    BY <1>3, <2>1
  <2> QED BY <1>1, <2>2 DEF Ordered, PlaneKept
<1>6. ASSUME ~reported PROVE AnswersOrdered(answered')
  <2>1. /\ \A k \in Kind : answered[k] \in Seq(Message) /\ OfKind(k, answered[k])
        /\ \A k \in Kind : answered'[k] \in Seq(Message) /\ OfKind(k, answered'[k])
    BY <1>0 DEF Typed, OfKind
  <2>2. AnswersOrdered(answered)
    BY <1>6, OrderKeptIs DEF Ordered
  <2>3. \A k \in Kind : \A i \in DOMAIN answered[k] : OrderAt(k, answered[k], i)
    BY <2>1, <2>2, OrderAtIs
  <2>4. ASSUME NEW k \in Kind PROVE \A i \in DOMAIN answered'[k] : OrderAt(k, answered'[k], i)
    <3>1. CASE NoAnswer(k)
      BY <2>3, <3>1 DEF NoAnswer
    <3>2. CASE \E m : Answers(k, m)
      <4>1. PICK m : Answers(k, m)
        BY <3>2
      <4>2. {x \in MessagesOf(k, Requests[k][m[2][1]].id) : Before(x, m[2])}
              = {w[2] : w \in {v \in Range(answered[k]) : SameId(k, v[2][1], m[2][1])}}
        BY <1>6, <4>1, AnswerInOrder
      <4>3. m \in Message /\ answered'[k] = Append(answered[k], m)
        BY <4>1 DEF Answers
      <4> DEFINE s == answered[k]
      <4>4. s \in Seq(Message) /\ \A i \in DOMAIN s : OrderAt(k, s, i)
        BY <2>1, <2>3
      <4>5. {x \in MessagesOf(k, Requests[k][m[2][1]].id) : Before(x, m[2])}
              = {w[2] : w \in {v \in Range(s) : SameId(k, v[2][1], m[2][1])}}
        BY <4>2
      <4> HIDE DEF s
      <4>6. \A i \in DOMAIN Append(s, m) : OrderAt(k, Append(s, m), i)
        BY <4>3, <4>4, <4>5, OrderAtAppend
      <4> QED BY <4>3, <4>6 DEF s
    <3> QED BY <1>2, <3>1, <3>2
  <2> QED BY <2>1, <2>4, OrderAtIs
<1>7. OrderKeptOrReported'
  BY <1>1, <1>6, OrderKeptIs
<1> QED BY <1>4, <1>5, <1>7 DEF Ordered

-----------------------------------------------------------------------------
\* The invariant

LEMMA InitPath == Init => PathInv
<1> SUFFICES ASSUME Init PROVE PathInv
  OBVIOUS
<1>1. 0 \in Rp
  BY Constants DEF Rp
<1>2. \A k \in Kind : Len(Requests[k]) \in Nat
  BY Constants
<1>3. Typed
  <2>1. \A k : OfKind(k, <<>>)
    BY DEF OfKind
  <2>2. guard \in [Kind -> [Id -> [rp : Rp, outstanding : Nat]]]
    <3> HIDE DEF Id
    <3>1. [rp |-> 0, outstanding |-> 0] \in [rp : Rp, outstanding : Nat]
      BY <1>1
    <3> QED BY <3>1 DEF Init
  <2>3. \A c \in Cell : Capacity(c[2]) \in Nat
    BY Constants DEF Capacity
  <2>4. credit \in [Cell -> Nat] /\ burst \in [Cell -> What]
    BY <2>3 DEF Init, NoBurst, What
  <2>5. /\ answered \in [Kind -> Seq(Message)] /\ active \in [Kind -> Seq(Message)]
        /\ todo \in [Cell -> Seq(Nat)] /\ sent \in [Cell -> Seq(What)] /\ fifo \in [Cell -> Seq(What)]
        /\ pending \in Seq(Message) /\ nextRp \in [Kind -> Rp] /\ accepted \in [Kind -> Nat]
    BY <1>1 DEF Init
  <2>6. \A k \in Kind : /\ OfKind(k, answered[k]) /\ OfKind(k, active[k]) /\ Len(active[k]) <= 1
                        /\ accepted[k] <= Len(Requests[k])
    BY <1>2, <2>1 DEF Init
  <2>7. reported \in BOOLEAN /\ refused = FALSE /\ pendingUpdates \in Nat /\ updates \in 0 .. UpdateDepth
    <3>1. reported = FALSE /\ refused = FALSE /\ pendingUpdates = 0 /\ updates = 0
      BY DEF Init
    <3>2. 0 \in 0 .. UpdateDepth
      BY Constants
    <3> QED BY <3>1, <3>2
  <2> QED BY <2>2, <2>4, <2>5, <2>6, <2>7 DEF Typed
<1>4. Streamed
  BY ChainEmpty DEF Init, Streamed
<1>5. \A c \in Cell : /\ OfCell(active[c[2]], c) = <<>> /\ OfCell(answered[c[2]], c) = <<>>
                      /\ OfCell(pending, c) = <<>> /\ OfCell(Ends(stream), c) = <<>>
                      /\ fifo[c] = <<>> /\ sent[c] = <<>> /\ todo[c] = <<>> /\ burst[c] = NoBurst
                      /\ credit[c] = Capacity(c[2])
  BY Constants, OfCellEmpty, EndsEmpty DEF Init
<1>6. ResponsesArriveInOrder
  <2>1. <<>> \o <<>> = <<>>
    OBVIOUS
  <2> QED BY <1>5, <2>1 DEF ResponsesArriveInOrder
<1>7. Paid
  <2> SUFFICES ASSUME NEW c \in Cell
               PROVE  InFlight(c) <= Depth[c[2]] /\ credit[c] = Granules[c[2]] * (Depth[c[2]] - InFlight(c))
    BY DEF Paid
  <2>1. InFlight(c) = 0
    <3>1. Len(<<>>) = 0
      OBVIOUS
    <3>2. InFlight(c) = Len(<<>>) + Len(<<>>) + Len(<<>>) + Len(<<>>)
      BY <1>5, Zenon DEF InFlight
    <3> QED BY <3>1, <3>2
  <2>2. Granules[c[2]] \in Nat /\ Depth[c[2]] \in Nat
    BY Constants
  <2>3. Depth[c[2]] * Granules[c[2]] = Granules[c[2]] * Depth[c[2]]
    BY <2>2
  <2>4. Depth[c[2]] - 0 = Depth[c[2]] /\ 0 <= Depth[c[2]]
    BY <2>2
  <2> QED BY <1>5, <2>1, <2>3, <2>4, Zenon DEF Capacity
<1>8. \A c \in Cell : Home(c) = {} /\ DOMAIN todo[c] = {} /\ Range(todo[c]) = {}
                      /\ DOMAIN sent[c] = {} /\ Range(sent[c]) = {}
  <2>1. DOMAIN <<>> = {} /\ Range(<<>>) = {}
    BY DEF Range
  <2>2. \A c \in Cell : accepted[c[2]] = 0
    BY Constants DEF Init
  <2>3. \A c \in Cell : Home(c) = {}
    BY <2>2 DEF Home
  <2> QED BY <1>5, <2>1, <2>3
<1>9. AtTarget
  <2>1. Queued
    BY <1>5, <1>8 DEF Queued
  <2>2. EarlierFurther
    BY <1>8 DEF EarlierFurther
  <2>3. SentIsBegun
    BY <1>8 DEF SentIsBegun
  <2>4. SentInOrder
    BY <1>8 DEF SentInOrder
  <2> QED BY <2>1, <2>2, <2>3, <2>4 DEF AtTarget
<1>10. Ordered
  <2>1. \A k \in Kind : accepted[k] = 0 /\ DOMAIN answered[k] = {}
    BY DEF Init
  <2>2. \A k \in Kind, id \in Id : Outstanding(k, id) = {} /\ guard[k][id].outstanding = 0
    BY <2>1 DEF Init, Outstanding
  <2>3. GuardIsExact
    BY <2>2, FS_EmptySet DEF GuardIsExact
  <2>4. PlaneKept
    BY <2>1 DEF PlaneKept
  <2>5. OrderKeptOrReported
    BY <2>1 DEF OrderKeptOrReported
  <2> QED BY <2>3, <2>4, <2>5 DEF Ordered
<1> QED BY <1>3, <1>4, <1>6, <1>7, <1>9, <1>10 DEF PathInv, Arriving

\* Steps that leave the way of the responses alone.
LEMMA WayKept ==
  ASSUME Streamed, ResponsesArriveInOrder, Paid,
         UNCHANGED <<answered, sent, stream, credit, bridgeVars>>
  PROVE  Streamed' /\ ResponsesArriveInOrder' /\ Paid'
<1>1. UNCHANGED <<answered, sent, stream, credit, carry, pending, fifo, active>>
  BY DEF bridgeVars
<1>2. Streamed'
  BY <1>1 DEF Streamed
<1>3. ResponsesArriveInOrder'
  BY <1>1 DEF ResponsesArriveInOrder
<1>4. \A c : InFlight(c)' = InFlight(c)
  BY <1>1 DEF InFlight
<1>5. Paid'
  BY <1>1, <1>4 DEF Paid
<1> QED BY <1>2, <1>3, <1>5

LEMMA StepPath == PathInv /\ [Next]_vars => PathInv'
<1> SUFFICES ASSUME PathInv, [Next]_vars PROVE PathInv'
  OBVIOUS
<1>0. /\ Typed /\ Streamed /\ ResponsesArriveInOrder /\ AtTarget /\ Paid /\ Ordered /\ Arriving
      /\ Queued
  BY DEF PathInv, Arriving, AtTarget
<1>1. ASSUME NEW k \in Kind, Accept(k) PROVE PathInv'
  <2>1. UNCHANGED <<answered, sent, stream, credit, bridgeVars>>
    BY <1>1 DEF Accept
  <2>2. Typed'
    BY <1>0, <1>1, AcceptTyped
  <2>3. Streamed' /\ ResponsesArriveInOrder' /\ Paid'
    BY <1>0, <2>1, WayKept
  <2>4. AtTarget'
    BY <1>0, <1>1, AcceptAtTarget
  <2>5. Ordered'
    BY <1>0, <1>1, AcceptOrdered
  <2> QED BY <2>2, <2>3, <2>4, <2>5 DEF PathInv, Arriving
<1>2. ASSUME NEW c \in Cell, Begin(c) PROVE PathInv'
  <2>1. UNCHANGED <<axiVars, answered, sent, stream, credit, bridgeVars>>
    BY <1>2 DEF Begin
  <2>2. Typed'
    BY <1>0, <1>2, BeginTyped
  <2>3. Streamed' /\ ResponsesArriveInOrder' /\ Paid'
    BY <1>0, <2>1, WayKept
  <2>4. AtTarget'
    BY <1>0, <1>2, BeginAtTarget
  <2>5. Ordered'
    BY <1>0, <2>1, TargetOrdered
  <2> QED BY <2>2, <2>3, <2>4, <2>5 DEF PathInv, Arriving
<1>3. ASSUME NEW c \in Cell, Respond(c) PROVE PathInv'
  <2>1. UNCHANGED <<axiVars, answered>>
    BY <1>3 DEF Respond
  <2>2. Typed'
    BY <1>0, <1>3, RespondTyped
  <2>3. Streamed' /\ ResponsesArriveInOrder' /\ Paid'
    BY <1>0, <1>3, RespondStreamed, RespondArrives, RespondPaid
  <2>4. AtTarget'
    BY <1>0, <1>3, RespondAtTarget
  <2>5. Ordered'
    BY <1>0, <2>1, TargetOrdered
  <2> QED BY <2>2, <2>3, <2>4, <2>5 DEF PathInv, Arriving
<1>4. CASE Frames \/ NoFrames
  <2>1. PICK r, n, valid, ready :
          /\ valid \in BOOLEAN /\ ready \in [Kind -> BOOLEAN] /\ Routes(r, n, valid, ready)
    BY <1>0, <1>4, EdgesRoute
  <2>2. Typed'
    BY <1>0, <2>1, RoutesTyped
  <2>3. Streamed' /\ ResponsesArriveInOrder' /\ Paid'
    BY <1>0, <2>1, RoutesStreamed, RoutesArrive, RoutesPaid
  <2>4. AtTarget'
    <3>1. UNCHANGED <<accepted, todo, burst, sent>>
      BY <2>1 DEF Routes
    <3>2. \A c : Home(c)' = Home(c)
      BY <3>1 DEF Home
    <3>3. Queued'
      BY <1>0, <3>1, <3>2 DEF Queued
    <3>4. EarlierFurther'
      BY <1>0, <3>1, <3>2 DEF AtTarget, EarlierFurther, SameId
    <3>5. SentIsBegun'
      BY <1>0, <3>1, <3>2 DEF AtTarget, SentIsBegun
    <3>6. SentInOrder'
      BY <1>0, <3>1 DEF AtTarget, SentInOrder
    <3> QED BY <3>3, <3>4, <3>5, <3>6 DEF AtTarget
  <2>5. Ordered'
    BY <1>0, <2>1, <2>2, RoutesOrdered
  <2> QED BY <2>2, <2>3, <2>4, <2>5 DEF PathInv, Arriving
<1>5. CASE UNCHANGED vars
  <2>1. /\ UNCHANGED <<axiVars, answered, todo, burst, sent, stream, credit, bridgeVars>>
        /\ UNCHANGED <<accepted, guard, reported, carry, refused, pending, pendingUpdates, updates,
                       fifo, active, nextRp>>
    BY <1>5 DEF vars, axiVars, targetVars, bridgeVars
  <2>2. Typed'
    BY <1>0, <2>1 DEF Typed
  <2>3. Streamed' /\ ResponsesArriveInOrder' /\ Paid'
    BY <1>0, <2>1, WayKept
  <2>4. AtTarget'
    <3>1. \A c : Home(c)' = Home(c)
      BY <2>1 DEF Home
    <3>2. Queued'
      BY <1>0, <2>1, <3>1 DEF Queued
    <3>3. EarlierFurther'
      BY <1>0, <2>1, <3>1 DEF AtTarget, EarlierFurther, SameId
    <3>4. SentIsBegun'
      BY <1>0, <2>1, <3>1 DEF AtTarget, SentIsBegun
    <3>5. SentInOrder'
      BY <1>0, <2>1 DEF AtTarget, SentInOrder
    <3> QED BY <3>2, <3>3, <3>4, <3>5 DEF AtTarget
  <2>5. Ordered'
    BY <1>0, <2>1, TargetOrdered
  <2> QED BY <2>2, <2>3, <2>4, <2>5 DEF PathInv, Arriving
<1> QED BY <1>1, <1>2, <1>3, <1>4, <1>5 DEF Next

\* The inductive invariant holds in every reachable state: what is sent, on its
\* way and answered goes together, cell by cell, with the credits spent and with
\* the entries of the order guards.
THEOREM PathInvariant == Spec => []PathInv
BY InitPath, StepPath, PTL DEF Spec

\* The responses of a plane reach the AXI master as the target has sent them,
\* for any cutting into frames, any number of edges a frame takes to be routed
\* and any readiness of the master (flit_unpacker.cpp, axi2flit.cpp B and R
\* threads).
THEOREM ArriveInOrder == Spec => []ResponsesArriveInOrder
<1>1. PathInv => ResponsesArriveInOrder
  BY DEF PathInv, Arriving
<1> QED BY <1>1, PathInvariant, PTL

\* A message decoded always finds a place in its FIFO, for credits of a whole
\* FIFO per plane and kind, whatever the depths (aou_types.h:231-237).
THEOREM NeverBlocked == Spec => []NoHeadOfLineBlocking
<1>1. PathInv => NoHeadOfLineBlocking
  <2> SUFFICES ASSUME PathInv, NEW c \in Cell
               PROVE  Len(fifo[c]) + Len(OfCell(pending, c)) <= Depth[c[2]]
    BY DEF NoHeadOfLineBlocking
  <2> DEFINE x == Len(OfCell(active[c[2]], c))
             f == Len(fifo[c])
             p == Len(OfCell(pending, c))
             e == Len(OfCell(Ends(stream), c))
             z == Depth[c[2]]
  <2>1. x \in Nat /\ f \in Nat /\ p \in Nat /\ e \in Nat
    BY InFlightIs DEF PathInv, Arriving
  <2>2. InFlight(c) = x + f + p + e /\ InFlight(c) <= z
    BY Zenon DEF PathInv, Paid, InFlight
  <2>3. z \in Nat
    BY Constants
  <2> HIDE DEF x, f, p, e, z
  <2>4. f + p <= z
    BY <2>1, <2>2, <2>3
  <2> QED BY <2>4 DEF f, p, z
<1> QED BY <1>1, PathInvariant, PTL

\* The order guards count exactly the requests of an ID whose last response AXI
\* has not accepted, and know their plane (rp_order_guard.h:22-46).
THEOREM GuardExact == Spec => []GuardIsExact
<1>1. PathInv => GuardIsExact
  BY DEF PathInv, Ordered
<1> QED BY <1>1, PathInvariant, PTL

\* Unless a guard has reported a conflict, the responses of an ID are in the
\* order of its requests, although the planes are independent of each other and
\* take turns at the master (axi2flit.cpp:119-121, 208).
THEOREM AxiOrder == Spec => []OrderKeptOrReported
<1>1. PathInv => OrderKeptOrReported
  BY DEF PathInv, Ordered
<1> QED BY <1>1, PathInvariant, PTL

LEMMA Worth ==
  ASSUME NEW g \in Nat, NEW z \in Nat, NEW i \in Nat, i <= z
  PROVE  g * (z - i) \in 0 .. z * g
<1>1. z - i \in Nat /\ g * (z - i) \in Nat /\ g * i \in Nat
  OBVIOUS
<1>2. g * (z - i) + g * i = z * g
  BY <1>1
<1> QED BY <1>1, <1>2

\* Every variable keeps its type: no FIFO is written beyond its depth, no credit
\* counter leaves its range, and no frame is refused by the decoder.
THEOREM PathTypeOK == Spec => []TypeOK
<1>1. PathInv => TypeOK
  <2> SUFFICES ASSUME PathInv PROVE TypeOK
    OBVIOUS
  <2>0. Typed /\ Streamed /\ Paid /\ GuardIsExact
    BY DEF PathInv, Arriving, Ordered
  <2>1. \A k \in Kind : accepted[k] \in 0 .. Len(Requests[k]) /\ accepted[k] \in Nat
    BY <2>0, Constants DEF Typed
  <2>2. ASSUME NEW k \in Kind, NEW id \in Id
        PROVE  guard[k][id].rp \in Rp /\ guard[k][id].outstanding \in 0 .. accepted[k]
    <3>1. guard[k][id].rp \in Rp
      BY <2>0 DEF Typed
    <3>2. guard[k][id].outstanding = Cardinality(Outstanding(k, id))
      BY <2>0 DEF GuardIsExact
    <3>3. Outstanding(k, id) \in SUBSET (1 .. accepted[k])
      BY DEF Outstanding
    <3>4. IsFiniteSet(1 .. accepted[k]) /\ Cardinality(1 .. accepted[k]) = accepted[k]
      <4> DEFINE n == accepted[k]
      <4>1. n \in Nat
        BY <2>1
      <4> HIDE DEF n
      <4>2. IsFiniteSet(1 .. n) /\ Cardinality(1 .. n) = IF 1 > n THEN 0 ELSE n - 1 + 1
        BY <4>1, FS_Interval
      <4> QED BY <4>1, <4>2 DEF n
    <3>5. Cardinality(Outstanding(k, id)) <= accepted[k] /\ Cardinality(Outstanding(k, id)) \in Nat
      BY <2>0, <3>3, <3>4, FS_Subset, OutstandingIs
    <3> QED BY <2>1, <3>1, <3>2, <3>5
  <2>3. ASSUME NEW c \in Cell
        PROVE  Len(fifo[c]) <= Depth[c[2]] /\ credit[c] \in 0 .. Capacity(c[2])
    <3> DEFINE x == Len(OfCell(active[c[2]], c))
               f == Len(fifo[c])
               p == Len(OfCell(pending, c))
               e == Len(OfCell(Ends(stream), c))
               z == Depth[c[2]]
               g == Granules[c[2]]
               i == InFlight(c)
    <3>1. x \in Nat /\ f \in Nat /\ p \in Nat /\ e \in Nat /\ i \in Nat
      BY <2>0, InFlightIs
    <3>2. i = x + f + p + e /\ i <= z /\ credit[c] = g * (z - i)
      BY <2>0, Zenon DEF Paid, InFlight
    <3>3. z \in Nat /\ g \in Nat
      BY Constants
    <3> HIDE DEF x, f, p, e, z, g, i
    <3>4. f <= z
      BY <3>1, <3>2, <3>3
    <3>5. credit[c] \in 0 .. z * g
      BY <3>1, <3>2, <3>3, Worth
    <3> QED BY <3>4, <3>5 DEF f, z, g, Capacity
  <2> QED BY <2>0, <2>1, <2>2, <2>3 DEF TypeOK, Typed
<1> QED BY <1>1, PathInvariant, PTL
=============================================================================
