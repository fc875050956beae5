-------------------------- MODULE AouFramesProofs --------------------------
(***************************************************************************)
(* What AouFrames does with messages: a stream of granules can be cut into *)
(* frames anywhere, and the decoder puts together the messages whose last  *)
(* granules the frames hold, in their order.  For any messages, any sizes  *)
(* and any length of frames.                                               *)
(***************************************************************************)
EXTENDS AouFrames, SequenceTheorems, TLAPS

-----------------------------------------------------------------------------
\* The folds of AouFrames

EndsStep(x, msgs, g) == IF g.part = g.of THEN Append(msgs, g.msg) ELSE msgs
CellStep(c, of, m)   == IF m[1] = c THEN Append(of, m[2]) ELSE of
DecodeStep(x, s, g)  == WithGranule(s, g)

EndsFold   == INSTANCE FoldLemmas WITH Step <- EndsStep
CellFold   == INSTANCE FoldLemmas WITH Step <- CellStep
DecodeFold == INSTANCE FoldLemmas WITH Step <- DecodeStep

NothingYet(carry) == [carry |-> carry, messages |-> <<>>, refused |-> FALSE]

LEMMA EndsIsFold ==
  ASSUME NEW parts
  PROVE  Ends(parts) = EndsFold!Folded(0, <<>>, parts)
BY DEF Ends, EndsFold!Folded, EndsStep, FoldLeft, MapThenFoldSet, Max,
       EndsFold!FoldLeft, EndsFold!MapThenFoldSet, EndsFold!Max

LEMMA OfCellIsFold ==
  ASSUME NEW msgs, NEW c
  PROVE  OfCell(msgs, c) = CellFold!Folded(c, <<>>, msgs)
BY DEF OfCell, CellFold!Folded, CellStep, FoldLeft, MapThenFoldSet, Max,
       CellFold!FoldLeft, CellFold!MapThenFoldSet, CellFold!Max

LEMMA DecodedIsFold ==
  ASSUME NEW carry, NEW frame
  PROVE  Decoded(carry, frame) = DecodeFold!Folded(0, NothingYet(carry), Padded(frame))
BY DEF Decoded, NothingYet, DecodeFold!Folded, DecodeStep, FoldLeft, MapThenFoldSet, Max,
       DecodeFold!FoldLeft, DecodeFold!MapThenFoldSet, DecodeFold!Max

-----------------------------------------------------------------------------
\* The messages of a cell

LEMMA OfCellEmpty ==
  ASSUME NEW c
  PROVE  OfCell(<<>>, c) = <<>>
BY OfCellIsFold, CellFold!FoldedEmpty

LEMMA OfCellAppend ==
  ASSUME NEW S, NEW msgs \in Seq(S), NEW m \in S, NEW c
  PROVE  OfCell(Append(msgs, m), c)
           = IF m[1] = c THEN Append(OfCell(msgs, c), m[2]) ELSE OfCell(msgs, c)
<1>1. CellFold!Folded(c, <<>>, Append(msgs, m)) = CellStep(c, CellFold!Folded(c, <<>>, msgs), m)
  BY CellFold!FoldedAppend
<1>2. OfCell(Append(msgs, m), c) = CellStep(c, OfCell(msgs, c), m)
  BY <1>1, OfCellIsFold
<1> QED BY <1>2 DEF CellStep

\* Messages of cells of C that say something of W.
LEMMA OfCellIsSeq ==
  ASSUME NEW C, NEW W, NEW msgs \in Seq(C \X W), NEW c
  PROVE  OfCell(msgs, c) \in Seq(W)
<1> DEFINE T == {s \in Seq(C \X W) : OfCell(s, c) \in Seq(W)}
<1>1. <<>> \in T
  <2>1. <<>> \in Seq(C \X W) /\ <<>> \in Seq(W)
    OBVIOUS
  <2> QED BY <2>1, OfCellEmpty, Zenon
<1>2. ASSUME NEW s \in Seq(C \X W), NEW m \in C \X W, s \in T PROVE Append(s, m) \in T
  <2>1. OfCell(Append(s, m), c) = IF m[1] = c THEN Append(OfCell(s, c), m[2]) ELSE OfCell(s, c)
    BY OfCellAppend
  <2>2. OfCell(s, c) \in Seq(W) /\ m[2] \in W
    BY <1>2
  <2>3. OfCell(Append(s, m), c) \in Seq(W)
    <3> HIDE DEF T
    <3> QED BY <2>1, <2>2
  <2> QED BY <2>3
<1> HIDE DEF T
<1>3. Seq(C \X W) \subseteq T
  BY <1>1, <1>2, CellFold!AllSequences
<1> QED BY <1>3 DEF T

\* A concatenation as a mere operation, for provers that look into \o.
Cat(s, t) == s \o t

Associative(S) ==
  /\ \A s, t \in S : Cat(s, t) \in S
  /\ \A s, t, u \in S : Cat(Cat(s, t), u) = Cat(s, Cat(t, u))

LEMMA SequencesAssociate ==
  ASSUME NEW W
  PROVE  Associative(Seq(W))
<1>1. ASSUME NEW s \in Seq(W), NEW t \in Seq(W) PROVE Cat(s, t) \in Seq(W)
  BY DEF Cat
<1>2. ASSUME NEW s \in Seq(W), NEW t \in Seq(W), NEW u \in Seq(W)
      PROVE  Cat(Cat(s, t), u) = Cat(s, Cat(t, u))
  BY DEF Cat
<1> QED BY <1>1, <1>2, Zenon DEF Associative

Joins(S, c) == \A s, t \in S : OfCell(Cat(s, t), c) = Cat(OfCell(s, c), OfCell(t, c))

LEMMA CellsJoin ==
  ASSUME NEW C, NEW W, NEW c
  PROVE  Joins(Seq(C \X W), c)
<1> SUFFICES ASSUME NEW s \in Seq(C \X W), NEW t \in Seq(C \X W)
             PROVE  OfCell(s \o t, c) = OfCell(s, c) \o OfCell(t, c)
  BY Zenon DEF Joins, Cat
<1> DEFINE M == C \X W
           T == {u \in Seq(M) : OfCell(s \o u, c) = OfCell(s, c) \o OfCell(u, c)}
<1>0. OfCell(s, c) \in Seq(W)
  BY OfCellIsSeq
<1>1. <<>> \in T
  <2>1. s \o <<>> = s /\ <<>> \in Seq(M) /\ OfCell(s, c) \o <<>> = OfCell(s, c)
    BY <1>0
  <2> QED BY <2>1, OfCellEmpty
<1>2. ASSUME NEW u \in Seq(M), NEW m \in M, u \in T PROVE Append(u, m) \in T
  <2>1. s \o Append(u, m) = Append(s \o u, m) /\ s \o u \in Seq(M) /\ Append(u, m) \in Seq(M)
    OBVIOUS
  <2>2. OfCell(u, c) \in Seq(W) /\ m[2] \in W
    BY OfCellIsSeq
  <2>3. OfCell(s \o u, c) = OfCell(s, c) \o OfCell(u, c)
    BY <1>2
  <2>4. OfCell(Append(u, m), c) = IF m[1] = c THEN Append(OfCell(u, c), m[2]) ELSE OfCell(u, c)
    BY OfCellAppend
  <2>5. OfCell(Append(s \o u, m), c)
          = IF m[1] = c THEN Append(OfCell(s \o u, c), m[2]) ELSE OfCell(s \o u, c)
    <3> DEFINE r == s \o u
    <3>1. r \in Seq(M)
      BY <2>1
    <3> HIDE DEF r, M, T
    <3> QED BY <3>1, OfCellAppend DEF r
  <2>6. Append(OfCell(s, c) \o OfCell(u, c), m[2]) = OfCell(s, c) \o Append(OfCell(u, c), m[2])
    <3> HIDE DEF M, T
    <3>1. Append(OfCell(s, c) \o OfCell(u, c), m[2]) = (OfCell(s, c) \o OfCell(u, c)) \o <<m[2]>>
      BY <1>0, <2>2
    <3>2. (OfCell(s, c) \o OfCell(u, c)) \o <<m[2]>> = OfCell(s, c) \o (OfCell(u, c) \o <<m[2]>>)
      BY <1>0, <2>2
    <3>3. OfCell(u, c) \o <<m[2]>> = Append(OfCell(u, c), m[2])
      BY <1>0, <2>2
    <3> QED BY <3>1, <3>2, <3>3
  <2> HIDE DEF M
  <2> QED BY <2>1, <2>3, <2>4, <2>5, <2>6
<1> HIDE DEF T
<1>3. Seq(M) \subseteq T
  BY <1>1, <1>2, CellFold!AllSequences
<1> QED BY <1>3 DEF T

-----------------------------------------------------------------------------
\* Granules and the messages they end

Part(msg, of, i) == [msg |-> msg, part |-> i, of |-> of, start |-> i = 1]

\* The first n granules of a message.
Beginning(msg, of, n) == [i \in 1 .. n |-> Part(msg, of, i)]

GranulesOf(M) ==
  {g \in [msg : M, part : Nat, of : Nat, start : BOOLEAN] :
     1 <= g.part /\ g.part <= g.of /\ g.start = (g.part = 1)}

LEMMA GranuleIsPart ==
  ASSUME NEW M, NEW g \in GranulesOf(M)
  PROVE  /\ g = Part(g.msg, g.of, g.part)
         /\ g.msg \in M /\ g.of \in Nat /\ g.part \in 1 .. g.of /\ g.start \in BOOLEAN
<1>1. /\ g \in [msg : M, part : Nat, of : Nat, start : BOOLEAN]
      /\ 1 <= g.part /\ g.part <= g.of /\ g.start = (g.part = 1)
  BY DEF GranulesOf
<1>2. g = [msg |-> g.msg, part |-> g.part, of |-> g.of, start |-> g.start]
  BY <1>1
<1> QED BY <1>1, <1>2 DEF Part

LEMMA PartIsGranule ==
  ASSUME NEW M, NEW m \in M, NEW of \in Nat, NEW i \in 1 .. of
  PROVE  Part(m, of, i) \in GranulesOf(M)
BY DEF Part, GranulesOf

LEMMA BeginningIs ==
  ASSUME NEW M, NEW m \in M, NEW of \in Nat, NEW n \in 0 .. of
  PROVE  /\ Beginning(m, of, n) \in Seq(GranulesOf(M)) /\ Len(Beginning(m, of, n)) = n
         /\ \A i \in 1 .. n : Beginning(m, of, n)[i] = Part(m, of, i)
<1>1. \A i \in 1 .. n : Part(m, of, i) \in GranulesOf(M)
  BY PartIsGranule
<1>2. n \in Nat
  OBVIOUS
<1> QED BY <1>1, <1>2 DEF Beginning

LEMMA PartsAreBeginning ==
  ASSUME NEW m, NEW size
  PROVE  PartsOf(m, size) = Beginning(m, size, size)
BY DEF PartsOf, Beginning, Part

LEMMA EndsEmpty == Ends(<<>>) = <<>>
BY EndsIsFold, EndsFold!FoldedEmpty

LEMMA EndsAppend ==
  ASSUME NEW S, NEW s \in Seq(S), NEW g \in S
  PROVE  Ends(Append(s, g)) = IF g.part = g.of THEN Append(Ends(s), g.msg) ELSE Ends(s)
<1>1. EndsFold!Folded(0, <<>>, Append(s, g)) = EndsStep(0, EndsFold!Folded(0, <<>>, s), g)
  BY EndsFold!FoldedAppend
<1>2. Ends(Append(s, g)) = EndsStep(0, Ends(s), g)
  BY <1>1, EndsIsFold
<1> QED BY <1>2 DEF EndsStep

LEMMA EndsIsSeq ==
  ASSUME NEW M, NEW s \in Seq(GranulesOf(M))
  PROVE  Ends(s) \in Seq(M)
<1> DEFINE G == GranulesOf(M)
           T == {u \in Seq(G) : Ends(u) \in Seq(M)}
<1>1. <<>> \in T
  <2>1. <<>> \in Seq(G) /\ <<>> \in Seq(M)
    OBVIOUS
  <2> QED BY <2>1, EndsEmpty, Zenon
<1>2. ASSUME NEW u \in Seq(G), NEW g \in G, u \in T PROVE Append(u, g) \in T
  <2>1. Ends(Append(u, g)) = IF g.part = g.of THEN Append(Ends(u), g.msg) ELSE Ends(u)
    BY EndsAppend
  <2>2. Ends(u) \in Seq(M) /\ g.msg \in M
    BY <1>2, GranuleIsPart
  <2>3. Ends(Append(u, g)) \in Seq(M)
    <3> HIDE DEF T
    <3> QED BY <2>1, <2>2
  <2> QED BY <2>3
<1> HIDE DEF T
<1>3. Seq(G) \subseteq T
  BY <1>1, <1>2, EndsFold!AllSequences
<1> QED BY <1>3 DEF T

LEMMA EndsJoined ==
  ASSUME NEW M, NEW s \in Seq(GranulesOf(M)), NEW t \in Seq(GranulesOf(M))
  PROVE  Ends(s \o t) = Ends(s) \o Ends(t)
<1> DEFINE G == GranulesOf(M)
           T == {u \in Seq(G) : Ends(s \o u) = Ends(s) \o Ends(u)}
<1>0. Ends(s) \in Seq(M)
  BY EndsIsSeq
<1>1. <<>> \in T
  <2>1. s \o <<>> = s /\ <<>> \in Seq(G) /\ Ends(s) \o <<>> = Ends(s)
    BY <1>0
  <2> QED BY <2>1, EndsEmpty
<1>2. ASSUME NEW u \in Seq(G), NEW g \in G, u \in T PROVE Append(u, g) \in T
  <2>1. s \o Append(u, g) = Append(s \o u, g) /\ s \o u \in Seq(G) /\ Append(u, g) \in Seq(G)
    OBVIOUS
  <2>2. Ends(u) \in Seq(M) /\ g.msg \in M
    BY EndsIsSeq, GranuleIsPart
  <2>3. Ends(s \o u) = Ends(s) \o Ends(u)
    BY <1>2
  <2>4. Ends(Append(u, g)) = IF g.part = g.of THEN Append(Ends(u), g.msg) ELSE Ends(u)
    BY EndsAppend
  <2>5. Ends(Append(s \o u, g))
          = IF g.part = g.of THEN Append(Ends(s \o u), g.msg) ELSE Ends(s \o u)
    <3> DEFINE r == s \o u
    <3>1. r \in Seq(G)
      BY <2>1
    <3> HIDE DEF r, G, T
    <3> QED BY <3>1, EndsAppend DEF r
  <2>6. Append(Ends(s) \o Ends(u), g.msg) = Ends(s) \o Append(Ends(u), g.msg)
    <3> HIDE DEF G, T
    <3>1. Append(Ends(s) \o Ends(u), g.msg) = (Ends(s) \o Ends(u)) \o <<g.msg>>
      BY <1>0, <2>2
    <3>2. (Ends(s) \o Ends(u)) \o <<g.msg>> = Ends(s) \o (Ends(u) \o <<g.msg>>)
      BY <1>0, <2>2
    <3>3. Ends(u) \o <<g.msg>> = Append(Ends(u), g.msg)
      BY <1>0, <2>2
    <3> QED BY <3>1, <3>2, <3>3
  <2> HIDE DEF G
  <2> QED BY <2>1, <2>3, <2>4, <2>5, <2>6
<1> HIDE DEF T
<1>3. Seq(G) \subseteq T
  BY <1>1, <1>2, EndsFold!AllSequences
<1> QED BY <1>3 DEF T

\* A message ends once, with its last granule.
LEMMA EndsOfParts ==
  ASSUME NEW m, NEW size \in Nat \ {0}
  PROVE  Ends(PartsOf(m, size)) = <<m>>
<1> DEFINE N == {n \in Nat : n < size => Ends(Beginning(m, size, n)) = <<>>}
           G == GranulesOf({m})
<1>0. ASSUME NEW n \in 0 .. size - 1
      PROVE  /\ Beginning(m, size, n + 1) = Append(Beginning(m, size, n), Part(m, size, n + 1))
             /\ Beginning(m, size, n) \in Seq(G) /\ Part(m, size, n + 1) \in G
  <2>1. /\ Beginning(m, size, n) \in Seq(G) /\ Len(Beginning(m, size, n)) = n
        /\ \A i \in 1 .. n : Beginning(m, size, n)[i] = Part(m, size, i)
    BY BeginningIs
  <2>2. n + 1 \in 0 .. size /\ n + 1 \in 1 .. size
    OBVIOUS
  <2>3. /\ Beginning(m, size, n + 1) \in Seq(G) /\ Len(Beginning(m, size, n + 1)) = n + 1
        /\ \A i \in 1 .. n + 1 : Beginning(m, size, n + 1)[i] = Part(m, size, i)
    BY <2>2, BeginningIs
  <2>4. Part(m, size, n + 1) \in G
    BY <2>2, PartIsGranule
  <2> HIDE DEF G
  <2> QED BY <2>1, <2>3, <2>4
<1>1. 0 \in N
  <2>1. Beginning(m, size, 0) = <<>>
    BY DEF Beginning
  <2> QED BY <2>1, EndsEmpty
<1>2. ASSUME NEW n \in N PROVE n + 1 \in N
  <2>1. ASSUME n + 1 < size PROVE Ends(Beginning(m, size, n + 1)) = <<>>
    <3>1. n \in 0 .. size - 1 /\ Ends(Beginning(m, size, n)) = <<>> /\ n + 1 # size
      BY <2>1
    <3>2. Ends(Beginning(m, size, n + 1)) = Ends(Beginning(m, size, n))
      <4>1. Part(m, size, n + 1).part # Part(m, size, n + 1).of
        BY <3>1 DEF Part
      <4> HIDE DEF N, G
      <4> QED BY <1>0, <3>1, <4>1, EndsAppend
    <3> QED BY <3>1, <3>2
  <2> QED BY <2>1
<1>3. N \in SUBSET Nat
  OBVIOUS
<1> HIDE DEF N
<1>4. N = Nat
  BY <1>1, <1>2, <1>3, EndsFold!AllNumbers
<1>5. size - 1 \in 0 .. size - 1 /\ (size - 1) + 1 = size /\ size - 1 \in Nat /\ size - 1 < size
  OBVIOUS
<1>6. Ends(Beginning(m, size, size - 1)) = <<>>
  BY <1>4, <1>5 DEF N
<1>7. Part(m, size, size).part = Part(m, size, size).of /\ Part(m, size, size).msg = m
  BY DEF Part
<1>8. Ends(Beginning(m, size, size)) = Append(<<>>, m)
  <2> DEFINE b == Beginning(m, size, size - 1)
             p == Part(m, size, size)
  <2>1. Beginning(m, size, size) = Append(b, p) /\ b \in Seq(G) /\ p \in G
    BY <1>0, <1>5
  <2>2. p.part = p.of /\ p.msg = m /\ Ends(b) = <<>>
    BY <1>6, <1>7
  <2> HIDE DEF b, p, G
  <2>3. Ends(Append(b, p)) = IF p.part = p.of THEN Append(Ends(b), p.msg) ELSE Ends(b)
    BY <2>1, EndsAppend
  <2> QED BY <2>1, <2>2, <2>3, Zenon
<1>9. Append(<<>>, m) = <<m>>
  OBVIOUS
<1> QED BY <1>8, <1>9, PartsAreBeginning

-----------------------------------------------------------------------------
\* A stream in which every granule follows the one before it: carry is what the
\* decoder holds when the first one comes.

After1(g) == IF g.part = g.of THEN <<>> ELSE Beginning(g.msg, g.of, g.part)

Behind(carry, s, i) == IF i = 1 THEN carry ELSE After1(s[i - 1])

After(carry, s) == Behind(carry, s, Len(s) + 1)

Follows(carry, g) == carry = Beginning(g.msg, g.of, g.part - 1)

Chain(M, carry, s) ==
  /\ s \in Seq(GranulesOf(M))
  /\ \A i \in 1 .. Len(s) : Follows(Behind(carry, s, i), s[i])

LEMMA ChainEmpty ==
  ASSUME NEW M, NEW carry
  PROVE  Chain(M, carry, <<>>) /\ After(carry, <<>>) = carry
BY DEF Chain, After, Behind

LEMMA AfterJoined ==
  ASSUME NEW S, NEW carry, NEW s \in Seq(S), NEW t \in Seq(S)
  PROVE  After(carry, s \o t) = After(After(carry, s), t)
<1>1. Len(s \o t) = Len(s) + Len(t) /\ Len(s) \in Nat /\ Len(t) \in Nat
  OBVIOUS
<1>2. CASE Len(t) = 0
  <2>1. s \o t = s
    BY <1>2
  <2> QED BY <2>1, <1>2 DEF After, Behind
<1>3. CASE Len(t) # 0
  <2>1. (s \o t)[Len(s) + Len(t)] = t[Len(t)]
    BY <1>1, <1>3
  <2>2. /\ Len(s \o t) + 1 # 1 /\ Len(t) + 1 # 1
        /\ (Len(s \o t) + 1) - 1 = Len(s) + Len(t) /\ (Len(t) + 1) - 1 = Len(t)
    BY <1>1, <1>3
  <2> QED BY <2>1, <2>2 DEF After, Behind
<1> QED BY <1>2, <1>3

SameBehind(carry, s, t) ==
  /\ \A i \in 1 .. Len(s) :
       Behind(carry, s \o t, i) = Behind(carry, s, i) /\ (s \o t)[i] = s[i]
  /\ \A i \in 1 .. Len(t) :
       /\ Behind(carry, s \o t, Len(s) + i) = Behind(After(carry, s), t, i)
       /\ (s \o t)[Len(s) + i] = t[i]

LEMMA BehindJoined ==
  ASSUME NEW S, NEW carry, NEW s \in Seq(S), NEW t \in Seq(S)
  PROVE  SameBehind(carry, s, t)
<1>1. Len(s \o t) = Len(s) + Len(t) /\ Len(s) \in Nat /\ Len(t) \in Nat
  OBVIOUS
<1>2. \A i \in 1 .. Len(s) : (s \o t)[i] = s[i]
  OBVIOUS
<1>3. \A i \in 1 .. Len(t) : (s \o t)[Len(s) + i] = t[i]
  OBVIOUS
<1>4. ASSUME NEW i \in 1 .. Len(s) PROVE Behind(carry, s \o t, i) = Behind(carry, s, i)
  <2>1. i # 1 => i - 1 \in 1 .. Len(s)
    OBVIOUS
  <2> QED BY <1>2, <2>1 DEF Behind
<1>5. ASSUME NEW i \in 1 .. Len(t)
      PROVE  Behind(carry, s \o t, Len(s) + i) = Behind(After(carry, s), t, i)
  <2>1. CASE i = 1
    <3>1. CASE Len(s) = 0
      <4>1. Len(s) + i = 1 /\ Len(s) + 1 = 1
        BY <2>1, <3>1
      <4> QED BY <4>1, <2>1 DEF Behind, After
    <3>2. CASE Len(s) # 0
      <4>1. Len(s) \in 1 .. Len(s) /\ Len(s) + i # 1 /\ (Len(s) + i) - 1 = Len(s)
        BY <1>1, <2>1, <3>2
      <4>2. (s \o t)[Len(s)] = s[Len(s)]
        BY <1>2, <4>1
      <4> QED BY <4>1, <4>2, <2>1 DEF Behind, After
    <3> QED BY <3>1, <3>2
  <2>2. CASE i # 1
    <3>1. i - 1 \in 1 .. Len(t) /\ (Len(s) + i) - 1 = Len(s) + (i - 1) /\ Len(s) + i # 1
      BY <1>1, <2>2
    <3>2. (s \o t)[(Len(s) + i) - 1] = t[i - 1]
      BY <1>3, <3>1
    <3> QED BY <3>1, <3>2, <2>2 DEF Behind
  <2> QED BY <2>1, <2>2
<1> QED BY <1>2, <1>3, <1>4, <1>5 DEF SameBehind

LEMMA ChainJoined ==
  ASSUME NEW M, NEW carry, NEW s \in Seq(GranulesOf(M)), NEW t \in Seq(GranulesOf(M))
  PROVE  Chain(M, carry, s \o t) <=> Chain(M, carry, s) /\ Chain(M, After(carry, s), t)
<1> DEFINE G == GranulesOf(M)
<1>1. s \o t \in Seq(G) /\ Len(s \o t) = Len(s) + Len(t) /\ Len(s) \in Nat /\ Len(t) \in Nat
  OBVIOUS
<1>2. SameBehind(carry, s, t)
  BY BehindJoined
<1> DEFINE F(i) == Follows(Behind(carry, s \o t, i), (s \o t)[i])
           Fs(i) == Follows(Behind(carry, s, i), s[i])
           Ft(i) == Follows(Behind(After(carry, s), t, i), t[i])
<1>3. (\A i \in 1 .. Len(s) : F(i) <=> Fs(i)) /\ (\A i \in 1 .. Len(t) : F(Len(s) + i) <=> Ft(i))
  BY <1>2 DEF SameBehind
<1> HIDE DEF F, Fs, Ft, G
<1>4. (\A i \in 1 .. Len(s \o t) : F(i))
        <=> (\A i \in 1 .. Len(s) : Fs(i)) /\ (\A i \in 1 .. Len(t) : Ft(i))
  <2>1. ASSUME \A i \in 1 .. Len(s \o t) : F(i)
        PROVE  (\A i \in 1 .. Len(s) : Fs(i)) /\ (\A i \in 1 .. Len(t) : Ft(i))
    <3>1. ASSUME NEW i \in 1 .. Len(s) PROVE Fs(i)
      <4>1. i \in 1 .. Len(s \o t)
        BY <1>1
      <4> QED BY <4>1, <2>1, <1>3
    <3>2. ASSUME NEW i \in 1 .. Len(t) PROVE Ft(i)
      <4>1. Len(s) + i \in 1 .. Len(s \o t)
        BY <1>1
      <4> QED BY <4>1, <2>1, <1>3
    <3> QED BY <3>1, <3>2
  <2>2. ASSUME (\A i \in 1 .. Len(s) : Fs(i)) /\ (\A i \in 1 .. Len(t) : Ft(i)),
               NEW i \in 1 .. Len(s \o t)
        PROVE  F(i)
    <3>1. CASE i <= Len(s)
      <4>1. i \in 1 .. Len(s)
        BY <1>1, <3>1
      <4> QED BY <4>1, <2>2, <1>3
    <3>2. CASE ~(i <= Len(s))
      <4>1. i - Len(s) \in 1 .. Len(t) /\ Len(s) + (i - Len(s)) = i
        BY <1>1, <3>2
      <4> QED BY <4>1, <2>2, <1>3
    <3> QED BY <3>1, <3>2
  <2> QED BY <2>1, <2>2
<1>5. s \in Seq(G) /\ t \in Seq(G)
  BY DEF G
<1> QED BY <1>1, <1>4, <1>5, Zenon DEF Chain, F, Fs, Ft, G

\* The granules of a message are such a stream, and leave nothing behind.
LEMMA PartsChain ==
  ASSUME NEW M, NEW m \in M, NEW size \in Nat \ {0}
  PROVE  /\ Chain(M, <<>>, PartsOf(m, size)) /\ After(<<>>, PartsOf(m, size)) = <<>>
         /\ PartsOf(m, size) \in Seq(GranulesOf(M)) /\ Len(PartsOf(m, size)) = size
<1> DEFINE p == Beginning(m, size, size)
<1>0. size \in 0 .. size /\ size \in Nat
  OBVIOUS
<1>1. p \in Seq(GranulesOf(M)) /\ Len(p) = size /\ \A i \in 1 .. size : p[i] = Part(m, size, i)
  BY <1>0, BeginningIs
<1>2. ASSUME NEW i \in 1 .. size PROVE Follows(Behind(<<>>, p, i), p[i])
  <2>0. p[i] = Part(m, size, i)
    BY <1>1
  <2>1. CASE i = 1
    <3>1. Beginning(m, size, 0) = <<>>
      BY DEF Beginning
    <3>2. p[i].msg = m /\ p[i].of = size /\ p[i].part - 1 = 0
      BY <2>0, <2>1 DEF Part
    <3> HIDE DEF p
    <3> QED BY <3>1, <3>2, <2>1 DEF Follows, Behind
  <2>2. CASE i # 1
    <3>1. i - 1 \in 1 .. size /\ i - 1 # size
      BY <2>2
    <3>2. p[i - 1] = Part(m, size, i - 1)
      BY <1>1, <3>1
    <3> HIDE DEF p
    <3> QED BY <2>0, <3>1, <3>2, <2>2 DEF Follows, Behind, After1, Part
  <2> QED BY <2>1, <2>2
<1>3. After(<<>>, p) = <<>>
  <2>1. p[size] = Part(m, size, size)
    BY <1>1
  <2>2. Len(p) + 1 # 1 /\ (Len(p) + 1) - 1 = size
    BY <1>1
  <2> HIDE DEF p
  <2> QED BY <2>1, <2>2 DEF After, Behind, After1, Part
<1>4. PartsOf(m, size) = p
  BY PartsAreBeginning
<1> HIDE DEF p
<1> QED BY <1>1, <1>2, <1>3, <1>4 DEF Chain

-----------------------------------------------------------------------------
\* The decoder

Decoding(carry, msgs) == [carry |-> carry, messages |-> msgs, refused |-> FALSE]

LEMMA GranuleDecoded ==
  ASSUME NEW M, NEW g \in GranulesOf(M), NEW carry, Follows(carry, g), NEW msgs
  PROVE  WithGranule(Decoding(carry, msgs), g)
           = Decoding(After1(g), IF g.part = g.of THEN Append(msgs, g.msg) ELSE msgs)
<1> DEFINE now == Append(carry, g)
           s   == Decoding(carry, msgs)
<1>1. /\ g = Part(g.msg, g.of, g.part)
      /\ g.msg \in M /\ g.of \in Nat /\ g.part \in 1 .. g.of /\ g.start \in BOOLEAN
  BY GranuleIsPart
<1>2. g.start = (g.part = 1)
  BY DEF GranulesOf
<1>3. g.part - 1 \in 0 .. g.of /\ g.part \in 0 .. g.of /\ g.part \in Nat
  BY <1>1
<1>4. /\ carry \in Seq(GranulesOf(M)) /\ Len(carry) = g.part - 1
      /\ \A i \in 1 .. g.part - 1 : carry[i] = Part(g.msg, g.of, i)
  <2> DEFINE b == Beginning(g.msg, g.of, g.part - 1)
  <2>1. /\ b \in Seq(GranulesOf(M)) /\ Len(b) = g.part - 1
        /\ \A i \in 1 .. g.part - 1 : b[i] = Part(g.msg, g.of, i)
    BY <1>1, <1>3, BeginningIs, Zenon
  <2>2. carry = b
    BY DEF Follows
  <2> HIDE DEF b
  <2> QED BY <2>1, <2>2, Zenon
<1> DEFINE b == Beginning(g.msg, g.of, g.part)
<1>5. b \in Seq(GranulesOf(M)) /\ Len(b) = g.part /\ \A i \in 1 .. g.part : b[i] = Part(g.msg, g.of, i)
  <2>1. g.msg \in M /\ g.of \in Nat /\ g.part \in 0 .. g.of
    BY <1>1, <1>3
  <2> QED BY ONLY <2>1, BeginningIs, Zenon
<1>6. now = Beginning(g.msg, g.of, g.part)
  <2>1. now \in Seq(GranulesOf(M)) /\ Len(now) = g.part
    BY <1>3, <1>4
  <2>2. ASSUME NEW i \in 1 .. g.part PROVE now[i] = Part(g.msg, g.of, i)
    BY <1>1, <1>3, <1>4
  <2> HIDE DEF now
  <2> QED BY <2>1, <2>2, <1>5
<1>7. Len(now) = g.part /\ now[1] = Part(g.msg, g.of, 1)
  <2>1. 1 \in 1 .. g.part
    BY <1>1
  <2> HIDE DEF now
  <2> QED BY <2>1, <1>5, <1>6
<1>8. now[1].of = g.of /\ now[1].msg = g.msg
  <2> HIDE DEF now
  <2> QED BY <1>7 DEF Part
<1>9. (carry = <<>>) <=> (g.part = 1)
  BY <1>3, <1>4
<1>10. s.carry = carry /\ s.messages = msgs /\ s.refused = FALSE
  BY DEF Decoding
<1>11. WithGranule(s, g) = IF Len(now) < now[1].of THEN [carry |-> now, messages |-> s.messages, refused |-> s.refused]
                           ELSE [carry    |-> <<>>,
                                 messages |-> Append(s.messages, now[1].msg),
                                 refused  |-> s.refused \/ now # PartsOf(now[1].msg, now[1].of)]
  <2>1. ~(carry = <<>> /\ ~g.start) /\ ~(carry # <<>> /\ g.start)
    BY <1>2, <1>9
  <2> HIDE DEF s
  <2> QED BY <2>1, <1>10 DEF WithGranule
<1>12. CASE g.part < g.of
  <2>1. WithGranule(s, g) = Decoding(now, msgs)
    <3> HIDE DEF now, s
    <3> QED BY <1>7, <1>8, <1>10, <1>11, <1>12 DEF Decoding
  <2>2. After1(g) = now /\ g.part # g.of
    BY <1>3, <1>6, <1>12 DEF After1
  <2> QED BY <2>1, <2>2
<1>13. CASE ~(g.part < g.of)
  <2>1. g.part = g.of
    BY <1>1, <1>13
  <2>2. now = PartsOf(g.msg, g.of)
    <3> HIDE DEF now
    <3> QED BY <1>6, <2>1, PartsAreBeginning
  <2>3. ~(Len(now) < now[1].of)
    BY <1>7, <1>8, <1>13
  <2>4. After1(g) = <<>>
    BY <2>1 DEF After1
  <2>5. WithGranule(s, g) = [carry    |-> <<>>,
                             messages |-> Append(msgs, g.msg), refused  |-> FALSE]
    <3> HIDE DEF now, s
    <3> DEFINE bad == s.refused \/ now # PartsOf(now[1].msg, now[1].of)
    <3>1. bad = FALSE
      BY <1>8, <1>10, <2>2, Zenon
    <3>2. WithGranule(s, g) = [carry |-> <<>>, messages |-> Append(s.messages, now[1].msg),
                               refused |-> bad]
      BY <1>11, <2>3, Zenon
    <3> HIDE DEF bad
    <3> QED BY <1>8, <1>10, <3>1, <3>2
  <2> QED BY <2>1, <2>4, <2>5 DEF Decoding
<1> QED BY <1>12, <1>13

LEMMA GranulesDecoded ==
  ASSUME NEW M, NEW carry, NEW frame, Chain(M, carry, frame)
  PROVE  DecodeFold!Folded(0, NothingYet(carry), frame)
           = Decoding(After(carry, frame), Ends(frame))
<1> DEFINE G == GranulesOf(M)
           D(s) == DecodeFold!Folded(0, NothingYet(carry), s)
           T == {s \in Seq(G) : Chain(M, carry, s) => D(s) = Decoding(After(carry, s), Ends(s))}
<1>1. <<>> \in T
  <2>1. D(<<>>) = NothingYet(carry)
    BY DecodeFold!FoldedEmpty
  <2>2. NothingYet(carry) = Decoding(carry, <<>>)
    BY DEF NothingYet, Decoding
  <2>3. <<>> \in Seq(G)
    OBVIOUS
  <2> HIDE DEF D
  <2> QED BY <2>1, <2>2, <2>3, ChainEmpty, EndsEmpty
<1>2. ASSUME NEW s \in Seq(G), NEW g \in G, s \in T PROVE Append(s, g) \in T
  <2>0. Append(s, g) = s \o <<g>> /\ <<g>> \in Seq(G) /\ Append(s, g) \in Seq(G)
    OBVIOUS
  <2>1. ASSUME Chain(M, carry, Append(s, g))
        PROVE  D(Append(s, g)) = Decoding(After(carry, Append(s, g)), Ends(Append(s, g)))
    <3>1. Chain(M, carry, s) /\ Chain(M, After(carry, s), <<g>>)
      <4> HIDE DEF D, T
      <4>1. Chain(M, carry, s \o <<g>>)
        BY <2>0, <2>1
      <4> QED BY <4>1, <2>0, ChainJoined
    <3>2. Follows(After(carry, s), g)
      <4>1. Len(<<g>>) = 1 /\ <<g>>[1] = g
        OBVIOUS
      <4>2. Follows(Behind(After(carry, s), <<g>>, 1), <<g>>[1])
        BY <3>1, <4>1 DEF Chain
      <4> QED BY <4>1, <4>2 DEF Behind
    <3>3. D(s) = Decoding(After(carry, s), Ends(s))
      BY <1>2, <3>1
    <3>4. D(Append(s, g)) = WithGranule(D(s), g)
      <4> HIDE DEF T, G
      <4> QED BY DecodeFold!FoldedAppend DEF DecodeStep
    <3>5. WithGranule(D(s), g)
            = Decoding(After1(g), IF g.part = g.of THEN Append(Ends(s), g.msg) ELSE Ends(s))
      <4> HIDE DEF D, T
      <4> QED BY <3>2, <3>3, GranuleDecoded
    <3>6. Ends(Append(s, g)) = IF g.part = g.of THEN Append(Ends(s), g.msg) ELSE Ends(s)
      BY EndsAppend
    <3>7. After(carry, Append(s, g)) = After1(g)
      <4>1. /\ Len(Append(s, g)) + 1 # 1 /\ (Len(Append(s, g)) + 1) - 1 = Len(s) + 1
            /\ Append(s, g)[Len(s) + 1] = g
        OBVIOUS
      <4> HIDE DEF D, T
      <4> QED BY <4>1 DEF After, Behind
    <3> HIDE DEF D
    <3> QED BY <3>4, <3>5, <3>6, <3>7
  <2> HIDE DEF D
  <2> QED BY <2>0, <2>1
<1> HIDE DEF T
<1>3. Seq(G) \subseteq T
  BY <1>1, <1>2, DecodeFold!AllSequences
<1>4. frame \in T
  BY <1>3 DEF Chain
<1> QED BY <1>4 DEF T

\* Where a frame ends in blanks, no message is cut.
LEMMA BlanksDecoded ==
  ASSUME NEW S, NEW s, NEW frame \in Seq(S), NEW n \in Nat,
         DecodeFold!Folded(0, s, frame).carry = <<>>
  PROVE  DecodeFold!Folded(0, s, frame \o [i \in 1 .. n |-> Blank])
           = DecodeFold!Folded(0, s, frame)
<1> DEFINE B(k) == [i \in 1 .. k |-> Blank]
           D(f) == DecodeFold!Folded(0, s, f)
           N == {k \in Nat : D(frame \o B(k)) = D(frame)}
           U == S \cup {Blank}
<1>0. frame \in Seq(U)
  OBVIOUS
<1>1. 0 \in N
  <2>1. frame \o B(0) = frame
    OBVIOUS
  <2> HIDE DEF D, B
  <2> QED BY <2>1
<1>2. ASSUME NEW k \in N PROVE k + 1 \in N
  <2>1. frame \o B(k + 1) = Append(frame \o B(k), Blank) /\ frame \o B(k) \in Seq(U)
    <3>1. k \in Nat /\ k + 1 \in Nat
      OBVIOUS
    <3>2. B(k) \in Seq(U) /\ B(k + 1) \in Seq(U) /\ Len(B(k)) = k /\ Len(B(k + 1)) = k + 1
      BY <3>1
    <3>3. \A i \in 1 .. k + 1 : B(k + 1)[i] = Blank
      BY <3>1
    <3>4. \A i \in 1 .. k : B(k)[i] = Blank
      BY <3>1
    <3> DEFINE bk == B(k)
               bn == B(k + 1)
    <3>5. /\ bk \in Seq(U) /\ bn \in Seq(U) /\ Len(bk) = k /\ Len(bn) = k + 1 /\ Blank \in U
          /\ (\A i \in 1 .. k + 1 : bn[i] = Blank) /\ (\A i \in 1 .. k : bk[i] = Blank)
      BY <3>2, <3>3, <3>4
    <3> HIDE DEF bk, bn, N, U, D
    <3>6. frame \o bn = Append(frame \o bk, Blank) /\ frame \o bk \in Seq(U)
      BY <1>0, <3>1, <3>5
    <3> QED BY <3>6 DEF bk, bn
  <2>2. D(Append(frame \o B(k), Blank)) = WithGranule(D(frame \o B(k)), Blank)
    <3> DEFINE r == frame \o B(k)
    <3>1. r \in Seq(U) /\ Blank \in U
      BY <2>1
    <3> HIDE DEF r, U, N
    <3>2. D(Append(r, Blank)) = WithGranule(D(r), Blank)
      BY <3>1, DecodeFold!FoldedAppend DEF DecodeStep
    <3> QED BY <3>2 DEF r
  <2>3. D(frame \o B(k)) = D(frame) /\ k \in Nat
    OBVIOUS
  <2> DEFINE d == D(frame)
  <2>4. WithGranule(d, Blank) = d
    <3>1. d.carry = <<>>
      OBVIOUS
    <3>2. ~Blank.start
      BY DEF Blank
    <3> HIDE DEF d
    <3> QED BY <3>1, <3>2 DEF WithGranule
  <2>5. D(frame \o B(k + 1)) = D(frame)
    <3> HIDE DEF D, B
    <3> QED BY <2>1, <2>2, <2>3, <2>4
  <2> HIDE DEF D
  <2> QED BY <2>3, <2>5
<1>3. N \in SUBSET Nat
  OBVIOUS
<1> HIDE DEF N
<1>4. N = Nat
  BY <1>1, <1>2, <1>3, DecodeFold!AllNumbers
<1> QED BY <1>4 DEF N

\* What the decoder makes of a frame of such a stream: it refuses nothing, hands
\* on the messages that end in the frame, and keeps the one that goes on.
THEOREM DecodedIs ==
  ASSUME NEW M, NEW carry, NEW frame, Chain(M, carry, frame), Len(frame) <= FlitGranules,
         Len(frame) < FlitGranules => After(carry, frame) = <<>>
  PROVE  Decoded(carry, frame) = Decoding(After(carry, frame), Ends(frame))
<1>1. FlitGranules \in Nat /\ frame \in Seq(GranulesOf(M)) /\ Len(frame) \in Nat
  BY FramesAssumption DEF Chain
<1> DEFINE D(f) == DecodeFold!Folded(0, NothingYet(carry), f)
<1>2. D(frame) = Decoding(After(carry, frame), Ends(frame))
  BY GranulesDecoded
<1>3. D(Padded(frame)) = D(frame)
  <2>1. CASE Len(frame) < FlitGranules
    <3>1. D(frame).carry = <<>>
      BY <1>2, <2>1 DEF Decoding
    <3>2. Room(frame) \in Nat
      BY <1>1, <2>1 DEF Room
    <3> QED BY <1>1, <3>1, <3>2, BlanksDecoded DEF Padded
  <2>2. CASE ~(Len(frame) < FlitGranules)
    <3>1. Room(frame) = 0
      BY <1>1, <2>2 DEF Room
    <3>2. [i \in 1 .. 0 |-> Blank] = <<>>
      OBVIOUS
    <3>3. frame \o <<>> = frame
      BY <1>1
    <3>4. Padded(frame) = frame
      BY <3>1, <3>2, <3>3, Zenon DEF Padded
    <3> QED BY <3>4
  <2> QED BY <2>1, <2>2
<1> HIDE DEF D
<1>4. Decoded(carry, frame) = D(Padded(frame))
  BY DecodedIsFold DEF D
<1> QED BY <1>2, <1>3, <1>4

-----------------------------------------------------------------------------
\* Cutting a stream

LEMMA SplitAt ==
  ASSUME NEW S, NEW s \in Seq(S), NEW n \in 0 .. Len(s)
  PROVE  /\ SubSeq(s, 1, n) \in Seq(S) /\ Len(SubSeq(s, 1, n)) = n
         /\ SubSeq(s, n + 1, Len(s)) \in Seq(S) /\ Len(SubSeq(s, n + 1, Len(s))) = Len(s) - n
         /\ SubSeq(s, 1, n) \o SubSeq(s, n + 1, Len(s)) = s
<1>0. Len(s) \in Nat /\ n \in Int /\ n + 1 \in Int /\ Len(s) \in Int /\ 1 \in Int
  OBVIOUS
<1>1. (\A i \in 1 .. n : s[i] \in S) /\ (\A i \in n + 1 .. Len(s) : s[i] \in S)
  OBVIOUS
<1>2. SubSeq(s, 1, n) \in Seq(S) /\ Len(SubSeq(s, 1, n)) = IF 1 <= n THEN n - 1 + 1 ELSE 0
  BY <1>0, <1>1, SubSeqProperties
<1>3. /\ SubSeq(s, n + 1, Len(s)) \in Seq(S)
      /\ Len(SubSeq(s, n + 1, Len(s)))
           = IF n + 1 <= Len(s) THEN Len(s) - (n + 1) + 1 ELSE 0
  BY <1>0, <1>1, SubSeqProperties
<1>4. SubSeq(s, 1, n) \o SubSeq(s, n + 1, Len(s)) = SubSeq(s, 1, Len(s))
  <2>1. 1 \in 1 .. Len(s) + 1 /\ n \in 1 - 1 .. Len(s) /\ Len(s) \in n .. Len(s)
    BY <1>0
  <2> QED BY <2>1, ConcatAdjacentSubSeq
<1>5. SubSeq(s, 1, Len(s)) = s
  BY SubSeqFull
<1>6. (IF 1 <= n THEN n - 1 + 1 ELSE 0) = n
  BY <1>0
<1>7. (IF n + 1 <= Len(s) THEN Len(s) - (n + 1) + 1 ELSE 0) = Len(s) - n
  BY <1>0
<1> DEFINE a == SubSeq(s, 1, n)
           b == SubSeq(s, n + 1, Len(s))
<1>8. /\ a \in Seq(S) /\ Len(a) = (IF 1 <= n THEN n - 1 + 1 ELSE 0)
      /\ b \in Seq(S) /\ Len(b) = (IF n + 1 <= Len(s) THEN Len(s) - (n + 1) + 1 ELSE 0)
      /\ a \o b = s
  BY <1>2, <1>3, <1>4, <1>5
<1> HIDE DEF a, b
<1>9. a \in Seq(S) /\ Len(a) = n /\ b \in Seq(S) /\ Len(b) = Len(s) - n /\ a \o b = s
  BY <1>6, <1>7, <1>8
<1> QED BY <1>9 DEF a, b

LEMMA CutIs ==
  ASSUME NEW S, NEW frame \in Seq(S), NEW parts \in Seq(S), Len(frame) <= FlitGranules
  PROVE  /\ Fits(frame, parts) \in Seq(S) /\ CutOff(frame, parts) \in Seq(S)
         /\ Fits(frame, parts) \o CutOff(frame, parts) = frame \o parts
         /\ Len(Fits(frame, parts)) <= FlitGranules
         /\ Len(Fits(frame, parts)) < FlitGranules => CutOff(frame, parts) = <<>>
<1>0. FlitGranules \in Nat /\ Len(frame) \in Nat /\ Len(parts) \in Nat
  BY FramesAssumption
<1> DEFINE n == Taken(frame, parts)
<1>1. /\ n \in 0 .. Len(parts) /\ n + Len(frame) <= FlitGranules
      /\ n + Len(frame) < FlitGranules => n = Len(parts)
  BY <1>0 DEF Taken, Room
<1> HIDE DEF n
<1> DEFINE a == SubSeq(parts, 1, n)
           b == SubSeq(parts, n + 1, Len(parts))
<1>2. a \in Seq(S) /\ Len(a) = n /\ b \in Seq(S) /\ Len(b) = Len(parts) - n /\ a \o b = parts
  BY <1>1, SplitAt
<1>3. n = Len(parts) => b = <<>>
  BY <1>0, <1>2
<1> HIDE DEF a, b
<1>4. frame \o a \in Seq(S) /\ Len(frame \o a) = Len(frame) + n
  BY <1>2, ConcatProperties
<1>5. (frame \o a) \o b = frame \o parts
  <2>0. a \in Seq(S) /\ b \in Seq(S)
    BY <1>2
  <2>1. (frame \o a) \o b = frame \o (a \o b)
    BY <2>0
  <2> QED BY <1>2, <2>1
<1>6. Fits(frame, parts) = frame \o a /\ CutOff(frame, parts) = b
  BY DEF Fits, CutOff, a, b, n
<1>7. Len(frame) + n <= FlitGranules /\ (Len(frame) + n < FlitGranules => b = <<>>)
  BY <1>0, <1>1, <1>3
<1> QED BY <1>2, <1>4, <1>5, <1>6, <1>7
=============================================================================
