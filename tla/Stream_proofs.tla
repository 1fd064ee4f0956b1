----------------------------- MODULE Stream_proofs -----------------------------
(***************************************************************************)
(* What reads a stream of a model, wherever its chunks are cut: the guard  *)
(* counts the n-grams of the whole text and cuts it at a sentence before   *)
(* the loop, and the parser divides it as a reading of one character at a  *)
(* time does, for any texts, tags and limits.                              *)
(***************************************************************************)
EXTENDS RepetitionGuard, ThinkingParser, FiniteSetTheorems, SequenceTheorems,
        WellFoundedInduction, TLAPS


----------------------------------------------------------------------------
(* Numbers, and functions that are defined step by step *)

\* What holds at 0 and is handed on from each number to the next holds up to n.
LEMMA UpTo ==
    ASSUME NEW n \in Nat, NEW S, 0 \in S, \A i \in 0 .. n - 1 : i \in S => i + 1 \in S
    PROVE  \A i \in 0 .. n : i \in S
<1> DEFINE Less == {ss \in Nat \X Nat : ss[1] < ss[2]}
           rest == {i \in 0 .. n : i \notin S}
<1>1. IsWellFoundedOn(Less, Nat)
  BY NatLessThanWellFounded, Zenon DEF OpToRel
<1>2. rest \in SUBSET Nat
  OBVIOUS
<1> SUFFICES ASSUME rest # {} PROVE FALSE
  OBVIOUS
<1>3. PICK x \in rest : \A y \in rest : ~(<<y, x>> \in Less)
  <2> HIDE DEF Less, rest
  <2> QED BY <1>1, <1>2, WFMin
<1>4. x \in 1 .. n /\ x \notin S
  OBVIOUS
<1>5. x - 1 \in rest
  <2>1. x - 1 \in 0 .. n - 1 /\ (x - 1) + 1 = x
    BY <1>4
  <2>2. x - 1 \notin S
    BY <1>4, <2>1
  <2> QED BY <2>1, <2>2
<1>6. <<x - 1, x>> \in Less
  BY <1>4
<1> QED BY <1>3, <1>5, <1>6

\* A function on 0 .. n may be defined step by step.
Steps(n, V, v, step) == n \in Nat /\ v \in V /\ step \in [(1 .. n) \X V -> V]
Runs(f, n, V, v, step) ==
    /\ f \in [0 .. n -> V]
    /\ f[0] = v
    /\ \A i \in 1 .. n : f[i] = step[<<i, f[i - 1]>>]

LEMMA StepByStep ==
    ASSUME NEW n, NEW V, NEW v, NEW step, Steps(n, V, v, step)
    PROVE  \E f : Runs(f, n, V, v, step)
<1>0. n \in Nat /\ v \in V /\ step \in [(1 .. n) \X V -> V]
  BY DEF Steps
<1> DEFINE Upto(m, f) == f[0] = v /\ \A i \in 1 .. m : f[i] = step[<<i, f[i - 1]>>]
           S == {m \in 0 .. n : \E f \in [0 .. m -> V] : Upto(m, f)}
<1>1. 0 \in S
  <2>1. [i \in 0 .. 0 |-> v] \in [0 .. 0 -> V] /\ Upto(0, [i \in 0 .. 0 |-> v])
    BY <1>0
  <2>2. \E f \in [0 .. 0 -> V] : Upto(0, f)
    <3> HIDE DEF Upto
    <3> QED BY <2>1
  <2>3. 0 \in 0 .. n
    BY <1>0
  <2> HIDE DEF Upto
  <2> QED BY <2>2, <2>3
<1>2. ASSUME NEW m \in 0 .. n - 1, m \in S
      PROVE  m + 1 \in S
  <2>1. PICK f \in [0 .. m -> V] : Upto(m, f)
    BY <1>2
  <2> DEFINE next == step[<<m + 1, f[m]>>]
             h == [i \in 0 .. m + 1 |-> IF i = m + 1 THEN next ELSE f[i]]
  <2>2. next \in V
    BY <1>0
  <2>3. h \in [0 .. m + 1 -> V]
    BY <2>2
  <2>4. h[0] = v
    BY <2>1
  <2>5. ASSUME NEW i \in 1 .. m + 1
        PROVE  h[i] = step[<<i, h[i - 1]>>]
    <3>1. i - 1 \in 0 .. m /\ h[i - 1] = f[i - 1]
      BY <1>0
    <3>2. CASE i = m + 1
      <4>1. h[i] = next
        BY <3>2
      <4>2. i - 1 = m
        BY <3>2
      <4> QED BY <3>1, <3>2, <4>1, <4>2, Zenon
    <3>3. CASE i \in 1 .. m
      BY <2>1, <3>1, <3>3
    <3> QED BY <3>2, <3>3
  <2>6. Upto(m + 1, h)
    BY <2>4, <2>5
  <2>7. m + 1 \in 0 .. n
    BY <1>0
  <2> HIDE DEF h, Upto
  <2> QED BY <2>3, <2>6, <2>7
<1>3. n \in S
  <2> HIDE DEF S
  <2>1. n \in Nat
    BY <1>0
  <2>2. \A i \in 0 .. n : i \in S
    BY <1>1, <1>2, <2>1, UpTo
  <2>3. n \in 0 .. n
    BY <2>1
  <2> QED BY <2>2, <2>3
<1> QED BY <1>3, Zenon DEF Runs

\* Some numbers have a largest and a least one.
LEMMA MaxIn ==
    ASSUME NEW n \in Nat, NEW S \in SUBSET (0 .. n), S # {}
    PROVE  Max(S) \in S /\ \A k \in S : k <= Max(S)
<1> DEFINE Less == {ss \in Nat \X Nat : ss[1] < ss[2]}
           T == {n - i : i \in S}
<1>1. IsWellFoundedOn(Less, Nat)
  BY NatLessThanWellFounded, Zenon DEF OpToRel
<1>2. T \in SUBSET Nat /\ T # {}
  <2>1. \A i \in S : i \in Nat /\ i <= n /\ n - i \in Nat
    OBVIOUS
  <2> QED BY <2>1
<1>3. PICK x \in T : \A y \in T : ~(<<y, x>> \in Less)
  <2> HIDE DEF Less, T
  <2> QED BY <1>1, <1>2, WFMin
<1>4. \A y \in T : x <= y
  <2>1. \A y \in T : x \in Nat /\ y \in Nat /\ ~(y < x)
    <3> HIDE DEF T
    <3> QED BY <1>2, <1>3
  <2> QED BY <2>1
<1>5. PICK i \in S : x = n - i
  BY <1>3
<1>6. ASSUME NEW k \in S
      PROVE  i >= k
  <2>1. n - k \in T /\ k \in Nat /\ i \in Nat
    OBVIOUS
  <2>2. n - i <= n - k
    BY <1>4, <1>5, <2>1
  <2> QED BY <2>1, <2>2
<1>7. Max(S) \in S /\ \A k \in S : Max(S) >= k
  BY <1>5, <1>6 DEF Max
<1> QED BY <1>7

LEMMA MinIn ==
    ASSUME NEW S \in SUBSET Nat, S # {}
    PROVE  Min(S) \in S /\ \A k \in S : Min(S) <= k
<1> DEFINE Less == {ss \in Nat \X Nat : ss[1] < ss[2]}
<1>1. IsWellFoundedOn(Less, Nat)
  BY NatLessThanWellFounded, Zenon DEF OpToRel
<1>2. PICK x \in S : \A y \in S : ~(<<y, x>> \in Less)
  <2> HIDE DEF Less
  <2> QED BY <1>1, WFMin
<1>3. \A y \in S : x \in Nat /\ y \in Nat /\ ~(y < x)
  BY <1>2
<1>4. \A y \in S : x <= y
  BY <1>3
<1> QED BY <1>4 DEF Min

----------------------------------------------------------------------------
(* The words of a text *)

LEMMA LimitsAre ==
    /\ GramN \in Nat /\ GramN > 0
    /\ Window \in Nat /\ Slack \in Nat
    /\ Ends \in Seq(Nat)
<1>1. GramN \in Nat \ {0}
  BY GuardAssumption, Zenon
<1>2. GramN > 0
  BY <1>1
<1>3. Window \in Nat /\ Slack \in Nat /\ Ends \in Seq(Nat)
  BY GuardAssumption, Zenon
<1> QED BY <1>1, <1>2, <1>3

Part(text, i) == IF text[i] \in Words THEN <<text[i]>> ELSE <<>>

\* f[n] are the words of the first n units of the text.
Keeps(f, text) ==
    /\ f \in [0 .. Len(text) -> Seq(Words)]
    /\ f[0] = <<>>
    /\ \A i \in 1 .. Len(text) : f[i] = f[i - 1] \o Part(text, i)

LEMMA KeepsOne ==
    ASSUME NEW text, Len(text) \in Nat, NEW f, NEW h, Keeps(f, text), Keeps(h, text)
    PROVE  f = h
<1> DEFINE S == {i \in 0 .. Len(text) : f[i] = h[i]}
<1>1. 0 \in S
  BY DEF Keeps
<1>2. ASSUME NEW i \in 0 .. Len(text) - 1, i \in S
      PROVE  i + 1 \in S
  <2>1. i + 1 \in 1 .. Len(text) /\ (i + 1) - 1 = i
    OBVIOUS
  <2>2. f[i + 1] = f[i] \o Part(text, i + 1) /\ h[i + 1] = h[i] \o Part(text, i + 1)
    BY <2>1 DEF Keeps
  <2>3. f[i] = h[i]
    BY <1>2
  <2>4. f[i + 1] = h[i + 1]
    BY <2>2, <2>3, Zenon
  <2> QED BY <2>1, <2>4
<1>3. \A i \in 0 .. Len(text) : i \in S
  <2> HIDE DEF S
  <2> QED BY <1>1, <1>2, UpTo
<1> QED BY <1>3 DEF Keeps

LEMMA TokensAre ==
    ASSUME NEW text \in Seq(TextUnits)
    PROVE  \E f : Keeps(f, text) /\ Tokens(text) = f[Len(text)]
<1> DEFINE n == Len(text)
           step == [p \in (1 .. n) \X Seq(Words) |-> p[2] \o Part(text, p[1])]
           R(f) == f = [i \in 0 .. n |-> IF i = 0 THEN <<>>
                        ELSE f[i - 1] \o (IF text[i] \in Words THEN <<text[i]>> ELSE <<>>)]
<1>1. n \in Nat
  OBVIOUS
<1>2. step \in [(1 .. n) \X Seq(Words) -> Seq(Words)]
  <2>1. ASSUME NEW i \in 1 .. n, NEW w \in Seq(Words)
        PROVE  w \o Part(text, i) \in Seq(Words)
    <3>1. Part(text, i) \in Seq(Words)
      BY DEF Part
    <3> QED BY <3>1, ConcatProperties, Zenon
  <2> QED BY <2>1
<1>3. PICK f : Runs(f, n, Seq(Words), <<>>, step)
  <2>1. Steps(n, Seq(Words), <<>>, step)
    <3>1. <<>> \in Seq(Words)
      OBVIOUS
    <3> HIDE DEF n, step
    <3> QED BY <1>1, <1>2, <3>1 DEF Steps
  <2> HIDE DEF step, n
  <2> QED BY <2>1, StepByStep, Zenon
<1>4. Keeps(f, text)
  <2>1. ASSUME NEW i \in 1 .. n
        PROVE  f[i] = f[i - 1] \o Part(text, i)
    <3>1. <<i, f[i - 1]>> \in (1 .. n) \X Seq(Words)
      <4>1. i - 1 \in 0 .. n
        BY <1>1
      <4>2. f \in [0 .. n -> Seq(Words)]
        BY <1>3 DEF Runs
      <4>3. f[i - 1] \in Seq(Words)
        BY <4>1, <4>2, Zenon
      <4> QED BY <4>3
    <3>2. step[<<i, f[i - 1]>>] = f[i - 1] \o Part(text, i)
      <4> HIDE DEF n
      <4> QED BY <3>1
    <3>3. f[i] = step[<<i, f[i - 1]>>]
      BY <1>3, Zenon DEF Runs
    <3> QED BY <3>2, <3>3, Zenon
  <2> QED BY <1>3, <2>1, Zenon DEF Keeps, Runs
<1>5. R(f)
  <2> DEFINE h == [i \in 0 .. n |-> IF i = 0 THEN <<>>
                        ELSE f[i - 1] \o (IF text[i] \in Words THEN <<text[i]>> ELSE <<>>)]
  <2>1. ASSUME NEW i \in 0 .. n
        PROVE  f[i] = h[i]
    <3>1. CASE i = 0
      BY <1>4, <3>1 DEF Keeps
    <3>2. CASE i \in 1 .. n
      <4>0. i \in 0 .. n /\ i # 0
        BY <3>2
      <4>1. h[i] = f[i - 1] \o Part(text, i)
        BY <4>0, Zenon DEF Part
      <4>2. f[i] = f[i - 1] \o Part(text, i)
        BY <1>4, <3>2 DEF Keeps
      <4> QED BY <4>1, <4>2, Zenon
    <3>3. i = 0 \/ i \in 1 .. n
      BY <1>1
    <3> QED BY <3>1, <3>2, <3>3, Zenon
  <2>2. f = h
    <3>1. f = [i \in 0 .. n |-> f[i]]
      BY <1>4 DEF Keeps
    <3> HIDE DEF n
    <3> QED BY <2>1, <3>1
  <2> QED BY <2>2, Zenon
<1> DEFINE kept == CHOOSE k : R(k)
<1>6. R(kept)
  <2> HIDE DEF R
  <2> QED BY <1>5, Zenon
<1>7. kept[n] = f[n]
  <2> DEFINE S == {i \in 0 .. n : kept[i] = f[i]}
  <2>1. \A i \in 0 .. n : kept[i] = IF i = 0 THEN <<>>
                        ELSE kept[i - 1] \o (IF text[i] \in Words THEN <<text[i]>> ELSE <<>>)
    <3> HIDE DEF kept, n
    <3> QED BY <1>6
  <2> HIDE DEF kept, R
  <2>2. 0 \in S
    <3>1. 0 \in 0 .. n
      BY <1>1
    <3>2. kept[0] = <<>>
      BY <2>1, <3>1, Zenon
    <3>3. f[0] = <<>>
      BY <1>4 DEF Keeps
    <3> QED BY <3>1, <3>2, <3>3
  <2>3. ASSUME NEW i \in 0 .. n - 1, i \in S
        PROVE  i + 1 \in S
    <3>1. i + 1 \in 1 .. n /\ (i + 1) - 1 = i /\ i + 1 # 0 /\ i + 1 \in 0 .. n
      BY <1>1
    <3>2. kept[i + 1] = kept[i] \o Part(text, i + 1)
      BY <2>1, <3>1 DEF Part
    <3>3. f[i + 1] = f[i] \o Part(text, i + 1)
      BY <1>4, <3>1 DEF Keeps
    <3>4. kept[i] = f[i]
      BY <2>3
    <3>5. kept[i + 1] = f[i + 1]
      BY <3>2, <3>3, <3>4, Zenon
    <3> QED BY <3>1, <3>5
  <2>4. \A i \in 0 .. n : i \in S
    <3> HIDE DEF S, n
    <3> QED BY <1>1, <2>2, <2>3, UpTo
  <2> QED BY <1>1, <2>4
<1>8. Tokens(text) = kept[n]
  BY DEF Tokens
<1> HIDE DEF kept, R
<1> QED BY <1>4, <1>7, <1>8

LEMMA KeptSeq ==
    ASSUME NEW text, NEW f, Keeps(f, text), NEW i \in 0 .. Len(text)
    PROVE  f[i] \in Seq(Words)
<1>1. f \in [0 .. Len(text) -> Seq(Words)]
  BY DEF Keeps
<1> QED BY <1>1, Zenon

LEMMA TokensSeq ==
    ASSUME NEW text \in Seq(TextUnits)
    PROVE  Tokens(text) \in Seq(Words)
<1>1. PICK f : Keeps(f, text) /\ Tokens(text) = f[Len(text)]
  BY TokensAre
<1> QED BY <1>1 DEF Keeps

LEMMA TokensOfNone == Tokens(<<>>) = <<>>
<1>1. <<>> \in Seq(TextUnits) /\ Len(<<>>) = 0
  OBVIOUS
<1>2. PICK f : Keeps(f, <<>>) /\ Tokens(<<>>) = f[Len(<<>>)]
  BY <1>1, TokensAre
<1> QED BY <1>1, <1>2 DEF Keeps

\* The words of two texts are those of the one and those of the other.
LEMMA TokensOfBoth ==
    ASSUME NEW a \in Seq(TextUnits), NEW b \in Seq(TextUnits)
    PROVE  Tokens(a \o b) = Tokens(a) \o Tokens(b)
<1>1. PICK fa : Keeps(fa, a) /\ Tokens(a) = fa[Len(a)]
  BY TokensAre
<1>2. PICK fb : Keeps(fb, b) /\ Tokens(b) = fb[Len(b)]
  BY TokensAre
<1>3. /\ a \o b \in Seq(TextUnits)
      /\ Len(a \o b) = Len(a) + Len(b)
      /\ \A i \in 1 .. Len(a) + Len(b) : (a \o b)[i] = IF i <= Len(a) THEN a[i] ELSE b[i - Len(a)]
  BY ConcatProperties, Zenon
<1>4. PICK f : Keeps(f, a \o b) /\ Tokens(a \o b) = f[Len(a \o b)]
  BY <1>3, TokensAre
<1>5. Len(a) \in Nat /\ Len(b) \in Nat
  OBVIOUS
<1> DEFINE S == {i \in 0 .. Len(a) : f[i] = fa[i]}
           T == {i \in 0 .. Len(b) : f[Len(a) + i] = fa[Len(a)] \o fb[i]}
<1>6. \A i \in 0 .. Len(a) : i \in S
  <2>1. 0 \in S
    BY <1>1, <1>4, <1>5 DEF Keeps
  <2>2. ASSUME NEW i \in 0 .. Len(a) - 1, i \in S
        PROVE  i + 1 \in S
    <3>1. i + 1 \in 1 .. Len(a) /\ (i + 1) - 1 = i /\ i + 1 \in 1 .. Len(a) + Len(b) /\ i + 1 <= Len(a)
      BY <1>5
    <3>2. Part(a \o b, i + 1) = Part(a, i + 1)
      BY <1>3, <3>1 DEF Part
    <3>3. f[i + 1] = f[i] \o Part(a \o b, i + 1)
      BY <1>3, <1>4, <3>1 DEF Keeps
    <3>4. fa[i + 1] = fa[i] \o Part(a, i + 1)
      BY <1>1, <3>1 DEF Keeps
    <3>5. f[i + 1] = fa[i + 1]
      <4>1. f[i] = fa[i]
        BY <2>2
      <4> QED BY <3>2, <3>3, <3>4, <4>1, Zenon
    <3> QED BY <3>1, <3>5
  <2> HIDE DEF S
  <2> QED BY <1>5, <2>1, <2>2, UpTo
<1>7. \A i \in 0 .. Len(b) : fb[i] \in Seq(Words)
  BY <1>2, KeptSeq
<1>8. fa[Len(a)] \in Seq(Words)
  <2>1. Len(a) \in 0 .. Len(a)
    BY <1>5
  <2> QED BY <1>1, <2>1, KeptSeq
<1>9. \A i \in 0 .. Len(b) : i \in T
  <2>1. 0 \in T
    <3>1. fb[0] = <<>>
      BY <1>2 DEF Keeps
    <3>2. fa[Len(a)] \o <<>> = fa[Len(a)]
      BY <1>8, ConcatEmptySeq
    <3>3. f[Len(a) + 0] = fa[Len(a)]
      BY <1>5, <1>6
    <3>4. f[Len(a) + 0] = fa[Len(a)] \o fb[0]
      BY <3>1, <3>2, <3>3, Zenon
    <3>5. 0 \in 0 .. Len(b)
      BY <1>5
    <3> QED BY <3>4, <3>5, Zenon
  <2>2. ASSUME NEW i \in 0 .. Len(b) - 1, i \in T
        PROVE  i + 1 \in T
    <3>1. /\ i + 1 \in 1 .. Len(b) /\ (i + 1) - 1 = i
          /\ Len(a) + (i + 1) \in 1 .. Len(a) + Len(b) /\ ~(Len(a) + (i + 1) <= Len(a))
          /\ (Len(a) + (i + 1)) - Len(a) = i + 1 /\ (Len(a) + (i + 1)) - 1 = Len(a) + i
      BY <1>5
    <3>2. Part(a \o b, Len(a) + (i + 1)) = Part(b, i + 1)
      <4>1. (a \o b)[Len(a) + (i + 1)] = b[i + 1]
        BY <1>3, <3>1
      <4> QED BY <4>1 DEF Part
    <3>3. f[Len(a) + (i + 1)] = f[Len(a) + i] \o Part(a \o b, Len(a) + (i + 1))
      BY <1>3, <1>4, <3>1 DEF Keeps
    <3>4. fb[i + 1] = fb[i] \o Part(b, i + 1)
      BY <1>2, <3>1 DEF Keeps
    <3>5. Part(b, i + 1) \in Seq(Words) /\ fb[i] \in Seq(Words)
      BY <1>7 DEF Part
    <3>6. (fa[Len(a)] \o fb[i]) \o Part(b, i + 1) = fa[Len(a)] \o (fb[i] \o Part(b, i + 1))
      <4> DEFINE x == fa[Len(a)]
                 y == fb[i]
                 z == Part(b, i + 1)
      <4>1. x \in Seq(Words) /\ y \in Seq(Words) /\ z \in Seq(Words)
        BY <1>8, <3>5
      <4> HIDE DEF x, y, z
      <4>2. (x \o y) \o z = x \o (y \o z)
        BY <4>1, ConcatAssociative, SMTT(30)
      <4> QED BY <4>2 DEF x, y, z
    <3>7. f[Len(a) + i] = fa[Len(a)] \o fb[i]
      BY <2>2
    <3>8. f[Len(a) + (i + 1)] = fa[Len(a)] \o fb[i + 1]
      BY <3>2, <3>3, <3>4, <3>6, <3>7, Zenon
    <3>9. i + 1 \in 0 .. Len(b)
      BY <1>5
    <3> QED BY <3>8, <3>9, Zenon
  <2> HIDE DEF T
  <2> QED BY <1>5, <2>1, <2>2, UpTo
<1>10. f[Len(a) + Len(b)] = fa[Len(a)] \o fb[Len(b)]
  <2>1. Len(b) \in 0 .. Len(b)
    BY <1>5
  <2>2. Len(b) \in T
    BY <1>9, <2>1, Zenon
  <2> QED BY <2>2, Zenon
<1> QED BY <1>1, <1>2, <1>3, <1>4, <1>10, Zenon

----------------------------------------------------------------------------
(* Counting *)

GramPlaces(tokens) == 1 .. Len(tokens) - GramN + 1
Tell(tokens, grams) ==
    /\ DOMAIN grams = {Gram(tokens, i) : i \in GramPlaces(tokens)}
    /\ \A g \in DOMAIN grams : grams[g] = Occurrences(tokens, g)

LEMMA CountFinite ==
    ASSUME NEW n \in Int, NEW S \in SUBSET (1 .. n)
    PROVE  IsFiniteSet(S) /\ Cardinality(S) \in Nat
<1>1. IsFiniteSet(1 .. n)
  BY FS_Interval
<1>2. IsFiniteSet(S)
  BY <1>1, FS_Subset
<1> QED BY <1>2, FS_CardinalityType

\* New words complete no gram that was there, and change none.
LEMMA PlacesSplit ==
    ASSUME NEW old \in Seq(Words), NEW new \in Seq(Words)
    PROVE  /\ Len(old \o new) - GramN + 1 \in Int
           /\ GramPlaces(old \o new) = GramPlaces(old) \cup NewPlaces(old \o new, Len(new))
           /\ GramPlaces(old) \cap NewPlaces(old \o new, Len(new)) = {}
           /\ \A i \in GramPlaces(old) : Gram(old \o new, i) = Gram(old, i)
<1>1. GramN \in Nat /\ GramN > 0 /\ Len(old) \in Nat /\ Len(new) \in Nat
  BY LimitsAre
<1>2. Len(old \o new) = Len(old) + Len(new)
  BY ConcatProperties, Zenon
<1>3. GramPlaces(old \o new) = GramPlaces(old) \cup NewPlaces(old \o new, Len(new))
  BY <1>1, <1>2 DEF GramPlaces, NewPlaces
<1>4. GramPlaces(old) \cap NewPlaces(old \o new, Len(new)) = {}
  BY <1>1, <1>2 DEF GramPlaces, NewPlaces
<1>5. ASSUME NEW i \in GramPlaces(old)
      PROVE  Gram(old \o new, i) = Gram(old, i)
  <2>1. i \in 1 .. Len(old) /\ i + GramN - 1 \in 1 .. Len(old)
    BY <1>1 DEF GramPlaces
  <2> QED BY <2>1, SubSeqOfConcat1, Zenon DEF Gram
<1> QED BY <1>1, <1>2, <1>3, <1>4, <1>5

\* What is counted chunk by chunk is counted of the whole.
LEMMA CountedTells ==
    ASSUME NEW old \in Seq(Words), NEW new \in Seq(Words), NEW grams, Tell(old, grams)
    PROVE  Tell(old \o new, Counted(grams, old \o new, NewPlaces(old \o new, Len(new))))
<1> DEFINE both == old \o new
           places == NewPlaces(both, Len(new))
           c == Counted(grams, both, places)
           was(g) == {i \in GramPlaces(old) : Gram(old, i) = g}
           is(g) == {i \in places : Gram(both, i) = g}
<1>1. /\ Len(both) - GramN + 1 \in Int
      /\ GramPlaces(both) = GramPlaces(old) \cup places
      /\ GramPlaces(old) \cap places = {}
      /\ \A i \in GramPlaces(old) : Gram(both, i) = Gram(old, i)
  BY PlacesSplit, Zenon
<1> HIDE DEF both, places
<1>2. DOMAIN c = DOMAIN grams \cup {Gram(both, i) : i \in places}
  BY DEF Counted
<1>3. DOMAIN grams = {Gram(both, i) : i \in GramPlaces(old)}
  BY <1>1 DEF Tell
<1>4. DOMAIN c = {Gram(both, i) : i \in GramPlaces(both)}
  BY <1>1, <1>2, <1>3
<1>5. ASSUME NEW g \in DOMAIN c
      PROVE  c[g] = Occurrences(both, g)
  <2>1. c[g] = (IF g \in DOMAIN grams THEN grams[g] ELSE 0) + Cardinality(is(g))
    BY <1>2 DEF Counted
  <2>2. (IF g \in DOMAIN grams THEN grams[g] ELSE 0) = Cardinality(was(g))
    <3>1. CASE g \in DOMAIN grams
      BY <3>1 DEF Tell, Occurrences, GramPlaces
    <3>2. CASE g \notin DOMAIN grams
      <4>1. was(g) = {}
        BY <3>2 DEF Tell
      <4>2. Cardinality(was(g)) = 0
        BY <4>1, FS_EmptySet, Zenon
      <4> QED BY <3>2, <4>2, Zenon
    <3> QED BY <3>1, <3>2
  <2>3. Occurrences(both, g) = Cardinality(was(g) \cup is(g))
    <3>1. {i \in GramPlaces(both) : Gram(both, i) = g} = was(g) \cup is(g)
      BY <1>1
    <3>2. Occurrences(both, g) = Cardinality({i \in GramPlaces(both) : Gram(both, i) = g})
      BY DEF Occurrences, GramPlaces
    <3> QED BY <3>1, <3>2, Zenon
  <2>4. was(g) \cap is(g) = {}
    BY <1>1
  <2>5. was(g) \in SUBSET (1 .. Len(both) - GramN + 1) /\ is(g) \in SUBSET (1 .. Len(both) - GramN + 1)
    BY <1>1 DEF GramPlaces
  <2> HIDE DEF was, is
  <2>6. /\ IsFiniteSet(was(g)) /\ IsFiniteSet(is(g))
        /\ Cardinality(was(g)) \in Nat /\ Cardinality(is(g)) \in Nat
    BY <1>1, <2>5, CountFinite
  <2>7. Cardinality(was(g) \cup is(g))
            = Cardinality(was(g)) + Cardinality(is(g)) - Cardinality(was(g) \cap is(g))
    BY <2>6, FS_Union
  <2>8. Cardinality(was(g) \cap is(g)) = 0
    BY <2>4, FS_EmptySet, Zenon
  <2> QED BY <2>1, <2>2, <2>3, <2>6, <2>7, <2>8
<1>6. Tell(both, c)
  BY <1>4, <1>5 DEF Tell
<1> QED BY <1>6 DEF both, places

----------------------------------------------------------------------------
(* The guards *)

GuardFields == {"text", "tokens", "feeds", "grams", "worst", "early", "frozen", "clean"}

\* A guard counts its whole text, and the part it would keep ends a sentence.
GuardCounts(g) ==
    /\ DOMAIN g = GuardFields
    /\ g.text \in Seq(TextUnits)
    /\ g.tokens = Tokens(g.text)
    /\ Tell(g.tokens, g.grams)

Early(text) == Slack + (IF Len(text) > Window THEN Len(text) - Window ELSE 0)
GuardCuts(g) ==
    /\ g.clean \in 0 .. Len(g.text)
    /\ g.clean # 0 => g.text[g.clean] \in ToSet(Ends)
    /\ g.clean <= Early(g.text)

\* Where a guard that says stop has no cut, there was none to be had.
NoCutMissed(g) ==
    g.clean = 0 /\ Reason(g) # "none" =>
        \A i \in 1 .. Len(g.text) : i + Window <= Len(g.text) => g.text[i] \notin ToSet(Ends)

GuardInv == \A s \in Streams : GuardCounts(guards[s]) /\ GuardCuts(guards[s]) /\ NoCutMissed(guards[s])
GuardIs == DOMAIN guards = Streams /\ GuardInv

LEMMA TellsNothing == Tell(<<>>, << >>)
<1>1. GramPlaces(<<>>) = {}
  <2>1. GramN \in Nat /\ GramN > 0 /\ Len(<<>>) = 0
    BY LimitsAre
  <2> QED BY <2>1 DEF GramPlaces
<1>2. DOMAIN << >> = {}
  <2>1. Len(<<>>) = 0 /\ DOMAIN << >> = 1 .. Len(<<>>)
    OBVIOUS
  <2> QED BY <2>1
<1> QED BY <1>1, <1>2 DEF Tell

LEMMA FedIs ==
    ASSUME NEW g, GuardCounts(g), GuardCuts(g), NEW chunk \in Seq(TextUnits)
    PROVE  GuardCounts(Fed(g, chunk)) /\ GuardCuts(Fed(g, chunk))
<1> DEFINE h == Fed(g, chunk)
           new == Tokens(chunk)
<1>1. /\ DOMAIN h = GuardFields
      /\ h.text = g.text \o chunk
      /\ h.tokens = g.tokens \o new
      /\ h.grams = Counted(g.grams, g.tokens \o new, NewPlaces(g.tokens \o new, Len(new)))
      /\ h.clean = g.clean
  BY DEF GuardCounts, GuardFields, Fed
<1> HIDE DEF h
<1>2. g.text \in Seq(TextUnits) /\ g.tokens \in Seq(Words) /\ new \in Seq(Words)
  BY TokensSeq DEF GuardCounts
<1>3. h.tokens = Tokens(h.text)
  <2>1. Tokens(g.text \o chunk) = Tokens(g.text) \o new
    BY <1>2, TokensOfBoth
  <2>2. g.tokens = Tokens(g.text)
    BY DEF GuardCounts
  <2> QED BY <1>1, <2>1, <2>2, Zenon
<1>4. Tell(h.tokens, h.grams)
  <2>1. Tell(g.tokens, g.grams)
    BY DEF GuardCounts
  <2> HIDE DEF new
  <2>2. Tell(g.tokens \o new, Counted(g.grams, g.tokens \o new, NewPlaces(g.tokens \o new, Len(new))))
    BY <1>2, <2>1, CountedTells
  <2> QED BY <1>1, <2>2, Zenon
<1>5. /\ g.text \o chunk \in Seq(TextUnits)
      /\ Len(g.text \o chunk) = Len(g.text) + Len(chunk)
      /\ \A i \in 1 .. Len(g.text) + Len(chunk) :
            (g.text \o chunk)[i] = IF i <= Len(g.text) THEN g.text[i] ELSE chunk[i - Len(g.text)]
  BY <1>2, ConcatProperties, Zenon
<1>6. GuardCounts(h)
  BY <1>1, <1>3, <1>4, <1>5 DEF GuardCounts
<1>7. GuardCuts(h)
  <2>1. Len(g.text) \in Nat /\ Len(chunk) \in Nat /\ Window \in Nat /\ Slack \in Nat
    BY <1>2, LimitsAre
  <2>2. Len(h.text) = Len(g.text) + Len(chunk)
    BY <1>1, <1>5
  <2>3. h.clean \in 0 .. Len(h.text)
    BY <1>1, <2>1, <2>2 DEF GuardCuts
  <2>4. ASSUME h.clean # 0
        PROVE  h.text[h.clean] \in ToSet(Ends)
    <3>1. g.clean \in 1 .. Len(g.text)
      BY <1>1, <2>1, <2>4 DEF GuardCuts
    <3>2. g.text[g.clean] \in ToSet(Ends)
      BY <1>1, <2>4 DEF GuardCuts
    <3>3. (g.text \o chunk)[g.clean] = g.text[g.clean]
      BY <1>5, <2>1, <3>1
    <3> QED BY <1>1, <3>2, <3>3
  <2>5. h.clean <= Early(h.text)
    <3>1. g.clean <= Early(g.text) /\ g.clean \in Nat
      BY <2>1 DEF GuardCuts
    <3>2. Early(g.text) <= Early(h.text) /\ Early(g.text) \in Nat /\ Early(h.text) \in Nat
      BY <2>1, <2>2 DEF Early
    <3> QED BY <1>1, <3>1, <3>2
  <2> QED BY <2>3, <2>4, <2>5 DEF GuardCuts
<1> QED BY <1>6, <1>7 DEF h

LEMMA LastAtIs ==
    ASSUME NEW text, NEW mark, NEW limit \in Nat
    PROVE  /\ LastAt(text, mark, limit) \in 0 .. limit
           /\ LastAt(text, mark, limit) # 0 => text[LastAt(text, mark, limit)] = mark
           /\ LastAt(text, mark, limit) = 0 => \A i \in 1 .. limit : text[i] # mark
<1> DEFINE S == {0} \cup {i \in 1 .. limit : text[i] = mark}
<1>1. S \in SUBSET (0 .. limit) /\ S # {}
  OBVIOUS
<1>2. Max(S) \in S /\ \A k \in S : k <= Max(S)
  <2> HIDE DEF S
  <2> QED BY <1>1, MaxIn
<1>3. LastAt(text, mark, limit) = Max(S)
  BY DEF LastAt
<1> QED BY <1>2, <1>3

LEMMA CutLimitIs ==
    ASSUME NEW text \in Seq(TextUnits)
    PROVE  /\ CutLimit(text) \in 0 .. Len(text)
           /\ CutLimit(text) <= Early(text)
           /\ \A i \in 1 .. Len(text) : i + Window <= Len(text) => i <= CutLimit(text)
<1>1. Len(text) \in Nat /\ Window \in Nat /\ Slack \in Nat
  BY LimitsAre
<1> DEFINE far == (IF Len(text) > Window THEN Len(text) - Window ELSE 0) + Slack
           S == {Len(text), far}
<1>2. far \in Nat /\ far = Early(text)
  BY <1>1 DEF Early
<1>3. S \in SUBSET Nat /\ S # {}
  BY <1>1, <1>2
<1>4. Min(S) \in S /\ \A k \in S : Min(S) <= k
  <2> HIDE DEF S
  <2> QED BY <1>3, MinIn
<1>5. CutLimit(text) = Min(S)
  BY DEF CutLimit
<1>6. CutLimit(text) \in Nat /\ CutLimit(text) <= Len(text) /\ CutLimit(text) <= far
      /\ (CutLimit(text) = Len(text) \/ CutLimit(text) = far)
  BY <1>1, <1>2, <1>4, <1>5
<1>7. \A i \in 1 .. Len(text) : i + Window <= Len(text) => i <= far
  BY <1>1
<1> HIDE DEF far
<1> QED BY <1>1, <1>2, <1>6, <1>7

LEMMA CleanCutIs ==
    ASSUME NEW text \in Seq(TextUnits)
    PROVE  /\ CleanCut(text) \in 0 .. Len(text)
           /\ CleanCut(text) # 0 => text[CleanCut(text)] \in ToSet(Ends)
           /\ CleanCut(text) <= Early(text)
           /\ CleanCut(text) = 0 =>
                 \A i \in 1 .. Len(text) : i + Window <= Len(text) => text[i] \notin ToSet(Ends)
<1> DEFINE limit == CutLimit(text)
           found == {n \in DOMAIN Ends : LastAt(text, Ends[n], limit) # 0}
<1>1. Len(text) \in Nat /\ limit \in 0 .. Len(text) /\ limit <= Early(text)
  BY CutLimitIs
<1>2. Early(text) \in Nat
  <2> DEFINE n == Len(text)
  <2>1. n \in Nat /\ Window \in Nat /\ Slack \in Nat
    BY <1>1, LimitsAre
  <2> HIDE DEF n
  <2>2. Slack + (IF n > Window THEN n - Window ELSE 0) \in Nat
    BY <2>1
  <2> QED BY <2>2, Zenon DEF Early, n
<1>3. CASE found = {}
  <2>1. CleanCut(text) = 0
    BY <1>3 DEF CleanCut
  <2>2. ASSUME NEW i \in 1 .. Len(text), i + Window <= Len(text), text[i] \in ToSet(Ends)
        PROVE  FALSE
    <3>1. PICK n \in DOMAIN Ends : text[i] = Ends[n]
      BY <2>2 DEF ToSet
    <3>2. LastAt(text, Ends[n], limit) = 0
      BY <1>3
    <3>3. i \in 1 .. limit
      BY <2>2, CutLimitIs
    <3>4. limit \in Nat
      BY <1>1
    <3> HIDE DEF limit, found
    <3> QED BY <3>1, <3>2, <3>3, <3>4, LastAtIs
  <2> QED BY <1>1, <1>2, <2>1, <2>2
<1>4. CASE found # {}
  <2>1. found \in SUBSET Nat
    BY LimitsAre
  <2>2. Min(found) \in found
    <3> HIDE DEF found
    <3> QED BY <1>4, <2>1, MinIn
  <2> DEFINE m == Min(found)
             c == LastAt(text, Ends[m], limit)
  <2>3. m \in DOMAIN Ends /\ c # 0
    BY <2>2
  <2>4. CleanCut(text) = c
    BY <1>4 DEF CleanCut
  <2>5. limit \in Nat
    BY <1>1
  <2> HIDE DEF m, limit, found
  <2>6. c \in 0 .. limit /\ text[c] = Ends[m]
    BY <2>3, <2>5, LastAtIs
  <2>7. text[c] \in ToSet(Ends)
    BY <2>3, <2>6 DEF ToSet
  <2> HIDE DEF c
  <2> QED BY <1>1, <1>2, <2>3, <2>4, <2>6, <2>7
<1> QED BY <1>3, <1>4

LEMMA MarkedIs ==
    ASSUME NEW g, GuardCounts(g), GuardCuts(g)
    PROVE  GuardCounts(Marked(g)) /\ GuardCuts(Marked(g)) /\ NoCutMissed(Marked(g))
<1>1. CASE Reason(g) = "none"
  <2>1. Marked(g) = g
    BY <1>1 DEF Marked
  <2> QED BY <1>1, <2>1 DEF NoCutMissed
<1>2. CASE Reason(g) # "none"
  <2> DEFINE h == Marked(g)
             cut == CleanCut(g.text)
             S == {g.clean, cut}
  <2>1. h = [g EXCEPT !.clean = Max(S)]
    BY <1>2 DEF Marked
  <2> HIDE DEF h
  <2>2. /\ DOMAIN h = GuardFields
        /\ h.text = g.text /\ h.tokens = g.tokens /\ h.grams = g.grams /\ h.clean = Max(S)
    BY <2>1 DEF GuardCounts, GuardFields
  <2>3. GuardCounts(h)
    BY <2>2 DEF GuardCounts
  <2>4. g.text \in Seq(TextUnits) /\ Len(g.text) \in Nat
    BY DEF GuardCounts
  <2>5. /\ cut \in 0 .. Len(g.text)
        /\ cut # 0 => g.text[cut] \in ToSet(Ends)
        /\ cut <= Early(g.text)
        /\ cut = 0 =>
              \A i \in 1 .. Len(g.text) : i + Window <= Len(g.text) => g.text[i] \notin ToSet(Ends)
    BY <2>4, CleanCutIs
  <2>6. S \in SUBSET (0 .. Len(g.text)) /\ S # {}
    BY <2>5 DEF GuardCuts
  <2>7. Max(S) \in S /\ \A k \in S : k <= Max(S)
    <3> HIDE DEF S
    <3> QED BY <2>4, <2>6, MaxIn
  <2>8. Max(S) \in {g.clean, cut} /\ cut <= Max(S) /\ Max(S) \in Nat /\ cut \in Nat
    <3> HIDE DEF cut
    <3> QED BY <2>4, <2>6, <2>7
  <2> HIDE DEF S, cut
  <2>9. GuardCuts(h)
    BY <2>2, <2>5, <2>8 DEF GuardCuts
  <2>10. NoCutMissed(h)
    <3>1. h.clean = 0 => cut = 0
      BY <2>2, <2>8
    <3> QED BY <2>2, <2>5, <3>1 DEF NoCutMissed
  <2> QED BY <2>3, <2>9, <2>10 DEF h
<1> QED BY <1>1, <1>2

LEMMA JudgedCounts ==
    ASSUME GuardIs, NEW s \in Streams, NEW chunk \in Seq(TextUnits)
    PROVE  /\ GuardCounts(Judged(s, chunk)) /\ GuardCuts(Judged(s, chunk))
           /\ NoCutMissed(Judged(s, chunk))
<1>1. GuardCounts(guards[s]) /\ GuardCuts(guards[s]) /\ NoCutMissed(guards[s])
  BY DEF GuardIs, GuardInv
<1>2. CASE chunk = <<>>
  BY <1>1, <1>2 DEF Judged
<1>3. CASE chunk # <<>>
  <2>1. Judged(s, chunk) = Marked(Fed(guards[s], chunk))
    BY <1>3 DEF Judged
  <2>2. GuardCounts(Fed(guards[s], chunk)) /\ GuardCuts(Fed(guards[s], chunk))
    BY <1>1, FedIs
  <2> QED BY <2>1, <2>2, MarkedIs
<1> QED BY <1>2, <1>3

LEMMA ChunksAre ==
    ASSUME NEW s \in Streams, NEW chunk \in Chunks(s)
    PROVE  chunk \in Seq(TextUnits)
<1>1. Said[s] \subseteq TextUnits
  BY StreamAssumption
<1> DEFINE next == {u \in Said[s] : u \in Words => u <= Fresh(guards[s].text)}
<1>2. chunk \in BoundedSeq(next, 2)
  BY DEF Chunks
<1>3. next \subseteq TextUnits
  BY <1>1
<1> HIDE DEF next
<1>4. PICK m \in 0 .. 2 : chunk \in [1 .. m -> next]
  BY <1>2 DEF BoundedSeq, SeqOf
<1>5. chunk \in [1 .. m -> TextUnits]
  BY <1>3, <1>4
<1> QED BY <1>5

LEMMA GuardStart == GuardInit => GuardIs
<1> SUFFICES ASSUME GuardInit PROVE GuardIs
  OBVIOUS
<1>1. guards = [s \in Streams |-> NewGuard]
  BY DEF GuardInit
<1>2. GuardCounts(NewGuard)
  <2>1. NewGuard.tokens = Tokens(NewGuard.text)
    BY TokensOfNone DEF NewGuard
  <2>2. Tell(NewGuard.tokens, NewGuard.grams)
    BY TellsNothing DEF NewGuard
  <2>3. NewGuard.text \in Seq(TextUnits)
    BY DEF NewGuard
  <2>4. DOMAIN NewGuard = GuardFields
    BY DEF NewGuard, GuardFields
  <2> QED BY <2>1, <2>2, <2>3, <2>4 DEF GuardCounts
<1>3. NewGuard.text = <<>> /\ Len(<<>>) = 0 /\ NewGuard.clean = 0
  BY DEF NewGuard
<1>4. GuardCuts(NewGuard) /\ NoCutMissed(NewGuard)
  BY <1>3, LimitsAre DEF GuardCuts, NoCutMissed, Early
<1> QED BY <1>1, <1>2, <1>4 DEF GuardIs, GuardInv

LEMMA GuardStep == GuardIs /\ GuardNext => GuardIs'
<1> SUFFICES ASSUME GuardIs, GuardNext PROVE GuardIs'
  OBVIOUS
<1>1. PICK r \in Chunks("reasoning") : \E c \in Chunks("content") : StreamChunk(r, c)
  BY DEF GuardNext
<1>2. PICK c \in Chunks("content") : StreamChunk(r, c)
  BY <1>1
<1>3. "reasoning" \in Streams /\ "content" \in Streams
  BY DEF Streams
<1>4. r \in Seq(TextUnits) /\ c \in Seq(TextUnits)
  BY <1>3, ChunksAre
<1> DEFINE jr == Judged("reasoning", r)
           jc == Judged("content", c)
<1>5. GuardCounts(jr) /\ GuardCuts(jr) /\ NoCutMissed(jr)
  BY <1>3, <1>4, JudgedCounts
<1>6. GuardCounts(jc) /\ GuardCuts(jc) /\ NoCutMissed(jc)
  BY <1>3, <1>4, JudgedCounts
<1>7. guards' = [guards EXCEPT !["reasoning"] = jr] \/ guards' = [reasoning |-> jr, content |-> jc]
  BY <1>2 DEF StreamChunk
<1> HIDE DEF jr, jc
<1>8. DOMAIN guards' = Streams
  BY <1>7 DEF GuardIs, Streams
<1>9. ASSUME NEW s \in Streams
      PROVE  GuardCounts(guards'[s]) /\ GuardCuts(guards'[s]) /\ NoCutMissed(guards'[s])
  <2>1. guards'[s] \in {guards[s], jr, jc}
    BY <1>7 DEF GuardIs, Streams
  <2> QED BY <1>5, <1>6, <2>1 DEF GuardIs, GuardInv
<1> QED BY <1>8, <1>9 DEF GuardIs, GuardInv

\* However a text is cut into chunks, the words the guard keeps and the counts it has
\* made of them are those of the whole text; and what it gives back of a text it stops
\* ends with a sentence that lies before the window in which the loop was seen.
THEOREM GuardCountsAndCuts == GuardSpec => [](CountsExact /\ CleanBeforeLoop)
<1>1. GuardIs /\ UNCHANGED guardVars => GuardIs'
  BY DEF guardVars, GuardIs, GuardInv
<1>2. GuardIs => CountsExact
  <2> SUFFICES ASSUME GuardIs, NEW s \in Streams PROVE
        LET tokens == Tokens(guards[s].text)
        IN  /\ guards[s].tokens = tokens
            /\ DOMAIN guards[s].grams = {Gram(tokens, i) : i \in 1 .. Len(tokens) - GramN + 1}
            /\ \A g \in DOMAIN guards[s].grams : guards[s].grams[g] = Occurrences(tokens, g)
    BY DEF CountsExact
  <2>1. guards[s].tokens = Tokens(guards[s].text) /\ Tell(guards[s].tokens, guards[s].grams)
    BY DEF GuardIs, GuardInv, GuardCounts
  <2> QED BY <2>1 DEF Tell, GramPlaces
<1>3. GuardIs => CleanBeforeLoop
  BY DEF GuardIs, GuardInv, GuardCuts, NoCutMissed, Early, CleanBeforeLoop
<1> QED BY <1>1, <1>2, <1>3, GuardStart, GuardStep, PTL DEF GuardSpec

----------------------------------------------------------------------------
(* Reading *)

Chars == Seq(Nat)
Outs == [BOOLEAN -> Chars]
States == [mode : BOOLEAN, held : Chars, out : Outs]

\* f[n] is what reading the first n characters of a text from v gives.
Readings(f, v, text) ==
    /\ f \in [0 .. Len(text) -> States]
    /\ f[0] = v
    /\ \A i \in 1 .. Len(text) : f[i] = Read(f[i - 1], text[i])

LEMMA TagIs ==
    ASSUME NEW m \in BOOLEAN
    PROVE  /\ Tag(m) \in Tags /\ Tag(m) \in Chars
           /\ Len(Tag(m)) \in Nat /\ Len(Tag(m)) > 0
<1>1. Tag(m) \in Tags
  BY DEF Tag, Tags
<1>2. Tag(m) \in Chars /\ Tag(m) # <<>>
  BY <1>1, TagAssumption DEF Chars
<1>3. Len(Tag(m)) \in Nat /\ Len(Tag(m)) > 0
  BY <1>2, EmptySeq DEF Chars
<1> QED BY <1>1, <1>2, <1>3

LEMMA PrefixIs ==
    ASSUME NEW s \in Chars, NEW t \in Chars
    PROVE  IsPrefix(s, t) <=> Len(s) <= Len(t) /\ \A i \in 1 .. Len(s) : s[i] = t[i]
<1>1. Len(s) \in Nat /\ Len(t) \in Nat
  BY DEF Chars
<1> SUFFICES ASSUME Len(s) <= Len(t)
             PROVE  SubSeq(s, 1, Len(s)) = SubSeq(t, 1, Len(s)) <=> \A i \in 1 .. Len(s) : s[i] = t[i]
  BY DEF IsPrefix
<1> DEFINE a == SubSeq(s, 1, Len(s))
           b == SubSeq(t, 1, Len(s))
<1>2. a \in Chars /\ Len(a) = Len(s) /\ \A i \in 1 .. Len(s) : a[i] = s[i]
  BY <1>1 DEF Chars
<1>3. b \in Chars /\ Len(b) = Len(s) /\ \A i \in 1 .. Len(s) : b[i] = t[i]
  BY <1>1 DEF Chars
<1> HIDE DEF a, b
<1>4. a = b => \A i \in 1 .. Len(s) : s[i] = t[i]
  BY <1>2, <1>3
<1>5. (\A i \in 1 .. Len(s) : s[i] = t[i]) => a = b
  <2> SUFFICES ASSUME \A i \in 1 .. Len(s) : s[i] = t[i] PROVE a = b
    OBVIOUS
  <2>1. \A i \in 1 .. Len(a) : a[i] = b[i]
    BY <1>2, <1>3
  <2> QED BY <1>2, <1>3, <2>1, SeqEqual DEF Chars
<1> QED BY <1>4, <1>5 DEF a, b

\* The four things a character can be.
Whole(r, c) == Append(r.held, c) = Tag(r.mode)
Grows(r, c) == Holds(Append(r.held, c), Tag(r.mode))
Again(r, c) == Holds(<<c>>, Tag(r.mode))
With(out, m, text) == [out EXCEPT ![m] = @ \o text]

LEMMA WithIs ==
    ASSUME NEW out \in Outs, NEW m \in BOOLEAN, NEW text \in Chars
    PROVE  /\ With(out, m, text) \in Outs
           /\ With(out, m, text)[m] = out[m] \o text
           /\ With(out, m, text)[~m] = out[~m]
<1>1. out[m] \in Chars
  BY DEF Outs
<1>2. out[m] \o text \in Chars
  BY <1>1, ConcatProperties, Zenon DEF Chars
<1> QED BY <1>2 DEF With, Outs

LEMMA ReadIs ==
    ASSUME NEW r \in States, NEW c \in Nat
    PROVE  /\ Read(r, c) \in States
           /\ Whole(r, c) => Read(r, c) = [mode |-> ~r.mode, held |-> <<>>, out |-> r.out]
           /\ ~Whole(r, c) /\ Grows(r, c) =>
                 Read(r, c) = [mode |-> r.mode, held |-> Append(r.held, c), out |-> r.out]
           /\ ~Whole(r, c) /\ ~Grows(r, c) /\ Again(r, c) =>
                 Read(r, c) = [mode |-> r.mode, held |-> <<c>>, out |-> With(r.out, r.mode, r.held)]
           /\ ~Whole(r, c) /\ ~Grows(r, c) /\ ~Again(r, c) =>
                 Read(r, c) = [mode |-> r.mode, held |-> <<>>,
                               out |-> With(r.out, r.mode, Append(r.held, c))]
<1> DEFINE held == Append(r.held, c)
<1>1. r.mode \in BOOLEAN /\ r.held \in Chars /\ r.out \in Outs
  BY DEF States
<1>2. held \in Chars /\ <<c>> \in Chars /\ <<>> \in Chars
  BY <1>1 DEF Chars
<1>3. r = [mode |-> r.mode, held |-> r.held, out |-> r.out]
  BY DEF States
<1> HIDE DEF held
<1>4. Whole(r, c) => Read(r, c) = [mode |-> ~r.mode, held |-> <<>>, out |-> r.out]
  BY <1>3 DEF Read, Whole
<1>5. ~Whole(r, c) /\ Grows(r, c) => Read(r, c) = [mode |-> r.mode, held |-> held, out |-> r.out]
  BY <1>3 DEF Read, Whole, Grows, held
<1>6. ~Whole(r, c) /\ ~Grows(r, c) /\ Again(r, c) =>
          Read(r, c) = [mode |-> r.mode, held |-> <<c>>, out |-> With(r.out, r.mode, r.held)]
  BY <1>3 DEF Read, Whole, Grows, Again, With
<1>7. ~Whole(r, c) /\ ~Grows(r, c) /\ ~Again(r, c) =>
          Read(r, c) = [mode |-> r.mode, held |-> <<>>, out |-> With(r.out, r.mode, held)]
  BY <1>3 DEF Read, Whole, Grows, Again, With, held
<1>8. With(r.out, r.mode, r.held) \in Outs /\ With(r.out, r.mode, held) \in Outs
  BY <1>1, <1>2, WithIs
<1>9. Read(r, c) \in States
  <2>1. CASE Whole(r, c)
    <3>1. (~r.mode) \in BOOLEAN
      BY <1>1
    <3>2. [mode |-> ~r.mode, held |-> <<>>, out |-> r.out] \in States
      BY <1>1, <1>2, <3>1, Zenon DEF States
    <3> QED BY <1>4, <2>1, <3>2, Zenon
  <2>2. CASE ~Whole(r, c) /\ Grows(r, c)
    BY <1>1, <1>2, <1>5, <2>2 DEF States
  <2>3. CASE ~Whole(r, c) /\ ~Grows(r, c) /\ Again(r, c)
    BY <1>1, <1>2, <1>6, <1>8, <2>3 DEF States
  <2>4. CASE ~Whole(r, c) /\ ~Grows(r, c) /\ ~Again(r, c)
    BY <1>1, <1>2, <1>7, <1>8, <2>4 DEF States
  <2> QED BY <2>1, <2>2, <2>3, <2>4
<1> QED BY <1>4, <1>5, <1>6, <1>7, <1>9 DEF held

LEMMA ReadingsExist ==
    ASSUME NEW text \in Chars, NEW v \in States
    PROVE  \E f : Readings(f, v, text)
<1> DEFINE n == Len(text)
           step == [p \in (1 .. n) \X States |-> Read(p[2], text[p[1]])]
<1>1. n \in Nat
  BY DEF Chars
<1>2. \A i \in 1 .. n : text[i] \in Nat
  BY DEF Chars
<1>3. step \in [(1 .. n) \X States -> States]
  <2>1. \A i \in 1 .. n, r \in States : Read(r, text[i]) \in States
    BY <1>2, ReadIs
  <2> HIDE DEF n
  <2> QED BY <2>1
<1> HIDE DEF n
<1>4. PICK f : Runs(f, n, States, v, step)
  <2> HIDE DEF step
  <2>1. Steps(n, States, v, step)
    BY <1>1, <1>3 DEF Steps
  <2> QED BY <2>1, StepByStep, Zenon
<1>5. ASSUME NEW i \in 1 .. n
      PROVE  f[i] = Read(f[i - 1], text[i])
  <2>1. i - 1 \in 0 .. n
    BY <1>1
  <2>2. f \in [0 .. n -> States]
    BY <1>4, Zenon DEF Runs
  <2>3. f[i - 1] \in States
    BY <2>1, <2>2, Zenon
  <2>4. step[<<i, f[i - 1]>>] = Read(f[i - 1], text[i])
    BY <2>3
  <2>5. f[i] = step[<<i, f[i - 1]>>]
    <3> HIDE DEF step
    <3> QED BY <1>4, Zenon DEF Runs
  <2> QED BY <2>4, <2>5, Zenon
<1> QED BY <1>4, <1>5, Zenon DEF Readings, Runs, n

LEMMA ReferenceIs ==
    ASSUME NEW text \in Chars
    PROVE  \E f : Readings(f, Start, text) /\ Reference(text) = f[Len(text)]
<1> DEFINE n == Len(text)
           R(f) == f = [i \in 0 .. n |-> IF i = 0 THEN Start ELSE Read(f[i - 1], text[i])]
           reads == CHOOSE f : R(f)
<1>1. n \in Nat
  BY DEF Chars
<1>2. Start \in States
  BY DEF Start, States, Outs, Chars
<1>3. PICK f : Readings(f, Start, text)
  BY <1>2, ReadingsExist
<1>4. R(f)
  <2> DEFINE h == [i \in 0 .. n |-> IF i = 0 THEN Start ELSE Read(f[i - 1], text[i])]
  <2>1. f \in [0 .. n -> States]
    BY <1>3, Zenon DEF Readings
  <2>2. \A i \in 0 .. n : f[i] = h[i]
    BY <1>1, <1>3 DEF Readings
  <2>3. f = [i \in 0 .. n |-> f[i]]
    BY <2>1
  <2>4. f = h
    <3> HIDE DEF n
    <3> QED BY <2>2, <2>3
  <2> QED BY <2>4, Zenon
<1>5. R(reads)
  <2> HIDE DEF R
  <2> QED BY <1>4, Zenon
<1>6. \A i \in 0 .. n : reads[i] = IF i = 0 THEN Start ELSE Read(reads[i - 1], text[i])
  <2> HIDE DEF reads, n
  <2> QED BY <1>5
<1> HIDE DEF R, reads, n
<1> DEFINE S == {i \in 0 .. n : reads[i] = f[i]}
<1>7. 0 \in S
  <2>1. 0 \in 0 .. n
    BY <1>1
  <2>2. reads[0] = Start
    BY <1>6, <2>1, Zenon
  <2>3. f[0] = Start
    BY <1>3, Zenon DEF Readings
  <2> QED BY <2>1, <2>2, <2>3
<1>8. ASSUME NEW i \in 0 .. n - 1, i \in S
      PROVE  i + 1 \in S
  <2>1. i + 1 \in 1 .. n /\ i + 1 \in 0 .. n /\ (i + 1) - 1 = i /\ i + 1 # 0
    BY <1>1
  <2>2. reads[i + 1] = Read(reads[i], text[i + 1])
    BY <1>6, <2>1
  <2>3. f[i + 1] = Read(f[i], text[i + 1])
    BY <1>3, <2>1 DEF Readings, n
  <2>4. reads[i] = f[i]
    BY <1>8
  <2> QED BY <2>1, <2>2, <2>3, <2>4
<1>9. \A i \in 0 .. n : i \in S
  <2> HIDE DEF S
  <2> QED BY <1>1, <1>7, <1>8, UpTo
<1>10. reads[n] = f[n]
  BY <1>1, <1>9
<1>11. Reference(text) = reads[n]
  BY DEF Reference, reads, R, n
<1> QED BY <1>3, <1>10, <1>11 DEF n

----------------------------------------------------------------------------
(* A stretch of a text that is read in one mode *)

\* The tag t lies in buf from i on; its first l characters end what is read up to j.
Occurs(buf, t, i) == i + Len(t) - 1 <= Len(buf) /\ \A k \in 1 .. Len(t) : buf[i + k - 1] = t[k]
Begun(buf, t, at, j, l) ==
    l \in 1 .. Len(t) - 1 /\ l <= j - at + 1 /\ \A k \in 1 .. l : buf[j - l + k] = t[k]

\* From at to j all has been read in mode m, and what has begun the tag is held.
Segment(buf, m, at, out, j, r) ==
    LET t == Tag(m)
        h == Len(r.held)
    IN  /\ r.mode = m
        /\ h < Len(t) /\ h <= j - at + 1
        /\ \A k \in 1 .. h : r.held[k] = t[k] /\ buf[j - h + k] = t[k]
        /\ \A l \in Nat : Begun(buf, t, at, j, l) => l = h
        /\ r.out = With(out, m, SubSeq(buf, at, j - h))

LEMMA WithNothing ==
    ASSUME NEW out \in Outs, NEW m \in BOOLEAN
    PROVE  With(out, m, <<>>) = out
<1>1. out[m] \in Chars
  BY DEF Outs
<1>2. out[m] \o <<>> = out[m]
  BY <1>1, ConcatEmptySeq DEF Chars
<1>3. With(out, m, <<>>) = [out EXCEPT ![m] = out[m]]
  BY <1>2, Zenon DEF With
<1> QED BY <1>3 DEF Outs

LEMMA ThreeTexts ==
    ASSUME NEW a \in Chars, NEW b \in Chars, NEW c \in Chars
    PROVE  (a \o b) \o c = a \o (b \o c)
BY ConcatAssociative, SMTT(30) DEF Chars

LEMMA WithTwice ==
    ASSUME NEW out \in Outs, NEW m \in BOOLEAN, NEW a \in Chars, NEW b \in Chars
    PROVE  With(With(out, m, a), m, b) = With(out, m, a \o b)
<1> DEFINE w == With(out, m, a)
           x == out[m]
<1>1. w \in Outs /\ w[m] = out[m] \o a /\ w[~m] = out[~m]
  BY WithIs
<1>2. (x \o a) \o b = x \o (a \o b)
  <2>1. x \in Chars
    BY DEF Outs
  <2> HIDE DEF x
  <2> QED BY <2>1, ThreeTexts, Zenon
<1>3. w = [out EXCEPT ![m] = x \o a]
  BY DEF With
<1> HIDE DEF w
<1>4. With(w, m, b) = [w EXCEPT ![m] = w[m] \o b]
  BY DEF With
<1>5. With(w, m, b) = [w EXCEPT ![m] = x \o (a \o b)]
  BY <1>1, <1>2, <1>4, Zenon
<1>6. With(out, m, a \o b) = [out EXCEPT ![m] = x \o (a \o b)]
  BY DEF With
<1> HIDE DEF x
<1>7. With(w, m, b) = With(out, m, a \o b)
  BY <1>3, <1>5, <1>6 DEF Outs
<1> QED BY <1>7 DEF w

LEMMA OneMore ==
    ASSUME NEW s \in Chars, NEW c \in Nat
    PROVE  /\ Append(s, c) \in Chars /\ Len(Append(s, c)) = Len(s) + 1
           /\ \A k \in 1 .. Len(s) : Append(s, c)[k] = s[k]
           /\ Append(s, c)[Len(s) + 1] = c
BY AppendProperties DEF Chars

\* A part of a text.
LEMMA PartIs ==
    ASSUME NEW s \in Chars, NEW a \in Nat \ {0}, NEW b \in Nat, a <= b + 1, b <= Len(s)
    PROVE  /\ SubSeq(s, a, b) \in Chars
           /\ Len(SubSeq(s, a, b)) = b - a + 1
           /\ \A i \in 1 .. b - a + 1 : SubSeq(s, a, b)[i] = s[a + i - 1]
<1>1. Len(s) \in Nat /\ \A i \in 1 .. Len(s) : s[i] \in Nat
  BY DEF Chars
<1>2. \A i \in a .. b : s[i] \in Nat
  BY <1>1
<1>3. SubSeq(s, a, b) \in Seq(Nat)
  BY <1>2
<1>4. Len(SubSeq(s, a, b)) = b - a + 1
  OBVIOUS
<1>5. \A i \in 1 .. b - a + 1 : SubSeq(s, a, b)[i] = s[a + i - 1]
  BY <1>2
<1> QED BY <1>3, <1>4, <1>5 DEF Chars

LEMMA BeginIs ==
    ASSUME NEW s \in Chars, NEW n \in Nat, n <= Len(s)
    PROVE  /\ SubSeq(s, 1, n) \in Chars /\ Len(SubSeq(s, 1, n)) = n
           /\ \A i \in 1 .. n : SubSeq(s, 1, n)[i] = s[i]
<1> DEFINE b == SubSeq(s, 1, n)
<1>1. b \in Chars /\ Len(b) = n - 1 + 1 /\ \A i \in 1 .. n - 1 + 1 : b[i] = s[1 + i - 1]
  <2>1. 1 \in Nat \ {0} /\ 1 <= n + 1
    OBVIOUS
  <2> QED BY <2>1, PartIs, Zenon
<1> HIDE DEF b
<1>2. b \in Chars /\ Len(b) = n /\ \A i \in 1 .. n : b[i] = s[i]
  BY <1>1
<1> QED BY <1>2 DEF b

\* What is held is the end of what was read.
LEMMA HeldIs ==
    ASSUME NEW buf \in Chars, NEW m \in BOOLEAN, NEW at \in Nat \ {0}, NEW j \in Nat,
           at - 1 <= j, j <= Len(buf), NEW out, NEW r \in States, Segment(buf, m, at, out, j, r)
    PROVE  /\ Len(r.held) \in Nat /\ r.held \in Chars
           /\ r.held = SubSeq(buf, j - Len(r.held) + 1, j)
<1> DEFINE h == Len(r.held)
           part == SubSeq(buf, j - h + 1, j)
<1>1. r.held \in Chars /\ h \in Nat
  BY DEF States, Chars
<1>2. h <= j - at + 1 /\ \A k \in 1 .. h : r.held[k] = Tag(m)[k] /\ buf[j - h + k] = Tag(m)[k]
  BY DEF Segment
<1> HIDE DEF h
<1>3. /\ j - h + 1 \in Nat \ {0}
      /\ j - h + 1 <= j + 1
      /\ j - (j - h + 1) + 1 = h
      /\ \A k \in 1 .. h : (j - h + 1) + k - 1 = j - h + k
  BY <1>1, <1>2
<1>4. part \in Chars /\ Len(part) = h /\ \A k \in 1 .. h : part[k] = buf[j - h + k]
  <2> DEFINE a == j - h + 1
  <2>1. /\ part \in Chars /\ Len(part) = j - a + 1
        /\ \A k \in 1 .. j - a + 1 : part[k] = buf[a + k - 1]
    BY <1>3, PartIs, SMTT(30)
  <2> HIDE DEF part
  <2> QED BY <1>3, <2>1
<1>5. \A i \in 1 .. h : r.held[i] = part[i]
  <2> HIDE DEF part
  <2> QED BY <1>2, <1>4
<1>6. r.held = part
  <2> HIDE DEF part
  <2>1. Len(r.held) = h
    BY DEF h
  <2> QED BY <1>1, <1>4, <1>5, <2>1, SeqEqual DEF Chars
<1> QED BY <1>1, <1>6 DEF h

\* A tag is complete just when it lies in the text.
LEMMA WholeIs ==
    ASSUME NEW buf \in Chars, NEW m \in BOOLEAN, NEW at \in Nat \ {0}, NEW j \in Nat,
           at - 1 <= j, j < Len(buf), NEW out, NEW r \in States, Segment(buf, m, at, out, j, r)
    PROVE  LET i == j + 2 - Len(Tag(m))
           IN  Whole(r, buf[j + 1]) <=> i >= at /\ Occurs(buf, Tag(m), i)
<1> DEFINE t == Tag(m)
           h == Len(r.held)
           c == buf[j + 1]
           i == j + 2 - Len(t)
           more == Append(r.held, c)
<1>1. t \in Chars /\ Len(t) \in Nat /\ Len(t) > 0
  BY TagIs
<1>2. /\ r.mode = m
      /\ h < Len(t) /\ h <= j - at + 1
      /\ \A k \in 1 .. h : r.held[k] = t[k] /\ buf[j - h + k] = t[k]
      /\ \A l \in Nat : Begun(buf, t, at, j, l) => l = h
  BY DEF Segment
<1>3. Len(buf) \in Nat /\ c \in Nat /\ r.held \in Chars /\ h \in Nat
  BY DEF Chars, States
<1>4. /\ more \in Chars /\ Len(more) = h + 1
      /\ \A k \in 1 .. h : more[k] = r.held[k]
      /\ more[h + 1] = c
  BY <1>3, OneMore, Zenon
<1> HIDE DEF t, h, more
<1>5. ASSUME more = t
      PROVE  i >= at /\ Occurs(buf, t, i)
  <2>1. Len(t) = h + 1
    BY <1>4, <1>5
  <2>2. i >= at /\ i + Len(t) - 1 <= Len(buf)
    BY <1>1, <1>2, <1>3, <2>1
  <2>3. ASSUME NEW k \in 1 .. Len(t)
        PROVE  buf[i + k - 1] = t[k]
    <3>1. CASE k \in 1 .. h
      <4>1. i + k - 1 = j - h + k
        BY <1>1, <1>3, <2>1, <3>1
      <4> QED BY <1>2, <3>1, <4>1
    <3>2. CASE k = h + 1
      <4>1. i + k - 1 = j + 1
        BY <1>1, <1>3, <2>1, <3>2
      <4> QED BY <1>4, <1>5, <3>2, <4>1
    <3> QED BY <1>3, <2>1, <3>1, <3>2
  <2> QED BY <2>2, <2>3 DEF Occurs
<1>6. ASSUME i >= at, Occurs(buf, t, i)
      PROVE  more = t
  <2>1. \A k \in 1 .. Len(t) : buf[i + k - 1] = t[k]
    BY <1>6 DEF Occurs
  <2>2. h = Len(t) - 1
    <3>1. CASE Len(t) = 1
      BY <1>2, <1>3, <3>1
    <3>2. CASE Len(t) > 1
      <4> DEFINE l == Len(t) - 1
      <4>1. l \in Nat /\ l \in 1 .. Len(t) - 1 /\ l <= j - at + 1
        BY <1>1, <1>6, <3>2
      <4>2. ASSUME NEW k \in 1 .. l
            PROVE  buf[j - l + k] = t[k]
        <5>1. k \in 1 .. Len(t) /\ i + k - 1 = j - l + k
          BY <1>1
        <5> QED BY <2>1, <5>1
      <4>3. Begun(buf, t, at, j, l)
        BY <4>1, <4>2 DEF Begun
      <4> QED BY <1>2, <4>1, <4>3
    <3>3. ~(Len(t) > 1) => Len(t) = 1
      <4> DEFINE n == Len(t)
      <4>1. n \in Nat /\ n > 0
        BY <1>1
      <4> HIDE DEF n
      <4>2. ~(n > 1) => n = 1
        BY <4>1
      <4> QED BY <4>2 DEF n
    <3> QED BY <3>1, <3>2, <3>3
  <2>3. \A k \in 1 .. Len(more) : more[k] = t[k]
    <3> SUFFICES ASSUME NEW k \in 1 .. h + 1 PROVE more[k] = t[k]
      BY <1>4
    <3>1. CASE k \in 1 .. h
      BY <1>2, <1>4, <3>1
    <3>2. CASE k = h + 1
      <4>1. k \in 1 .. Len(t) /\ i + k - 1 = j + 1
        BY <1>1, <1>3, <2>2, <3>2
      <4> QED BY <1>4, <2>1, <3>2, <4>1
    <3> QED BY <1>3, <3>1, <3>2
  <2>4. Len(more) = Len(t)
    BY <1>1, <1>4, <2>2
  <2> QED BY <1>1, <1>4, <2>3, <2>4, SeqEqual DEF Chars
<1>7. Whole(r, c) <=> more = t
  BY <1>2 DEF Whole, more, t
<1> QED BY <1>5, <1>6, <1>7 DEF t

LEMMA SegmentStart ==
    ASSUME NEW buf \in Chars, NEW at \in Nat \ {0}, at <= Len(buf) + 1,
           NEW r \in States, r.held = <<>>
    PROVE  Segment(buf, r.mode, at, r.out, at - 1, r)
<1>1. r.mode \in BOOLEAN /\ r.out \in Outs /\ Len(r.held) = 0
  BY DEF States
<1>2. Len(Tag(r.mode)) \in Nat /\ Len(Tag(r.mode)) > 0
  BY <1>1, TagIs
<1>3. SubSeq(buf, at, (at - 1) - Len(r.held)) = <<>>
  <2>1. (at - 1) - 0 < at
    OBVIOUS
  <2> QED BY <1>1, <2>1, SubSeqEmpty
<1>4. r.out = With(r.out, r.mode, SubSeq(buf, at, (at - 1) - Len(r.held)))
  BY <1>1, <1>3, WithNothing
<1>5. \A l \in Nat : ~Begun(buf, Tag(r.mode), at, at - 1, l)
  BY DEF Begun
<1> QED BY <1>1, <1>2, <1>4, <1>5 DEF Segment

\* What begins the tag after one character more began it before, or begins now.
LEMMA BegunBefore ==
    ASSUME NEW buf, NEW t, Len(t) \in Nat, NEW at \in Nat, NEW j \in Nat, at - 1 <= j, NEW l \in Nat,
           Begun(buf, t, at, j + 1, l)
    PROVE  buf[j + 1] = t[l] /\ (l = 1 \/ Begun(buf, t, at, j, l - 1))
<1>1. l \in 1 .. Len(t) - 1 /\ l <= (j + 1) - at + 1 /\ \A k \in 1 .. l : buf[(j + 1) - l + k] = t[k]
  BY DEF Begun
<1>2. buf[j + 1] = t[l]
  <2>1. l \in 1 .. l /\ (j + 1) - l + l = j + 1
    BY <1>1
  <2> QED BY <1>1, <2>1
<1>3. ASSUME l # 1
      PROVE  Begun(buf, t, at, j, l - 1)
  <2>1. l - 1 \in 1 .. Len(t) - 1 /\ l - 1 <= j - at + 1
    BY <1>1, <1>3
  <2>2. ASSUME NEW k \in 1 .. l - 1
        PROVE  buf[j - (l - 1) + k] = t[k]
    <3>1. k \in 1 .. l /\ j - (l - 1) + k = (j + 1) - l + k
      BY <1>1
    <3> QED BY <1>1, <3>1
  <2> QED BY <2>1, <2>2 DEF Begun
<1> QED BY <1>2, <1>3

LEMMA SegmentStep ==
    ASSUME NEW buf \in Chars, NEW m \in BOOLEAN, NEW at \in Nat \ {0}, NEW j \in Nat,
           at - 1 <= j, j < Len(buf), NEW out \in Outs, NEW r \in States,
           Segment(buf, m, at, out, j, r), ~Whole(r, buf[j + 1])
    PROVE  Segment(buf, m, at, out, j + 1, Read(r, buf[j + 1]))
<1> DEFINE t == Tag(m)
           h == Len(r.held)
           c == buf[j + 1]
           more == Append(r.held, c)
           q == Read(r, c)
           done == SubSeq(buf, at, j - h)
<1>1. t \in Tags /\ t \in Chars /\ Len(t) \in Nat /\ Len(t) > 0
  BY TagIs
<1>2. /\ r.mode = m
      /\ h < Len(t) /\ h <= j - at + 1
      /\ \A k \in 1 .. h : r.held[k] = t[k] /\ buf[j - h + k] = t[k]
      /\ \A l \in Nat : Begun(buf, t, at, j, l) => l = h
      /\ r.out = With(out, m, done)
  BY DEF Segment
<1>3. Len(buf) \in Nat /\ c \in Nat /\ r.held \in Chars /\ h \in Nat
  BY DEF Chars, States
<1>4. /\ more \in Chars /\ Len(more) = h + 1
      /\ \A k \in 1 .. h : more[k] = r.held[k]
      /\ more[h + 1] = c
  BY <1>3, OneMore, Zenon
<1>5. r.held = SubSeq(buf, j - h + 1, j)
  <2>1. j <= Len(buf)
    BY <1>3
  <2> QED BY <2>1, HeldIs, ZenonT(60)
<1>6. <<c>> \in Chars /\ Len(<<c>>) = 1 /\ <<c>>[1] = c
  BY <1>3 DEF Chars
<1>7. \A i \in 2 .. Len(t) : t[i] # t[1]
  BY <1>1, TagAssumption
<1>8. /\ Read(r, c) \in States
      /\ Grows(r, c) => q = [mode |-> m, held |-> more, out |-> r.out]
      /\ ~Grows(r, c) /\ Again(r, c) => q = [mode |-> m, held |-> <<c>>, out |-> With(r.out, m, r.held)]
      /\ ~Grows(r, c) /\ ~Again(r, c) => q = [mode |-> m, held |-> <<>>, out |-> With(r.out, m, more)]
  BY <1>2, <1>3, ReadIs
<1> HIDE DEF h, c, more, q, done
<1>9. Again(r, c) <=> Len(t) > 1 /\ c = t[1]
  <2>1. IsPrefix(<<c>>, t) <=> 1 <= Len(t) /\ \A i \in 1 .. 1 : <<c>>[i] = t[i]
    BY <1>1, <1>6, PrefixIs
  <2>2. IsPrefix(<<c>>, t) <=> c = t[1]
    BY <1>1, <1>6, <2>1
  <2>3. <<c>> = t <=> Len(t) = 1 /\ c = t[1]
    <3>1. ASSUME Len(t) = 1, c = t[1]
          PROVE  <<c>> = t
      <4>1. \A i \in 1 .. 1 : <<c>>[i] = t[i]
        BY <1>6, <3>1
      <4> HIDE DEF t
      <4> QED BY <1>1, <1>6, <3>1, <4>1, SeqEqual DEF Chars
    <3>2. <<c>> = t => Len(t) = 1 /\ c = t[1]
      BY <1>6, Zenon
    <3> QED BY <3>1, <3>2
  <2>4. Again(r, c) <=> IsPrefix(<<c>>, t) /\ <<c>> # t
    BY <1>2 DEF Again, Holds, IsStrictPrefix
  <2> HIDE DEF t
  <2>5. Len(t) > 1 <=> ~(Len(t) = 1)
    <3> DEFINE n == Len(t)
    <3>1. n \in Nat /\ n > 0
      BY <1>1
    <3> HIDE DEF n
    <3>2. n > 1 <=> ~(n = 1)
      BY <3>1
    <3> QED BY <3>2 DEF n
  <2> QED BY <2>2, <2>3, <2>4, <2>5, Zenon
<1>10. IsPrefix(more, t) <=> c = t[h + 1]
  <2>1. IsPrefix(more, t) <=> Len(more) <= Len(t) /\ \A i \in 1 .. Len(more) : more[i] = t[i]
    BY <1>1, <1>4, PrefixIs
  <2>2. ASSUME c = t[h + 1]
        PROVE  \A i \in 1 .. h + 1 : more[i] = t[i]
    <3> SUFFICES ASSUME NEW i \in 1 .. h + 1 PROVE more[i] = t[i]
      OBVIOUS
    <3>1. CASE i \in 1 .. h
      BY <1>2, <1>4, <3>1
    <3>2. CASE i = h + 1
      BY <1>4, <2>2, <3>2
    <3> QED BY <1>3, <3>1, <3>2
  <2>3. h + 1 \in 1 .. h + 1 /\ h + 1 <= Len(t)
    BY <1>1, <1>2, <1>3
  <2> QED BY <1>4, <2>1, <2>2, <2>3
<1>11. Grows(r, c) <=> IsPrefix(more, t)
  <2>1. more # t
    BY <1>2 DEF Whole, more, c
  <2> QED BY <1>2, <2>1 DEF Grows, Holds, IsStrictPrefix, more
<1>12. \A l \in Nat : Begun(buf, t, at, j + 1, l) =>
           /\ l \in 1 .. Len(t) - 1 /\ c = t[l]
           /\ l # 1 => l = h + 1
  <2> SUFFICES ASSUME NEW l \in Nat, Begun(buf, t, at, j + 1, l)
               PROVE  l \in 1 .. Len(t) - 1 /\ c = t[l] /\ (l # 1 => l = h + 1)
    OBVIOUS
  <2>1. l \in 1 .. Len(t) - 1
    BY DEF Begun
  <2> HIDE DEF t
  <2>2. c = t[l] /\ (l = 1 \/ Begun(buf, t, at, j, l - 1))
    BY <1>1, BegunBefore DEF c
  <2>3. l # 1 => l = h + 1
    <3> SUFFICES ASSUME l # 1 PROVE l = h + 1
      OBVIOUS
    <3>1. l - 1 \in Nat
      BY <2>1
    <3>2. l - 1 = h
      BY <1>2, <2>2, <3>1
    <3> QED BY <1>3, <3>2
  <2> QED BY <2>1, <2>2, <2>3
<1>13. done \in Chars
  <2>1. j - h \in Nat /\ at <= (j - h) + 1 /\ j - h <= Len(buf)
    BY <1>2, <1>3
  <2> QED BY <2>1, PartIs DEF done
<1>14. CASE Grows(r, c)
  <2>1. q.mode = m /\ q.held = more /\ q.out = r.out /\ Len(q.held) = h + 1
    BY <1>4, <1>8, <1>14
  <2>2. h + 1 < Len(t)
    <3>1. more # t
      BY <1>2 DEF Whole, more, c
    <3>2. IsPrefix(more, t)
      BY <1>11, <1>14
    <3>3. Len(more) <= Len(t) /\ \A i \in 1 .. Len(more) : more[i] = t[i]
      BY <1>1, <1>4, <3>2, PrefixIs
    <3>4. Len(more) # Len(t)
      <4> HIDE DEF t
      <4> QED BY <1>1, <1>4, <3>1, <3>3, SeqEqual DEF Chars
    <3> HIDE DEF t
    <3> QED BY <1>1, <1>3, <1>4, <3>3, <3>4
  <2>3. c = t[h + 1]
    BY <1>10, <1>11, <1>14
  <2> HIDE DEF t
  <2>4. ASSUME NEW k \in 1 .. h + 1
        PROVE  more[k] = t[k] /\ buf[(j + 1) - (h + 1) + k] = t[k]
    <3>1. CASE k \in 1 .. h
      <4>1. (j + 1) - (h + 1) + k = j - h + k
        BY <1>3
      <4> QED BY <1>2, <1>4, <3>1, <4>1
    <3>2. CASE k = h + 1
      <4>1. (j + 1) - (h + 1) + k = j + 1
        BY <1>3, <3>2
      <4> QED BY <1>4, <2>3, <3>2, <4>1 DEF c
    <3> QED BY <1>3, <3>1, <3>2
  <2>5. ASSUME NEW l \in Nat, Begun(buf, t, at, j + 1, l)
        PROVE  l = h + 1
    <3>1. l # 1 => l = h + 1
      BY <1>12, <2>5
    <3>2. CASE l = 1
      <4>1. c = t[1]
        BY <1>12, <2>5, <3>2
      <4>2. h + 1 \notin 2 .. Len(t)
        BY <1>7, <2>3, <4>1
      <4> QED BY <1>1, <1>3, <2>2, <3>2, <4>2
    <3> QED BY <3>1, <3>2
  <2>6. (j + 1) - (h + 1) = j - h /\ h + 1 <= (j + 1) - at + 1
    BY <1>2, <1>3
  <2>7. q.out = With(out, m, SubSeq(buf, at, (j + 1) - (h + 1)))
    BY <1>2, <2>1, <2>6 DEF done
  <2> HIDE DEF Grows
  <2> QED BY <2>1, <2>2, <2>4, <2>5, <2>6, <2>7 DEF Segment, q, t, c
<1>15. CASE ~Grows(r, c) /\ Again(r, c)
  <2>1. q.mode = m /\ q.held = <<c>> /\ q.out = With(r.out, m, r.held) /\ Len(q.held) = 1
    BY <1>6, <1>8, <1>15
  <2>2. Len(t) > 1 /\ c = t[1]
    BY <1>9, <1>15
  <2>3. ASSUME NEW k \in 1 .. 1
        PROVE  <<c>>[k] = t[k] /\ buf[(j + 1) - 1 + k] = t[k]
    <3>1. k = 1 /\ (j + 1) - 1 + k = j + 1
      OBVIOUS
    <3> QED BY <1>6, <2>2, <3>1 DEF c
  <2>4. ASSUME NEW l \in Nat, Begun(buf, t, at, j + 1, l)
        PROVE  l = 1
    <3>1. l # 1 => l = h + 1 /\ c = t[h + 1]
      BY <1>12, <2>4
    <3> QED BY <1>10, <1>11, <1>15, <3>1
  <2>5. q.out = With(out, m, SubSeq(buf, at, (j + 1) - 1))
    <3>1. q.out = With(out, m, done \o r.held)
      BY <1>2, <1>3, <1>13, <2>1, WithTwice
    <3>2. done \o r.held = SubSeq(buf, at, j)
      <4>1. at \in 1 .. Len(buf) + 1 /\ j - h \in (at - 1) .. Len(buf) /\ j \in (j - h) .. Len(buf)
        BY <1>2, <1>3
      <4>2. buf \in Seq(Nat)
        BY DEF Chars
      <4>3. SubSeq(buf, at, j - h) \o SubSeq(buf, (j - h) + 1, j) = SubSeq(buf, at, j)
        BY <4>1, <4>2, ConcatAdjacentSubSeq, Zenon
      <4> QED BY <1>5, <4>3 DEF done
    <3>3. (j + 1) - 1 = j
      OBVIOUS
    <3> QED BY <3>1, <3>2, <3>3
  <2>6. 1 <= (j + 1) - at + 1
    OBVIOUS
  <2> HIDE DEF t, Grows, Again
  <2> QED BY <2>1, <2>2, <2>3, <2>4, <2>5, <2>6 DEF Segment, q, t, c
<1>16. CASE ~Grows(r, c) /\ ~Again(r, c)
  <2>1. q.mode = m /\ q.held = <<>> /\ q.out = With(r.out, m, more) /\ Len(q.held) = 0
    BY <1>8, <1>16
  <2>2. ASSUME NEW l \in Nat, Begun(buf, t, at, j + 1, l)
        PROVE  FALSE
    <3>1. l \in 1 .. Len(t) - 1 /\ c = t[l] /\ (l # 1 => l = h + 1)
      BY <1>12, <2>2
    <3>2. CASE l # 1
      BY <1>10, <1>11, <1>16, <3>1, <3>2
    <3>3. CASE l = 1
      BY <1>1, <1>9, <1>16, <3>1, <3>3
    <3> QED BY <3>2, <3>3
  <2>3. q.out = With(out, m, SubSeq(buf, at, (j + 1) - 0))
    <3>1. q.out = With(out, m, done \o more)
      BY <1>2, <1>4, <1>13, <2>1, WithTwice
    <3>2. done \o more = SubSeq(buf, at, j + 1)
      <4>1. /\ at \in 1 .. Len(buf) + 1 /\ j - h \in (at - 1) .. Len(buf)
            /\ j + 1 \in (j - h) .. Len(buf)
        BY <1>2, <1>3
      <4>2. buf \in Seq(Nat)
        BY DEF Chars
      <4>3. SubSeq(buf, at, j - h) \o SubSeq(buf, (j - h) + 1, j + 1) = SubSeq(buf, at, j + 1)
        BY <4>1, <4>2, ConcatAdjacentSubSeq, Zenon
      <4>4. more = SubSeq(buf, (j - h) + 1, j + 1)
        <5> DEFINE part == SubSeq(buf, (j - h) + 1, j + 1)
        <5>1. /\ (j - h) + 1 \in Nat \ {0} /\ j + 1 \in Nat
              /\ (j - h) + 1 <= (j + 1) + 1 /\ j + 1 <= Len(buf)
              /\ (j + 1) - ((j - h) + 1) + 1 = h + 1
          BY <1>2, <1>3
        <5>2. /\ part \in Chars /\ Len(part) = h + 1
              /\ \A i \in 1 .. h + 1 : part[i] = buf[((j - h) + 1) + i - 1]
          <6> DEFINE a == (j - h) + 1
                     b == j + 1
          <6>1. a \in Nat \ {0} /\ b \in Nat /\ a <= b + 1 /\ b <= Len(buf) /\ b - a + 1 = h + 1
            BY <5>1
          <6>2. part = SubSeq(buf, a, b)
            OBVIOUS
          <6> HIDE DEF a, b, part
          <6>3. /\ part \in Chars /\ Len(part) = b - a + 1
                /\ \A i \in 1 .. b - a + 1 : part[i] = buf[a + i - 1]
            BY <6>1, <6>2, PartIs, Zenon
          <6>4. part \in Chars /\ Len(part) = h + 1 /\ \A i \in 1 .. h + 1 : part[i] = buf[a + i - 1]
            BY <6>1, <6>3, Zenon
          <6> QED BY <6>4 DEF a
        <5> HIDE DEF part
        <5>3. ASSUME NEW i \in 1 .. h + 1
              PROVE  more[i] = part[i]
          <6>1. CASE i \in 1 .. h
            <7>1. ((j - h) + 1) + i - 1 = j - h + i
              BY <1>3
            <7> QED BY <1>2, <1>4, <5>2, <6>1, <7>1
          <6>2. CASE i = h + 1
            <7>1. ((j - h) + 1) + i - 1 = j + 1
              BY <1>3, <6>2
            <7> QED BY <1>4, <5>2, <6>2, <7>1 DEF c
          <6> QED BY <1>3, <6>1, <6>2
        <5>4. more = part
          BY <1>4, <5>2, <5>3, SeqEqual DEF Chars
        <5> QED BY <5>4 DEF part
      <4> QED BY <4>3, <4>4 DEF done
    <3>3. (j + 1) - 0 = j + 1
      OBVIOUS
    <3> QED BY <3>1, <3>2, <3>3
  <2>4. 0 <= (j + 1) - at + 1
    OBVIOUS
  <2> HIDE DEF t, Grows, Again
  <2> QED BY <1>1, <2>1, <2>2, <2>3, <2>4 DEF Segment, q, t, c
<1> QED BY <1>14, <1>15, <1>16 DEF c

LEMMA ReadingAt ==
    ASSUME NEW f, NEW v, NEW text \in Chars, Readings(f, v, text), NEW i \in 0 .. Len(text)
    PROVE  f[i] \in States
<1>1. f \in [0 .. Len(text) -> States]
  BY Zenon DEF Readings
<1> QED BY <1>1, Zenon

\* As long as no tag lies in what was read, it goes on in the same mode.
LEMMA SegmentUpTo ==
    ASSUME NEW buf \in Chars, NEW f, NEW v, Readings(f, v, buf),
           NEW at \in Nat \ {0}, NEW e \in Nat, at - 1 <= e, e <= Len(buf),
           f[at - 1].held = <<>>,
           \A i \in Nat : i >= at /\ i + Len(Tag(f[at - 1].mode)) - 1 <= e
                              => ~Occurs(buf, Tag(f[at - 1].mode), i)
    PROVE  Segment(buf, f[at - 1].mode, at, f[at - 1].out, e, f[e])
<1> DEFINE r == f[at - 1]
           m == r.mode
           t == Tag(m)
           n == e - (at - 1)
           S == {d \in 0 .. n : Segment(buf, m, at, r.out, (at - 1) + d, f[(at - 1) + d])}
<1>1. n \in Nat /\ at - 1 \in Nat /\ Len(buf) \in Nat /\ at - 1 \in 0 .. Len(buf)
  BY DEF Chars
<1>2. r \in States
  BY <1>1, ReadingAt
<1>3. m \in BOOLEAN /\ r.out \in Outs
  BY <1>2 DEF States
<1>4. t \in Chars /\ Len(t) \in Nat /\ Len(t) > 0
  BY <1>3, TagIs
<1>5. \A i \in Nat : i >= at /\ i + Len(t) - 1 <= e => ~Occurs(buf, t, i)
  OBVIOUS
<1>6. r.held = <<>>
  OBVIOUS
<1> HIDE DEF r, m, t
<1>7. 0 \in S
  <2>1. Segment(buf, m, at, r.out, at - 1, r)
    <3>1. at <= Len(buf) + 1
      BY <1>1
    <3> QED BY <1>2, <1>6, <3>1, SegmentStart DEF m
  <2>2. (at - 1) + 0 = at - 1 /\ 0 \in 0 .. n
    BY <1>1
  <2> QED BY <2>1, <2>2 DEF r
<1>8. ASSUME NEW d \in 0 .. n - 1, d \in S
      PROVE  d + 1 \in S
  <2> DEFINE j == (at - 1) + d
  <2>1. j \in Nat /\ at - 1 <= j /\ j < e /\ j < Len(buf) /\ d + 1 \in 0 .. n
    <3>1. d \in Nat /\ d < n /\ d + 1 \in 0 .. n
      BY <1>1
    <3>2. d < e - (at - 1) /\ e <= Len(buf)
      BY <3>1
    <3> HIDE DEF n
    <3> QED BY <1>1, <3>1, <3>2
  <2>2. j \in 0 .. Len(buf) /\ j + 1 \in 1 .. Len(buf) /\ (j + 1) - 1 = j /\ j + 1 = (at - 1) + (d + 1)
    BY <1>1, <2>1
  <2>3. Segment(buf, m, at, r.out, j, f[j])
    BY <1>8
  <2> HIDE DEF j, n
  <2>4. f[j] \in States
    BY <2>2, ReadingAt
  <2>5. f[j + 1] = Read(f[j], buf[j + 1])
    BY <2>2 DEF Readings
  <2>6. ~Whole(f[j], buf[j + 1])
    <3> DEFINE i == j + 2 - Len(t)
    <3>1. Whole(f[j], buf[j + 1]) <=> i >= at /\ Occurs(buf, t, i)
      BY <1>3, <2>1, <2>3, <2>4, WholeIs DEF t
    <3>2. i >= at => i \in Nat /\ i + Len(t) - 1 <= e
      BY <1>4, <2>1
    <3> HIDE DEF i
    <3> QED BY <1>5, <3>1, <3>2
  <2>7. Segment(buf, m, at, r.out, j + 1, f[j + 1])
    BY <1>3, <2>1, <2>3, <2>4, <2>5, <2>6, SegmentStep
  <2> QED BY <2>1, <2>2, <2>7
<1>9. \A d \in 0 .. n : d \in S
  <2> HIDE DEF S, n
  <2> QED BY <1>1, <1>7, <1>8, UpTo
<1>10. n \in S
  <2>1. n \in 0 .. n
    BY <1>1
  <2> HIDE DEF S, n
  <2> QED BY <1>9, <2>1, Zenon
<1>11. (at - 1) + n = e
  BY <1>1
<1> QED BY <1>10, <1>11 DEF r, m

----------------------------------------------------------------------------
(* The loop of _parse_tags *)

LEMMA OccursIs ==
    ASSUME NEW buf \in Chars, NEW t \in Chars, NEW i \in Nat \ {0}, i <= Len(buf)
    PROVE  IsPrefix(t, SubSeq(buf, i, Len(buf))) <=> Occurs(buf, t, i)
<1> DEFINE n == Len(buf)
           rest == SubSeq(buf, i, n)
<1>1. n \in Nat /\ Len(t) \in Nat
  BY DEF Chars
<1>2. rest \in Chars /\ Len(rest) = n - i + 1 /\ \A k \in 1 .. n - i + 1 : rest[k] = buf[i + k - 1]
  BY <1>1, PartIs
<1> HIDE DEF n, rest
<1>3. IsPrefix(t, rest) <=> Len(t) <= n - i + 1 /\ \A k \in 1 .. Len(t) : t[k] = rest[k]
  BY <1>2, PrefixIs
<1>4. Len(t) <= n - i + 1 <=> i + Len(t) - 1 <= n
  BY <1>1
<1>5. Len(t) <= n - i + 1 => \A k \in 1 .. Len(t) : rest[k] = buf[i + k - 1]
  BY <1>1, <1>2
<1> QED BY <1>3, <1>4, <1>5 DEF Occurs, n, rest

LEMMA FindTagIs ==
    ASSUME NEW buf \in Chars, NEW t \in Chars, NEW at \in Nat \ {0}, at <= Len(buf) + 1
    PROVE  LET found == FindTag(buf, t, at)
           IN  /\ found \in at .. Len(buf) + 1
               /\ found <= Len(buf) => Occurs(buf, t, found)
               /\ \A i \in Nat : i >= at /\ i <= Len(buf) /\ i < found => ~Occurs(buf, t, i)
<1> DEFINE n == Len(buf)
           S == {n + 1} \cup {i \in at .. n : IsPrefix(t, SubSeq(buf, i, n))}
<1>1. n \in Nat
  BY DEF Chars
<1>2. S \in SUBSET Nat /\ S # {}
  BY <1>1
<1>3. Min(S) \in S /\ \A k \in S : Min(S) <= k
  <2> HIDE DEF S
  <2> QED BY <1>2, MinIn
<1>4. FindTag(buf, t, at) = Min(S)
  BY DEF FindTag
<1> DEFINE found == Min(S)
<1>5. \A i \in at .. n : i \in S <=> Occurs(buf, t, i)
  <2> SUFFICES ASSUME NEW i \in at .. n PROVE i \in S <=> Occurs(buf, t, i)
    OBVIOUS
  <2>1. i \in Nat \ {0} /\ i <= n /\ i # n + 1
    BY <1>1
  <2>2. i \in S <=> IsPrefix(t, SubSeq(buf, i, n))
    BY <2>1
  <2> QED BY <2>1, <2>2, OccursIs
<1>6. \A k \in S : k \in at .. n + 1
  BY <1>1
<1> HIDE DEF S, n
<1>7. found \in at .. n + 1
  BY <1>3, <1>6
<1>8. found <= n => found \in at .. n
  BY <1>1, <1>7
<1>9. found <= n => Occurs(buf, t, found)
  BY <1>3, <1>5, <1>8
<1>10. \A i \in Nat : i >= at /\ i <= n /\ i < found => ~Occurs(buf, t, i)
  <2> SUFFICES ASSUME NEW i \in Nat, i >= at, i <= n, i < found, Occurs(buf, t, i) PROVE FALSE
    OBVIOUS
  <2>1. i \in at .. n
    BY <1>1
  <2>2. i \in S
    BY <1>5, <2>1
  <2>3. found <= i
    BY <1>3, <2>2
  <2> QED BY <1>7, <2>3
<1> QED BY <1>4, <1>7, <1>9, <1>10 DEF n

\* The n characters that begin t end buf.
Ending(buf, t, n) == \A i \in 1 .. n : buf[Len(buf) - n + i] = t[i]

LEMMA SuffixIs ==
    ASSUME NEW buf \in Chars, NEW t \in Chars, NEW n \in Nat, n <= Len(t), n <= Len(buf), n > 0
    PROVE  IsSuffix(SubSeq(t, 1, n), buf) <=> Ending(buf, t, n)
<1> DEFINE s == SubSeq(t, 1, n)
           a == Reverse(s)
           b == Reverse(buf)
           l == Len(buf)
<1>1. l \in Nat /\ Len(t) \in Nat /\ \A i \in 1 .. l : buf[i] \in Nat
  BY DEF Chars
<1>2. s \in Chars /\ Len(s) = n /\ \A i \in 1 .. n : s[i] = t[i]
  <2>1. /\ s \in Chars /\ Len(s) = n - 1 + 1
        /\ \A i \in 1 .. n - 1 + 1 : s[i] = t[1 + i - 1]
    BY <1>1, PartIs
  <2>2. n - 1 + 1 = n /\ \A i \in 1 .. n : 1 + i - 1 = i
    OBVIOUS
  <2> HIDE DEF s
  <2> QED BY <2>1, <2>2
<1> HIDE DEF s, l
<1>3. a \in Chars /\ Len(a) = n /\ \A i \in 1 .. n : a[i] = t[(n - i) + 1]
  <2>1. a = [i \in 1 .. n |-> s[(n - i) + 1]]
    BY <1>2 DEF Reverse
  <2>2. \A i \in 1 .. n : (n - i) + 1 \in 1 .. n
    OBVIOUS
  <2>3. \A i \in 1 .. n : s[i] \in Nat
    BY <1>2 DEF Chars
  <2>4. \A i \in 1 .. n : s[(n - i) + 1] \in Nat /\ s[(n - i) + 1] = t[(n - i) + 1]
    BY <1>2, <2>2, <2>3
  <2> HIDE DEF a
  <2>5. \A i \in 1 .. n : a[i] = t[(n - i) + 1]
    BY <2>1, <2>4
  <2>6. a \in [1 .. n -> Nat]
    BY <2>1, <2>4
  <2>7. a \in Seq(Nat) /\ Len(a) = n
    BY <2>6
  <2> QED BY <2>5, <2>7 DEF Chars
<1>4. b \in Chars /\ Len(b) = l /\ \A i \in 1 .. l : b[i] = buf[(l - i) + 1]
  <2>1. b = [i \in 1 .. l |-> buf[(l - i) + 1]]
    BY DEF Reverse, l
  <2>2. \A i \in 1 .. l : (l - i) + 1 \in 1 .. l
    BY <1>1
  <2>3. \A i \in 1 .. l : buf[(l - i) + 1] \in Nat
    BY <1>1, <2>2
  <2> HIDE DEF b
  <2>4. b \in [1 .. l -> Nat]
    BY <2>1, <2>3
  <2>5. b \in Seq(Nat) /\ Len(b) = l
    BY <1>1, <2>4
  <2> QED BY <2>1, <2>5 DEF Chars
<1> HIDE DEF a, b
<1>5. IsPrefix(a, b) <=> \A i \in 1 .. n : a[i] = b[i]
  <2>1. IsPrefix(a, b) <=> Len(a) <= Len(b) /\ \A i \in 1 .. Len(a) : a[i] = b[i]
    BY <1>3, <1>4, PrefixIs
  <2>2. n <= l
    BY DEF l
  <2> QED BY <1>3, <1>4, <2>1, <2>2
<1>6. (\A i \in 1 .. n : a[i] = b[i]) <=> \A i \in 1 .. n : t[(n - i) + 1] = buf[(l - i) + 1]
  <2>1. \A i \in 1 .. n : i \in 1 .. l
    BY <1>1 DEF l
  <2> QED BY <1>3, <1>4, <2>1
<1>7. (\A i \in 1 .. n : t[(n - i) + 1] = buf[(l - i) + 1]) <=> \A i \in 1 .. n : buf[l - n + i] = t[i]
  <2>1. ASSUME \A i \in 1 .. n : t[(n - i) + 1] = buf[(l - i) + 1], NEW k \in 1 .. n
        PROVE  buf[l - n + k] = t[k]
    <3>1. (n - k) + 1 \in 1 .. n /\ (n - ((n - k) + 1)) + 1 = k /\ (l - ((n - k) + 1)) + 1 = l - n + k
      BY <1>1
    <3> QED BY <2>1, <3>1
  <2>2. ASSUME \A i \in 1 .. n : buf[l - n + i] = t[i], NEW k \in 1 .. n
        PROVE  t[(n - k) + 1] = buf[(l - k) + 1]
    <3>1. (n - k) + 1 \in 1 .. n /\ l - n + ((n - k) + 1) = (l - k) + 1
      BY <1>1
    <3> QED BY <2>2, <3>1
  <2> QED BY <2>1, <2>2
<1>8. IsSuffix(s, buf) <=> IsPrefix(a, b)
  BY DEF IsSuffix, a, b
<1> QED BY <1>5, <1>6, <1>7, <1>8 DEF Ending, s, l

\* What ends buf and begins a tag does not reach before at.
NoCrossing(buf, at) ==
    at <= Len(buf) =>
        \A u \in Tags, n \in Nat :
            n > 0 /\ n < Len(u) /\ n <= Len(buf) /\ Ending(buf, u, n) => n <= Len(buf) - at + 1

LEMMA TrimIs ==
    ASSUME NEW buf \in Chars, NEW m \in BOOLEAN, NEW at \in Nat \ {0}, at <= Len(buf),
           NoCrossing(buf, at), NEW out, NEW r \in States, Segment(buf, m, at, out, Len(buf), r)
    PROVE  Trim(buf, Tag(m)) = Len(r.held)
<1> DEFINE t == Tag(m)
           l == Len(buf)
           h == Len(r.held)
           bound == Min({Len(t) - 1, l})
           S == {0} \cup {n \in 1 .. bound : IsSuffix(SubSeq(t, 1, n), buf)}
<1>1. t \in Tags /\ t \in Chars /\ Len(t) \in Nat /\ Len(t) > 0
  BY TagIs
<1>2. l \in Nat /\ h \in Nat
  BY DEF Chars, States
<1>3. /\ h < Len(t) /\ h <= l - at + 1
      /\ \A k \in 1 .. h : buf[l - h + k] = t[k]
      /\ \A n \in Nat : Begun(buf, t, at, l, n) => n = h
  BY DEF Segment
<1>4. bound \in Nat /\ bound <= Len(t) - 1 /\ bound <= l /\ (bound = Len(t) - 1 \/ bound = l)
  <2> DEFINE T == {Len(t) - 1, l}
  <2>1. T \in SUBSET Nat /\ T # {}
    BY <1>1, <1>2
  <2>2. Min(T) \in T /\ \A k \in T : Min(T) <= k
    <3> HIDE DEF T
    <3> QED BY <2>1, MinIn
  <2> QED BY <1>1, <1>2, <2>2
<1>5. Trim(buf, t) = Max(S)
  BY DEF Trim
<1>6. S \in SUBSET (0 .. bound) /\ S # {}
  BY <1>4
<1>7. Max(S) \in S /\ \A k \in S : k <= Max(S)
  <2> HIDE DEF S, bound
  <2> QED BY <1>4, <1>6, MaxIn
<1> HIDE DEF t, l, h, bound
<1>8. h \in S
  <2>1. CASE h = 0
    BY <2>1
  <2>2. CASE h > 0
    <3>1. h \in 1 .. bound
      BY <1>1, <1>2, <1>3, <1>4, <2>2
    <3>2. Ending(buf, t, h)
      BY <1>3 DEF Ending, l
    <3>3. h <= Len(t) /\ h <= Len(buf) /\ h > 0
      BY <1>1, <1>2, <1>3, <2>2 DEF l
    <3>4. IsSuffix(SubSeq(t, 1, h), buf)
      BY <1>1, <1>2, <3>2, <3>3, SuffixIs
    <3> QED BY <3>1, <3>4
  <2> QED BY <1>2, <2>1, <2>2
<1>9. ASSUME NEW n \in S, n # 0
      PROVE  n = h
  <2>1. n \in 1 .. bound /\ IsSuffix(SubSeq(t, 1, n), buf)
    BY <1>9
  <2>2. n \in Nat /\ n > 0 /\ n <= Len(t) /\ n < Len(t) /\ n <= Len(buf)
    BY <1>1, <1>2, <1>4, <2>1 DEF l
  <2>3. Ending(buf, t, n)
    BY <1>1, <2>1, <2>2, SuffixIs
  <2>4. n <= Len(buf) - at + 1
    BY <1>1, <2>2, <2>3 DEF NoCrossing
  <2>5. n \in 1 .. Len(t) - 1
    BY <1>1, <2>2
  <2>6. Begun(buf, t, at, l, n)
    BY <2>3, <2>4, <2>5 DEF Begun, Ending, l
  <2> QED BY <1>3, <2>2, <2>6
<1>10. Max(S) = h
  <2>1. h <= Max(S) /\ (Max(S) = 0 \/ Max(S) = h)
    BY <1>7, <1>8, <1>9
  <2> HIDE DEF S
  <2> QED BY <1>2, <2>1
<1> QED BY <1>5, <1>10 DEF t, h

LEMMA NoCrossingAfter ==
    ASSUME NEW buf \in Chars, NEW t \in Tags, NEW i \in Nat \ {0}, Occurs(buf, t, i)
    PROVE  NoCrossing(buf, i + Len(t))
<1> DEFINE l == Len(buf)
<1>1. t \in Chars /\ Len(t) \in Nat /\ Len(t) > 0
  BY TagAssumption, EmptySeq DEF Chars
<1>2. l \in Nat
  BY DEF Chars
<1>3. i + Len(t) - 1 <= l /\ \A k \in 1 .. Len(t) : buf[i + k - 1] = t[k]
  BY DEF Occurs
<1> SUFFICES ASSUME i + Len(t) <= l, NEW u \in Tags, NEW n \in Nat,
                    n > 0, n < Len(u), n <= l, Ending(buf, u, n),
                    ~(n <= l - (i + Len(t)) + 1)
             PROVE  FALSE
  BY DEF NoCrossing
<1>4. u \in Chars /\ Len(u) \in Nat
  BY TagAssumption DEF Chars
<1>5. /\ ~IsStrictPrefix(t, u)
      /\ \A k \in 2 .. Len(t) : t[k] # u[1]
      /\ \A k \in 2 .. Len(u) : u[k] # t[1]
  BY TagAssumption
<1>6. \A k \in 1 .. n : buf[l - n + k] = u[k]
  BY DEF Ending
<1> HIDE DEF l
<1> DEFINE first == l - n + 1
<1>7. first < i + Len(t) /\ first >= 1 /\ first \in Nat
  BY <1>1, <1>2
<1>8. buf[first] = u[1]
  <2>1. 1 \in 1 .. n
    OBVIOUS
  <2> QED BY <1>6, <2>1
<1>9. CASE first > i
  <2>1. first - i + 1 \in 2 .. Len(t) /\ first - i + 1 \in 1 .. Len(t) /\ i + (first - i + 1) - 1 = first
    BY <1>1, <1>7, <1>9
  <2>2. buf[first] = t[first - i + 1]
    <3> HIDE DEF first
    <3> QED BY <1>3, <2>1
  <2> QED BY <1>5, <1>8, <2>1, <2>2
<1>10. CASE first = i
  <2>1. Len(t) < n
    BY <1>1, <1>2, <1>10
  <2>2. \A k \in 1 .. Len(t) : t[k] = u[k]
    <3> SUFFICES ASSUME NEW k \in 1 .. Len(t) PROVE t[k] = u[k]
      OBVIOUS
    <3>1. k \in 1 .. n /\ i + k - 1 = l - n + k
      BY <1>1, <1>2, <1>10, <2>1
    <3> QED BY <1>3, <1>6, <3>1
  <2>3. Len(t) < Len(u)
    BY <1>1, <1>4, <2>1
  <2>4. IsPrefix(t, u)
    BY <1>1, <1>4, <2>2, <2>3, PrefixIs
  <2>5. t # u
    BY <2>3, <1>1
  <2> QED BY <1>5, <2>4, <2>5 DEF IsStrictPrefix
<1>11. CASE first < i
  <2>1. i - first + 1 \in 2 .. Len(u) /\ i - first + 1 \in 1 .. n /\ l - n + (i - first + 1) = i
    BY <1>1, <1>2, <1>4, <1>7, <1>11
  <2>2. buf[i] = u[i - first + 1]
    <3> HIDE DEF first
    <3> QED BY <1>6, <2>1
  <2>3. buf[i] = t[1]
    <3>1. 1 \in 1 .. Len(t) /\ i + 1 - 1 = i
      BY <1>1
    <3> QED BY <1>3, <3>1
  <2> QED BY <1>5, <2>1, <2>2, <2>3
<1> QED BY <1>2, <1>7, <1>9, <1>10, <1>11

\* A turn has made of buf what reading it up to p.at makes.
TurnOk(buf, f, p) ==
    /\ p = [mode |-> p.mode, at |-> p.at, rest |-> p.rest, out |-> p.out]
    /\ p.at \in 1 .. Len(buf) + 1
    /\ f[p.at - 1] = [mode |-> p.mode, held |-> p.rest, out |-> p.out]
    /\ p.at <= Len(buf) => p.rest = <<>>
    /\ NoCrossing(buf, p.at)

LEMMA TurnIs ==
    ASSUME NEW buf \in Chars, NEW f, NEW v, Readings(f, v, buf), NEW p, TurnOk(buf, f, p)
    PROVE  /\ TurnOk(buf, f, Turn(buf, p))
           /\ p.at = Len(buf) + 1 => Turn(buf, p) = p
           /\ p.at <= Len(buf) => Turn(buf, p).at > p.at
<1> DEFINE n == Len(buf)
           at == p.at
           m == p.mode
           t == Tag(m)
           found == FindTag(buf, t, at)
           r == f[at - 1]
           q == Turn(buf, p)
<1>1. n \in Nat
  BY DEF Chars
<1>2. /\ p = [mode |-> m, at |-> at, rest |-> p.rest, out |-> p.out]
      /\ at \in 1 .. n + 1
      /\ r = [mode |-> m, held |-> p.rest, out |-> p.out]
      /\ at <= n => p.rest = <<>>
      /\ NoCrossing(buf, at)
  BY DEF TurnOk
<1>3. at - 1 \in 0 .. n /\ at \in Nat \ {0} /\ at - 1 \in Nat
  BY <1>1, <1>2
<1>4. r \in States
  BY <1>3, ReadingAt
<1>5. m \in BOOLEAN /\ p.out \in Outs /\ r.mode = m /\ r.held = p.rest /\ r.out = p.out
  BY <1>2, <1>4 DEF States
<1>6. t \in Tags /\ t \in Chars /\ Len(t) \in Nat /\ Len(t) > 0
  BY <1>5, TagIs
<1>7. /\ found \in at .. n + 1
      /\ found <= n => Occurs(buf, t, found)
      /\ \A i \in Nat : i >= at /\ i <= n /\ i < found => ~Occurs(buf, t, i)
  BY <1>2, <1>3, <1>6, FindTagIs
<1> HIDE DEF n, at, m, t, found, r, q
<1>8. CASE at > n
  <2>1. q = p
    BY <1>8 DEF Turn, q, at, n
  <2> QED BY <1>1, <1>2, <1>8, <2>1 DEF q, at, n
<1>9. CASE at <= n /\ found <= n
  <2> DEFINE e == found + Len(t) - 2
             done == SubSeq(buf, at, found - 1)
  <2>1. Occurs(buf, t, found) /\ found \in Nat \ {0}
    BY <1>3, <1>7, <1>9
  <2>2. found + Len(t) - 1 <= n
    BY <2>1 DEF Occurs, n
  <2>3. e \in Nat /\ at - 1 <= e /\ e < n /\ e <= n /\ e + 1 = found + Len(t) - 1
    BY <1>1, <1>3, <1>6, <1>7, <2>1, <2>2
  <2>4. \A i \in Nat : i >= at /\ i + Len(t) - 1 <= e => ~Occurs(buf, t, i)
    <3>1. \A i \in Nat : i + Len(t) - 1 <= e => i <= n /\ i < found
      BY <1>1, <1>6, <2>1, <2>3
    <3> HIDE DEF e
    <3> QED BY <1>7, <3>1
  <2> HIDE DEF e
  <2>5. Segment(buf, m, at, r.out, e, f[e])
    <3>1. r.held = <<>>
      BY <1>2, <1>5, <1>9
    <3> QED BY <1>3, <1>5, <2>3, <2>4, <3>1, SegmentUpTo DEF r, n, t
  <2>6. e \in 0 .. n /\ e + 1 \in 1 .. n /\ (e + 1) - 1 = e
    BY <1>1, <2>3
  <2>7. f[e] \in States
    BY <2>6, ReadingAt DEF n
  <2>8. f[e + 1] = Read(f[e], buf[e + 1])
    BY <2>6 DEF Readings, n
  <2>9. Whole(f[e], buf[e + 1])
    <3> DEFINE i == e + 2 - Len(t)
    <3>1. i = found
      BY <1>6, <2>1, <2>3
    <3>2. Whole(f[e], buf[e + 1]) <=> i >= at /\ Occurs(buf, t, i)
      BY <1>3, <1>5, <2>3, <2>5, <2>7, WholeIs DEF t, n
    <3> HIDE DEF i
    <3> QED BY <1>3, <1>7, <2>1, <3>1, <3>2
  <2>10. buf[e + 1] \in Nat
    BY <2>6 DEF Chars, n
  <2>11. f[e + 1] = [mode |-> ~m, held |-> <<>>, out |-> f[e].out]
    <3>1. f[e].mode = m
      BY <2>5 DEF Segment
    <3> QED BY <2>7, <2>8, <2>9, <2>10, <3>1, ReadIs
  <2>12. Len(f[e].held) = Len(t) - 1
    <3>1. Append(f[e].held, buf[e + 1]) = t
      BY <2>5, <2>9 DEF Whole, Segment, t
    <3>2. f[e].held \in Seq(Nat)
      BY <2>7 DEF States, Chars
    <3>3. Len(Append(f[e].held, buf[e + 1])) = Len(f[e].held) + 1 /\ Len(f[e].held) \in Nat
      BY <2>10, <3>2, AppendProperties
    <3>4. Len(t) = Len(f[e].held) + 1
      BY <3>1, <3>3, Zenon
    <3> QED BY <3>3, <3>4
  <2>13. f[e].out = With(p.out, m, done)
    <3>1. f[e].out = With(r.out, m, SubSeq(buf, at, e - Len(f[e].held)))
      BY <2>5 DEF Segment
    <3>2. e - Len(f[e].held) = found - 1
      BY <1>6, <2>1, <2>3, <2>12
    <3> QED BY <1>5, <3>1, <3>2, Zenon
  <2> HIDE DEF done
  <2>14. q = [mode |-> ~m, at |-> found + Len(t), rest |-> p.rest, out |-> With(p.out, m, done)]
    <3>1. q = [p EXCEPT !.out[m] = @ \o done, !.mode = ~@, !.at = found + Len(t)]
      BY <1>1, <1>3, <1>9 DEF Turn, q, at, n, t, m, found, done
    <3>2. p = [mode |-> m, at |-> at, rest |-> p.rest, out |-> p.out]
      BY <1>2
    <3>3. [p EXCEPT !.out[m] = @ \o done] = [mode |-> m, at |-> at, rest |-> p.rest, out |-> With(p.out, m, done)]
      <4> DEFINE w == With(p.out, m, done)
      <4>1. [p EXCEPT !.out[m] = @ \o done] = [p EXCEPT !.out = w]
        BY DEF With
      <4> HIDE DEF w
      <4>2. [p EXCEPT !.out = w] = [mode |-> m, at |-> at, rest |-> p.rest, out |-> w]
        BY <3>2
      <4> QED BY <4>1, <4>2 DEF w
    <3>4. q = [[p EXCEPT !.out[m] = @ \o done] EXCEPT !.mode = ~@, !.at = found + Len(t)]
      BY <3>1
    <3>5. q = [[mode |-> m, at |-> at, rest |-> p.rest, out |-> With(p.out, m, done)]
                  EXCEPT !.mode = ~@, !.at = found + Len(t)]
      BY <3>3, <3>4, Zenon
    <3> QED BY <3>5
  <2>15. /\ q.mode = (~m) /\ q.at = found + Len(t) /\ q.rest = p.rest
         /\ q.out = With(p.out, m, done)
         /\ q = [mode |-> q.mode, at |-> q.at, rest |-> q.rest, out |-> q.out]
    BY <2>14
  <2>16. q.at \in 1 .. n + 1 /\ q.at - 1 = e + 1 /\ q.at > at
    BY <1>1, <1>3, <1>6, <1>7, <2>1, <2>2, <2>3, <2>15
  <2>17. NoCrossing(buf, q.at)
    BY <1>6, <2>1, <2>15, NoCrossingAfter
  <2>18. q.rest = <<>>
    BY <1>2, <1>9, <2>15
  <2>19. f[q.at - 1] = [mode |-> q.mode, held |-> q.rest, out |-> q.out]
    BY <2>11, <2>13, <2>15, <2>16, <2>18, Zenon
  <2>20. TurnOk(buf, f, q)
    BY <2>15, <2>16, <2>17, <2>18, <2>19 DEF TurnOk, n
  <2> QED BY <1>1, <1>3, <1>9, <2>16, <2>20 DEF q, at, n
<1>10. CASE at <= n /\ ~(found <= n)
  <2> DEFINE h == Len(f[n].held)
             done == SubSeq(buf, at, n - h)
  <2>1. \A i \in Nat : i >= at /\ i + Len(t) - 1 <= n => ~Occurs(buf, t, i)
    <3>1. \A i \in Nat : i + Len(t) - 1 <= n => i <= n /\ i < found
      BY <1>1, <1>3, <1>6, <1>7, <1>10
    <3> QED BY <1>7, <3>1
  <2>2. Segment(buf, m, at, r.out, n, f[n])
    <3>1. r.held = <<>>
      BY <1>2, <1>5, <1>10
    <3>2. at - 1 <= n /\ n <= Len(buf)
      BY <1>1, <1>3, <1>10 DEF n
    <3> QED BY <1>1, <1>3, <1>5, <2>1, <3>1, <3>2, SegmentUpTo DEF r, t
  <2>3. f[n] \in States
    <3>1. n \in 0 .. n
      BY <1>1
    <3> QED BY <3>1, ReadingAt DEF n
  <2>4. Trim(buf, t) = h
    BY <1>2, <1>3, <1>5, <1>10, <2>2, <2>3, TrimIs DEF n, t
  <2>5. f[n].held = SubSeq(buf, n - h + 1, n)
    <3>1. at - 1 <= n /\ n <= Len(buf)
      BY <1>1, <1>3, <1>10 DEF n
    <3> DEFINE g == f[n]
    <3>2. g \in States /\ Segment(buf, m, at, r.out, n, g)
      BY <2>2, <2>3
    <3> HIDE DEF g
    <3>3. g.held = SubSeq(buf, n - Len(g.held) + 1, n)
      BY <1>1, <1>3, <1>5, <3>1, <3>2, HeldIs, ZenonT(60)
    <3> QED BY <3>3 DEF g
  <2>6. f[n].mode = m /\ f[n].out = With(p.out, m, done)
    BY <1>5, <2>2 DEF Segment
  <2>7. f[n] = [mode |-> m, held |-> f[n].held, out |-> With(p.out, m, done)]
    BY <2>3, <2>6 DEF States
  <2> HIDE DEF h, done
  <2>8. q = [mode |-> m, at |-> n + 1, rest |-> f[n].held, out |-> With(p.out, m, done)]
    <3>1. q = [p EXCEPT !.out[m] = @ \o done, !.rest = f[n].held, !.at = n + 1]
      BY <1>1, <1>3, <1>10, <2>4, <2>5 DEF Turn, q, at, n, t, m, found, done
    <3>2. p = [mode |-> m, at |-> at, rest |-> p.rest, out |-> p.out]
      BY <1>2
    <3>3. [p EXCEPT !.out[m] = @ \o done] = [mode |-> m, at |-> at, rest |-> p.rest, out |-> With(p.out, m, done)]
      <4> DEFINE w == With(p.out, m, done)
      <4>1. [p EXCEPT !.out[m] = @ \o done] = [p EXCEPT !.out = w]
        BY DEF With
      <4> HIDE DEF w
      <4>2. [p EXCEPT !.out = w] = [mode |-> m, at |-> at, rest |-> p.rest, out |-> w]
        BY <3>2
      <4> QED BY <4>1, <4>2 DEF w
    <3>4. q = [[p EXCEPT !.out[m] = @ \o done] EXCEPT !.rest = f[n].held, !.at = n + 1]
      BY <3>1
    <3>5. q = [[mode |-> m, at |-> at, rest |-> p.rest, out |-> With(p.out, m, done)]
                  EXCEPT !.rest = f[n].held, !.at = n + 1]
      BY <3>3, <3>4, Zenon
    <3> QED BY <3>5
  <2>9. /\ q.mode = m /\ q.at = n + 1 /\ q.rest = f[n].held
        /\ q.out = With(p.out, m, done)
        /\ q = [mode |-> q.mode, at |-> q.at, rest |-> q.rest, out |-> q.out]
    BY <2>8
  <2>10. q.at \in 1 .. n + 1 /\ q.at - 1 = n /\ q.at > at /\ ~(q.at <= n)
    BY <1>1, <1>3, <1>10, <2>9
  <2>11. f[q.at - 1] = [mode |-> q.mode, held |-> q.rest, out |-> q.out]
    BY <2>7, <2>9, <2>10, Zenon
  <2>12. NoCrossing(buf, q.at)
    BY <2>10 DEF NoCrossing, n
  <2>13. TurnOk(buf, f, q)
    BY <2>9, <2>10, <2>11, <2>12 DEF TurnOk, n
  <2> QED BY <1>1, <1>3, <1>10, <2>10, <2>13 DEF q, at, n
<1>11. at > n \/ (at <= n /\ found <= n) \/ (at <= n /\ ~(found <= n))
  BY <1>1, <1>3
<1> QED BY <1>8, <1>9, <1>10, <1>11, Zenon

Nothing == [b \in BOOLEAN |-> <<>>]
Fresh_(m) == [mode |-> m, held |-> <<>>, out |-> Nothing]

LEMMA FreshIs ==
    ASSUME NEW m \in BOOLEAN
    PROVE  Fresh_(m) \in States /\ Nothing \in Outs
BY DEF Fresh_, Nothing, States, Outs, Chars

\* The loop makes of buf what reading it makes.
LEMMA ParseIs ==
    ASSUME NEW buf \in Chars, NEW m \in BOOLEAN, NEW f, Readings(f, Fresh_(m), buf)
    PROVE  LET p == Parse_(buf, m)
           IN  f[Len(buf)] = [mode |-> p.mode, held |-> p.rest, out |-> p.out]
<1> DEFINE n == Len(buf)
           V == {p \in [mode : BOOLEAN, at : Nat, rest : Chars, out : Outs] : TurnOk(buf, f, p)}
           step == [x \in (1 .. n) \X V |-> Turn(buf, x[2])]
           R(g) == g = [i \in 0 .. n |-> IF i = 0 THEN Parsing(m) ELSE Turn(buf, g[i - 1])]
           turns == CHOOSE g : R(g)
<1>1. n \in Nat
  BY DEF Chars
<1>2. Parsing(m) \in V /\ Parsing(m).at = 1
  <2>1. Parsing(m) = [mode |-> m, at |-> 1, rest |-> <<>>, out |-> Nothing]
    BY DEF Parsing, Nothing
  <2>2. Nothing \in Outs /\ <<>> \in Chars
    BY FreshIs DEF Chars
  <2>3. Parsing(m) \in [mode : BOOLEAN, at : Nat, rest : Chars, out : Outs]
    BY <2>1, <2>2
  <2>4. f[0] = Fresh_(m)
    BY Zenon DEF Readings
  <2>5. NoCrossing(buf, 1)
    <3>1. \A k \in Nat : k <= Len(buf) => k <= Len(buf) - 1 + 1
      BY <1>1
    <3> QED BY <3>1 DEF NoCrossing
  <2>6. TurnOk(buf, f, Parsing(m))
    <3>1. 1 \in 1 .. Len(buf) + 1 /\ 1 - 1 = 0
      BY <1>1
    <3>2. f[1 - 1] = [mode |-> m, held |-> <<>>, out |-> Nothing]
      BY <2>4, <3>1 DEF Fresh_
    <3> QED BY <2>1, <2>5, <3>1, <3>2 DEF TurnOk
  <2> QED BY <2>1, <2>3, <2>6
<1>3. ASSUME NEW p \in V
      PROVE  /\ Turn(buf, p) \in V
             /\ p.at = n + 1 => Turn(buf, p) = p
             /\ p.at <= n => Turn(buf, p).at > p.at
             /\ p.at \in 1 .. n + 1
  <2> DEFINE q == Turn(buf, p)
  <2>1. /\ TurnOk(buf, f, q)
        /\ p.at = n + 1 => q = p
        /\ p.at <= n => q.at > p.at
    BY TurnIs
  <2> HIDE DEF q
  <2>2. /\ q = [mode |-> q.mode, at |-> q.at, rest |-> q.rest, out |-> q.out]
        /\ q.at \in 1 .. n + 1
        /\ f[q.at - 1] = [mode |-> q.mode, held |-> q.rest, out |-> q.out]
    BY <2>1 DEF TurnOk
  <2>3. f[q.at - 1] \in States
    <3>1. q.at - 1 \in 0 .. Len(buf)
      BY <1>1, <2>2
    <3> QED BY <3>1, ReadingAt
  <2>4. q.mode \in BOOLEAN /\ q.rest \in Chars /\ q.out \in Outs
    BY <2>2, <2>3 DEF States
  <2>5. q.at \in Nat
    BY <1>1, <2>2
  <2>6. q \in [mode : BOOLEAN, at : Nat, rest : Chars, out : Outs]
    BY <2>2, <2>4, <2>5
  <2>7. p.at \in 1 .. n + 1
    BY DEF TurnOk
  <2>8. q \in V
    BY <2>1, <2>6
  <2> HIDE DEF V, n
  <2> QED BY <2>1, <2>7, <2>8 DEF q
<1>4. step \in [(1 .. n) \X V -> V]
  <2>1. \A x \in (1 .. n) \X V : Turn(buf, x[2]) \in V
    <3> SUFFICES ASSUME NEW x \in (1 .. n) \X V PROVE Turn(buf, x[2]) \in V
      OBVIOUS
    <3>1. x[2] \in V
      <4> HIDE DEF V
      <4> QED OBVIOUS
    <3> HIDE DEF V
    <3> QED BY <1>3, <3>1
  <2> HIDE DEF V
  <2> QED BY <2>1
<1> HIDE DEF V, n
<1>5. PICK g : Runs(g, n, V, Parsing(m), step)
  <2> HIDE DEF step
  <2>1. Steps(n, V, Parsing(m), step)
    BY <1>1, <1>2, <1>4 DEF Steps
  <2> QED BY <2>1, StepByStep, Zenon
<1>6. ASSUME NEW i \in 1 .. n
      PROVE  g[i] = Turn(buf, g[i - 1])
  <2>1. i - 1 \in 0 .. n
    BY <1>1
  <2>2. g \in [0 .. n -> V]
    BY <1>5, Zenon DEF Runs
  <2>3. g[i - 1] \in V
    BY <2>1, <2>2, Zenon
  <2>4. step[<<i, g[i - 1]>>] = Turn(buf, g[i - 1])
    BY <2>3
  <2>5. g[i] = step[<<i, g[i - 1]>>]
    <3> HIDE DEF step
    <3> QED BY <1>5, Zenon DEF Runs
  <2> QED BY <2>4, <2>5, Zenon
<1>7. R(g)
  <2> DEFINE h == [i \in 0 .. n |-> IF i = 0 THEN Parsing(m) ELSE Turn(buf, g[i - 1])]
  <2>1. g \in [0 .. n -> V] /\ g[0] = Parsing(m)
    BY <1>5, Zenon DEF Runs
  <2>2. \A i \in 0 .. n : g[i] = h[i]
    BY <1>1, <1>6, <2>1
  <2>3. g = [i \in 0 .. n |-> g[i]]
    BY <2>1
  <2>4. g = h
    BY <2>2, <2>3
  <2> QED BY <2>4, Zenon
<1>8. R(turns)
  <2> HIDE DEF R
  <2> QED BY <1>7, Zenon
<1>9. \A i \in 0 .. n : turns[i] = IF i = 0 THEN Parsing(m) ELSE Turn(buf, turns[i - 1])
  <2> HIDE DEF turns
  <2> QED BY <1>8
<1> HIDE DEF R, turns, step
<1> DEFINE S == {i \in 0 .. n : turns[i] \in V /\ turns[i].at >= i + 1}
<1>10. 0 \in S
  <2>1. 0 \in 0 .. n
    BY <1>1
  <2>2. turns[0] = Parsing(m)
    BY <1>9, <2>1, Zenon
  <2> QED BY <1>2, <2>1, <2>2
<1>11. ASSUME NEW i \in 0 .. n - 1, i \in S
      PROVE  i + 1 \in S
  <2>1. i + 1 \in 0 .. n /\ (i + 1) - 1 = i /\ i + 1 # 0
    BY <1>1
  <2>2. turns[i + 1] = Turn(buf, turns[i])
    BY <1>9, <2>1
  <2>3. turns[i] \in V /\ turns[i].at >= i + 1
    BY <1>11
  <2>4. /\ turns[i + 1] \in V
        /\ turns[i].at = n + 1 => turns[i + 1] = turns[i]
        /\ turns[i].at <= n => turns[i + 1].at > turns[i].at
        /\ turns[i].at \in 1 .. n + 1
    BY <1>3, <2>2, <2>3
  <2>5. turns[i + 1].at \in 1 .. n + 1
    BY <1>3, <2>4
  <2>6. turns[i + 1].at >= (i + 1) + 1
    BY <1>1, <2>3, <2>4, <2>5
  <2> QED BY <2>1, <2>4, <2>6
<1>12. \A i \in 0 .. n : i \in S
  <2> HIDE DEF S
  <2> QED BY <1>1, <1>10, <1>11, UpTo
<1> DEFINE p == turns[n]
<1>13. p \in V /\ p.at >= n + 1
  <2>1. n \in 0 .. n
    BY <1>1
  <2>2. n \in S
    BY <1>12, <2>1
  <2> QED BY <2>2
<1>14. p.at - 1 = n
  <2>1. p.at \in 1 .. n + 1
    BY <1>3, <1>13
  <2> HIDE DEF p
  <2> QED BY <1>1, <1>13, <2>1
<1>15. f[p.at - 1] = [mode |-> p.mode, held |-> p.rest, out |-> p.out]
  BY <1>13 DEF V, TurnOk
<1>16. f[n] = [mode |-> p.mode, held |-> p.rest, out |-> p.out]
  BY <1>14, <1>15, Zenon
<1>17. Parse_(buf, m) = p
  BY DEF Parse_, turns, R, n
<1> HIDE DEF p
<1> QED BY <1>16, <1>17, Zenon DEF n

----------------------------------------------------------------------------
(* A text that is read in chunks *)

\* What is held begins the tag that is looked for and is not all of it.
HeldBegins(r) ==
    /\ Len(r.held) < Len(Tag(r.mode))
    /\ \A k \in 1 .. Len(r.held) : r.held[k] = Tag(r.mode)[k]

LEMMA HoldsIs ==
    ASSUME NEW s \in Chars, NEW m \in BOOLEAN
    PROVE  Holds(s, Tag(m)) <=> Len(s) < Len(Tag(m)) /\ \A k \in 1 .. Len(s) : s[k] = Tag(m)[k]
<1> DEFINE t == Tag(m)
<1>1. t \in Chars /\ Len(t) \in Nat
  BY TagIs
<1>2. Len(s) \in Nat
  BY DEF Chars
<1> HIDE DEF t
<1>3. IsPrefix(s, t) <=> Len(s) <= Len(t) /\ \A k \in 1 .. Len(s) : s[k] = t[k]
  BY <1>1, PrefixIs
<1>4. ASSUME IsPrefix(s, t), Len(s) = Len(t) PROVE s = t
  BY <1>1, <1>3, <1>4, SeqEqual DEF Chars
<1>5. Holds(s, t) <=> IsPrefix(s, t) /\ s # t
  BY DEF Holds, IsStrictPrefix
<1>6. s = t => Len(s) = Len(t)
  OBVIOUS
<1> QED BY <1>1, <1>2, <1>3, <1>4, <1>5, <1>6 DEF t

LEMMA NothingHeld ==
    ASSUME NEW q, q.mode \in BOOLEAN, q.held = <<>>
    PROVE  HeldBegins(q)
<1>1. Len(Tag(q.mode)) \in Nat /\ Len(Tag(q.mode)) > 0
  BY TagIs
<1>2. Len(q.held) = 0
  OBVIOUS
<1> QED BY <1>1, <1>2 DEF HeldBegins

LEMMA ReadHolds ==
    ASSUME NEW r \in States, NEW c \in Nat, HeldBegins(r)
    PROVE  HeldBegins(Read(r, c))
<1> DEFINE q == Read(r, c)
<1>1. r.mode \in BOOLEAN /\ r.held \in Chars /\ (~r.mode) \in BOOLEAN
  BY DEF States
<1>2. Append(r.held, c) \in Chars /\ <<c>> \in Chars /\ <<>> \in Chars
  BY <1>1 DEF Chars
<1>4. CASE Whole(r, c)
  <2>1. q.mode = (~r.mode) /\ q.held = <<>>
    <3>1. q = [mode |-> ~r.mode, held |-> <<>>, out |-> r.out]
      BY <1>4, ReadIs, Zenon
    <3> HIDE DEF q
    <3> QED BY <3>1
  <2> HIDE DEF q
  <2>2. q.mode \in BOOLEAN
    BY <1>1, <2>1, Zenon
  <2>3. q.held = <<>>
    BY <2>1, Zenon
  <2>4. HeldBegins(q)
    BY <2>2, <2>3, NothingHeld
  <2> QED BY <2>4 DEF q
<1>5. CASE ~Whole(r, c) /\ Grows(r, c)
  <2>1. q.mode = r.mode /\ q.held = Append(r.held, c)
    <3>1. q = [mode |-> r.mode, held |-> Append(r.held, c), out |-> r.out]
      BY <1>5, ReadIs, Zenon
    <3> HIDE DEF q
    <3> QED BY <3>1
  <2>2. Holds(Append(r.held, c), Tag(r.mode))
    BY <1>5 DEF Grows
  <2> HIDE DEF q
  <2>3. /\ Len(q.held) < Len(Tag(q.mode))
        /\ \A k \in 1 .. Len(q.held) : q.held[k] = Tag(q.mode)[k]
    <3>1. q.mode \in BOOLEAN /\ q.held \in Chars
      BY <1>1, <1>2, <2>1
    <3>2. Holds(q.held, Tag(q.mode))
      BY <2>1, <2>2, Zenon
    <3> QED BY <3>1, <3>2, HoldsIs
  <2>4. HeldBegins(q)
    BY <2>3, Zenon DEF HeldBegins
  <2> QED BY <2>4 DEF q
<1>6. CASE ~Whole(r, c) /\ ~Grows(r, c) /\ Again(r, c)
  <2>1. q.mode = r.mode /\ q.held = <<c>>
    <3>1. q = [mode |-> r.mode, held |-> <<c>>, out |-> With(r.out, r.mode, r.held)]
      BY <1>6, ReadIs, Zenon
    <3> HIDE DEF q
    <3> QED BY <3>1
  <2>2. Holds(<<c>>, Tag(r.mode))
    BY <1>6 DEF Again
  <2> HIDE DEF q
  <2>3. /\ Len(q.held) < Len(Tag(q.mode))
        /\ \A k \in 1 .. Len(q.held) : q.held[k] = Tag(q.mode)[k]
    <3>1. q.mode \in BOOLEAN /\ q.held \in Chars
      BY <1>1, <1>2, <2>1
    <3>2. Holds(q.held, Tag(q.mode))
      BY <2>1, <2>2, Zenon
    <3> QED BY <3>1, <3>2, HoldsIs
  <2>4. HeldBegins(q)
    BY <2>3, Zenon DEF HeldBegins
  <2> QED BY <2>4 DEF q
<1>7. CASE ~Whole(r, c) /\ ~Grows(r, c) /\ ~Again(r, c)
  <2>1. q.mode = r.mode /\ q.held = <<>>
    <3>1. q = [mode |-> r.mode, held |-> <<>>, out |-> With(r.out, r.mode, Append(r.held, c))]
      BY <1>7, ReadIs, Zenon
    <3> HIDE DEF q
    <3> QED BY <3>1
  <2> HIDE DEF q
  <2>2. q.mode \in BOOLEAN
    BY <1>1, <2>1, Zenon
  <2>3. q.held = <<>>
    BY <2>1, Zenon
  <2>4. HeldBegins(q)
    BY <2>2, <2>3, NothingHeld
  <2> QED BY <2>4 DEF q
<1> QED BY <1>4, <1>5, <1>6, <1>7

\* A state of a reading, and two texts read from states that begin alike.
LEMMA AllHold ==
    ASSUME NEW text \in Chars, NEW v, HeldBegins(v), NEW f, Readings(f, v, text),
           NEW n \in 0 .. Len(text)
    PROVE  HeldBegins(f[n])
<1> DEFINE S == {i \in 0 .. Len(text) : HeldBegins(f[i])}
<1>1. Len(text) \in Nat /\ n \in 0 .. Len(text) /\ \A i \in 1 .. Len(text) : text[i] \in Nat
  BY DEF Chars
<1>2. 0 \in S
  <2>1. f[0] = v
    BY Zenon DEF Readings
  <2>2. HeldBegins(f[0])
    BY <2>1, Zenon
  <2>3. 0 \in 0 .. Len(text)
    BY <1>1
  <2> QED BY <2>2, <2>3, Zenon
<1>3. ASSUME NEW i \in 0 .. Len(text) - 1, i \in S
      PROVE  i + 1 \in S
  <2>1. i + 1 \in 1 .. Len(text) /\ i + 1 \in 0 .. Len(text) /\ (i + 1) - 1 = i /\ i \in 0 .. Len(text)
    BY <1>1
  <2>2. f[i + 1] = Read(f[(i + 1) - 1], text[i + 1])
    BY <2>1, Zenon DEF Readings
  <2>3. f[i + 1] = Read(f[i], text[i + 1])
    BY <2>1, <2>2, Zenon
  <2>4. f[i] \in States
    BY <2>1, ReadingAt
  <2>5. HeldBegins(f[i])
    BY <1>3
  <2>6. text[i + 1] \in Nat
    BY <1>1, <2>1
  <2>7. HeldBegins(f[i + 1])
    BY <2>3, <2>4, <2>5, <2>6, ReadHolds, Zenon
  <2> QED BY <2>1, <2>7, Zenon
<1>4. \A i \in 0 .. Len(text) : i \in S
  <2> HIDE DEF S
  <2> QED BY <1>1, <1>2, <1>3, UpTo
<1> QED BY <1>1, <1>4

\* What was held is held again when it is read once more.
LEMMA ReadAgain ==
    ASSUME NEW r \in States, HeldBegins(r), NEW more \in Chars, NEW f,
           Readings(f, Fresh_(r.mode), r.held \o more)
    PROVE  f[Len(r.held)] = [mode |-> r.mode, held |-> r.held, out |-> Nothing]
<1> DEFINE h == Len(r.held)
           s == r.held
           m == r.mode
           t == Tag(m)
           buf == s \o more
           At(i) == [mode |-> m, held |-> SubSeq(s, 1, i), out |-> Nothing]
           S == {i \in 0 .. h : f[i] = At(i)}
<1>1. s \in Chars /\ h \in Nat /\ h = Len(s) /\ m \in BOOLEAN /\ Len(more) \in Nat
  BY DEF States, Chars
<1>2. /\ buf \in Chars /\ Len(buf) = h + Len(more)
      /\ \A i \in 1 .. h : buf[i] = s[i] /\ s[i] \in Nat
  <2>1. \A i \in 1 .. h : s[i] \in Nat
    BY <1>1 DEF Chars
  <2>2. buf \in Chars
    BY <1>1, ConcatProperties, Zenon DEF Chars
  <2>3. Len(buf) = h + Len(more)
    BY <1>1, ConcatProperties, Zenon DEF Chars
  <2>4. \A i \in 1 .. h : buf[i] = s[i]
    BY <1>1, ConcatProperties DEF Chars
  <2> QED BY <2>1, <2>2, <2>3, <2>4
<1>3. h < Len(t) /\ \A k \in 1 .. h : s[k] = t[k]
  BY DEF HeldBegins
<1>4. t \in Chars /\ Len(t) \in Nat
  BY <1>1, TagIs
<1>5. Nothing \in Outs
  BY <1>1, FreshIs
<1>6. /\ f[0] = Fresh_(m)
      /\ \A i \in 1 .. Len(buf) : f[i] = Read(f[i - 1], buf[i])
  BY Zenon DEF Readings
<1> HIDE DEF h, s, m, t, buf
<1>7. 0 \in S
  <2>1. SubSeq(s, 1, 0) = <<>>
    OBVIOUS
  <2>2. f[0] = At(0)
    BY <1>6, <2>1 DEF Fresh_
  <2>3. 0 \in 0 .. h
    BY <1>1
  <2> QED BY <2>2, <2>3
<1>8. ASSUME NEW i \in 0 .. h - 1, i \in S
      PROVE  i + 1 \in S
  <2> DEFINE a == SubSeq(s, 1, i)
             b == SubSeq(s, 1, i + 1)
             c == s[i + 1]
  <2>1. /\ i \in Nat /\ i + 1 \in 1 .. h /\ i + 1 \in 0 .. h /\ (i + 1) - 1 = i
        /\ i + 1 \in 1 .. Len(buf) /\ i <= h /\ i + 1 <= h
    BY <1>1, <1>2
  <2>2. /\ a \in Chars /\ Len(a) = i /\ b \in Chars /\ Len(b) = i + 1
        /\ \A k \in 1 .. i : a[k] = s[k]
        /\ \A k \in 1 .. i + 1 : b[k] = s[k]
    <3>1. i \in Nat /\ i <= Len(s) /\ i + 1 \in Nat /\ i + 1 <= Len(s)
      BY <1>1, <2>1
    <3> QED BY <1>1, <3>1, BeginIs, Zenon
  <2>3. c \in Nat
    BY <1>2, <2>1
  <2>4. Append(a, c) = b
    BY <1>1, <2>1 DEF Chars
  <2> HIDE DEF a, b, c
  <2>5. At(i) = [mode |-> m, held |-> a, out |-> Nothing]
    BY DEF a
  <2>6. At(i) \in States
    BY <1>1, <1>5, <2>2, <2>5 DEF States
  <2>7. /\ At(i).mode = m /\ At(i).held = a /\ At(i).out = Nothing
    BY <2>5
  <2>8. Len(b) < Len(t) /\ \A k \in 1 .. Len(b) : b[k] = t[k]
    BY <1>1, <1>3, <1>4, <2>1, <2>2
  <2>9. Holds(b, Tag(m))
    BY <1>1, <2>2, <2>8, HoldsIs, Zenon DEF t
  <2>10. b # Tag(m)
    BY <1>4, <2>8 DEF t
  <2>11. ~Whole(At(i), c) /\ Grows(At(i), c)
    BY <2>4, <2>7, <2>9, <2>10, Zenon DEF Whole, Grows
  <2>12. Read(At(i), c) = [mode |-> m, held |-> b, out |-> Nothing]
    <3> HIDE DEF At
    <3>1. Read(At(i), c) = [mode |-> At(i).mode, held |-> Append(At(i).held, c), out |-> At(i).out]
      BY <2>3, <2>6, <2>11, ReadIs, Zenon
    <3> QED BY <2>4, <2>7, <3>1, Zenon
  <2>13. f[i + 1] = Read(At(i), c)
    <3>1. f[i + 1] = Read(f[i], buf[i + 1])
      BY <1>6, <2>1
    <3>2. buf[i + 1] = c
      BY <1>2, <2>1 DEF c
    <3>3. f[i] = At(i)
      BY <1>8
    <3> HIDE DEF At
    <3> QED BY <3>1, <3>2, <3>3, Zenon
  <2>14. f[i + 1] = At(i + 1)
    BY <2>12, <2>13 DEF b
  <2> QED BY <2>1, <2>14
<1>9. \A i \in 0 .. h : i \in S
  <2> HIDE DEF S
  <2> QED BY <1>1, <1>7, <1>8, UpTo
<1>10. f[h] = At(h)
  <2>1. h \in 0 .. h
    BY <1>1
  <2>2. h \in S
    BY <1>9, <2>1
  <2> QED BY <2>2
<1>11. SubSeq(s, 1, h) = s
  <2> DEFINE a == SubSeq(s, 1, h)
  <2>1. a \in Seq(Nat) /\ Len(a) = h /\ \A k \in 1 .. h : a[k] = s[k]
    BY <1>1 DEF Chars
  <2> HIDE DEF a
  <2>2. a = s
    BY <1>1, <2>1, SeqEqual DEF Chars
  <2> QED BY <2>2 DEF a
<1>12. f[h] = [mode |-> m, held |-> s, out |-> Nothing]
  BY <1>10, <1>11
<1> QED BY <1>12 DEF h, s, m

\* x is y with the text out before it.
Joined(x, out, y) ==
    /\ x.mode = y.mode /\ x.held = y.held
    /\ \A b \in BOOLEAN : x.out[b] = out[b] \o y.out[b]

\* x is y with the text out before it, in either mode.
Follows(x, out, y) ==
    /\ x \in Outs /\ y \in Outs /\ out \in Outs
    /\ \A b \in BOOLEAN : x[b] = out[b] \o y[b]

LEMMA FollowsWith ==
    ASSUME NEW x, NEW out, NEW y, Follows(x, out, y), NEW m \in BOOLEAN, NEW text \in Chars
    PROVE  Follows(With(x, m, text), out, With(y, m, text))
<1>0. x \in Outs /\ y \in Outs /\ out \in Outs /\ \A b \in BOOLEAN : x[b] = out[b] \o y[b]
  BY Zenon DEF Follows
<1>1. /\ With(x, m, text)[m] = x[m] \o text /\ With(x, m, text)[~m] = x[~m]
      /\ With(y, m, text)[m] = y[m] \o text /\ With(y, m, text)[~m] = y[~m]
  BY <1>0, WithIs
<1>2. With(x, m, text) \in Outs /\ With(y, m, text) \in Outs
  BY <1>0, WithIs
<1>3. ASSUME NEW b \in BOOLEAN
      PROVE  With(x, m, text)[b] = out[b] \o With(y, m, text)[b]
  <2>1. CASE b = m
    <3> DEFINE u == out[m]
               w == y[m]
    <3>1. u \in Chars /\ w \in Chars
      BY <1>0 DEF Outs
    <3>2. x[m] = u \o w
      BY <1>0
    <3>3. (u \o w) \o text = u \o (w \o text)
      <4> HIDE DEF u, w
      <4> QED BY <3>1, ThreeTexts, Zenon
    <3> QED BY <1>1, <2>1, <3>2, <3>3, Zenon
  <2>2. CASE b = (~m)
    <3>1. x[~m] = out[~m] \o y[~m]
      BY <1>0, <2>2, Zenon
    <3> QED BY <1>1, <2>2, <3>1, Zenon
  <2>3. b = m \/ b = (~m)
    OBVIOUS
  <2> QED BY <2>1, <2>2, <2>3
<1> QED BY <1>0, <1>2, <1>3, Zenon DEF Follows

LEMMA JoinedRead ==
    ASSUME NEW x \in States, NEW y \in States, NEW out \in Outs, Joined(x, out, y), NEW c \in Nat
    PROVE  Joined(Read(x, c), out, Read(y, c))
<1> DEFINE p == Read(x, c)
           q == Read(y, c)
           m == x.mode
           held == x.held
           more == Append(held, c)
<1>1. y.mode = m /\ y.held = held /\ \A b \in BOOLEAN : x.out[b] = out[b] \o y.out[b]
  BY DEF Joined
<1>2. /\ m \in BOOLEAN /\ held \in Chars /\ more \in Chars /\ x.out \in Outs /\ y.out \in Outs
  BY DEF States, Chars
<1>3. /\ Whole(x, c) <=> Whole(y, c)
      /\ Grows(x, c) <=> Grows(y, c)
      /\ Again(x, c) <=> Again(y, c)
  BY <1>1, Zenon DEF Whole, Grows, Again
<1>4. ASSUME NEW text \in Chars
      PROVE  \A b \in BOOLEAN : With(x.out, m, text)[b] = out[b] \o With(y.out, m, text)[b]
  <2>1. Follows(x.out, out, y.out)
    BY <1>1, <1>2, Zenon DEF Follows
  <2>2. Follows(With(x.out, m, text), out, With(y.out, m, text))
    <3> HIDE DEF m
    <3> QED BY <1>2, <2>1, FollowsWith, Zenon
  <2> QED BY <2>2, Zenon DEF Follows
<1> SUFFICES Joined(p, out, q)
  OBVIOUS
<1>5. ASSUME NEW a, NEW s, NEW u, NEW w, p = [mode |-> a, held |-> s, out |-> u],
             q = [mode |-> a, held |-> s, out |-> w], \A b \in BOOLEAN : u[b] = out[b] \o w[b]
      PROVE  Joined(p, out, q)
  <2> HIDE DEF p, q
  <2>1. p.mode = a /\ p.held = s /\ p.out = u /\ q.mode = a /\ q.held = s /\ q.out = w
    BY <1>5
  <2> QED BY <1>5, <2>1, Zenon DEF Joined
<1>6. CASE Whole(x, c)
  <2>1. p = [mode |-> ~m, held |-> <<>>, out |-> x.out]
    BY <1>6, ReadIs, Zenon
  <2>2. q = [mode |-> ~y.mode, held |-> <<>>, out |-> y.out]
    BY <1>3, <1>6, ReadIs, Zenon
  <2>3. q = [mode |-> ~m, held |-> <<>>, out |-> y.out]
    BY <1>1, <2>2, Zenon
  <2> HIDE DEF p, q, m
  <2> QED BY <1>1, <1>5, <2>1, <2>3, Zenon
<1>7. CASE ~Whole(x, c) /\ Grows(x, c)
  <2>1. p = [mode |-> m, held |-> more, out |-> x.out]
    BY <1>7, ReadIs, Zenon
  <2>2. q = [mode |-> y.mode, held |-> Append(y.held, c), out |-> y.out]
    BY <1>3, <1>7, ReadIs, Zenon
  <2>3. q = [mode |-> m, held |-> more, out |-> y.out]
    BY <1>1, <2>2, Zenon
  <2> HIDE DEF p, q, m, more
  <2> QED BY <1>1, <1>5, <2>1, <2>3, Zenon
<1>8. CASE ~Whole(x, c) /\ ~Grows(x, c) /\ Again(x, c)
  <2>1. p = [mode |-> m, held |-> <<c>>, out |-> With(x.out, m, held)]
    BY <1>8, ReadIs, Zenon
  <2>2. q = [mode |-> y.mode, held |-> <<c>>, out |-> With(y.out, y.mode, y.held)]
    BY <1>3, <1>8, ReadIs, Zenon
  <2>3. q = [mode |-> m, held |-> <<c>>, out |-> With(y.out, m, held)]
    BY <1>1, <2>2, Zenon
  <2>4. \A b \in BOOLEAN : With(x.out, m, held)[b] = out[b] \o With(y.out, m, held)[b]
    <3> HIDE DEF m, held
    <3> QED BY <1>2, <1>4
  <2> DEFINE u == With(x.out, m, held)
             w == With(y.out, m, held)
  <2> HIDE DEF p, q, u, w, m, held
  <2> QED BY <1>5, <2>1, <2>3, <2>4, Zenon DEF u, w
<1>9. CASE ~Whole(x, c) /\ ~Grows(x, c) /\ ~Again(x, c)
  <2>1. p = [mode |-> m, held |-> <<>>, out |-> With(x.out, m, more)]
    BY <1>9, ReadIs, Zenon
  <2>2. q = [mode |-> y.mode, held |-> <<>>, out |-> With(y.out, y.mode, Append(y.held, c))]
    BY <1>3, <1>9, ReadIs, Zenon
  <2>3. q = [mode |-> m, held |-> <<>>, out |-> With(y.out, m, more)]
    BY <1>1, <2>2, Zenon
  <2>4. \A b \in BOOLEAN : With(x.out, m, more)[b] = out[b] \o With(y.out, m, more)[b]
    <3> HIDE DEF m, more
    <3> QED BY <1>2, <1>4
  <2> DEFINE u == With(x.out, m, more)
             w == With(y.out, m, more)
  <2> HIDE DEF p, q, u, w, m, more
  <2> QED BY <1>5, <2>1, <2>3, <2>4, Zenon DEF u, w
<1> QED BY <1>6, <1>7, <1>8, <1>9

\* Two readings that are joined stay so while they read the same.
LEMMA JoinedUpTo ==
    ASSUME NEW text \in Chars, NEW v, NEW g, Readings(g, v, text),
           NEW buf \in Chars, NEW w, NEW f, Readings(f, w, buf),
           NEW n \in 0 .. Len(text), NEW h \in 0 .. Len(buf), NEW k \in Nat,
           n + k <= Len(text), h + k <= Len(buf),
           \A i \in 1 .. k : text[n + i] = buf[h + i],
           NEW out \in Outs, Joined(g[n], out, f[h])
    PROVE  Joined(g[n + k], out, f[h + k])
<1> DEFINE S == {i \in 0 .. k : Joined(g[n + i], out, f[h + i])}
           lt == Len(text)
           lb == Len(buf)
<1>1. /\ lt \in Nat /\ lb \in Nat /\ n \in Nat /\ h \in Nat
      /\ n + k <= lt /\ h + k <= lb
  BY DEF Chars
<1>2. \A i \in 1 .. lt : text[i] \in Nat
  BY DEF Chars
<1>3. /\ \A i \in 1 .. lt : g[i] = Read(g[i - 1], text[i])
      /\ \A i \in 1 .. lb : f[i] = Read(f[i - 1], buf[i])
  BY Zenon DEF Readings
<1>4. /\ \A i \in 0 .. lt : g[i] \in States
      /\ \A i \in 0 .. lb : f[i] \in States
  BY ReadingAt
<1> HIDE DEF lt, lb
<1>5. 0 \in S
  <2>1. 0 \in 0 .. k /\ n + 0 = n /\ h + 0 = h
    BY <1>1
  <2> QED BY <2>1
<1>6. ASSUME NEW i \in 0 .. k - 1, i \in S
      PROVE  i + 1 \in S
  <2>1. /\ i + 1 \in 0 .. k /\ i + 1 \in 1 .. k
        /\ n + (i + 1) \in 1 .. lt /\ (n + (i + 1)) - 1 = n + i /\ n + i \in 0 .. lt
        /\ h + (i + 1) \in 1 .. lb /\ (h + (i + 1)) - 1 = h + i /\ h + i \in 0 .. lb
    BY <1>1
  <2> DEFINE c == text[n + (i + 1)]
  <2>2. c \in Nat /\ buf[h + (i + 1)] = c
    BY <1>2, <2>1
  <2>3. g[n + (i + 1)] = Read(g[n + i], c)
    BY <1>3, <2>1
  <2>4. f[h + (i + 1)] = Read(f[h + i], c)
    <3>1. f[h + (i + 1)] = Read(f[h + i], buf[h + (i + 1)])
      BY <1>3, <2>1
    <3> QED BY <2>2, <3>1, Zenon
  <2>5. g[n + i] \in States /\ f[h + i] \in States
    BY <1>4, <2>1
  <2>6. Joined(g[n + i], out, f[h + i])
    BY <1>6
  <2>7. Joined(g[n + (i + 1)], out, f[h + (i + 1)])
    <3> HIDE DEF c
    <3>1. Joined(Read(g[n + i], c), out, Read(f[h + i], c))
      BY <2>2, <2>5, <2>6, JoinedRead
    <3> QED BY <2>3, <2>4, <3>1, Zenon
  <2> QED BY <2>1, <2>7
<1>7. \A i \in 0 .. k : i \in S
  <2> HIDE DEF S
  <2> QED BY <1>5, <1>6, UpTo
<1>8. k \in 0 .. k
  OBVIOUS
<1> QED BY <1>7, <1>8

\* The reference of the beginning of a text.
LEMMA ReferenceAt ==
    ASSUME NEW text \in Chars, NEW g, Readings(g, Start, text), NEW n \in 0 .. Len(text)
    PROVE  Reference(SubSeq(text, 1, n)) = g[n]
<1> DEFINE u == SubSeq(text, 1, n)
           lt == Len(text)
<1>1. lt \in Nat /\ n \in Nat /\ n <= lt
  BY DEF Chars
<1>2. u \in Chars /\ Len(u) = n /\ \A i \in 1 .. n : u[i] = text[i]
  <2>1. \A i \in 1 .. n : text[i] \in Nat
    BY <1>1 DEF Chars
  <2> QED BY <1>1, <2>1 DEF Chars
<1> HIDE DEF u
<1>3. PICK f : Readings(f, Start, u) /\ Reference(u) = f[Len(u)]
  BY <1>2, ReferenceIs
<1>4. /\ f[0] = Start /\ g[0] = Start
      /\ \A i \in 1 .. n : f[i] = Read(f[i - 1], u[i])
      /\ \A i \in 1 .. lt : g[i] = Read(g[i - 1], text[i])
  BY <1>2, <1>3, Zenon DEF Readings
<1> HIDE DEF lt
<1> DEFINE S == {i \in 0 .. n : f[i] = g[i]}
<1>5. 0 \in S
  BY <1>1, <1>4
<1>6. ASSUME NEW i \in 0 .. n - 1, i \in S
      PROVE  i + 1 \in S
  <2>1. i + 1 \in 0 .. n /\ i + 1 \in 1 .. n /\ i + 1 \in 1 .. lt /\ (i + 1) - 1 = i
    BY <1>1
  <2>2. f[i + 1] = Read(f[i], u[i + 1]) /\ g[i + 1] = Read(g[i], text[i + 1])
    BY <1>4, <2>1
  <2>3. f[i] = g[i] /\ u[i + 1] = text[i + 1]
    BY <1>2, <1>6, <2>1
  <2> QED BY <2>1, <2>2, <2>3
<1>7. \A i \in 0 .. n : i \in S
  <2> HIDE DEF S
  <2> QED BY <1>1, <1>5, <1>6, UpTo
<1>8. n \in 0 .. n
  BY <1>1
<1>9. f[n] = g[n]
  BY <1>7, <1>8
<1> QED BY <1>2, <1>3, <1>9 DEF u

\* A chunk after n characters of a text is parsed as it would be read.
Beginning(text, n) == Reference(SubSeq(text, 1, n))

LEMMA BeginningIs ==
    ASSUME NEW text \in Chars, NEW n \in 0 .. Len(text)
    PROVE  Beginning(text, n) \in States /\ Beginning(text, 0) = Start
<1>1. Start = Fresh_(FALSE)
  BY DEF Start, Fresh_, Nothing
<1>2. Start \in States
  BY <1>1, FreshIs
<1>3. PICK g : Readings(g, Start, text)
  BY <1>2, ReadingsExist
<1>4. g[n] \in States
  BY <1>3, ReadingAt
<1>5. 0 \in 0 .. Len(text)
  BY DEF Chars
<1>6. g[0] = Start
  BY <1>3, Zenon DEF Readings
<1> QED BY <1>3, <1>4, <1>5, <1>6, ReferenceAt DEF Beginning

LEMMA ChunkIs ==
    ASSUME NEW text \in Chars, NEW n \in 0 .. Len(text), NEW k \in Nat, n + k <= Len(text)
    PROVE  LET r == Beginning(text, n)
               q == Beginning(text, n + k)
               p == Parse_(r.held \o SubSeq(text, n + 1, n + k), r.mode)
           IN  /\ q.mode = p.mode /\ q.held = p.rest
               /\ \A b \in BOOLEAN : q.out[b] = r.out[b] \o p.out[b]
<1> DEFINE r == Beginning(text, n)
           q == Beginning(text, n + k)
           next == SubSeq(text, n + 1, n + k)
           buf == r.held \o next
           p == Parse_(buf, r.mode)
           h == Len(r.held)
           lt == Len(text)
<1>1. lt \in Nat /\ n \in Nat /\ n + k <= lt /\ n + k \in 0 .. lt
  BY DEF Chars
<1>2. r \in States
  BY BeginningIs
<1>3. Start = Fresh_(FALSE) /\ Start \in States
  <2>1. Start = Fresh_(FALSE)
    BY DEF Start, Fresh_, Nothing
  <2> QED BY <2>1, FreshIs
<1>4. PICK g : Readings(g, Start, text)
  BY <1>3, ReadingsExist
<1>5. r = g[n] /\ q = g[n + k]
  BY <1>1, <1>4, ReferenceAt DEF Beginning
<1>6. HeldBegins(g[n])
  <2>1. Start.held = <<>> /\ Start.mode \in BOOLEAN
    BY DEF Start
  <2>2. HeldBegins(Start)
    BY <2>1, NothingHeld
  <2> QED BY <1>4, <2>2, AllHold
<1>7. HeldBegins(r)
  BY <1>5, <1>6, Zenon
<1>8. r.mode \in BOOLEAN /\ r.held \in Chars /\ r.out \in Outs /\ h \in Nat
  <2> HIDE DEF r
  <2> QED BY <1>2 DEF States, Chars
<1>9. next \in Chars /\ Len(next) = k /\ \A i \in 1 .. k : next[i] = text[n + i]
  <2>1. \A i \in n + 1 .. n + k : text[i] \in Nat
    BY <1>1 DEF Chars
  <2> QED BY <1>1, <2>1 DEF Chars
<1> HIDE DEF r, q, next, lt
<1>10. /\ buf \in Chars /\ Len(buf) = h + k
       /\ \A i \in 1 .. k : buf[h + i] = next[i]
  <2>1. buf \in Chars
    BY <1>8, <1>9, ConcatProperties, Zenon DEF Chars
  <2>2. Len(buf) = Len(r.held) + Len(next)
    <3> DEFINE s == r.held
    <3>1. s \in Chars
      BY <1>8
    <3>2. next \in Chars
      BY <1>9
    <3> HIDE DEF s
    <3>3. Len(s \o next) = Len(s) + Len(next)
      BY <3>1, <3>2, ConcatProperties, Zenon DEF Chars
    <3> QED BY <3>3 DEF s
  <2>3. \A i \in 1 .. Len(r.held) + Len(next) :
            buf[i] = IF i <= Len(r.held) THEN r.held[i] ELSE next[i - Len(r.held)]
    BY <1>8, <1>9, ConcatProperties, Zenon DEF Chars
  <2> HIDE DEF buf
  <2>4. Len(buf) = h + k /\ \A i \in 1 .. h + k : buf[i] = IF i <= h THEN r.held[i] ELSE next[i - h]
    BY <1>9, <2>2, <2>3, Zenon
  <2> HIDE DEF h
  <2>6. \A i \in 1 .. k : h + i \in 1 .. h + k /\ ~(h + i <= h) /\ (h + i) - h = i
    BY <1>8
  <2> QED BY <2>1, <2>4, <2>6
<1>11. PICK f : Readings(f, Fresh_(r.mode), buf)
  <2>1. Fresh_(r.mode) \in States
    BY <1>8, FreshIs
  <2> HIDE DEF buf
  <2> QED BY <1>10, <2>1, ReadingsExist
<1>12. f[h] = [mode |-> r.mode, held |-> r.held, out |-> Nothing]
  BY <1>2, <1>7, <1>9, <1>11, ReadAgain
<1>13. Joined(g[n], r.out, f[h])
  <2>1. \A b \in BOOLEAN : r.out[b] = r.out[b] \o Nothing[b]
    <3> SUFFICES ASSUME NEW b \in BOOLEAN PROVE r.out[b] = r.out[b] \o Nothing[b]
      OBVIOUS
    <3> DEFINE u == r.out[b]
    <3>1. u \in Chars /\ Nothing[b] = <<>>
      BY <1>8 DEF Outs, Nothing
    <3> HIDE DEF u
    <3>2. u \o <<>> = u
      BY <3>1, ConcatEmptySeq DEF Chars
    <3>3. u = u \o Nothing[b]
      BY <3>1, <3>2, Zenon
    <3> QED BY <3>3 DEF u
  <2>2. f[h].mode = r.mode /\ f[h].held = r.held /\ f[h].out = Nothing
    BY <1>12
  <2>3. Joined(r, r.out, f[h])
    BY <2>1, <2>2, Zenon DEF Joined
  <2> QED BY <1>5, <2>3, Zenon
<1>14. Joined(g[n + k], r.out, f[h + k])
  <2>1. /\ h \in 0 .. Len(buf) /\ h + k <= Len(buf) /\ n + k <= Len(text)
    <3> HIDE DEF h, buf
    <3> QED BY <1>8, <1>10
  <2>2. \A i \in 1 .. k : text[n + i] = buf[h + i]
    BY <1>9, <1>10, Zenon
  <2> HIDE DEF h, buf
  <2> QED BY <1>4, <1>8, <1>10, <1>11, <1>13, <2>1, <2>2, JoinedUpTo
<1> HIDE DEF h, buf
<1>15. f[h + k] = [mode |-> p.mode, held |-> p.rest, out |-> p.out]
  BY <1>8, <1>10, <1>11, ParseIs
<1> HIDE DEF p
<1>16. f[h + k].mode = p.mode /\ f[h + k].held = p.rest /\ f[h + k].out = p.out
  BY <1>15
<1>17. Joined(q, r.out, f[h + k])
  BY <1>5, <1>14, Zenon
<1>18. /\ q.mode = p.mode /\ q.held = p.rest
       /\ \A b \in BOOLEAN : q.out[b] = r.out[b] \o p.out[b]
  BY <1>16, <1>17, Zenon DEF Joined
<1> QED BY <1>18 DEF q, r, p, buf, next

----------------------------------------------------------------------------
(* feed *)

ParserIs ==
    /\ streamText \in Chars /\ readTo \in 0 .. Len(streamText)
    /\ inThinking \in BOOLEAN /\ sawReasoning \in BOOLEAN
    /\ fieldText \in Chars /\ afterText \in Chars /\ tagged \in 0 .. Len(streamText)
    /\ DividedAsSent
    /\ OnlyBeginningsHeld
    /\ TagsDecide

\* The next k characters are a text.
LEMMA NextIs ==
    ASSUME NEW text \in Chars, NEW n \in Nat, NEW k \in Nat, n + k <= Len(text)
    PROVE  SubSeq(text, n + 1, n + k) \in Chars
<1> DEFINE a == n + 1
           b == n + k
<1>1. a \in Nat \ {0} /\ b \in Nat /\ a <= b + 1 /\ b <= Len(text)
  OBVIOUS
<1> HIDE DEF a, b
<1>2. SubSeq(text, a, b) \in Chars
  BY <1>1, PartIs
<1> QED BY <1>2 DEF a, b

LEMMA JoinIs ==
    ASSUME NEW s \in Chars, NEW u \in Chars
    PROVE  s \o u \in Chars /\ s \o <<>> = s
<1>1. s \o u \in Chars
  BY ConcatProperties, Zenon DEF Chars
<1>2. s \o <<>> = s
  BY ConcatEmptySeq, Zenon DEF Chars
<1> QED BY <1>1, <1>2

\* What the reference makes of what was sent before the field.
LEMMA TaggedIs ==
    ASSUME streamText \in Chars, tagged \in 0 .. Len(streamText)
    PROVE  /\ Tagged = Beginning(streamText, tagged)
           /\ Tagged.mode \in BOOLEAN /\ Tagged.held \in Chars
           /\ Tagged.out[TRUE] \in Chars /\ Tagged.out[FALSE] \in Chars
<1>1. Tagged = Beginning(streamText, tagged)
  BY DEF Tagged, Beginning
<1>2. Tagged \in States
  BY <1>1, BeginningIs, Zenon
<1> HIDE DEF Tagged
<1> QED BY <1>1, <1>2 DEF States, Outs

LEMMA ParserBegins ==
    ASSUME ParserInit
    PROVE  ParserIs
<1>1. /\ streamText \in Texts /\ readTo = 0
      /\ inThinking = FALSE /\ buffer = <<>> /\ sawReasoning = FALSE
      /\ thinkingOut = <<>> /\ contentOut = <<>>
      /\ tagged = 0 /\ fieldText = <<>> /\ afterText = <<>>
  BY DEF ParserInit
<1>2. streamText \in Chars
  BY <1>1, TextAssumption DEF Chars
<1>3. Len(streamText) \in Nat /\ 0 \in 0 .. Len(streamText)
  BY <1>2 DEF Chars
<1>4. <<>> \in Chars /\ <<>> \o <<>> = <<>>
  <2>1. <<>> \in Chars
    BY DEF Chars
  <2> QED BY <2>1, JoinIs
<1>5. Tagged = Start
  <2>1. Beginning(streamText, 0) = Start
    BY <1>2, <1>3, BeginningIs
  <2> QED BY <1>1, <2>1 DEF Beginning, Tagged
<1>6. /\ Start.mode = FALSE /\ Start.held = <<>>
      /\ Start.out[TRUE] = <<>> /\ Start.out[FALSE] = <<>>
  BY DEF Start
<1>7. DividedAsSent /\ OnlyBeginningsHeld /\ TagsDecide
  BY <1>1, <1>4, <1>5, <1>6, Zenon DEF DividedAsSent, OnlyBeginningsHeld, TagsDecide
<1> QED BY <1>1, <1>2, <1>3, <1>4, <1>7, Zenon DEF ParserIs

\* Once the field is used: what is fed then is written after what there is, and
\* what came before the field stays divided as it was.
LEMMA ParserLater ==
    ASSUME ParserIs, NEW s \in Chars, NEW t \in Chars,
           streamText' = streamText, readTo' \in 0 .. Len(streamText),
           buffer' = buffer, tagged' = tagged, sawReasoning' = TRUE, inThinking' \in BOOLEAN,
           thinkingOut' = thinkingOut \o s, fieldText' = fieldText \o s,
           contentOut' = contentOut \o t, afterText' = afterText \o t
    PROVE  ParserIs'
<1>1. /\ streamText \in Chars /\ fieldText \in Chars /\ afterText \in Chars
      /\ tagged \in 0 .. Len(streamText)
      /\ thinkingOut = Tagged.out[TRUE] \o fieldText
      /\ contentOut = Tagged.out[FALSE] \o afterText
      /\ buffer = Tagged.held
  BY Zenon DEF ParserIs, DividedAsSent, OnlyBeginningsHeld
<1>2. Tagged.out[TRUE] \in Chars /\ Tagged.out[FALSE] \in Chars
  BY <1>1, TaggedIs, Zenon
<1>3. Tagged' = Tagged
  BY Zenon DEF Tagged
<1>4. fieldText' \in Chars /\ afterText' \in Chars
  BY <1>1, JoinIs, Zenon
<1> DEFINE a == Tagged.out[TRUE]
           b == Tagged.out[FALSE]
<1>5. (a \o fieldText) \o s = a \o (fieldText \o s)
  <2>1. a \in Chars
    BY <1>2
  <2> HIDE DEF a
  <2> QED BY <1>1, <2>1, ThreeTexts, Zenon
<1>6. (b \o afterText) \o t = b \o (afterText \o t)
  <2>1. b \in Chars
    BY <1>2
  <2> HIDE DEF b
  <2> QED BY <1>1, <2>1, ThreeTexts, Zenon
<1>7. DividedAsSent'
  BY <1>1, <1>3, <1>5, <1>6, Zenon DEF DividedAsSent, a, b
<1>8. OnlyBeginningsHeld'
  BY <1>1, <1>3, Zenon DEF OnlyBeginningsHeld
<1>9. TagsDecide'
  BY Zenon DEF TagsDecide
<1>10. /\ streamText' \in Chars /\ readTo' \in 0 .. Len(streamText')
       /\ sawReasoning' \in BOOLEAN /\ tagged' \in 0 .. Len(streamText')
  BY <1>1, Zenon
<1> QED BY <1>4, <1>7, <1>8, <1>9, <1>10, Zenon DEF ParserIs

LEMMA ParserContent ==
    ASSUME ParserIs, NEW k \in Nat \ {0}, FeedContent(k)
    PROVE  ParserIs'
<1> DEFINE next == Next_(k)
<1>1. /\ streamText \in Chars /\ readTo \in 0 .. Len(streamText)
      /\ inThinking \in BOOLEAN /\ sawReasoning \in BOOLEAN
      /\ fieldText \in Chars /\ afterText \in Chars /\ tagged \in 0 .. Len(streamText)
      /\ DividedAsSent /\ OnlyBeginningsHeld /\ TagsDecide
  BY Zenon DEF ParserIs
<1>2. /\ k \in 1 .. Len(streamText) - readTo
      /\ readTo' = readTo + k
      /\ streamText' = streamText /\ sawReasoning' = sawReasoning /\ fieldText' = fieldText
  BY DEF FeedContent
<1>3. /\ Len(streamText) \in Nat /\ readTo \in Nat /\ readTo + k <= Len(streamText)
      /\ readTo' \in 0 .. Len(streamText)
  <2>1. Len(streamText) \in Nat
    BY <1>1 DEF Chars
  <2> QED BY <1>1, <1>2, <2>1
<1>4. next \in Chars
  <2>1. k \in Nat
    OBVIOUS
  <2> QED BY <1>1, <1>3, <2>1, NextIs, ZenonT(60) DEF Next_
<1> HIDE DEF next
<1>5. CASE sawReasoning
  <2>1. /\ contentOut' = contentOut \o next /\ inThinking' = FALSE
        /\ afterText' = afterText \o next
        /\ buffer' = buffer /\ thinkingOut' = thinkingOut /\ tagged' = tagged
    BY <1>5 DEF FeedContent, next
  <2>2. <<>> \in Chars /\ thinkingOut \o <<>> = thinkingOut /\ fieldText \o <<>> = fieldText
    <3>1. <<>> \in Chars
      BY DEF Chars
    <3>2. Tagged.out[TRUE] \in Chars
      BY <1>1, TaggedIs, Zenon
    <3>3. thinkingOut \in Chars
      BY <1>1, <3>2, JoinIs, Zenon DEF DividedAsSent
    <3> QED BY <1>1, <3>1, <3>3, JoinIs, Zenon
  <2>3. inThinking' \in BOOLEAN /\ sawReasoning' = TRUE
    BY <1>1, <1>2, <1>5, <2>1
  <2> QED BY <1>2, <1>3, <1>4, <2>1, <2>2, <2>3, ParserLater, ZenonT(60)
<1>6. CASE ~sawReasoning
  <2> DEFINE p == Parse_(buffer \o next, inThinking)
             r == Beginning(streamText, readTo)
             q == Beginning(streamText, readTo + k)
  <2>1. /\ thinkingOut' = thinkingOut \o p.out[TRUE]
        /\ contentOut' = contentOut \o p.out[FALSE]
        /\ inThinking' = p.mode /\ buffer' = p.rest
        /\ tagged' = tagged + k /\ afterText' = afterText
    BY <1>6 DEF FeedContent, ParseTags, next
  <2>2. tagged = readTo /\ fieldText = <<>> /\ afterText = <<>>
    BY <1>1, <1>6 DEF TagsDecide
  <2>3. Tagged = r
    BY <2>2 DEF Tagged, Beginning
  <2>4. /\ r.out[TRUE] \in Chars /\ r.out[FALSE] \in Chars
    BY <1>1, <2>3, TaggedIs, Zenon
  <2>5. /\ thinkingOut = r.out[TRUE] /\ contentOut = r.out[FALSE]
        /\ inThinking = r.mode /\ buffer = r.held
    <3>1. inThinking = r.mode /\ buffer = r.held
      BY <1>1, <1>6, <2>3, Zenon DEF TagsDecide, OnlyBeginningsHeld
    <3>2. thinkingOut = r.out[TRUE] \o <<>> /\ contentOut = r.out[FALSE] \o <<>>
      BY <1>1, <2>2, <2>3, Zenon DEF DividedAsSent
    <3> QED BY <2>4, <3>1, <3>2, JoinIs, Zenon
  <2>6. /\ q.mode = p.mode /\ q.held = p.rest
        /\ \A b \in BOOLEAN : q.out[b] = r.out[b] \o p.out[b]
    <3>1. LET d == Parse_(r.held \o SubSeq(streamText, readTo + 1, readTo + k), r.mode)
          IN  /\ q.mode = d.mode /\ q.held = d.rest
              /\ \A b \in BOOLEAN : q.out[b] = r.out[b] \o d.out[b]
      <4>1. k \in Nat
        OBVIOUS
      <4> QED BY <1>1, <1>3, <4>1, ChunkIs, ZenonT(60)
    <3>2. next = SubSeq(streamText, readTo + 1, readTo + k)
      BY DEF next, Next_
    <3> HIDE DEF r, q
    <3> QED BY <2>5, <3>1, <3>2, Zenon
  <2>7. tagged' = readTo' /\ tagged' \in 0 .. Len(streamText')
    BY <1>2, <1>3, <2>1, <2>2
  <2>8. Tagged' = q
    BY <1>2, <2>7, Zenon DEF Tagged, Beginning
  <2>9. q \in States
    <3>1. readTo + k \in 0 .. Len(streamText)
      BY <1>3
    <3> QED BY <1>1, <3>1, BeginningIs
  <2> HIDE DEF p, q, r
  <2>10. q.mode \in BOOLEAN /\ q.out[TRUE] \in Chars /\ q.out[FALSE] \in Chars
    BY <2>9 DEF States, Outs
  <2>11. /\ thinkingOut' = q.out[TRUE] /\ contentOut' = q.out[FALSE]
         /\ inThinking' = q.mode /\ buffer' = q.held
    BY <2>1, <2>5, <2>6
  <2>12. q.out[TRUE] \o <<>> = q.out[TRUE] /\ q.out[FALSE] \o <<>> = q.out[FALSE]
    BY <2>10, JoinIs, Zenon
  <2>13. fieldText' = <<>> /\ afterText' = <<>>
    BY <1>2, <2>1, <2>2
  <2>14. DividedAsSent'
    BY <2>8, <2>11, <2>12, <2>13, Zenon DEF DividedAsSent
  <2>15. OnlyBeginningsHeld' /\ TagsDecide'
    BY <2>7, <2>8, <2>11, <2>13, Zenon DEF OnlyBeginningsHeld, TagsDecide
  <2>16. /\ streamText' \in Chars /\ readTo' \in 0 .. Len(streamText')
         /\ sawReasoning' \in BOOLEAN /\ inThinking' \in BOOLEAN
         /\ fieldText' \in Chars /\ afterText' \in Chars
    BY <1>1, <1>2, <1>3, <2>1, <2>10, <2>11, Zenon
  <2> QED BY <2>7, <2>14, <2>15, <2>16, Zenon DEF ParserIs
<1> QED BY <1>5, <1>6

LEMMA ParserReasoning ==
    ASSUME ParserIs, NEW k \in Nat \ {0}, NEW j \in 0 .. 1, FeedReasoning(k, j)
    PROVE  ParserIs'
<1> DEFINE next == Next_(k)
           more == SubSeq(streamText, readTo + k + 1, readTo + k + j)
<1>1. streamText \in Chars /\ readTo \in 0 .. Len(streamText)
  BY Zenon DEF ParserIs
<1>2. /\ k \in 1 .. Len(streamText) - readTo /\ j \in 0 .. Len(streamText) - readTo - k
      /\ readTo' = readTo + k + j
      /\ streamText' = streamText /\ buffer' = buffer /\ tagged' = tagged
      /\ sawReasoning' = TRUE /\ inThinking' = (j = 0)
      /\ thinkingOut' = thinkingOut \o next /\ contentOut' = contentOut \o more
      /\ fieldText' = fieldText \o next /\ afterText' = afterText \o more
  BY DEF FeedReasoning
<1>3. /\ Len(streamText) \in Nat /\ readTo \in Nat /\ j \in Nat
      /\ readTo + k <= Len(streamText) /\ readTo + k + j <= Len(streamText)
      /\ readTo + k \in Nat
  <2>1. Len(streamText) \in Nat
    BY <1>1 DEF Chars
  <2> QED BY <1>1, <1>2, <2>1
<1>4. readTo' \in 0 .. Len(streamText)
  BY <1>2, <1>3
<1>5. next \in Chars
  <2>1. k \in Nat
    OBVIOUS
  <2> QED BY <1>1, <1>3, <2>1, NextIs, ZenonT(60) DEF Next_
<1>6. more \in Chars
  BY <1>1, <1>3, NextIs, ZenonT(60)
<1> HIDE DEF next, more
<1>7. inThinking' \in BOOLEAN
  BY <1>2
<1> QED BY <1>2, <1>4, <1>5, <1>6, <1>7, ParserLater, ZenonT(60)

LEMMA ParserKeeps ==
    ASSUME ParserIs, [ParserNext]_parserVars
    PROVE  ParserIs'
<1>1. CASE UNCHANGED parserVars
  BY <1>1, Zenon DEF ParserIs, DividedAsSent, OnlyBeginningsHeld, TagsDecide, Tagged,
                     parserVars, parserState, sentText
<1>2. CASE ParserNext
  <2>1. \A k \in 1 .. MaxChunk : k \in Nat \ {0}
    BY TextAssumption
  <2> QED BY <1>2, <2>1, ParserContent, ParserReasoning, Zenon DEF ParserNext
<1> QED BY <1>1, <1>2

\* Whatever the tags are (none beginning inside the other), whatever is streamed and
\* wherever the chunks cut it: what comes before the server uses its field is divided
\* as a reading of one character at a time divides it; what comes in the field follows
\* as thinking, what comes beside or after it as content; and the buffer holds the
\* beginning of a tag that the tagged text ends with, and nothing else.  That
\* beginning is what the parser keeps back for good if the stream or the tags end there.
THEOREM ParserSplits == ParserSpec => []SplitSound
<1>1. ParserInit => ParserIs
  BY ParserBegins
<1>2. ParserIs /\ [ParserNext]_parserVars => ParserIs'
  BY ParserKeeps
<1>3. ParserIs => SplitSound
  BY DEF ParserIs, SplitSound
<1> QED BY <1>1, <1>2, <1>3, PTL DEF ParserSpec

================================================================================
