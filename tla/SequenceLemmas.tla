--------------------------- MODULE SequenceLemmas ---------------------------
(***************************************************************************)
(* Facts about numbers and sequences that the proofs over streams and      *)
(* lists rest on.  Induction is stated for a set of numbers, not for a     *)
(* predicate: what is shown of every number is written as the set of the   *)
(* numbers for which it holds.                                             *)
(***************************************************************************)
EXTENDS Integers, Sequences, SequencesExt, WellFoundedInduction, SequenceTheorems, TLAPS

\* A set of numbers that has one has a smallest one.
LEMMA SmallestOf ==
  ASSUME NEW S \in SUBSET Nat, S # {}
  PROVE  \E n \in S : \A m \in S : n <= m
<1>1. \E n \in S : \A m \in S : <<m, n>> \notin OpToRel(<, Nat)
  BY NatLessThanWellFounded, WFMin
<1>2. \A m, n \in Nat : m < n => <<m, n>> \in OpToRel(<, Nat)
  BY Zenon DEF OpToRel
<1>3. \A m, n \in Nat : ~(m < n) => n <= m
  OBVIOUS
<1> QED BY <1>1, <1>2, <1>3, Zenon

\* A set of numbers with zero and with the successor of each of its numbers
\* has them all.
LEMMA NumberInduction ==
  ASSUME NEW S, 0 \in S, \A n \in Nat : n \in S => n + 1 \in S
  PROVE  Nat \subseteq S
<1> DEFINE R == Nat \ S
<1> SUFFICES ASSUME R # {} PROVE FALSE
  OBVIOUS
<1>1. PICK n \in R : \A m \in R : n <= m
  BY SmallestOf
<1>2. n - 1 \in Nat /\ n - 1 \notin R
  BY <1>1
<1> QED BY <1>1, <1>2

-----------------------------------------------------------------------------
(* FlattenSeq *)

Flattens(ss, f) ==
  f = [i \in 1..Len(ss) |-> IF i = 1 THEN ss[i] ELSE f[i - 1] \o ss[i]]

\* The recursive function by which FlattenSeq is defined exists.
LEMMA FlattensExists ==
  ASSUME NEW S, NEW ss \in Seq(Seq(S))
  PROVE  \E f \in [1..Len(ss) -> Seq(S)] : Flattens(ss, f)
<1> DEFINE Part(n, f) == \A i \in 1..n : f[i] = IF i = 1 THEN ss[i] ELSE f[i - 1] \o ss[i]
           Has(n) == \E f \in [1..n -> Seq(S)] : Part(n, f)
           N == {n \in Nat : n <= Len(ss) => Has(n)}
<1>0. Len(ss) \in Nat /\ \A i \in 1..Len(ss) : ss[i] \in Seq(S)
  OBVIOUS
<1>1. Has(0)
  <2>1. 1..0 = {}
    OBVIOUS
  <2> DEFINE f == [i \in 1..0 |-> <<>>]
  <2>2. f \in [1..0 -> Seq(S)] /\ Part(0, f)
    BY <2>1
  <2> QED BY <2>2
<1>2. ASSUME NEW n \in Nat, n + 1 <= Len(ss), Has(n) PROVE Has(n + 1)
  <2>1. PICK f \in [1..n -> Seq(S)] : Part(n, f)
    BY <1>2
  <2> DEFINE last == IF n = 0 THEN ss[1] ELSE f[n] \o ss[n + 1]
             g == [i \in 1..(n + 1) |-> IF i = n + 1 THEN last ELSE f[i]]
  <2>2. last \in Seq(S)
    BY <1>0, <1>2
  <2> HIDE DEF last
  <2>3. g \in [1..(n + 1) -> Seq(S)]
    BY <2>2
  <2>4. Part(n + 1, g)
    <3> SUFFICES ASSUME NEW i \in 1..(n + 1)
                 PROVE  g[i] = IF i = 1 THEN ss[i] ELSE g[i - 1] \o ss[i]
      OBVIOUS
    <3>1. CASE i = n + 1
      <4>1. g[i] = last
        BY <3>1
      <4>2. i # 1 => g[i - 1] = f[n]
        BY <3>1
      <4> QED BY <3>1, <4>1, <4>2 DEF last
    <3>2. CASE i # n + 1
      <4>1. i \in 1..n /\ g[i] = f[i] /\ (i # 1 => g[i - 1] = f[i - 1])
        BY <3>2
      <4> QED BY <2>1, <4>1
    <3> QED BY <3>1, <3>2
  <2> QED BY <2>3, <2>4
<1> HIDE DEF Has
<1>3. Nat \subseteq N
  <2>1. 0 \in N
    BY <1>1
  <2>2. ASSUME NEW n \in Nat, n \in N PROVE n + 1 \in N
    BY <1>0, <1>2, <2>2
  <2> HIDE DEF N
  <2> QED BY <2>1, <2>2, NumberInduction
<1>4. Has(Len(ss))
  BY <1>0, <1>3
<1>5. PICK f \in [1..Len(ss) -> Seq(S)] : Part(Len(ss), f)
  BY <1>4 DEF Has
<1>6. Flattens(ss, f)
  BY <1>5 DEF Flattens
<1> QED BY <1>6

Begins(ss, tt) == Len(ss) <= Len(tt) /\ \A i \in 1..Len(ss) : ss[i] = tt[i]

AgreeUpTo(m, f, g) == \A i \in 1..m : f[i] = g[i]

\* Its values depend on the sequences up to the argument only.
LEMMA FlattensAgree ==
  \A ss, tt, f, g :
    Len(ss) \in Nat /\ Len(tt) \in Nat /\ Flattens(ss, f) /\ Flattens(tt, g) /\ Begins(ss, tt)
      => AgreeUpTo(Len(ss), f, g)
<1> SUFFICES ASSUME NEW ss, NEW tt, NEW f, NEW g, Len(ss) \in Nat, Len(tt) \in Nat,
                    Flattens(ss, f), Flattens(tt, g), Begins(ss, tt)
             PROVE  \A i \in 1..Len(ss) : f[i] = g[i]
  BY DEF AgreeUpTo
<1> DEFINE N == {n \in Nat : n \in 1..Len(ss) => f[n] = g[n]}
<1>0. /\ Len(ss) \in Nat /\ Len(tt) \in Nat /\ Len(ss) <= Len(tt)
      /\ \A i \in 1..Len(ss) : ss[i] = tt[i]
  BY DEF Begins
<1>1. \A i \in 1..Len(ss) : f[i] = IF i = 1 THEN ss[i] ELSE f[i - 1] \o ss[i]
  BY DEF Flattens
<1>2. \A i \in 1..Len(tt) : g[i] = IF i = 1 THEN tt[i] ELSE g[i - 1] \o tt[i]
  BY DEF Flattens
<1>3. 0 \in N
  OBVIOUS
<1>4. ASSUME NEW n \in Nat, n \in N PROVE n + 1 \in N
  <2> SUFFICES ASSUME n + 1 \in 1..Len(ss) PROVE f[n + 1] = g[n + 1]
    OBVIOUS
  <2>1. n + 1 \in 1..Len(tt) /\ ss[n + 1] = tt[n + 1]
    BY <1>0
  <2>2. CASE n = 0
    BY <1>1, <1>2, <2>1, <2>2
  <2>3. CASE n # 0
    <3>1. f[n] = g[n]
      BY <1>4, <2>3
    <3>2. (n + 1) - 1 = n /\ n + 1 # 1
      BY <2>3
    <3>3. f[n + 1] = f[n] \o ss[n + 1]
      BY <1>1, <3>2, Zenon
    <3>4. g[n + 1] = g[n] \o tt[n + 1]
      BY <1>2, <2>1, <3>2, Zenon
    <3> QED BY <2>1, <3>1, <3>3, <3>4
  <2> QED BY <2>2, <2>3
<1>5. Nat \subseteq N
  <2> HIDE DEF N
  <2> QED BY <1>3, <1>4, NumberInduction
<1> QED BY <1>0, <1>5

LEMMA FlattenIs ==
  ASSUME NEW S, NEW ss \in Seq(Seq(S)), ss # <<>>
  PROVE  \E f \in [1..Len(ss) -> Seq(S)] : Flattens(ss, f) /\ FlattenSeq(ss) = f[Len(ss)]
<1> DEFINE f == CHOOSE h : Flattens(ss, h)
<1>1. PICK g \in [1..Len(ss) -> Seq(S)] : Flattens(ss, g)
  BY FlattensExists
<1>2. Flattens(ss, f)
  BY <1>1
<1>3. FlattenSeq(ss) = f[Len(ss)]
  BY DEF FlattenSeq, Flattens
<1> HIDE DEF f
<1>4. \A i \in 1..Len(ss) : f[i] = g[i]
  <2>1. Begins(ss, ss) /\ Len(ss) \in Nat
    BY DEF Begins
  <2>2. AgreeUpTo(Len(ss), f, g)
    BY <1>1, <1>2, <2>1, FlattensAgree
  <2> QED BY <2>2 DEF AgreeUpTo
<1>5. f \in [1..Len(ss) -> Seq(S)]
  <2>1. DOMAIN f = 1..Len(ss) /\ f = [i \in 1..Len(ss) |-> f[i]]
    BY <1>2 DEF Flattens
  <2> QED BY <1>1, <1>4, <2>1
<1> QED BY <1>2, <1>3, <1>5

LEMMA FlattenEmpty == FlattenSeq(<<>>) = <<>>
BY DEF FlattenSeq

LEMMA FlattenType ==
  ASSUME NEW S, NEW ss \in Seq(Seq(S))
  PROVE  FlattenSeq(ss) \in Seq(S)
<1>1. CASE ss = <<>>
  <2>1. <<>> \in Seq(S)
    OBVIOUS
  <2> QED BY <1>1, <2>1, FlattenEmpty, Zenon
<1>2. CASE ss # <<>>
  <2>1. PICK f \in [1..Len(ss) -> Seq(S)] : FlattenSeq(ss) = f[Len(ss)]
    BY <1>2, FlattenIs
  <2>2. Len(ss) \in 1..Len(ss)
    BY <1>2
  <2> QED BY <2>1, <2>2
<1> QED BY <1>1, <1>2

LEMMA FlattenAppend ==
  ASSUME NEW S, NEW ss \in Seq(Seq(S)), NEW t \in Seq(S)
  PROVE  FlattenSeq(Append(ss, t)) = FlattenSeq(ss) \o t
<1> DEFINE tt == Append(ss, t)
           n == Len(ss)
<1>1. tt \in Seq(Seq(S)) /\ tt # <<>> /\ Len(tt) = n + 1 /\ tt[n + 1] = t
      /\ n \in Nat /\ \A i \in 1..n : tt[i] = ss[i]
  BY AppendProperties
<1> HIDE DEF tt
<1>2. PICK g \in [1..(n + 1) -> Seq(S)] : Flattens(tt, g) /\ FlattenSeq(tt) = g[n + 1]
  BY <1>1, FlattenIs
<1>3. g[n + 1] = IF n = 0 THEN t ELSE g[n] \o t
  <2>1. \A i \in 1..(n + 1) : g[i] = IF i = 1 THEN tt[i] ELSE g[i - 1] \o tt[i]
    BY <1>1, <1>2 DEF Flattens
  <2>2. n + 1 \in 1..(n + 1) /\ (n + 1) - 1 = n /\ (n + 1 = 1 <=> n = 0)
    BY <1>1
  <2> QED BY <1>1, <2>1, <2>2, Zenon
<1>4. CASE ss = <<>>
  <2>1. n = 0 /\ FlattenSeq(ss) = <<>> /\ <<>> \o t = t
    BY <1>4, FlattenEmpty
  <2> QED BY <1>2, <1>3, <2>1 DEF tt
<1>5. CASE ss # <<>>
  <2>1. n # 0 /\ n \in 1..n
    BY <1>1, <1>5
  <2>2. PICK f \in [1..n -> Seq(S)] : Flattens(ss, f) /\ FlattenSeq(ss) = f[n]
    BY <1>5, FlattenIs
  <2>3. f[n] = g[n]
    <3>1. Begins(ss, tt) /\ Len(ss) \in Nat /\ Len(tt) \in Nat
      BY <1>1 DEF Begins
    <3>2. AgreeUpTo(n, f, g)
      <4>1. Flattens(ss, f) /\ Flattens(tt, g)
        BY <1>2, <2>2
      <4> QED BY ONLY <3>1, <4>1, FlattensAgree
    <3> QED BY <2>1, <3>2 DEF AgreeUpTo
  <2> QED BY <1>1, <1>2, <1>3, <2>1, <2>2, <2>3 DEF tt
<1> QED BY <1>4, <1>5

LEMMA FlattenConcat ==
  ASSUME NEW S, NEW ss \in Seq(Seq(S)), NEW tt \in Seq(Seq(S))
  PROVE  FlattenSeq(ss \o tt) = FlattenSeq(ss) \o FlattenSeq(tt)
<1> DEFINE Holds(n) == \A uu \in Seq(Seq(S)) :
                         Len(uu) = n => FlattenSeq(ss \o uu) = FlattenSeq(ss) \o FlattenSeq(uu)
           N == {n \in Nat : Holds(n)}
<1>0. \A a, b, c \in Seq(S) : (a \o b) \o c = a \o (b \o c)
  BY SMTT(30)
<1>1. Holds(0)
  <2> SUFFICES ASSUME NEW uu \in Seq(Seq(S)), Len(uu) = 0
               PROVE  FlattenSeq(ss \o uu) = FlattenSeq(ss) \o FlattenSeq(uu)
    OBVIOUS
  <2>1. uu = <<>> /\ ss \o uu = ss
    OBVIOUS
  <2>2. FlattenSeq(ss) \in Seq(S) /\ FlattenSeq(uu) = <<>>
    BY <2>1, FlattenType, FlattenEmpty
  <2> QED BY <2>1, <2>2
<1>2. ASSUME NEW n \in Nat, Holds(n) PROVE Holds(n + 1)
  <2> SUFFICES ASSUME NEW uu \in Seq(Seq(S)), Len(uu) = n + 1
               PROVE  FlattenSeq(ss \o uu) = FlattenSeq(ss) \o FlattenSeq(uu)
    OBVIOUS
  <2> DEFINE front == SubSeq(uu, 1, n)
             t == uu[n + 1]
  <2>1. front \in Seq(Seq(S)) /\ Len(front) = n /\ t \in Seq(S) /\ uu = Append(front, t)
    OBVIOUS
  <2> HIDE DEF front, t
  <2>2. ss \o uu = Append(ss \o front, t) /\ ss \o front \in Seq(Seq(S))
    BY <2>1, SMTT(30)
  <2>3. FlattenSeq(ss \o uu) = FlattenSeq(ss \o front) \o t
    BY <2>1, <2>2, FlattenAppend
  <2>4. FlattenSeq(ss \o front) = FlattenSeq(ss) \o FlattenSeq(front)
    BY <1>2, <2>1
  <2>5. FlattenSeq(uu) = FlattenSeq(front) \o t
    BY <2>1, FlattenAppend
  <2>6. FlattenSeq(ss) \in Seq(S) /\ FlattenSeq(front) \in Seq(S)
    BY <2>1, FlattenType
  <2>7. (FlattenSeq(ss) \o FlattenSeq(front)) \o t = FlattenSeq(ss) \o (FlattenSeq(front) \o t)
    BY <1>0, <2>1, <2>6, Zenon
  <2> QED BY <2>3, <2>4, <2>5, <2>7
<1> HIDE DEF Holds
<1>3. Nat \subseteq N
  <2>1. 0 \in N
    BY <1>1
  <2>2. ASSUME NEW n \in Nat, n \in N PROVE n + 1 \in N
    BY <1>2, <2>2
  <2> HIDE DEF N
  <2> QED BY <2>1, <2>2, NumberInduction
<1>4. Len(tt) \in Nat
  OBVIOUS
<1>5. Holds(Len(tt))
  BY <1>3, <1>4
<1> QED BY <1>5 DEF Holds

LEMMA FlattenOne ==
  ASSUME NEW S, NEW t \in Seq(S)
  PROVE  FlattenSeq(<<t>>) = t
<1>1. <<t>> = Append(<<>>, t) /\ <<>> \in Seq(Seq(S)) /\ <<>> \o t = t
  OBVIOUS
<1> QED BY <1>1, FlattenAppend, FlattenEmpty
=============================================================================
