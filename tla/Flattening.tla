------------------------------ MODULE Flattening ------------------------------
(* Machine-checked facts about the concatenation of a sequence of sequences, and   *)
(* the induction over the naturals that they need.                                *)
EXTENDS Integers, SequencesExt, FiniteSetTheorems, SequenceTheorems, TLAPS

----------------------------------------------------------------------------
(* Induction over the naturals, with the property given as a set: a set of       *)
(* naturals that is not empty has a least element.                               *)

\* A set of natural numbers has a least member, since < is well-founded on them.
LEMMA Least ==
  ASSUME NEW T \in SUBSET Nat, T # {}
  PROVE  \E x \in T : \A y \in T : x <= y
<1> DEFINE R == OpToRel(<, Nat)
<1>1. IsWellFoundedOn(R, Nat)
  BY NatLessThanWellFounded
<1>2. \A y \in Nat, z \in Nat : y < z => <<y, z>> \in R
  BY DEF OpToRel
<1> HIDE DEF R
<1>3. PICK x \in T : \A y \in T : ~(<<y, x>> \in R)
  BY <1>1, WFMin
<1>4. ASSUME NEW y \in T  PROVE x <= y
  <2>1. x \in Nat /\ y \in Nat
    OBVIOUS
  <2>2. ~(y < x)
    BY <1>2, <1>3, <2>1
  <2> QED  BY <2>1, <2>2
<1> QED  BY <1>4

\* Induction over the natural numbers, the property given as the set where it holds.
LEMMA Induction ==
  ASSUME NEW A, 0 \in A, \A n \in Nat : n \in A => n + 1 \in A
  PROVE  \A n \in Nat : n \in A
<1> SUFFICES ASSUME Nat \ A # {}  PROVE FALSE
  OBVIOUS
<1>1. PICK x \in Nat \ A : \A y \in Nat \ A : x <= y
  BY Least
<1>2. x - 1 \in Nat /\ x - 1 \notin Nat \ A /\ x = (x - 1) + 1
  BY <1>1
<1> QED  BY <1>1, <1>2

----------------------------------------------------------------------------
(* FlattenSeq.  Joins(q, f, n): f concatenates the first members of q, up to n.   *)

Joins(q, f, n) ==
  f = [i \in 1..n |-> IF i = 1 THEN q[i] ELSE f[i - 1] \o q[i]]

\* There is a function that joins the first n sequences, by induction over n.
LEMMA JoinsExist ==
  ASSUME NEW q, NEW n \in Nat
  PROVE  \E f : Joins(q, f, n)
<1> DEFINE A == {m \in Nat : \E f : Joins(q, f, m)}
<1>1. 0 \in A
  <2> DEFINE e == [i \in 1..0 |-> IF i = 1 THEN q[i] ELSE <<>>]
  <2>1. Joins(q, e, 0)
    BY DEF Joins
  <2> QED  BY <2>1
<1>2. ASSUME NEW m \in Nat, m \in A  PROVE m + 1 \in A
  <2>1. PICK f : Joins(q, f, m)
    BY <1>2
  <2> DEFINE g == [i \in 1..(m + 1) |-> IF i \in 1..m THEN f[i]
                                        ELSE IF m = 0 THEN q[1] ELSE f[m] \o q[m + 1]]
  <2>2. ASSUME NEW i \in 1..(m + 1)
        PROVE  g[i] = IF i = 1 THEN q[i] ELSE g[i - 1] \o q[i]
    <3>1. CASE i \in 1..m
      <4>1. g[i] = IF i = 1 THEN q[i] ELSE f[i - 1] \o q[i]
        BY <2>1, <3>1 DEF Joins
      <4>2. i # 1 => g[i - 1] = f[i - 1]
        BY <3>1
      <4> QED  BY <4>1, <4>2
    <3>2. CASE i = m + 1
      BY <3>2
    <3> QED  BY <3>1, <3>2
  <2>3. Joins(q, g, m + 1)
    BY <2>2 DEF Joins
  <2> QED  BY <2>3
<1> HIDE DEF A
<1>3. n \in A
  BY <1>1, <1>2, Induction
<1> QED  BY <1>3 DEF A

\* Its value at one place.
LEMMA JoinsAt ==
  ASSUME NEW q, NEW f, NEW n \in Nat, Joins(q, f, n), NEW i \in 1..n
  PROVE  f[i] = IF i = 1 THEN q[i] ELSE f[i - 1] \o q[i]
  BY DEF Joins

Agree(q, r, m) == \A i \in 1..m : q[i] = r[i]

\* And only one: it depends on the sequences up to that place.
LEMMA JoinsUnique ==
  ASSUME NEW q, NEW r, NEW f, NEW g, NEW m \in Nat,
         Joins(q, f, m), Joins(r, g, m + 1), Agree(q, r, m)
  PROVE  Agree(f, g, m)
<1> DEFINE A == {k \in Nat : k \in 1..m => f[k] = g[k]}
<1>1. 0 \in A
  OBVIOUS
<1>2. ASSUME NEW k \in Nat, k \in A  PROVE k + 1 \in A
  <2> SUFFICES ASSUME k + 1 \in 1..m  PROVE f[k + 1] = g[k + 1]
    OBVIOUS
  <2>0. m + 1 \in Nat /\ k + 1 \in 1..(m + 1) /\ (k + 1) - 1 = k /\ (k + 1 # 1 => k \in 1..m)
    OBVIOUS
  <2>1. f[k + 1] = IF k + 1 = 1 THEN q[k + 1] ELSE f[(k + 1) - 1] \o q[k + 1]
    BY JoinsAt
  <2>2. g[k + 1] = IF k + 1 = 1 THEN r[k + 1] ELSE g[(k + 1) - 1] \o r[k + 1]
    BY <2>0, JoinsAt
  <2>3. q[k + 1] = r[k + 1]
    BY DEF Agree
  <2> QED  BY <1>2, <2>0, <2>1, <2>2, <2>3
<1> HIDE DEF A
<1>3. \A k \in Nat : k \in A
  BY <1>1, <1>2, Induction
<1> QED  BY <1>3 DEF A, Agree

\* FlattenSeq is the last of the joins.
LEMMA FlattenJoins ==
  ASSUME NEW q, NEW n \in Nat \ {0}, n = Len(q)
  PROVE  \E f : Joins(q, f, n) /\ FlattenSeq(q) = f[n]
<1> DEFINE f == CHOOSE g : Joins(q, g, n)
<1>1. Joins(q, f, n)
  BY JoinsExist
<1>2. FlattenSeq(q) = f[n]
  BY DEF FlattenSeq, Joins
<1> QED  BY <1>1, <1>2

\* Concatenation is associative.
LEMMA Regroup ==
  ASSUME NEW a \in Seq(Nat), NEW b \in Seq(Nat), NEW c \in Seq(Nat)
  PROVE  (a \o b) \o c = a \o (b \o c)
  BY ConcatAssociative, SMTT(30)

LEMMA NoLength ==
  ASSUME NEW S, NEW q \in Seq(S), Len(q) = 0
  PROVE  q = <<>>
  OBVIOUS

\* Joins of sequences of records are sequences of records.
LEMMA JoinsTyped ==
  ASSUME NEW q \in Seq(Seq(Nat)), NEW n \in Nat, n = Len(q), NEW f, Joins(q, f, n)
  PROVE  \A i \in 1..n : f[i] \in Seq(Nat)
<1> DEFINE A == {k \in Nat : k \in 1..n => f[k] \in Seq(Nat)}
<1>1. 0 \in A
  OBVIOUS
<1>2. ASSUME NEW k \in Nat, k \in A  PROVE k + 1 \in A
  <2> SUFFICES ASSUME k + 1 \in 1..n  PROVE f[k + 1] \in Seq(Nat)
    OBVIOUS
  <2>0. q[k + 1] \in Seq(Nat)
    OBVIOUS
  <2> HIDE DEF A
  <2>1. f[k + 1] = IF k + 1 = 1 THEN q[k + 1] ELSE f[(k + 1) - 1] \o q[k + 1]
    BY JoinsAt
  <2>2. (k + 1) - 1 = k /\ (k + 1 # 1 => k \in 1..n)
    OBVIOUS
  <2>3. k + 1 # 1 => f[k] \in Seq(Nat)
    BY <1>2, <2>2 DEF A
  <2> QED  BY <2>0, <2>1, <2>2, <2>3
<1> HIDE DEF A
<1>3. \A k \in Nat : k \in A
  BY <1>1, <1>2, Induction
<1> QED  BY <1>3 DEF A

\* Nothing in no batches.
LEMMA FlattenEmpty == FlattenSeq(<<>>) = <<>>
  BY DEF FlattenSeq

\* Flattened batches are a sequence of records.
LEMMA FlattenTyped ==
  ASSUME NEW q \in Seq(Seq(Nat))
  PROVE  FlattenSeq(q) \in Seq(Nat)
<1>1. CASE Len(q) = 0
  <2>1. q = <<>>
    BY <1>1
  <2>2. <<>> \in Seq(Nat)
    OBVIOUS
  <2>3. FlattenSeq(q) = <<>>
    BY <2>1, FlattenEmpty
  <2> QED  BY <2>2, <2>3
<1>2. CASE Len(q) # 0
  <2>1. Len(q) \in Nat \ {0} /\ Len(q) \in 1..Len(q)
    BY <1>2
  <2>2. PICK f : Joins(q, f, Len(q)) /\ FlattenSeq(q) = f[Len(q)]
    BY <2>1, FlattenJoins
  <2> QED  BY <2>1, <2>2, JoinsTyped
<1> QED  BY <1>1, <1>2

\* One more batch at the end.
LEMMA FlattenAppend ==
  ASSUME NEW q \in Seq(Seq(Nat)), NEW b \in Seq(Nat)
  PROVE  FlattenSeq(Append(q, b)) = FlattenSeq(q) \o b
<1>0. SUFFICES ASSUME NEW r, r = Append(q, b), NEW n, n = Len(q)
             PROVE  FlattenSeq(r) = FlattenSeq(q) \o b
  OBVIOUS
<1>1. /\ r \in Seq(Seq(Nat)) /\ n \in Nat /\ Len(r) = n + 1
      /\ r[n + 1] = b /\ \A i \in 1..n : q[i] = r[i]
      /\ Len(r) \in Nat \ {0}
  BY <1>0
<1>2. PICK g : Joins(r, g, n + 1) /\ FlattenSeq(r) = g[n + 1]
  <2>1. n + 1 \in Nat \ {0} /\ n + 1 = Len(r)
    BY <1>1
  <2> QED  BY <2>1, FlattenJoins
<1>3. n + 1 \in 1..(n + 1) /\ (n + 1) - 1 = n
  BY <1>1
<1>4. g[n + 1] = IF n + 1 = 1 THEN b ELSE g[n] \o b
  BY <1>1, <1>2, <1>3, JoinsAt
<1>5. CASE n = 0
  <2>1. q = <<>>
    BY <1>0, <1>5, NoLength
  <2>2. FlattenSeq(q) \o b = b
    BY <2>1, FlattenEmpty
  <2> QED  BY <1>2, <1>4, <1>5, <2>2
<1>6. CASE n # 0
  <2>0. n \in Nat \ {0} /\ n = Len(q)
    BY <1>0, <1>1, <1>6
  <2>1. PICK f : Joins(q, f, n) /\ FlattenSeq(q) = f[n]
    BY <2>0, FlattenJoins
  <2>2. n <= n + 1 /\ n + 1 \in Nat /\ n \in 1..n /\ n + 1 # 1
    BY <1>1, <1>6
  <2>3. Agree(f, g, n)
    <3>1. Joins(q, f, n) /\ Joins(r, g, n + 1) /\ Agree(q, r, n)
      BY <1>1, <1>2, <2>1 DEF Agree
    <3> QED  BY <1>1, <3>1, JoinsUnique
  <2> QED  BY <1>2, <1>4, <2>1, <2>2, <2>3 DEF Agree
<1> QED  BY <1>5, <1>6

\* The first batch is taken.
LEMMA FlattenTail ==
  ASSUME NEW q \in Seq(Seq(Nat)), q # <<>>
  PROVE  FlattenSeq(q) = Head(q) \o FlattenSeq(Tail(q))
<1>0. SUFFICES ASSUME NEW r, r = Tail(q), NEW n, n = Len(r)
             PROVE  FlattenSeq(q) = Head(q) \o FlattenSeq(r)
  OBVIOUS
<1>1. /\ r \in Seq(Seq(Nat)) /\ n \in Nat /\ Len(q) = n + 1 /\ Len(q) \in Nat \ {0}
      /\ \A i \in 1..n : r[i] = q[i + 1]
      /\ Head(q) = q[1] /\ q[1] \in Seq(Nat)
      /\ \A i \in 1..n : r[i] \in Seq(Nat)
  BY <1>0
<1>2. PICK f : Joins(q, f, n + 1) /\ FlattenSeq(q) = f[n + 1]
  <2>1. n + 1 \in Nat \ {0} /\ n + 1 = Len(q)
    BY <1>1
  <2> QED  BY <2>1, FlattenJoins
<1>3. f[1] = q[1]
  BY <1>1, <1>2, JoinsAt
<1>4. CASE n = 0
  <2>1. r = <<>>
    BY <1>0, <1>1, <1>4, NoLength
  <2>2. q[1] \o FlattenSeq(r) = q[1]
    BY <1>1, <2>1, FlattenEmpty
  <2> QED  BY <1>0, <1>1, <1>2, <1>3, <1>4, <2>2, SMTT(30)
<1>5. CASE n # 0
  <2>0. n \in Nat \ {0} /\ n = Len(r) /\ r \in Seq(Seq(Nat))
    BY <1>0, <1>1, <1>5
  <2>1. PICK g : Joins(r, g, n) /\ FlattenSeq(r) = g[n]
    BY <2>0, FlattenJoins
  <2>2. \A i \in 1..n : g[i] \in Seq(Nat)
    BY <2>0, <2>1, JoinsTyped
  <2> DEFINE P(k) == k \in 1..n => f[k + 1] = q[1] \o g[k]
             A == {k \in Nat : P(k)}
  <2>3. 0 \in A
    OBVIOUS
  <2>4. ASSUME NEW k \in Nat, k \in A  PROVE k + 1 \in A
    <3> HIDE DEF P
    <3>0. P(k) /\ (P(k + 1) => k + 1 \in A)
      BY <2>4
    <3> SUFFICES ASSUME k + 1 \in 1..n  PROVE f[(k + 1) + 1] = q[1] \o g[k + 1]
      BY <3>0 DEF P
    <3> HIDE DEF A
    <3>1. /\ n + 1 \in Nat /\ (k + 1) + 1 \in 1..(n + 1) /\ (k + 1) + 1 # 1
          /\ ((k + 1) + 1) - 1 = k + 1 /\ (k + 1) - 1 = k
          /\ k # 0 => k \in 1..n /\ k + 1 # 1
      BY <1>1
    <3>2. f[(k + 1) + 1] = f[k + 1] \o r[k + 1]
      <4>1. f[(k + 1) + 1] = f[((k + 1) + 1) - 1] \o q[(k + 1) + 1]
        BY <1>2, <3>1, JoinsAt, ZenonT(40)
      <4> QED  BY <1>1, <3>1, <4>1
    <3>3. g[k + 1] = IF k + 1 = 1 THEN r[k + 1] ELSE g[(k + 1) - 1] \o r[k + 1]
      BY <1>1, <2>1, JoinsAt
    <3>4. CASE k = 0
      <4>1. k + 1 = 1 /\ g[k + 1] = r[k + 1]
        BY <3>3, <3>4
      <4>2. f[k + 1] = q[1]
        BY <1>3, <4>1
      <4> QED  BY <3>2, <4>1, <4>2
    <3>5. CASE k # 0
      <4>1. f[k + 1] = q[1] \o g[k] /\ g[k + 1] = g[k] \o r[k + 1]
        BY <3>0, <3>1, <3>3, <3>5 DEF P
      <4>2. q[1] \in Seq(Nat) /\ g[k] \in Seq(Nat) /\ r[k + 1] \in Seq(Nat)
        BY <1>1, <2>2, <3>1, <3>5
      <4>3. (q[1] \o g[k]) \o r[k + 1] = q[1] \o (g[k] \o r[k + 1])
        BY <4>2, Regroup
      <4> QED  BY <3>2, <4>1, <4>3
    <3> QED  BY <3>4, <3>5
  <2>5. n \in A
    <3> HIDE DEF A
    <3> QED  BY <2>0, <2>3, <2>4, Induction
  <2>6. n \in 1..n
    BY <1>1, <1>5
  <2>7. f[n + 1] = q[1] \o g[n]
    BY <2>5, <2>6
  <2> QED  BY <1>1, <1>2, <2>1, <2>7
<1> QED  BY <1>4, <1>5

\* The lines of batches none of which is larger than m.
LEMMA FlattenBound ==
  ASSUME NEW q \in Seq(Seq(Nat)), NEW m \in Nat, \A i \in 1..Len(q) : Len(q[i]) <= m
  PROVE  Len(FlattenSeq(q)) <= m * Len(q)
<1>1. CASE Len(q) = 0
  <2>1. q = <<>>
    BY <1>1
  <2>2. Len(FlattenSeq(q)) = 0 /\ m * Len(q) = 0
    BY <1>1, <2>1, FlattenEmpty
  <2> QED  BY <2>2
<1>2. CASE Len(q) # 0
  <2>1. Len(q) \in Nat \ {0} /\ Len(q) \in 1..Len(q)
    BY <1>2
  <2>2. PICK f : Joins(q, f, Len(q)) /\ FlattenSeq(q) = f[Len(q)]
    BY <2>1, FlattenJoins
  <2>3. \A i \in 1..Len(q) : f[i] \in Seq(Nat)
    BY <2>1, <2>2, JoinsTyped
  <2> DEFINE A == {k \in Nat : k \in 1..Len(q) => Len(f[k]) <= m * k}
  <2>4. 0 \in A
    OBVIOUS
  <2>5. ASSUME NEW k \in Nat, k \in A  PROVE k + 1 \in A
    <3> SUFFICES ASSUME k + 1 \in 1..Len(q)  PROVE Len(f[k + 1]) <= m * (k + 1)
      OBVIOUS
    <3>1. f[k + 1] = IF k + 1 = 1 THEN q[k + 1] ELSE f[(k + 1) - 1] \o q[k + 1]
      BY <2>1, <2>2, JoinsAt
    <3>2. q[k + 1] \in Seq(Nat) /\ Len(q[k + 1]) \in Nat /\ Len(q[k + 1]) <= m
      OBVIOUS
    <3>3. CASE k = 0
      <4>1. m * (k + 1) = m
        BY <3>3
      <4> QED  BY <3>1, <3>2, <3>3, <4>1
    <3>4. CASE k # 0
      <4>1. k \in 1..Len(q) /\ (k + 1) - 1 = k /\ k + 1 # 1
        BY <3>4
      <4>2. f[k] \in Seq(Nat) /\ Len(f[k]) <= m * k /\ f[k + 1] = f[k] \o q[k + 1]
        BY <2>3, <2>5, <3>1, <4>1
      <4>3. Len(f[k + 1]) = Len(f[k]) + Len(q[k + 1]) /\ Len(f[k]) \in Nat
        BY <3>2, <4>2
      <4> DEFINE a == m * k
                 b == Len(f[k])
                 c == Len(q[k + 1])
      <4>4. m * (k + 1) = a + m /\ a \in Nat
        OBVIOUS
      <4>5. b \in Nat /\ c \in Nat /\ b <= a /\ c <= m /\ Len(f[k + 1]) = b + c
        BY <3>2, <4>2, <4>3
      <4> HIDE DEF a, b, c
      <4> QED  BY <4>4, <4>5
    <3> QED  BY <3>3, <3>4
  <2> HIDE DEF A
  <2>6. Len(q) \in A
    BY <2>1, <2>4, <2>5, Induction
  <2> QED  BY <2>1, <2>2, <2>6 DEF A
<1> QED  BY <1>1, <1>2
=============================================================================
