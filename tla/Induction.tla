------------------------------ MODULE Induction ------------------------------
(***************************************************************************)
(* Induction over numbers, and what it gives: that recursive functions     *)
(* exist, and what they compute, for the one behind FlattenSeq and for the *)
(* iteration of a function.                                                *)
(* The induction is stated with the set of the numbers a property holds    *)
(* of, and rests on the well-foundedness of < on Nat.                      *)
(***************************************************************************)
EXTENDS Integers, Sequences, FiniteSetsExt, SequenceTheorems, FiniteSetTheorems,
        WellFoundedInduction, TLAPS

\* Every set of natural numbers that is not empty has a least element.
LEMMA LeastNumber ==
  ASSUME NEW T, T \subseteq Nat, T # {}
  PROVE  \E x \in T : \A y \in T : x =< y
  <1> DEFINE R == {ss \in Nat \X Nat : ss[1] < ss[2]}
  <1>1. IsWellFoundedOn(R, Nat)
    BY NatLessThanWellFounded DEF OpToRel
  <1>2. PICK x \in T : \A y \in T : ~ (<<y, x>> \in R)
    BY <1>1, WFMin
  <1>3. ASSUME NEW y \in T, ~ (x =< y) PROVE FALSE
    <2>1. y \in Nat /\ x \in Nat
      OBVIOUS
    <2>2. y < x
      BY <1>3, <2>1
    <2>3. <<y, x>> \in R
      BY <2>1, <2>2
    <2> QED BY <1>2, <2>3
  <1> QED BY <1>3

\* What holds of 0, and of n + 1 whenever of n, holds of all numbers.
LEMMA SetInduction ==
  ASSUME NEW H, 0 \in H, \A n \in Nat : n \in H => n + 1 \in H
  PROVE  Nat \subseteq H
  <1> SUFFICES ASSUME NEW m \in Nat, m \notin H PROVE FALSE
    OBVIOUS
  <1> DEFINE T == {n \in Nat : n \notin H}
  <1>1. PICK x \in T : \A y \in T : x =< y
    <2>1. T \subseteq Nat /\ T # {}
      OBVIOUS
    <2> HIDE DEF T
    <2> QED BY <2>1, LeastNumber
  <1>2. x - 1 \in Nat
    OBVIOUS
  <1>3. x - 1 \notin T
    BY <1>1, <1>2
  <1> QED BY <1>2, <1>3

------------------------------------------------------------------------------
(* Concatenation                                                           *)

\* g[i] is the concatenation of the first i sequences.
Concatenates(g, seqs, n) ==
    g = [i \in 1..n |-> IF i = 1 THEN seqs[i] ELSE g[i - 1] \o seqs[i]]

\* The first n sequences are such, of elements of S.
SequencesOver(S, seqs, n) == \A i \in 1..n : seqs[i] \in Seq(S)

\* Each of the sequences g[i] goes on where the one before it ends.
Grows(S, g, seqs, n) ==
    \A i \in 1..n :
        /\ g[i] \in Seq(S)
        /\ i = 1 => g[i] = seqs[i]
        /\ i # 1 => i - 1 \in 1..n /\ g[i] = g[i - 1] \o seqs[i]

\* The equation that makes it one, place by place.
LEMMA ConcatenationIs ==
  ASSUME NEW g, NEW seqs, NEW n \in Nat, Concatenates(g, seqs, n)
  PROVE  \A i \in 1..n : g[i] = IF i = 1 THEN seqs[i] ELSE g[i - 1] \o seqs[i]
  <1> DEFINE h == [i \in 1..n |-> IF i = 1 THEN seqs[i] ELSE g[i - 1] \o seqs[i]]
  <1>1. g = h
    BY DEF Concatenates
  <1>2. \A i \in 1..n : h[i] = IF i = 1 THEN seqs[i] ELSE g[i - 1] \o seqs[i]
    OBVIOUS
  <1> HIDE DEF h
  <1> QED BY <1>1, <1>2

\* There is such a function.
LEMMA ConcatenationExists ==
  ASSUME NEW seqs, NEW m \in Nat
  PROVE  \E g : Concatenates(g, seqs, m)
  <1> DEFINE H == {n \in Nat : \E g : Concatenates(g, seqs, n)}
  <1>1. 0 \in H
    <2>1. Concatenates([i \in {} |-> 0], seqs, 0)
      BY DEF Concatenates
    <2> QED BY <2>1
  <1>2. ASSUME NEW n \in Nat, n \in H
        PROVE  n + 1 \in H
    <2>1. PICK g : Concatenates(g, seqs, n)
      BY <1>2
    <2> DEFINE h == [i \in 1..(n + 1) |->
                       IF i = 1 THEN seqs[i] ELSE g[i - 1] \o seqs[i]]
    <2>2. ASSUME NEW j \in 1..n PROVE h[j] = g[j]
      <3>1. g[j] = IF j = 1 THEN seqs[j] ELSE g[j - 1] \o seqs[j]
        BY <2>1, ConcatenationIs
      <3>2. j \in 1..(n + 1)
        OBVIOUS
      <3> QED BY <3>1, <3>2
    <2>3. ASSUME NEW i \in 1..(n + 1), i # 1 PROVE h[i - 1] = g[i - 1]
      <3>1. i - 1 \in 1..n
        BY <2>3
      <3> HIDE DEF h
      <3> QED BY <2>2, <3>1
    <2>4. ASSUME NEW i \in 1..(n + 1)
          PROVE  h[i] = IF i = 1 THEN seqs[i] ELSE h[i - 1] \o seqs[i]
      BY <2>3
    <2>5. h = [i \in 1..(n + 1) |-> h[i]]
      OBVIOUS
    <2> HIDE DEF h
    <2>6. Concatenates(h, seqs, n + 1)
      BY <2>4, <2>5 DEF Concatenates
    <2> QED BY <2>6
  <1> HIDE DEF H
  <1>3. Nat \subseteq H
    BY <1>1, <1>2, SetInduction
  <1> QED BY <1>3 DEF H

\* Its values are sequences, each a prefix of the next.
LEMMA ConcatenationStep ==
  ASSUME NEW S, NEW m \in Nat, NEW seqs, SequencesOver(S, seqs, m),
         NEW g, Concatenates(g, seqs, m)
  PROVE  Grows(S, g, seqs, m)
  <1>1. \A i \in 1..m : g[i] = IF i = 1 THEN seqs[i] ELSE g[i - 1] \o seqs[i]
    BY ConcatenationIs
  <1> DEFINE H == {n \in Nat : n \in 1..m => g[n] \in Seq(S)}
  <1>2. 0 \in H
    OBVIOUS
  <1>3. ASSUME NEW n \in Nat, n \in H PROVE n + 1 \in H
    <2> SUFFICES ASSUME n + 1 \in 1..m PROVE g[n + 1] \in Seq(S)
      OBVIOUS
    <2>1. CASE n = 0
      BY <1>1, <2>1 DEF SequencesOver
    <2>2. CASE n # 0
      <3>1. n \in 1..m /\ (n + 1) - 1 = n /\ n + 1 # 1
        BY <2>2
      <3>2. g[n] \in Seq(S) /\ g[n + 1] = g[n] \o seqs[n + 1] /\ seqs[n + 1] \in Seq(S)
        BY <1>1, <1>3, <3>1 DEF SequencesOver
      <3> QED BY <3>2, ConcatProperties
    <2> QED BY <2>1, <2>2
  <1> HIDE DEF H
  <1>4. Nat \subseteq H
    BY <1>2, <1>3, SetInduction
  <1>5. \A i \in 1..m : g[i] \in Seq(S)
    BY <1>4 DEF H
  <1> QED
    <2> SUFFICES ASSUME NEW i \in 1..m
                 PROVE  /\ i = 1 => g[i] = seqs[i]
                        /\ i # 1 => i - 1 \in 1..m /\ g[i] = g[i - 1] \o seqs[i]
      BY <1>5, Zenon DEF Grows
    <2>1. g[i] = IF i = 1 THEN seqs[i] ELSE g[i - 1] \o seqs[i]
      BY <1>1
    <2>2. i # 1 => i - 1 \in 1..m
      OBVIOUS
    <2> QED BY <2>1, <2>2, Zenon

\* The one element of seqs[i] is the last of g[i], and is found at the same
\* place in the whole; different sequences have different places.
Joined(g, seqs, n) ==
    \A i \in 1..n : \A j \in i..n :
        /\ Len(g[i]) \in Nat /\ Len(g[j]) \in Nat
        /\ Len(g[i]) =< Len(g[j])
        /\ \A k \in 1..Len(g[i]) : g[j][k] = g[i][k]
        /\ Len(seqs[i]) = 1 => Len(g[i]) # 0 /\ g[i][Len(g[i])] = seqs[i][1]
        /\ Len(seqs[j]) = 1 /\ i # j => Len(g[i]) < Len(g[j])

\* Concatenation does that.
LEMMA ConcatenationPlaces ==
  ASSUME NEW S, NEW m \in Nat, NEW seqs, SequencesOver(S, seqs, m),
         NEW g, Concatenates(g, seqs, m)
  PROVE  Joined(g, seqs, m)
  <1>1. \A i \in 1..m : /\ g[i] \in Seq(S) /\ seqs[i] \in Seq(S)
                        /\ i = 1 => g[i] = seqs[i]
                        /\ i # 1 => i - 1 \in 1..m /\ g[i] = g[i - 1] \o seqs[i]
    <2>1. Grows(S, g, seqs, m)
      BY ConcatenationStep
    <2> QED BY <2>1, Zenon DEF SequencesOver, Grows
  <1>2. \A i \in 1..m : Len(g[i]) \in Nat /\ Len(seqs[i]) \in Nat
    BY <1>1
  \* One step.
  <1>3. ASSUME NEW i \in 1..m, i # 1
        PROVE  /\ i - 1 \in 1..m /\ Len(g[i]) = Len(g[i - 1]) + Len(seqs[i])
               /\ \A k \in 1..Len(g[i]) :
                     g[i][k] = IF k =< Len(g[i - 1]) THEN g[i - 1][k]
                               ELSE seqs[i][k - Len(g[i - 1])]
    <2>1. /\ i - 1 \in 1..m /\ g[i] = g[i - 1] \o seqs[i]
          /\ g[i - 1] \in Seq(S) /\ seqs[i] \in Seq(S)
      BY <1>1, <1>3
    <2> DEFINE a == g[i - 1]
               b == seqs[i]
               c == g[i]
    <2>2. a \in Seq(S) /\ b \in Seq(S) /\ c = a \o b
      BY <2>1, Zenon
    <2> HIDE DEF a, b, c
    <2>3. /\ Len(c) = Len(a) + Len(b)
          /\ \A k \in 1..Len(c) : c[k] = IF k =< Len(a) THEN a[k] ELSE b[k - Len(a)]
      BY <2>2, ConcatProperties
    <2> USE DEF a, b, c
    <2> QED BY <2>1, <2>3, Zenon
  <1>4. ASSUME NEW i \in 1..m, Len(seqs[i]) = 1
        PROVE  Len(g[i]) # 0 /\ g[i][Len(g[i])] = seqs[i][1]
    <2>1. CASE i = 1
      <3>1. g[i] = seqs[i] /\ Len(g[i]) = 1
        BY <1>1, <1>4, <2>1
      <3> QED BY <3>1
    <2>2. CASE i # 1
      <3>1. /\ Len(g[i]) = Len(g[i - 1]) + 1 /\ Len(g[i - 1]) \in Nat
            /\ Len(g[i]) \in 1..Len(g[i]) /\ Len(g[i]) - Len(g[i - 1]) = 1
        <4>1. i - 1 \in 1..m /\ Len(g[i]) = Len(g[i - 1]) + Len(seqs[i])
          BY <1>3, <2>2, Zenon
        <4>2. Len(g[i - 1]) \in Nat
          BY <1>2, <4>1, Zenon
        <4> QED BY <1>4, <4>1, <4>2
      <3>2. ~(Len(g[i]) =< Len(g[i - 1]))
        BY <3>1
      <3>3. \A k \in 1..Len(g[i]) : g[i][k] = IF k =< Len(g[i - 1]) THEN g[i - 1][k]
                                            ELSE seqs[i][k - Len(g[i - 1])]
        BY <1>3, <2>2, Zenon
      <3>4. g[i][Len(g[i])] = seqs[i][Len(g[i]) - Len(g[i - 1])]
        BY <3>1, <3>2, <3>3, Zenon
      <3>5. Len(g[i]) # 0
        BY <3>1
      <3> QED BY <3>1, <3>4, <3>5, Zenon
    <2> QED BY <2>1, <2>2
  <1> SUFFICES ASSUME NEW i \in 1..m
               PROVE  \A j \in i..m :
                        /\ Len(g[i]) =< Len(g[j])
                        /\ \A k \in 1..Len(g[i]) : g[j][k] = g[i][k]
                        /\ Len(seqs[j]) = 1 /\ i # j => Len(g[i]) < Len(g[j])
    <2>1. \A a \in 1..m : \A b \in a..m : b \in 1..m
      OBVIOUS
    <2> QED BY <1>2, <1>4, <2>1 DEF Joined
  <1> DEFINE Good(j) == /\ Len(g[i]) =< Len(g[j])
                        /\ \A k \in 1..Len(g[i]) : g[j][k] = g[i][k]
                        /\ Len(seqs[j]) = 1 /\ i # j => Len(g[i]) < Len(g[j])
             H == {n \in Nat : i + n \in i..m => Good(i + n)}
  <1>5. 0 \in H
    <2>1. i + 0 = i
      OBVIOUS
    <2>2. Good(i)
      BY <1>2
    <2> HIDE DEF Good
    <2> QED BY <2>1, <2>2
  <1>6. ASSUME NEW n \in Nat, n \in H PROVE n + 1 \in H
    <2> SUFFICES ASSUME i + (n + 1) \in i..m PROVE Good(i + (n + 1))
      OBVIOUS
    <2>1. PICK j \in 1..m : j = i + (n + 1)
      OBVIOUS
    <2>2. j # 1 /\ j - 1 = i + n /\ j - 1 \in i..m /\ i # j
      BY <2>1
    <2>3. Good(j - 1)
      BY <1>6, <2>2
    <2>4. Len(g[i]) =< Len(g[j - 1]) /\ \A k \in 1..Len(g[i]) : g[j - 1][k] = g[i][k]
      BY <2>3
    <2>5. /\ Len(g[j]) = Len(g[j - 1]) + Len(seqs[j])
          /\ Len(g[i]) \in Nat /\ Len(g[j]) \in Nat /\ Len(g[j - 1]) \in Nat
          /\ Len(seqs[j]) \in Nat
      BY <1>2, <1>3, <2>2
    <2>5a. Len(g[i]) =< Len(g[j - 1])
      BY <2>4, Zenon
    <2>5b. PICK a \in Nat, b \in Nat, c \in Nat, d \in Nat :
              /\ a = Len(g[i]) /\ b = Len(g[j - 1]) /\ c = Len(seqs[j]) /\ d = Len(g[j])
              /\ d = b + c /\ a =< b
      BY <2>5, <2>5a, Zenon
    <2>5c. d = b + c /\ a =< b
      BY <2>5b, Zenon
    <2>6. ASSUME NEW k \in 1..Len(g[i]) PROVE g[j][k] = g[i][k]
      <3>1. k \in 1..Len(g[j]) /\ k =< Len(g[j - 1])
        <4>1. k \in 1..a
          BY <2>5b, Zenon
        <4>2. k \in 1..d /\ k =< b
          BY <2>5c, <4>1
        <4> QED BY <2>5b, <4>2, Zenon
      <3>2. g[j][k] = g[j - 1][k]
        BY <1>3, <2>2, <3>1, Zenon
      <3> QED BY <2>4, <3>2, Zenon
    <2>7. Len(g[i]) =< Len(g[j]) /\ (Len(seqs[j]) = 1 => Len(g[i]) < Len(g[j]))
      <3>1. a =< d /\ (c = 1 => a < d)
        BY <2>5c
      <3> QED BY <2>5b, <3>1, Zenon
    <2>8. Good(j)
      BY <2>6, <2>7
    <2> HIDE DEF Good
    <2> QED BY <2>1, <2>8
  <1> HIDE DEF H
  <1>7. Nat \subseteq H
    BY <1>5, <1>6, SetInduction
  <1> QED
    <2> SUFFICES ASSUME NEW j \in i..m PROVE Good(j)
      OBVIOUS
    <2>1. j - i \in Nat /\ i + (j - i) = j
      OBVIOUS
    <2>2. j - i \in H
      BY <1>7, <2>1
    <2> HIDE DEF Good
    <2> QED BY <2>1, <2>2 DEF H

------------------------------------------------------------------------------
(* Iteration                                                               *)

\* f[d] is the result of d applications of h to a.
Iterates(f, h, a, n) ==
    f[0] = a /\ \A d \in 1..n : f[d] = h[f[d - 1]]

\* There is such a function, whatever h is.
LEMMA IterationExists ==
  ASSUME NEW X, NEW h \in [X -> X], NEW a \in X, NEW m \in Nat
  PROVE  \E f \in [0..m -> X] : Iterates(f, h, a, m)
  <1> DEFINE H == {n \in Nat : \E f \in [0..n -> X] : Iterates(f, h, a, n)}
  <1>1. 0 \in H
    <2> DEFINE f == [d \in 0..0 |-> a]
    <2>1. f \in [0..0 -> X] /\ f[0] = a
      OBVIOUS
    <2> HIDE DEF f
    <2>2. Iterates(f, h, a, 0)
      BY <2>1 DEF Iterates
    <2> QED BY <2>1, <2>2
  <1>2. ASSUME NEW n \in Nat, n \in H
        PROVE  n + 1 \in H
    <2>1. PICK f \in [0..n -> X] : Iterates(f, h, a, n)
      BY <1>2
    <2> DEFINE g == [d \in 0..(n + 1) |-> IF d = n + 1 THEN h[f[n]] ELSE f[d]]
    <2>2. f[n] \in X /\ h[f[n]] \in X
      OBVIOUS
    <2>3. g \in [0..(n + 1) -> X] /\ g[n + 1] = h[f[n]] /\ \A d \in 0..n : g[d] = f[d]
      <3>1. \A d \in 0..(n + 1) : d # n + 1 => d \in 0..n
        OBVIOUS
      <3>2. \A d \in 0..n : d \in 0..(n + 1) /\ d # n + 1
        OBVIOUS
      <3>3. n + 1 \in 0..(n + 1)
        OBVIOUS
      <3> QED BY <2>2, <3>1, <3>2, <3>3
    <2> HIDE DEF g
    <2>4. g[0] = a
      BY <2>1, <2>3 DEF Iterates
    <2>5. ASSUME NEW d \in 1..(n + 1) PROVE g[d] = h[g[d - 1]]
      <3>1. d - 1 \in 0..n
        OBVIOUS
      <3>2. g[d - 1] = f[d - 1]
        BY <2>3, <3>1
      <3>3. CASE d = n + 1
        <4>1. d - 1 = n
          BY <3>3
        <4> QED BY <2>3, <3>2, <3>3, <4>1
      <3>4. CASE d # n + 1
        <4>1. d \in 1..n /\ d \in 0..n
          BY <3>4
        <4> QED BY <2>1, <2>3, <3>2, <4>1 DEF Iterates
      <3> QED BY <3>3, <3>4
    <2>6. Iterates(g, h, a, n + 1)
      BY <2>4, <2>5 DEF Iterates
    <2> QED BY <2>3, <2>6
  <1> HIDE DEF H
  <1>3. Nat \subseteq H
    BY <1>1, <1>2, SetInduction
  <1> QED BY <1>3 DEF H

==============================================================================
