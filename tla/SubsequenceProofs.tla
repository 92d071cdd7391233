------------------------- MODULE SubsequenceProofs -------------------------
(***************************************************************************)
(* Lemmas about subsequences, for files whose lines are filtered and reads *)
(* whose units are picked, of any length, and about functions that scan a  *)
(* sequence in jumps.                                                      *)
(*                                                                         *)
(* Induction is stated about a SET of numbers, not about a predicate: the  *)
(* set is an ordinary parameter, which the provers can instantiate.        *)
(***************************************************************************)
EXTENDS Subsequences, SequenceTheorems, WellFoundedInduction, TLAPS

\* A nonempty set of natural numbers has a least element.
LEMMA LeastNatural ==
  ASSUME NEW T, T \subseteq Nat, T # {}
  PROVE  \E x \in T : \A y \in T : x <= y
<1> DEFINE Less == {ss \in Nat \X Nat : ss[1] < ss[2]}
<1>1. IsWellFoundedOn(Less, Nat)
  BY NatLessThanWellFounded, Zenon DEF OpToRel
<1>2. PICK x \in T : \A y \in T : ~(<<y, x>> \in Less)
  BY WFMin, <1>1, Zenon
<1>3. \A y \in T : ~(y < x)
  BY <1>2
<1>4. QED
  BY <1>3

\* A set that has 0, and with every number its successor, has all of them.
LEMMA NatInductionSet ==
  ASSUME NEW T, 0 \in T, \A n \in Nat : n \in T => n + 1 \in T
  PROVE  Nat \subseteq T
<1> SUFFICES ASSUME ~(Nat \subseteq T) PROVE FALSE
  OBVIOUS
<1> DEFINE Missing == Nat \ T
<1>1. PICK x \in Missing : \A y \in Missing : x <= y
  BY LeastNatural, Zenon
<1>2. x # 0
  OBVIOUS
<1>3. x - 1 \in Nat /\ x - 1 \notin Missing
  BY <1>1, <1>2
<1>4. QED
  BY <1>3

\* A number is in a set if that follows from all smaller ones being in it.
LEMMA StrongInductionSet ==
  ASSUME NEW T, \A n \in Nat : (\A m \in 0..(n - 1) : m \in T) => n \in T
  PROVE  Nat \subseteq T
<1> SUFFICES ASSUME ~(Nat \subseteq T) PROVE FALSE
  OBVIOUS
<1> DEFINE Missing == Nat \ T
<1>1. PICK x \in Missing : \A y \in Missing : x <= y
  BY LeastNatural, Zenon
<1>2. \A m \in 0..(x - 1) : m \in T
  BY <1>1
<1> QED
  BY <1>1, <1>2

\* One step of the recursion that defines PickedTo.
PickStep(seq, I, f, n) ==
  IF n = 0 THEN <<>> ELSE IF n \in I THEN Append(f[n - 1], seq[n]) ELSE f[n - 1]

\* PickedTo is a solution of its recursive definition: one exists for every length.
LEMMA PickedToDef ==
  ASSUME NEW seq, NEW I, Len(seq) \in Nat
  PROVE  PickedTo(seq, I) = [n \in 0..Len(seq) |-> PickStep(seq, I, PickedTo(seq, I), n)]
<1> DEFINE Solved == {m \in Nat : \E f : f = [n \in 0..m |-> PickStep(seq, I, f, n)]}
<1>1. 0 \in Solved
  <2> DEFINE g == [n \in 0..0 |-> <<>>]
  <2>1. g = [n \in 0..0 |-> PickStep(seq, I, g, n)]
    BY DEF PickStep
  <2>2. QED
    BY <2>1
<1>2. \A m \in Nat : m \in Solved => m + 1 \in Solved
  <2> SUFFICES ASSUME NEW m \in Nat, m \in Solved PROVE m + 1 \in Solved
    OBVIOUS
  <2>1. PICK f : f = [n \in 0..m |-> PickStep(seq, I, f, n)]
    OBVIOUS
  <2> DEFINE g == [n \in 0..(m + 1) |-> IF n <= m THEN f[n] ELSE PickStep(seq, I, f, n)]
  <2>2. \A n \in 0..(m + 1) : PickStep(seq, I, g, n) = PickStep(seq, I, f, n)
    BY DEF PickStep
  <2>3. \A n \in 0..(m + 1) : g[n] = PickStep(seq, I, g, n)
    BY <2>1, <2>2
  <2>4. g = [n \in 0..(m + 1) |-> PickStep(seq, I, g, n)]
    BY <2>3
  <2>5. QED
    BY <2>4
<1>3. Nat \subseteq Solved
  BY <1>1, <1>2, NatInductionSet, Zenon
<1>4. PICK f : f = [n \in 0..Len(seq) |-> PickStep(seq, I, f, n)]
  BY <1>3
<1>5. QED
  BY <1>4, Zenon DEF PickedTo, PickStep

\* f grows with every element of seq at a position in I.
Picks(f, seq, I) ==
  \A n \in 1..Len(seq) : f[n] = IF n \in I THEN Append(f[n - 1], seq[n]) ELSE f[n - 1]

\* What PickedTo is at 0 and at a successor.
LEMMA PickedToStep ==
  ASSUME NEW X, NEW seq \in Seq(X), NEW I
  PROVE  PickedTo(seq, I)[0] = <<>> /\ Picks(PickedTo(seq, I), seq, I)
<1> DEFINE f == PickedTo(seq, I)
<1>0. Len(seq) \in Nat
  OBVIOUS
<1>1. f = [n \in 0..Len(seq) |-> PickStep(seq, I, f, n)]
  BY <1>0, PickedToDef
<1> HIDE DEF f
<1>2. \A n \in 0..Len(seq) : f[n] = PickStep(seq, I, f, n)
  BY <1>1
<1>3. f[0] = <<>> /\ Picks(f, seq, I)
  BY <1>0, <1>2 DEF PickStep, Picks
<1>4. QED
  BY <1>3, Zenon DEF f

\* A subsequence is a sequence of the elements that were picked.
LEMMA PickedType ==
  ASSUME NEW X, NEW seq \in Seq(X), NEW I
  PROVE  Picked(seq, I) \in Seq({seq[i] : i \in DOMAIN seq \cap I})
<1> DEFINE f == PickedTo(seq, I)
           E == {seq[i] : i \in DOMAIN seq \cap I}
           T == {n \in Nat : n <= Len(seq) => f[n] \in Seq(E)}
<1>0. f[0] = <<>> /\ Picks(f, seq, I)
  BY PickedToStep, Zenon
<1> HIDE DEF f
<1>1. 0 \in T
  BY <1>0, EmptySeq
<1>2. \A n \in Nat : n \in T => n + 1 \in T
  <2> SUFFICES ASSUME NEW n \in Nat, n \in T, n + 1 <= Len(seq) PROVE f[n + 1] \in Seq(E)
    OBVIOUS
  <2>1. f[n] \in Seq(E) /\ n + 1 \in DOMAIN seq
    OBVIOUS
  <2>2. f[n + 1] = IF n + 1 \in I THEN Append(f[n], seq[n + 1]) ELSE f[n]
    BY <1>0, <2>1 DEF Picks
  <2>3. n + 1 \in I => seq[n + 1] \in E
    BY <2>1
  <2> HIDE DEF E
  <2>4. QED
    BY <2>1, <2>2, <2>3
<1>3. Nat \subseteq T
  BY <1>1, <1>2, NatInductionSet, Zenon
<1>4. f[Len(seq)] \in Seq(E)
  BY <1>3
<1>5. QED
  BY <1>4 DEF Picked, f

\* Every element that was picked is in the subsequence.
LEMMA PickedOnto ==
  ASSUME NEW X, NEW seq \in Seq(X), NEW I, NEW i \in DOMAIN seq, i \in I
  PROVE  \E k \in DOMAIN Picked(seq, I) : Picked(seq, I)[k] = seq[i]
<1> DEFINE f == PickedTo(seq, I)
           E == {seq[j] : j \in DOMAIN seq}
           T == {n \in Nat : n <= Len(seq) => f[n] \in Seq(E) /\ (i <= n => \E k \in DOMAIN f[n] : f[n][k] = seq[i])}
<1>0. i \in 1..Len(seq) /\ Len(seq) \in Nat
  OBVIOUS
<1>9. f[0] = <<>> /\ Picks(f, seq, I)
  BY PickedToStep, Zenon
<1> HIDE DEF f
<1>1. 0 \in T
  <2>1. f[0] \in Seq(E)
    BY <1>9, EmptySeq
  <2>2. ~(i <= 0) /\ 0 \in Nat
    BY <1>0
  <2> QED
    BY <2>1, <2>2, Zenon
<1>2. \A n \in Nat : n \in T => n + 1 \in T
  <2> SUFFICES ASSUME NEW n \in Nat, n \in T, n + 1 <= Len(seq)
               PROVE  f[n + 1] \in Seq(E) /\ (i <= n + 1 => \E k \in DOMAIN f[n + 1] : f[n + 1][k] = seq[i])
    OBVIOUS
  <2>1. f[n] \in Seq(E) /\ n + 1 \in DOMAIN seq /\ (i <= n => \E k \in DOMAIN f[n] : f[n][k] = seq[i])
    OBVIOUS
  <2>2. f[n + 1] = IF n + 1 \in I THEN Append(f[n], seq[n + 1]) ELSE f[n]
    BY <1>9, <2>1 DEF Picks
  <2>3. seq[n + 1] \in E
    BY <2>1
  <2> HIDE DEF E
  <2>4. CASE n + 1 \in I
    <3> DEFINE m == Len(f[n])
    <3>1. /\ f[n + 1] \in Seq(E) /\ m \in Nat /\ DOMAIN f[n + 1] = DOMAIN f[n] \cup {m + 1}
          /\ f[n + 1][m + 1] = seq[n + 1] /\ \A k \in DOMAIN f[n] : f[n + 1][k] = f[n][k]
      BY <2>1, <2>2, <2>3, <2>4
    <3>2. CASE i = n + 1
      BY <3>1, <3>2
    <3>3. CASE i # n + 1
      BY <1>0, <2>1, <3>1, <3>3
    <3> QED
      BY <3>2, <3>3
  <2>5. CASE n + 1 \notin I
    BY <1>0, <2>1, <2>2, <2>5
  <2> QED
    BY <2>4, <2>5
<1>3. Nat \subseteq T
  BY <1>1, <1>2, NatInductionSet, Zenon
<1>4. \E k \in DOMAIN f[Len(seq)] : f[Len(seq)][k] = seq[i]
  <2>1. Len(seq) \in T
    BY <1>0, <1>3
  <2> QED
    BY <1>0, <2>1
<1>5. QED
  BY <1>4 DEF Picked, f

\* A subsequence of elements of X is a sequence over X.
LEMMA PickedSeq ==
  ASSUME NEW X, NEW seq \in Seq(X), NEW I
  PROVE  Picked(seq, I) \in Seq(X)
<1>1. Picked(seq, I) \in Seq({seq[i] : i \in DOMAIN seq \cap I})
  BY PickedType
<1>2. {seq[i] : i \in DOMAIN seq \cap I} \subseteq X
  OBVIOUS
<1>3. QED
  BY <1>1, <1>2, SeqMonotonic, Zenon

\* Appending to the second part of a concatenation appends to the whole.
AppendsBehind(s, t, e) == Append(s \o t, e) = s \o Append(t, e)

\* It does for all sequences; stated with a name, so that it can be cited as one fact.
LEMMA AppendToConcat ==
  ASSUME NEW X, NEW s \in Seq(X), NEW t \in Seq(X), NEW e \in X
  PROVE  AppendsBehind(s, t, e)
<1>1. Append(s \o t, e) = s \o Append(t, e)
  OBVIOUS
<1>2. QED
  BY <1>1 DEF AppendsBehind

\* A function that goes on from base as PickedTo does from <<>> puts what is picked behind base.
LEMMA PickedBehind ==
  ASSUME NEW X, NEW base \in Seq(X), NEW t \in Seq(X), NEW J, NEW f
  PROVE  f[0] = base /\ Picks(f, t, J) => f[Len(t)] = base \o Picked(t, J)
<1> DEFINE h == PickedTo(t, J)
           T == {n \in Nat : n <= Len(t) => f[n] = base \o h[n] /\ h[n] \in Seq(X)}
<1>0. SUFFICES ASSUME f[0] = base, Picks(f, t, J) PROVE f[Len(t)] = base \o Picked(t, J)
  BY Zenon
<1>1. h[0] = <<>> /\ Picks(h, t, J)
  BY PickedToStep, Zenon
<1> HIDE DEF h
<1>2. 0 \in T
  <2>1. base \o <<>> = base /\ <<>> \in Seq(X)
    BY ConcatEmptySeq, EmptySeq, Zenon
  <2>2. f[0] = base \o h[0] /\ h[0] \in Seq(X)
    BY <1>0, <1>1, <2>1, Zenon
  <2>3. QED
    BY <2>2
<1>3. \A n \in Nat : n \in T => n + 1 \in T
  <2>0. \A n \in Nat : n + 1 \in Nat
    OBVIOUS
  <2>a. SUFFICES ASSUME NEW n \in Nat, n \in T, n + 1 <= Len(t)
                 PROVE  f[n + 1] = base \o h[n + 1] /\ h[n + 1] \in Seq(X)
    BY <2>0, Zenon
  <2>1. f[n] = base \o h[n] /\ h[n] \in Seq(X) /\ n + 1 \in 1..Len(t) /\ (n + 1) - 1 = n
    BY <2>a
  <2>b. h[n] \in Seq(X) /\ t[n + 1] \in X
    BY <2>1
  <2>2. f[n + 1] = IF n + 1 \in J THEN Append(f[n], t[n + 1]) ELSE f[n]
    BY <1>0, <2>1 DEF Picks
  <2>3. h[n + 1] = IF n + 1 \in J THEN Append(h[n], t[n + 1]) ELSE h[n]
    BY <1>1, <2>1 DEF Picks
  <2>4. Append(base \o h[n], t[n + 1]) = base \o Append(h[n], t[n + 1])
    <3>1. AppendsBehind(base, h[n], t[n + 1])
      BY <2>b, AppendToConcat, Zenon
    <3>2. QED
      BY <3>1 DEF AppendsBehind
  <2>5. Append(h[n], t[n + 1]) \in Seq(X)
    BY <2>b
  <2>6. QED
    BY <2>1, <2>2, <2>3, <2>4, <2>5, Zenon
<1>4. Nat \subseteq T
  BY <1>2, <1>3, NatInductionSet, Zenon
<1>5. f[Len(t)] = base \o h[Len(t)]
  BY <1>4
<1>6. QED
  BY <1>5, Zenon DEF Picked, h

\* Picking from a concatenation: from the first part, then from the second.
PicksApart(s, t, I) ==
  Picked(s \o t, I) = Picked(s, I) \o Picked(t, {i \in DOMAIN t : Len(s) + i \in I})

\* It is so for all sequences and positions.
LEMMA PickedConcat ==
  ASSUME NEW X, NEW s \in Seq(X), NEW t \in Seq(X), NEW I
  PROVE  PicksApart(s, t, I)
<1> DEFINE J == {i \in DOMAIN t : Len(s) + i \in I}
           u == s \o t
           f == PickedTo(u, I)
           f2 == [n \in 0..Len(t) |-> f[Len(s) + n]]
<1>0. /\ u \in Seq(X) /\ Len(u) = Len(s) + Len(t)
      /\ Len(s) \in Nat /\ Len(t) \in Nat
      /\ \A i \in 1..Len(s) : u[i] = s[i]
      /\ \A i \in 1..Len(t) : u[Len(s) + i] = t[i]
  BY ConcatProperties
<1> HIDE DEF u
<1>1. f[0] = <<>> /\ Picks(f, u, I)
  BY <1>0, PickedToStep, Zenon
<1>2. \A n \in 1..Len(t) : n \in J <=> Len(s) + n \in I
  BY <1>0
<1> HIDE DEF f, J
<1>3. f[Len(s)] = <<>> \o Picked(s, I)
  <2>1. <<>> \in Seq(X)
    BY EmptySeq
  <2>2. Picks(f, s, I)
    BY <1>0, <1>1 DEF Picks
  <2>3. QED
    BY <1>1, <2>1, <2>2, PickedBehind, Zenon
<1>4. Picked(s, I) \in Seq(X)
  BY PickedSeq, Zenon
<1>5. f[Len(s)] = Picked(s, I)
  BY <1>3, <1>4, ConcatEmptySeq, Zenon
<1>6. f2[0] = Picked(s, I)
  BY <1>0, <1>5
<1>7. Picks(f2, t, J)
  <2> SUFFICES ASSUME NEW n \in 1..Len(t)
               PROVE  f2[n] = IF n \in J THEN Append(f2[n - 1], t[n]) ELSE f2[n - 1]
    BY Zenon DEF Picks
  <2>1. Len(s) + n \in 1..Len(u) /\ (Len(s) + n) - 1 = Len(s) + (n - 1)
    BY <1>0
  <2>2. f[Len(s) + n] =
          IF Len(s) + n \in I THEN Append(f[Len(s) + (n - 1)], u[Len(s) + n]) ELSE f[Len(s) + (n - 1)]
    BY <1>1, <2>1 DEF Picks
  <2>3. f2[n] = f[Len(s) + n] /\ f2[n - 1] = f[Len(s) + (n - 1)]
    BY <1>0
  <2>4. QED
    BY <1>0, <1>2, <2>2, <2>3
<1> HIDE DEF f2
<1>8. f2[Len(t)] = Picked(s, I) \o Picked(t, J)
  BY <1>4, <1>6, <1>7, PickedBehind
<1>9. f2[Len(t)] = f[Len(u)]
  BY <1>0 DEF f2
<1>10. QED
  BY <1>8, <1>9, Zenon DEF PicksApart, Picked, f, J, u

\* Nothing is picked where no position is in I.
LEMMA PickedNone ==
  ASSUME NEW X, NEW seq \in Seq(X), NEW I, DOMAIN seq \cap I = {}
  PROVE  Picked(seq, I) = <<>>
<1>1. Picked(seq, I) \in Seq({seq[i] : i \in DOMAIN seq \cap I})
  BY PickedType
<1>2. {seq[i] : i \in DOMAIN seq \cap I} = {}
  OBVIOUS
<1>3. Picked(seq, I) \in Seq({})
  BY <1>1, <1>2, Zenon
<1> DEFINE p == Picked(seq, I)
<1> HIDE DEF p
<1>4. p \in Seq({})
  BY <1>3 DEF p
<1>5. Len(p) = 0
  BY <1>4
<1>6. p = <<>>
  BY <1>4, <1>5
<1>7. QED
  BY <1>6 DEF p

\* Only the positions of the sequence matter.
LEMMA PickedSame ==
  ASSUME NEW X, NEW seq \in Seq(X), NEW I, NEW J, \A i \in DOMAIN seq : i \in I <=> i \in J
  PROVE  Picked(seq, I) = Picked(seq, J)
<1> DEFINE f == PickedTo(seq, I)
<1>1. f[0] = <<>> /\ Picks(f, seq, I)
  BY PickedToStep, Zenon
<1> HIDE DEF f
<1>2. Picks(f, seq, J)
  BY <1>1 DEF Picks
<1>3. <<>> \in Seq(X)
  BY EmptySeq, Zenon
<1>4. f[Len(seq)] = <<>> \o Picked(seq, J)
  BY <1>1, <1>2, <1>3, PickedBehind, Zenon
<1>5. Picked(seq, J) \in Seq(X)
  BY PickedSeq, Zenon
<1>6. <<>> \o Picked(seq, J) = Picked(seq, J)
  BY <1>5, ConcatEmptySeq, Zenon
<1>7. QED
  BY <1>4, <1>6, Zenon DEF Picked, f

\* Everything is picked where every position is in I.
LEMMA PickedAll ==
  ASSUME NEW X, NEW seq \in Seq(X), NEW I, DOMAIN seq \subseteq I
  PROVE  Picked(seq, I) = seq
<1> DEFINE f == [n \in 0..Len(seq) |-> SubSeq(seq, 1, n)]
<1>1. f[0] = <<>> /\ <<>> \in Seq(X)
  BY EmptySeq
<1>2. Picks(f, seq, I)
  <2> SUFFICES ASSUME NEW n \in 1..Len(seq)
               PROVE  f[n] = IF n \in I THEN Append(f[n - 1], seq[n]) ELSE f[n - 1]
    BY Zenon DEF Picks
  <2>1. n \in I /\ f[n] = SubSeq(seq, 1, n) /\ f[n - 1] = SubSeq(seq, 1, n - 1)
    OBVIOUS
  <2>2. SubSeq(seq, 1, n) = Append(SubSeq(seq, 1, n - 1), seq[n])
    OBVIOUS
  <2>3. QED
    BY <2>1, <2>2
<1>3. f[Len(seq)] = seq
  OBVIOUS
<1> HIDE DEF f
<1>4. f[Len(seq)] = <<>> \o Picked(seq, I)
  BY <1>1, <1>2, PickedBehind, Zenon
<1>5. <<>> \o Picked(seq, I) = Picked(seq, I)
  BY PickedSeq, ConcatEmptySeq, Zenon
<1>6. QED
  BY <1>3, <1>4, <1>5, Zenon

\* A sequence is what comes up to a place and what comes behind it.
LEMMA SplitAt ==
  ASSUME NEW X, NEW seq \in Seq(X), NEW k \in 0..Len(seq)
  PROVE  SubSeq(seq, 1, k) \o SubSeq(seq, k + 1, Len(seq)) = seq
<1> DEFINE a == SubSeq(seq, 1, k)
           c == SubSeq(seq, k + 1, Len(seq))
<1>1. Len(seq) \in Nat /\ Len(a) = k /\ Len(c) = Len(seq) - k /\ a \in Seq(X) /\ c \in Seq(X)
  OBVIOUS
<1>2. \A i \in 1..Len(seq) : (IF i <= k THEN a[i] ELSE c[i - k]) = seq[i]
  OBVIOUS
<1> HIDE DEF a, c
<1>3. /\ a \o c \in Seq(X) /\ Len(a \o c) = Len(seq)
      /\ \A i \in 1..Len(seq) : (a \o c)[i] = IF i <= k THEN a[i] ELSE c[i - k]
  BY <1>1, ConcatProperties
<1>4. a \o c = seq
  BY <1>2, <1>3, SeqEqual
<1>5. QED
  BY <1>4 DEF a, c

\* One step of a scan: it ends at the places of S, and elsewhere gives a piece and jumps ahead.
ScanStep(S, base, piece, jump, f, i) == IF i \in S THEN base[i] ELSE piece[i] \o f[jump[i]]

\* f scans the places 1 to n + 1.
Scans(f, n, S, base, piece, jump) ==
  f = [i \in 1..(n + 1) |-> ScanStep(S, base, piece, jump, f, i)]

\* There is a function that scans, since every jump goes ahead.
LEMMA ScanExists ==
  ASSUME NEW n \in Nat, NEW S, NEW base, NEW piece, NEW jump,
         \A i \in 1..(n + 1) : i \notin S => jump[i] \in (i + 1)..(n + 1)
  PROVE  \E f : Scans(f, n, S, base, piece, jump)
<1> DEFINE Solved == {m \in Nat : m <= n + 1 =>
                        \E f : f = [i \in (n + 2 - m)..(n + 1) |-> ScanStep(S, base, piece, jump, f, i)]}
<1>1. 0 \in Solved
  <2> DEFINE g == [i \in (n + 2 - 0)..(n + 1) |-> <<>>]
  <2>1. g = [i \in (n + 2 - 0)..(n + 1) |-> ScanStep(S, base, piece, jump, g, i)]
    OBVIOUS
  <2> QED
    BY <2>1
<1>2. \A m \in Nat : m \in Solved => m + 1 \in Solved
  <2>0. SUFFICES ASSUME NEW m \in Nat, m \in Solved, m + 1 <= n + 1
                 PROVE  \E f : f = [i \in (n + 2 - (m + 1))..(n + 1) |-> ScanStep(S, base, piece, jump, f, i)]
    OBVIOUS
  <2>1. PICK f : f = [i \in (n + 2 - m)..(n + 1) |-> ScanStep(S, base, piece, jump, f, i)]
    BY <2>0
  <2> DEFINE g == [i \in (n + 2 - (m + 1))..(n + 1) |->
                     IF i >= n + 2 - m THEN f[i] ELSE ScanStep(S, base, piece, jump, f, i)]
  <2>2. \A i \in (n + 2 - (m + 1))..(n + 1) :
          i \in 1..(n + 1) /\ (i \notin S => jump[i] \in (n + 2 - m)..(n + 1) /\ g[jump[i]] = f[jump[i]])
    BY <2>0
  <2>3. \A i \in (n + 2 - (m + 1))..(n + 1) : ScanStep(S, base, piece, jump, g, i) = ScanStep(S, base, piece, jump, f, i)
    <3> SUFFICES ASSUME NEW i \in (n + 2 - (m + 1))..(n + 1)
                 PROVE  ScanStep(S, base, piece, jump, g, i) = ScanStep(S, base, piece, jump, f, i)
      OBVIOUS
    <3>1. i \notin S => g[jump[i]] = f[jump[i]]
      BY <2>2
    <3> HIDE DEF g
    <3> QED
      BY <3>1 DEF ScanStep
  <2>4. \A i \in (n + 2 - (m + 1))..(n + 1) : g[i] = ScanStep(S, base, piece, jump, g, i)
    BY <2>1, <2>3
  <2>5. g = [i \in (n + 2 - (m + 1))..(n + 1) |-> ScanStep(S, base, piece, jump, g, i)]
    BY <2>4
  <2> QED
    BY <2>5
<1>3. Nat \subseteq Solved
  BY <1>1, <1>2, NatInductionSet, Zenon
<1>4. n + 1 \in Solved /\ n + 2 - (n + 1) = 1
  BY <1>3
<1>5. PICK f : f = [i \in 1..(n + 1) |-> ScanStep(S, base, piece, jump, f, i)]
  BY <1>4
<1> QED
  BY <1>5 DEF Scans
=============================================================================
