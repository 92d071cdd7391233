----------------------------- MODULE VaultProofs -----------------------------
(***************************************************************************)
(* Proofs about the vault: the streaming replacement that reads it, on     *)
(* texts of any length, and the registry that hands it out, for any number *)
(* of connections, conversations, allocations and PII values.              *)
(*                                                                         *)
(* The scans of replace_synthetics and apply_xml_token_cascade are         *)
(* recursive functions of a place.  It is first shown that they satisfy    *)
(* their equations, and that what they give from a place on depends on the *)
(* rest of the text only; from there on Cascade is known by what it does   *)
(* at one place (CascadeAt), and everything about whole texts is an        *)
(* induction from their end to their beginning (Backward).                 *)
(***************************************************************************)
EXTENDS VaultRegistry, ReplacementBuffer, SubsequenceProofs, FiniteSetTheorems

(***************************************************************************)
(*                         The replacement buffer                          *)
(***************************************************************************)

\* A text is a sequence of characters.
Text == Seq(STRING)

-----------------------------------------------------------------------------
(* Numbers *)

\* The least element of a set of numbers.
LEMMA MinProps ==
  ASSUME NEW S, S \subseteq Nat, S # {}
  PROVE  Min(S) \in S /\ \A y \in S : Min(S) <= y
BY LeastNatural DEF Min

\* The greatest element of a set of numbers that has a bound.
LEMMA MaxProps ==
  ASSUME NEW S, S \subseteq Nat, S # {}, NEW b \in Nat, \A y \in S : y <= b
  PROVE  Max(S) \in S /\ \A y \in S : Max(S) >= y
<1> DEFINE Left == {b - y : y \in S}
<1>0. \A y \in S : b - y \in Nat
  OBVIOUS
<1>1. Left \subseteq Nat /\ Left # {}
  BY <1>0
<1>2. PICK m \in Left : \A l \in Left : m <= l
  BY <1>1, LeastNatural, Zenon
<1>3. PICK x \in S : m = b - x
  BY <1>2
<1>4. \A y \in S : x >= y
  BY <1>2, <1>3
<1> QED
  BY <1>3, <1>4 DEF Max

\* No value of f at 1 to m is greater than b.
BoundedTo(f, m, b) == \A i \in 1..m : f[i] <= b

\* A finite set of numbers has a bound.
LEMMA FiniteBounded ==
  ASSUME NEW S, S \subseteq Nat, IsFiniteSet(S)
  PROVE  \E b \in Nat : \A y \in S : y <= b
<1>1. PICK n \in Nat : ExistsBijection(1..n, S)
  BY FS_NatBijection, Zenon
<1>2. PICK f : f \in Bijection(1..n, S)
  BY <1>1 DEF ExistsBijection
<1>3. f \in [1..n -> S] /\ \A y \in S : \E i \in 1..n : f[i] = y
  BY <1>2 DEF Bijection, Surjection, Injection
<1>4. \A i \in 1..n : f[i] \in Nat
  BY <1>3
<1> DEFINE T == {m \in Nat : m <= n => \E b \in Nat : BoundedTo(f, m, b)}
<1>5. 0 \in T
  BY DEF BoundedTo
<1>6. \A m \in Nat : m \in T => m + 1 \in T
  <2>1. SUFFICES ASSUME NEW m \in Nat, m \in T, m + 1 <= n
                 PROVE  \E b \in Nat : BoundedTo(f, m + 1, b)
    OBVIOUS
  <2>2. PICK b \in Nat : BoundedTo(f, m, b)
    BY <2>1
  <2>3. f[m + 1] \in Nat
    BY <1>4, <2>1
  <2>4. BoundedTo(f, m + 1, b + f[m + 1])
    BY <1>4, <2>1, <2>2, <2>3 DEF BoundedTo
  <2> QED
    BY <2>3, <2>4
<1>7. Nat \subseteq T
  BY <1>5, <1>6, NatInductionSet, Zenon
<1>8. PICK b \in Nat : BoundedTo(f, n, b)
  BY <1>7
<1> QED
  BY <1>3, <1>8 DEF BoundedTo

-----------------------------------------------------------------------------
(* Texts *)

\* The rest of a text.
LEMMA FromProps ==
  ASSUME NEW t \in Text, NEW i \in 1..(Len(t) + 1)
  PROVE  /\ From(t, i) \in Text
         /\ Len(From(t, i)) = Len(t) - i + 1
         /\ \A j \in 1..(Len(t) - i + 1) : From(t, i)[j] = t[i + j - 1]
BY DEF From, Text

\* A piece of a text.
LEMMA PieceProps ==
  ASSUME NEW t \in Text, NEW i \in 1..(Len(t) + 1), NEW j \in (i - 1)..Len(t)
  PROVE  /\ SubSeq(t, i, j) \in Text
         /\ Len(SubSeq(t, i, j)) = j - i + 1
         /\ \A n \in 1..(j - i + 1) : SubSeq(t, i, j)[n] = t[i + n - 1]
BY DEF Text

\* Two texts with the same characters are the same.
LEMMA SameText ==
  ASSUME NEW s \in Text, NEW t \in Text, Len(s) = Len(t), \A i \in 1..Len(s) : s[i] = t[i]
  PROVE  s = t
BY SeqEqual DEF Text

\* Two texts in a row.
LEMMA JoinProps ==
  ASSUME NEW s \in Text, NEW t \in Text
  PROVE  /\ s \o t \in Text
         /\ Len(s \o t) = Len(s) + Len(t)
         /\ \A i \in 1..Len(s) : (s \o t)[i] = s[i]
         /\ \A i \in 1..Len(t) : (s \o t)[Len(s) + i] = t[i]
BY ConcatProperties DEF Text

\* At, character by character.
LEMMA AtChars ==
  ASSUME NEW t \in Text, NEW s \in Text, NEW i \in Nat \ {0}
  PROVE  At(t, i, s) <=> i + Len(s) - 1 <= Len(t) /\ \A j \in 1..Len(s) : t[i + j - 1] = s[j]
<1> SUFFICES ASSUME i + Len(s) - 1 <= Len(t)
             PROVE  SubSeq(t, i, i + Len(s) - 1) = s <=> \A j \in 1..Len(s) : t[i + j - 1] = s[j]
  BY DEF At
<1> DEFINE p == SubSeq(t, i, i + Len(s) - 1)
<1>0. Len(s) \in Nat /\ Len(t) \in Nat
  BY DEF Text
<1>1. i \in 1..(Len(t) + 1) /\ i + Len(s) - 1 \in (i - 1)..Len(t)
  BY <1>0
<1>2. p \in Text /\ Len(p) = Len(s) /\ \A n \in 1..Len(s) : p[n] = t[i + n - 1]
  BY <1>0, <1>1, PieceProps
<1> HIDE DEF p
<1>3. (\A j \in 1..Len(s) : t[i + j - 1] = s[j]) => p = s
  BY <1>2, SameText
<1>4. p = s <=> \A j \in 1..Len(s) : t[i + j - 1] = s[j]
  BY <1>0, <1>2, <1>3
<1> QED
  BY <1>4 DEF p

\* The length of a text is a number, and its characters are characters.
LEMMA TextLen ==
  ASSUME NEW t \in Text
  PROVE  Len(t) \in Nat /\ \A i \in 1..Len(t) : t[i] \in STRING
BY DEF Text

\* The rest of a rest.
LEMMA FromFrom ==
  ASSUME NEW t \in Text, NEW i \in 1..(Len(t) + 1), NEW j \in 1..(Len(t) - i + 2)
  PROVE  From(From(t, i), j) = From(t, i + j - 1)
<1>0. Len(t) \in Nat
  BY TextLen
<1> DEFINE u == From(t, i)
           v == From(u, j)
           w == From(t, i + j - 1)
<1>1. u \in Text /\ Len(u) = Len(t) - i + 1 /\ \A n \in 1..(Len(t) - i + 1) : u[n] = t[i + n - 1]
  BY FromProps
<1>2. i + j - 1 \in 1..(Len(t) + 1) /\ j \in 1..(Len(u) + 1)
  BY <1>0, <1>1
<1>3. /\ w \in Text /\ Len(w) = Len(t) - (i + j - 1) + 1
      /\ \A n \in 1..(Len(t) - (i + j - 1) + 1) : w[n] = t[(i + j - 1) + n - 1]
  BY <1>2, FromProps
<1> HIDE DEF u
<1>4. v \in Text /\ Len(v) = Len(u) - j + 1 /\ \A n \in 1..(Len(u) - j + 1) : v[n] = u[j + n - 1]
  BY <1>1, <1>2, FromProps
<1> HIDE DEF v, w
<1>5. Len(v) = Len(w) /\ \A n \in 1..Len(v) : v[n] = w[n]
  BY <1>0, <1>1, <1>3, <1>4
<1>6. v = w
  BY <1>3, <1>4, <1>5, SameText
<1> QED
  BY <1>6 DEF u, v, w

\* What is found in the rest of a text is found in the text.
LEMMA AtFrom ==
  ASSUME NEW t \in Text, NEW i \in 1..(Len(t) + 1), NEW j \in Nat \ {0}, NEW s \in Text, s # <<>>
  PROVE  At(From(t, i), j, s) <=> At(t, i + j - 1, s)
<1> DEFINE u == From(t, i)
<1>0. Len(t) \in Nat /\ Len(s) \in Nat /\ Len(s) >= 1
  BY DEF Text
<1>1. u \in Text /\ Len(u) = Len(t) - i + 1 /\ \A n \in 1..(Len(t) - i + 1) : u[n] = t[i + n - 1]
  BY FromProps
<1> HIDE DEF u
<1>2. i + j - 1 \in Nat \ {0}
  BY <1>0
<1>3. At(u, j, s) <=> j + Len(s) - 1 <= Len(u) /\ \A n \in 1..Len(s) : u[j + n - 1] = s[n]
  BY <1>1, AtChars
<1>4. At(t, i + j - 1, s) <=> (i + j - 1) + Len(s) - 1 <= Len(t) /\ \A n \in 1..Len(s) : t[(i + j - 1) + n - 1] = s[n]
  BY <1>2, AtChars
<1>5. j + Len(s) - 1 <= Len(u) => \A n \in 1..Len(s) : u[j + n - 1] = t[(i + j - 1) + n - 1]
  BY <1>0, <1>1
<1>6. j + Len(s) - 1 <= Len(u) <=> (i + j - 1) + Len(s) - 1 <= Len(t)
  BY <1>0, <1>1
<1>7. At(u, j, s) <=> At(t, i + j - 1, s)
  BY <1>3, <1>4, <1>5, <1>6
<1> QED
  BY <1>7 DEF u

\* The rest of two texts in a row.
LEMMA FromJoin ==
  ASSUME NEW s \in Text, NEW w \in Text, NEW i \in 1..(Len(s) + 1)
  PROVE  From(s \o w, i) = From(s, i) \o w
<1> DEFINE u == s \o w
           l == From(u, i)
           f == From(s, i)
           r == f \o w
<1>0. Len(s) \in Nat /\ Len(w) \in Nat
  BY TextLen
<1>1. u \in Text /\ Len(u) = Len(s) + Len(w) /\ (\A n \in 1..Len(s) : u[n] = s[n]) /\ \A n \in 1..Len(w) : u[Len(s) + n] = w[n]
  BY JoinProps
<1>2. f \in Text /\ Len(f) = Len(s) - i + 1 /\ \A n \in 1..(Len(s) - i + 1) : f[n] = s[i + n - 1]
  BY FromProps
<1> HIDE DEF u, f
<1>3. i \in 1..(Len(u) + 1)
  BY <1>0, <1>1
<1>4. l \in Text /\ Len(l) = Len(u) - i + 1 /\ \A n \in 1..(Len(u) - i + 1) : l[n] = u[i + n - 1]
  BY <1>1, <1>3, FromProps
<1>5. r \in Text /\ Len(r) = Len(f) + Len(w) /\ (\A n \in 1..Len(f) : r[n] = f[n]) /\ \A n \in 1..Len(w) : r[Len(f) + n] = w[n]
  BY <1>2, JoinProps
<1> HIDE DEF l, r
<1>a. Len(l) = Len(r) /\ \A n \in 1..Len(f) : n \in 1..(Len(u) - i + 1) /\ i + n - 1 \in 1..Len(s)
  BY <1>0, <1>1, <1>2, <1>4, <1>5
<1>6. Len(l) = Len(r) /\ \A n \in 1..Len(f) : l[n] = r[n]
  BY <1>a, <1>1, <1>2, <1>4, <1>5
<1>7. ASSUME NEW n \in 1..Len(w) PROVE l[Len(f) + n] = r[Len(f) + n]
  <2>1. Len(f) + n \in 1..(Len(u) - i + 1) /\ i + (Len(f) + n) - 1 = Len(s) + n
    BY <1>0, <1>1, <1>2
  <2> QED
    BY <1>1, <1>4, <1>5, <2>1
<1>8. \A n \in 1..Len(l) : n \in 1..Len(f) \/ (n - Len(f) \in 1..Len(w) /\ n = Len(f) + (n - Len(f)))
  BY <1>0, <1>2, <1>5, <1>6
<1>9. \A n \in 1..Len(l) : l[n] = r[n]
  BY <1>6, <1>7, <1>8
<1>10. l = r
  BY <1>4, <1>5, <1>6, <1>9, SameText
<1> QED
  BY <1>10 DEF l, r, u, f

\* What is found in the first of two texts is found in both in a row.
LEMMA AtJoin ==
  ASSUME NEW t \in Text, NEW w \in Text, NEW i \in Nat \ {0}, NEW s \in Text, i + Len(s) - 1 <= Len(t)
  PROVE  At(t \o w, i, s) <=> At(t, i, s)
<1> DEFINE u == t \o w
<1>0. Len(t) \in Nat /\ Len(w) \in Nat /\ Len(s) \in Nat
  BY TextLen
<1>1. u \in Text /\ Len(u) = Len(t) + Len(w) /\ (\A n \in 1..Len(t) : u[n] = t[n])
  BY JoinProps
<1> HIDE DEF u
<1>2. At(u, i, s) <=> i + Len(s) - 1 <= Len(u) /\ \A n \in 1..Len(s) : u[i + n - 1] = s[n]
  BY <1>1, AtChars
<1>3. At(t, i, s) <=> i + Len(s) - 1 <= Len(t) /\ \A n \in 1..Len(s) : t[i + n - 1] = s[n]
  BY AtChars
<1>4. \A n \in 1..Len(s) : u[i + n - 1] = t[i + n - 1]
  BY <1>0, <1>1
<1>5. At(u, i, s) <=> At(t, i, s)
  BY <1>0, <1>1, <1>2, <1>3, <1>4
<1> QED
  BY <1>5 DEF u

\* Texts in a row may be joined in any order; the empty one does nothing.
LEMMA JoinAssoc ==
  ASSUME NEW s \in Text, NEW t \in Text, NEW u \in Text
  PROVE  (s \o t) \o u = s \o (t \o u) /\ <<>> \o s = s /\ s \o <<>> = s /\ <<>> \in Text
BY ConcatAssociative, ConcatEmptySeq, EmptySeq DEF Text

\* Three texts in a row, and two.
LEMMA Assoc ==
  ASSUME NEW s \in Text, NEW t \in Text, NEW u \in Text
  PROVE  (s \o t) \o u = s \o (t \o u)
BY JoinAssoc

\* Two texts in a row are a text.
LEMMA JoinText ==
  ASSUME NEW s \in Text, NEW t \in Text
  PROVE  s \o t \in Text
BY JoinProps

\* Sequences of one and of two elements.
LEMMA PairSeq ==
  ASSUME NEW X, NEW a \in X, NEW b \in X
  PROVE  /\ <<a, b>> \in Seq(X) /\ Len(<<a, b>>) = 2 /\ <<a, b>>[1] = a /\ <<a, b>>[2] = b
         /\ <<a>> \in Seq(X) /\ Len(<<a>>) = 1 /\ <<a>>[1] = a
OBVIOUS

\* Where a tag opens, and where one closes.
LEMMA TagAt ==
  ASSUME NEW t \in Text, NEW i \in Nat \ {0}
  PROVE  /\ At(t, i, Open) <=> i + 1 <= Len(t) /\ t[i] = "<" /\ t[i + 1] = "p"
         /\ At(t, i, Close) <=> i <= Len(t) /\ t[i] = "/"
<1>0. Len(t) \in Nat
  BY TextLen
<1>a. "<" \in STRING /\ "p" \in STRING /\ "/" \in STRING
  BY VaultAssumption
<1>1. Open \in Text /\ Len(Open) = 2 /\ Open[1] = "<" /\ Open[2] = "p"
  BY <1>a, PairSeq, Zenon DEF Open, Text
<1>2. Close \in Text /\ Len(Close) = 1 /\ Close[1] = "/"
  BY <1>a, PairSeq, Zenon DEF Close, Text
<1>3. At(t, i, Open) <=> i + Len(Open) - 1 <= Len(t) /\ \A j \in 1..Len(Open) : t[i + j - 1] = Open[j]
  BY <1>1, AtChars
<1>4. At(t, i, Close) <=> i + Len(Close) - 1 <= Len(t) /\ \A j \in 1..Len(Close) : t[i + j - 1] = Close[j]
  BY <1>2, AtChars
<1>5. i + Len(Open) - 1 = i + 1 /\ 1..Len(Open) = {1, 2} /\ i + Len(Close) - 1 = i /\ 1..Len(Close) = {1}
      /\ i + 1 - 1 = i /\ i + 2 - 1 = i + 1
  BY <1>1, <1>2
<1> HIDE DEF Open, Close
<1>6. At(t, i, Open) <=> i + 1 <= Len(t) /\ t[i] = "<" /\ t[i + 1] = "p"
  BY <1>1, <1>3, <1>5
<1>7. At(t, i, Close) <=> i <= Len(t) /\ t[i] = "/"
  BY <1>2, <1>4, <1>5
<1> QED
  BY <1>6, <1>7

-----------------------------------------------------------------------------
(* The vault *)

\* Synthetic values are texts, and so is what they stand for.
LEMMA KeyTyped ==
  ASSUME NEW k \in DOMAIN Display
  PROVE  k \in Text /\ k # <<>> /\ Len(k) \in Nat /\ Len(k) >= 1 /\ Display[k] \in Text
<1>1. k \in Text /\ k # <<>> /\ Display[k] \in Text
  BY VaultAssumption DEF Text
<1> QED
  BY <1>1 DEF Text

\* The keys found in the rest of a text.
LEMMA KeysAtFrom ==
  ASSUME NEW t \in Text, NEW i \in 1..(Len(t) + 1), NEW j \in Nat \ {0}
  PROVE  KeysAt(From(t, i), j) = KeysAt(t, i + j - 1)
<1>1. \A k \in DOMAIN Display : At(From(t, i), j, k) <=> At(t, i + j - 1, k)
  BY KeyTyped, AtFrom
<1> QED
  BY <1>1 DEF KeysAt

\* The longest of the keys that are found at a place is one of them, and ends in the text.
LEMMA LongestProps ==
  ASSUME NEW t \in Text, NEW i \in Nat \ {0}, KeysAt(t, i) # {}
  PROVE  /\ Longest(KeysAt(t, i)) \in KeysAt(t, i)
         /\ Longest(KeysAt(t, i)) \in DOMAIN Display
         /\ i + Len(Longest(KeysAt(t, i))) \in (i + 1)..(Len(t) + 1)
<1> DEFINE K == KeysAt(t, i)
           L == {Len(k) : k \in K}
<1>0. Len(t) \in Nat
  BY TextLen
<1>1. \A k \in K : k \in DOMAIN Display /\ Len(k) \in Nat /\ Len(k) >= 1 /\ i + Len(k) - 1 <= Len(t)
  BY KeyTyped DEF KeysAt, At
<1> HIDE DEF K
<1>a. K # {}
  BY DEF K
<1>2. L \subseteq Nat /\ L # {} /\ \A y \in L : y <= Len(t)
  <2>1. \A k \in K : Len(k) \in Nat /\ Len(k) <= Len(t)
    BY <1>0, <1>1
  <2> QED
    BY <1>a, <2>1
<1>3. Max(L) \in L /\ \A y \in L : Max(L) >= y
  BY <1>0, <1>2, MaxProps
<1>4. PICK k \in K : \A l \in K : Len(k) >= Len(l)
  BY <1>3
<1>5. \A l \in K : Len(l) <= Len(k)
  BY <1>1, <1>4
<1>6. Longest(K) \in K
  BY <1>4, <1>5 DEF Longest
<1>7. Longest(K) \in DOMAIN Display /\ i + Len(Longest(K)) \in (i + 1)..(Len(t) + 1)
  BY <1>0, <1>1, <1>6
<1> QED
  BY <1>6, <1>7 DEF K

-----------------------------------------------------------------------------
(* Scans *)

\* A scan of pieces that are texts gives texts.
LEMMA ScanTyped ==
  ASSUME NEW n \in Nat, NEW S, NEW base, NEW piece, NEW jump, NEW f,
         \A i \in 1..(n + 1) : i \notin S => jump[i] \in (i + 1)..(n + 1) /\ piece[i] \in Text,
         \A i \in 1..(n + 1) : i \in S => base[i] \in Text,
         \A i \in 1..(n + 1) : f[i] = ScanStep(S, base, piece, jump, f, i)
  PROVE  \A i \in 1..(n + 1) : f[i] \in Text
<1> DEFINE T == {m \in Nat : m <= n => f[n + 1 - m] \in Text}
<1>1. \A m \in Nat : (\A l \in 0..(m - 1) : l \in T) => m \in T
  <2>0. SUFFICES ASSUME NEW m \in Nat, \A l \in 0..(m - 1) : l \in T, m <= n
                 PROVE  f[n + 1 - m] \in Text
    OBVIOUS
  <2> DEFINE i == n + 1 - m
  <2>1. i \in 1..(n + 1)
    BY <2>0
  <2>2. f[i] = ScanStep(S, base, piece, jump, f, i)
    BY <2>1
  <2>3. CASE i \in S
    BY <2>1, <2>2, <2>3 DEF ScanStep
  <2>4. CASE i \notin S
    <3>1. jump[i] \in (i + 1)..(n + 1) /\ piece[i] \in Text
      BY <2>1, <2>4
    <3>2. n + 1 - jump[i] \in 0..(m - 1) /\ n + 1 - (n + 1 - jump[i]) = jump[i] /\ n + 1 - jump[i] <= n
      BY <2>1, <3>1
    <3>3. f[jump[i]] \in Text
      BY <2>0, <3>2
    <3>4. piece[i] \o f[jump[i]] \in Text
      BY <3>1, <3>3, JoinProps
    <3> QED
      BY <2>2, <2>4, <3>4 DEF ScanStep
  <2> QED
    BY <2>3, <2>4
<1>2. Nat \subseteq T
  BY <1>1, StrongInductionSet, Zenon
<1>3. ASSUME NEW i \in 1..(n + 1) PROVE f[i] \in Text
  <2>1. n + 1 - i \in T /\ n + 1 - (n + 1 - i) = i /\ n + 1 - i <= n
    BY <1>2
  <2> QED
    BY <2>1
<1> QED
  BY <1>3

-----------------------------------------------------------------------------
(* replace_synthetics *)

\* What replace_synthetics puts out at i, and where it goes on.
Piece(t, i) == IF KeysAt(t, i) = {} THEN <<t[i]>> ELSE Display[Longest(KeysAt(t, i))]
Jump(t, i)  == IF KeysAt(t, i) = {} THEN i + 1 ELSE i + Len(Longest(KeysAt(t, i)))

\* The piece is a text, and the jump goes ahead.
LEMMA PieceJump ==
  ASSUME NEW t \in Text, NEW i \in 1..Len(t)
  PROVE  Piece(t, i) \in Text /\ Jump(t, i) \in (i + 1)..(Len(t) + 1)
<1>0. Len(t) \in Nat /\ t[i] \in STRING
  BY TextLen
<1>1. CASE KeysAt(t, i) = {}
  <2>1. <<t[i]>> \in Text
    BY <1>0, PairSeq, Zenon DEF Text
  <2> QED
    BY <1>0, <1>1, <2>1 DEF Piece, Jump
<1>2. CASE KeysAt(t, i) # {}
  <2>1. i \in Nat \ {0}
    BY <1>0
  <2>2. /\ Longest(KeysAt(t, i)) \in DOMAIN Display
        /\ i + Len(Longest(KeysAt(t, i))) \in (i + 1)..(Len(t) + 1)
    BY <1>2, <2>1, LongestProps
  <2>3. Display[Longest(KeysAt(t, i))] \in Text
    BY <2>2, KeyTyped
  <2> QED
    BY <1>2, <2>2, <2>3 DEF Piece, Jump
<1> QED
  BY <1>1, <1>2

\* ReplacedFrom is a solution of its recursive definition.
LEMMA ReplacedFromDef ==
  ASSUME NEW t \in Text
  PROVE  \A i \in 1..(Len(t) + 1) :
           /\ ReplacedFrom(t)[i] = IF i > Len(t) THEN <<>> ELSE Piece(t, i) \o ReplacedFrom(t)[Jump(t, i)]
           /\ ReplacedFrom(t)[i] \in Text
<1> DEFINE n == Len(t)
           S == {n + 1}
           base == [i \in 1..(n + 1) |-> <<>>]
           piece == [i \in 1..(n + 1) |-> Piece(t, i)]
           jump == [i \in 1..(n + 1) |-> Jump(t, i)]
           Body(f, i) == IF i > Len(t) THEN <<>>
                         ELSE IF KeysAt(t, i) = {} THEN <<t[i]>> \o f[i + 1]
                         ELSE Display[Longest(KeysAt(t, i))] \o f[i + Len(Longest(KeysAt(t, i)))]
           F == ReplacedFrom(t)
<1>0. n \in Nat
  BY TextLen
<1>1. \A i \in 1..(n + 1) : i \notin S => jump[i] \in (i + 1)..(n + 1) /\ piece[i] \in Text
  BY <1>0, PieceJump
<1>2. \A f : \A i \in 1..(n + 1) : Body(f, i) = ScanStep(S, base, piece, jump, f, i)
  <2> SUFFICES ASSUME NEW f, NEW i \in 1..(n + 1) PROVE Body(f, i) = ScanStep(S, base, piece, jump, f, i)
    BY Zenon
  <2>1. i > Len(t) <=> i \in S
    BY <1>0
  <2>2. base[i] = <<>> /\ piece[i] = Piece(t, i) /\ jump[i] = Jump(t, i)
    OBVIOUS
  <2> QED
    BY <2>1, <2>2, Zenon DEF ScanStep, Piece, Jump
<1>a. \A i \in 1..(n + 1) : i \notin S => jump[i] \in (i + 1)..(n + 1)
  BY <1>1
<1> HIDE DEF Body, S, base, piece, jump
<1>3. PICK f : Scans(f, n, S, base, piece, jump)
  BY <1>0, <1>a, ScanExists, Zenon
<1>4. f = [i \in 1..(n + 1) |-> Body(f, i)]
  BY <1>2, <1>3 DEF Scans
<1>5. F = [i \in 1..(n + 1) |-> Body(F, i)]
  BY <1>4, Zenon DEF ReplacedFrom, Body
<1> HIDE DEF F
<1>6. \A i \in 1..(n + 1) : F[i] = ScanStep(S, base, piece, jump, F, i)
  BY <1>2, <1>5
<1>7. \A i \in 1..(n + 1) : i \in S => base[i] \in Text
  BY EmptySeq DEF base, Text
<1>8. \A i \in 1..(n + 1) : F[i] \in Text
  <2>1. n \in Nat
    BY <1>0
  <2> HIDE DEF n
  <2> QED
    BY <2>1, <1>1, <1>6, <1>7, ScanTyped
<1>9. ASSUME NEW i \in 1..(n + 1)
      PROVE  F[i] = IF i > Len(t) THEN <<>> ELSE Piece(t, i) \o F[Jump(t, i)]
  <2>1. i > Len(t) <=> i \in S
    BY <1>0 DEF S
  <2>2. base[i] = <<>> /\ piece[i] = Piece(t, i) /\ jump[i] = Jump(t, i)
    BY DEF base, piece, jump
  <2>3. F[i] = ScanStep(S, base, piece, jump, F, i)
    BY <1>6
  <2> QED
    BY <2>1, <2>2, <2>3, Zenon DEF ScanStep
<1> QED
  BY <1>8, <1>9 DEF F

\* What a place of a text becomes is what the rest from there becomes.
LEMMA ReplacedSuffix ==
  ASSUME NEW t \in Text, NEW i \in 1..(Len(t) + 1)
  PROVE  ReplacedFrom(t)[i] = ReplaceSynthetics(From(t, i))
<1> DEFINE Claim(u, j) == ReplacedFrom(u)[j] = ReplaceSynthetics(From(u, j))
           T == {m \in Nat : \A u \in Text : \A j \in 1..(Len(u) + 1) : Len(u) + 1 - j = m => Claim(u, j)}
<1>1. \A m \in Nat : (\A l \in 0..(m - 1) : l \in T) => m \in T
  <2>0. SUFFICES ASSUME NEW m \in Nat, \A l \in 0..(m - 1) : l \in T,
                        NEW u \in Text, NEW j \in 1..(Len(u) + 1), Len(u) + 1 - j = m
                 PROVE  Claim(u, j)
    BY Zenon
  <2>1. Len(u) \in Nat
    BY TextLen
  <2>2. ASSUME NEW v \in Text, NEW n \in 1..(Len(v) + 1), Len(v) + 1 - n < m PROVE Claim(v, n)
    <3>1. Len(v) + 1 - n \in 0..(m - 1)
      BY <2>2, TextLen
    <3>2. Len(v) + 1 - n \in T
      BY <2>0, <3>1
    <3> QED
      BY <3>2
  <2> HIDE DEF T
  <2> DEFINE v == From(u, j)
  <2>3. v \in Text /\ Len(v) = Len(u) - j + 1 /\ \A n \in 1..(Len(u) - j + 1) : v[n] = u[j + n - 1]
    BY FromProps
  <2> HIDE DEF v
  <2>4. ReplacedFrom(v)[1] = IF 1 > Len(v) THEN <<>> ELSE Piece(v, 1) \o ReplacedFrom(v)[Jump(v, 1)]
    BY <2>1, <2>3, ReplacedFromDef
  <2>5. ReplacedFrom(u)[j] = IF j > Len(u) THEN <<>> ELSE Piece(u, j) \o ReplacedFrom(u)[Jump(u, j)]
    BY ReplacedFromDef
  <2>6. CASE j > Len(u)
    <3>1. ReplacedFrom(v)[1] = ReplacedFrom(u)[j]
      BY <2>1, <2>3, <2>4, <2>5, <2>6
    <3> QED
      BY <3>1 DEF ReplaceSynthetics, v
  <2>7. CASE ~(j > Len(u))
    <3>1. j \in 1..Len(u) /\ 1 \in 1..Len(v) /\ 1 \in Nat \ {0} /\ j + 1 - 1 = j /\ v[1] = u[j]
      BY <2>1, <2>3, <2>7
    <3>2. KeysAt(v, 1) = KeysAt(u, j)
      BY <3>1, KeysAtFrom DEF v
    <3>3. Piece(v, 1) = Piece(u, j)
      BY <3>1, <3>2 DEF Piece
    <3>4. Jump(u, j) \in (j + 1)..(Len(u) + 1) /\ Jump(v, 1) \in 2..(Len(v) + 1)
      BY <2>3, <3>1, PieceJump
    <3>a. \A k \in KeysAt(u, j) : Len(k) \in Nat
      BY KeyTyped DEF KeysAt
    <3>b. KeysAt(u, j) # {} => Longest(KeysAt(u, j)) \in KeysAt(u, j)
      BY <3>1, LongestProps
    <3>5. Jump(u, j) = j + Jump(v, 1) - 1
      BY <3>1, <3>2, <3>a, <3>b DEF Jump
    <3>6. Claim(v, Jump(v, 1)) /\ Claim(u, Jump(u, j))
      BY <2>0, <2>1, <2>2, <2>3, <3>1, <3>4
    <3>7. From(v, Jump(v, 1)) = From(u, Jump(u, j))
      BY <2>1, <2>3, <3>1, <3>4, <3>5, FromFrom DEF v
    <3>8. ReplacedFrom(v)[1] = ReplacedFrom(u)[j]
      BY <2>4, <2>5, <2>7, <3>1, <3>3, <3>6, <3>7
    <3> QED
      BY <3>8 DEF ReplaceSynthetics, v
  <2> QED
    BY <2>6, <2>7
<1>2. Nat \subseteq T
  BY <1>1, StrongInductionSet, Zenon
<1>3. Len(t) + 1 - i \in Nat
  BY TextLen
<1>4. Len(t) + 1 - i \in T
  BY <1>2, <1>3, Zenon
<1> QED
  BY <1>4

\* replace_synthetics at the beginning of a text.
LEMMA ReplaceHead ==
  ASSUME NEW t \in Text
  PROVE  /\ ReplaceSynthetics(t) \in Text
         /\ t = <<>> => ReplaceSynthetics(t) = <<>>
         /\ t # <<>> => ReplaceSynthetics(t) = Piece(t, 1) \o ReplaceSynthetics(From(t, Jump(t, 1)))
<1>0. Len(t) \in Nat /\ 1 \in 1..(Len(t) + 1) /\ (t = <<>> <=> Len(t) = 0)
  BY DEF Text
<1>1. /\ ReplacedFrom(t)[1] = IF 1 > Len(t) THEN <<>> ELSE Piece(t, 1) \o ReplacedFrom(t)[Jump(t, 1)]
      /\ ReplacedFrom(t)[1] \in Text
  BY <1>0, ReplacedFromDef
<1>2. t # <<>> => Jump(t, 1) \in 1..(Len(t) + 1)
  <2> SUFFICES ASSUME t # <<>> PROVE Jump(t, 1) \in 1..(Len(t) + 1)
    OBVIOUS
  <2>1. 1 \in 1..Len(t)
    BY <1>0
  <2> QED
    BY <1>0, <2>1, PieceJump
<1>3. t # <<>> => ReplacedFrom(t)[Jump(t, 1)] = ReplaceSynthetics(From(t, Jump(t, 1)))
  BY <1>2, ReplacedSuffix
<1> QED
  BY <1>0, <1>1, <1>3 DEF ReplaceSynthetics

-----------------------------------------------------------------------------
(* apply_xml_token_cascade *)

\* The first tag at or behind i, and the first end of one.
NextOpen(t, i)  == Min(Find(t, i, Open))
NextClose(t, i) == Min(Find(t, i, Close))

\* Where a tag is found, and what the first one is.
LEMMA FindOpen ==
  ASSUME NEW t \in Text, NEW i \in Nat \ {0}
  PROVE  /\ \A j : j \in Find(t, i, Open) <=> j \in i..(Len(t) - 1) /\ t[j] = "<" /\ t[j + 1] = "p"
         /\ Find(t, i, Open) # {} =>
              /\ NextOpen(t, i) \in Find(t, i, Open)
              /\ NextOpen(t, i) \in i..(Len(t) - 1)
              /\ \A j \in Find(t, i, Open) : NextOpen(t, i) <= j
<1>0. Len(t) \in Nat
  BY TextLen
<1>1. \A j \in i..Len(t) : At(t, j, Open) <=> j + 1 <= Len(t) /\ t[j] = "<" /\ t[j + 1] = "p"
  BY <1>0, TagAt
<1>2. \A j : j \in Find(t, i, Open) <=> j \in i..(Len(t) - 1) /\ t[j] = "<" /\ t[j + 1] = "p"
  BY <1>0, <1>1 DEF Find
<1>3. Find(t, i, Open) \subseteq Nat
  BY <1>0, <1>2
<1>4. Find(t, i, Open) # {} => NextOpen(t, i) \in Find(t, i, Open) /\ \A j \in Find(t, i, Open) : NextOpen(t, i) <= j
  BY <1>3, MinProps, Zenon DEF NextOpen
<1> QED
  BY <1>2, <1>4

\* The same for the ends of tokens.
LEMMA FindClose ==
  ASSUME NEW t \in Text, NEW i \in Nat \ {0}
  PROVE  /\ \A j : j \in Find(t, i, Close) <=> j \in i..Len(t) /\ t[j] = "/"
         /\ Find(t, i, Close) # {} =>
              /\ NextClose(t, i) \in Find(t, i, Close)
              /\ NextClose(t, i) \in i..Len(t)
              /\ \A j \in Find(t, i, Close) : NextClose(t, i) <= j
<1>0. Len(t) \in Nat
  BY TextLen
<1>1. \A j \in i..Len(t) : At(t, j, Close) <=> j <= Len(t) /\ t[j] = "/"
  BY <1>0, TagAt
<1>2. \A j : j \in Find(t, i, Close) <=> j \in i..Len(t) /\ t[j] = "/"
  BY <1>0, <1>1 DEF Find
<1>3. Find(t, i, Close) \subseteq Nat
  BY <1>0, <1>2
<1>4. Find(t, i, Close) # {} => NextClose(t, i) \in Find(t, i, Close) /\ \A j \in Find(t, i, Close) : NextClose(t, i) <= j
  BY <1>3, MinProps, Zenon DEF NextClose
<1> QED
  BY <1>2, <1>4

\* The body of the token that opens at o.
TokenBody(t, o) == SubSeq(t, o + Len(Open), NextClose(t, o) - 1)

\* There is no tag from i on, or the next one is not closed.
Ending(t, i) == Find(t, i, Open) = {} \/ Find(t, NextOpen(t, i), Close) = {}

\* What the cascade gives in this case, and what otherwise up to the end of the token.
LastPiece(t, i) ==
  IF Find(t, i, Open) = {} THEN ReplaceSynthetics(From(t, i))
  ELSE ReplaceSynthetics(SubSeq(t, i, NextOpen(t, i) - 1)) \o From(t, NextOpen(t, i))
TokenPiece(t, i) ==
  ReplaceSynthetics(SubSeq(t, i, NextOpen(t, i) - 1)) \o TokenOriginal(TokenBody(t, NextOpen(t, i)))
TokenJump(t, i) == NextClose(t, NextOpen(t, i)) + 1

\* Where a token begins, ends and has its body.
LEMMA TokenProps ==
  ASSUME NEW t \in Text, NEW o \in Nat \ {0}, At(t, o, Open), Find(t, o, Close) # {}
  PROVE  /\ NextClose(t, o) \in (o + 2)..Len(t)
         /\ TokenBody(t, o) = SubSeq(t, o + 2, NextClose(t, o) - 1)
         /\ TokenBody(t, o) \in Text
         /\ Len(TokenBody(t, o)) = NextClose(t, o) - o - 2
         /\ \A n \in 1..(NextClose(t, o) - o - 2) : TokenBody(t, o)[n] = t[o + 1 + n]
<1> DEFINE c == NextClose(t, o)
<1>0. Len(t) \in Nat /\ Len(Open) = 2
  BY TextLen DEF Open
<1>1. o + 1 <= Len(t) /\ t[o] = "<" /\ t[o + 1] = "p"
  BY TagAt
<1>2. c \in o..Len(t) /\ t[c] = "/"
  BY FindClose
<1> HIDE DEF c
<1>3. c \in (o + 2)..Len(t)
  <2>1. c # o /\ c # o + 1
    BY <1>1, <1>2
  <2> QED
    BY <1>0, <1>2, <2>1
<1>4. o + 2 \in 1..(Len(t) + 1) /\ c - 1 \in ((o + 2) - 1)..Len(t)
  BY <1>0, <1>1, <1>3
<1>5. /\ SubSeq(t, o + 2, c - 1) \in Text
      /\ Len(SubSeq(t, o + 2, c - 1)) = (c - 1) - (o + 2) + 1
      /\ \A n \in 1..((c - 1) - (o + 2) + 1) : SubSeq(t, o + 2, c - 1)[n] = t[(o + 2) + n - 1]
  BY <1>4, PieceProps
<1>6. TokenBody(t, o) = SubSeq(t, o + 2, c - 1)
  BY <1>0 DEF TokenBody, c
<1>7. (c - 1) - (o + 2) + 1 = c - o - 2 /\ \A n \in 1..(c - o - 2) : (o + 2) + n - 1 = o + 1 + n
  BY <1>0, <1>3
<1>8. /\ TokenBody(t, o) \in Text
      /\ Len(TokenBody(t, o)) = c - o - 2
      /\ \A n \in 1..(c - o - 2) : TokenBody(t, o)[n] = t[o + 1 + n]
  BY <1>5, <1>6, <1>7
<1> QED
  BY <1>3, <1>6, <1>8 DEF c

\* What a token becomes is a text.
LEMMA TokenOriginalTyped ==
  ASSUME NEW b \in Text
  PROVE  TokenOriginal(b) \in Text
<1>1. b # <<>> /\ b[1] \in DOMAIN Ids => Ids[b[1]] \in Text
  BY VaultAssumption DEF Text
<1>2. Tail(b) \in DOMAIN Display => Display[Tail(b)] \in Text
  BY KeyTyped
<1>3. Open \in Text /\ Close \in Text
  BY VaultAssumption, PairSeq, Zenon DEF Open, Close, Text
<1>4. Open \o b \o Close \in Text
  BY <1>3, JoinProps
<1> QED
  BY <1>1, <1>2, <1>4 DEF TokenOriginal

\* The pieces of the cascade are texts, and it goes ahead.
LEMMA CascadePieces ==
  ASSUME NEW t \in Text, NEW i \in 1..(Len(t) + 1)
  PROVE  /\ Ending(t, i) => LastPiece(t, i) \in Text
         /\ ~Ending(t, i) => TokenPiece(t, i) \in Text /\ TokenJump(t, i) \in (i + 1)..(Len(t) + 1)
<1> DEFINE o == NextOpen(t, i)
<1>0. Len(t) \in Nat /\ i \in Nat \ {0}
  BY TextLen
<1>1. Find(t, i, Open) = {} => LastPiece(t, i) \in Text
  BY FromProps, ReplaceHead DEF LastPiece
<1>2. ASSUME Find(t, i, Open) # {}
      PROVE  o \in i..(Len(t) - 1) /\ o \in Nat \ {0} /\ At(t, o, Open) /\ ReplaceSynthetics(SubSeq(t, i, o - 1)) \in Text
  <2>1. o \in i..(Len(t) - 1) /\ At(t, o, Open)
    BY <1>0, <1>2, FindOpen DEF Find
  <2> HIDE DEF o
  <2>2. o - 1 \in (i - 1)..Len(t) /\ o \in Nat \ {0}
    BY <1>0, <2>1
  <2>3. SubSeq(t, i, o - 1) \in Text
    BY <2>2, PieceProps
  <2> QED
    BY <2>1, <2>2, <2>3, ReplaceHead
<1>3. ASSUME Find(t, i, Open) # {} PROVE LastPiece(t, i) \in Text
  <2>1. o \in 1..(Len(t) + 1) /\ ReplaceSynthetics(SubSeq(t, i, o - 1)) \in Text
    BY <1>0, <1>2, <1>3
  <2>2. From(t, o) \in Text
    BY <2>1, FromProps
  <2> QED
    BY <1>3, <2>1, <2>2, JoinProps DEF LastPiece
<1>4. ASSUME ~Ending(t, i) PROVE TokenPiece(t, i) \in Text /\ TokenJump(t, i) \in (i + 1)..(Len(t) + 1)
  <2>1. Find(t, i, Open) # {} /\ Find(t, o, Close) # {}
    BY <1>4 DEF Ending
  <2>2. o \in i..(Len(t) - 1) /\ o \in Nat \ {0} /\ At(t, o, Open) /\ ReplaceSynthetics(SubSeq(t, i, o - 1)) \in Text
    BY <1>2, <2>1
  <2>3. NextClose(t, o) \in (o + 2)..Len(t) /\ TokenBody(t, o) \in Text
    BY <2>1, <2>2, TokenProps
  <2>4. TokenOriginal(TokenBody(t, o)) \in Text
    BY <2>3, TokenOriginalTyped
  <2>5. TokenPiece(t, i) \in Text
    BY <2>2, <2>4, JoinProps DEF TokenPiece
  <2>6. TokenJump(t, i) = NextClose(t, o) + 1
    BY DEF TokenJump
  <2> HIDE DEF o
  <2>7. TokenJump(t, i) \in (i + 1)..(Len(t) + 1)
    BY <1>0, <2>2, <2>3, <2>6
  <2> QED
    BY <2>5, <2>7
<1> QED
  BY <1>1, <1>3, <1>4

\* CascadeFrom is a solution of its recursive definition.
LEMMA CascadeFromDef ==
  ASSUME NEW t \in Text
  PROVE  \A i \in 1..(Len(t) + 1) :
           /\ CascadeFrom(t)[i] = IF Ending(t, i) THEN LastPiece(t, i)
                                  ELSE TokenPiece(t, i) \o CascadeFrom(t)[TokenJump(t, i)]
           /\ CascadeFrom(t)[i] \in Text
<1> DEFINE n == Len(t)
           S == {i \in 1..(n + 1) : Ending(t, i)}
           base == [i \in 1..(n + 1) |-> LastPiece(t, i)]
           piece == [i \in 1..(n + 1) |-> TokenPiece(t, i)]
           jump == [i \in 1..(n + 1) |-> TokenJump(t, i)]
           Body(f, i) ==
             IF Find(t, i, Open) = {} THEN ReplaceSynthetics(From(t, i))
             ELSE IF Find(t, Min(Find(t, i, Open)), Close) = {}
                  THEN ReplaceSynthetics(SubSeq(t, i, Min(Find(t, i, Open)) - 1)) \o From(t, Min(Find(t, i, Open)))
             ELSE ReplaceSynthetics(SubSeq(t, i, Min(Find(t, i, Open)) - 1))
                  \o TokenOriginal(SubSeq(t, Min(Find(t, i, Open)) + Len(Open), Min(Find(t, Min(Find(t, i, Open)), Close)) - 1))
                  \o f[Min(Find(t, Min(Find(t, i, Open)), Close)) + Len(Close)]
           F == CascadeFrom(t)
<1>0. n \in Nat /\ Len(Close) = 1
  BY TextLen DEF Close
<1>1. \A i \in 1..(n + 1) : i \notin S => jump[i] \in (i + 1)..(n + 1) /\ piece[i] \in Text
  BY <1>0, CascadePieces
<1>2. \A f : \A i \in 1..(n + 1) : Body(f, i) = ScanStep(S, base, piece, jump, f, i)
  <2> SUFFICES ASSUME NEW f, NEW i \in 1..(n + 1) PROVE Body(f, i) = ScanStep(S, base, piece, jump, f, i)
    BY Zenon
  <2>1. Ending(t, i) <=> i \in S
    BY <1>0
  <2>2. base[i] = LastPiece(t, i) /\ piece[i] = TokenPiece(t, i) /\ jump[i] = TokenJump(t, i)
    OBVIOUS
  <2> HIDE DEF S, base, piece, jump
  <2> QED
    BY <1>0, <2>1, <2>2, Zenon DEF ScanStep, LastPiece, TokenPiece, TokenJump, Ending, NextOpen, NextClose, TokenBody
<1>a. \A i \in 1..(n + 1) : i \notin S => jump[i] \in (i + 1)..(n + 1)
  BY <1>1
<1>7. \A i \in 1..(n + 1) : i \in S => base[i] \in Text
  BY CascadePieces
<1> HIDE DEF Body, S, base, piece, jump
<1>3. PICK f : Scans(f, n, S, base, piece, jump)
  BY <1>0, <1>a, ScanExists, Zenon
<1>4. f = [i \in 1..(n + 1) |-> Body(f, i)]
  BY <1>2, <1>3 DEF Scans
<1>5. F = [i \in 1..(n + 1) |-> Body(F, i)]
  BY <1>4, Zenon DEF CascadeFrom, Body
<1> HIDE DEF F
<1>6. \A i \in 1..(n + 1) : F[i] = ScanStep(S, base, piece, jump, F, i)
  BY <1>2, <1>5
<1>8. \A i \in 1..(n + 1) : F[i] \in Text
  <2>1. n \in Nat
    BY <1>0
  <2> HIDE DEF n
  <2> QED
    BY <2>1, <1>1, <1>6, <1>7, ScanTyped
<1>9. ASSUME NEW i \in 1..(n + 1)
      PROVE  F[i] = IF Ending(t, i) THEN LastPiece(t, i) ELSE TokenPiece(t, i) \o F[TokenJump(t, i)]
  <2>1. Ending(t, i) <=> i \in S
    BY <1>0 DEF S
  <2>2. base[i] = LastPiece(t, i) /\ piece[i] = TokenPiece(t, i) /\ jump[i] = TokenJump(t, i)
    BY DEF base, piece, jump
  <2>3. F[i] = ScanStep(S, base, piece, jump, F, i)
    BY <1>6
  <2> QED
    BY <2>1, <2>2, <2>3, Zenon DEF ScanStep
<1> QED
  BY <1>8, <1>9 DEF F

\* Tags in the rest of a text are tags of the text.
LEMMA OpenFrom ==
  ASSUME NEW t \in Text, NEW i \in 1..(Len(t) + 1), NEW j \in Nat \ {0}
  PROVE  /\ Find(From(t, i), j, Open) = {} <=> Find(t, i + j - 1, Open) = {}
         /\ Find(From(t, i), j, Open) # {} => NextOpen(t, i + j - 1) = NextOpen(From(t, i), j) + i - 1
<1> DEFINE v == From(t, i)
           a == i + j - 1
<1>0. Len(t) \in Nat /\ i \in Nat \ {0} /\ a \in Nat \ {0}
  BY TextLen
<1>1. v \in Text /\ Len(v) = Len(t) - i + 1 /\ \A n \in 1..(Len(t) - i + 1) : v[n] = t[i + n - 1]
  BY FromProps
<1> HIDE DEF v
<1>2. \A x : x \in Find(v, j, Open) <=> x \in j..(Len(v) - 1) /\ v[x] = "<" /\ v[x + 1] = "p"
  BY <1>1, FindOpen
<1>3. \A x : x \in Find(t, a, Open) <=> x \in a..(Len(t) - 1) /\ t[x] = "<" /\ t[x + 1] = "p"
  BY <1>0, FindOpen
<1>4. ASSUME NEW x \in Int PROVE x \in Find(v, j, Open) <=> x + i - 1 \in Find(t, a, Open)
  <2>1. x \in j..(Len(v) - 1) <=> x + i - 1 \in a..(Len(t) - 1)
    BY <1>0, <1>1
  <2>2. x \in j..(Len(v) - 1) => v[x] = t[x + i - 1] /\ v[x + 1] = t[x + i - 1 + 1]
    <3> SUFFICES ASSUME x \in j..(Len(v) - 1) PROVE v[x] = t[x + i - 1] /\ v[x + 1] = t[x + i - 1 + 1]
      OBVIOUS
    <3>1. x \in 1..(Len(t) - i + 1) /\ x + 1 \in 1..(Len(t) - i + 1) /\ i + x - 1 = x + i - 1 /\ i + (x + 1) - 1 = x + i - 1 + 1
      BY <1>0, <1>1
    <3> QED
      BY <1>1, <3>1
  <2> QED
    BY <1>2, <1>3, <2>1, <2>2
<1>5. Find(v, j, Open) \subseteq Int /\ Find(t, a, Open) \subseteq Int
  BY <1>0, <1>1, <1>2, <1>3
<1>6. Find(v, j, Open) = {} <=> Find(t, a, Open) = {}
  <2>1. \A y \in Find(t, a, Open) : y - i + 1 \in Int /\ (y - i + 1) + i - 1 = y
    BY <1>0, <1>5
  <2>2. Find(t, a, Open) # {} => Find(v, j, Open) # {}
    BY <1>4, <2>1
  <2> QED
    BY <1>4, <1>5, <2>2
<1>7. ASSUME Find(v, j, Open) # {} PROVE NextOpen(t, a) = NextOpen(v, j) + i - 1
  <2>1. NextOpen(v, j) \in Find(v, j, Open) /\ \A x \in Find(v, j, Open) : NextOpen(v, j) <= x
    BY <1>1, <1>7, FindOpen
  <2>2. NextOpen(t, a) \in Find(t, a, Open) /\ \A x \in Find(t, a, Open) : NextOpen(t, a) <= x
    BY <1>0, <1>6, <1>7, FindOpen
  <2>3. NextOpen(v, j) \in Int /\ NextOpen(t, a) \in Int
    BY <1>5, <2>1, <2>2
  <2>4. NextOpen(t, a) <= NextOpen(v, j) + i - 1
    BY <1>4, <2>1, <2>2, <2>3
  <2>5. NextOpen(t, a) - i + 1 \in Find(v, j, Open)
    <3>1. NextOpen(t, a) - i + 1 \in Int /\ (NextOpen(t, a) - i + 1) + i - 1 = NextOpen(t, a)
      BY <1>0, <2>3
    <3> QED
      BY <1>4, <2>2, <3>1
  <2>6. NextOpen(v, j) <= NextOpen(t, a) - i + 1
    BY <2>1, <2>5
  <2> QED
    BY <1>0, <2>3, <2>4, <2>6
<1> QED
  BY <1>6, <1>7 DEF v

\* The same for the ends of tokens.
LEMMA CloseFrom ==
  ASSUME NEW t \in Text, NEW i \in 1..(Len(t) + 1), NEW j \in Nat \ {0}
  PROVE  /\ Find(From(t, i), j, Close) = {} <=> Find(t, i + j - 1, Close) = {}
         /\ Find(From(t, i), j, Close) # {} => NextClose(t, i + j - 1) = NextClose(From(t, i), j) + i - 1
<1> DEFINE v == From(t, i)
           a == i + j - 1
<1>0. Len(t) \in Nat /\ i \in Nat \ {0} /\ a \in Nat \ {0}
  BY TextLen
<1>1. v \in Text /\ Len(v) = Len(t) - i + 1 /\ \A n \in 1..(Len(t) - i + 1) : v[n] = t[i + n - 1]
  BY FromProps
<1> HIDE DEF v
<1>2. \A x : x \in Find(v, j, Close) <=> x \in j..Len(v) /\ v[x] = "/"
  BY <1>1, FindClose
<1>3. \A x : x \in Find(t, a, Close) <=> x \in a..Len(t) /\ t[x] = "/"
  BY <1>0, FindClose
<1>4. ASSUME NEW x \in Int PROVE x \in Find(v, j, Close) <=> x + i - 1 \in Find(t, a, Close)
  <2>1. x \in j..Len(v) <=> x + i - 1 \in a..Len(t)
    BY <1>0, <1>1
  <2>2. x \in j..Len(v) => v[x] = t[x + i - 1]
    <3> SUFFICES ASSUME x \in j..Len(v) PROVE v[x] = t[x + i - 1]
      OBVIOUS
    <3>1. x \in 1..(Len(t) - i + 1) /\ i + x - 1 = x + i - 1
      BY <1>0, <1>1
    <3> QED
      BY <1>1, <3>1
  <2> QED
    BY <1>2, <1>3, <2>1, <2>2
<1>5. Find(v, j, Close) \subseteq Int /\ Find(t, a, Close) \subseteq Int
  BY <1>0, <1>1, <1>2, <1>3
<1>6. Find(v, j, Close) = {} <=> Find(t, a, Close) = {}
  <2>1. \A y \in Find(t, a, Close) : y - i + 1 \in Int /\ (y - i + 1) + i - 1 = y
    BY <1>0, <1>5
  <2>2. Find(t, a, Close) # {} => Find(v, j, Close) # {}
    BY <1>4, <2>1
  <2> QED
    BY <1>4, <1>5, <2>2
<1>7. ASSUME Find(v, j, Close) # {} PROVE NextClose(t, a) = NextClose(v, j) + i - 1
  <2>1. NextClose(v, j) \in Find(v, j, Close) /\ \A x \in Find(v, j, Close) : NextClose(v, j) <= x
    BY <1>1, <1>7, FindClose
  <2>2. NextClose(t, a) \in Find(t, a, Close) /\ \A x \in Find(t, a, Close) : NextClose(t, a) <= x
    BY <1>0, <1>6, <1>7, FindClose
  <2>3. NextClose(v, j) \in Int /\ NextClose(t, a) \in Int
    BY <1>5, <2>1, <2>2
  <2>4. NextClose(t, a) <= NextClose(v, j) + i - 1
    BY <1>4, <2>1, <2>2, <2>3
  <2>5. NextClose(t, a) - i + 1 \in Find(v, j, Close)
    <3>1. NextClose(t, a) - i + 1 \in Int /\ (NextClose(t, a) - i + 1) + i - 1 = NextClose(t, a)
      BY <1>0, <2>3
    <3> QED
      BY <1>4, <2>2, <3>1
  <2>6. NextClose(v, j) <= NextClose(t, a) - i + 1
    BY <2>1, <2>5
  <2> QED
    BY <1>0, <2>3, <2>4, <2>6
<1> QED
  BY <1>6, <1>7 DEF v

\* A piece of the rest of a text.
LEMMA PieceFrom ==
  ASSUME NEW t \in Text, NEW i \in 1..(Len(t) + 1), NEW a \in Nat \ {0}, NEW b \in (a - 1)..(Len(t) - i + 1)
  PROVE  SubSeq(From(t, i), a, b) = SubSeq(t, a + i - 1, b + i - 1)
<1> DEFINE v == From(t, i)
           l == SubSeq(v, a, b)
           r == SubSeq(t, a + i - 1, b + i - 1)
<1>0. Len(t) \in Nat
  BY TextLen
<1>1. v \in Text /\ Len(v) = Len(t) - i + 1 /\ \A n \in 1..(Len(t) - i + 1) : v[n] = t[i + n - 1]
  BY FromProps
<1> HIDE DEF v
<1>2. /\ a \in 1..(Len(v) + 1) /\ b \in (a - 1)..Len(v)
      /\ a + i - 1 \in 1..(Len(t) + 1) /\ b + i - 1 \in ((a + i - 1) - 1)..Len(t)
  BY <1>0, <1>1
<1>3. l \in Text /\ Len(l) = b - a + 1 /\ \A n \in 1..(b - a + 1) : l[n] = v[a + n - 1]
  BY <1>1, <1>2, PieceProps
<1>4. /\ r \in Text /\ Len(r) = (b + i - 1) - (a + i - 1) + 1
      /\ \A n \in 1..((b + i - 1) - (a + i - 1) + 1) : r[n] = t[(a + i - 1) + n - 1]
  BY <1>2, PieceProps
<1> HIDE DEF l, r
<1>5. Len(l) = Len(r) /\ \A n \in 1..Len(l) : n \in 1..((b + i - 1) - (a + i - 1) + 1) /\ a + n - 1 \in 1..(Len(t) - i + 1)
                                                 /\ i + (a + n - 1) - 1 = (a + i - 1) + n - 1
  BY <1>0, <1>1, <1>2, <1>3, <1>4
<1>6. \A n \in 1..Len(l) : l[n] = r[n]
  BY <1>1, <1>3, <1>4, <1>5
<1>7. l = r
  BY <1>3, <1>4, <1>5, <1>6, SameText
<1> QED
  BY <1>7 DEF l, r, v

\* The cascade sees the same in the rest of a text as in the text from there on.
LEMMA EndingFrom ==
  ASSUME NEW t \in Text, NEW i \in 1..(Len(t) + 1)
  PROVE  /\ Ending(From(t, i), 1) <=> Ending(t, i)
         /\ Ending(t, i) => LastPiece(From(t, i), 1) = LastPiece(t, i)
         /\ ~Ending(t, i) => /\ TokenPiece(From(t, i), 1) = TokenPiece(t, i)
                             /\ TokenJump(t, i) = TokenJump(From(t, i), 1) + i - 1
<1> DEFINE v == From(t, i)
           p == NextOpen(v, 1)
           o == NextOpen(t, i)
<1>0. Len(t) \in Nat /\ i \in Nat \ {0} /\ 1 \in Nat \ {0} /\ i + 1 - 1 = i
  BY TextLen
<1>1. v \in Text /\ Len(v) = Len(t) - i + 1
  BY FromProps
<1>2. /\ Find(v, 1, Open) = {} <=> Find(t, i, Open) = {}
      /\ Find(v, 1, Open) # {} => o = p + i - 1
  BY <1>0, OpenFrom
<1>3. ASSUME Find(v, 1, Open) # {}
      PROVE  /\ p \in 1..(Len(v) - 1) /\ p \in Nat \ {0} /\ At(v, p, Open) /\ o = i + p - 1
             /\ Find(v, p, Close) = {} <=> Find(t, o, Close) = {}
             /\ Find(v, p, Close) # {} => NextClose(t, o) = NextClose(v, p) + i - 1
  <2>1. p \in 1..(Len(v) - 1) /\ At(v, p, Open)
    BY <1>0, <1>1, <1>3, FindOpen DEF Find
  <2>2. p \in Nat \ {0} /\ o = i + p - 1
    BY <1>0, <1>1, <1>2, <1>3, <2>1
  <2> HIDE DEF o, p
  <2>3. /\ Find(v, p, Close) = {} <=> Find(t, i + p - 1, Close) = {}
        /\ Find(v, p, Close) # {} => NextClose(t, i + p - 1) = NextClose(v, p) + i - 1
    BY <2>2, CloseFrom
  <2> QED
    BY <2>1, <2>2, <2>3
<1>4. Ending(v, 1) <=> Ending(t, i)
  BY <1>2, <1>3 DEF Ending
<1>5. From(v, 1) = v
  <2>1. i \in 1..(Len(t) + 1) /\ 1 \in 1..(Len(t) - i + 2)
    BY <1>0
  <2> QED
    BY <1>0, <2>1, FromFrom
<1>6. ASSUME Find(v, 1, Open) # {} PROVE SubSeq(v, 1, p - 1) = SubSeq(t, i, o - 1) /\ From(v, p) = From(t, o)
  <2>1. p - 1 \in (1 - 1)..(Len(t) - i + 1) /\ p \in 1..(Len(t) - i + 2) /\ 1 + i - 1 = i /\ (p - 1) + i - 1 = o - 1 /\ o = i + p - 1
    BY <1>0, <1>1, <1>3, <1>6
  <2> HIDE DEF o, p
  <2>2. SubSeq(v, 1, p - 1) = SubSeq(t, 1 + i - 1, (p - 1) + i - 1)
    BY <1>0, <2>1, PieceFrom
  <2>3. From(v, p) = From(t, i + p - 1)
    BY <2>1, FromFrom
  <2> QED
    BY <2>1, <2>2, <2>3
<1>7. Ending(t, i) => LastPiece(v, 1) = LastPiece(t, i)
  BY <1>2, <1>5, <1>6 DEF LastPiece
<1>8. ASSUME ~Ending(t, i) PROVE TokenPiece(v, 1) = TokenPiece(t, i) /\ TokenJump(t, i) = TokenJump(v, 1) + i - 1
  <2>1. Find(v, 1, Open) # {} /\ Find(v, p, Close) # {} /\ Find(t, o, Close) # {}
    BY <1>2, <1>3, <1>8 DEF Ending
  <2>2. p \in 1..(Len(v) - 1) /\ p \in Nat \ {0} /\ At(v, p, Open) /\ o = i + p - 1 /\ NextClose(t, o) = NextClose(v, p) + i - 1
    BY <1>3, <2>1
  <2>3. NextClose(v, p) \in (p + 2)..Len(v) /\ TokenBody(v, p) = SubSeq(v, p + 2, NextClose(v, p) - 1)
    BY <1>1, <2>1, <2>2, TokenProps
  <2>4. At(t, o, Open) /\ o \in Nat \ {0}
    <3>1. Find(t, i, Open) # {}
      BY <1>2, <2>1
    <3>2. o \in Find(t, i, Open) /\ o \in i..(Len(t) - 1)
      BY <1>0, <3>1, FindOpen
    <3> QED
      BY <1>0, <3>2 DEF Find
  <2>5. TokenBody(t, o) = SubSeq(t, o + 2, NextClose(t, o) - 1)
    BY <2>1, <2>4, TokenProps
  <2> HIDE DEF o, p
  <2>6. /\ p + 2 \in Nat \ {0} /\ NextClose(v, p) - 1 \in ((p + 2) - 1)..(Len(t) - i + 1)
        /\ (p + 2) + i - 1 = o + 2 /\ (NextClose(v, p) - 1) + i - 1 = NextClose(t, o) - 1
    BY <1>0, <1>1, <2>2, <2>3
  <2>7. SubSeq(v, p + 2, NextClose(v, p) - 1) = SubSeq(t, (p + 2) + i - 1, (NextClose(v, p) - 1) + i - 1)
    BY <2>6, PieceFrom
  <2>8. TokenBody(v, p) = TokenBody(t, o)
    BY <2>3, <2>5, <2>6, <2>7
  <2>9. TokenPiece(v, 1) = TokenPiece(t, i)
    BY <1>6, <2>1, <2>8 DEF TokenPiece, o, p
  <2>10. TokenJump(t, i) = NextClose(t, o) + 1 /\ TokenJump(v, 1) = NextClose(v, p) + 1
    BY DEF TokenJump, o, p
  <2> QED
    BY <1>0, <1>1, <2>2, <2>3, <2>9, <2>10
<1> QED
  BY <1>4, <1>7, <1>8

\* What a place of a text becomes is what the rest from there becomes.
LEMMA CascadeSuffix ==
  ASSUME NEW t \in Text, NEW i \in 1..(Len(t) + 1)
  PROVE  CascadeFrom(t)[i] = Cascade(From(t, i)) /\ Cascade(From(t, i)) \in Text
<1> DEFINE Claim(u, j) == CascadeFrom(u)[j] = Cascade(From(u, j))
           T == {m \in Nat : \A u \in Text : \A j \in 1..(Len(u) + 1) : Len(u) + 1 - j = m => Claim(u, j)}
<1>1. \A m \in Nat : (\A l \in 0..(m - 1) : l \in T) => m \in T
  <2>0. SUFFICES ASSUME NEW m \in Nat, \A l \in 0..(m - 1) : l \in T,
                        NEW u \in Text, NEW j \in 1..(Len(u) + 1), Len(u) + 1 - j = m
                 PROVE  Claim(u, j)
    BY Zenon
  <2>1. Len(u) \in Nat
    BY TextLen
  <2>2. ASSUME NEW v \in Text, NEW n \in 1..(Len(v) + 1), Len(v) + 1 - n < m PROVE Claim(v, n)
    <3>1. Len(v) + 1 - n \in 0..(m - 1)
      BY <2>2, TextLen
    <3>2. Len(v) + 1 - n \in T
      BY <2>0, <3>1
    <3> QED
      BY <3>2
  <2> HIDE DEF T
  <2> DEFINE v == From(u, j)
  <2>3. v \in Text /\ Len(v) = Len(u) - j + 1 /\ \A n \in 1..(Len(u) - j + 1) : v[n] = u[j + n - 1]
    BY FromProps
  <2>a. /\ Ending(v, 1) <=> Ending(u, j)
        /\ Ending(u, j) => LastPiece(v, 1) = LastPiece(u, j)
        /\ ~Ending(u, j) => TokenPiece(v, 1) = TokenPiece(u, j) /\ TokenJump(u, j) = TokenJump(v, 1) + j - 1
    BY EndingFrom
  <2> HIDE DEF v
  <2>b. 1 \in 1..(Len(v) + 1)
    BY <2>1, <2>3
  <2>4. CascadeFrom(v)[1] = IF Ending(v, 1) THEN LastPiece(v, 1) ELSE TokenPiece(v, 1) \o CascadeFrom(v)[TokenJump(v, 1)]
    BY <2>b, <2>3, CascadeFromDef
  <2>5. CascadeFrom(u)[j] = IF Ending(u, j) THEN LastPiece(u, j) ELSE TokenPiece(u, j) \o CascadeFrom(u)[TokenJump(u, j)]
    BY CascadeFromDef
  <2>6. CASE Ending(u, j)
    <3>1. CascadeFrom(v)[1] = CascadeFrom(u)[j]
      BY <2>a, <2>4, <2>5, <2>6
    <3> QED
      BY <3>1 DEF Cascade, v
  <2>7. CASE ~Ending(u, j)
    <3>1. TokenJump(u, j) \in (j + 1)..(Len(u) + 1) /\ TokenJump(v, 1) \in 2..(Len(v) + 1)
      BY <2>3, <2>7, <2>a, <2>b, CascadePieces
    <3>2. TokenJump(u, j) = j + TokenJump(v, 1) - 1
      BY <2>7, <2>a, <3>1, <2>1, <2>3
    <3>a. /\ TokenJump(v, 1) \in 1..(Len(v) + 1) /\ Len(v) + 1 - TokenJump(v, 1) < m
          /\ TokenJump(u, j) \in 1..(Len(u) + 1) /\ Len(u) + 1 - TokenJump(u, j) < m
      BY <2>0, <2>1, <2>3, <3>1
    <3>3. Claim(v, TokenJump(v, 1)) /\ Claim(u, TokenJump(u, j))
      BY <2>2, <2>3, <3>a, Zenon
    <3>4. From(v, TokenJump(v, 1)) = From(u, TokenJump(u, j))
      <4>1. TokenJump(v, 1) \in 1..(Len(u) - j + 2)
        BY <2>1, <2>3, <3>1
      <4> QED
        BY <3>2, <4>1, FromFrom DEF v
    <3>5. CascadeFrom(v)[1] = CascadeFrom(u)[j]
      BY <2>4, <2>5, <2>7, <2>a, <3>3, <3>4
    <3> QED
      BY <3>5 DEF Cascade, v
  <2> QED
    BY <2>6, <2>7
<1>2. Nat \subseteq T
  BY <1>1, StrongInductionSet, Zenon
<1>3. Len(t) + 1 - i \in Nat
  BY TextLen
<1>4. Len(t) + 1 - i \in T
  BY <1>2, <1>3, Zenon
<1>5. CascadeFrom(t)[i] = Cascade(From(t, i))
  BY <1>4
<1>6. CascadeFrom(t)[i] \in Text
  BY CascadeFromDef
<1> QED
  BY <1>5, <1>6

\* The whole of a text is the rest of it from its first place on.
LEMMA FromOne ==
  ASSUME NEW t \in Text
  PROVE  From(t, 1) = t /\ From(t, Len(t) + 1) = <<>> /\ Cascade(t) \in Text
<1>0. Len(t) \in Nat /\ 1 \in 1..(Len(t) + 1) /\ Len(t) + 1 \in 1..(Len(t) + 1)
  BY TextLen
<1>1. From(t, 1) \in Text /\ Len(From(t, 1)) = Len(t) - 1 + 1 /\ \A j \in 1..(Len(t) - 1 + 1) : From(t, 1)[j] = t[1 + j - 1]
  BY <1>0, FromProps
<1>2. Len(From(t, 1)) = Len(t) /\ \A j \in 1..Len(t) : From(t, 1)[j] = t[j]
  BY <1>0, <1>1
<1>3. From(t, 1) = t
  BY <1>1, <1>2, SameText
<1>4. From(t, Len(t) + 1) \in Text /\ Len(From(t, Len(t) + 1)) = Len(t) - (Len(t) + 1) + 1
  BY <1>0, FromProps
<1>5. From(t, Len(t) + 1) = <<>>
  BY <1>0, <1>4 DEF Text
<1>6. Cascade(t) \in Text
  BY <1>0, <1>3, CascadeSuffix
<1> QED
  BY <1>3, <1>5, <1>6

-----------------------------------------------------------------------------
(* What is held back *)

\* The length of the longest synthetic value is a number that no other one exceeds.
LEMMA MaxKeyLenProps ==
  MaxKeyLen \in Nat /\ \A k \in DOMAIN Display : Len(k) <= MaxKeyLen
<1> DEFINE L == {Len(k) : k \in DOMAIN Display}
           S == {0} \cup L
<1>1. \A k \in DOMAIN Display : Len(k) \in Nat
  BY KeyTyped
<1>2. IsFiniteSet(L)
  <2> DEFINE f == [k \in DOMAIN Display |-> Len(k)]
  <2>1. f \in Surjection(DOMAIN Display, L)
    BY DEF Surjection
  <2>2. IsFiniteSet(DOMAIN Display)
    BY VaultAssumption
  <2> QED
    BY <2>1, <2>2, FS_Surjection, Zenon
<1>3. IsFiniteSet(S)
  BY <1>2, FS_Singleton, FS_Union
<1>4. S \subseteq Nat /\ S # {}
  BY <1>1
<1>5. PICK b \in Nat : \A y \in S : y <= b
  BY <1>3, <1>4, FiniteBounded
<1> HIDE DEF S
<1>6. Max(S) \in S /\ \A y \in S : Max(S) >= y
  BY <1>4, <1>5, MaxProps
<1>7. Max(S) \in Nat /\ \A k \in DOMAIN Display : Len(k) \in S
  BY <1>4, <1>6 DEF S
<1>8. \A k \in DOMAIN Display : Len(k) <= Max(S)
  BY <1>1, <1>6, <1>7
<1>9. MaxKeyLen = Max(S)
  BY DEF MaxKeyLen, S
<1> QED
  BY <1>7, <1>8, <1>9

\* The last tag of a text, when it is not closed.
LEMMA XmlHoldbackProps ==
  ASSUME NEW t \in Text
  PROVE  /\ XmlHoldback(t) \in 0..Len(t)
         /\ XmlHoldback(t) > 0 => At(t, XmlHoldback(t), Open)
<1> DEFINE opens == Find(t, 1, Open)
<1>0. Len(t) \in Nat
  BY TextLen
<1>1. opens \subseteq Nat /\ \A j \in opens : j <= Len(t) /\ j >= 1 /\ At(t, j, Open)
  BY <1>0 DEF Find
<1> HIDE DEF opens
<1>2. opens # {} => Max(opens) \in opens
  BY <1>0, <1>1, MaxProps
<1>3. XmlHoldback(t) = IF opens # {} /\ Find(t, Max(opens), Close) = {} THEN Max(opens) ELSE 0
  BY DEF XmlHoldback, opens
<1>4. opens # {} => Max(opens) \in Nat /\ Max(opens) <= Len(t) /\ At(t, Max(opens), Open)
  BY <1>1, <1>2
<1>5. CASE opens # {} /\ Find(t, Max(opens), Close) = {}
  BY <1>0, <1>3, <1>4, <1>5
<1>6. CASE ~(opens # {} /\ Find(t, Max(opens), Close) = {})
  BY <1>0, <1>3, <1>6
<1> QED
  BY <1>5, <1>6

\* What may go out is a part of the text, and the rest is an unfinished token
\* or no longer than the longest synthetic value.
LEMMA SafeFlushProps ==
  ASSUME NEW t \in Text
  PROVE  /\ SafeFlushLen(t) \in 0..Len(t)
         /\ At(From(t, SafeFlushLen(t) + 1), 1, Open) \/ Len(From(t, SafeFlushLen(t) + 1)) <= MaxKeyLen
<1> DEFINE h == XmlHoldback(t)
           keep == Min({Len(t), MaxKeyLen})
           n == SafeFlushLen(t)
<1>0. Len(t) \in Nat /\ MaxKeyLen \in Nat
  BY TextLen, MaxKeyLenProps
<1>1. h \in 0..Len(t) /\ (h > 0 => At(t, h, Open))
  BY XmlHoldbackProps
<1>a. {Len(t), MaxKeyLen} \subseteq Nat /\ {Len(t), MaxKeyLen} # {}
  BY <1>0
<1>2. keep \in {Len(t), MaxKeyLen} /\ \A y \in {Len(t), MaxKeyLen} : keep <= y
  BY <1>a, MinProps, Zenon
<1>3. keep \in 0..Len(t) /\ keep <= MaxKeyLen
  BY <1>0, <1>2
<1>4. n = IF h > 0 THEN h - 1 ELSE IF HasPrefixMatch(From(t, Len(t) - keep + 1)) THEN Len(t) - keep ELSE Len(t)
  BY DEF SafeFlushLen
<1> HIDE DEF h, keep, n
<1>5. n \in 0..Len(t) /\ n + 1 \in 1..(Len(t) + 1)
  BY <1>0, <1>1, <1>3, <1>4
<1>6. Len(From(t, n + 1)) = Len(t) - (n + 1) + 1
  BY <1>5, FromProps
<1>7. CASE h > 0
  <2>1. n + 1 = h /\ h + 1 - 1 = h /\ 1 \in Nat \ {0}
    BY <1>1, <1>4, <1>7
  <2>2. Open \in Text /\ Open # <<>>
    BY VaultAssumption, PairSeq, Zenon DEF Open, Text
  <2>3. At(From(t, n + 1), 1, Open) <=> At(t, (n + 1) + 1 - 1, Open)
    BY <1>5, <2>1, <2>2, AtFrom
  <2>4. At(From(t, n + 1), 1, Open)
    BY <1>1, <1>7, <2>1, <2>3
  <2> QED
    BY <1>5, <2>4 DEF n
<1>8. CASE ~(h > 0)
  <2>1. Len(From(t, n + 1)) <= MaxKeyLen
    BY <1>0, <1>3, <1>4, <1>6, <1>8
  <2> QED
    BY <1>5, <2>1 DEF n
<1> QED
  BY <1>7, <1>8

\* The variables of the buffer are texts, and what is held back is bounded.
HoldbackInv ==
  /\ input \in Text /\ buffer \in Text /\ out \in Text /\ ended \in BOOLEAN
  /\ HoldbackBounded

\* A delta is a text.
LEMMA DeltaTyped ==
  ASSUME NEW n, NEW delta \in SeqOf(Chars, n)
  PROVE  delta \in Text
<1>1. PICK m \in 0..n : delta \in [1..m -> Chars]
  BY DEF SeqOf
<1>2. Chars \subseteq STRING
  BY VaultAssumption
<1>3. m \in Nat
  BY <1>1
<1>4. delta \in [1..m -> STRING]
  BY <1>1, <1>2
<1> QED
  BY <1>3, <1>4 DEF Text

\* What process_delta makes of the text it has, and how much of it goes out.
Done(text) == IF DOMAIN Display = {} THEN text ELSE Cascade(text)
Safe(text) == IF DOMAIN Display = {} THEN Len(text) ELSE SafeFlushLen(Done(text))

\* A delta that is processed.
LEMMA DeltaStep ==
  ASSUME NEW delta \in Text, buffer \in Text, ProcessDelta(delta)
  PROVE  /\ ~ended /\ delta # <<>> /\ UNCHANGED ended
         /\ buffer \o delta \in Text /\ Done(buffer \o delta) \in Text
         /\ Safe(buffer \o delta) \in 0..Len(Done(buffer \o delta))
         /\ input' = input \o delta
         /\ buffer' = From(Done(buffer \o delta), Safe(buffer \o delta) + 1)
         /\ out' = out \o SubSeq(Done(buffer \o delta), 1, Safe(buffer \o delta))
         /\ mark' = IF CutsOpen(delta) THEN <<Len(input), Len(out)>> ELSE mark
<1> DEFINE text == buffer \o delta
<1>1. text \in Text
  BY JoinProps
<1>2. /\ ~ended /\ delta # <<>> /\ UNCHANGED ended
      /\ input' = input \o delta
      /\ buffer' = From(Done(text), Safe(text) + 1)
      /\ out' = out \o SubSeq(Done(text), 1, Safe(text))
      /\ mark' = IF CutsOpen(delta) THEN <<Len(input), Len(out)>> ELSE mark
  BY DEF ProcessDelta, Done, Safe
<1>3. Done(text) \in Text
  BY <1>1, FromOne DEF Done
<1>4. Safe(text) \in 0..Len(Done(text))
  BY <1>1, <1>3, TextLen, SafeFlushProps DEF Safe, Done
<1> QED
  BY <1>1, <1>2, <1>3, <1>4

\* Every step keeps the variables texts, and the held back text bounded.
LEMMA HoldbackStep == HoldbackInv /\ [BufferNext]_bufferVars => HoldbackInv'
<1> SUFFICES ASSUME HoldbackInv, [BufferNext]_bufferVars PROVE HoldbackInv'
  OBVIOUS
<1>0. input \in Text /\ buffer \in Text /\ out \in Text /\ ended \in BOOLEAN /\ MaxKeyLen \in Nat
  BY MaxKeyLenProps DEF HoldbackInv
<1>1. ASSUME NEW delta \in SeqOf(Chars, MaxText - Len(input)), ProcessDelta(delta) PROVE HoldbackInv'
  <2> DEFINE d == Done(buffer \o delta)
             n == Safe(buffer \o delta)
  <2>1. delta \in Text
    BY DeltaTyped
  <2>2. /\ UNCHANGED ended /\ d \in Text /\ n \in 0..Len(d) /\ buffer \o delta \in Text
        /\ input' = input \o delta /\ buffer' = From(d, n + 1) /\ out' = out \o SubSeq(d, 1, n)
    BY <1>0, <1>1, <2>1, DeltaStep
  <2>3. At(From(d, n + 1), 1, Open) \/ Len(From(d, n + 1)) <= MaxKeyLen
    <3>1. CASE DOMAIN Display = {}
      <4>1. d = buffer \o delta /\ n = Len(d)
        BY <3>1 DEF Done, Safe
      <4>2. From(d, n + 1) = <<>>
        BY <2>2, <4>1, FromOne
      <4> QED
        BY <1>0, <4>2
    <3>2. CASE DOMAIN Display # {}
      <4>1. n = SafeFlushLen(d)
        BY <3>2 DEF Safe
      <4> QED
        BY <2>2, <4>1, SafeFlushProps
    <3> QED
      BY <3>1, <3>2
  <2> HIDE DEF d, n
  <2>4. n + 1 \in 1..(Len(d) + 1) /\ 1 \in 1..(Len(d) + 1) /\ n \in (1 - 1)..Len(d)
    BY <2>2, TextLen
  <2>5. input' \in Text /\ buffer' \in Text /\ out' \in Text
    BY <1>0, <2>1, <2>2, <2>4, JoinProps, FromProps, PieceProps
  <2> QED
    BY <1>0, <2>2, <2>3, <2>5 DEF HoldbackInv, HoldbackBounded
<1>2. CASE FlushRemaining
  <2>1. out' \in Text /\ buffer' = <<>> /\ ended' = TRUE /\ UNCHANGED input
    BY <1>0, <1>2, FromOne, JoinProps DEF FlushRemaining
  <2>2. <<>> \in Text /\ Len(<<>>) <= MaxKeyLen
    BY <1>0 DEF Text
  <2> QED
    BY <1>0, <2>1, <2>2 DEF HoldbackInv, HoldbackBounded
<1>3. CASE UNCHANGED bufferVars
  BY <1>3 DEF bufferVars, HoldbackInv, HoldbackBounded
<1> QED
  BY <1>1, <1>2, <1>3 DEF BufferNext

\* ReplacementBuffer never holds back more than the longest synthetic value,
\* unless what it holds back begins with the tag of an unfinished token.
THEOREM HoldbackBoundedHolds == BufferSpec => []HoldbackBounded
<1>1. BufferInit => HoldbackInv
  <2> SUFFICES ASSUME BufferInit PROVE HoldbackInv
    OBVIOUS
  <2>1. <<>> \in Text /\ Len(<<>>) <= MaxKeyLen
    BY MaxKeyLenProps DEF Text
  <2> QED
    BY <2>1 DEF BufferInit, HoldbackInv, HoldbackBounded
<1>2. HoldbackInv => HoldbackBounded
  BY DEF HoldbackInv
<1> QED
  BY <1>1, <1>2, HoldbackStep, PTL DEF BufferSpec

-----------------------------------------------------------------------------
(* The cascade, one place at a time *)

\* The first tag from i on is the first one from j on if it is not before j.
LEMMA OpenLater ==
  ASSUME NEW t \in Text, NEW i \in Nat \ {0}, NEW j \in Nat, j >= i, Find(t, i, Open) # {}, j <= NextOpen(t, i)
  PROVE  Find(t, j, Open) # {} /\ NextOpen(t, j) = NextOpen(t, i)
<1> DEFINE o == NextOpen(t, i)
           q == NextOpen(t, j)
<1>0. Len(t) \in Nat /\ j \in Nat \ {0}
  BY TextLen
<1>1. /\ \A n : n \in Find(t, i, Open) <=> n \in i..(Len(t) - 1) /\ t[n] = "<" /\ t[n + 1] = "p"
      /\ o \in Find(t, i, Open) /\ o \in i..(Len(t) - 1) /\ \A n \in Find(t, i, Open) : o <= n
  BY FindOpen
<1>2. /\ \A n : n \in Find(t, j, Open) <=> n \in j..(Len(t) - 1) /\ t[n] = "<" /\ t[n + 1] = "p"
      /\ Find(t, j, Open) # {} => q \in Find(t, j, Open) /\ q \in j..(Len(t) - 1) /\ \A n \in Find(t, j, Open) : q <= n
  BY <1>0, FindOpen
<1>a. j <= o
  OBVIOUS
<1> HIDE DEF o, q
<1>3. o \in Find(t, j, Open)
  BY <1>0, <1>1, <1>2, <1>a
<1>4. q \in Find(t, i, Open)
  BY <1>0, <1>1, <1>2, <1>3
<1>5. q = o
  BY <1>0, <1>1, <1>2, <1>3, <1>4
<1> QED
  BY <1>3, <1>5 DEF o, q

\* A place where a tag opens is the first such place from there on.
LEMMA OpenHere ==
  ASSUME NEW t \in Text, NEW i \in Nat \ {0}, At(t, i, Open)
  PROVE  Find(t, i, Open) # {} /\ NextOpen(t, i) = i
<1>0. Len(t) \in Nat
  BY TextLen
<1>1. i + 1 <= Len(t) /\ t[i] = "<" /\ t[i + 1] = "p"
  BY TagAt
<1>a. /\ i \in Find(t, i, Open) <=> i \in i..(Len(t) - 1) /\ t[i] = "<" /\ t[i + 1] = "p"
      /\ Find(t, i, Open) # {} => NextOpen(t, i) \in i..(Len(t) - 1) /\ \A n \in Find(t, i, Open) : NextOpen(t, i) <= n
  BY FindOpen
<1>2. /\ i \in Find(t, i, Open)
      /\ NextOpen(t, i) \in i..(Len(t) - 1) /\ \A n \in Find(t, i, Open) : NextOpen(t, i) <= n
  BY <1>0, <1>1, <1>a
<1> QED
  BY <1>0, <1>2

\* A synthetic value ends before the next tag.
LEMMA KeyBeforeOpen ==
  ASSUME Apart, NEW t \in Text, NEW i \in Nat \ {0}, NEW o \in Nat, o >= i, At(t, o, Open), NEW k \in DOMAIN Display, At(t, i, k)
  PROVE  i + Len(k) <= o
<1>0. Len(t) \in Nat /\ Len(k) \in Nat /\ k \in Text /\ o \in Nat \ {0}
  BY TextLen, KeyTyped
<1>1. t[o] = "<"
  BY <1>0, TagAt
<1>2. i + Len(k) - 1 <= Len(t) /\ \A j \in 1..Len(k) : t[i + j - 1] = k[j]
  BY <1>0, AtChars
<1>3. SUFFICES ASSUME i + Len(k) > o PROVE FALSE
  BY <1>0
<1>4. o - i + 1 \in 1..Len(k) /\ i + (o - i + 1) - 1 = o
  BY <1>0, <1>3
<1>5. k[o - i + 1] = "<"
  BY <1>1, <1>2, <1>4
<1> QED
  BY <1>4, <1>5 DEF Apart

\* The keys found in the text before a tag are the keys found in the text.
LEMMA KeysBeforeOpen ==
  ASSUME Apart, NEW t \in Text, NEW i \in Nat \ {0}, NEW o \in Nat, o > i, At(t, o, Open)
  PROVE  KeysAt(SubSeq(t, i, o - 1), 1) = KeysAt(t, i)
<1> DEFINE u == SubSeq(t, i, o - 1)
<1>0. Len(t) \in Nat /\ o \in Nat \ {0}
  BY TextLen
<1>1. o + 1 <= Len(t)
  BY <1>0, TagAt
<1>2. i \in 1..(Len(t) + 1) /\ o - 1 \in (i - 1)..Len(t)
  BY <1>0, <1>1
<1>3. u \in Text /\ Len(u) = (o - 1) - i + 1 /\ \A n \in 1..((o - 1) - i + 1) : u[n] = t[i + n - 1]
  BY <1>2, PieceProps
<1> HIDE DEF u
<1>4. ASSUME NEW k \in DOMAIN Display PROVE At(u, 1, k) <=> At(t, i, k)
  <2>1. k \in Text /\ Len(k) \in Nat
    BY KeyTyped
  <2>a. 1 \in Nat \ {0}
    OBVIOUS
  <2>2. At(u, 1, k) <=> 1 + Len(k) - 1 <= Len(u) /\ \A j \in 1..Len(k) : u[1 + j - 1] = k[j]
    BY <1>3, <2>1, <2>a, AtChars
  <2>3. At(t, i, k) <=> i + Len(k) - 1 <= Len(t) /\ \A j \in 1..Len(k) : t[i + j - 1] = k[j]
    BY <2>1, AtChars
  <2>4. At(t, i, k) => i + Len(k) <= o
    BY KeyBeforeOpen
  <2>5. i + Len(k) <= o => \A j \in 1..Len(k) : 1 + j - 1 = j /\ j \in 1..((o - 1) - i + 1)
    BY <1>0, <2>1
  <2>6. i + Len(k) <= o => \A j \in 1..Len(k) : u[1 + j - 1] = t[i + j - 1]
    BY <1>3, <2>5
  <2>7. 1 + Len(k) - 1 <= Len(u) <=> i + Len(k) <= o
    BY <1>0, <1>3, <2>1
  <2>8. i + Len(k) <= o => i + Len(k) - 1 <= Len(t)
    BY <1>0, <1>1, <2>1
  <2> QED
    BY <2>2, <2>3, <2>4, <2>6, <2>7, <2>8
<1> QED
  BY <1>4 DEF KeysAt, u

\* replace_synthetics on the text before a tag, one place further.
LEMMA ReplaceBeforeOpen ==
  ASSUME Apart, NEW t \in Text, NEW i \in Nat \ {0}, NEW o \in Nat, o > i, At(t, o, Open)
  PROVE  /\ Jump(t, i) \in (i + 1)..o
         /\ Piece(t, i) \in Text
         /\ ReplaceSynthetics(SubSeq(t, i, o - 1)) = Piece(t, i) \o ReplaceSynthetics(SubSeq(t, Jump(t, i), o - 1))
<1> DEFINE u == SubSeq(t, i, o - 1)
<1>0. Len(t) \in Nat /\ o \in Nat \ {0}
  BY TextLen
<1>1. o + 1 <= Len(t)
  BY <1>0, TagAt
<1>2. i \in 1..(Len(t) + 1) /\ o - 1 \in (i - 1)..Len(t) /\ i \in 1..Len(t)
  BY <1>0, <1>1
<1>3. u \in Text /\ Len(u) = (o - 1) - i + 1 /\ \A n \in 1..((o - 1) - i + 1) : u[n] = t[i + n - 1]
  BY <1>2, PieceProps
<1>4. KeysAt(u, 1) = KeysAt(t, i)
  BY KeysBeforeOpen
<1>5. Piece(t, i) \in Text /\ Jump(t, i) \in (i + 1)..(Len(t) + 1)
  BY <1>2, PieceJump
<1> HIDE DEF u
<1>6. 1 \in 1..Len(u) /\ u # <<>> /\ 1 \in 1..((o - 1) - i + 1) /\ i + 1 - 1 = i
  BY <1>0, <1>3
<1>7. Piece(u, 1) \in Text /\ Jump(u, 1) \in 2..(Len(u) + 1)
  BY <1>3, <1>6, PieceJump
<1>8. Piece(u, 1) = Piece(t, i)
  BY <1>3, <1>4, <1>6 DEF Piece
<1>9. Jump(t, i) = i + Jump(u, 1) - 1
  <2>1. \A k \in KeysAt(t, i) : Len(k) \in Nat
    BY KeyTyped DEF KeysAt
  <2>2. KeysAt(t, i) # {} => Longest(KeysAt(t, i)) \in KeysAt(t, i)
    BY LongestProps
  <2> QED
    BY <1>4, <2>1, <2>2 DEF Jump
<1>10. Jump(t, i) \in (i + 1)..o
  BY <1>0, <1>3, <1>5, <1>7, <1>9
<1>11. ReplaceSynthetics(u) = Piece(u, 1) \o ReplaceSynthetics(From(u, Jump(u, 1)))
  BY <1>3, <1>6, ReplaceHead
<1>12. From(u, Jump(u, 1)) = SubSeq(t, Jump(t, i), o - 1)
  <2> DEFINE l == From(u, Jump(u, 1))
             r == SubSeq(t, Jump(t, i), o - 1)
             J == Jump(t, i)
             K == Jump(u, 1)
  <2>0. J \in (i + 1)..o /\ J = i + K - 1 /\ K \in 2..(Len(u) + 1)
    BY <1>7, <1>9, <1>10
  <2>1. l \in Text /\ Len(l) = Len(u) - K + 1 /\ \A n \in 1..(Len(u) - K + 1) : l[n] = u[K + n - 1]
    <3>1. K \in 1..(Len(u) + 1)
      BY <2>0
    <3> QED
      BY <1>3, <3>1, FromProps
  <2>2. r \in Text /\ Len(r) = (o - 1) - J + 1 /\ \A n \in 1..((o - 1) - J + 1) : r[n] = t[J + n - 1]
    <3>1. J \in 1..(Len(t) + 1) /\ o - 1 \in (J - 1)..Len(t)
      BY <1>0, <1>1, <2>0
    <3> QED
      BY <3>1, PieceProps
  <2> HIDE DEF l, r, J, K
  <2>3. Len(l) = Len(r) /\ \A n \in 1..Len(l) : n \in 1..((o - 1) - J + 1) /\ K + n - 1 \in 1..((o - 1) - i + 1)
                                                 /\ i + (K + n - 1) - 1 = J + n - 1
    BY <1>0, <1>3, <2>0, <2>1, <2>2
  <2>4. ASSUME NEW n \in 1..Len(l) PROVE l[n] = r[n]
    <3>1. n \in 1..((o - 1) - J + 1) /\ K + n - 1 \in 1..((o - 1) - i + 1) /\ i + (K + n - 1) - 1 = J + n - 1
      BY <2>3
    <3>2. l[n] = u[K + n - 1]
      BY <2>1
    <3>3. u[K + n - 1] = t[J + n - 1]
      BY <1>3, <3>1
    <3>4. r[n] = t[J + n - 1]
      BY <2>2, <3>1
    <3> QED
      BY <3>2, <3>3, <3>4
  <2>5. l = r
    BY <2>1, <2>2, <2>3, <2>4, SameText
  <2> QED
    BY <2>5 DEF l, r, J, K
<1> QED
  BY <1>5, <1>8, <1>10, <1>11, <1>12 DEF u

\* The cascade at a place: an unfinished token stays, a token becomes its
\* original, and elsewhere replace_synthetics makes its next step.
LEMMA CascadeAt ==
  ASSUME Apart, NEW t \in Text, NEW i \in 1..Len(t)
  PROVE  /\ At(t, i, Open) /\ Find(t, i, Close) = {} => Cascade(From(t, i)) = From(t, i)
         /\ At(t, i, Open) /\ Find(t, i, Close) # {} =>
              Cascade(From(t, i)) = TokenOriginal(TokenBody(t, i)) \o Cascade(From(t, NextClose(t, i) + 1))
         /\ ~At(t, i, Open) => Cascade(From(t, i)) = Piece(t, i) \o Cascade(From(t, Jump(t, i)))
<1> DEFINE F == CascadeFrom(t)
           J == Jump(t, i)
           o == NextOpen(t, i)
<1>0. Len(t) \in Nat /\ i \in Nat \ {0} /\ i \in 1..(Len(t) + 1)
  BY TextLen
<1>1. \A j \in 1..(Len(t) + 1) :
        /\ F[j] = IF Ending(t, j) THEN LastPiece(t, j) ELSE TokenPiece(t, j) \o F[TokenJump(t, j)]
        /\ F[j] = Cascade(From(t, j)) /\ Cascade(From(t, j)) \in Text
  BY CascadeFromDef, CascadeSuffix
<1> HIDE DEF F
<1>2. ASSUME At(t, i, Open)
      PROVE  /\ Find(t, i, Close) = {} => Cascade(From(t, i)) = From(t, i)
             /\ Find(t, i, Close) # {} =>
                  Cascade(From(t, i)) = TokenOriginal(TokenBody(t, i)) \o Cascade(From(t, NextClose(t, i) + 1))
  <2>1. Find(t, i, Open) # {} /\ NextOpen(t, i) = i
    BY <1>0, <1>2, OpenHere
  <2>2. SubSeq(t, i, i - 1) \in Text /\ Len(SubSeq(t, i, i - 1)) = (i - 1) - i + 1
    <3>1. i - 1 \in (i - 1)..Len(t)
      BY <1>0
    <3> QED
      BY <1>0, <3>1, PieceProps
  <2>3. SubSeq(t, i, i - 1) = <<>>
    BY <1>0, <2>2 DEF Text
  <2>4. ReplaceSynthetics(SubSeq(t, i, i - 1)) = <<>>
    BY <2>2, <2>3, ReplaceHead
  <2>5. CASE Find(t, i, Close) = {}
    <3>1. From(t, i) \in Text
      BY <1>0, FromProps
    <3>2. Ending(t, i) /\ LastPiece(t, i) = <<>> \o From(t, i)
      BY <2>1, <2>4, <2>5 DEF Ending, LastPiece
    <3>3. <<>> \o From(t, i) = From(t, i)
      BY <3>1, JoinAssoc
    <3> QED
      BY <1>0, <1>1, <2>5, <3>2, <3>3
  <2>6. CASE Find(t, i, Close) # {}
    <3> DEFINE b == TokenBody(t, i)
    <3>1. NextClose(t, i) \in (i + 2)..Len(t) /\ b \in Text
      BY <1>0, <1>2, <2>6, TokenProps
    <3>2. TokenOriginal(b) \in Text
      BY <3>1, TokenOriginalTyped
    <3>3. ~Ending(t, i) /\ TokenPiece(t, i) = <<>> \o TokenOriginal(b) /\ TokenJump(t, i) = NextClose(t, i) + 1
      BY <2>1, <2>4, <2>6 DEF Ending, TokenPiece, TokenJump
    <3>4. <<>> \o TokenOriginal(b) = TokenOriginal(b)
      BY <3>2, JoinAssoc
    <3>5. NextClose(t, i) + 1 \in 1..(Len(t) + 1)
      BY <1>0, <3>1
    <3> HIDE DEF b
    <3>6. Cascade(From(t, i)) = TokenOriginal(b) \o Cascade(From(t, NextClose(t, i) + 1))
      BY <1>0, <1>1, <3>3, <3>4, <3>5
    <3> QED
      BY <2>6, <3>6 DEF b
  <2> QED
    BY <2>5, <2>6
<1>3. ASSUME ~At(t, i, Open)
      PROVE  Cascade(From(t, i)) = Piece(t, i) \o Cascade(From(t, J))
  <2>0. Piece(t, i) \in Text /\ J \in (i + 1)..(Len(t) + 1)
    BY PieceJump
  <2>b. Piece(t, i) \in Text
    BY <2>0
  <2> HIDE DEF J
  <2>a. J \in 1..(Len(t) + 1) /\ J \in Nat /\ J >= i /\ J \in Nat \ {0}
    BY <1>0, <2>0
  <2>1. CASE Find(t, i, Open) = {}
    <3>1. Find(t, J, Open) = {}
      BY <1>0, <2>0, <2>1 DEF Find
    <3>2. F[i] = ReplaceSynthetics(From(t, i)) /\ F[J] = ReplaceSynthetics(From(t, J))
      BY <1>0, <1>1, <2>1, <2>a, <3>1 DEF Ending, LastPiece
    <3>3. F[i] = Piece(t, i) \o F[J]
      <4>1. ReplacedFrom(t)[i] = IF i > Len(t) THEN <<>> ELSE Piece(t, i) \o ReplacedFrom(t)[J]
        BY <1>0, ReplacedFromDef DEF J
      <4>2. ReplacedFrom(t)[i] = ReplaceSynthetics(From(t, i)) /\ ReplacedFrom(t)[J] = ReplaceSynthetics(From(t, J))
        BY <1>0, <2>a, ReplacedSuffix
      <4>3. ~(i > Len(t))
        BY <1>0
      <4> QED
        BY <3>2, <4>1, <4>2, <4>3, Zenon
    <3> QED
      BY <1>0, <1>1, <2>a, <3>3
  <2>2. CASE Find(t, i, Open) # {}
    <3>1. o \in i..(Len(t) - 1) /\ At(t, o, Open)
      BY <1>0, <2>2, FindOpen DEF Find
    <3>2. o > i /\ o \in Nat
      <4>1. o # i
        BY <1>3, <3>1
      <4> HIDE DEF o
      <4> QED
        BY <1>0, <3>1, <4>1
    <3>3. /\ J \in (i + 1)..o
          /\ ReplaceSynthetics(SubSeq(t, i, o - 1)) = Piece(t, i) \o ReplaceSynthetics(SubSeq(t, J, o - 1))
      BY <1>0, <3>1, <3>2, ReplaceBeforeOpen DEF J
    <3>4. Find(t, J, Open) # {} /\ NextOpen(t, J) = o
      <4>1. J <= o
        BY <3>2, <3>3
      <4> QED
        BY <1>0, <2>2, <2>a, <4>1, OpenLater
    <3> DEFINE R == ReplaceSynthetics(SubSeq(t, J, o - 1))
    <3>5. R \in Text
      <4>1. o - 1 \in (J - 1)..Len(t)
        BY <1>0, <3>1, <3>2, <3>3
      <4>2. SubSeq(t, J, o - 1) \in Text
        BY <2>a, <4>1, PieceProps
      <4> QED
        BY <4>2, ReplaceHead
    <3>6. CASE Find(t, o, Close) = {}
      <4>1. Ending(t, i) /\ Ending(t, J)
        BY <3>4, <3>6 DEF Ending
      <4>2. LastPiece(t, i) = (Piece(t, i) \o R) \o From(t, o) /\ LastPiece(t, J) = R \o From(t, o)
        BY <2>2, <3>3, <3>4 DEF LastPiece
      <4>3. From(t, o) \in Text
        <5>1. o \in 1..(Len(t) + 1)
          BY <1>0, <3>1, <3>2
        <5> QED
          BY <5>1, FromProps
      <4>4. LastPiece(t, i) = Piece(t, i) \o LastPiece(t, J)
        <5>1. (Piece(t, i) \o R) \o From(t, o) = Piece(t, i) \o (R \o From(t, o))
          BY <2>b, <3>5, <4>3, Assoc, Zenon
        <5> QED
          BY <4>2, <5>1, Zenon
      <4> QED
        BY <1>0, <1>1, <2>a, <4>1, <4>4
    <3>7. CASE Find(t, o, Close) # {}
      <4>1. ~Ending(t, i) /\ ~Ending(t, J)
        BY <2>2, <3>4, <3>7 DEF Ending
      <4> DEFINE O == TokenOriginal(TokenBody(t, o))
                 c == TokenJump(t, i)
      <4>2. TokenPiece(t, i) = (Piece(t, i) \o R) \o O /\ TokenPiece(t, J) = R \o O
        BY <3>3, <3>4 DEF TokenPiece
      <4>3. O \in Text
        <5>1. o \in Nat \ {0}
          BY <1>0, <3>2
        <5>2. TokenBody(t, o) \in Text
          BY <3>1, <3>7, <5>1, TokenProps
        <5> QED
          BY <5>2, TokenOriginalTyped
      <4>4. c = TokenJump(t, J) /\ c \in 1..(Len(t) + 1)
        <5>1. c \in (i + 1)..(Len(t) + 1)
          BY <1>0, <4>1, CascadePieces
        <5>2. c = TokenJump(t, J)
          BY <3>4 DEF TokenJump
        <5> HIDE DEF c
        <5> QED
          BY <1>0, <5>1, <5>2
      <4> HIDE DEF O, c
      <4>a. F[i] = TokenPiece(t, i) \o F[c] /\ F[J] = TokenPiece(t, J) \o F[c] /\ F[c] \in Text
        BY <1>0, <1>1, <2>a, <4>1, <4>4 DEF c
      <4> HIDE DEF R
      <4>b. R \in Text
        BY <3>5 DEF R
      <4>5. R \o O \in Text /\ (Piece(t, i) \o R) \o O = Piece(t, i) \o (R \o O)
        <5>1. R \o O \in Text
          BY <4>b, <4>3, JoinText, Zenon
        <5>2. (Piece(t, i) \o R) \o O = Piece(t, i) \o (R \o O)
          BY <2>b, <4>b, <4>3, Assoc, Zenon
        <5> QED
          BY <5>1, <5>2, Zenon
      <4>6. (Piece(t, i) \o (R \o O)) \o F[c] = Piece(t, i) \o ((R \o O) \o F[c])
        BY <2>0, <4>5, <4>a, Assoc, Zenon
      <4>7. F[i] = Piece(t, i) \o F[J]
        BY <4>2, <4>5, <4>6, <4>a DEF R
      <4> QED
        BY <1>0, <1>1, <2>a, <4>7
    <3> QED
      BY <3>6, <3>7
  <2> QED
    BY <2>1, <2>2
<1> QED
  BY <1>2, <1>3

\* Two pieces of a text in a row.
LEMMA PieceJoin ==
  ASSUME NEW t \in Text, NEW i \in 1..(Len(t) + 1), NEW j \in (i - 1)..Len(t), NEW l \in j..Len(t)
  PROVE  SubSeq(t, i, j) \o SubSeq(t, j + 1, l) = SubSeq(t, i, l)
<1> DEFINE a == SubSeq(t, i, j)
           b == SubSeq(t, j + 1, l)
           c == SubSeq(t, i, l)
           d == a \o b
<1>0. Len(t) \in Nat
  BY TextLen
<1>1. a \in Text /\ Len(a) = j - i + 1 /\ \A n \in 1..(j - i + 1) : a[n] = t[i + n - 1]
  BY PieceProps
<1>2. b \in Text /\ Len(b) = l - (j + 1) + 1 /\ \A n \in 1..(l - (j + 1) + 1) : b[n] = t[(j + 1) + n - 1]
  <2>1. j + 1 \in 1..(Len(t) + 1) /\ l \in ((j + 1) - 1)..Len(t)
    BY <1>0
  <2> QED
    BY <2>1, PieceProps
<1>3. c \in Text /\ Len(c) = l - i + 1 /\ \A n \in 1..(l - i + 1) : c[n] = t[i + n - 1]
  <2>1. l \in (i - 1)..Len(t)
    BY <1>0
  <2> QED
    BY <2>1, PieceProps
<1> HIDE DEF a, b, c
<1>4. /\ d \in Text /\ Len(d) = Len(a) + Len(b)
      /\ \A n \in 1..Len(a) : d[n] = a[n]
      /\ \A n \in 1..Len(b) : d[Len(a) + n] = b[n]
  BY <1>1, <1>2, JoinProps
<1> HIDE DEF d
<1>5. Len(d) = Len(c)
  BY <1>0, <1>1, <1>2, <1>3, <1>4
<1>6. ASSUME NEW n \in 1..Len(d) PROVE d[n] = c[n]
  <2>1. CASE n <= Len(a)
    <3>1. n \in 1..Len(a) /\ n \in 1..(j - i + 1) /\ n \in 1..(l - i + 1)
      BY <1>0, <1>1, <1>3, <1>5, <2>1
    <3> QED
      BY <1>1, <1>3, <1>4, <3>1
  <2>2. CASE ~(n <= Len(a))
    <3>1. /\ n - Len(a) \in 1..Len(b) /\ Len(a) + (n - Len(a)) = n
          /\ n - Len(a) \in 1..(l - (j + 1) + 1) /\ n \in 1..(l - i + 1)
          /\ (j + 1) + (n - Len(a)) - 1 = i + n - 1
      BY <1>0, <1>1, <1>2, <1>3, <1>4, <1>5, <2>2
    <3>2. d[Len(a) + (n - Len(a))] = b[n - Len(a)]
      BY <1>4, <3>1
    <3>3. b[n - Len(a)] = t[(j + 1) + (n - Len(a)) - 1]
      BY <1>2, <3>1
    <3>4. c[n] = t[i + n - 1]
      BY <1>3, <3>1
    <3> QED
      BY <3>1, <3>2, <3>3, <3>4
  <2> QED
    BY <2>1, <2>2
<1>7. d = c
  BY <1>3, <1>4, <1>5, <1>6, SameText
<1> QED
  BY <1>7 DEF a, b, c, d

\* One character of a text.
LEMMA OnePiece ==
  ASSUME NEW t \in Text, NEW i \in 1..Len(t)
  PROVE  SubSeq(t, i, i) = <<t[i]>> /\ <<t[i]>> \in Text /\ Len(<<t[i]>>) = 1 /\ <<t[i]>>[1] = t[i]
<1> DEFINE o == <<t[i]>>
<1>0. Len(t) \in Nat /\ t[i] \in STRING
  BY TextLen
<1>1. o \in Text /\ Len(o) = 1 /\ o[1] = t[i]
  BY <1>0, PairSeq, Zenon DEF Text
<1> HIDE DEF o
<1>2. i \in 1..(Len(t) + 1) /\ i \in (i - 1)..Len(t)
  BY <1>0
<1>3. SubSeq(t, i, i) \in Text /\ Len(SubSeq(t, i, i)) = i - i + 1 /\ \A n \in 1..(i - i + 1) : SubSeq(t, i, i)[n] = t[i + n - 1]
  BY <1>2, PieceProps
<1>4. Len(SubSeq(t, i, i)) = Len(o) /\ \A n \in 1..Len(SubSeq(t, i, i)) : SubSeq(t, i, i)[n] = o[n]
  BY <1>0, <1>1, <1>3
<1>5. SubSeq(t, i, i) = o
  BY <1>1, <1>3, <1>4, SameText
<1> QED
  BY <1>1, <1>5 DEF o

\* No piece at all.
LEMMA NoPiece ==
  ASSUME NEW t \in Text, NEW i \in 1..(Len(t) + 1)
  PROVE  SubSeq(t, i, i - 1) = <<>>
<1>0. Len(t) \in Nat
  BY TextLen
<1>1. i - 1 \in (i - 1)..Len(t)
  BY <1>0
<1>2. SubSeq(t, i, i - 1) \in Text /\ Len(SubSeq(t, i, i - 1)) = (i - 1) - i + 1
  BY <1>1, PieceProps
<1> QED
  BY <1>0, <1>2 DEF Text

\* Where no tag opens and no synthetic value begins, the cascade changes nothing.
LEMMA PlainRun ==
  ASSUME Apart, NEW x \in Text, NEW a \in 1..(Len(x) + 1), NEW b \in a..(Len(x) + 1),
         \A j \in a..(b - 1) : ~At(x, j, Open) /\ KeysAt(x, j) = {}
  PROVE  Cascade(From(x, a)) = SubSeq(x, a, b - 1) \o Cascade(From(x, b))
<1> DEFINE E == Cascade(From(x, b))
           T == {m \in Nat : m <= b - a => Cascade(From(x, b - m)) = SubSeq(x, b - m, b - 1) \o E}
<1>0. Len(x) \in Nat /\ b \in 1..(Len(x) + 1) /\ a \in Nat /\ b \in Nat
  BY TextLen
<1>a. E \in Text
  BY <1>0, CascadeSuffix
<1> HIDE DEF E
<1>1. 0 \in T
  <2>1. SubSeq(x, b, b - 1) = <<>> /\ b - 0 = b
    BY <1>0, NoPiece
  <2>2. <<>> \o E = E
    BY <1>a, JoinAssoc
  <2> QED
    BY <2>1, <2>2 DEF E
<1>2. \A m \in Nat : m \in T => m + 1 \in T
  <2>0. SUFFICES ASSUME NEW m \in Nat, m \in T, m + 1 <= b - a
                 PROVE  Cascade(From(x, b - (m + 1))) = SubSeq(x, b - (m + 1), b - 1) \o E
    OBVIOUS
  <2> DEFINE j == b - (m + 1)
  <2>1. /\ j \in a..(b - 1) /\ j \in 1..Len(x) /\ j + 1 = b - m /\ j \in 1..(Len(x) + 1) /\ j + 1 \in 1..(Len(x) + 1)
        /\ j \in (j - 1)..Len(x) /\ b - 1 \in j..Len(x) /\ b - 1 \in ((j + 1) - 1)..Len(x)
    BY <1>0, <2>0
  <2> HIDE DEF j
  <2>2. Cascade(From(x, j + 1)) = SubSeq(x, j + 1, b - 1) \o E
    <3>1. m <= b - a
      BY <1>0, <2>0
    <3>2. Cascade(From(x, b - m)) = SubSeq(x, b - m, b - 1) \o E
      BY <2>0, <3>1, Zenon
    <3> QED
      BY <2>1, <3>2, Zenon
  <2>3. ~At(x, j, Open) /\ KeysAt(x, j) = {}
    BY <2>1
  <2>4. Cascade(From(x, j)) = Piece(x, j) \o Cascade(From(x, Jump(x, j)))
    BY <2>1, <2>3, CascadeAt
  <2>5. Piece(x, j) = SubSeq(x, j, j) /\ Jump(x, j) = j + 1 /\ SubSeq(x, j, j) \in Text
    BY <2>1, <2>3, OnePiece DEF Piece, Jump
  <2>6. SubSeq(x, j + 1, b - 1) \in Text
    BY <2>1, PieceProps
  <2>7. SubSeq(x, j, j) \o SubSeq(x, j + 1, b - 1) = SubSeq(x, j, b - 1)
    BY <2>1, PieceJoin
  <2>b. SubSeq(x, j, j) \in Text
    BY <2>5
  <2>8. (SubSeq(x, j, j) \o SubSeq(x, j + 1, b - 1)) \o E = SubSeq(x, j, j) \o (SubSeq(x, j + 1, b - 1) \o E)
    BY <1>a, <2>b, <2>6, Assoc, Zenon
  <2>9. Cascade(From(x, j)) = SubSeq(x, j, b - 1) \o E
    BY <2>2, <2>4, <2>5, <2>7, <2>8, Zenon
  <2> QED
    BY <2>9 DEF j
<1>3. Nat \subseteq T
  BY <1>1, <1>2, NatInductionSet, Zenon
<1>4. b - a \in Nat /\ b - (b - a) = a
  BY <1>0
<1>5. b - a \in T
  BY <1>3, <1>4, Zenon
<1>6. Cascade(From(x, a)) = SubSeq(x, a, b - 1) \o E
  BY <1>0, <1>4, <1>5
<1> QED
  BY <1>6 DEF E

-----------------------------------------------------------------------------
(* Answers whose tokens are well formed *)

\* The token that opens at o ends before the next one opens, and is settled.
TokenOk(x, o) ==
  /\ Find(x, o + 1, Open) = {} \/ (Find(x, o, Close) # {} /\ NextClose(x, o) < NextOpen(x, o + 1))
  /\ Find(x, o, Close) # {} => Settled(TokenBody(x, o))

\* Every token is; and every token has an end.
Good(x)   == \A o \in Find(x, 1, Open) : TokenOk(x, o)
Closed(x) == \A o \in Find(x, 1, Open) : Find(x, o, Close) # {}

\* The condition on answers in terms of single tokens.
LEMMA GoodAnswer ==
  ASSUME NEW x \in Text, ~Nested(x), TokensSettled(x)
  PROVE  Good(x)
<1> SUFFICES ASSUME NEW o \in Find(x, 1, Open) PROVE TokenOk(x, o)
  BY DEF Good
<1>0. Len(x) \in Nat
  BY TextLen
<1>1. o \in 1..(Len(x) - 1) /\ o \in Nat \ {0} /\ o + 1 \in Nat \ {0}
  <2>1. o \in 1..(Len(x) - 1)
    BY FindOpen
  <2> QED
    BY <1>0, <2>1
<1>2. Find(x, o, Close) # {} => Settled(TokenBody(x, o))
  BY DEF TokensSettled, TokenBody, NextClose
<1>3. ASSUME Find(x, o + 1, Open) # {} PROVE Find(x, o, Close) # {} /\ NextClose(x, o) < NextOpen(x, o + 1)
  <2> DEFINE j == NextOpen(x, o + 1)
  <2>1. j \in (o + 1)..(Len(x) - 1) /\ x[j] = "<" /\ x[j + 1] = "p"
    BY <1>1, <1>3, FindOpen
  <2> HIDE DEF j
  <2>2. j \in 1..(Len(x) - 1) /\ o < j /\ j \in Nat
    BY <1>0, <1>1, <2>1
  <2>3. j \in Find(x, 1, Open)
    BY <2>1, <2>2, FindOpen
  <2>4. PICK k \in Find(x, o, Close) : ~(k > j)
    BY <2>2, <2>3 DEF Nested
  <2>5. k \in o..Len(x) /\ x[k] = "/" /\ NextClose(x, o) \in o..Len(x) /\ NextClose(x, o) <= k
    BY <1>1, <2>4, FindClose
  <2>6. k # j
    BY <2>1, <2>5
  <2>7. NextClose(x, o) < j
    BY <1>0, <1>1, <2>2, <2>4, <2>5, <2>6
  <2> QED
    BY <2>4, <2>7 DEF j
<1> QED
  BY <1>2, <1>3 DEF TokenOk

\* A token of the rest of a text is a token of the text.
LEMMA TokenFrom ==
  ASSUME NEW x \in Text, NEW i \in 1..(Len(x) + 1), NEW j \in Nat \ {0}, At(x, i + j - 1, Open)
  PROVE  /\ TokenOk(From(x, i), j) <=> TokenOk(x, i + j - 1)
         /\ Find(From(x, i), j, Close) = {} <=> Find(x, i + j - 1, Close) = {}
<1> DEFINE v == From(x, i)
           a == i + j - 1
<1>0. Len(x) \in Nat /\ a \in Nat \ {0} /\ j + 1 \in Nat \ {0} /\ i + (j + 1) - 1 = a + 1 /\ a + 1 \in Nat \ {0}
  BY TextLen
<1>1. v \in Text /\ Len(v) = Len(x) - i + 1
  BY FromProps
<1>2. Open \in Text /\ Open # <<>>
  BY VaultAssumption, PairSeq, Zenon DEF Open, Text
<1>3. At(v, j, Open)
  BY <1>2, AtFrom
<1>4. /\ Find(v, j + 1, Open) = {} <=> Find(x, a + 1, Open) = {}
      /\ Find(v, j + 1, Open) # {} => NextOpen(x, a + 1) = NextOpen(v, j + 1) + i - 1
  BY <1>0, OpenFrom
<1>5. /\ Find(v, j, Close) = {} <=> Find(x, a, Close) = {}
      /\ Find(v, j, Close) # {} => NextClose(x, a) = NextClose(v, j) + i - 1
  BY CloseFrom
<1>6. ASSUME Find(v, j, Close) # {} PROVE TokenBody(v, j) = TokenBody(x, a)
  <2>1. NextClose(v, j) \in (j + 2)..Len(v) /\ TokenBody(v, j) = SubSeq(v, j + 2, NextClose(v, j) - 1)
    BY <1>1, <1>3, <1>6, TokenProps
  <2>2. TokenBody(x, a) = SubSeq(x, a + 2, NextClose(x, a) - 1)
    BY <1>0, <1>5, <1>6, TokenProps
  <2>3. NextClose(x, a) = NextClose(v, j) + i - 1
    BY <1>5, <1>6
  <2> HIDE DEF v, a
  <2>4. /\ j + 2 \in Nat \ {0} /\ NextClose(v, j) - 1 \in ((j + 2) - 1)..(Len(x) - i + 1)
        /\ (j + 2) + i - 1 = a + 2 /\ (NextClose(v, j) - 1) + i - 1 = NextClose(x, a) - 1
    BY <1>0, <1>1, <2>1, <2>3 DEF a
  <2>5. SubSeq(v, j + 2, NextClose(v, j) - 1) = SubSeq(x, (j + 2) + i - 1, (NextClose(v, j) - 1) + i - 1)
    BY <2>4, PieceFrom DEF v
  <2> QED
    BY <2>1, <2>2, <2>4, <2>5
<1>7. ASSUME Find(v, j, Close) # {}, Find(v, j + 1, Open) # {}
      PROVE  NextClose(v, j) < NextOpen(v, j + 1) <=> NextClose(x, a) < NextOpen(x, a + 1)
  <2>1. NextClose(v, j) \in j..Len(v) /\ NextOpen(v, j + 1) \in (j + 1)..(Len(v) - 1)
    BY <1>0, <1>1, <1>7, FindOpen, FindClose
  <2>2. NextClose(x, a) = NextClose(v, j) + i - 1 /\ NextOpen(x, a + 1) = NextOpen(v, j + 1) + i - 1
    BY <1>4, <1>5, <1>7
  <2> HIDE DEF v, a
  <2> QED
    BY <1>0, <1>1, <2>1, <2>2
<1>8. TokenOk(v, j) <=> TokenOk(x, a)
  BY <1>4, <1>5, <1>6, <1>7 DEF TokenOk
<1> QED
  BY <1>5, <1>8

\* The rest of a good text is good, and of a closed one closed.
LEMMA GoodFrom ==
  ASSUME NEW x \in Text, NEW i \in 1..(Len(x) + 1)
  PROVE  (Good(x) => Good(From(x, i))) /\ (Closed(x) => Closed(From(x, i)))
<1> DEFINE v == From(x, i)
<1>0. Len(x) \in Nat /\ Open \in Text /\ Open # <<>>
  BY TextLen, VaultAssumption, PairSeq, Zenon DEF Open, Text
<1>1. v \in Text /\ Len(v) = Len(x) - i + 1
  BY FromProps
<1>2. ASSUME NEW j \in Find(v, 1, Open)
      PROVE  i + j - 1 \in Find(x, 1, Open) /\ j \in Nat \ {0} /\ At(x, i + j - 1, Open)
  <2>1. j \in 1..Len(v) /\ At(v, j, Open)
    BY DEF Find
  <2> HIDE DEF v
  <2>2. j \in Nat \ {0} /\ i + j - 1 \in 1..Len(x)
    BY <1>0, <1>1, <2>1
  <2>3. At(x, i + j - 1, Open)
    BY <1>0, <2>1, <2>2, AtFrom DEF v
  <2> QED
    BY <2>2, <2>3 DEF Find
<1>3. ASSUME NEW j \in Find(v, 1, Open)
      PROVE  /\ TokenOk(v, j) <=> TokenOk(x, i + j - 1)
             /\ Find(v, j, Close) = {} <=> Find(x, i + j - 1, Close) = {}
  BY <1>2, TokenFrom
<1> HIDE DEF v
<1>4. (Good(x) => Good(v)) /\ (Closed(x) => Closed(v))
  BY <1>2, <1>3 DEF Good, Closed
<1> QED
  BY <1>4 DEF v

\* A text in front of a good one, when the tokens that open in it are good too.
LEMMA GoodJoin ==
  ASSUME NEW b \in Text, NEW z \in Text
  PROVE  /\ Good(z) /\ (\A o \in 1..Len(b) : At(b \o z, o, Open) => TokenOk(b \o z, o)) => Good(b \o z)
         /\ Closed(z) /\ (\A o \in 1..Len(b) : At(b \o z, o, Open) => Find(b \o z, o, Close) # {}) => Closed(b \o z)
<1> DEFINE x == b \o z
           i == Len(b) + 1
<1>0. Len(b) \in Nat /\ Len(z) \in Nat
  BY TextLen
<1>a. Open \in Text /\ Open # <<>>
  BY VaultAssumption, PairSeq, Zenon DEF Open, Text
<1>1. x \in Text /\ Len(x) = Len(b) + Len(z)
  BY JoinProps
<1>2. From(x, i) = z
  <2>1. i \in 1..(Len(b) + 1)
    BY <1>0
  <2>2. From(x, i) = From(b, i) \o z
    BY <2>1, FromJoin
  <2>3. From(b, i) = <<>>
    BY FromOne
  <2> QED
    BY <2>2, <2>3, JoinAssoc
<1> HIDE DEF x
<1>3. ASSUME NEW o \in Find(x, 1, Open), o \notin 1..Len(b)
      PROVE  /\ o - Len(b) \in Find(z, 1, Open)
             /\ TokenOk(z, o - Len(b)) <=> TokenOk(x, o)
             /\ Find(z, o - Len(b), Close) = {} <=> Find(x, o, Close) = {}
  <2>1. o \in 1..Len(x) /\ At(x, o, Open)
    BY DEF Find
  <2>2. /\ o - Len(b) \in Nat \ {0} /\ o - Len(b) \in 1..Len(z) /\ i + (o - Len(b)) - 1 = o /\ i \in 1..(Len(x) + 1)
    BY <1>0, <1>1, <1>3, <2>1
  <2>3. At(z, o - Len(b), Open)
    <3>1. At(From(x, i), o - Len(b), Open) <=> At(x, i + (o - Len(b)) - 1, Open)
      BY <1>1, <1>a, <2>2, AtFrom
    <3> QED
      BY <1>2, <2>1, <2>2, <3>1
  <2>4. o - Len(b) \in Find(z, 1, Open)
    BY <2>2, <2>3 DEF Find
  <2>5. /\ TokenOk(From(x, i), o - Len(b)) <=> TokenOk(x, i + (o - Len(b)) - 1)
        /\ Find(From(x, i), o - Len(b), Close) = {} <=> Find(x, i + (o - Len(b)) - 1, Close) = {}
    <3>1. At(x, i + (o - Len(b)) - 1, Open)
      BY <2>1, <2>2
    <3> HIDE DEF i
    <3> QED
      BY <1>1, <2>2, <3>1, TokenFrom
  <2> QED
    BY <1>2, <2>2, <2>4, <2>5
<1>4. \A o \in Find(x, 1, Open) : At(x, o, Open)
  BY DEF Find
<1>5. Good(z) /\ (\A o \in 1..Len(b) : At(x, o, Open) => TokenOk(x, o)) => Good(x)
  BY <1>3, <1>4 DEF Good
<1>6. Closed(z) /\ (\A o \in 1..Len(b) : At(x, o, Open) => Find(x, o, Close) # {}) => Closed(x)
  BY <1>3, <1>4 DEF Closed
<1> QED
  BY <1>5, <1>6 DEF x

-----------------------------------------------------------------------------
(* What the cascade puts in *)

\* The characters of k from m on are found in x at i.
Matches(x, i, k, m) == i + Len(k) - m <= Len(x) /\ \A j \in m..Len(k) : x[i + j - m] = k[j]

\* A text that the cascade puts in: another pass over it or over the end of
\* it changes nothing, no synthetic value runs into it, and tokens stay well formed.
Block(b) ==
  /\ b \in Text /\ b # <<>> /\ b[1] # "p"
  /\ \A z \in Text : \A i \in 1..Len(b) : Cascade(From(b, i) \o z) = From(b, i) \o Cascade(z)
  /\ \A z \in Text : \A k \in DOMAIN Display : \A m \in 1..Len(k) : ~Matches(b \o z, 1, k, m)
  /\ \A z \in Text : (Good(z) => Good(b \o z)) /\ (Closed(z) => Closed(b \o z))

\* A key that is found is matched from its first character on.
LEMMA AtMatches ==
  ASSUME NEW x \in Text, NEW i \in Nat \ {0}, NEW k \in DOMAIN Display
  PROVE  At(x, i, k) <=> Matches(x, i, k, 1)
<1>0. Len(x) \in Nat /\ Len(k) \in Nat /\ k \in Text
  BY TextLen, KeyTyped
<1>1. At(x, i, k) <=> i + Len(k) - 1 <= Len(x) /\ \A j \in 1..Len(k) : x[i + j - 1] = k[j]
  BY <1>0, AtChars
<1> QED
  BY <1>1 DEF Matches

\* The end of the first of two texts, as a piece of both.
LEMMA JoinPieces ==
  ASSUME NEW b \in Text, NEW z \in Text, NEW i \in 1..(Len(b) + 1)
  PROVE  /\ SubSeq(b \o z, i, Len(b)) = From(b, i)
         /\ From(b \o z, Len(b) + 1) = z
         /\ From(b \o z, i) = From(b, i) \o z
<1> DEFINE x == b \o z
<1>0. Len(b) \in Nat /\ Len(z) \in Nat
  BY TextLen
<1>1. x \in Text /\ Len(x) = Len(b) + Len(z) /\ \A n \in 1..Len(b) : x[n] = b[n]
  BY JoinProps
<1>2. From(b, i) \in Text /\ Len(From(b, i)) = Len(b) - i + 1 /\ \A n \in 1..(Len(b) - i + 1) : From(b, i)[n] = b[i + n - 1]
  BY FromProps
<1>3. /\ SubSeq(x, i, Len(b)) \in Text /\ Len(SubSeq(x, i, Len(b))) = Len(b) - i + 1
      /\ \A n \in 1..(Len(b) - i + 1) : SubSeq(x, i, Len(b))[n] = x[i + n - 1]
  <2>1. i \in 1..(Len(x) + 1) /\ Len(b) \in (i - 1)..Len(x)
    BY <1>0, <1>1
  <2> HIDE DEF x
  <2> QED
    BY <1>1, <2>1, PieceProps
<1> HIDE DEF x
<1>4. \A n \in 1..(Len(b) - i + 1) : i + n - 1 \in 1..Len(b)
  BY <1>0
<1>5. \A n \in 1..(Len(b) - i + 1) : SubSeq(x, i, Len(b))[n] = From(b, i)[n]
  BY <1>1, <1>2, <1>3, <1>4
<1>6. SubSeq(x, i, Len(b)) = From(b, i)
  BY <1>2, <1>3, <1>5, SameText
<1>7. From(x, Len(b) + 1) = z
  <2>1. Len(b) + 1 \in 1..(Len(b) + 1)
    BY <1>0
  <2>2. From(x, Len(b) + 1) = From(b, Len(b) + 1) \o z
    BY <2>1, FromJoin DEF x
  <2>3. From(b, Len(b) + 1) = <<>> /\ <<>> \o z = z
    BY FromOne, JoinAssoc
  <2> QED
    BY <2>2, <2>3
<1>8. From(x, i) = From(b, i) \o z
  BY FromJoin DEF x
<1> QED
  BY <1>6, <1>7, <1>8 DEF x

\* The cascade passes over the end of a text in which nothing begins.
LEMMA PlainEnd ==
  ASSUME Apart, NEW b \in Text, NEW z \in Text, NEW i \in 1..(Len(b) + 1),
         \A j \in i..Len(b) : ~At(b \o z, j, Open) /\ KeysAt(b \o z, j) = {}
  PROVE  Cascade(From(b, i) \o z) = From(b, i) \o Cascade(z)
<1> DEFINE x == b \o z
<1>0. Len(b) \in Nat /\ Len(z) \in Nat
  BY TextLen
<1>1. x \in Text /\ Len(x) = Len(b) + Len(z)
  BY JoinProps
<1>2. SubSeq(x, i, Len(b)) = From(b, i) /\ From(x, Len(b) + 1) = z /\ From(x, i) = From(b, i) \o z
  BY JoinPieces
<1>a. \A j \in i..Len(b) : ~At(x, j, Open) /\ KeysAt(x, j) = {}
  OBVIOUS
<1> HIDE DEF x
<1>3. /\ i \in 1..(Len(x) + 1) /\ Len(b) + 1 \in i..(Len(x) + 1) /\ (Len(b) + 1) - 1 = Len(b)
  BY <1>0, <1>1
<1>4. \A j \in i..((Len(b) + 1) - 1) : ~At(x, j, Open) /\ KeysAt(x, j) = {}
  BY <1>3, <1>a
<1>5. Cascade(From(x, i)) = SubSeq(x, i, (Len(b) + 1) - 1) \o Cascade(From(x, Len(b) + 1))
  BY <1>1, <1>3, <1>4, PlainRun
<1> QED
  BY <1>2, <1>3, <1>5

\* OriginalValues are such texts.
LEMMA OriginalBlock ==
  ASSUME Apart, NEW o \in OriginalValues
  PROVE  Block(o)
<1>1. o \in Text
  BY VaultAssumption DEF OriginalValues, Text
<1>2. o # <<>> /\ \A j \in 1..Len(o) : o[j] \notin {"<", "p", "/"}
  BY DEF Apart
<1>3. \A k \in DOMAIN Display : \A d \in (1 - Len(k))..(Len(o) - 1) : ~Fits(k, o, d)
  BY DEF Apart
<1>0. Len(o) \in Nat /\ Len(o) >= 1
  BY <1>1, <1>2 DEF Text
<1>4. o[1] # "p"
  BY <1>0, <1>2
<1>5. ASSUME NEW z \in Text
      PROVE  /\ \A j \in 1..Len(o) : ~At(o \o z, j, Open) /\ KeysAt(o \o z, j) = {}
             /\ \A k \in DOMAIN Display : \A m \in 1..Len(k) : ~Matches(o \o z, 1, k, m)
  <2> DEFINE x == o \o z
  <2>1. x \in Text /\ Len(x) = Len(o) + Len(z) /\ \A n \in 1..Len(o) : x[n] = o[n]
    BY <1>1, JoinProps
  <2> HIDE DEF x
  <2>2. ASSUME NEW j \in 1..Len(o) PROVE ~At(x, j, Open)
    <3>1. j \in Nat \ {0} /\ x[j] # "<"
      BY <1>0, <1>2, <2>1
    <3> QED
      BY <2>1, <3>1, TagAt
  <2>3. ASSUME NEW j \in 1..Len(o), NEW k \in DOMAIN Display, At(x, j, k) PROVE FALSE
    <3>1. k \in Text /\ Len(k) \in Nat /\ Len(k) >= 1 /\ j \in Nat \ {0}
      BY KeyTyped
    <3>2. \A n \in 1..Len(k) : x[j + n - 1] = k[n]
      BY <2>1, <2>3, <3>1, AtChars
    <3>3. \A n \in 1..Len(k) : n + (j - 1) = j + n - 1
      BY <3>1
    <3>4. Fits(k, o, j - 1)
      BY <2>1, <3>2, <3>3 DEF Fits
    <3>5. j - 1 \in (1 - Len(k))..(Len(o) - 1)
      BY <1>0, <3>1
    <3> QED
      BY <1>3, <3>4, <3>5
  <2>4. ASSUME NEW k \in DOMAIN Display, NEW m \in 1..Len(k), Matches(x, 1, k, m) PROVE FALSE
    <3>1. k \in Text /\ Len(k) \in Nat /\ Len(k) >= 1 /\ m \in Nat
      BY KeyTyped
    <3>2. \A n \in m..Len(k) : x[1 + n - m] = k[n]
      BY <2>4 DEF Matches
    <3>3. ASSUME NEW n \in 1..Len(k), n + (1 - m) \in 1..Len(o) PROVE k[n] = o[n + (1 - m)]
      <4>1. n \in m..Len(k) /\ 1 + n - m = n + (1 - m)
        BY <1>0, <3>1, <3>3
      <4> QED
        BY <2>1, <3>2, <3>3, <4>1
    <3>4. Fits(k, o, 1 - m)
      BY <3>3 DEF Fits
    <3>5. 1 - m \in (1 - Len(k))..(Len(o) - 1)
      BY <1>0, <3>1
    <3> QED
      BY <1>3, <3>4, <3>5
  <2>5. \A j \in 1..Len(o) : KeysAt(x, j) = {}
    BY <2>3 DEF KeysAt
  <2> QED
    BY <2>2, <2>4, <2>5 DEF x
<1>6. ASSUME NEW z \in Text, NEW i \in 1..Len(o) PROVE Cascade(From(o, i) \o z) = From(o, i) \o Cascade(z)
  <2>1. i \in 1..(Len(o) + 1) /\ \A j \in i..Len(o) : j \in 1..Len(o)
    BY <1>0
  <2>2. \A j \in i..Len(o) : ~At(o \o z, j, Open) /\ KeysAt(o \o z, j) = {}
    BY <1>5, <2>1
  <2> QED
    BY <1>1, <2>1, <2>2, PlainEnd
<1>7. ASSUME NEW z \in Text PROVE (Good(z) => Good(o \o z)) /\ (Closed(z) => Closed(o \o z))
  BY <1>1, <1>5, GoodJoin
<1> QED
  BY <1>1, <1>2, <1>4, <1>5, <1>6, <1>7 DEF Block

\* The characters of a token.
LEMMA TokenChars ==
  ASSUME NEW b \in Text
  PROVE  /\ Open \o b \o Close \in Text
         /\ Len(Open \o b \o Close) = Len(b) + 3
         /\ (Open \o b \o Close)[1] = "<" /\ (Open \o b \o Close)[2] = "p"
         /\ \A j \in 1..Len(b) : (Open \o b \o Close)[j + 2] = b[j]
         /\ (Open \o b \o Close)[Len(b) + 3] = "/"
<1> DEFINE ob == Open \o b
           s == ob \o Close
<1>a. "<" \in STRING /\ "p" \in STRING /\ "/" \in STRING
  BY VaultAssumption
<1>1. Open \in Text /\ Len(Open) = 2 /\ Open[1] = "<" /\ Open[2] = "p"
  BY <1>a, PairSeq, Zenon DEF Open, Text
<1>2. Close \in Text /\ Len(Close) = 1 /\ Close[1] = "/"
  BY <1>a, PairSeq, Zenon DEF Close, Text
<1>0. Len(b) \in Nat
  BY TextLen
<1>3. /\ ob \in Text /\ Len(ob) = Len(Open) + Len(b) /\ (\A n \in 1..Len(Open) : ob[n] = Open[n])
      /\ \A n \in 1..Len(b) : ob[Len(Open) + n] = b[n]
  BY <1>1, JoinProps
<1> HIDE DEF ob
<1>4. /\ s \in Text /\ Len(s) = Len(ob) + Len(Close) /\ (\A n \in 1..Len(ob) : s[n] = ob[n])
      /\ \A n \in 1..Len(Close) : s[Len(ob) + n] = Close[n]
  BY <1>2, <1>3, JoinProps
<1> HIDE DEF s
<1>5. Len(s) = Len(b) + 3 /\ Len(ob) = Len(b) + 2
  BY <1>0, <1>1, <1>2, <1>3, <1>4
<1>6. s[1] = "<" /\ s[2] = "p"
  <2>1. 1 \in 1..Len(ob) /\ 2 \in 1..Len(ob) /\ 1 \in 1..Len(Open) /\ 2 \in 1..Len(Open)
    BY <1>0, <1>1, <1>5
  <2> QED
    BY <1>1, <1>3, <1>4, <2>1
<1>7. ASSUME NEW j \in 1..Len(b) PROVE s[j + 2] = b[j]
  <2>1. j + 2 \in 1..Len(ob) /\ Len(Open) + j = j + 2
    BY <1>0, <1>1, <1>5
  <2> QED
    BY <1>3, <1>4, <2>1
<1>8. s[Len(b) + 3] = "/"
  <2>1. Len(ob) + 1 = Len(b) + 3 /\ 1 \in 1..Len(Close)
    BY <1>0, <1>2, <1>5
  <2> QED
    BY <1>2, <1>4, <2>1
<1> QED
  BY <1>4, <1>5, <1>6, <1>7, <1>8 DEF s, ob

\* A token that passes through, with another text behind it.
LEMMA TokenAlone ==
  ASSUME Apart, NEW b \in Text, NEW z \in Text,
         \A j \in 1..Len(b) : b[j] # "/" /\ ~At(b, j, Open) /\ KeysAt(b, j) = {}
  PROVE  LET s == Open \o b \o Close
             x == s \o z
         IN  /\ At(x, 1, Open) /\ Find(x, 1, Close) # {} /\ NextClose(x, 1) = Len(s) /\ TokenBody(x, 1) = b
             /\ \A j \in 2..Len(s) : ~At(x, j, Open) /\ KeysAt(x, j) = {}
<1> DEFINE s == Open \o b \o Close
           x == s \o z
<1>0. Len(b) \in Nat /\ Len(z) \in Nat
  BY TextLen
<1>1. /\ s \in Text /\ Len(s) = Len(b) + 3 /\ s[1] = "<" /\ s[2] = "p" /\ s[Len(b) + 3] = "/"
      /\ \A j \in 1..Len(b) : s[j + 2] = b[j]
  BY TokenChars
<1> HIDE DEF s
<1>2. x \in Text /\ Len(x) = Len(s) + Len(z) /\ \A n \in 1..Len(s) : x[n] = s[n]
  BY <1>1, JoinProps
<1> HIDE DEF x
<1>3. x[1] = "<" /\ x[2] = "p" /\ x[Len(s)] = "/" /\ \A j \in 3..(Len(s) - 1) : j - 2 \in 1..Len(b) /\ x[j] = b[j - 2]
  <2>1. 1 \in 1..Len(s) /\ 2 \in 1..Len(s) /\ Len(s) \in 1..Len(s)
    BY <1>0, <1>1
  <2>2. ASSUME NEW j \in 3..(Len(s) - 1) PROVE j - 2 \in 1..Len(b) /\ x[j] = b[j - 2]
    <3>1. j \in 1..Len(s) /\ j - 2 \in 1..Len(b) /\ (j - 2) + 2 = j
      BY <1>0, <1>1
    <3>2. s[(j - 2) + 2] = b[j - 2]
      BY <1>1, <3>1
    <3> QED
      BY <1>2, <3>1, <3>2
  <2> QED
    BY <1>1, <1>2, <2>1, <2>2
<1>4. At(x, 1, Open)
  <2>1. 1 + 1 <= Len(x) /\ 1 + 1 = 2 /\ 1 \in Nat \ {0}
    BY <1>0, <1>1, <1>2
  <2> QED
    BY <1>2, <1>3, <2>1, TagAt
<1>5. \A j \in 1..(Len(s) - 1) : x[j] # "/"
  <2> SUFFICES ASSUME NEW j \in 1..(Len(s) - 1) PROVE x[j] # "/"
    OBVIOUS
  <2>1. j = 1 \/ j = 2 \/ j \in 3..(Len(s) - 1)
    BY <1>0, <1>1
  <2> QED
    BY <1>3, <2>1
<1>6. Find(x, 1, Close) # {} /\ NextClose(x, 1) = Len(s)
  <2>1. 1 \in Nat \ {0} /\ Len(s) \in 1..Len(x) /\ Len(s) \in Nat
    BY <1>0, <1>1, <1>2
  <2>2. /\ \A j : j \in Find(x, 1, Close) <=> j \in 1..Len(x) /\ x[j] = "/"
        /\ Find(x, 1, Close) # {} => /\ NextClose(x, 1) \in Find(x, 1, Close)
                                     /\ \A j \in Find(x, 1, Close) : NextClose(x, 1) <= j
    BY <1>2, <2>1, FindClose
  <2>3. Len(s) \in Find(x, 1, Close)
    BY <1>3, <2>1, <2>2
  <2>4. NextClose(x, 1) \in 1..Len(x) /\ x[NextClose(x, 1)] = "/" /\ NextClose(x, 1) <= Len(s)
    BY <2>2, <2>3
  <2>5. ~(NextClose(x, 1) \in 1..(Len(s) - 1))
    BY <1>5, <2>4
  <2> QED
    BY <1>0, <1>1, <2>1, <2>3, <2>4, <2>5
<1>7. TokenBody(x, 1) = b
  <2>1. 1 \in Nat \ {0}
    OBVIOUS
  <2>2. /\ TokenBody(x, 1) \in Text /\ Len(TokenBody(x, 1)) = NextClose(x, 1) - 1 - 2
        /\ \A n \in 1..(NextClose(x, 1) - 1 - 2) : TokenBody(x, 1)[n] = x[1 + 1 + n]
    BY <1>2, <1>4, <1>6, <2>1, TokenProps
  <2>3. NextClose(x, 1) - 1 - 2 = Len(b) /\ \A n \in 1..Len(b) : 1 + 1 + n \in 3..(Len(s) - 1) /\ (1 + 1 + n) - 2 = n
    BY <1>0, <1>1, <1>6
  <2>4. \A n \in 1..Len(b) : TokenBody(x, 1)[n] = b[n]
    BY <1>3, <2>2, <2>3
  <2> QED
    BY <2>2, <2>3, <2>4, SameText
<1>8. ASSUME NEW j \in 2..Len(s) PROVE ~At(x, j, Open)
  <2>0. j \in Nat \ {0} /\ (j = 2 \/ j \in 3..(Len(s) - 1) \/ j = Len(s))
    BY <1>0, <1>1
  <2>1. SUFFICES ASSUME j + 1 <= Len(x), x[j] = "<", x[j + 1] = "p" PROVE FALSE
    BY <1>2, <2>0, TagAt
  <2>2. j \in 3..(Len(s) - 1)
    BY <1>3, <2>0, <2>1
  <2>3. j + 1 # Len(s)
    BY <1>3, <2>1
  <2>4. j + 1 \in 3..(Len(s) - 1) /\ (j + 1) - 2 = (j - 2) + 1
    BY <1>0, <1>1, <2>2, <2>3
  <2>5. j - 2 \in 1..Len(b) /\ j - 2 \in Nat \ {0} /\ b[j - 2] = "<" /\ b[(j - 2) + 1] = "p" /\ (j - 2) + 1 <= Len(b)
    BY <1>0, <1>3, <2>1, <2>2, <2>4
  <2>6. At(b, j - 2, Open)
    BY <2>5, TagAt
  <2> QED
    BY <2>5, <2>6
<1>9. ASSUME NEW j \in 2..Len(s), NEW k \in DOMAIN Display, At(x, j, k) PROVE FALSE
  <2>0. j \in Nat \ {0} /\ k \in Text /\ Len(k) \in Nat /\ Len(k) >= 1 /\ k # <<>>
    BY <1>0, <1>1, KeyTyped
  <2>1. j + Len(k) - 1 <= Len(x) /\ \A n \in 1..Len(k) : x[j + n - 1] = k[n]
    BY <1>2, <1>9, <2>0, AtChars
  <2>2. \A n \in 1..Len(k) : k[n] # "p" /\ k[n] # "/"
    BY DEF Apart
  <2>3. x[j] = k[1] /\ 1 \in 1..Len(k)
    BY <2>0, <2>1
  <2>4. j # 2
    BY <1>3, <2>2, <2>3
  <2>5. ~(Len(s) - j + 1 \in 1..Len(k))
    <3>1. j + (Len(s) - j + 1) - 1 = Len(s)
      BY <1>0, <1>1
    <3> QED
      BY <1>3, <2>1, <2>2, <3>1
  <2>6. j + Len(k) - 1 < Len(s) /\ j \in 3..(Len(s) - 1) /\ j - 2 \in Nat \ {0} /\ j - 2 \in 1..Len(b)
    BY <1>0, <1>1, <2>0, <2>4, <2>5
  <2>7. ASSUME NEW n \in 1..Len(k) PROVE b[(j - 2) + n - 1] = k[n]
    <3>1. j + n - 1 \in 3..(Len(s) - 1) /\ (j + n - 1) - 2 = (j - 2) + n - 1
      BY <1>0, <1>1, <2>0, <2>6
    <3> QED
      BY <1>3, <2>1, <3>1
  <2>8. (j - 2) + Len(k) - 1 <= Len(b)
    BY <1>0, <1>1, <2>0, <2>6
  <2>9. At(b, j - 2, k)
    BY <2>0, <2>6, <2>7, <2>8, AtChars
  <2> QED
    BY <2>6, <2>9 DEF KeysAt
<1>10. \A j \in 2..Len(s) : ~At(x, j, Open) /\ KeysAt(x, j) = {}
  BY <1>8, <1>9 DEF KeysAt
<1> QED
  BY <1>4, <1>6, <1>7, <1>10 DEF s, x

\* Tokens that pass through are such texts.
LEMMA TokenBlock ==
  ASSUME Apart, NEW b \in Text, TokenOriginal(b) = Open \o b \o Close,
         \A j \in 1..Len(b) : b[j] # "/" /\ ~At(b, j, Open) /\ KeysAt(b, j) = {}
  PROVE  Block(Open \o b \o Close)
<1> DEFINE s == Open \o b \o Close
<1>0. Len(b) \in Nat
  BY TextLen
<1>1. s \in Text /\ Len(s) = Len(b) + 3 /\ s[1] = "<"
  BY TokenChars
<1>a. s # <<>> /\ s[1] # "p" /\ Len(s) \in Nat
  BY <1>0, <1>1
<1>b. TokenOriginal(b) = s
  OBVIOUS
<1>2. ASSUME NEW z \in Text
      PROVE  /\ At(s \o z, 1, Open) /\ Find(s \o z, 1, Close) # {} /\ NextClose(s \o z, 1) = Len(s) /\ TokenBody(s \o z, 1) = b
             /\ \A j \in 2..Len(s) : ~At(s \o z, j, Open) /\ KeysAt(s \o z, j) = {}
             /\ s \o z \in Text /\ Len(s \o z) = Len(s) + Len(z) /\ (s \o z)[1] = "<" /\ Len(z) \in Nat
  <2>1. s \o z \in Text /\ Len(s \o z) = Len(s) + Len(z) /\ \A n \in 1..Len(s) : (s \o z)[n] = s[n]
    BY <1>1, JoinProps
  <2>2. (s \o z)[1] = "<"
    BY <1>0, <1>1, <2>1
  <2>3. Len(z) \in Nat
    BY TextLen
  <2> QED
    BY <2>1, <2>2, <2>3, TokenAlone
<1> HIDE DEF s
<1>3. ASSUME NEW z \in Text, NEW i \in 1..Len(s) PROVE Cascade(From(s, i) \o z) = From(s, i) \o Cascade(z)
  <2>1. CASE i = 1
    <3> DEFINE x == s \o z
    <3>1. At(x, 1, Open) /\ Find(x, 1, Close) # {} /\ NextClose(x, 1) = Len(s) /\ TokenBody(x, 1) = b /\ x \in Text /\ 1 \in 1..Len(x)
      BY <1>0, <1>1, <1>2
    <3>2. From(x, Len(s) + 1) = z
      <4>1. 1 \in 1..(Len(s) + 1)
        BY <1>a
      <4> QED
        BY <1>1, <4>1, JoinPieces
    <3>3. From(x, 1) = x /\ From(s, 1) = s
      BY <1>1, <3>1, FromOne
    <3> HIDE DEF x
    <3>4. Cascade(From(x, 1)) = TokenOriginal(TokenBody(x, 1)) \o Cascade(From(x, NextClose(x, 1) + 1))
      BY <3>1, CascadeAt
    <3>5. Cascade(x) = s \o Cascade(z)
      BY <1>b, <3>1, <3>2, <3>3, <3>4
    <3> QED
      BY <2>1, <3>3, <3>5 DEF x
  <2>2. CASE i # 1
    <3>1. i \in 1..(Len(s) + 1) /\ \A j \in i..Len(s) : j \in 2..Len(s)
      BY <1>a, <2>2
    <3>2. \A j \in i..Len(s) : ~At(s \o z, j, Open) /\ KeysAt(s \o z, j) = {}
      BY <1>2, <3>1
    <3> QED
      BY <1>1, <3>1, <3>2, PlainEnd
  <2> QED
    BY <2>1, <2>2
<1>4. ASSUME NEW z \in Text, NEW k \in DOMAIN Display, NEW m \in 1..Len(k), Matches(s \o z, 1, k, m) PROVE FALSE
  <2>1. Len(k) \in Nat /\ m \in m..Len(k) /\ 1 + m - m = 1
    BY KeyTyped
  <2>2. (s \o z)[1 + m - m] = k[m]
    BY <1>4, <2>1 DEF Matches
  <2>3. k[m] # "<"
    BY DEF Apart
  <2> QED
    BY <1>2, <2>1, <2>2, <2>3
<1>5. ASSUME NEW z \in Text PROVE (Good(z) => Good(s \o z)) /\ (Closed(z) => Closed(s \o z))
  <2> DEFINE x == s \o z
  <2>1. /\ At(x, 1, Open) /\ Find(x, 1, Close) # {} /\ NextClose(x, 1) = Len(s) /\ TokenBody(x, 1) = b
        /\ \A j \in 2..Len(s) : ~At(x, j, Open)
        /\ x \in Text
    BY <1>2
  <2>2. \A o \in 1..Len(s) : o = 1 \/ o \in 2..Len(s)
    BY <1>a
  <2>3. TokenOk(x, 1)
    <3>1. Settled(TokenBody(x, 1))
      BY <2>1 DEF Settled
    <3>2. ASSUME Find(x, 2, Open) # {} PROVE NextClose(x, 1) < NextOpen(x, 2)
      <4>a. 2 \in Nat \ {0}
        OBVIOUS
      <4>1. NextOpen(x, 2) \in 2..(Len(x) - 1) /\ At(x, NextOpen(x, 2), Open)
        BY <2>1, <3>2, <4>a, FindOpen DEF Find
      <4>2. ~(NextOpen(x, 2) \in 2..Len(s))
        BY <2>1, <4>1
      <4> HIDE DEF x
      <4> QED
        BY <1>a, <2>1, <4>1, <4>2
    <3> QED
      BY <2>1, <3>1, <3>2 DEF TokenOk
  <2> HIDE DEF x
  <2>4. /\ \A o \in 1..Len(s) : At(x, o, Open) => TokenOk(x, o)
        /\ \A o \in 1..Len(s) : At(x, o, Open) => Find(x, o, Close) # {}
    BY <2>1, <2>2, <2>3
  <2> QED
    BY <1>1, <2>4, GoodJoin DEF x
<1>6. Block(s)
  BY <1>1, <1>a, <1>3, <1>4, <1>5 DEF Block
<1> QED
  BY <1>6 DEF s

-----------------------------------------------------------------------------
(* A text and what comes behind it *)

\* Nothing becomes nothing.
LEMMA CascadeEmpty == Cascade(<<>>) = <<>>
<1>1. <<>> \in Text /\ Len(<<>>) = 0 /\ 1 \in 1..(Len(<<>>) + 1)
  BY DEF Text
<1>2. Find(<<>>, 1, Open) = {}
  BY <1>1 DEF Find
<1>3. CascadeFrom(<<>>)[1] = IF Ending(<<>>, 1) THEN LastPiece(<<>>, 1)
                             ELSE TokenPiece(<<>>, 1) \o CascadeFrom(<<>>)[TokenJump(<<>>, 1)]
  BY <1>1, CascadeFromDef
<1>4. CascadeFrom(<<>>)[1] = ReplaceSynthetics(From(<<>>, 1))
  BY <1>2, <1>3 DEF Ending, LastPiece
<1>5. From(<<>>, 1) = <<>>
  BY <1>1, FromOne
<1>6. ReplaceSynthetics(<<>>) = <<>>
  BY <1>1, ReplaceHead
<1> QED
  BY <1>4, <1>5, <1>6 DEF Cascade

\* A token of a text is a token of a longer text.
LEMMA TokenJoin ==
  ASSUME NEW t \in Text, NEW w \in Text, NEW i \in Nat \ {0}, At(t, i, Open), Find(t, i, Close) # {}
  PROVE  /\ At(t \o w, i, Open) /\ Find(t \o w, i, Close) # {}
         /\ NextClose(t \o w, i) = NextClose(t, i) /\ TokenBody(t \o w, i) = TokenBody(t, i)
<1> DEFINE x == t \o w
           c == NextClose(t, i)
<1>0. Len(t) \in Nat /\ Len(w) \in Nat
  BY TextLen
<1>1. x \in Text /\ Len(x) = Len(t) + Len(w) /\ \A n \in 1..Len(t) : x[n] = t[n]
  BY JoinProps
<1> HIDE DEF x
<1>2. i + 1 <= Len(t) /\ t[i] = "<" /\ t[i + 1] = "p"
  BY TagAt
<1>3. At(x, i, Open)
  <2>1. i + 1 <= Len(x) /\ i \in 1..Len(t) /\ i + 1 \in 1..Len(t)
    BY <1>0, <1>1, <1>2
  <2> QED
    BY <1>1, <1>2, <2>1, TagAt
<1>4. /\ \A j : j \in Find(t, i, Close) <=> j \in i..Len(t) /\ t[j] = "/"
      /\ c \in Find(t, i, Close) /\ \A j \in Find(t, i, Close) : c <= j
  BY FindClose
<1>5. /\ \A j : j \in Find(x, i, Close) <=> j \in i..Len(x) /\ x[j] = "/"
      /\ Find(x, i, Close) # {} => NextClose(x, i) \in Find(x, i, Close) /\ \A j \in Find(x, i, Close) : NextClose(x, i) <= j
  BY <1>1, FindClose
<1> HIDE DEF c
<1>6. c \in i..Len(t) /\ t[c] = "/"
  BY <1>4
<1>7. c \in Find(x, i, Close)
  <2>1. c \in i..Len(x) /\ c \in 1..Len(t)
    BY <1>0, <1>1, <1>6
  <2> QED
    BY <1>1, <1>5, <1>6, <2>1
<1>8. NextClose(x, i) \in i..Len(x) /\ x[NextClose(x, i)] = "/" /\ NextClose(x, i) <= c
  BY <1>5, <1>7
<1>9. NextClose(x, i) \in i..Len(t) /\ NextClose(x, i) \in 1..Len(t)
  BY <1>0, <1>6, <1>8
<1>10. c <= NextClose(x, i)
  BY <1>1, <1>4, <1>8, <1>9
<1>11. NextClose(x, i) = c
  BY <1>0, <1>6, <1>8, <1>9, <1>10
<1>12. TokenBody(x, i) = TokenBody(t, i)
  <2>1. /\ c \in (i + 2)..Len(t) /\ TokenBody(t, i) \in Text /\ Len(TokenBody(t, i)) = c - i - 2
        /\ \A n \in 1..(c - i - 2) : TokenBody(t, i)[n] = t[i + 1 + n]
    BY TokenProps DEF c
  <2>2. /\ TokenBody(x, i) \in Text /\ Len(TokenBody(x, i)) = c - i - 2
        /\ \A n \in 1..(c - i - 2) : TokenBody(x, i)[n] = x[i + 1 + n]
    BY <1>1, <1>3, <1>7, <1>11, TokenProps
  <2>3. \A n \in 1..(c - i - 2) : i + 1 + n \in 1..Len(t)
    BY <1>0, <2>1
  <2>4. \A n \in 1..(c - i - 2) : TokenBody(x, i)[n] = TokenBody(t, i)[n]
    BY <1>1, <2>1, <2>2, <2>3
  <2> QED
    BY <2>1, <2>2, <2>4, SameText
<1> QED
  BY <1>3, <1>7, <1>11, <1>12 DEF x, c

\* A token of a good text becomes a block.
LEMMA TokenBecomesBlock ==
  ASSUME Apart, NEW x \in Text, NEW i \in Nat \ {0}, At(x, i, Open), Find(x, i, Close) # {}, TokenOk(x, i)
  PROVE  Block(TokenOriginal(TokenBody(x, i)))
<1> DEFINE b == TokenBody(x, i)
           c == NextClose(x, i)
<1>0. Len(x) \in Nat /\ i + 1 \in Nat \ {0}
  BY TextLen
<1>1. /\ c \in (i + 2)..Len(x) /\ b \in Text /\ Len(b) = c - i - 2
      /\ \A n \in 1..(c - i - 2) : b[n] = x[i + 1 + n]
  BY TokenProps
<1>2. Settled(b) /\ (Find(x, i + 1, Open) = {} \/ c < NextOpen(x, i + 1))
  BY DEF TokenOk
<1>3. \A j \in i..Len(x) : x[j] = "/" => c <= j
  BY FindClose
<1> HIDE DEF b, c
<1>4. CASE TokenOriginal(b) # Open \o b \o Close
  <2>1. TokenOriginal(b) \in OriginalValues
    BY <1>4 DEF TokenOriginal, OriginalValues
  <2> QED
    BY <2>1, OriginalBlock DEF b
<1>5. CASE TokenOriginal(b) = Open \o b \o Close
  <2>1. \A j \in 1..Len(b) : KeysAt(b, j) = {}
    BY <1>2, <1>5 DEF Settled
  <2>2. ASSUME NEW j \in 1..Len(b) PROVE b[j] # "/"
    <3>1. i + 1 + j \in i..Len(x) /\ i + 1 + j < c /\ j \in 1..(c - i - 2)
      BY <1>0, <1>1
    <3> QED
      BY <1>1, <1>3, <3>1
  <2>3. ASSUME NEW j \in 1..Len(b), At(b, j, Open) PROVE FALSE
    <3>1. j + 1 <= Len(b) /\ b[j] = "<" /\ b[j + 1] = "p"
      BY <1>1, <2>3, TagAt
    <3>2. /\ j \in 1..(c - i - 2) /\ j + 1 \in 1..(c - i - 2) /\ i + 1 + (j + 1) = (i + 1 + j) + 1
          /\ i + 1 + j \in (i + 1)..(Len(x) - 1) /\ i + 1 + j < c
      BY <1>0, <1>1, <3>1
    <3>3. x[i + 1 + j] = "<" /\ x[(i + 1 + j) + 1] = "p"
      BY <1>1, <3>1, <3>2
    <3>4. i + 1 + j \in Find(x, i + 1, Open) /\ NextOpen(x, i + 1) <= i + 1 + j /\ NextOpen(x, i + 1) \in (i + 1)..(Len(x) - 1)
      BY <1>0, <3>2, <3>3, FindOpen
    <3> QED
      BY <1>0, <1>1, <1>2, <3>2, <3>4
  <2>4. Block(Open \o b \o Close)
    BY <1>1, <1>5, <2>1, <2>2, <2>3, TokenBlock
  <2> QED
    BY <1>5, <2>4 DEF b
<1> QED
  BY <1>4, <1>5

\* No Open has its "<" in t and its "p" in w.
Whole(t, w) == ~(t # <<>> /\ t[Len(t)] = "<" /\ w # <<>> /\ w[1] = "p")

\* No tag opens at a place of t when something comes behind t, unless one does already.
LEMMA NoNewOpen ==
  ASSUME NEW t \in Text, NEW w \in Text, NEW i \in 1..Len(t), ~At(t, i, Open), Whole(t, w)
  PROVE  ~At(t \o w, i, Open)
<1> DEFINE x == t \o w
<1>0. Len(t) \in Nat /\ Len(w) \in Nat /\ i \in Nat \ {0}
  BY TextLen
<1>1. /\ x \in Text /\ Len(x) = Len(t) + Len(w) /\ \A n \in 1..Len(t) : x[n] = t[n]
      /\ \A n \in 1..Len(w) : x[Len(t) + n] = w[n]
  BY JoinProps
<1> HIDE DEF x
<1>2. SUFFICES ASSUME x[i] = "<", x[i + 1] = "p", i + 1 <= Len(x) PROVE FALSE
  BY <1>0, <1>1, TagAt DEF x
<1>3. t[i] = "<"
  BY <1>1, <1>2
<1>4. i # Len(t)
  <2>1. SUFFICES ASSUME i = Len(t) PROVE FALSE
    OBVIOUS
  <2>2. 1 \in 1..Len(w)
    BY <1>0, <1>1, <1>2, <2>1
  <2>3. w[1] = "p" /\ w # <<>> /\ t # <<>>
    BY <1>0, <1>1, <1>2, <2>1, <2>2
  <2> QED
    BY <1>3, <2>1, <2>3 DEF Whole
<1>5. i + 1 \in 1..Len(t) /\ i + 1 <= Len(t)
  BY <1>0, <1>4
<1>6. t[i + 1] = "p"
  BY <1>1, <1>2, <1>5
<1> QED
  BY <1>0, <1>3, <1>5, <1>6, TagAt

\* Where a synthetic value is found, it is the only one, whatever comes behind.
LEMMA KeysJoin ==
  ASSUME Apart, NEW t \in Text, NEW w \in Text, NEW i \in 1..Len(t), KeysAt(t, i) # {}
  PROVE  KeysAt(t \o w, i) = KeysAt(t, i)
<1> DEFINE x == t \o w
<1>0. Len(t) \in Nat /\ Len(w) \in Nat /\ i \in Nat \ {0}
  BY TextLen
<1>1. x \in Text /\ Len(x) = Len(t) + Len(w) /\ \A n \in 1..Len(t) : x[n] = t[n]
  BY JoinProps
<1>2. PICK k \in DOMAIN Display : At(t, i, k)
  BY DEF KeysAt
<1>3. k \in Text /\ Len(k) \in Nat /\ Len(k) >= 1
  BY KeyTyped
<1>4. i + Len(k) - 1 <= Len(t) /\ \A j \in 1..Len(k) : t[i + j - 1] = k[j]
  BY <1>0, <1>2, <1>3, AtChars
<1>5. ASSUME NEW l \in DOMAIN Display, At(x, i, l) PROVE i + Len(l) - 1 <= Len(t)
  <2> HIDE DEF x
  <2>1. l \in Text /\ Len(l) \in Nat /\ Len(l) >= 1
    BY KeyTyped
  <2>2. \A j \in 1..Len(l) : x[i + j - 1] = l[j]
    BY <1>0, <1>1, <1>5, <2>1, AtChars
  <2>3. SUFFICES ASSUME i + Len(l) - 1 > Len(t) PROVE FALSE
    BY <1>0, <2>1
  <2> DEFINE s == SubSeq(l, 1, Len(l) - 1)
  <2>4. s \in Text /\ Len(s) = (Len(l) - 1) - 1 + 1 /\ \A n \in 1..((Len(l) - 1) - 1 + 1) : s[n] = l[1 + n - 1]
    <3>1. 1 \in 1..(Len(l) + 1) /\ Len(l) - 1 \in (1 - 1)..Len(l)
      BY <2>1
    <3> QED
      BY <2>1, <3>1, PieceProps
  <2> HIDE DEF s
  <2>5. Len(k) <= Len(l) - 1 /\ 1 + Len(k) - 1 <= Len(s)
    BY <1>0, <1>3, <1>4, <2>1, <2>3, <2>4
  <2>6. ASSUME NEW j \in 1..Len(k) PROVE s[1 + j - 1] = k[j]
    <3>1. /\ j \in 1..((Len(l) - 1) - 1 + 1) /\ 1 + j - 1 = j /\ j \in 1..Len(l) /\ i + j - 1 \in 1..Len(t)
      BY <1>0, <1>3, <1>4, <2>1, <2>5
    <3> QED
      BY <1>1, <1>4, <2>2, <2>4, <3>1
  <2>7. 1 \in Nat \ {0} /\ 1 \in 1..Len(l)
    BY <2>1
  <2>8. At(s, 1, k)
    BY <1>3, <2>4, <2>5, <2>6, <2>7, AtChars
  <2> QED
    BY <2>7, <2>8 DEF Apart, s
<1>6. ASSUME NEW l \in DOMAIN Display PROVE At(x, i, l) <=> At(t, i, l)
  <2>1. l \in Text
    BY KeyTyped
  <2>2. At(t, i, l) => i + Len(l) - 1 <= Len(t)
    BY DEF At
  <2>3. i + Len(l) - 1 <= Len(t) => (At(x, i, l) <=> At(t, i, l))
    BY <1>0, <2>1, AtJoin
  <2> QED
    BY <1>5, <2>2, <2>3
<1> QED
  BY <1>6 DEF KeysAt

\* The rest of t from i on is the beginning of a longer synthetic value.
Pending(t, i) == \E k \in DOMAIN Display : Len(k) > Len(t) - i + 1 /\ From(t, i) = SubSeq(k, 1, Len(t) - i + 1)

\* Where a synthetic value is found only with what comes behind t, the rest of
\* t is the beginning of it, and the cascade leaves it alone.
LEMMA PendingPlain ==
  ASSUME Apart, NEW t \in Text, NEW w \in Text, NEW i \in 1..Len(t), KeysAt(t, i) = {}, KeysAt(t \o w, i) # {}
  PROVE  Pending(t, i) /\ Cascade(From(t, i)) = From(t, i)
<1> DEFINE x == t \o w
<1>0. Len(t) \in Nat /\ Len(w) \in Nat /\ i \in Nat \ {0} /\ i \in 1..(Len(t) + 1)
  BY TextLen
<1>1. x \in Text /\ Len(x) = Len(t) + Len(w) /\ \A n \in 1..Len(t) : x[n] = t[n]
  BY JoinProps
<1>2. PICK k \in DOMAIN Display : At(x, i, k)
  BY DEF KeysAt
<1>3. k \in Text /\ Len(k) \in Nat /\ Len(k) >= 1
  BY KeyTyped
<1>4. \A j \in 1..Len(k) : x[i + j - 1] = k[j]
  BY <1>0, <1>1, <1>2, <1>3, AtChars
<1>5. i + Len(k) - 1 > Len(t)
  <2> SUFFICES ASSUME i + Len(k) - 1 <= Len(t) PROVE FALSE
    BY <1>0, <1>3
  <2>1. At(t, i, k)
    BY <1>0, <1>2, <1>3, AtJoin
  <2> QED
    BY <2>1 DEF KeysAt
<1> HIDE DEF x
<1> DEFINE m == Len(t) - i + 1
           s == SubSeq(k, 1, Len(k) - 1)
<1>6. m \in 1..(Len(k) - 1) /\ \A j \in i..Len(t) : j - i + 1 \in 1..m /\ i + (j - i + 1) - 1 = j /\ j \in 1..Len(t)
  BY <1>0, <1>3, <1>5
<1>7. \A j \in i..Len(t) : t[j] = k[j - i + 1]
  <2> SUFFICES ASSUME NEW j \in i..Len(t) PROVE t[j] = k[j - i + 1]
    OBVIOUS
  <2>1. j - i + 1 \in 1..Len(k) /\ i + (j - i + 1) - 1 = j /\ j \in 1..Len(t)
    BY <1>0, <1>3, <1>6
  <2> QED
    BY <1>1, <1>4, <2>1
<1>8. From(t, i) = SubSeq(k, 1, m)
  <2>1. From(t, i) \in Text /\ Len(From(t, i)) = m /\ \A n \in 1..m : From(t, i)[n] = t[i + n - 1]
    BY <1>0, FromProps
  <2>2. SubSeq(k, 1, m) \in Text /\ Len(SubSeq(k, 1, m)) = m - 1 + 1 /\ \A n \in 1..(m - 1 + 1) : SubSeq(k, 1, m)[n] = k[1 + n - 1]
    <3>1. 1 \in 1..(Len(k) + 1) /\ m \in (1 - 1)..Len(k)
      BY <1>3, <1>6
    <3> HIDE DEF m
    <3> QED
      BY <1>3, <3>1, PieceProps
  <2>3. m - 1 + 1 = m /\ \A n \in 1..m : i + n - 1 \in i..Len(t) /\ (i + n - 1) - i + 1 = n /\ 1 + n - 1 = n
    BY <1>0, <1>6
  <2> HIDE DEF m
  <2>4. ASSUME NEW n \in 1..m PROVE From(t, i)[n] = SubSeq(k, 1, m)[n]
    <3>1. From(t, i)[n] = t[i + n - 1]
      BY <2>1
    <3>2. t[i + n - 1] = k[(i + n - 1) - i + 1]
      BY <1>7, <2>3
    <3>3. SubSeq(k, 1, m)[n] = k[1 + n - 1]
      BY <2>2, <2>3
    <3>4. (i + n - 1) - i + 1 = n /\ 1 + n - 1 = n
      BY <2>3
    <3> QED
      BY <3>1, <3>2, <3>3, <3>4
  <2> QED
    BY <2>1, <2>2, <2>3, <2>4, SameText
<1>9. Pending(t, i)
  <2>1. Len(k) > m
    BY <1>3, <1>6
  <2> QED
    BY <1>8, <2>1 DEF Pending
<1>10. s \in Text /\ Len(s) = Len(k) - 1 /\ \A n \in 1..(Len(k) - 1) : s[n] = k[n]
  <2>1. 1 \in 1..(Len(k) + 1) /\ Len(k) - 1 \in (1 - 1)..Len(k) /\ (Len(k) - 1) - 1 + 1 = Len(k) - 1
    BY <1>3
  <2>2. \A n \in 1..(Len(k) - 1) : 1 + n - 1 = n
    BY <1>3
  <2> QED
    BY <1>3, <2>1, <2>2, PieceProps
<1> HIDE DEF s
<1>11. ASSUME NEW j \in i..Len(t) PROVE ~At(t, j, Open)
  <2>1. j - i + 1 \in 1..Len(k) /\ j \in Nat \ {0}
    BY <1>0, <1>3, <1>6
  <2>2. t[j] # "<"
    BY <1>7, <2>1 DEF Apart
  <2> QED
    BY <2>1, <2>2, TagAt
<1>12. ASSUME NEW j \in i..Len(t), NEW l \in DOMAIN Display, At(t, j, l) PROVE FALSE
  <2> DEFINE p == j - i + 1
  <2>0. l \in Text /\ Len(l) \in Nat /\ Len(l) >= 1 /\ j \in Nat \ {0} /\ p \in 1..Len(k) /\ p \in Nat \ {0}
    <3>1. l \in Text /\ Len(l) \in Nat /\ Len(l) >= 1
      BY KeyTyped
    <3>2. j \in Nat \ {0} /\ p \in 1..Len(k) /\ p \in Nat \ {0}
      BY <1>0, <1>3, <1>6
    <3> QED
      BY <3>1, <3>2
  <2>1. j + Len(l) - 1 <= Len(t) /\ \A n \in 1..Len(l) : t[j + n - 1] = l[n]
    BY <1>12, <2>0, AtChars
  <2>2. p + Len(l) - 1 <= Len(s)
    BY <1>0, <1>3, <1>5, <1>10, <2>0, <2>1
  <2>3. ASSUME NEW n \in 1..Len(l) PROVE s[p + n - 1] = l[n]
    <3>1. j + n - 1 \in i..Len(t) /\ (j + n - 1) - i + 1 = p + n - 1 /\ p + n - 1 \in 1..(Len(k) - 1)
      BY <1>0, <1>3, <1>10, <2>0, <2>1, <2>2
    <3>2. t[j + n - 1] = k[p + n - 1]
      BY <1>7, <3>1
    <3> QED
      BY <1>10, <2>1, <3>1, <3>2
  <2> HIDE DEF p
  <2>4. At(s, p, l)
    BY <1>10, <2>0, <2>2, <2>3, AtChars
  <2> QED
    BY <2>0, <2>4 DEF Apart, s
<1>13. Cascade(From(t, i)) = From(t, i)
  <2>1. /\ Len(t) + 1 \in i..(Len(t) + 1) /\ (Len(t) + 1) - 1 = Len(t)
    BY <1>0
  <2>2. \A j \in i..((Len(t) + 1) - 1) : ~At(t, j, Open) /\ KeysAt(t, j) = {}
    BY <1>11, <1>12, <2>1 DEF KeysAt
  <2>3. Cascade(From(t, i)) = SubSeq(t, i, (Len(t) + 1) - 1) \o Cascade(From(t, Len(t) + 1))
    BY <1>0, <2>1, <2>2, PlainRun
  <2>4. From(t, Len(t) + 1) = <<>> /\ Cascade(<<>>) = <<>> /\ From(t, i) \in Text
    BY <1>0, FromOne, CascadeEmpty, FromProps
  <2>5. From(t, i) \o <<>> = From(t, i)
    BY <2>4, JoinAssoc
  <2>6. SubSeq(t, i, (Len(t) + 1) - 1) = From(t, i)
    BY <2>1 DEF From
  <2> QED
    BY <2>3, <2>4, <2>5, <2>6, Zenon
<1> QED
  BY <1>9, <1>13

\* What is assumed of a text t with w behind it.
Streamed(t, w) ==
  /\ t \in Text /\ w \in Text
  /\ Closed(t) /\ Whole(t, w)
  /\ Good(t \o w)

\* The cascade at a place of t, alone and with w behind t: it puts in the same
\* block, or the next character, or the rest of t is the beginning of a
\* synthetic value.
BlockStep(t, w, i) ==
  \E j \in (i + 1)..(Len(t) + 1) : \E b : 
    /\ Block(b)
    /\ Cascade(From(t, i)) = b \o Cascade(From(t, j))
    /\ Cascade(From(t \o w, i)) = b \o Cascade(From(t \o w, j))
CharStep(t, w, i) ==
  /\ ~At(t, i, Open) /\ KeysAt(t \o w, i) = {}
  /\ Cascade(From(t, i)) = <<t[i]>> \o Cascade(From(t, i + 1))
  /\ Cascade(From(t \o w, i)) = <<t[i]>> \o Cascade(From(t \o w, i + 1))
WaitStep(t, i) == Pending(t, i) /\ Cascade(From(t, i)) = From(t, i)

\* There is no other case.
LEMMA StepCases ==
  ASSUME Apart, NEW t, NEW w, Streamed(t, w), NEW i \in 1..Len(t)
  PROVE  BlockStep(t, w, i) \/ CharStep(t, w, i) \/ WaitStep(t, i)
<1> DEFINE x == t \o w
<1>a. t \in Text /\ w \in Text /\ Closed(t) /\ Whole(t, w) /\ Good(x)
  BY DEF Streamed
<1>0. Len(t) \in Nat /\ Len(w) \in Nat /\ i \in Nat \ {0} /\ i \in 1..(Len(t) + 1) /\ t # <<>>
  BY <1>a, TextLen
<1>1. x \in Text /\ Len(x) = Len(t) + Len(w) /\ \A n \in 1..Len(t) : x[n] = t[n]
  BY <1>a, JoinProps
<1>2. i \in 1..Len(x)
  BY <1>0, <1>1
<1>3. CASE At(t, i, Open)
  <2> DEFINE b == TokenOriginal(TokenBody(t, i))
             j == NextClose(t, i) + 1
  <2>1. Find(t, i, Close) # {}
    BY <1>3, <1>a DEF Closed, Find
  <2>2. At(x, i, Open) /\ Find(x, i, Close) # {} /\ NextClose(x, i) = NextClose(t, i) /\ TokenBody(x, i) = TokenBody(t, i)
    BY <1>0, <1>3, <1>a, <2>1, TokenJoin
  <2>3. TokenOk(x, i)
    BY <1>2, <1>a, <2>2 DEF Good, Find
  <2>4. Block(b)
    <3>1. Block(TokenOriginal(TokenBody(x, i)))
      BY <1>0, <1>1, <2>2, <2>3, TokenBecomesBlock
    <3> QED
      BY <2>2, <3>1
  <2>5. Cascade(From(t, i)) = b \o Cascade(From(t, j))
    BY <1>3, <1>a, <2>1, CascadeAt
  <2>6. Cascade(From(x, i)) = b \o Cascade(From(x, j))
    <3> HIDE DEF x
    <3>1. Cascade(From(x, i)) = TokenOriginal(TokenBody(x, i)) \o Cascade(From(x, NextClose(x, i) + 1))
      BY <1>1, <1>2, <2>2, CascadeAt
    <3> QED
      BY <2>2, <3>1
  <2>7. j \in (i + 1)..(Len(t) + 1)
    <3>1. NextClose(t, i) \in (i + 2)..Len(t)
      BY <1>0, <1>3, <1>a, <2>1, TokenProps
    <3> QED
      BY <1>0, <3>1
  <2> HIDE DEF b, j
  <2> QED
    BY <2>4, <2>5, <2>6, <2>7 DEF BlockStep
<1>4. CASE ~At(t, i, Open)
  <2>1. ~At(x, i, Open)
    BY <1>0, <1>4, <1>a, NoNewOpen
  <2>2. Cascade(From(t, i)) = Piece(t, i) \o Cascade(From(t, Jump(t, i)))
    BY <1>4, <1>a, CascadeAt
  <2>3. Cascade(From(x, i)) = Piece(x, i) \o Cascade(From(x, Jump(x, i)))
    BY <1>1, <1>2, <2>1, CascadeAt
  <2>4. CASE KeysAt(t, i) # {}
    <3> DEFINE b == Piece(t, i)
               j == Jump(t, i)
    <3>1. KeysAt(x, i) = KeysAt(t, i)
      BY <1>a, <2>4, KeysJoin
    <3>2. Piece(x, i) = b /\ Jump(x, i) = j
      BY <2>4, <3>1 DEF Piece, Jump
    <3>3. Longest(KeysAt(t, i)) \in DOMAIN Display
      BY <1>0, <1>a, <2>4, LongestProps
    <3>4. b \in OriginalValues
      BY <2>4, <3>3 DEF Piece, OriginalValues
    <3>5. Block(b)
      BY <3>4, OriginalBlock
    <3>6. j \in (i + 1)..(Len(t) + 1)
      BY <1>a, PieceJump
    <3>7. Cascade(From(x, i)) = b \o Cascade(From(x, j))
      BY <2>3, <3>2
    <3>8. Cascade(From(t, i)) = b \o Cascade(From(t, j))
      BY <2>2
    <3> HIDE DEF b, j
    <3> QED
      BY <3>5, <3>6, <3>7, <3>8 DEF BlockStep
  <2>5. CASE KeysAt(t, i) = {} /\ KeysAt(x, i) = {}
    <3>1. Piece(t, i) = <<t[i]>> /\ Jump(t, i) = i + 1
      BY <2>5 DEF Piece, Jump
    <3>2. Piece(x, i) = <<t[i]>> /\ Jump(x, i) = i + 1
      BY <1>1, <2>5 DEF Piece, Jump
    <3>3. /\ Cascade(From(t, i)) = <<t[i]>> \o Cascade(From(t, i + 1))
          /\ Cascade(From(x, i)) = <<t[i]>> \o Cascade(From(x, i + 1))
      BY <2>2, <2>3, <3>1, <3>2, Zenon
    <3> QED
      BY <1>4, <2>5, <3>3 DEF CharStep
  <2>6. CASE KeysAt(t, i) = {} /\ KeysAt(x, i) # {}
    BY <1>a, <2>6, PendingPlain DEF WaitStep
  <2> QED
    BY <2>4, <2>5, <2>6
<1> QED
  BY <1>3, <1>4

\* Induction from the end of a text to its beginning.
LEMMA Backward ==
  ASSUME NEW n \in Nat, NEW S, n + 1 \in S, \A i \in 1..n : (\A j \in (i + 1)..(n + 1) : j \in S) => i \in S
  PROVE  1..(n + 1) \subseteq S
<1> DEFINE T == {m \in Nat : m <= n => n + 1 - m \in S}
<1>1. \A m \in Nat : (\A l \in 0..(m - 1) : l \in T) => m \in T
  <2>0. SUFFICES ASSUME NEW m \in Nat, \A l \in 0..(m - 1) : l \in T, m <= n PROVE n + 1 - m \in S
    OBVIOUS
  <2>1. CASE m = 0
    BY <2>1
  <2>2. CASE m # 0
    <3>1. n + 1 - m \in 1..n
      BY <2>0, <2>2
    <3>2. ASSUME NEW j \in ((n + 1 - m) + 1)..(n + 1) PROVE j \in S
      <4>1. n + 1 - j \in 0..(m - 1) /\ n + 1 - j <= n /\ n + 1 - (n + 1 - j) = j
        BY <2>0
      <4>2. n + 1 - j \in T
        BY <2>0, <4>1
      <4> QED
        BY <4>1, <4>2
    <3> QED
      BY <3>1, <3>2
  <2> QED
    BY <2>1, <2>2
<1>2. Nat \subseteq T
  BY <1>1, StrongInductionSet, Zenon
<1>3. ASSUME NEW i \in 1..(n + 1) PROVE i \in S
  <2>1. n + 1 - i \in Nat /\ n + 1 - i <= n /\ n + 1 - (n + 1 - i) = i
    OBVIOUS
  <2>2. n + 1 - i \in T
    BY <1>2, <2>1
  <2> QED
    BY <2>1, <2>2
<1> QED
  BY <1>3

\* A character in front of a text.
LEMMA FrontProps ==
  ASSUME NEW c \in STRING, NEW e \in Text
  PROVE  /\ <<c>> \in Text /\ Len(<<c>>) = 1 /\ <<c>>[1] = c
         /\ <<c>> \o e \in Text /\ Len(<<c>> \o e) = Len(e) + 1 /\ (<<c>> \o e)[1] = c
         /\ \A n \in 1..Len(e) : (<<c>> \o e)[n + 1] = e[n]
         /\ From(<<c>> \o e, 2) = e
<1> DEFINE s == <<c>>
<1>0. Len(e) \in Nat
  BY TextLen
<1>1. s \in Text /\ Len(s) = 1 /\ s[1] = c
  BY PairSeq, Zenon DEF Text
<1> HIDE DEF s
<1> DEFINE d == s \o e
<1>2. d \in Text /\ Len(d) = Len(s) + Len(e) /\ (\A n \in 1..Len(s) : d[n] = s[n]) /\ \A n \in 1..Len(e) : d[Len(s) + n] = e[n]
  BY <1>1, JoinProps
<1> HIDE DEF d
<1>a. 1 \in 1..Len(s) /\ Len(s) + Len(e) = Len(e) + 1
  BY <1>0, <1>1
<1>3. Len(d) = Len(e) + 1 /\ d[1] = c
  BY <1>1, <1>2, <1>a, Zenon
<1>4. ASSUME NEW n \in 1..Len(e) PROVE d[n + 1] = e[n]
  <2>1. Len(s) + n = n + 1
    BY <1>0, <1>1
  <2> QED
    BY <1>2, <2>1
<1>6. From(s \o e, 2) = e
  <2>1. 1 \in 1..(Len(s) + 1) /\ Len(s) + 1 = 2
    BY <1>1
  <2>2. From(s \o e, Len(s) + 1) = e
    BY <1>1, <2>1, JoinPieces
  <2> QED
    BY <2>1, <2>2
<1> QED
  BY <1>1, <1>2, <1>3, <1>4, <1>6, Zenon DEF s, d

\* When a character in front of a text opens a tag.
LEMMA FrontOpen ==
  ASSUME NEW c \in STRING, NEW e \in Text, NEW w \in Text, c = "<" => Whole(<<"<">>, e) /\ (e = <<>> => Whole(<<"<">>, w))
  PROVE  ~At(<<c>> \o (e \o w), 1, Open)
<1> DEFINE z == e \o w
           y == <<c>> \o z
<1>0. Len(e) \in Nat /\ Len(w) \in Nat
  BY TextLen
<1>1. /\ z \in Text /\ Len(z) = Len(e) + Len(w) /\ \A n \in 1..Len(e) : z[n] = e[n]
      /\ \A n \in 1..Len(w) : z[Len(e) + n] = w[n]
  BY JoinProps
<1> HIDE DEF z
<1>2. y \in Text /\ Len(y) = Len(z) + 1 /\ y[1] = c /\ \A n \in 1..Len(z) : y[n + 1] = z[n]
  BY <1>1, FrontProps, Zenon
<1> HIDE DEF y
<1>3. 1 \in Nat \ {0} /\ 1 + 1 = 2
  OBVIOUS
<1>4. ~At(y, 1, Open)
  <2>1. SUFFICES ASSUME y[1] = "<", y[2] = "p", 2 <= Len(y) PROVE FALSE
    BY <1>2, <1>3, TagAt
  <2>2. <<"<">> # <<>> /\ <<"<">>[Len(<<"<">>)] = "<"
    OBVIOUS
  <2>3. (e # <<>> => e[1] # "p") /\ (e = <<>> /\ w # <<>> => w[1] # "p")
    BY <1>2, <2>1, <2>2 DEF Whole
  <2>4. CASE Len(e) # 0
    <3>1. 1 \in 1..Len(e) /\ 1 \in 1..Len(z) /\ e # <<>>
      BY <1>0, <1>1, <2>4
    <3>2. y[2] = e[1]
      BY <1>1, <1>2, <1>3, <3>1
    <3> QED
      BY <2>1, <2>3, <3>1, <3>2
  <2>5. CASE Len(e) = 0
    <3>0. e = <<>>
      BY <2>5 DEF Text
    <3>1. 1 \in 1..Len(w) /\ 1 \in 1..Len(z) /\ w # <<>> /\ Len(e) + 1 = 1
      BY <1>0, <1>1, <1>2, <2>1, <2>5
    <3>2. z[1] = w[1]
      BY <1>1, <3>1
    <3>3. y[2] = w[1]
      BY <1>1, <1>2, <1>3, <3>1, <3>2
    <3> QED
      BY <2>1, <2>3, <3>0, <3>1, <3>3
  <2> QED
    BY <2>4, <2>5
<1> QED
  BY <1>4 DEF y, z

\* What the rest of t from i on becomes is well formed, also with w behind it.
Shape(t, w, i) ==
  LET e == Cascade(From(t, i)) IN
  /\ e \in Text /\ Good(e \o w) /\ Closed(e)
  /\ e = <<>> => i = Len(t) + 1
  /\ e # <<>> /\ e[1] = "p" => i <= Len(t) /\ t[i] = "p"

\* A character that stays does not open a tag with what is behind it.
LEMMA CharOpens ==
  ASSUME NEW t, NEW w, Streamed(t, w), NEW i \in 1..Len(t), CharStep(t, w, i), Shape(t, w, i + 1),
         NEW z \in Text, Whole(t, z)
  PROVE  ~At(<<t[i]>> \o (Cascade(From(t, i + 1)) \o z), 1, Open)
<1> DEFINE e == Cascade(From(t, i + 1))
<1>a. t \in Text
  BY DEF Streamed
<1>0. Len(t) \in Nat /\ i \in Nat \ {0} /\ t[i] \in STRING /\ t # <<>>
  BY <1>a, TextLen
<1>1. e \in Text /\ (e = <<>> => i + 1 = Len(t) + 1) /\ (e # <<>> /\ e[1] = "p" => i + 1 <= Len(t) /\ t[i + 1] = "p")
  BY DEF Shape
<1> HIDE DEF e
<1>2. ASSUME t[i] = "<" PROVE Whole(<<"<">>, e) /\ (e = <<>> => Whole(<<"<">>, z))
  <2>1. ~(i + 1 <= Len(t) /\ t[i + 1] = "p")
    BY <1>0, <1>2, <1>a, TagAt DEF CharStep
  <2>2. e # <<>> => e[1] # "p"
    BY <1>1, <2>1
  <2>3. e = <<>> => i = Len(t)
    BY <1>0, <1>1
  <2>4. e = <<>> /\ z # <<>> => z[1] # "p"
    BY <1>0, <1>2, <2>3 DEF Whole
  <2> QED
    BY <2>2, <2>4 DEF Whole
<1>3. ~At(<<t[i]>> \o (e \o z), 1, Open)
  BY <1>0, <1>1, <1>2, FrontOpen
<1> QED
  BY <1>3 DEF e

\* This holds at every place.
LEMMA ShapeHolds ==
  ASSUME Apart, NEW t, NEW w, Streamed(t, w)
  PROVE  \A i \in 1..(Len(t) + 1) : Shape(t, w, i)
<1> DEFINE E(i) == Cascade(From(t, i))
           x == t \o w
           S == {i \in 1..(Len(t) + 1) : Shape(t, w, i)}
<1>a. t \in Text /\ w \in Text /\ Closed(t) /\ Good(x)
  BY DEF Streamed
<1>0. Len(t) \in Nat /\ Len(t) + 1 \in 1..(Len(t) + 1)
  BY <1>a, TextLen
<1>1. x \in Text /\ Len(x) = Len(t) + Len(w) /\ Len(w) \in Nat
  BY <1>a, JoinProps, TextLen
<1>2. \A i \in 1..(Len(t) + 1) : E(i) \in Text
  BY <1>a, CascadeSuffix
<1>3. \A i \in 1..(Len(t) + 1) : From(x, i) = From(t, i) \o w /\ Good(From(x, i)) /\ Closed(From(t, i))
  <2> SUFFICES ASSUME NEW i \in 1..(Len(t) + 1) PROVE From(x, i) = From(t, i) \o w /\ Good(From(x, i)) /\ Closed(From(t, i))
    OBVIOUS
  <2>1. i \in 1..(Len(x) + 1)
    BY <1>0, <1>1
  <2>2. Good(From(x, i))
    BY <1>1, <1>a, <2>1, GoodFrom
  <2>3. From(x, i) = From(t, i) \o w /\ Closed(From(t, i))
    BY <1>a, FromJoin, GoodFrom
  <2> QED
    BY <2>2, <2>3
<1>4. Len(t) + 1 \in S
  <2>1. From(t, Len(t) + 1) = <<>> /\ E(Len(t) + 1) = <<>>
    BY <1>a, FromOne, CascadeEmpty
  <2>2. Good(<<>> \o w) /\ Closed(<<>>)
    BY <1>0, <1>3, <2>1
  <2>3. Shape(t, w, Len(t) + 1)
    BY <1>0, <1>2, <2>1, <2>2 DEF Shape
  <2> QED
    BY <1>0, <2>3
<1>5. ASSUME NEW i \in 1..Len(t), \A j \in (i + 1)..(Len(t) + 1) : j \in S PROVE i \in S
  <2>0. i \in 1..(Len(t) + 1) /\ i + 1 \in (i + 1)..(Len(t) + 1) /\ i <= Len(t) /\ i # Len(t) + 1 /\ i + 1 \in 1..(Len(t) + 1)
    BY <1>0
  <2>1. CASE BlockStep(t, w, i)
    <3>1. PICK j, b : j \in (i + 1)..(Len(t) + 1) /\ Block(b) /\ E(i) = b \o E(j)
      BY <2>1 DEF BlockStep
    <3>2. Shape(t, w, j) /\ j \in 1..(Len(t) + 1)
      BY <1>5, <3>1
    <3>3. E(j) \in Text /\ Good(E(j) \o w) /\ Closed(E(j))
      BY <3>2 DEF Shape
    <3> HIDE DEF E
    <3>4. b \in Text /\ b # <<>> /\ b[1] # "p" /\ E(j) \o w \in Text /\ (b \o E(j)) \o w = b \o (E(j) \o w)
      <4>1. b \in Text /\ b # <<>> /\ b[1] # "p"
        BY <3>1 DEF Block
      <4>2. E(j) \o w \in Text
        BY <1>a, <3>3, JoinText
      <4>3. (b \o E(j)) \o w = b \o (E(j) \o w)
        BY <1>a, <3>3, <4>1, Assoc, Zenon
      <4> QED
        BY <4>1, <4>2, <4>3
    <3>5. Good(b \o (E(j) \o w)) /\ Closed(b \o E(j))
      BY <3>1, <3>3, <3>4 DEF Block
    <3>6. E(i) # <<>> /\ E(i)[1] # "p"
      <4>1. Len(b) \in Nat /\ Len(b) # 0 /\ 1 \in 1..Len(b)
        BY <3>4 DEF Text
      <4>2. Len(b \o E(j)) = Len(b) + Len(E(j)) /\ (b \o E(j))[1] = b[1] /\ Len(E(j)) \in Nat
        BY <3>3, <3>4, <4>1, JoinProps, TextLen
      <4>3. Len(E(i)) # 0 /\ E(i)[1] # "p"
        BY <3>1, <3>4, <4>1, <4>2
      <4> QED
        BY <4>3
    <3>7. Good(E(i) \o w) /\ Closed(E(i)) /\ E(i) \in Text
      BY <1>2, <2>0, <3>1, <3>4, <3>5
    <3>8. Shape(t, w, i)
      BY <3>6, <3>7 DEF Shape, E
    <3> QED
      BY <2>0, <3>8
  <2>2. CASE CharStep(t, w, i)
    <3> DEFINE c == t[i]
               e == E(i + 1)
    <3>1. Shape(t, w, i + 1)
      BY <1>5, <2>0
    <3>2. e \in Text /\ Good(e \o w) /\ Closed(e)
      BY <3>1 DEF Shape
    <3>3. c \in STRING /\ <<>> \in Text
      BY <1>a, TextLen, JoinAssoc
    <3>4. E(i) = <<c>> \o e
      BY <2>2 DEF CharStep
    <3>a. Whole(t, w) /\ Whole(t, <<>>)
      BY DEF Streamed, Whole
    <3>5. ~At(<<c>> \o (e \o w), 1, Open) /\ ~At(<<c>> \o (e \o <<>>), 1, Open)
      BY <1>a, <2>2, <3>1, <3>3, <3>a, CharOpens
    <3> HIDE DEF E, c, e
    <3>6. /\ <<c>> \in Text /\ Len(<<c>>) = 1
          /\ <<c>> \o e \in Text /\ Len(<<c>> \o e) = Len(e) + 1 /\ (<<c>> \o e)[1] = c
      BY <3>2, <3>3, FrontProps, Zenon
    <3>7. e \o <<>> = e /\ e \o w \in Text
      BY <1>a, <3>2, JoinAssoc, JoinText
    <3>8. (<<c>> \o e) \o w = <<c>> \o (e \o w)
      BY <1>a, <3>2, <3>6, Assoc, Zenon
    <3> DEFINE s == <<c>>
    <3>9. s \in Text /\ Len(s) = 1 /\ ~At(s \o (e \o w), 1, Open) /\ ~At(s \o e, 1, Open)
      BY <3>5, <3>6, <3>7, Zenon
    <3> HIDE DEF s
    <3>10. 1..Len(s) = {1}
      BY <3>9
    <3>11. Good(s \o (e \o w)) /\ Closed(s \o e)
      BY <3>2, <3>7, <3>9, <3>10, GoodJoin
    <3>12. E(i) \in Text /\ Good(E(i) \o w) /\ Closed(E(i))
      BY <3>4, <3>6, <3>8, <3>11, Zenon DEF s
    <3>13. E(i)[1] = c
      BY <3>4, <3>6, Zenon
    <3>14. E(i) # <<>>
      <4>1. Len(E(i)) = Len(e) + 1 /\ Len(e) \in Nat
        BY <3>2, <3>4, <3>6, TextLen, Zenon
      <4>2. Len(E(i)) # 0
        BY <4>1
      <4> QED
        BY <4>2
    <3>15. Shape(t, w, i)
      BY <2>0, <3>12, <3>13, <3>14 DEF Shape, E, c
    <3> QED
      BY <2>0, <3>15
  <2>3. CASE WaitStep(t, i)
    <3>1. E(i) = From(t, i)
      BY <2>3 DEF WaitStep
    <3>2. From(t, i) \in Text /\ Len(From(t, i)) = Len(t) - i + 1 /\ \A n \in 1..(Len(t) - i + 1) : From(t, i)[n] = t[i + n - 1]
      BY <1>a, <2>0, FromProps
    <3>3. Good(E(i) \o w) /\ Closed(E(i)) /\ E(i) \in Text
      BY <1>2, <1>3, <2>0, <3>1
    <3>4. E(i) # <<>> /\ E(i)[1] = t[i]
      <4>1. Len(From(t, i)) # 0 /\ 1 \in 1..(Len(t) - i + 1) /\ i + 1 - 1 = i
        BY <1>0, <2>0, <3>2
      <4> QED
        BY <3>1, <3>2, <4>1
    <3> HIDE DEF E
    <3>5. Shape(t, w, i)
      BY <2>0, <3>3, <3>4 DEF Shape, E
    <3> QED
      BY <2>0, <3>5
  <2> QED
    BY <2>1, <2>2, <2>3, StepCases
<1>6. 1..(Len(t) + 1) \subseteq S
  <2> HIDE DEF S
  <2> QED
    BY <1>0, <1>4, <1>5, Backward
<1> QED
  BY <1>6

\* What is matched in the rest of a text is matched in the text.
LEMMA MatchFrom ==
  ASSUME NEW x \in Text, NEW i \in 1..(Len(x) + 1), NEW k \in DOMAIN Display, NEW m \in 1..(Len(k) + 1),
         Matches(From(x, i), 1, k, m)
  PROVE  Matches(x, i, k, m)
<1>0. Len(x) \in Nat /\ Len(k) \in Nat
  BY TextLen, KeyTyped
<1>1. Len(From(x, i)) = Len(x) - i + 1 /\ \A j \in 1..(Len(x) - i + 1) : From(x, i)[j] = x[i + j - 1]
  BY FromProps
<1>2. 1 + Len(k) - m <= Len(From(x, i)) /\ \A j \in m..Len(k) : From(x, i)[1 + j - m] = k[j]
  BY DEF Matches
<1>3. i + Len(k) - m <= Len(x)
  BY <1>0, <1>1, <1>2
<1>4. ASSUME NEW j \in m..Len(k) PROVE x[i + j - m] = k[j]
  <2>a. i \in Int /\ m \in Int /\ j \in Int /\ m <= j /\ j <= Len(k)
    BY <1>0
  <2>b. 1 + Len(k) - m <= Len(x) - i + 1
    BY <1>1, <1>2
  <2>1. 1 + j - m \in 1..(Len(x) - i + 1) /\ i + (1 + j - m) - 1 = i + j - m
    BY <1>0, <2>a, <2>b
  <2> QED
    BY <1>1, <1>2, <2>1
<1> QED
  BY <1>3, <1>4 DEF Matches

\* The end of a synthetic value that is found in what the rest of t from i on
\* becomes is found there in t.
KeyStays(t, w, i) ==
  \A k \in DOMAIN Display : \A m \in 1..(Len(k) + 1) :
    Matches(Cascade(From(t, i)) \o w, 1, k, m) => Matches(t \o w, i, k, m)

\* This holds at every place.
LEMMA KeyStaysHolds ==
  ASSUME Apart, NEW t, NEW w, Streamed(t, w)
  PROVE  \A i \in 1..(Len(t) + 1) : KeyStays(t, w, i)
<1> DEFINE E(i) == Cascade(From(t, i))
           x == t \o w
           S == {i \in 1..(Len(t) + 1) : KeyStays(t, w, i)}
<1>a. t \in Text /\ w \in Text
  BY DEF Streamed
<1>0. Len(t) \in Nat /\ Len(t) + 1 \in 1..(Len(t) + 1)
  BY <1>a, TextLen
<1>1. x \in Text /\ Len(x) = Len(t) + Len(w) /\ Len(w) \in Nat /\ \A n \in 1..Len(t) : x[n] = t[n]
  BY <1>a, JoinProps, TextLen
<1>2. \A i \in 1..(Len(t) + 1) : E(i) \in Text
  BY <1>a, CascadeSuffix
<1>3. ASSUME NEW i \in 1..(Len(t) + 1), E(i) = From(t, i) PROVE i \in S
  <2>1. i \in 1..(Len(x) + 1)
    BY <1>0, <1>1
  <2>2. E(i) \o w = From(x, i)
    BY <1>3, <1>a, FromJoin
  <2>3. KeyStays(t, w, i)
    BY <1>1, <2>1, <2>2, MatchFrom DEF KeyStays
  <2> QED
    BY <2>3
<1>4. Len(t) + 1 \in S
  <2>1. E(Len(t) + 1) = From(t, Len(t) + 1)
    BY <1>a, FromOne, CascadeEmpty
  <2> QED
    BY <1>0, <1>3, <2>1
<1>5. ASSUME NEW i \in 1..Len(t), \A j \in (i + 1)..(Len(t) + 1) : j \in S PROVE i \in S
  <2>0. i \in 1..(Len(t) + 1) /\ i + 1 \in (i + 1)..(Len(t) + 1) /\ i + 1 \in 1..(Len(t) + 1)
    BY <1>0
  <2>1. CASE BlockStep(t, w, i)
    <3>1. PICK j, b : j \in (i + 1)..(Len(t) + 1) /\ Block(b) /\ E(i) = b \o E(j)
      BY <2>1 DEF BlockStep
    <3>2. E(j) \in Text /\ b \in Text
      <4>1. j \in 1..(Len(t) + 1)
        BY <1>0, <3>1
      <4> QED
        BY <1>2, <3>1, <4>1 DEF Block
    <3> HIDE DEF E
    <3>3. E(j) \o w \in Text /\ (b \o E(j)) \o w = b \o (E(j) \o w)
      <4>1. E(j) \o w \in Text
        BY <1>a, <3>2, JoinText
      <4>2. (b \o E(j)) \o w = b \o (E(j) \o w)
        BY <1>a, <3>2, Assoc, Zenon
      <4> QED
        BY <4>1, <4>2
    <3>4. ASSUME NEW k \in DOMAIN Display, NEW m \in 1..(Len(k) + 1), Matches(E(i) \o w, 1, k, m) PROVE Matches(x, i, k, m)
      <4>0. Len(k) \in Nat
        BY KeyTyped
      <4>1. Matches(b \o (E(j) \o w), 1, k, m)
        BY <3>1, <3>3, <3>4
      <4>2. m \notin 1..Len(k)
        BY <3>1, <3>3, <4>1 DEF Block
      <4>3. m = Len(k) + 1
        BY <4>0, <4>2
      <4>4. i + Len(k) - m <= Len(x) /\ m..Len(k) = {}
        BY <1>0, <1>1, <4>0, <4>3
      <4> QED
        BY <4>4 DEF Matches
    <3>5. KeyStays(t, w, i)
      BY <3>4 DEF KeyStays, E
    <3> QED
      BY <2>0, <3>5
  <2>2. CASE CharStep(t, w, i)
    <3> DEFINE c == t[i]
               z == E(i + 1) \o w
               y == <<c>> \o z
    <3>1. KeyStays(t, w, i + 1)
      BY <1>5, <2>0
    <3>2. E(i + 1) \in Text /\ c \in STRING
      BY <1>2, <1>a, <2>0, TextLen
    <3>3. E(i) = <<c>> \o E(i + 1)
      BY <2>2 DEF CharStep
    <3> HIDE DEF E, c
    <3>4. z \in Text
      BY <1>a, <3>2, JoinText
    <3>5. E(i) \o w = y
      <4>1. <<c>> \in Text
        BY <3>2, FrontProps, Zenon
      <4>2. (<<c>> \o E(i + 1)) \o w = <<c>> \o (E(i + 1) \o w)
        BY <1>a, <3>2, <4>1, Assoc, Zenon
      <4> QED
        BY <3>3, <4>2, Zenon
    <3> HIDE DEF z
    <3>6. y \in Text /\ Len(y) = Len(z) + 1 /\ y[1] = c /\ \A n \in 1..Len(z) : y[n + 1] = z[n]
      BY <3>2, <3>4, FrontProps, Zenon
    <3> HIDE DEF y
    <3>7. ASSUME NEW k \in DOMAIN Display, NEW m \in 1..(Len(k) + 1), Matches(y, 1, k, m) PROVE Matches(x, i, k, m)
      <4>0. Len(k) \in Nat /\ Len(z) \in Nat /\ m \in Nat
        BY <3>4, KeyTyped, TextLen
      <4>1. 1 + Len(k) - m <= Len(y) /\ \A j \in m..Len(k) : y[1 + j - m] = k[j]
        BY <3>7 DEF Matches
      <4>2. CASE m = Len(k) + 1
        <5>1. i + Len(k) - m <= Len(x) /\ m..Len(k) = {}
          BY <1>0, <1>1, <4>0, <4>2
        <5> QED
          BY <5>1 DEF Matches
      <4>3. CASE m # Len(k) + 1
        <5>1. m + 1 \in 1..(Len(k) + 1) /\ m \in m..Len(k) /\ 1 + m - m = 1
          BY <4>0, <4>3
        <5>2. k[m] = c
          BY <3>6, <4>1, <5>1
        <5>3. ASSUME NEW j \in (m + 1)..Len(k) PROVE z[1 + j - (m + 1)] = k[j]
          <6>1. j \in m..Len(k) /\ 1 + j - (m + 1) \in 1..Len(z) /\ (1 + j - (m + 1)) + 1 = 1 + j - m
            BY <3>6, <4>0, <4>1
          <6> QED
            BY <3>6, <4>1, <6>1
        <5>4. 1 + Len(k) - (m + 1) <= Len(z)
          BY <3>6, <4>0, <4>1
        <5>5. Matches(z, 1, k, m + 1)
          BY <5>3, <5>4 DEF Matches
        <5>6. Matches(x, i + 1, k, m + 1)
          BY <3>1, <5>1, <5>5 DEF KeyStays, E, z
        <5>7. (i + 1) + Len(k) - (m + 1) <= Len(x) /\ \A j \in (m + 1)..Len(k) : x[(i + 1) + j - (m + 1)] = k[j]
          BY <5>6 DEF Matches
        <5>8. i + Len(k) - m <= Len(x)
          BY <1>0, <1>1, <4>0, <5>7
        <5>9. ASSUME NEW j \in m..Len(k) PROVE x[i + j - m] = k[j]
          <6>1. CASE j = m
            <7>1. i + j - m = i /\ x[i] = c
              BY <1>1, <4>0, <6>1 DEF c
            <7> QED
              BY <5>2, <6>1, <7>1
          <6>2. CASE j # m
            <7>1. j \in (m + 1)..Len(k) /\ (i + 1) + j - (m + 1) = i + j - m
              BY <1>0, <4>0, <6>2
            <7> QED
              BY <5>7, <7>1
          <6> QED
            BY <6>1, <6>2
        <5> QED
          BY <5>8, <5>9 DEF Matches
      <4> QED
        BY <4>2, <4>3
    <3>8. KeyStays(t, w, i)
      BY <3>5, <3>7 DEF KeyStays, E
    <3> QED
      BY <2>0, <3>8
  <2>3. CASE WaitStep(t, i)
    BY <1>3, <2>0, <2>3 DEF WaitStep
  <2> QED
    BY <2>1, <2>2, <2>3, StepCases
<1>6. 1..(Len(t) + 1) \subseteq S
  <2> HIDE DEF S
  <2> QED
    BY <1>0, <1>4, <1>5, Backward
<1> QED
  BY <1>6

-----------------------------------------------------------------------------
(* A second pass *)

\* Two texts in a row that are cut in the second one.
LEMMA CutSecond ==
  ASSUME NEW b \in Text, NEW d \in Text, NEW n \in 0..Len(d)
  PROVE  /\ SubSeq(b \o d, 1, Len(b) + n) = b \o SubSeq(d, 1, n)
         /\ From(b \o d, Len(b) + n + 1) = From(d, n + 1)
<1> DEFINE e == b \o d
<1>0. Len(b) \in Nat /\ Len(d) \in Nat /\ n \in Nat
  BY TextLen
<1>1. e \in Text /\ Len(e) = Len(b) + Len(d)
  BY JoinProps
<1>2. From(e, Len(b) + 1) = d /\ SubSeq(e, 1, Len(b)) = b
  <2>1. 1 \in 1..(Len(b) + 1)
    BY <1>0
  <2> QED
    BY <2>1, JoinPieces, FromOne
<1> HIDE DEF e
<1>3. From(e, Len(b) + n + 1) = From(d, n + 1)
  <2>1. Len(b) + 1 \in 1..(Len(e) + 1) /\ n + 1 \in 1..(Len(e) - (Len(b) + 1) + 2) /\ (Len(b) + 1) + (n + 1) - 1 = Len(b) + n + 1
    BY <1>0, <1>1
  <2>2. From(From(e, Len(b) + 1), n + 1) = From(e, (Len(b) + 1) + (n + 1) - 1)
    BY <1>1, <2>1, FromFrom
  <2> QED
    BY <1>2, <2>1, <2>2
<1>4. SubSeq(e, Len(b) + 1, Len(b) + n) = SubSeq(d, 1, n)
  <2>1. /\ Len(b) + 1 \in 1..(Len(e) + 1) /\ 1 \in Nat \ {0} /\ n \in (1 - 1)..(Len(e) - (Len(b) + 1) + 1)
        /\ 1 + (Len(b) + 1) - 1 = Len(b) + 1 /\ n + (Len(b) + 1) - 1 = Len(b) + n
    BY <1>0, <1>1
  <2>2. SubSeq(From(e, Len(b) + 1), 1, n) = SubSeq(e, 1 + (Len(b) + 1) - 1, n + (Len(b) + 1) - 1)
    BY <1>1, <2>1, PieceFrom
  <2> QED
    BY <1>2, <2>1, <2>2
<1>5. SubSeq(e, 1, Len(b)) \o SubSeq(e, Len(b) + 1, Len(b) + n) = SubSeq(e, 1, Len(b) + n)
  <2>1. 1 \in 1..(Len(e) + 1) /\ Len(b) \in (1 - 1)..Len(e) /\ Len(b) + n \in Len(b)..Len(e)
    BY <1>0, <1>1
  <2> QED
    BY <1>1, <2>1, PieceJoin
<1> QED
  BY <1>2, <1>3, <1>4, <1>5 DEF e

\* Two texts in a row that are cut in the first one.
LEMMA CutFirst ==
  ASSUME NEW b \in Text, NEW d \in Text, NEW n \in 0..Len(b)
  PROVE  /\ SubSeq(b \o d, 1, n) = SubSeq(b, 1, n)
         /\ From(b \o d, n + 1) = From(b, n + 1) \o d
         /\ SubSeq(b, 1, n) \o From(b, n + 1) = b
         /\ SubSeq(b, 1, n) \in Text /\ From(b, n + 1) \in Text
<1> DEFINE e == b \o d
<1>0. Len(b) \in Nat /\ Len(d) \in Nat /\ n \in Nat
  BY TextLen
<1>1. e \in Text /\ Len(e) = Len(b) + Len(d) /\ \A j \in 1..Len(b) : e[j] = b[j]
  BY JoinProps
<1>2. n + 1 \in 1..(Len(b) + 1) /\ 1 \in 1..(Len(b) + 1) /\ n \in (1 - 1)..Len(b) /\ Len(b) \in n..Len(b) /\ n - 1 + 1 = n
      /\ 1 \in 1..(Len(e) + 1) /\ n \in (1 - 1)..Len(e)
  BY <1>0, <1>1
<1>3. From(e, n + 1) = From(b, n + 1) \o d
  BY <1>2, JoinPieces
<1>4. SubSeq(b, 1, n) \in Text /\ Len(SubSeq(b, 1, n)) = n /\ \A j \in 1..n : SubSeq(b, 1, n)[j] = b[1 + j - 1]
  BY <1>2, PieceProps
<1> HIDE DEF e
<1>5. SubSeq(e, 1, n) \in Text /\ Len(SubSeq(e, 1, n)) = n /\ \A j \in 1..n : SubSeq(e, 1, n)[j] = e[1 + j - 1]
  BY <1>1, <1>2, PieceProps
<1>6. \A j \in 1..n : 1 + j - 1 \in 1..Len(b)
  BY <1>0
<1>7. \A j \in 1..n : SubSeq(e, 1, n)[j] = SubSeq(b, 1, n)[j]
  BY <1>1, <1>4, <1>5, <1>6
<1>8. SubSeq(e, 1, n) = SubSeq(b, 1, n)
  BY <1>4, <1>5, <1>7, SameText
<1>9. SubSeq(b, 1, n) \o SubSeq(b, n + 1, Len(b)) = SubSeq(b, 1, Len(b))
  BY <1>2, PieceJoin
<1>10. SubSeq(b, 1, Len(b)) = b
  BY FromOne DEF From
<1>11. From(b, n + 1) \in Text
  BY <1>2, FromProps
<1> QED
  BY <1>3, <1>4, <1>8, <1>9, <1>10, <1>11 DEF e, From

\* Nothing that has gone out is the beginning of a synthetic value.
Settles(e, n) == \A p \in 1..n : ~Pending(e, p)

\* This carries over to the second of two texts.
LEMMA SettlesSecond ==
  ASSUME NEW b \in Text, NEW d \in Text, NEW n \in 0..Len(d), Settles(b \o d, Len(b) + n)
  PROVE  Settles(d, n)
<1> DEFINE e == b \o d
<1>0. Len(b) \in Nat /\ Len(d) \in Nat /\ n \in Nat
  BY TextLen
<1>1. e \in Text /\ Len(e) = Len(b) + Len(d)
  BY JoinProps
<1>2. SUFFICES ASSUME NEW p \in 1..n, Pending(d, p) PROVE FALSE
  BY DEF Settles
<1>3. p - 1 \in 0..Len(d) /\ (p - 1) + 1 = p /\ Len(b) + (p - 1) + 1 = Len(b) + p
  BY <1>0
<1>4. From(e, Len(b) + p) = From(d, p)
  BY <1>3, CutSecond
<1>a. Settles(e, Len(b) + n)
  OBVIOUS
<1> HIDE DEF e
<1>5. Len(e) - (Len(b) + p) + 1 = Len(d) - p + 1
  BY <1>0, <1>1
<1>6. Pending(e, Len(b) + p)
  BY <1>2, <1>4, <1>5 DEF Pending
<1>7. Len(b) + p \in 1..(Len(b) + n)
  BY <1>0
<1> QED
  BY <1>6, <1>7, <1>a DEF Settles

\* The first n characters of d, and what a pass over the others with w behind them gives.
CutAt(d, n, w) == SubSeq(d, 1, n) \o Cascade(From(d, n + 1) \o w)

\* The text d may be cut where nothing before the cut is pending: this gives y.
Cuts(d, w, y) == \A m \in 0..Len(d) : Settles(d, m) => y = CutAt(d, m, w)

\* A cut behind the first of two texts, when the second one may be cut.
LEMMA RescanSecond ==
  ASSUME NEW b \in Text, NEW d \in Text, NEW w \in Text, NEW y, NEW m \in 0..Len(d),
         Cuts(d, w, y), Settles(b \o d, Len(b) + m)
  PROVE  b \o y = CutAt(b \o d, Len(b) + m, w)
<1>0. Len(b) \in Nat /\ Len(d) \in Nat /\ Len(b \o d) = Len(b) + Len(d)
  BY TextLen, JoinProps
<1>1. m \in 0..Len(d) /\ m + 1 \in 1..(Len(d) + 1)
  BY <1>0
<1>a. 1 \in 1..(Len(d) + 1) /\ m \in (1 - 1)..Len(d)
  BY <1>0, <1>1
<1>2. SubSeq(b \o d, 1, Len(b) + m) = b \o SubSeq(d, 1, m) /\ From(b \o d, Len(b) + m + 1) = From(d, m + 1)
  BY <1>1, CutSecond
<1>3. Settles(d, m)
  BY <1>1, SettlesSecond
<1> DEFINE f == Cascade(From(d, m + 1) \o w)
           g == SubSeq(d, 1, m)
<1>4. y = g \o f
  BY <1>1, <1>3 DEF Cuts, CutAt
<1>5. f \in Text
  <2>1. From(d, m + 1) \in Text
    BY <1>1, FromProps
  <2>2. From(d, m + 1) \o w \in Text
    BY <2>1, JoinText
  <2> QED
    BY <2>2, FromOne
<1>6. g \in Text
  BY <1>a, PieceProps
<1>7. SubSeq(b \o d, 1, Len(b) + m) = b \o g /\ Cascade(From(b \o d, Len(b) + m + 1) \o w) = f
  BY <1>1, <1>2
<1> HIDE DEF f, g
<1>8. (b \o g) \o f = b \o (g \o f)
  BY <1>5, <1>6, Assoc, Zenon
<1> QED
  BY <1>4, <1>7, <1>8, Zenon DEF CutAt

\* A cut in the first of two texts, when the cascade passes over the end of it.
LEMMA RescanFirst ==
  ASSUME NEW b \in Text, NEW d \in Text, NEW w \in Text, NEW n \in 0..Len(b), n < Len(b),
         Cascade(From(b, n + 1) \o (d \o w)) = From(b, n + 1) \o Cascade(d \o w)
  PROVE  b \o Cascade(d \o w) = CutAt(b \o d, n, w)
<1> DEFINE g == SubSeq(b, 1, n)
           h == From(b, n + 1)
           z == d \o w
           f == Cascade(z)
<1>2. z \in Text
  BY JoinText
<1>3. f \in Text
  BY <1>2, FromOne
<1>4. SubSeq(b \o d, 1, n) = g /\ From(b \o d, n + 1) = h \o d /\ g \o h = b /\ g \in Text /\ h \in Text
  BY CutFirst
<1>5. Cascade(h \o z) = h \o f
  OBVIOUS
<1> HIDE DEF g, h, z, f
<1>6. (h \o d) \o w = h \o z
  <2>1. (h \o d) \o w = h \o (d \o w)
    BY <1>4, Assoc, Zenon
  <2> QED
    BY <2>1, Zenon DEF z
<1>7. (g \o h) \o f = g \o (h \o f)
  <2>1. g \in Text /\ h \in Text
    BY <1>4
  <2> QED
    BY <1>3, <2>1, Assoc, Zenon
<1>8. b \o f = SubSeq(b \o d, 1, n) \o Cascade(From(b \o d, n + 1) \o w)
  BY <1>4, <1>5, <1>6, <1>7, Zenon
<1> QED
  BY <1>8 DEF f, z, CutAt

\* No cut at all.
LEMMA RescanWhole ==
  ASSUME NEW d \in Text, NEW w \in Text, NEW y, Cuts(d, w, y)
  PROVE  y = Cascade(d \o w)
<1>0. Len(d) \in Nat /\ 0 \in 0..Len(d) /\ 1 \in 1..(Len(d) + 1) /\ 0 + 1 = 1 /\ 1 - 1 = 0
  BY TextLen
<1>1. Settles(d, 0)
  BY DEF Settles
<1>2. y = SubSeq(d, 1, 0) \o Cascade(From(d, 1) \o w)
  BY <1>0, <1>1 DEF Cuts, CutAt
<1>3. SubSeq(d, 1, 0) = <<>> /\ From(d, 1) = d
  BY <1>0, NoPiece, FromOne
<1>4. Cascade(d \o w) \in Text
  BY JoinText, FromOne
<1>5. <<>> \o Cascade(d \o w) = Cascade(d \o w)
  BY <1>4, JoinAssoc
<1> QED
  BY <1>2, <1>3, <1>5, Zenon

\* Two texts in a row may be cut when the second one may and the cascade passes
\* over the end of the first one.
LEMMA CutsJoin ==
  ASSUME NEW b \in Text, NEW d \in Text, NEW w \in Text, NEW y, Cuts(d, w, y),
         \A l \in 1..Len(b) : Cascade(From(b, l) \o (d \o w)) = From(b, l) \o Cascade(d \o w)
  PROVE  Cuts(b \o d, w, b \o y)
<1> SUFFICES ASSUME NEW n \in 0..Len(b \o d), Settles(b \o d, n)
             PROVE  b \o y = CutAt(b \o d, n, w)
  BY DEF Cuts
<1>0. Len(b) \in Nat /\ n \in Nat
  BY TextLen, JoinProps
<1>1. y = Cascade(d \o w)
  BY RescanWhole
<1>2. CASE n >= Len(b)
  <2> DEFINE m == n - Len(b)
  <2>1. m \in 0..Len(d) /\ Len(b) + m = n
    BY <1>0, <1>2, TextLen, JoinProps
  <2> HIDE DEF m
  <2>2. Settles(b \o d, Len(b) + m)
    BY <2>1
  <2>3. b \o y = CutAt(b \o d, Len(b) + m, w)
    BY <2>1, <2>2, RescanSecond
  <2> QED
    BY <2>1, <2>3, Zenon
<1>3. CASE n < Len(b)
  <2>1. n \in 0..Len(b) /\ n + 1 \in 1..Len(b)
    BY <1>0, <1>3
  <2>2. Cascade(From(b, n + 1) \o (d \o w)) = From(b, n + 1) \o Cascade(d \o w)
    BY <2>1
  <2> QED
    BY <1>1, <1>3, <2>1, <2>2, RescanFirst
<1> QED
  BY <1>0, <1>2, <1>3

\* A cut in front of a character that stays.
LEMMA RescanChar ==
  ASSUME Apart, NEW t, NEW w, Streamed(t, w), NEW i \in 1..Len(t), CharStep(t, w, i)
  PROVE  Cascade(<<t[i]>> \o (Cascade(From(t, i + 1)) \o w)) = <<t[i]>> \o Cascade(Cascade(From(t, i + 1)) \o w)
<1> DEFINE c == t[i]
           d == Cascade(From(t, i + 1))
           z == d \o w
           y == <<c>> \o z
<1>a. t \in Text /\ w \in Text /\ Whole(t, w)
  BY DEF Streamed
<1>0. Len(t) \in Nat /\ i \in Nat \ {0} /\ i + 1 \in 1..(Len(t) + 1) /\ i \in 1..(Len(t) + 1) /\ c \in STRING /\ 1 \in Nat \ {0}
  BY <1>a, TextLen
<1>1. d \in Text
  BY <1>0, <1>a, CascadeSuffix
<1>2. ~At(y, 1, Open)
  BY <1>0, <1>a, CharOpens, ShapeHolds
<1>3. \A k \in DOMAIN Display : Matches(z, 1, k, 2) => Matches(t \o w, i + 1, k, 2)
  <2>1. KeyStays(t, w, i + 1)
    BY <1>0, KeyStaysHolds
  <2>2. \A k \in DOMAIN Display : 2 \in 1..(Len(k) + 1)
    BY KeyTyped
  <2> QED
    BY <2>1, <2>2 DEF KeyStays
<1>x. t \o w \in Text /\ Len(t \o w) = Len(t) + Len(w) /\ Len(w) \in Nat /\ (t \o w)[i] = c
  BY <1>a, JoinProps, TextLen
<1>b. KeysAt(t \o w, i) = {}
  BY DEF CharStep
<1> HIDE DEF c, d
<1>4. z \in Text
  BY <1>1, <1>a, JoinText
<1> HIDE DEF z
<1>5. y \in Text /\ Len(y) = Len(z) + 1 /\ y[1] = c /\ (\A n \in 1..Len(z) : y[n + 1] = z[n]) /\ From(y, 2) = z
  BY <1>0, <1>4, FrontProps, Zenon
<1> HIDE DEF y
<1>6. Len(z) \in Nat /\ 1 \in 1..Len(y)
  BY <1>4, <1>5, TextLen
<1>7. ASSUME NEW k \in DOMAIN Display, At(y, 1, k) PROVE FALSE
  <2>0. Len(k) \in Nat /\ Len(k) >= 1
    BY KeyTyped
  <2>1. 1 + Len(k) - 1 <= Len(y) /\ \A j \in 1..Len(k) : y[1 + j - 1] = k[j]
    BY <1>0, <1>5, <1>7, AtMatches DEF Matches
  <2>2. k[1] = c
    BY <1>5, <2>0, <2>1
  <2>3. 1 + Len(k) - 2 <= Len(z)
    BY <1>5, <1>6, <2>0, <2>1
  <2>4. ASSUME NEW j \in 2..Len(k) PROVE z[1 + j - 2] = k[j]
    <3>1. j \in 1..Len(k) /\ 1 + j - 2 \in 1..Len(z) /\ (1 + j - 2) + 1 = 1 + j - 1
      BY <1>6, <2>0, <2>3
    <3> QED
      BY <1>5, <2>1, <3>1
  <2>5. Matches(t \o w, i + 1, k, 2)
    BY <1>3, <2>3, <2>4 DEF Matches
  <2>6. (i + 1) + Len(k) - 2 <= Len(t \o w) /\ \A j \in 2..Len(k) : (t \o w)[(i + 1) + j - 2] = k[j]
    BY <2>5 DEF Matches
  <2>7. ASSUME NEW j \in 1..Len(k) PROVE (t \o w)[i + j - 1] = k[j]
    <3>1. CASE j = 1
      <4>1. i + j - 1 = i
        BY <1>0, <3>1
      <4> QED
        BY <1>x, <2>2, <3>1, <4>1
    <3>2. CASE j # 1
      <4>1. j \in 2..Len(k) /\ (i + 1) + j - 2 = i + j - 1
        BY <1>0, <2>0, <3>2
      <4> QED
        BY <2>6, <4>1
    <3> QED
      BY <3>1, <3>2
  <2>8. i + Len(k) - 1 <= Len(t \o w)
    BY <1>0, <1>x, <2>0, <2>6
  <2>9. At(t \o w, i, k)
    BY <1>0, <1>x, <2>7, <2>8, AtMatches DEF Matches
  <2> QED
    BY <1>b, <2>9 DEF KeysAt
<1>8. KeysAt(y, 1) = {}
  BY <1>7 DEF KeysAt
<1>9. Piece(y, 1) = <<c>> /\ Jump(y, 1) = 2
  BY <1>5, <1>8 DEF Piece, Jump
<1>10. Cascade(From(y, 1)) = Piece(y, 1) \o Cascade(From(y, Jump(y, 1)))
  BY <1>2, <1>5, <1>6, CascadeAt
<1>11. Cascade(y) = <<c>> \o Cascade(z)
  BY <1>5, <1>9, <1>10, FromOne, Zenon
<1> QED
  BY <1>11 DEF y, z, d, c

\* What the rest of t from i on becomes may be cut: a second pass with w behind
\* it gives what one pass over t with w behind it would give.
LEMMA RescanHolds ==
  ASSUME Apart, NEW t, NEW w, Streamed(t, w)
  PROVE  \A i \in 1..(Len(t) + 1) : Cuts(Cascade(From(t, i)), w, Cascade(From(t \o w, i)))
<1> DEFINE E(i) == Cascade(From(t, i))
           X(i) == Cascade(From(t \o w, i))
           S == {i \in 1..(Len(t) + 1) : Cuts(E(i), w, X(i))}
<1>a. t \in Text /\ w \in Text
  BY DEF Streamed
<1>0. Len(t) \in Nat /\ Len(t) + 1 \in 1..(Len(t) + 1)
  BY <1>a, TextLen
<1>2. \A i \in 1..(Len(t) + 1) : E(i) \in Text
  BY <1>a, CascadeSuffix
<1>3. ASSUME NEW i \in 1..(Len(t) + 1), E(i) = From(t, i), \A n \in 0..Len(E(i)) : Settles(E(i), n) => n = 0
      PROVE  i \in S
  <2> DEFINE e == E(i)
  <2>1. e \in Text /\ From(t \o w, i) = e \o w
    BY <1>2, <1>3, <1>a, FromJoin
  <2>2. X(i) = Cascade(e \o w)
    BY <2>1
  <2>a. \A n \in 0..Len(e) : Settles(e, n) => n = 0
    BY <1>3
  <2> HIDE DEF e
  <2>3. Len(e) \in Nat /\ 1 \in 1..(Len(e) + 1) /\ 0 = 1 - 1 /\ 0 + 1 = 1
    BY <2>1, TextLen
  <2>4. SubSeq(e, 1, 0) = <<>> /\ From(e, 1) = e
    BY <2>1, <2>3, NoPiece, FromOne
  <2>5. Cascade(e \o w) \in Text
    BY <1>a, <2>1, JoinText, FromOne
  <2>6. <<>> \o Cascade(e \o w) = Cascade(e \o w)
    BY <2>5, JoinAssoc
  <2>7. X(i) = SubSeq(e, 1, 0) \o Cascade(From(e, 0 + 1) \o w)
    BY <2>2, <2>3, <2>4, <2>6, Zenon
  <2> HIDE DEF X
  <2>8. Cuts(e, w, X(i))
    BY <2>7, <2>a DEF Cuts, CutAt
  <2> QED
    BY <2>8 DEF e
<1>4. Len(t) + 1 \in S
  <2>1. E(Len(t) + 1) = From(t, Len(t) + 1) /\ E(Len(t) + 1) = <<>>
    BY <1>a, FromOne, CascadeEmpty
  <2>2. \A n \in 0..Len(E(Len(t) + 1)) : n = 0
    BY <2>1
  <2> QED
    BY <1>0, <1>3, <2>1, <2>2
<1>5. ASSUME NEW i \in 1..Len(t), \A j \in (i + 1)..(Len(t) + 1) : j \in S PROVE i \in S
  <2>0. i \in 1..(Len(t) + 1) /\ i + 1 \in (i + 1)..(Len(t) + 1)
    BY <1>0
  <2>2. ASSUME NEW j \in (i + 1)..(Len(t) + 1) PROVE E(j) \in Text /\ Cuts(E(j), w, X(j))
    <3>1. j \in 1..(Len(t) + 1)
      BY <1>0
    <3> QED
      BY <1>2, <1>5, <3>1
  <2>3. CASE BlockStep(t, w, i)
    <3>1. PICK j, b : j \in (i + 1)..(Len(t) + 1) /\ Block(b) /\ E(i) = b \o E(j) /\ X(i) = b \o X(j)
      BY <2>3 DEF BlockStep
    <3>2. E(j) \in Text /\ Cuts(E(j), w, X(j))
      BY <2>2, <3>1
    <3> HIDE DEF E, X
    <3>3. b \in Text /\ E(j) \o w \in Text
      BY <1>a, <3>1, <3>2, JoinText DEF Block
    <3>4. \A l \in 1..Len(b) : Cascade(From(b, l) \o (E(j) \o w)) = From(b, l) \o Cascade(E(j) \o w)
      BY <3>1, <3>3 DEF Block
    <3>5. Cuts(b \o E(j), w, b \o X(j))
      BY <1>a, <3>2, <3>3, <3>4, CutsJoin
    <3> QED
      BY <2>0, <3>1, <3>5
  <2>4. CASE CharStep(t, w, i)
    <3> DEFINE b == <<t[i]>>
               j == i + 1
    <3>1. E(i) = b \o E(j) /\ X(i) = b \o X(j)
      BY <2>4 DEF CharStep
    <3>2. b \in Text /\ Len(b) = 1
      BY <1>a, OnePiece
    <3>3. Cascade(b \o (E(j) \o w)) = b \o Cascade(E(j) \o w)
      BY <2>4, RescanChar
    <3>4. j \in (i + 1)..(Len(t) + 1)
      BY <2>0
    <3> HIDE DEF E, X, b, j
    <3>5. E(j) \in Text /\ Cuts(E(j), w, X(j))
      BY <2>2, <3>4
    <3>6. \A l \in 1..Len(b) : Cascade(From(b, l) \o (E(j) \o w)) = From(b, l) \o Cascade(E(j) \o w)
      <4>1. \A l \in 1..Len(b) : l = 1
        BY <3>2
      <4>2. From(b, 1) = b
        BY <3>2, FromOne
      <4> QED
        BY <3>3, <4>1, <4>2
    <3>7. Cuts(b \o E(j), w, b \o X(j))
      BY <1>a, <3>2, <3>5, <3>6, CutsJoin
    <3> QED
      BY <2>0, <3>1, <3>7
  <2>5. CASE WaitStep(t, i)
    <3>1. E(i) = From(t, i) /\ Pending(t, i)
      BY <2>5 DEF WaitStep
    <3> DEFINE e == E(i)
    <3>2. e \in Text /\ Len(e) = Len(t) - i + 1
      BY <1>2, <1>a, <2>0, <3>1, FromProps
    <3>3. Len(e) \in Nat /\ Len(e) - 1 + 1 = Len(e)
      BY <3>2, TextLen
    <3>4. Pending(e, 1)
      <4>1. From(e, 1) = From(t, i)
        BY <3>1, <3>2, FromOne
      <4> HIDE DEF e
      <4> QED
        BY <3>1, <3>2, <3>3, <4>1 DEF Pending
    <3>5. ASSUME NEW n \in 0..Len(e), Settles(e, n) PROVE n = 0
      <4>1. 1 \notin 1..n
        BY <3>4, <3>5 DEF Settles
      <4> QED
        BY <3>3, <4>1
    <3> QED
      BY <1>3, <2>0, <3>1, <3>5
  <2> QED
    BY <2>3, <2>4, <2>5, StepCases
<1>6. 1..(Len(t) + 1) \subseteq S
  <2> HIDE DEF S
  <2> QED
    BY <1>0, <1>4, <1>5, Backward
<1> QED
  BY <1>6

-----------------------------------------------------------------------------
(* What process_delta lets out *)

\* In a text without an unfinished token nothing is held back for one.
LEMMA ClosedHoldback ==
  ASSUME NEW t \in Text, Closed(t)
  PROVE  XmlHoldback(t) = 0
<1> DEFINE opens == Find(t, 1, Open)
<1>1. CASE opens = {}
  BY <1>1 DEF XmlHoldback
<1>2. CASE opens # {}
  <2>0. Len(t) \in Nat /\ opens \subseteq Nat /\ \A y \in opens : y <= Len(t)
    BY TextLen DEF Find
  <2>1. Max(opens) \in opens
    <3> HIDE DEF opens
    <3> QED
      BY <1>2, <2>0, MaxProps
  <2>2. Find(t, Max(opens), Close) # {}
    BY <2>1 DEF Closed
  <2> QED
    BY <1>2, <2>2 DEF XmlHoldback
<1> QED
  BY <1>1, <1>2

\* The beginning of a synthetic value at the end of a text is seen in the window.
LEMMA WindowSees ==
  ASSUME NEW t \in Text, NEW p \in 1..Len(t), NEW a \in 1..p, Pending(t, p)
  PROVE  HasPrefixMatch(From(t, a))
<1> DEFINE v == From(t, a)
           l == Len(t) - p + 1
<1>0. Len(t) \in Nat /\ a \in 1..(Len(t) + 1) /\ p \in 1..(Len(t) + 1) /\ l \in Nat \ {0}
  BY TextLen
<1>1. PICK k \in DOMAIN Display : Len(k) > l /\ From(t, p) = SubSeq(k, 1, l)
  BY DEF Pending
<1>2. k \in Text /\ Len(k) \in Nat /\ Len(k) >= 2
  BY <1>0, <1>1, KeyTyped
<1>3. v \in Text /\ Len(v) = Len(t) - a + 1 /\ \A j \in 1..(Len(t) - a + 1) : v[j] = t[a + j - 1]
  BY <1>0, FromProps
<1>4. \A j \in 1..l : t[p + j - 1] = k[j]
  <2>1. \A j \in 1..l : From(t, p)[j] = t[p + j - 1]
    BY <1>0, FromProps
  <2>2. 1 \in 1..(Len(k) + 1) /\ l \in (1 - 1)..Len(k) /\ l - 1 + 1 = l
    BY <1>0, <1>1, <1>2
  <2>3. \A j \in 1..(l - 1 + 1) : SubSeq(k, 1, l)[j] = k[1 + j - 1]
    BY <1>2, <2>2, PieceProps
  <2>4. \A j \in 1..l : 1 + j - 1 = j
    BY <1>0
  <2> QED
    BY <1>1, <2>1, <2>2, <2>3, <2>4
<1> DEFINE u == SubSeq(k, 1, 2)
<1>5. u \in TriggerPrefixes
  BY <1>2 DEF TriggerPrefixes
<1>6. u \in Text /\ Len(u) = 2 /\ u[1] = k[1] /\ u[2] = k[2]
  <2>1. 1 \in 1..(Len(k) + 1) /\ 2 \in (1 - 1)..Len(k) /\ 2 - 1 + 1 = 2 /\ 1 + 1 - 1 = 1 /\ 1 + 2 - 1 = 2 /\ 1 \in 1..2 /\ 2 \in 1..2
    BY <1>2
  <2>2. u \in Text /\ Len(u) = 2 - 1 + 1 /\ \A j \in 1..(2 - 1 + 1) : u[j] = k[1 + j - 1]
    BY <1>2, <2>1, PieceProps
  <2> QED
    BY <2>1, <2>2
<1> HIDE DEF u, v
<1>7. CASE l = 1
  <2>1. Len(v) \in 1..(Len(t) - a + 1) /\ a + Len(v) - 1 = p + 1 - 1 /\ 1 \in 1..l
    BY <1>0, <1>3, <1>7
  <2>2. v[Len(v)] = k[1]
    BY <1>3, <1>4, <2>1
  <2>3. v # <<>>
    BY <1>3, <2>1
  <2> QED
    BY <1>5, <1>6, <2>2, <2>3 DEF HasPrefixMatch, v
<1>8. CASE l # 1
  <2> DEFINE i == p - a + 1
  <2>1. /\ i \in 1..(Len(v) - 1) /\ i \in 1..(Len(v) + 1) /\ i + 1 \in (i - 1)..Len(v) /\ 1 \in 1..l /\ 2 \in 1..l
        /\ i \in 1..(Len(t) - a + 1) /\ i + 1 \in 1..(Len(t) - a + 1)
        /\ a + i - 1 = p + 1 - 1 /\ a + (i + 1) - 1 = p + 2 - 1 /\ i + 1 - i + 1 = 2 /\ i + 1 - 1 = i /\ i + 2 - 1 = i + 1
    BY <1>0, <1>3, <1>8
  <2> HIDE DEF i
  <2>2. v[i] = k[1] /\ v[i + 1] = k[2]
    BY <1>3, <1>4, <2>1
  <2>3. SubSeq(v, i, i + 1) \in Text /\ Len(SubSeq(v, i, i + 1)) = i + 1 - i + 1
        /\ \A n \in 1..(i + 1 - i + 1) : SubSeq(v, i, i + 1)[n] = v[i + n - 1]
    <3>1. v \in Text /\ i \in 1..(Len(v) + 1) /\ i + 1 \in (i - 1)..Len(v)
      BY <1>3, <2>1
    <3> QED
      BY <3>1, PieceProps
  <2>4. SubSeq(v, i, i + 1)[1] = k[1] /\ SubSeq(v, i, i + 1)[2] = k[2]
    <3>1. 1 \in 1..2 /\ 2 \in 1..2
      OBVIOUS
    <3> QED
      BY <2>1, <2>2, <2>3, <3>1
  <2>5. \A n \in 1..2 : SubSeq(v, i, i + 1)[n] = u[n]
    <3>1. \A n \in 1..2 : n = 1 \/ n = 2
      OBVIOUS
    <3> QED
      BY <1>6, <2>4, <3>1
  <2>6. SubSeq(v, i, i + 1) = u
    BY <1>6, <2>1, <2>3, <2>5, SameText
  <2> QED
    BY <1>5, <2>1, <2>6 DEF HasPrefixMatch, v
<1> QED
  BY <1>7, <1>8

\* Where no token is unfinished, what goes out is not pending.
LEMMA FlushSettles ==
  ASSUME NEW t \in Text, XmlHoldback(t) = 0
  PROVE  Settles(t, SafeFlushLen(t))
<1> DEFINE keep == Min({Len(t), MaxKeyLen})
           a == Len(t) - keep + 1
<1>0. Len(t) \in Nat /\ MaxKeyLen \in Nat /\ \A k \in DOMAIN Display : Len(k) <= MaxKeyLen
  BY TextLen, MaxKeyLenProps
<1>1. keep \in {Len(t), MaxKeyLen} /\ keep <= Len(t) /\ keep <= MaxKeyLen
  <2>1. {Len(t), MaxKeyLen} \subseteq Nat /\ {Len(t), MaxKeyLen} # {}
    BY <1>0
  <2>2. Min({Len(t), MaxKeyLen}) \in {Len(t), MaxKeyLen} /\ \A y \in {Len(t), MaxKeyLen} : Min({Len(t), MaxKeyLen}) <= y
    BY <2>1, MinProps
  <2> QED
    BY <2>2
<1>2. SafeFlushLen(t) = IF HasPrefixMatch(From(t, a)) THEN Len(t) - keep ELSE Len(t)
  BY DEF SafeFlushLen
<1> HIDE DEF keep
<1>3. SUFFICES ASSUME NEW p \in 1..SafeFlushLen(t), Pending(t, p) PROVE FALSE
  BY DEF Settles
<1>4. p \in 1..Len(t)
  BY <1>0, <1>1, <1>2, <1>3
<1>5. PICK k \in DOMAIN Display : Len(k) > Len(t) - p + 1
  BY <1>3 DEF Pending
<1>6. Len(k) \in Nat /\ Len(k) <= MaxKeyLen
  BY <1>0, KeyTyped
<1>7. a \in 1..p
  BY <1>0, <1>1, <1>4, <1>5, <1>6
<1>8. HasPrefixMatch(From(t, a))
  BY <1>3, <1>4, <1>7, WindowSees
<1> QED
  BY <1>0, <1>1, <1>2, <1>3, <1>7, <1>8

\* What process_delta does with a text without an unfinished token.
LEMMA ClosedStep ==
  ASSUME Apart, NEW t, NEW w, Streamed(t, w)
  PROVE  LET d == Cascade(t)
             n == SafeFlushLen(d)
         IN  /\ Good(From(d, n + 1) \o w)
             /\ Cascade(t \o w) = SubSeq(d, 1, n) \o Cascade(From(d, n + 1) \o w)
<1> DEFINE d == Cascade(t)
           n == SafeFlushLen(d)
<1>a. t \in Text /\ w \in Text
  BY DEF Streamed
<1>0. Len(t) \in Nat /\ 1 \in 1..(Len(t) + 1) /\ From(t, 1) = t /\ d \in Text
  BY <1>a, TextLen, FromOne
<1>1. Good(d \o w) /\ Closed(d)
  <2>1. Shape(t, w, 1)
    BY <1>0, ShapeHolds
  <2> QED
    BY <1>0, <2>1 DEF Shape
<1>2. Cuts(d, w, Cascade(t \o w))
  <2>1. Cuts(Cascade(From(t, 1)), w, Cascade(From(t \o w, 1)))
    BY <1>0, RescanHolds
  <2>2. From(t \o w, 1) = t \o w
    BY <1>a, JoinText, FromOne
  <2> QED
    BY <1>0, <2>1, <2>2
<1> HIDE DEF d
<1>3. Settles(d, n) /\ n \in 0..Len(d)
  BY <1>0, <1>1, ClosedHoldback, FlushSettles, SafeFlushProps
<1> HIDE DEF n
<1>4. Cascade(t \o w) = SubSeq(d, 1, n) \o Cascade(From(d, n + 1) \o w)
  BY <1>2, <1>3 DEF Cuts, CutAt
<1>5. Good(From(d, n + 1) \o w)
  <2>1. Len(d) \in Nat /\ n + 1 \in 1..(Len(d) + 1)
    BY <1>0, <1>3, TextLen
  <2>2. d \o w \in Text /\ Len(d \o w) = Len(d) + Len(w) /\ Len(w) \in Nat
    BY <1>0, <1>a, JoinProps, TextLen
  <2>3. From(d \o w, n + 1) = From(d, n + 1) \o w
    BY <1>0, <1>a, <2>1, FromJoin
  <2>4. n + 1 \in 1..(Len(d \o w) + 1)
    BY <2>1, <2>2
  <2> QED
    BY <1>1, <2>2, <2>3, <2>4, GoodFrom
<1> QED
  BY <1>4, <1>5 DEF d, n

\* The token that opens at o is not finished in t.
Unfinished(t, w, o) ==
  /\ t \in Text /\ w \in Text /\ Good(t \o w) /\ Whole(t, w)
  /\ o \in Find(t, 1, Open) /\ Find(t, o, Close) = {}

\* No other token opens behind it.
LEMMA UnfinishedLast ==
  ASSUME NEW t, NEW w, NEW o, Unfinished(t, w, o)
  PROVE  /\ o \in 1..(Len(t) - 1) /\ At(t, o, Open) /\ At(t \o w, o, Open)
         /\ Find(t, o + 1, Open) = {}
<1> DEFINE x == t \o w
<1>a. t \in Text /\ w \in Text /\ Good(x) /\ o \in Find(t, 1, Open) /\ Find(t, o, Close) = {}
  BY DEF Unfinished
<1>0. Len(t) \in Nat /\ Len(w) \in Nat /\ 1 \in Nat \ {0}
  BY <1>a, TextLen
<1>1. x \in Text /\ Len(x) = Len(t) + Len(w) /\ \A n \in 1..Len(t) : x[n] = t[n]
  BY <1>a, JoinProps
<1> HIDE DEF x
<1>2. o \in 1..(Len(t) - 1) /\ t[o] = "<" /\ t[o + 1] = "p"
  BY <1>0, <1>a, FindOpen
<1>3. o \in Nat \ {0} /\ o + 1 \in Nat \ {0} /\ o \in 1..Len(t) /\ o + 1 \in 1..Len(t) /\ o + 1 <= Len(t) /\ o + 1 <= Len(x) /\ o \in 1..Len(x)
  BY <1>0, <1>1, <1>2
<1>4. At(t, o, Open) /\ At(x, o, Open)
  BY <1>1, <1>2, <1>3, <1>a, TagAt
<1>5. TokenOk(x, o)
  BY <1>3, <1>4, <1>a DEF Good, Find
<1>6. ASSUME NEW j \in Find(t, o + 1, Open) PROVE FALSE
  <2>1. j \in (o + 1)..(Len(t) - 1) /\ t[j] = "<" /\ t[j + 1] = "p"
    BY <1>3, <1>a, FindOpen
  <2>2. j \in 1..Len(t) /\ j + 1 \in 1..Len(t) /\ j \in (o + 1)..(Len(x) - 1)
    BY <1>0, <1>1, <1>2, <2>1
  <2>3. j \in Find(x, o + 1, Open)
    BY <1>1, <1>3, <2>1, <2>2, FindOpen
  <2>4. Find(x, o, Close) # {} /\ NextClose(x, o) < NextOpen(x, o + 1)
    BY <1>5, <2>3 DEF TokenOk
  <2>5. NextClose(x, o) \in Find(x, o, Close) /\ NextClose(x, o) \in o..Len(x)
    BY <1>1, <1>3, <2>4, FindClose
  <2>6. NextOpen(x, o + 1) <= j /\ NextOpen(x, o + 1) \in (o + 1)..(Len(x) - 1)
    BY <1>1, <1>3, <2>3, FindOpen
  <2>7. NextClose(x, o) \in o..Len(t) /\ NextClose(x, o) \in 1..Len(t)
    BY <1>0, <1>1, <1>2, <2>1, <2>4, <2>5, <2>6
  <2>8. x[NextClose(x, o)] = "/"
    BY <1>1, <1>3, <2>5, FindClose
  <2>9. NextClose(x, o) \in Find(t, o, Close)
    BY <1>1, <1>3, <1>a, <2>7, <2>8, FindClose
  <2> QED
    BY <1>a, <2>9
<1> QED
  BY <1>2, <1>4, <1>6 DEF x

\* The cascade puts out the same text at i, and goes on at the same place up to
\* o, in t and in t with w behind it.
SameStep(t, w, o, i) ==
  \E j \in (i + 1)..o : \E g \in Text :
    /\ Cascade(From(t, i)) = g \o Cascade(From(t, j))
    /\ Cascade(From(t \o w, i)) = g \o Cascade(From(t \o w, j))

\* It does before an unfinished token.
LEMMA UnfinishedBefore ==
  ASSUME Apart, NEW t, NEW w, NEW o, Unfinished(t, w, o), NEW i \in 1..(o - 1)
  PROVE  SameStep(t, w, o, i)
<1> DEFINE x == t \o w
<1>a. t \in Text /\ w \in Text /\ Good(x) /\ Whole(t, w)
  BY DEF Unfinished
<1>b. o \in 1..(Len(t) - 1) /\ At(t, o, Open) /\ At(x, o, Open)
  BY UnfinishedLast
<1>0. /\ Len(t) \in Nat /\ Len(w) \in Nat /\ i \in Nat \ {0} /\ i \in 1..Len(t) /\ o \in Nat /\ o > i
      /\ i + 1 \in Nat \ {0} /\ o \in Nat \ {0}
  BY <1>a, <1>b, TextLen
<1>1. x \in Text /\ Len(x) = Len(t) + Len(w) /\ \A n \in 1..Len(t) : x[n] = t[n]
  BY <1>a, JoinProps
<1>2. i \in 1..Len(x)
  BY <1>0, <1>1
<1>3. CASE At(t, i, Open)
  <2>0. At(x, i, Open)
    <3>1. i + 1 <= Len(t) /\ t[i] = "<" /\ t[i + 1] = "p"
      BY <1>0, <1>3, <1>a, TagAt
    <3>2. i + 1 \in 1..Len(t) /\ i + 1 <= Len(x)
      BY <1>0, <1>1, <3>1
    <3> QED
      BY <1>0, <1>1, <3>1, <3>2, TagAt
  <2>1. TokenOk(x, i)
    BY <1>2, <1>a, <2>0 DEF Good, Find
  <2>2. o \in Find(x, i + 1, Open)
    BY <1>0, <1>1, <1>b DEF Find
  <2>3. Find(x, i, Close) # {} /\ NextClose(x, i) < NextOpen(x, i + 1)
    BY <2>1, <2>2 DEF TokenOk
  <2>4. NextOpen(x, i + 1) <= o /\ NextOpen(x, i + 1) \in (i + 1)..(Len(x) - 1)
    BY <1>0, <1>1, <2>2, FindOpen
  <2>5. NextClose(x, i) \in Find(x, i, Close) /\ NextClose(x, i) \in i..Len(x)
    BY <1>0, <1>1, <2>3, FindClose
  <2>6. NextClose(x, i) \in i..Len(t) /\ NextClose(x, i) \in 1..Len(t) /\ NextClose(x, i) < o
    BY <1>0, <1>1, <1>b, <2>3, <2>4, <2>5
  <2>7. NextClose(x, i) \in Find(t, i, Close)
    <3>1. x[NextClose(x, i)] = "/"
      BY <1>0, <1>1, <2>5, FindClose
    <3> QED
      BY <1>0, <1>1, <1>a, <2>6, <3>1, FindClose
  <2>8. NextClose(x, i) = NextClose(t, i) /\ TokenBody(x, i) = TokenBody(t, i)
    BY <1>0, <1>3, <1>a, <2>7, TokenJoin
  <2> DEFINE g == TokenOriginal(TokenBody(t, i))
             j == NextClose(t, i) + 1
  <2>9. g \in Text
    BY <1>0, <1>3, <1>a, <2>7, TokenProps, TokenOriginalTyped
  <2>10. Cascade(From(t, i)) = g \o Cascade(From(t, j))
    BY <1>0, <1>3, <1>a, <2>7, CascadeAt
  <2>11. Cascade(From(x, i)) = g \o Cascade(From(x, j))
    <3> HIDE DEF x
    <3>1. Cascade(From(x, i)) = TokenOriginal(TokenBody(x, i)) \o Cascade(From(x, NextClose(x, i) + 1))
      BY <1>1, <1>2, <2>0, <2>3, CascadeAt
    <3> QED
      BY <2>8, <3>1
  <2>12. j \in (i + 1)..o
    BY <1>0, <2>6, <2>8
  <2> HIDE DEF g, j
  <2> QED
    BY <2>9, <2>10, <2>11, <2>12 DEF SameStep
<1>4. CASE ~At(t, i, Open)
  <2>1. ~At(x, i, Open)
    BY <1>0, <1>4, <1>a, NoNewOpen
  <2>2. SubSeq(x, i, o - 1) = SubSeq(t, i, o - 1)
    <3>1. /\ i \in 1..(Len(t) + 1) /\ o - 1 \in (i - 1)..Len(t) /\ i \in 1..(Len(x) + 1) /\ o - 1 \in (i - 1)..Len(x)
          /\ \A n \in 1..(o - 1 - i + 1) : i + n - 1 \in 1..Len(t)
      BY <1>0, <1>1, <1>b
    <3>2. /\ SubSeq(t, i, o - 1) \in Text /\ Len(SubSeq(t, i, o - 1)) = o - 1 - i + 1
          /\ \A n \in 1..(o - 1 - i + 1) : SubSeq(t, i, o - 1)[n] = t[i + n - 1]
      BY <1>a, <3>1, PieceProps
    <3> HIDE DEF x
    <3>3. /\ SubSeq(x, i, o - 1) \in Text /\ Len(SubSeq(x, i, o - 1)) = o - 1 - i + 1
          /\ \A n \in 1..(o - 1 - i + 1) : SubSeq(x, i, o - 1)[n] = x[i + n - 1]
      BY <1>1, <3>1, PieceProps
    <3>4. \A n \in 1..Len(SubSeq(x, i, o - 1)) : SubSeq(x, i, o - 1)[n] = SubSeq(t, i, o - 1)[n]
      BY <1>1, <3>1, <3>2, <3>3
    <3> QED
      BY <3>2, <3>3, <3>4, SameText
  <2>3. KeysAt(x, i) = KeysAt(t, i)
    <3>1. KeysAt(SubSeq(t, i, o - 1), 1) = KeysAt(t, i)
      BY <1>0, <1>a, <1>b, KeysBeforeOpen
    <3>2. KeysAt(SubSeq(x, i, o - 1), 1) = KeysAt(x, i)
      BY <1>0, <1>1, <1>b, KeysBeforeOpen
    <3> QED
      BY <2>2, <3>1, <3>2
  <2>4. Piece(x, i) = Piece(t, i) /\ Jump(x, i) = Jump(t, i)
    BY <1>0, <1>1, <2>3 DEF Piece, Jump
  <2> DEFINE g == Piece(t, i)
             j == Jump(t, i)
  <2>5. g \in Text /\ j \in (i + 1)..o
    BY <1>0, <1>a, <1>b, ReplaceBeforeOpen
  <2>6. Cascade(From(t, i)) = g \o Cascade(From(t, j))
    BY <1>0, <1>4, <1>a, CascadeAt
  <2>7. Cascade(From(x, i)) = g \o Cascade(From(x, j))
    <3>1. Cascade(From(x, i)) = Piece(x, i) \o Cascade(From(x, Jump(x, i)))
      BY <1>1, <1>2, <2>1, CascadeAt
    <3> QED
      BY <2>4, <3>1
  <2> HIDE DEF g, j
  <2> QED
    BY <2>5, <2>6, <2>7 DEF SameStep
<1> QED
  BY <1>3, <1>4

\* What the text before an unfinished token becomes does not depend on what comes behind.
LEMMA UnfinishedFront ==
  ASSUME Apart, NEW t, NEW w, NEW o, Unfinished(t, w, o)
  PROVE  \E g \in Text :
           /\ Cascade(t) = g \o Cascade(From(t, o))
           /\ Cascade(t \o w) = g \o Cascade(From(t \o w, o))
<1> DEFINE x == t \o w
           E(i) == Cascade(From(t, i))
           X(i) == Cascade(From(x, i))
           S == {i \in 1..o : \E g \in Text : E(i) = g \o E(o) /\ X(i) = g \o X(o)}
<1>a. t \in Text /\ w \in Text
  BY DEF Unfinished
<1>b. o \in 1..(Len(t) - 1)
  BY UnfinishedLast
<1>0. Len(t) \in Nat /\ Len(w) \in Nat /\ o - 1 \in Nat /\ (o - 1) + 1 = o /\ o \in 1..o /\ 1 \in 1..o /\ o \in 1..(Len(t) + 1)
  BY <1>a, <1>b, TextLen
<1>1. x \in Text /\ Len(x) = Len(t) + Len(w)
  BY <1>a, JoinProps
<1>2. E(o) \in Text /\ X(o) \in Text
  <2>1. o \in 1..(Len(x) + 1)
    BY <1>0, <1>1
  <2> QED
    BY <1>0, <1>1, <1>a, <2>1, CascadeSuffix
<1>3. E(1) = Cascade(t) /\ X(1) = Cascade(x)
  BY <1>1, <1>a, FromOne
<1>u. ASSUME NEW i \in 1..(o - 1) PROVE \E j \in (i + 1)..o : \E g \in Text : E(i) = g \o E(j) /\ X(i) = g \o X(j)
  <2>1. SameStep(t, w, o, i)
    BY UnfinishedBefore
  <2> QED
    BY <2>1, Zenon DEF SameStep
<1> HIDE DEF E, X
<1>4. (o - 1) + 1 \in S
  <2>1. <<>> \in Text /\ E(o) = <<>> \o E(o) /\ X(o) = <<>> \o X(o)
    BY <1>2, JoinAssoc
  <2> QED
    BY <1>0, <2>1
<1>5. ASSUME NEW i \in 1..(o - 1), \A j \in (i + 1)..((o - 1) + 1) : j \in S PROVE i \in S
  <2>1. PICK j \in (i + 1)..o, g \in Text : E(i) = g \o E(j) /\ X(i) = g \o X(j)
    BY <1>u
  <2>2. j \in S
    BY <1>0, <1>5, <2>1
  <2>3. PICK f \in Text : E(j) = f \o E(o) /\ X(j) = f \o X(o)
    BY <2>2
  <2>4. g \o f \in Text
    BY JoinText
  <2>5. g \o (f \o E(o)) = (g \o f) \o E(o)
    BY <1>2, Assoc
  <2>6. g \o (f \o X(o)) = (g \o f) \o X(o)
    BY <1>2, Assoc
  <2>7. E(i) = (g \o f) \o E(o) /\ X(i) = (g \o f) \o X(o)
    BY <2>1, <2>3, <2>5, <2>6, Zenon
  <2>8. i \in 1..o
    BY <1>0
  <2> QED
    BY <2>4, <2>7, <2>8
<1>6. 1..((o - 1) + 1) \subseteq S
  <2> HIDE DEF S
  <2> QED
    BY <1>0, <1>4, <1>5, Backward
<1>7. 1 \in S
  BY <1>0, <1>6
<1> QED
  BY <1>3, <1>7 DEF E, X

\* A text that ends in an unfinished token is held back from there on.
LEMMA UnfinishedHoldback ==
  ASSUME NEW g \in Text, NEW v \in Text, At(v, 1, Open), Find(v, 2, Open) = {}, Find(v, 1, Close) = {}
  PROVE  SafeFlushLen(g \o v) = Len(g)
<1> DEFINE d == g \o v
           opens == Find(d, 1, Open)
           o == Len(g) + 1
<1>0. Len(g) \in Nat /\ Len(v) \in Nat /\ o \in Nat \ {0} /\ 1 \in Nat \ {0} /\ 2 \in Nat \ {0} /\ 1 + 1 = 2
  BY TextLen
<1>1. d \in Text /\ Len(d) = Len(g) + Len(v) /\ \A n \in 1..Len(v) : d[Len(g) + n] = v[n]
  BY JoinProps
<1> HIDE DEF d
<1>2. 1 + 1 <= Len(v) /\ v[1] = "<" /\ v[2] = "p"
  BY <1>0, TagAt
<1>3. o \in opens
  <2>1. d[Len(g) + 1] = v[1] /\ d[Len(g) + 2] = v[2]
    BY <1>0, <1>1, <1>2
  <2>2. o \in 1..(Len(d) - 1) /\ o + 1 = Len(g) + 2
    BY <1>0, <1>1, <1>2
  <2>3. d[o] = "<" /\ d[o + 1] = "p"
    BY <1>2, <2>1, <2>2
  <2> QED
    BY <1>0, <1>1, <2>2, <2>3, FindOpen
<1>4. ASSUME NEW j \in opens PROVE j \in Nat /\ j <= Len(d) /\ j <= o
  <2>1. j \in 1..(Len(d) - 1) /\ d[j] = "<" /\ d[j + 1] = "p"
    BY <1>0, <1>1, FindOpen
  <2>2. ASSUME j > o PROVE FALSE
    <3> DEFINE n == j - Len(g)
    <3>1. n \in 2..(Len(v) - 1) /\ n \in 1..Len(v) /\ n + 1 \in 1..Len(v) /\ Len(g) + n = j /\ Len(g) + (n + 1) = j + 1
      BY <1>0, <1>1, <2>1, <2>2
    <3> HIDE DEF n
    <3>2. v[n] = "<" /\ v[n + 1] = "p"
      BY <1>1, <2>1, <3>1
    <3>3. n \in Find(v, 2, Open)
      BY <1>0, <3>1, <3>2, FindOpen
    <3> QED
      BY <3>3
  <2> QED
    BY <1>0, <1>1, <2>1, <2>2
<1>5. Max(opens) = o
  <2>0. Len(d) \in Nat /\ opens # {} /\ opens \subseteq Nat /\ \A y \in opens : y <= Len(d)
    BY <1>1, <1>3, <1>4, TextLen
  <2> HIDE DEF opens, o
  <2>1. Max(opens) \in opens /\ \A y \in opens : Max(opens) >= y
    BY <2>0, MaxProps
  <2>2. Max(opens) \in Nat /\ Max(opens) <= o /\ Max(opens) >= o
    BY <1>3, <1>4, <2>1
  <2> QED
    BY <1>0, <2>2
<1>6. Find(d, o, Close) = {}
  <2>1. SUFFICES ASSUME NEW j \in Find(d, o, Close) PROVE FALSE
    OBVIOUS
  <2>2. j \in o..Len(d) /\ d[j] = "/"
    BY <1>0, <1>1, FindClose
  <2> DEFINE n == j - Len(g)
  <2>3. n \in 1..Len(v) /\ Len(g) + n = j
    BY <1>0, <1>1, <2>2
  <2> HIDE DEF n
  <2>4. n \in Find(v, 1, Close)
    BY <1>0, <1>1, <2>2, <2>3, FindClose
  <2> QED
    BY <2>4
<1>7. XmlHoldback(d) = o
  BY <1>3, <1>5, <1>6 DEF XmlHoldback
<1>8. SafeFlushLen(d) = Len(g)
  BY <1>0, <1>7 DEF SafeFlushLen
<1> QED
  BY <1>8 DEF d

\* What process_delta does with a text that ends in an unfinished token.
LEMMA UnfinishedStep ==
  ASSUME Apart, NEW t, NEW w, NEW o, Unfinished(t, w, o)
  PROVE  LET d == Cascade(t)
             n == SafeFlushLen(d)
         IN  /\ Good(From(d, n + 1) \o w)
             /\ Cascade(t \o w) = SubSeq(d, 1, n) \o Cascade(From(d, n + 1) \o w)
<1> DEFINE v == From(t, o)
           x == t \o w
<1>a. t \in Text /\ w \in Text /\ Good(x) /\ Find(t, o, Close) = {}
  BY DEF Unfinished
<1>b. o \in 1..(Len(t) - 1) /\ At(t, o, Open) /\ Find(t, o + 1, Open) = {}
  BY UnfinishedLast
<1>0. /\ Len(t) \in Nat /\ Len(w) \in Nat /\ o \in Nat \ {0} /\ 1 \in Nat \ {0} /\ 2 \in Nat \ {0} /\ o + 1 - 1 = o /\ o + 2 - 1 = o + 1
      /\ o \in 1..(Len(t) + 1) /\ o \in 1..Len(t)
  BY <1>a, <1>b, TextLen
<1>1. x \in Text /\ Len(x) = Len(t) + Len(w)
  BY <1>a, JoinProps
<1>2. v \in Text
  BY <1>0, <1>a, FromProps
<1>3. Open \in Text /\ Open # <<>>
  BY VaultAssumption, PairSeq, Zenon DEF Open, Text
<1>4. At(v, 1, Open)
  BY <1>0, <1>3, <1>a, <1>b, AtFrom
<1>5. Find(v, 2, Open) = {}
  BY <1>0, <1>a, <1>b, OpenFrom
<1>6. Find(v, 1, Close) = {}
  BY <1>0, <1>a, CloseFrom
<1>7. Cascade(v) = v
  BY <1>0, <1>a, <1>b, CascadeAt
<1>8. From(x, o) = v \o w
  BY <1>0, <1>a, FromJoin
<1>9. Good(v \o w)
  <2>1. o \in 1..(Len(x) + 1)
    BY <1>0, <1>1
  <2>2. Good(From(x, o))
    BY <1>1, <1>a, <2>1, GoodFrom
  <2> QED
    BY <1>8, <2>2
<1>10. PICK g \in Text : Cascade(t) = g \o Cascade(v) /\ Cascade(x) = g \o Cascade(From(x, o))
  BY UnfinishedFront
<1> HIDE DEF v, x
<1>11. Cascade(t) = g \o v /\ Cascade(x) = g \o Cascade(v \o w)
  BY <1>7, <1>8, <1>10
<1>12. SafeFlushLen(g \o v) = Len(g)
  BY <1>2, <1>4, <1>5, <1>6, UnfinishedHoldback
<1>13. SubSeq(g \o v, 1, Len(g)) = g /\ From(g \o v, Len(g) + 1) = v
  <2>0. Len(g) \in Nat /\ 1 \in 1..(Len(g) + 1)
    BY TextLen
  <2> QED
    BY <1>2, <2>0, JoinPieces, FromOne
<1> QED
  BY <1>9, <1>11, <1>12, <1>13 DEF x

\* What process_delta does with a text: what it holds back is well formed with
\* what comes behind it, and replaced with it gives what is missing.
LEMMA TextStep ==
  ASSUME Apart, NEW t \in Text, NEW w \in Text, Good(t \o w), Whole(t, w)
  PROVE  LET d == Cascade(t)
             n == SafeFlushLen(d)
         IN  /\ Good(From(d, n + 1) \o w)
             /\ Cascade(t \o w) = SubSeq(d, 1, n) \o Cascade(From(d, n + 1) \o w)
<1>1. CASE Closed(t)
  <2>1. Streamed(t, w)
    BY <1>1 DEF Streamed
  <2> QED
    BY <2>1, ClosedStep
<1>2. CASE ~Closed(t)
  <2>1. PICK o : Unfinished(t, w, o)
    BY <1>2 DEF Closed, Unfinished
  <2> QED
    BY <2>1, UnfinishedStep
<1> QED
  BY <1>1, <1>2

\* The text of one character that begins an Open.
Less == <<"<">>

\* It is a text, and no synthetic value has its character.
LEMMA LessProps ==
  /\ Less \in Text /\ Len(Less) = 1 /\ Less[1] = "<" /\ Less # <<>>
  /\ \A s \in Text : Whole(s, Less)
<1>1. "<" \in STRING
  BY VaultAssumption
<1>2. Less \in Text /\ Len(Less) = 1 /\ Less[1] = "<"
  BY <1>1, PairSeq, Zenon DEF Less, Text
<1>3. Less # <<>>
  BY <1>2
<1> QED
  BY <1>2, <1>3 DEF Whole

\* A synthetic value does not run into a "<" at the end of a text.
LEMMA KeysBeforeLess ==
  ASSUME Apart, NEW s \in Text, NEW i \in 1..Len(s)
  PROVE  KeysAt(s \o Less, i) = KeysAt(s, i)
<1> DEFINE t == s \o Less
<1>0. Len(s) \in Nat /\ i \in Nat \ {0} /\ Less \in Text /\ Len(Less) = 1 /\ Less[1] = "<" /\ 1 \in 1..1
  BY TextLen, LessProps
<1>1. t \in Text /\ Len(t) = Len(s) + 1 /\ t[Len(s) + 1] = "<"
  <2>1. t \in Text /\ Len(t) = Len(s) + Len(Less) /\ \A n \in 1..Len(Less) : t[Len(s) + n] = Less[n]
    BY <1>0, JoinProps
  <2>2. 1 \in 1..Len(Less)
    BY <1>0
  <2> HIDE DEF t
  <2> QED
    BY <1>0, <2>1, <2>2
<1> HIDE DEF t
<1>2. ASSUME NEW l \in DOMAIN Display PROVE At(t, i, l) <=> At(s, i, l)
  <2>1. l \in Text /\ Len(l) \in Nat /\ Len(l) >= 1
    BY KeyTyped
  <2>2. i + Len(l) - 1 <= Len(s) => (At(t, i, l) <=> At(s, i, l))
    BY <1>0, <2>1, AtJoin DEF t
  <2>3. At(s, i, l) => i + Len(l) - 1 <= Len(s)
    BY DEF At
  <2>4. ASSUME At(t, i, l), ~(i + Len(l) - 1 <= Len(s)) PROVE FALSE
    <3>1. i + Len(l) - 1 <= Len(t) /\ \A j \in 1..Len(l) : t[i + j - 1] = l[j]
      BY <1>0, <1>1, <2>1, <2>4, AtChars
    <3>2. i + Len(l) - 1 = Len(s) + 1 /\ Len(l) \in 1..Len(l)
      <4>1. i \in Nat /\ Len(s) \in Nat /\ Len(l) \in Nat /\ Len(l) >= 1
        BY <1>0, <2>1
      <4>2. i + Len(l) - 1 <= Len(s) + 1 /\ ~(i + Len(l) - 1 <= Len(s))
        BY <1>1, <2>4, <3>1
      <4> QED
        BY <4>1, <4>2
    <3>3. l[Len(l)] = "<"
      BY <1>1, <3>1, <3>2
    <3> QED
      BY <3>2, <3>3 DEF Apart
  <2> QED
    BY <2>2, <2>3, <2>4
<1> QED
  BY <1>2 DEF KeysAt, t

\* The cascade leaves a "<" at the end of a text alone.
LEMMA LastLess ==
  ASSUME Apart, NEW s \in Text, Closed(s)
  PROVE  Cascade(s \o Less) = Cascade(s) \o Less
<1> DEFINE t == s \o Less
           S == {i \in 1..(Len(s) + 1) : Cascade(From(t, i)) = Cascade(From(s, i)) \o Less}
<1>0. /\ Len(s) \in Nat /\ Less \in Text /\ Len(Less) = 1 /\ Less[1] = "<" /\ Less # <<>> /\ Whole(s, Less)
      /\ Len(s) + 1 \in 1..(Len(s) + 1) /\ 1 \in 1..(Len(s) + 1) /\ 1 \in Nat \ {0} /\ 1 \in 1..Len(Less) /\ 2 = Len(Less) + 1
  BY TextLen, LessProps
<1>1. t \in Text /\ Len(t) = Len(s) + 1 /\ \A n \in 1..Len(s) : t[n] = s[n]
  <2>1. t \in Text /\ Len(t) = Len(s) + Len(Less) /\ \A n \in 1..Len(s) : t[n] = s[n]
    BY <1>0, JoinProps
  <2> HIDE DEF t
  <2> QED
    BY <1>0, <2>1
<1>2. Cascade(Less) = Less
  <2>1. ~At(Less, 1, Open)
    BY <1>0, TagAt
  <2>2. KeysAt(Less, 1) = {}
    <3>1. ASSUME NEW k \in DOMAIN Display, At(Less, 1, k) PROVE FALSE
      <4>1. k \in Text /\ Len(k) \in Nat /\ Len(k) >= 1 /\ 1 \in 1..Len(k) /\ 1 + 1 - 1 = 1
        BY KeyTyped
      <4>2. Less[1] = k[1]
        BY <1>0, <3>1, <4>1, AtChars
      <4> QED
        BY <1>0, <4>1, <4>2 DEF Apart
    <3> QED
      BY <3>1 DEF KeysAt
  <2>3. Piece(Less, 1) = <<"<">> /\ Jump(Less, 1) = 2
    BY <1>0, <2>2 DEF Piece, Jump
  <2>4. Cascade(From(Less, 1)) = Piece(Less, 1) \o Cascade(From(Less, Jump(Less, 1)))
    BY <1>0, <2>1, CascadeAt
  <2>5. From(Less, 1) = Less /\ From(Less, 2) = <<>> /\ Less \o <<>> = Less
    BY <1>0, FromOne, JoinAssoc
  <2> QED
    BY <2>3, <2>4, <2>5, CascadeEmpty DEF Less
<1>3. Len(s) + 1 \in S
  <2>1. From(t, Len(s) + 1) = Less
    BY <1>0, JoinPieces
  <2>2. From(s, Len(s) + 1) = <<>> /\ <<>> \o Less = Less
    BY <1>0, FromOne, JoinAssoc
  <2> QED
    BY <1>0, <1>2, <2>1, <2>2, CascadeEmpty
<1>4. ASSUME NEW i \in 1..Len(s), \A j \in (i + 1)..(Len(s) + 1) : j \in S PROVE i \in S
  <2>0. i \in Nat \ {0} /\ i \in 1..(Len(s) + 1) /\ i \in 1..Len(t)
    BY <1>0, <1>1
  <2>1. SUFFICES ASSUME NEW j \in (i + 1)..(Len(s) + 1), NEW b \in Text,
                        Cascade(From(s, i)) = b \o Cascade(From(s, j)), Cascade(From(t, i)) = b \o Cascade(From(t, j))
                 PROVE  i \in S
    <3>1. CASE At(s, i, Open)
      <4> DEFINE j == NextClose(s, i) + 1
                 b == TokenOriginal(TokenBody(s, i))
      <4>1. Find(s, i, Close) # {}
        BY <2>0, <3>1 DEF Closed, Find
      <4>2. At(t, i, Open) /\ Find(t, i, Close) # {} /\ NextClose(t, i) = NextClose(s, i) /\ TokenBody(t, i) = TokenBody(s, i)
        BY <1>0, <2>0, <3>1, <4>1, TokenJoin
      <4>3. NextClose(s, i) \in (i + 2)..Len(s) /\ TokenBody(s, i) \in Text
        BY <2>0, <3>1, <4>1, TokenProps
      <4>4. j \in (i + 1)..(Len(s) + 1) /\ b \in Text
        BY <1>0, <2>0, <4>3, TokenOriginalTyped
      <4>5. Cascade(From(s, i)) = b \o Cascade(From(s, j))
        BY <3>1, <4>1, CascadeAt
      <4>6. Cascade(From(t, i)) = TokenOriginal(TokenBody(t, i)) \o Cascade(From(t, NextClose(t, i) + 1))
        BY <1>1, <2>0, <4>2, CascadeAt
      <4>7. Cascade(From(t, i)) = b \o Cascade(From(t, j))
        BY <4>2, <4>6
      <4> QED
        BY <2>1, <4>4, <4>5, <4>7
    <3>2. CASE ~At(s, i, Open)
      <4>1. ~At(t, i, Open)
        BY <1>0, <3>2, NoNewOpen
      <4>2. KeysAt(t, i) = KeysAt(s, i) /\ t[i] = s[i]
        BY <1>1, KeysBeforeLess
      <4>3. Piece(t, i) = Piece(s, i) /\ Jump(t, i) = Jump(s, i)
        BY <4>2 DEF Piece, Jump
      <4>4. Cascade(From(s, i)) = Piece(s, i) \o Cascade(From(s, Jump(s, i)))
        BY <3>2, CascadeAt
      <4>5. Cascade(From(t, i)) = Piece(t, i) \o Cascade(From(t, Jump(t, i)))
        BY <1>1, <2>0, <4>1, CascadeAt
      <4>6. Piece(s, i) \in Text /\ Jump(s, i) \in (i + 1)..(Len(s) + 1)
        BY PieceJump
      <4> QED
        BY <2>1, <4>3, <4>4, <4>5, <4>6
    <3> QED
      BY <3>1, <3>2
  <2>2. Cascade(From(t, j)) = Cascade(From(s, j)) \o Less /\ j \in 1..(Len(s) + 1)
    BY <1>4, <2>1
  <2>3. Cascade(From(s, j)) \in Text
    BY <2>2, CascadeSuffix
  <2> DEFINE e == Cascade(From(s, j))
  <2>4. (b \o e) \o Less = b \o (e \o Less)
    <3> HIDE DEF e
    <3>1. e \in Text
      BY <2>3 DEF e
    <3> QED
      BY <1>0, <3>1, Assoc
  <2> QED
    BY <2>0, <2>1, <2>2, <2>4
<1>5. 1..(Len(s) + 1) \subseteq S
  <2> HIDE DEF S
  <2> QED
    BY <1>0, <1>3, <1>4, Backward
<1>6. Cascade(From(t, 1)) = Cascade(From(s, 1)) \o Less
  BY <1>0, <1>5
<1> QED
  BY <1>1, <1>6, FromOne

\* What process_delta does with a text that ends in a "<" it holds back.
LEMMA HeldStep ==
  ASSUME Apart, NEW s \in Text, NEW w \in Text, Closed(s), Good((s \o Less) \o w),
         SafeFlushLen(Cascade(s \o Less)) < Len(Cascade(s \o Less))
  PROVE  LET d == Cascade(s \o Less)
             n == SafeFlushLen(d)
         IN  /\ Good(From(d, n + 1) \o w)
             /\ Cascade((s \o Less) \o w) = SubSeq(d, 1, n) \o Cascade(From(d, n + 1) \o w)
<1> DEFINE e == Cascade(s)
           d == e \o Less
           n == SafeFlushLen(d)
           v == Less \o w
<1>0. Less \in Text /\ Len(Less) = 1 /\ Less[1] = "<" /\ \A u \in Text : Whole(u, Less)
  BY LessProps
<1>1. Cascade(s \o Less) = d
  BY LastLess
<1>2. e \in Text /\ Len(e) \in Nat /\ Len(s) \in Nat /\ 1 \in 1..(Len(s) + 1) /\ From(s, 1) = s /\ Len(w) \in Nat
  BY FromOne, TextLen
<1>3. v \in Text /\ v # <<>> /\ v[1] = "<" /\ (s \o Less) \o w = s \o v
  <2>1. v \in Text /\ Len(v) = Len(Less) + Len(w) /\ \A m \in 1..Len(Less) : v[m] = Less[m]
    BY <1>0, JoinProps
  <2>2. (s \o Less) \o w = s \o v
    BY <1>0, Assoc
  <2> HIDE DEF v
  <2>3. 1 \in 1..Len(Less) /\ Len(v) # 0
    BY <1>0, <1>2, <2>1
  <2>4. v # <<>> /\ v[1] = "<"
    BY <1>0, <2>1, <2>3
  <2> QED
    BY <2>1, <2>2, <2>4
<1>4. Streamed(s, v)
  BY <1>3 DEF Streamed, Whole
<1>5. Good(e \o v) /\ Closed(e) /\ Cuts(e, v, Cascade(s \o v))
  <2>1. Shape(s, v, 1)
    BY <1>2, <1>4, ShapeHolds
  <2>2. Cuts(Cascade(From(s, 1)), v, Cascade(From(s \o v, 1)))
    BY <1>2, <1>4, RescanHolds
  <2>3. From(s \o v, 1) = s \o v
    BY <1>3, JoinText, FromOne
  <2> QED
    BY <1>2, <2>1, <2>2, <2>3 DEF Shape
<1> HIDE DEF e, v
<1>6. d \in Text /\ Len(d) = Len(e) + 1 /\ \A m \in 1..Len(e) : d[m] = e[m]
  <2>1. d \in Text /\ Len(d) = Len(e) + Len(Less) /\ \A m \in 1..Len(e) : d[m] = e[m]
    BY <1>0, <1>2, JoinProps
  <2> HIDE DEF d
  <2> QED
    BY <1>0, <1>2, <2>1
<1>7. Closed(d)
  <2>1. SUFFICES ASSUME NEW o \in Find(d, 1, Open) PROVE Find(d, o, Close) # {}
    BY DEF Closed
  <2>2. o \in 1..(Len(d) - 1) /\ At(d, o, Open)
    <3> HIDE DEF d
    <3>1. o \in 1..(Len(d) - 1)
      BY <1>6, <2>1, FindOpen
    <3> QED
      BY <2>1, <3>1 DEF Find
  <2>3. o \in 1..Len(e) /\ o \in Nat \ {0}
    BY <1>2, <1>6, <2>2
  <2>4. At(e, o, Open)
    BY <1>0, <1>2, <2>2, <2>3, NoNewOpen
  <2>5. Find(e, o, Close) # {}
    BY <1>5, <2>3, <2>4 DEF Closed, Find
  <2>6. PICK m \in o..Len(e) : e[m] = "/"
    BY <1>2, <2>3, <2>5, FindClose
  <2>7. m \in o..Len(d) /\ m \in 1..Len(e)
    BY <1>2, <1>6, <2>3
  <2>8. m \in Find(d, o, Close)
    BY <1>6, <2>3, <2>6, <2>7, FindClose
  <2> QED
    BY <2>8
<1> HIDE DEF d
<1>8. XmlHoldback(d) = 0
  BY <1>6, <1>7, ClosedHoldback
<1>9. n \in 0..Len(e) /\ Settles(e, n)
  <2> DEFINE keep == Min({Len(d), MaxKeyLen})
  <2>0. Len(d) \in Nat /\ MaxKeyLen \in Nat /\ \A k \in DOMAIN Display : Len(k) <= MaxKeyLen
    BY <1>6, TextLen, MaxKeyLenProps
  <2>1. keep \in {Len(d), MaxKeyLen} /\ keep <= Len(d)
    <3>1. {Len(d), MaxKeyLen} \subseteq Nat /\ {Len(d), MaxKeyLen} # {}
      BY <2>0
    <3> QED
      BY <3>1, MinProps
  <2>2. n = IF HasPrefixMatch(From(d, Len(d) - keep + 1)) THEN Len(d) - keep ELSE Len(d)
    BY <1>8 DEF SafeFlushLen
  <2>3. n < Len(d)
    BY <1>1
  <2> HIDE DEF keep, n
  <2>4. n = Len(d) - keep
    BY <2>0, <2>2, <2>3
  <2>5. n \in 0..Len(e)
    BY <1>2, <1>6, <2>0, <2>1, <2>3, <2>4
  <2>6. ASSUME NEW p \in 1..n, Pending(e, p) PROVE FALSE
    <3>1. PICK k \in DOMAIN Display : Len(k) > Len(e) - p + 1
      BY <2>6 DEF Pending
    <3>2. Len(k) \in Nat /\ Len(k) <= MaxKeyLen
      BY <2>0, KeyTyped
    <3> QED
      BY <1>2, <1>6, <2>0, <2>1, <2>4, <2>6, <3>1, <3>2
  <2> QED
    BY <2>5, <2>6 DEF Settles
<1> HIDE DEF n
<1>10. Cascade(s \o v) = SubSeq(e, 1, n) \o Cascade(From(e, n + 1) \o v)
  BY <1>5, <1>9 DEF Cuts, CutAt
<1>11. n + 1 \in 1..(Len(e) + 1) /\ 1 \in 1..(Len(e) + 1) /\ n \in (1 - 1)..Len(e) /\ 1 \in 1..(Len(d) + 1) /\ n \in (1 - 1)..Len(d)
  BY <1>2, <1>6, <1>9
<1>12. From(e, n + 1) \in Text /\ From(d, n + 1) = From(e, n + 1) \o Less
  BY <1>0, <1>2, <1>11, FromProps, FromJoin DEF d
<1>13. From(d, n + 1) \o w = From(e, n + 1) \o v
  <2> DEFINE f == From(e, n + 1)
  <2>1. f \in Text /\ From(d, n + 1) = f \o Less
    BY <1>12
  <2> HIDE DEF f
  <2>2. (f \o Less) \o w = f \o v
    BY <1>0, <2>1, Assoc DEF v
  <2>3. From(d, n + 1) \o w = f \o v
    BY <2>1, <2>2
  <2> QED
    BY <2>3 DEF f
<1>14. SubSeq(d, 1, n) = SubSeq(e, 1, n)
  <2>1. SubSeq(d, 1, n) \in Text /\ Len(SubSeq(d, 1, n)) = n - 1 + 1 /\ \A m \in 1..(n - 1 + 1) : SubSeq(d, 1, n)[m] = d[1 + m - 1]
    BY <1>6, <1>11, PieceProps
  <2>2. SubSeq(e, 1, n) \in Text /\ Len(SubSeq(e, 1, n)) = n - 1 + 1 /\ \A m \in 1..(n - 1 + 1) : SubSeq(e, 1, n)[m] = e[1 + m - 1]
    BY <1>2, <1>11, PieceProps
  <2>3. \A m \in 1..(n - 1 + 1) : d[1 + m - 1] = e[1 + m - 1]
    BY <1>2, <1>6, <1>9
  <2>4. \A m \in 1..Len(SubSeq(d, 1, n)) : SubSeq(d, 1, n)[m] = SubSeq(e, 1, n)[m]
    BY <2>1, <2>2, <2>3
  <2> QED
    BY <2>1, <2>2, <2>4, SameText
<1>15. Good(From(e, n + 1) \o v)
  <2>1. e \o v \in Text /\ Len(e \o v) = Len(e) + Len(v) /\ Len(v) \in Nat
    BY <1>2, <1>3, JoinProps, TextLen
  <2>2. n + 1 \in 1..(Len(e \o v) + 1)
    BY <1>2, <1>9, <2>1
  <2>3. Good(From(e \o v, n + 1))
    BY <1>5, <2>1, <2>2, GoodFrom
  <2>4. From(e \o v, n + 1) = From(e, n + 1) \o v
    BY <1>2, <1>3, <1>11, FromJoin
  <2> QED
    BY <2>3, <2>4
<1>16. Good(From(d, n + 1) \o w) /\ Cascade((s \o Less) \o w) = SubSeq(d, 1, n) \o Cascade(From(d, n + 1) \o w)
  BY <1>3, <1>10, <1>13, <1>14, <1>15
<1> QED
  BY <1>1, <1>16 DEF n

-----------------------------------------------------------------------------
(* The stream *)

\* With an empty vault the cascade changes nothing.
LEMMA EmptyVault ==
  ASSUME Apart, DOMAIN Display = {}, NEW x \in Text
  PROVE  Cascade(x) = x
<1> DEFINE S == {i \in 1..(Len(x) + 1) : Cascade(From(x, i)) = From(x, i)}
<1>0. Len(x) \in Nat /\ Len(x) + 1 \in 1..(Len(x) + 1) /\ 1 \in 1..(Len(x) + 1)
  BY TextLen
<1>1. Len(x) + 1 \in S
  BY <1>0, FromOne, CascadeEmpty
<1>2. ASSUME NEW i \in 1..Len(x), \A j \in (i + 1)..(Len(x) + 1) : j \in S PROVE i \in S
  <2>0. i \in Nat \ {0} /\ i \in 1..(Len(x) + 1)
    BY <1>0
  <2>1. CASE At(x, i, Open) /\ Find(x, i, Close) = {}
    BY <2>0, <2>1, CascadeAt
  <2>2. CASE At(x, i, Open) /\ Find(x, i, Close) # {}
    <3> DEFINE c == NextClose(x, i)
               b == TokenBody(x, i)
               s == Open \o b \o Close
    <3>1. /\ c \in (i + 2)..Len(x) /\ b \in Text /\ Len(b) = c - i - 2 /\ \A n \in 1..(c - i - 2) : b[n] = x[i + 1 + n]
          /\ c \in Find(x, i, Close)
      BY <2>0, <2>2, TokenProps, FindClose
    <3>2. x[c] = "/" /\ x[i] = "<" /\ x[i + 1] = "p"
      BY <2>0, <2>2, <3>1, FindClose, TagAt
    <3>3. Cascade(From(x, i)) = TokenOriginal(b) \o Cascade(From(x, c + 1))
      BY <2>2, CascadeAt
    <3> HIDE DEF c, b
    <3>4. /\ s \in Text /\ Len(s) = Len(b) + 3 /\ s[1] = "<" /\ s[2] = "p" /\ s[Len(b) + 3] = "/"
          /\ \A n \in 1..Len(b) : s[n + 2] = b[n]
      BY <3>1, TokenChars
    <3>5. TokenOriginal(b) = s
      BY DEF TokenOriginal, Apart
    <3> HIDE DEF s
    <3>6. i \in 1..(Len(x) + 1) /\ c \in (i - 1)..Len(x) /\ c + 1 \in (i + 1)..(Len(x) + 1) /\ Len(x) \in c..Len(x)
      BY <1>0, <2>0, <3>1
    <3>7. SubSeq(x, i, c) \in Text /\ Len(SubSeq(x, i, c)) = c - i + 1 /\ \A n \in 1..(c - i + 1) : SubSeq(x, i, c)[n] = x[i + n - 1]
      BY <3>6, PieceProps
    <3>8. Len(s) = c - i + 1 /\ Len(b) \in Nat
      BY <1>0, <3>1, <3>4
    <3>9. ASSUME NEW n \in 1..(c - i + 1) PROVE s[n] = SubSeq(x, i, c)[n]
      <4>1. CASE n = 1
        <5>1. i + 1 - 1 = i /\ 1 \in 1..(c - i + 1)
          BY <2>0, <3>1
        <5>2. SubSeq(x, i, c)[1] = x[i]
          BY <3>7, <5>1
        <5> QED
          BY <3>2, <3>4, <4>1, <5>2
      <4>2. CASE n = 2
        <5>1. i + 2 - 1 = i + 1 /\ 2 \in 1..(c - i + 1)
          BY <2>0, <3>1
        <5>2. SubSeq(x, i, c)[2] = x[i + 1]
          BY <3>7, <5>1
        <5> QED
          BY <3>2, <3>4, <4>2, <5>2
      <4>3. CASE n = c - i + 1
        <5>1. i + n - 1 = c /\ n = Len(b) + 3
          BY <2>0, <3>1, <3>4, <3>8, <4>3
        <5> QED
          BY <3>2, <3>4, <3>7, <5>1
      <4>4. CASE n \notin {1, 2, c - i + 1}
        <5>1. n - 2 \in 1..Len(b) /\ n - 2 \in 1..(c - i - 2) /\ (n - 2) + 2 = n /\ i + 1 + (n - 2) = i + n - 1
          BY <2>0, <3>1, <4>4
        <5>2. s[n] = b[n - 2]
          BY <3>4, <5>1
        <5>3. b[n - 2] = x[i + n - 1]
          BY <3>1, <5>1
        <5> QED
          BY <3>7, <5>2, <5>3
      <4> QED
        BY <4>1, <4>2, <4>3, <4>4
    <3>10. s = SubSeq(x, i, c)
      BY <3>4, <3>7, <3>8, <3>9, SameText
    <3>11. Cascade(From(x, c + 1)) = From(x, c + 1)
      BY <1>2, <3>6
    <3>12. SubSeq(x, i, c) \o SubSeq(x, c + 1, Len(x)) = SubSeq(x, i, Len(x))
      BY <3>6, PieceJoin
    <3>13. Cascade(From(x, i)) = From(x, i)
      BY <3>3, <3>5, <3>10, <3>11, <3>12 DEF From
    <3> QED
      BY <2>0, <3>13
  <2>3. CASE ~At(x, i, Open)
    <3>1. KeysAt(x, i) = {}
      BY DEF KeysAt
    <3>2. Piece(x, i) = <<x[i]>> /\ Jump(x, i) = i + 1
      BY <3>1 DEF Piece, Jump
    <3>3. Cascade(From(x, i)) = Piece(x, i) \o Cascade(From(x, Jump(x, i)))
      BY <2>3, CascadeAt
    <3>4. SubSeq(x, i, i) = <<x[i]>>
      BY OnePiece
    <3>5. i + 1 \in (i + 1)..(Len(x) + 1) /\ i \in (i - 1)..Len(x) /\ Len(x) \in i..Len(x)
      BY <1>0, <2>0
    <3>6. SubSeq(x, i, i) \o SubSeq(x, i + 1, Len(x)) = SubSeq(x, i, Len(x))
      BY <2>0, <3>5, PieceJoin
    <3>7. Cascade(From(x, i + 1)) = From(x, i + 1)
      BY <1>2, <3>5
    <3>8. Cascade(From(x, i)) = From(x, i)
      BY <3>2, <3>3, <3>4, <3>6, <3>7, Zenon DEF From
    <3> QED
      BY <2>0, <3>8
  <2> QED
    BY <2>1, <2>2, <2>3
<1>3. 1..(Len(x) + 1) \subseteq S
  <2> HIDE DEF S
  <2> QED
    BY <1>0, <1>1, <1>2, Backward
<1>4. Cascade(From(x, 1)) = From(x, 1)
  BY <1>0, <1>3
<1> QED
  BY <1>4, FromOne

\* What process_delta does with a text, whether the vault is empty or not.
LEMMA DoneStep ==
  ASSUME Apart, NEW t \in Text, NEW w \in Text, Good(t \o w), Whole(t, w)
  PROVE  /\ Good(From(Done(t), Safe(t) + 1) \o w)
         /\ Cascade(t \o w) = SubSeq(Done(t), 1, Safe(t)) \o Cascade(From(Done(t), Safe(t) + 1) \o w)
<1>1. CASE DOMAIN Display # {}
  BY <1>1, TextStep DEF Done, Safe
<1>2. CASE DOMAIN Display = {}
  <2>0. Len(t) \in Nat /\ 1 \in 1..(Len(t) + 1) /\ Len(w) \in Nat
    BY TextLen
  <2>1. Done(t) = t /\ Safe(t) = Len(t)
    BY <1>2 DEF Done, Safe
  <2>2. From(t, Len(t) + 1) = <<>> /\ SubSeq(t, 1, Len(t)) = t
    BY FromOne DEF From
  <2>3. <<>> \o w = w
    BY JoinAssoc
  <2>4. t \o w \in Text /\ Len(t \o w) = Len(t) + Len(w) /\ From(t \o w, Len(t) + 1) = w
    BY <2>0, JoinProps, JoinPieces
  <2>5. Good(w)
    <3>1. Len(t) + 1 \in 1..(Len(t \o w) + 1)
      BY <2>0, <2>4
    <3> QED
      BY <2>4, <3>1, GoodFrom
  <2>6. Cascade(t \o w) = t \o w /\ Cascade(w) = w
    BY <1>2, <2>4, EmptyVault
  <2> QED
    BY <2>1, <2>2, <2>3, <2>5, <2>6, Zenon
<1> QED
  BY <1>1, <1>2

\* What process_delta does with a text, when the next text does not go on with
\* an Open whose "<" has gone out.
LEMMA DeltaText ==
  ASSUME Apart, NEW t \in Text, NEW w \in Text, Good(t \o w),
         From(Done(t), Safe(t) + 1) = <<>> => Whole(Done(t), w)
  PROVE  /\ Good(From(Done(t), Safe(t) + 1) \o w)
         /\ Cascade(t \o w) = SubSeq(Done(t), 1, Safe(t)) \o Cascade(From(Done(t), Safe(t) + 1) \o w)
<1>1. CASE Whole(t, w)
  BY <1>1, DoneStep
<1>2. CASE ~Whole(t, w)
  <2> DEFINE n == Len(t) - 1
             s == SubSeq(t, 1, n)
  <2>0. t # <<>> /\ t[Len(t)] = "<" /\ w # <<>> /\ w[1] = "p"
    BY <1>2 DEF Whole
  <2>a. Len(t) \in Nat \ {0} /\ Len(w) \in Nat \ {0}
    BY <2>0 DEF Text
  <2>b. Less \in Text /\ Len(Less) = 1 /\ Less[1] = "<" /\ Less # <<>>
    BY LessProps
  <2>1. n \in 0..Len(t) /\ 1 \in 1..(Len(t) + 1) /\ n \in (1 - 1)..Len(t) /\ Len(t) \in n..Len(t) /\ n + 1 = Len(t)
        /\ n - 1 + 1 = n /\ Len(t) \in 1..Len(t)
    BY <2>a
  <2>2. s \in Text /\ Len(s) = n /\ \A m \in 1..n : s[m] = t[m]
    <3>1. s \in Text /\ Len(s) = n - 1 + 1 /\ \A m \in 1..(n - 1 + 1) : s[m] = t[1 + m - 1]
      BY <2>1, PieceProps
    <3>2. \A m \in 1..n : 1 + m - 1 = m
      BY <2>1
    <3> QED
      BY <2>1, <3>1, <3>2
  <2>3. t = s \o Less
    <3>1. SubSeq(t, Len(t), Len(t)) = <<t[Len(t)]>>
      BY <2>1, OnePiece
    <3>2. SubSeq(t, 1, n) \o SubSeq(t, n + 1, Len(t)) = SubSeq(t, 1, Len(t))
      BY <2>1, PieceJoin
    <3>3. SubSeq(t, 1, Len(t)) = t
      BY FromOne DEF From
    <3> QED
      BY <2>0, <2>1, <3>1, <3>2, <3>3 DEF Less
  <2>4. CASE DOMAIN Display = {}
    <3>1. Done(t) = t /\ Safe(t) = Len(t)
      BY <2>4 DEF Done, Safe
    <3>2. From(t, Len(t) + 1) = <<>>
      BY FromOne
    <3> QED
      BY <1>2, <3>1, <3>2
  <2>5. CASE DOMAIN Display # {} /\ Closed(t)
    <3>1. Closed(s)
      <4>1. SUFFICES ASSUME NEW o \in Find(s, 1, Open) PROVE Find(s, o, Close) # {}
        BY DEF Closed
      <4> HIDE DEF s, n
      <4>0. 1 \in Nat \ {0}
        OBVIOUS
      <4>2. o \in 1..(n - 1) /\ s[o] = "<" /\ s[o + 1] = "p"
        BY <2>2, <4>0, <4>1, FindOpen
      <4>3. o \in 1..(Len(t) - 1) /\ o \in 1..n /\ o + 1 \in 1..n /\ o \in Nat \ {0} /\ 1 \in Nat \ {0}
        BY <2>1, <4>2
      <4>4. o \in Find(t, 1, Open)
        BY <2>2, <4>2, <4>3, FindOpen
      <4>5. PICK c : c \in Find(t, o, Close)
        BY <2>5, <4>4 DEF Closed
      <4>6. c \in o..Len(t) /\ t[c] = "/"
        BY <4>3, <4>5, FindClose
      <4>7. c # Len(t)
        BY <2>0, <4>6
      <4>8. c \in o..n /\ c \in 1..n
        BY <2>1, <4>3, <4>6, <4>7
      <4>9. c \in Find(s, o, Close)
        BY <2>2, <4>3, <4>6, <4>8, FindClose
      <4> QED
        BY <4>9
    <3> DEFINE d == Cascade(t)
               e == Cascade(s)
    <3>2. d = e \o Less
      BY <2>2, <2>3, <3>1, LastLess
    <3>3. e \in Text /\ Len(e) \in Nat
      BY <2>2, FromOne, TextLen
    <3>4. d \in Text /\ Len(d) = Len(e) + 1 /\ d[Len(e) + 1] = "<"
      <4>1. e \o Less \in Text /\ Len(e \o Less) = Len(e) + Len(Less) /\ \A m \in 1..Len(Less) : (e \o Less)[Len(e) + m] = Less[m]
        <5> HIDE DEF e
        <5> QED
          BY <2>b, <3>3, JoinProps
      <4>2. 1 \in 1..Len(Less)
        BY <2>b
      <4> QED
        BY <2>b, <3>2, <4>1, <4>2
    <3>5. Done(t) = d /\ Safe(t) = SafeFlushLen(d)
      BY <2>5 DEF Done, Safe
    <3> HIDE DEF d, e
    <3>6. d # <<>> /\ Len(d) \in Nat
      BY <3>3, <3>4
    <3>7. ~Whole(d, w)
      BY <2>0, <3>4, <3>6 DEF Whole
    <3>8. From(d, SafeFlushLen(d) + 1) # <<>>
      BY <3>5, <3>7
    <3>9. SafeFlushLen(d) \in 0..Len(d)
      BY <3>4, SafeFlushProps
    <3>10. SafeFlushLen(d) # Len(d)
      BY <3>4, <3>8, FromOne
    <3>11. SafeFlushLen(d) < Len(d)
      BY <3>6, <3>9, <3>10
    <3>12. Good((s \o Less) \o w) /\ d = Cascade(s \o Less)
      BY <2>3 DEF d
    <3>13. /\ Good(From(d, SafeFlushLen(d) + 1) \o w)
           /\ Cascade((s \o Less) \o w) = SubSeq(d, 1, SafeFlushLen(d)) \o Cascade(From(d, SafeFlushLen(d) + 1) \o w)
      BY <2>2, <3>1, <3>11, <3>12, HeldStep
    <3> QED
      BY <2>3, <3>5, <3>13
  <2>6. CASE ~Closed(t)
    <3> DEFINE x == t \o w
    <3>1. PICK o \in Find(t, 1, Open) : Find(t, o, Close) = {}
      BY <2>6 DEF Closed
    <3>2. /\ x \in Text /\ Len(x) = Len(t) + Len(w) /\ (\A m \in 1..Len(t) : x[m] = t[m])
          /\ \A m \in 1..Len(w) : x[Len(t) + m] = w[m]
      BY JoinProps
    <3> HIDE DEF x
    <3>3. o \in 1..(Len(t) - 1) /\ t[o] = "<" /\ t[o + 1] = "p"
      BY <3>1, FindOpen
    <3>4. /\ o \in Nat \ {0} /\ o + 1 \in Nat \ {0} /\ o \in 1..(Len(x) - 1) /\ o \in 1..Len(t) /\ o + 1 \in 1..Len(t) /\ 1 \in Nat \ {0}
          /\ Len(t) \in (o + 1)..(Len(x) - 1) /\ 1 \in 1..Len(w)
      BY <2>a, <3>2, <3>3
    <3>5. o \in Find(x, 1, Open)
      BY <3>2, <3>3, <3>4, FindOpen
    <3>6. Len(t) \in Find(x, o + 1, Open)
      BY <2>0, <2>1, <3>2, <3>4, FindOpen
    <3>7. Find(x, o, Close) # {} /\ NextClose(x, o) < NextOpen(x, o + 1)
      <4>1. TokenOk(x, o)
        BY <3>5 DEF Good, x
      <4> QED
        BY <3>6, <4>1 DEF TokenOk
    <3>8. NextOpen(x, o + 1) <= Len(t) /\ NextOpen(x, o + 1) \in (o + 1)..(Len(x) - 1)
      BY <3>2, <3>4, <3>6, FindOpen
    <3>9. NextClose(x, o) \in o..Len(x) /\ x[NextClose(x, o)] = "/"
      BY <3>2, <3>4, <3>7, FindClose
    <3>10. NextClose(x, o) \in o..Len(t) /\ NextClose(x, o) \in 1..Len(t)
      BY <2>a, <3>4, <3>7, <3>8, <3>9
    <3>11. NextClose(x, o) \in Find(t, o, Close)
      BY <3>2, <3>4, <3>9, <3>10, FindClose
    <3> QED
      BY <3>1, <3>11
  <2> QED
    BY <2>4, <2>5, <2>6
<1> QED
  BY <1>1, <1>2

\* What has gone out since the last Open that was cut in two.
Sent == From(out, mark[2] + 1)
\* What has gone out, if nothing is held back behind it.
Tip == IF buffer = <<>> THEN out ELSE <<>>

\* What has gone out, and what the held back text becomes with anything that
\* may still come, are what the whole answer becomes.
Ahead(w) ==
  Whole(Tip, w) /\ Good(Part \o w) => Good(buffer \o w) /\ Cascade(Part \o w) = Sent \o Cascade(buffer \o w)
StreamTyped ==
  /\ input \in Text /\ buffer \in Text /\ out \in Text /\ ended \in BOOLEAN
  /\ mark[1] \in 0..Len(input) /\ mark[2] \in 0..Len(out)
StreamInv ==
  /\ StreamTyped
  /\ ~ended => \A w \in Text : Ahead(w)
  /\ ended => buffer = <<>> /\ (Good(Part) => Sent = Cascade(Part))

\* The parts are texts.
LEMMA PartTyped ==
  ASSUME StreamTyped
  PROVE  /\ Part \in Text /\ Sent \in Text /\ Len(input) \in Nat /\ Len(out) \in Nat
         /\ mark[1] + 1 \in 1..(Len(input) + 1) /\ mark[2] + 1 \in 1..(Len(out) + 1)
<1>1. Len(input) \in Nat /\ Len(out) \in Nat
  BY TextLen DEF StreamTyped
<1>2. mark[1] + 1 \in 1..(Len(input) + 1) /\ mark[2] + 1 \in 1..(Len(out) + 1)
  BY <1>1 DEF StreamTyped
<1> QED
  BY <1>1, <1>2, FromProps DEF StreamTyped, Part, Sent

\* It holds at the start.
LEMMA StreamInit == BufferInit => StreamInv
<1> SUFFICES ASSUME BufferInit PROVE StreamInv
  OBVIOUS
<1>1. input = <<>> /\ buffer = <<>> /\ out = <<>> /\ ended = FALSE /\ mark[1] = 0 /\ mark[2] = 0
  BY DEF BufferInit
<1>2. <<>> \in Text /\ Len(<<>>) = 0
  BY DEF Text
<1>3. Part = <<>> /\ Sent = <<>>
  <2>1. From(<<>>, 1) = <<>> /\ 0 + 1 = 1
    BY <1>2, FromOne
  <2> QED
    BY <1>1, <2>1 DEF Part, Sent
<1>4. ASSUME NEW w \in Text PROVE Ahead(w)
  <2>1. <<>> \o w = w
    BY JoinAssoc
  <2>2. Cascade(w) \in Text
    BY FromOne
  <2>3. <<>> \o Cascade(w) = Cascade(w)
    BY <2>2, JoinAssoc
  <2> QED
    BY <1>1, <1>3, <2>1, <2>3, Zenon DEF Ahead
<1>5. StreamTyped
  <2>1. 0 \in 0..0
    OBVIOUS
  <2> QED
    BY <1>1, <1>2, <2>1, Zenon DEF StreamTyped
<1> QED
  BY <1>1, <1>4, <1>5 DEF StreamInv

\* process_delta keeps it.
LEMMA StreamDelta ==
  ASSUME Apart, StreamInv, NEW delta \in Text, ProcessDelta(delta)
  PROVE  StreamInv'
<1> DEFINE t == buffer \o delta
           d == Done(t)
           p == SubSeq(Done(t), 1, Safe(t))
           q == From(Done(t), Safe(t) + 1)
<1>a. StreamTyped /\ input \in Text /\ buffer \in Text /\ out \in Text /\ ended \in BOOLEAN
  BY DEF StreamInv, StreamTyped
<1>b. /\ Part \in Text /\ Sent \in Text /\ Len(input) \in Nat /\ Len(out) \in Nat
      /\ mark[1] + 1 \in 1..(Len(input) + 1) /\ mark[2] + 1 \in 1..(Len(out) + 1)
  BY <1>a, PartTyped
<1>1. /\ ~ended /\ delta # <<>> /\ UNCHANGED ended
      /\ t \in Text /\ Done(t) \in Text /\ Safe(t) \in 0..Len(Done(t))
      /\ input' = input \o delta /\ buffer' = q /\ out' = out \o p
      /\ mark' = IF CutsOpen(delta) THEN <<Len(input), Len(out)>> ELSE mark
  BY <1>a, DeltaStep
<1>c. Len(delta) \in Nat /\ Len(delta) # 0
  BY <1>1 DEF Text
<1>d. d \in Text /\ Len(d) \in Nat
  BY <1>1, TextLen
<1>3. p \in Text /\ q \in Text /\ (q = <<>> => p = d)
  <2> DEFINE n == Safe(t)
  <2>1. d \in Text /\ n \in 0..Len(d) /\ p = SubSeq(d, 1, n) /\ q = From(d, n + 1)
    BY <1>1
  <2> HIDE DEF d, n, p, q
  <2>2. Len(d) \in Nat /\ 1 \in 1..(Len(d) + 1) /\ n \in (1 - 1)..Len(d) /\ n + 1 \in 1..(Len(d) + 1)
    BY <2>1, TextLen
  <2>3. SubSeq(d, 1, n) \in Text /\ From(d, n + 1) \in Text /\ Len(From(d, n + 1)) = Len(d) - (n + 1) + 1
    BY <2>1, <2>2, PieceProps, FromProps
  <2>4. q = <<>> => n = Len(d)
    BY <2>1, <2>2, <2>3
  <2>5. SubSeq(d, 1, Len(d)) = d
    BY <2>1, FromOne DEF From
  <2> QED
    BY <2>1, <2>3, <2>4, <2>5
<1>4. \A w \in Text : (q = <<>> => Whole(d, w)) /\ Good(t \o w) => Good(q \o w) /\ Cascade(t \o w) = p \o Cascade(q \o w)
  BY <1>1, DeltaText
<1>5. input' \in Text /\ buffer' \in Text /\ out' \in Text /\ ended' \in BOOLEAN /\ Len(input') = Len(input) + Len(delta) /\ Len(out') >= Len(out)
  <2>0. Len(input \o delta) = Len(input) + Len(delta)
    BY <1>a, JoinProps
  <2> HIDE DEF p, q
  <2>1. Len(out \o p) = Len(out) + Len(p) /\ Len(p) \in Nat
    BY <1>3, <1>a, JoinProps, TextLen
  <2> QED
    BY <1>1, <1>3, <1>a, <1>b, <2>0, <2>1, JoinText
<1>6. StreamTyped'
  <2>1. CASE CutsOpen(delta)
    <3>1. mark'[1] = Len(input) /\ mark'[2] = Len(out)
      BY <1>1, <2>1
    <3>2. mark'[1] \in 0..Len(input') /\ mark'[2] \in 0..Len(out')
      <4>1. Len(out') \in Nat /\ Len(input') \in Nat
        BY <1>5, TextLen
      <4> QED
        BY <1>5, <1>b, <1>c, <3>1, <4>1
    <3> QED
      BY <1>5, <3>2 DEF StreamTyped
  <2>2. CASE ~CutsOpen(delta)
    <3>1. mark' = mark
      BY <1>1, <2>2
    <3>2. mark[1] \in 0..Len(input') /\ mark[2] \in 0..Len(out')
      <4>1. Len(out') \in Nat /\ Len(input') \in Nat
        BY <1>5, TextLen
      <4> QED
        BY <1>5, <1>a, <1>b, <1>c, <4>1 DEF StreamTyped
    <3> QED
      BY <1>5, <3>1, <3>2 DEF StreamTyped
  <2> QED
    BY <2>1, <2>2
<1>7. ASSUME NEW w \in Text, Whole(Tip', w), q = <<>> PROVE Whole(d, w)
  <2>0. out' = out \o d /\ Tip' = out \o d
    BY <1>1, <1>3, <1>7 DEF Tip
  <2> HIDE DEF d
  <2>1. SUFFICES ASSUME d # <<>>, d[Len(d)] = "<" PROVE w = <<>> \/ w[1] # "p"
    BY DEF Whole
  <2>2. Len(d) # 0
    BY <1>d, <2>1 DEF Text
  <2>3. Len(out \o d) = Len(out) + Len(d) /\ Len(d) \in 1..Len(d) /\ (out \o d)[Len(out) + Len(d)] = d[Len(d)] /\ out \o d \in Text
    BY <1>a, <1>d, <2>2, JoinProps
  <2>4. out \o d # <<>>
    <3>1. Len(out \o d) # 0
      BY <1>b, <1>d, <2>2, <2>3
    <3> QED
      BY <3>1
  <2> QED
    BY <1>7, <2>0, <2>1, <2>3, <2>4 DEF Whole
<1>e. t = buffer \o delta
  OBVIOUS
<1> HIDE DEF t, p, q, d
<1>8. ASSUME NEW w \in Text, Whole(Tip', w), Good(Part' \o w)
      PROVE  Good(buffer' \o w) /\ Cascade(Part' \o w) = Sent' \o Cascade(buffer' \o w)
  <2>0. q = <<>> => Whole(d, w)
    BY <1>7, <1>8
  <2>1. CASE CutsOpen(delta)
    <3>1. buffer = <<>> /\ mark'[1] = Len(input) /\ mark'[2] = Len(out)
      BY <1>1, <2>1 DEF CutsOpen
    <3>2. t = delta
      BY <1>e, <3>1, JoinAssoc
    <3>3. Part' = delta
      <4>1. From(input \o delta, Len(input) + 1) = delta
        <5>1. 1 \in 1..(Len(input) + 1)
          BY <1>b
        <5> QED
          BY <1>a, <5>1, JoinPieces
      <4> QED
        BY <1>1, <3>1, <4>1 DEF Part
    <3>4. Sent' = p
      <4>1. From(out \o p, Len(out) + 1) = p
        <5>1. 1 \in 1..(Len(out) + 1)
          BY <1>b
        <5> QED
          BY <1>3, <1>a, <5>1, JoinPieces
      <4> QED
        BY <1>1, <3>1, <4>1 DEF Sent
    <3> QED
      BY <1>1, <1>4, <1>8, <2>0, <3>2, <3>3, <3>4, Zenon
  <2>2. CASE ~CutsOpen(delta)
    <3>0. mark' = mark /\ delta \o w \in Text
      BY <1>1, <2>2, JoinText
    <3>1. Part' = Part \o delta
      <4>1. From(input \o delta, mark[1] + 1) = From(input, mark[1] + 1) \o delta
        BY <1>a, <1>b, FromJoin
      <4> QED
        BY <1>1, <3>0, <4>1, Zenon DEF Part
    <3>2. Sent' = Sent \o p
      <4>1. From(out \o p, mark[2] + 1) = From(out, mark[2] + 1) \o p
        BY <1>3, <1>a, <1>b, FromJoin
      <4> QED
        BY <1>1, <3>0, <4>1, Zenon DEF Sent
    <3>3. Part' \o w = Part \o (delta \o w)
      BY <1>b, <3>1, Assoc
    <3>4. t \o w = buffer \o (delta \o w)
      BY <1>a, <1>e, Assoc
    <3>5. Whole(Tip, delta \o w)
      <4>1. (delta \o w)[1] = delta[1]
        <5>1. 1 \in 1..Len(delta)
          BY <1>c
        <5> QED
          BY <5>1, JoinProps
      <4>2. Open[1] = "<" /\ Open[2] = "p"
        BY DEF Open
      <4> QED
        BY <2>2, <4>1, <4>2 DEF Tip, Whole, CutsOpen
    <3>6. Good(buffer \o (delta \o w)) /\ Cascade(Part \o (delta \o w)) = Sent \o Cascade(buffer \o (delta \o w))
      BY <1>1, <1>8, <3>0, <3>3, <3>5 DEF StreamInv, Ahead
    <3>7. Good(q \o w) /\ Cascade(t \o w) = p \o Cascade(q \o w)
      BY <1>4, <2>0, <3>4, <3>6
    <3>8. (Sent \o p) \o Cascade(q \o w) = Sent \o (p \o Cascade(q \o w))
      <4> DEFINE r == Cascade(q \o w)
      <4>1. r \in Text
        BY <1>3, JoinText, FromOne
      <4> HIDE DEF r
      <4>3. p \in Text /\ Sent \in Text
        BY <1>3, <1>b
      <4>2. (Sent \o p) \o r = Sent \o (p \o r)
        BY <4>1, <4>3, Assoc
      <4> QED
        BY <4>2, Zenon DEF r
    <3> QED
      BY <1>1, <3>2, <3>3, <3>4, <3>6, <3>7, <3>8, Zenon
  <2> QED
    BY <2>1, <2>2
<1>9. \A w \in Text : Ahead(w)'
  BY <1>8 DEF Ahead
<1> QED
  BY <1>1, <1>6, <1>9 DEF StreamInv

\* flush_remaining keeps it.
LEMMA StreamFlush ==
  ASSUME StreamInv, FlushRemaining
  PROVE  StreamInv'
<1>a. input \in Text /\ buffer \in Text /\ out \in Text /\ StreamTyped
  BY DEF StreamInv, StreamTyped
<1>b. /\ Part \in Text /\ Sent \in Text /\ Len(out) \in Nat /\ mark[2] + 1 \in 1..(Len(out) + 1)
  BY <1>a, PartTyped
<1>1. ~ended /\ out' = out \o Cascade(buffer) /\ buffer' = <<>> /\ ended' = TRUE /\ input' = input /\ mark' = mark
  BY DEF FlushRemaining
<1>2. <<>> \in Text /\ Part \o <<>> = Part /\ buffer \o <<>> = buffer
  BY <1>a, <1>b, JoinAssoc
<1>3. Ahead(<<>>) /\ Whole(Tip, <<>>)
  BY <1>1, <1>2 DEF StreamInv, Whole
<1> DEFINE r == Cascade(buffer)
<1>4. r \in Text
  BY <1>a, FromOne
<1>5. Good(Part) => Sent \o r = Cascade(Part)
  BY <1>2, <1>3 DEF Ahead
<1> HIDE DEF r
<1>6. Sent' = Sent \o r /\ Part' = Part
  BY <1>1, <1>4, <1>a, <1>b, FromJoin DEF Sent, Part, r
<1>7. out' \in Text /\ Len(out') = Len(out) + Len(r) /\ Len(r) \in Nat
  BY <1>1, <1>4, <1>a, JoinProps, TextLen DEF r
<1>8. StreamTyped'
  BY <1>1, <1>2, <1>7, <1>a, <1>b DEF StreamTyped
<1> QED
  BY <1>1, <1>5, <1>6, <1>8 DEF StreamInv

\* However an answer is cut into deltas, what has gone out and what a flush
\* would add are what one replacement of the whole answer gives: process_delta
\* and flush_remaining together are apply_xml_token_cascade.  Where an Open is
\* cut in two behind its "<" and the "<" has gone out, this is so for the text
\* before the cut and for the text behind it, each for itself.  It needs a vault
\* that keeps synthetics and originals apart, and a text whose tokens are not
\* nested and are known to the vault or have no synthetic value in them.
THEOREM StreamingHolds == BufferSpec => []StreamingEqualsOneShot
<1>1. BufferInit => StreamInv
  BY StreamInit
<1>2. Apart /\ StreamInv /\ [BufferNext]_bufferVars => StreamInv'
  <2> SUFFICES ASSUME Apart, StreamInv, [BufferNext]_bufferVars PROVE StreamInv'
    OBVIOUS
  <2>1. CASE \E delta \in SeqOf(Chars, MaxText - Len(input)) : ProcessDelta(delta)
    BY <2>1, DeltaTyped, StreamDelta
  <2>2. CASE FlushRemaining
    BY <2>2, StreamFlush
  <2>3. CASE UNCHANGED bufferVars
    BY <2>3 DEF bufferVars, StreamInv, StreamTyped, Ahead, Part, Sent, Tip
  <2> QED
    BY <2>1, <2>2, <2>3 DEF BufferNext
<1>3. StreamInv => StreamingEqualsOneShot
  <2> SUFFICES ASSUME StreamInv, ~Nested(Part), TokensSettled(Part) PROVE PartSent = Cascade(Part)
    BY DEF StreamingEqualsOneShot
  <2>1. StreamTyped /\ buffer \in Text /\ ended \in BOOLEAN
    BY DEF StreamInv, StreamTyped
  <2>2. Part \in Text /\ Sent \in Text
    BY <2>1, PartTyped
  <2>3. Good(Part)
    BY <2>2, GoodAnswer
  <2>4. <<>> \in Text /\ Part \o <<>> = Part /\ buffer \o <<>> = buffer /\ Sent \o <<>> = Sent
    BY <2>1, <2>2, JoinAssoc
  <2>5. PartSent = Sent \o Cascade(buffer)
    BY DEF PartSent, Sent
  <2>6. CASE ended
    BY <2>3, <2>4, <2>5, <2>6, CascadeEmpty DEF StreamInv
  <2>7. CASE ~ended
    <3>1. Ahead(<<>>) /\ Whole(Tip, <<>>)
      BY <2>4, <2>7 DEF StreamInv, Whole
    <3> QED
      BY <2>3, <2>4, <2>5, <3>1 DEF Ahead
  <2> QED
    BY <2>6, <2>7
<1>4. ~Apart => StreamingEqualsOneShot
  BY DEF StreamingEqualsOneShot
<1>5. CASE Apart
  <2>1. StreamInv /\ [BufferNext]_bufferVars => StreamInv'
    BY <1>2, <1>5
  <2> QED
    BY <1>1, <1>3, <2>1, PTL DEF BufferSpec
<1>6. CASE ~Apart
  <2>1. StreamingEqualsOneShot /\ StreamingEqualsOneShot'
    BY <1>6 DEF StreamingEqualsOneShot, Apart
  <2> QED
    BY <2>1, PTL
<1> QED
  BY <1>5, <1>6

(***************************************************************************)
(*                              The registry                               *)
(***************************************************************************)

\* The process starts with an empty registry and idle connections.
LEMMA InitInv == Init => RegistryInv
  <1> SUFFICES ASSUME Init PROVE RegistryInv
    OBVIOUS
  <1> USE NoneAssumption, KeysAssumption DEF Init
  <1>1. TypeOK
    BY DEF TypeOK, Phases, Keys
  <1>2. HeldPhases /\ SessionKeysPrivate /\ NoSharedVault /\ HeldIsRegistered /\ SentIsMapped
    BY DEF HeldPhases, SessionKeysPrivate, NoSharedVault, HeldIsRegistered, SentIsMapped, Keys
  <1> QED
    BY <1>1, <1>2 DEF RegistryInv

\* Every step of a turn, an eviction and a restart keep the variables in their types.
LEMMA TypeStep == TypeOK /\ HeldPhases /\ SessionKeysPrivate /\ [Next]_vars => TypeOK'
  <1> SUFFICES ASSUME TypeOK, HeldPhases, SessionKeysPrivate, [Next]_vars PROVE TypeOK'
    OBVIOUS
  <1> USE NoneAssumption, KeysAssumption DEF TypeOK, Goto
  <1>1. ASSUME NEW c \in Conns, NEW k \in Convs, TurnOfConversation(c, k) PROVE TypeOK'
    BY <1>1 DEF TurnOfConversation, Keys, Phases
  <1>2. ASSUME NEW c \in Conns, TurnWithoutConversation(c) PROVE TypeOK'
    BY <1>2 DEF TurnWithoutConversation, Keys, Phases
  <1>3. ASSUME NEW c \in Conns, MergeInto(c) PROVE TypeOK'
    <2>1. key[c] \in Keys /\ c \in Keys /\ map[c] \in Handles \cup {None} /\ map[key[c]] \in Handles \cup {None}
      BY DEF Keys
    <2>2. Persisted(key[c]) \in SUBSET Originals
      BY DEF Persisted
    <2>3. map' \in [Keys -> Handles \cup {None}]
      BY <1>3, <2>1 DEF MergeInto, Fresh
    <2>4. heap' \in [Handles -> SUBSET Originals]
      BY <1>3, <2>1, <2>2 DEF MergeInto, Fresh
    <2> QED BY <1>3, <2>3, <2>4 DEF MergeInto, Phases
  <1>4. ASSUME NEW c \in Conns, Lookup(c) PROVE TypeOK'
    BY <1>4 DEF Lookup, Phases
  <1>5. ASSUME NEW c \in Conns, Load(c) PROVE TypeOK'
    BY <1>5 DEF Load, Persisted, Phases
  <1>6. ASSUME NEW c \in Conns, Insert(c) PROVE TypeOK'
    BY <1>6 DEF Insert, Register, Fresh, Phases
  <1>7. ASSUME NEW c \in Conns, NEW S \in SUBSET Originals, Pipeline(c, S) PROVE TypeOK'
    BY <1>7 DEF Pipeline, Phases, HeldPhases
  <1>8. ASSUME NEW c \in Conns, Snapshot(c) PROVE TypeOK'
    BY <1>8 DEF Snapshot, Phases, HeldPhases
  <1>9. ASSUME NEW c \in Conns, Save(c) PROVE TypeOK'
    BY <1>9 DEF Save, EndTurn, Phases
  <1>10. ASSUME NEW c \in Conns, EndWithoutSave(c) PROVE TypeOK'
    BY <1>10 DEF EndWithoutSave, EndTurn, Phases
  <1>11. ASSUME NEW k \in Keys, EvictExpired(k) PROVE TypeOK'
    BY <1>11 DEF EvictExpired
  <1>12. CASE Restart
    BY <1>12 DEF Restart, Keys, Phases
  <1>13. CASE UNCHANGED vars
    BY <1>13 DEF vars
  <1> QED
    BY <1>1, <1>2, <1>3, <1>4, <1>5, <1>6, <1>7, <1>8, <1>9, <1>10, <1>11, <1>12, <1>13 DEF Next, Turn

\* Every step preserves the inductive invariant.
LEMMA StepInv == RegistryInv /\ [Next]_vars => RegistryInv'
  <1> SUFFICES ASSUME RegistryInv, [Next]_vars PROVE RegistryInv'
    OBVIOUS
  <1> DEFINE Rest == HeldPhases /\ SessionKeysPrivate /\ NoSharedVault /\ HeldIsRegistered /\ SentIsMapped
  <1>0. TypeOK /\ TypeOK' /\ Rest
    BY TypeStep DEF RegistryInv
  <1> USE <1>0, NoneAssumption, KeysAssumption
  <1>1. ASSUME NEW c \in Conns, NEW k \in Convs, TurnOfConversation(c, k) PROVE Rest'
    BY <1>1 DEF TurnOfConversation, Goto, TypeOK, Keys,
                HeldPhases, SessionKeysPrivate, NoSharedVault, HeldIsRegistered, SentIsMapped
  <1>2. ASSUME NEW c \in Conns, TurnWithoutConversation(c) PROVE Rest'
    BY <1>2 DEF TurnWithoutConversation, Goto, TypeOK, Keys,
                HeldPhases, SessionKeysPrivate, NoSharedVault, HeldIsRegistered, SentIsMapped
  <1>3. ASSUME NEW c \in Conns, MergeInto(c) PROVE Rest'
    <2>1. /\ key[c] \in Convs /\ key[c] \in Keys /\ c \in Keys /\ key[c] # c
          /\ held[c] = None
      BY <1>3 DEF MergeInto, Goto, SessionKeysPrivate, HeldPhases, Keys
    <2>2. HeldPhases' /\ SessionKeysPrivate'
      BY <1>3 DEF MergeInto, Goto, TypeOK, HeldPhases, SessionKeysPrivate
    <2>3. NoSharedVault'
      BY <1>3, <2>1 DEF MergeInto, TypeOK, NoSharedVault, Fresh
    <2>4. HeldIsRegistered'
      <3> SUFFICES ASSUME TTLCoversTurn, NEW d \in Conns, held[d] # None
                   PROVE  map'[key[d]] = held[d]
        BY <1>3 DEF HeldIsRegistered, MergeInto
      <3>1. map[key[d]] = held[d] /\ key[d] \in Keys
        BY DEF HeldIsRegistered, TypeOK
      <3>2. key[d] # c
        BY <2>1 DEF SessionKeysPrivate
      <3> QED
        BY <1>3, <2>1, <3>1, <3>2 DEF MergeInto, TypeOK
    <2>5. SentIsMapped'
      <3> SUFFICES ASSUME NEW d \in Conns, pc[d] \in {"streaming", "save"}
                   PROVE  sent[d] \subseteq heap'[held[d]]
        BY <1>3 DEF SentIsMapped, MergeInto, Goto, TypeOK
      <3>1. sent[d] \subseteq heap[held[d]] /\ held[d] \in Handles
        BY DEF SentIsMapped, HeldPhases, TypeOK
      <3> QED
        BY <1>3, <3>1 DEF MergeInto, TypeOK, Fresh
    <2> QED BY <2>2, <2>3, <2>4, <2>5
  <1>4. ASSUME NEW c \in Conns, Lookup(c) PROVE Rest'
    BY <1>4 DEF Lookup, Goto, TypeOK,
                HeldPhases, SessionKeysPrivate, NoSharedVault, HeldIsRegistered, SentIsMapped
  <1>5. ASSUME NEW c \in Conns, Load(c) PROVE Rest'
    BY <1>5 DEF Load, Goto, TypeOK,
                HeldPhases, SessionKeysPrivate, NoSharedVault, HeldIsRegistered, SentIsMapped
  <1>6. ASSUME NEW c \in Conns, Insert(c) PROVE Rest'
    <2>1. HeldPhases' /\ SessionKeysPrivate'
      BY <1>6 DEF Insert, Register, Goto, TypeOK, HeldPhases, SessionKeysPrivate
    <2>2. NoSharedVault'
      BY <1>6 DEF Insert, Register, TypeOK, NoSharedVault, Fresh
    <2>3. HeldIsRegistered'
      BY <1>6 DEF Insert, Register, TypeOK, HeldIsRegistered, Fresh
    <2>4. SentIsMapped'
      <3> SUFFICES ASSUME NEW d \in Conns, pc'[d] \in {"streaming", "save"}
                   PROVE  sent[d] \subseteq heap'[held'[d]]
        BY <1>6 DEF SentIsMapped, Insert, Register
      <3>1. d # c /\ pc[d] \in {"streaming", "save"}
        BY <1>6 DEF Insert, Register, Goto, TypeOK
      <3>2. sent[d] \subseteq heap[held[d]] /\ held[d] \in Handles
        BY <3>1 DEF SentIsMapped, HeldPhases, TypeOK
      <3> QED
        BY <1>6, <3>1, <3>2 DEF Insert, Register, TypeOK, Fresh
    <2> QED BY <2>1, <2>2, <2>3, <2>4
  <1>7. ASSUME NEW c \in Conns, NEW S \in SUBSET Originals, Pipeline(c, S) PROVE Rest'
    <2>1. held[c] \in Handles
      BY <1>7 DEF Pipeline, Goto, HeldPhases, TypeOK
    <2>2. HeldPhases' /\ SessionKeysPrivate' /\ NoSharedVault' /\ HeldIsRegistered'
      BY <1>7 DEF Pipeline, Goto, TypeOK, HeldPhases, SessionKeysPrivate, NoSharedVault, HeldIsRegistered
    <2>3. SentIsMapped'
      <3> SUFFICES ASSUME NEW d \in Conns, pc'[d] \in {"streaming", "save"}
                   PROVE  sent'[d] \subseteq heap'[held[d]]
        BY <1>7 DEF SentIsMapped, Pipeline
      <3>1. CASE d = c
        BY <1>7, <2>1, <3>1 DEF Pipeline, TypeOK
      <3>2. CASE d # c
        <4>1. pc[d] \in {"streaming", "save"} /\ held[d] \in Handles /\ sent[d] \subseteq heap[held[d]]
          BY <1>7, <3>2 DEF Pipeline, Goto, SentIsMapped, HeldPhases, TypeOK
        <4> QED
          BY <1>7, <2>1, <3>2, <4>1 DEF Pipeline, TypeOK
      <3> QED BY <3>1, <3>2
    <2> QED BY <2>2, <2>3
  <1>8. ASSUME NEW c \in Conns, Snapshot(c) PROVE Rest'
    BY <1>8 DEF Snapshot, Goto, TypeOK,
                HeldPhases, SessionKeysPrivate, NoSharedVault, HeldIsRegistered, SentIsMapped
  <1>9. ASSUME NEW c \in Conns, Save(c) PROVE Rest'
    BY <1>9 DEF Save, EndTurn, Goto, TypeOK,
                HeldPhases, SessionKeysPrivate, NoSharedVault, HeldIsRegistered, SentIsMapped
  <1>10. ASSUME NEW c \in Conns, EndWithoutSave(c) PROVE Rest'
    BY <1>10 DEF EndWithoutSave, EndTurn, Goto, TypeOK,
                HeldPhases, SessionKeysPrivate, NoSharedVault, HeldIsRegistered, SentIsMapped
  <1>11. ASSUME NEW k \in Keys, EvictExpired(k) PROVE Rest'
    BY <1>11 DEF EvictExpired, TypeOK,
                 HeldPhases, SessionKeysPrivate, NoSharedVault, HeldIsRegistered, SentIsMapped
  <1>12. ASSUME Restart PROVE Rest'
    BY <1>12 DEF Restart, TypeOK, Keys,
                 HeldPhases, SessionKeysPrivate, NoSharedVault, HeldIsRegistered, SentIsMapped
  <1>13. ASSUME UNCHANGED vars PROVE Rest'
    BY <1>13 DEF vars, HeldPhases, SessionKeysPrivate, NoSharedVault, HeldIsRegistered, SentIsMapped
  <1>14. Rest'
    BY <1>1, <1>2, <1>3, <1>4, <1>5, <1>6, <1>7, <1>8, <1>9, <1>10, <1>11, <1>12, <1>13 DEF Next, Turn
  <1> QED
    BY <1>14 DEF RegistryInv

\* The invariant holds in every state of the registry.
THEOREM RegistryInvariant == Spec => []RegistryInv
  BY InitInv, StepInv, PTL DEF Spec

\* A vault is never registered under two keys.
THEOREM NoSharedVaultHolds == Spec => []NoSharedVault
  <1>1. RegistryInv => NoSharedVault
    BY DEF RegistryInv
  <1> QED
    BY <1>1, RegistryInvariant, PTL

\* Connections in a turn of one conversation share one vault instance, when
\* the TTL covers a turn.
THEOREM OneVaultPerKeyHolds ==
  ASSUME TTLCoversTurn
  PROVE  Spec => []OneVaultPerKey
  <1>1. RegistryInv => OneVaultPerKey
    BY DEF RegistryInv, HeldIsRegistered, OneVaultPerKey
  <1> QED
    BY <1>1, RegistryInvariant, PTL

\* No mapping that a turn in flight depends on is out of reach of the
\* conversation's other requests, when the TTL covers a turn.
THEOREM MappingsReachableHolds ==
  ASSUME TTLCoversTurn
  PROVE  Spec => []MappingsReachable
  <1>1. RegistryInv => MappingsReachable
    BY DEF RegistryInv, HeldPhases, HeldIsRegistered, SentIsMapped, MappingsReachable, Visible
  <1> QED
    BY <1>1, RegistryInvariant, PTL
=============================================================================
