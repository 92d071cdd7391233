------------------------- MODULE PiiPipelineProofs -------------------------
(***************************************************************************)
(* The vault of a conversation stays sound, what is found is replaced,     *)
(* and an echo is restored: for texts of any length and any number of      *)
(* requests, evictions and restarts.                                       *)
(*                                                                         *)
(* The argument about the vault follows the pairs <<original, synthetic>>  *)
(* in its maps: all of them were given out by some write, so where a       *)
(* synthetic is in one such pair only, the maps cannot disagree, in        *)
(* whatever order the writes come.  The one about texts follows the places *)
(* of their cells: where a cell of the client's text is in the forwarded   *)
(* text, as it is or as a token that the vault resolves to it.             *)
(***************************************************************************)
EXTENDS PiiPipeline, SubsequenceProofs, FiniteSetTheorems

-----------------------------------------------------------------------------
(* Types *)

\* Functions from a part of D to R.
Maps(D, R) == UNION {[S -> R] : S \in SUBSET D}

Row   == [original : Values, display : Displays, id : Nat \cup {NoId}]
Vault == [synth : Maps(Values, Displays), rows : Seq(Row), full : Maps(Nat \X Displays, Values),
          byId : Maps(Nat, Values), byDisplay : Maps(Displays, Values)]

\* What a map is after an entry was put into it.
PutInto(D, R, f, k, v) ==
  /\ Put(f, k, v) \in Maps(D, R)
  /\ DOMAIN Put(f, k, v) = DOMAIN f \cup {k}
  /\ Put(f, k, v)[k] = v
  /\ \A x \in DOMAIN f : x # k => Put(f, k, v)[x] = f[x]

\* Putting an entry into a map.
LEMMA PutFacts ==
  ASSUME NEW D, NEW R, NEW f \in Maps(D, R), NEW k \in D, NEW v \in R
  PROVE  PutInto(D, R, f, k, v)
  <1>1. PICK S \in SUBSET D : f \in [S -> R]
    BY DEF Maps
  <1>2. Put(f, k, v) \in [S \cup {k} -> R]
    BY <1>1 DEF Put
  <1>3. S \cup {k} \in SUBSET D
    OBVIOUS
  <1>4. Put(f, k, v) \in Maps(D, R)
    BY <1>2, <1>3, Zenon DEF Maps
  <1> QED
    BY <1>1, <1>4 DEF Put, PutInto

\* The empty map.
LEMMA EmptyMap ==
  ASSUME NEW D, NEW R
  PROVE  <<>> \in Maps(D, R) /\ DOMAIN <<>> = {}
  <1>1. DOMAIN <<>> = {}
    OBVIOUS
  <1>2. <<>> \in [{} -> R]
    BY <1>1
  <1> QED
    BY <1>1, <1>2, Zenon DEF Maps

-----------------------------------------------------------------------------
(* The pairs of a vault *)

DisplayPairs(v) == {<<v.byDisplay[d], d>> : d \in DOMAIN v.byDisplay}
TokenPairs(v)   == {<<v.full[x], x[2]>> : x \in DOMAIN v.full}

\* The pairs in P and those of the rows of v.
Given(v, P) == P \cup RowPairs(v)

\* The forward map is the rows, an original has one row, the display value of every token
\* is known, and an id stands for what a token with this id stands for.
Shape(v) ==
  /\ v \in Vault
  /\ IsFiniteSet(DOMAIN v.synth)
  /\ \A o \in DOMAIN v.synth : <<o, v.synth[o]>> \in RowPairs(v)
  /\ \A i \in DOMAIN v.rows : v.rows[i].original \in DOMAIN v.synth
                              /\ v.synth[v.rows[i].original] = v.rows[i].display
  /\ \A i, j \in DOMAIN v.rows : v.rows[i].original = v.rows[j].original => i = j
  /\ \A x \in DOMAIN v.full : x[2] \in DOMAIN v.byDisplay
  /\ \A id \in DOMAIN v.byId :
       \E d \in Displays : <<id, d>> \in DOMAIN v.full /\ v.full[<<id, d>>] = v.byId[id]

\* A vault of this shape in which the pairs of the index maps are those of its rows or in P.
PairsWithin(v, P) == Shape(v) /\ DisplayPairs(v) \subseteq Given(v, P) /\ TokenPairs(v) \subseteq Given(v, P)

\* A vault of this shape, whose pairs were all given out, is sound.
LEMMA ShapeSound ==
  ASSUME PairsWithin(vault, given), RowPairs(vault) \subseteq given
  PROVE  VaultSound
  <1>1. ASSUME NEW i \in DOMAIN vault.rows, Sole(vault.rows[i].display),
               vault.rows[i].display \in DOMAIN vault.byDisplay
        PROVE  vault.byDisplay[vault.rows[i].display] = vault.rows[i].original
    <2>1. <<vault.rows[i].original, vault.rows[i].display>> \in given
      BY DEF RowPairs
    <2>2. <<vault.byDisplay[vault.rows[i].display], vault.rows[i].display>> \in given
      BY <1>1 DEF PairsWithin, Given, DisplayPairs
    <2> QED
      BY <1>1, <2>1, <2>2 DEF Sole
  <1>2. ASSUME NEW x \in DOMAIN vault.full, Sole(x[2])
        PROVE  vault.full[x] = vault.byDisplay[x[2]]
    <2>1. <<vault.full[x], x[2]>> \in given
      BY DEF PairsWithin, Given, TokenPairs
    <2>2. x[2] \in DOMAIN vault.byDisplay
      BY DEF PairsWithin, Shape
    <2>3. <<vault.byDisplay[x[2]], x[2]>> \in given
      BY <2>2 DEF PairsWithin, Given, DisplayPairs
    <2> QED
      BY <1>2, <2>1, <2>3 DEF Sole
  <1> QED
    BY <1>1, <1>2 DEF VaultSound, PairsWithin, Shape

\* A new vault.
LEMMA EmptyWithin ==
  ASSUME NEW P
  PROVE  PairsWithin(EmptyVault, P)
  <1>1. EmptyVault \in Vault
    <2>1. <<>> \in Seq(Row)
      OBVIOUS
    <2> QED
      BY <2>1, EmptyMap DEF EmptyVault, Vault
  <1>2. /\ DOMAIN EmptyVault.synth = {} /\ DOMAIN EmptyVault.rows = {}
        /\ DOMAIN EmptyVault.byDisplay = {} /\ DOMAIN EmptyVault.full = {} /\ DOMAIN EmptyVault.byId = {}
    BY EmptyMap DEF EmptyVault
  <1>3. IsFiniteSet({})
    BY FS_EmptySet
  <1> QED
    BY <1>1, <1>2, <1>3 DEF PairsWithin, Shape, RowPairs, DisplayPairs, TokenPairs

\* What a write of the pair <<o, d>> leaves of a vault's forward map.
KeepsForward(v, w) ==
  /\ RowPairs(v) \subseteq RowPairs(w)
  /\ DOMAIN v.synth \subseteq DOMAIN w.synth
  /\ \A o \in DOMAIN v.synth : w.synth[o] = v.synth[o]

\* A vault w that is v with the pair <<o, d>>, if o was not known.
AddedAs(v, w, o, d, P) ==
  /\ PairsWithin(w, P) /\ KeepsForward(v, w)
  /\ o \in DOMAIN w.synth /\ (o \in DOMAIN v.synth \/ w.synth[o] = d)
  /\ RowPairs(w) \subseteq RowPairs(v) \cup {<<o, d>>}
  /\ w.full = v.full /\ w.byDisplay = v.byDisplay /\ w.byId = v.byId

\* add_mapping keeps the vault within P.
LEMMA AddWithin ==
  ASSUME NEW P, NEW v, PairsWithin(v, P), NEW o \in Values, NEW d \in Displays, NEW id \in Nat \cup {NoId}
  PROVE  AddedAs(v, AddMapping(v, o, d, id), o, d, P)
  <1>1. CASE o \in DOMAIN v.synth
    BY <1>1 DEF AddMapping, KeepsForward, AddedAs
  <1>2. CASE o \notin DOMAIN v.synth
    <2> DEFINE r == [original |-> o, display |-> d, id |-> id]
               w == [v EXCEPT !.synth = Put(@, o, d), !.rows = Append(@, r)]
    <2>0. AddMapping(v, o, d, id) = w
      BY <1>2 DEF AddMapping
    <2>1. r \in Row /\ r.original = o /\ r.display = d
      BY DEF Row
    <2>2. v \in Vault /\ v.synth \in Maps(Values, Displays) /\ v.rows \in Seq(Row)
      BY DEF PairsWithin, Shape, Vault
    <2> HIDE DEF r
    <2> DEFINE n == Len(v.rows)
    <2>3. Append(v.rows, r) \in Seq(Row) /\ n \in Nat /\ DOMAIN v.rows = 1..n
          /\ DOMAIN Append(v.rows, r) = 1..(n + 1) /\ Append(v.rows, r)[n + 1] = r
          /\ \A i \in 1..n : Append(v.rows, r)[i] = v.rows[i]
      BY <2>1, <2>2
    <2>4. /\ Put(v.synth, o, d) \in Maps(Values, Displays)
          /\ DOMAIN Put(v.synth, o, d) = DOMAIN v.synth \cup {o}
          /\ Put(v.synth, o, d)[o] = d
          /\ \A x \in DOMAIN v.synth : Put(v.synth, o, d)[x] = v.synth[x]
      <3>1. PutInto(Values, Displays, v.synth, o, d)
        BY <2>2, PutFacts, Zenon
      <3> QED
        BY <1>2, <3>1 DEF PutInto
    <2>5. /\ w.synth = Put(v.synth, o, d) /\ w.rows = Append(v.rows, r)
          /\ w.full = v.full /\ w.byDisplay = v.byDisplay /\ w.byId = v.byId
      BY <2>2 DEF Vault
    <2>6. w \in Vault
      <3> HIDE DEF n
      <3> QED
        BY <2>2, <2>3, <2>4 DEF Vault
    <2> HIDE DEF w, n
    <2>7. /\ DOMAIN w.rows = DOMAIN v.rows \cup {n + 1} /\ n + 1 \notin DOMAIN v.rows /\ w.rows[n + 1] = r
          /\ \A i \in DOMAIN v.rows : w.rows[i] = v.rows[i]
      BY <2>3, <2>5
    <2>8. /\ DOMAIN w.synth = DOMAIN v.synth \cup {o} /\ w.synth[o] = d
          /\ \A x \in DOMAIN v.synth : w.synth[x] = v.synth[x]
      BY <2>4, <2>5
    <2>9. RowPairs(w) = RowPairs(v) \cup {<<o, d>>} /\ DisplayPairs(w) = DisplayPairs(v) /\ TokenPairs(w) = TokenPairs(v)
      BY <2>1, <2>5, <2>7 DEF RowPairs, DisplayPairs, TokenPairs
    <2>10. IsFiniteSet(DOMAIN w.synth)
      BY <2>8, FS_AddElement DEF PairsWithin, Shape
    <2>11. /\ \A x \in DOMAIN v.synth : <<x, v.synth[x]>> \in RowPairs(v)
           /\ \A i \in DOMAIN v.rows : v.rows[i].original \in DOMAIN v.synth
                                       /\ v.synth[v.rows[i].original] = v.rows[i].display
           /\ \A i, j \in DOMAIN v.rows : v.rows[i].original = v.rows[j].original => i = j
           /\ \A x \in DOMAIN v.full : x[2] \in DOMAIN v.byDisplay
           /\ \A x \in DOMAIN v.byId :
                \E e \in Displays : <<x, e>> \in DOMAIN v.full /\ v.full[<<x, e>>] = v.byId[x]
      BY DEF PairsWithin, Shape
    <2>12. \A x \in DOMAIN w.synth : <<x, w.synth[x]>> \in RowPairs(w)
      BY <2>8, <2>9, <2>11
    <2>13. \A i \in DOMAIN w.rows : w.rows[i].original \in DOMAIN w.synth
                                   /\ w.synth[w.rows[i].original] = w.rows[i].display
      BY <2>1, <2>7, <2>8, <2>11
    <2>14. \A i, j \in DOMAIN w.rows : w.rows[i].original = w.rows[j].original => i = j
      BY <1>2, <2>1, <2>7, <2>11
    <2>15. Shape(w)
      BY <2>5, <2>6, <2>10, <2>11, <2>12, <2>13, <2>14 DEF Shape
    <2>16. DisplayPairs(w) \subseteq Given(w, P) /\ TokenPairs(w) \subseteq Given(w, P)
      BY <2>9 DEF PairsWithin, Given
    <2> QED
      BY <2>0, <2>5, <2>8, <2>9, <2>15, <2>16 DEF PairsWithin, KeepsForward, AddedAs
  <1> QED
    BY <1>1, <1>2

\* A vault w that is v with the index entries of a token.
IndexedAs(v, w, o, d, id, P) ==
  /\ PairsWithin(w, P) /\ w.synth = v.synth /\ w.rows = v.rows
  /\ DOMAIN w.full = DOMAIN v.full \cup {<<id, d>>}
  /\ w.full[<<id, d>>] = o

\* Filling the index maps keeps the vault within P.
LEMMA IndexedWithin ==
  ASSUME NEW P, NEW v, PairsWithin(v, P), NEW o \in Values, NEW d \in Displays, NEW id \in Nat,
         <<o, d>> \in Given(v, P)
  PROVE  IndexedAs(v, Indexed(v, o, d, id), o, d, id, P)
  <1> DEFINE w == [v EXCEPT !.full = Put(@, <<id, d>>, o), !.byId = Put(@, id, o), !.byDisplay = Put(@, d, o)]
  <1>0. Indexed(v, o, d, id) = w
    BY DEF Indexed
  <1>1. /\ v \in Vault /\ v.full \in Maps(Nat \X Displays, Values) /\ v.byId \in Maps(Nat, Values)
        /\ v.byDisplay \in Maps(Displays, Values) /\ <<id, d>> \in Nat \X Displays
    BY DEF PairsWithin, Shape, Vault
  <1>2. /\ Put(v.full, <<id, d>>, o) \in Maps(Nat \X Displays, Values)
        /\ DOMAIN Put(v.full, <<id, d>>, o) = DOMAIN v.full \cup {<<id, d>>}
        /\ Put(v.full, <<id, d>>, o)[<<id, d>>] = o
        /\ \A x \in DOMAIN v.full : x # <<id, d>> => Put(v.full, <<id, d>>, o)[x] = v.full[x]
    <2>1. PutInto(Nat \X Displays, Values, v.full, <<id, d>>, o)
      BY <1>1, PutFacts, Zenon
    <2> QED
      BY <2>1, Zenon DEF PutInto
  <1>3. /\ Put(v.byId, id, o) \in Maps(Nat, Values)
        /\ DOMAIN Put(v.byId, id, o) = DOMAIN v.byId \cup {id}
        /\ Put(v.byId, id, o)[id] = o
        /\ \A x \in DOMAIN v.byId : x # id => Put(v.byId, id, o)[x] = v.byId[x]
    <2>1. PutInto(Nat, Values, v.byId, id, o)
      BY <1>1, PutFacts, Zenon
    <2> QED
      BY <2>1, Zenon DEF PutInto
  <1>4. /\ Put(v.byDisplay, d, o) \in Maps(Displays, Values)
        /\ DOMAIN Put(v.byDisplay, d, o) = DOMAIN v.byDisplay \cup {d}
        /\ Put(v.byDisplay, d, o)[d] = o
        /\ \A x \in DOMAIN v.byDisplay : x # d => Put(v.byDisplay, d, o)[x] = v.byDisplay[x]
    <2>1. PutInto(Displays, Values, v.byDisplay, d, o)
      BY <1>1, PutFacts, Zenon
    <2> QED
      BY <2>1, Zenon DEF PutInto
  <1>5. /\ w.full = Put(v.full, <<id, d>>, o) /\ w.byDisplay = Put(v.byDisplay, d, o)
        /\ w.synth = v.synth /\ w.rows = v.rows /\ w.byId = Put(v.byId, id, o)
    BY <1>1 DEF Vault
  <1>6. w \in Vault
    BY <1>1, <1>2, <1>3, <1>4 DEF Vault
  <1> HIDE DEF w
  <1>7. DOMAIN w.byDisplay = DOMAIN v.byDisplay \cup {d} /\ w.byDisplay[d] = o
        /\ \A x \in DOMAIN v.byDisplay : x # d => w.byDisplay[x] = v.byDisplay[x]
    BY <1>4, <1>5
  <1>8. DOMAIN w.full = DOMAIN v.full \cup {<<id, d>>} /\ w.full[<<id, d>>] = o
        /\ \A x \in DOMAIN v.full : x # <<id, d>> => w.full[x] = v.full[x]
    BY <1>2, <1>5
  <1>9. /\ DisplayPairs(w) \subseteq DisplayPairs(v) \cup {<<o, d>>} /\ RowPairs(w) = RowPairs(v)
        /\ TokenPairs(w) \subseteq TokenPairs(v) \cup {<<o, d>>}
    <2>1. DisplayPairs(w) \subseteq DisplayPairs(v) \cup {<<o, d>>}
      BY <1>7 DEF DisplayPairs
    <2>2. ASSUME NEW x \in DOMAIN w.full PROVE <<w.full[x], x[2]>> \in TokenPairs(v) \cup {<<o, d>>}
      <3>1. CASE x = <<id, d>>
        BY <1>8, <3>1
      <3>2. CASE x # <<id, d>>
        BY <1>8, <3>2 DEF TokenPairs
      <3> QED
        BY <3>1, <3>2
    <2> QED
      BY <1>5, <2>1, <2>2 DEF RowPairs, TokenPairs
  <1>10. \A x \in DOMAIN w.full : x[2] \in DOMAIN w.byDisplay
    BY <1>7, <1>8 DEF PairsWithin, Shape
  <1>13. ASSUME NEW x \in DOMAIN w.byId
         PROVE  \E e \in Displays : <<x, e>> \in DOMAIN w.full /\ w.full[<<x, e>>] = w.byId[x]
    <2>1. CASE x = id
      BY <1>3, <1>5, <1>8, <2>1
    <2>2. CASE x # id
      <3>1. x \in DOMAIN v.byId /\ w.byId[x] = v.byId[x]
        BY <1>3, <1>5, <2>2
      <3>2. PICK e \in Displays : <<x, e>> \in DOMAIN v.full /\ v.full[<<x, e>>] = v.byId[x]
        BY <3>1 DEF PairsWithin, Shape
      <3>3. <<x, e>> # <<id, d>>
        BY <2>2
      <3> QED
        BY <1>8, <3>1, <3>2, <3>3
    <2> QED
      BY <2>1, <2>2
  <1>11. Shape(w)
    BY <1>5, <1>6, <1>9, <1>10, <1>13 DEF PairsWithin, Shape
  <1>12. DisplayPairs(w) \subseteq Given(w, P) /\ TokenPairs(w) \subseteq Given(w, P)
    BY <1>9 DEF PairsWithin, Given
  <1> QED
    BY <1>0, <1>5, <1>8, <1>11, <1>12 DEF PairsWithin, IndexedAs

-----------------------------------------------------------------------------
(* Writes *)

\* A vault that has the mappings and the tokens of v, and perhaps more.
Grows(v, w) == KeepsForward(v, w) /\ DOMAIN v.full \subseteq DOMAIN w.full

\* A vault with the mapping and the token of a write, within P.
Takes(v, w, id, d, P) == PairsWithin(w, P) /\ Grows(v, w) /\ <<id, d>> \in DOMAIN w.full

\* add_mapping_with_token_id keeps the vault within P.
LEMMA AddTokenWithin ==
  ASSUME NEW P, NEW v, PairsWithin(v, P), NEW o \in Values, NEW d \in Displays, NEW id \in Nat,
         <<o, d>> \in Given(v, P)
  PROVE  Takes(v, AddMappingWithTokenId(v, o, d, id), id, d, P)
  <1> DEFINE u == AddMapping(v, o, d, id)
             w == Indexed(u, o, d, id)
  <1>1. PairsWithin(u, P) /\ KeepsForward(v, u) /\ u.full = v.full
    BY AddWithin DEF AddedAs
  <1> HIDE DEF u
  <1>a. <<o, d>> \in Given(u, P)
    BY <1>1 DEF KeepsForward, Given
  <1>2. IndexedAs(u, w, o, d, id, P)
    BY <1>1, <1>a, IndexedWithin, Zenon
  <1>3. AddMappingWithTokenId(v, o, d, id) = w
    BY DEF AddMappingWithTokenId, u
  <1> HIDE DEF w
  <1> QED
    BY <1>1, <1>2, <1>3 DEF IndexedAs, Takes, Grows, KeepsForward, RowPairs

\* Growing is transitive.
LEMMA GrowsOn ==
  ASSUME NEW u, NEW v, NEW w, Grows(u, v), Grows(v, w)
  PROVE  Grows(u, w)
  BY DEF Grows, KeepsForward

\* from_records of one record keeps the vault within P.
LEMMA RestoreWithin ==
  ASSUME NEW P, NEW v, PairsWithin(v, P), RowPairs(v) \subseteq P, NEW r \in Row, <<r.original, r.display>> \in P
  PROVE  PairsWithin(Restore(v, r), P) /\ RowPairs(Restore(v, r)) \subseteq P
  <1> DEFINE u == AddMapping(v, r.original, r.display, r.id)
  <1>0. r.original \in Values /\ r.display \in Displays /\ r.id \in Nat \cup {NoId}
    BY DEF Row
  <1>1. PairsWithin(u, P) /\ RowPairs(u) \subseteq P
    <2>1. AddedAs(v, u, r.original, r.display, P)
      BY <1>0, AddWithin, Zenon
    <2> HIDE DEF u
    <2>2. PairsWithin(u, P)
      BY <2>1, Zenon DEF AddedAs
    <2>3. RowPairs(u) \subseteq RowPairs(v) \cup {<<r.original, r.display>>}
      BY <2>1, Zenon DEF AddedAs
    <2> QED
      BY <2>2, <2>3
  <1> HIDE DEF u
  <1>2. CASE r.id = NoId
    BY <1>1, <1>2 DEF Restore, u
  <1>3. CASE r.id # NoId
    <2>1. LET w == Indexed(u, r.original, r.display, r.id) IN PairsWithin(w, P) /\ w.rows = u.rows
      <3>1. r.id \in Nat /\ <<r.original, r.display>> \in Given(u, P)
        BY <1>0, <1>3 DEF Given
      <3>2. IndexedAs(u, Indexed(u, r.original, r.display, r.id), r.original, r.display, r.id, P)
        BY <1>0, <1>1, <3>1, IndexedWithin, Zenon
      <3> QED
        BY <3>2, Zenon DEF IndexedAs
    <2> QED
      BY <1>1, <1>3, <2>1 DEF Restore, u, RowPairs
  <1> QED
    BY <1>2, <1>3

\* One step of the recursion that defines RestoredTo.
RestoreStep(rows, f, n) == IF n = 0 THEN EmptyVault ELSE Restore(f[n - 1], rows[n])

\* RestoredTo solves its recursive definition.
LEMMA RestoredToDef ==
  ASSUME NEW rows, Len(rows) \in Nat
  PROVE  RestoredTo(rows) = [n \in 0..Len(rows) |-> RestoreStep(rows, RestoredTo(rows), n)]
  <1> DEFINE Solved == {m \in Nat : \E f : f = [n \in 0..m |-> RestoreStep(rows, f, n)]}
  <1>1. 0 \in Solved
    <2> DEFINE g == [n \in 0..0 |-> EmptyVault]
    <2>1. g = [n \in 0..0 |-> RestoreStep(rows, g, n)]
      BY DEF RestoreStep
    <2> QED
      BY <2>1
  <1>2. \A m \in Nat : m \in Solved => m + 1 \in Solved
    <2> SUFFICES ASSUME NEW m \in Nat, m \in Solved PROVE m + 1 \in Solved
      OBVIOUS
    <2>1. PICK f : f = [n \in 0..m |-> RestoreStep(rows, f, n)]
      OBVIOUS
    <2> DEFINE g == [n \in 0..(m + 1) |-> IF n <= m THEN f[n] ELSE RestoreStep(rows, f, n)]
    <2>2. \A n \in 0..(m + 1) : RestoreStep(rows, g, n) = RestoreStep(rows, f, n)
      BY DEF RestoreStep
    <2>3. \A n \in 0..(m + 1) : g[n] = RestoreStep(rows, g, n)
      BY <2>1, <2>2
    <2>4. g = [n \in 0..(m + 1) |-> RestoreStep(rows, g, n)]
      BY <2>3
    <2> QED
      BY <2>4
  <1>3. Nat \subseteq Solved
    BY <1>1, <1>2, NatInductionSet, Zenon
  <1>4. PICK f : f = [n \in 0..Len(rows) |-> RestoreStep(rows, f, n)]
    BY <1>3
  <1> QED
    BY <1>4, Zenon DEF RestoredTo, RestoreStep

\* A vault that is loaded from records whose pairs are in P is within P.
LEMMA RestoredWithin ==
  ASSUME NEW P, NEW rows \in Seq(Row),
         \A i \in DOMAIN rows : <<rows[i].original, rows[i].display>> \in P
  PROVE  PairsWithin(RestoredTo(rows)[Len(rows)], P) /\ RowPairs(RestoredTo(rows)[Len(rows)]) \subseteq P
  <1> DEFINE f == RestoredTo(rows)
             T == {n \in Nat : n <= Len(rows) => PairsWithin(f[n], P) /\ RowPairs(f[n]) \subseteq P}
  <1>0. Len(rows) \in Nat /\ DOMAIN rows = 1..Len(rows)
    OBVIOUS
  <1>1. f = [n \in 0..Len(rows) |-> RestoreStep(rows, f, n)]
    BY <1>0, RestoredToDef
  <1> HIDE DEF f
  <1>2. \A n \in 0..Len(rows) : f[n] = RestoreStep(rows, f, n)
    BY <1>1
  <1>3. 0 \in T
    <2>1. f[0] = EmptyVault
      BY <1>0, <1>2 DEF RestoreStep
    <2>2. DOMAIN EmptyVault.rows = {}
      BY DEF EmptyVault
    <2> QED
      BY <2>1, <2>2, EmptyWithin DEF RowPairs
  <1>4. \A n \in Nat : n \in T => n + 1 \in T
    <2> SUFFICES ASSUME NEW n \in Nat, n \in T, n + 1 <= Len(rows) PROVE PairsWithin(f[n + 1], P) /\ RowPairs(f[n + 1]) \subseteq P
      OBVIOUS
    <2>1. PairsWithin(f[n], P) /\ RowPairs(f[n]) \subseteq P /\ n + 1 \in DOMAIN rows
      BY <1>0
    <2>2. f[n + 1] = Restore(f[n], rows[n + 1])
      BY <1>0, <1>2, <2>1 DEF RestoreStep
    <2>3. rows[n + 1] \in Row /\ <<rows[n + 1].original, rows[n + 1].display>> \in P
      BY <2>1
    <2> QED
      BY <2>1, <2>2, <2>3, RestoreWithin
  <1>5. Nat \subseteq T
    BY <1>3, <1>4, NatInductionSet, Zenon
  <1> QED
    BY <1>0, <1>5 DEF f

\* A write that the vault can take: its pair is in P, or there is a synthetic for its value.
WriteOK(w, known, gen, P) ==
  /\ w.stage \in {1, 2} /\ w.value \in Values /\ w.id \in Nat
  /\ w.stage = 1 => w.display \in Displays /\ <<w.value, w.display>> \in P
  /\ w.stage = 2 => w.value \in known \/ gen[w.value] \in Displays

\* The token that stands for the value of a write.
TokenFor(v, w, token, P) ==
  \E d \in Displays : token = Token(w.id, d) /\ <<w.id, d>> \in DOMAIN v.full /\ <<w.value, d>> \in Given(v, P)

\* The first n writes have been made: the vault has their tokens, and every original has one.
Wrote(v, acc, ws, n, P) ==
  /\ acc = [vault |-> acc.vault, token |-> acc.token]
  /\ PairsWithin(acc.vault, P) /\ Grows(v, acc.vault)
  /\ \A p \in DOMAIN acc.token :
       \E k \in 1..n : ws[k].stage = 2 /\ ws[k].pos = p /\ TokenFor(acc.vault, ws[k], acc.token[p], P)
  /\ \A k \in 1..n : ws[k].stage = 2 /\ ws[k].value \in Originals => ws[k].pos \in DOMAIN acc.token

\* The rows of a vault.
LEMMA RowTypes ==
  ASSUME NEW v, Shape(v), NEW i \in DOMAIN v.rows
  PROVE  v.rows[i].original \in Values /\ v.rows[i].display \in Displays
  <1>1. v.rows \in Seq(Row)
    BY DEF Shape, Vault
  <1>2. v.rows[i] \in Row
    BY <1>1
  <1> QED
    BY <1>2 DEF Row

\* A synthetic of the vault is no original.
LEMMA SyntheticDisplay ==
  ASSUME NEW v, Shape(v), NEW o \in Originals
  PROVE  ~IsSynthetic(v, o)
  <1>1. \A i \in DOMAIN v.rows : v.rows[i].display \in Displays
    BY RowTypes
  <1> QED
    BY <1>1, CellAssumption DEF IsSynthetic

\* One more write.
LEMMA WriteStep ==
  ASSUME NEW P, NEW v, NEW acc, NEW ws, NEW n \in Nat, NEW gen,
         Wrote(v, acc, ws, n, P), WriteOK(ws[n + 1], DOMAIN v.synth, gen, P)
  PROVE  Wrote(v, Write(acc, ws[n + 1], gen), ws, n + 1, P)
  <1> DEFINE w == ws[n + 1]
             new == Write(acc, w, gen)
  <1>0. \A k \in 1..(n + 1) : k \in 1..n \/ k = n + 1
    OBVIOUS
  <1>a. n + 1 \in 1..(n + 1) /\ \A k \in 1..n : k \in 1..(n + 1)
    OBVIOUS
  <1>1. /\ acc = [vault |-> acc.vault, token |-> acc.token] /\ PairsWithin(acc.vault, P) /\ Grows(v, acc.vault)
        /\ \A p \in DOMAIN acc.token :
             \E k \in 1..n : ws[k].stage = 2 /\ ws[k].pos = p /\ TokenFor(acc.vault, ws[k], acc.token[p], P)
        /\ \A k \in 1..n : ws[k].stage = 2 /\ ws[k].value \in Originals => ws[k].pos \in DOMAIN acc.token
    BY DEF Wrote
  <1>2. /\ w.stage \in {1, 2} /\ w.value \in Values /\ w.id \in Nat
        /\ w.stage = 1 => w.display \in Displays /\ <<w.value, w.display>> \in P
        /\ w.stage = 2 => w.value \in DOMAIN v.synth \/ gen[w.value] \in Displays
    BY DEF WriteOK
  <1>3. CASE w.stage = 1
    <2> DEFINE u == AddMappingWithTokenId(acc.vault, w.value, w.display, w.id)
    <2>1. Takes(acc.vault, u, w.id, w.display, P)
      <3>1. <<w.value, w.display>> \in Given(acc.vault, P)
        BY <1>2, <1>3 DEF Given
      <3> QED
        BY <1>1, <1>2, <1>3, <3>1, AddTokenWithin
    <2>2. new = [acc EXCEPT !.vault = u]
      BY <1>3 DEF Write
    <2> HIDE DEF u, new, w
    <2>3. new = [vault |-> u, token |-> acc.token] /\ new.vault = u /\ new.token = acc.token
      BY <1>1, <2>2
    <2>4. PairsWithin(u, P) /\ Grows(acc.vault, u) /\ Grows(v, u) /\ <<w.id, w.display>> \in DOMAIN u.full
      BY <1>1, <2>1, GrowsOn DEF Takes
    <2>5. DOMAIN acc.vault.full \subseteq DOMAIN u.full /\ RowPairs(acc.vault) \subseteq RowPairs(u)
      BY <2>4 DEF Grows, KeepsForward
    <2>6. \A p \in DOMAIN acc.token :
            \E k \in 1..(n + 1) : ws[k].stage = 2 /\ ws[k].pos = p /\ TokenFor(u, ws[k], acc.token[p], P)
      <3> SUFFICES ASSUME NEW p \in DOMAIN acc.token
                   PROVE  \E k \in 1..(n + 1) : /\ ws[k].stage = 2 /\ ws[k].pos = p
                                                /\ TokenFor(u, ws[k], acc.token[p], P)
        OBVIOUS
      <3>1. PICK k \in 1..n : ws[k].stage = 2 /\ ws[k].pos = p /\ TokenFor(acc.vault, ws[k], acc.token[p], P)
        BY <1>1
      <3>2. TokenFor(u, ws[k], acc.token[p], P)
        BY <2>5, <3>1 DEF TokenFor, Given
      <3> QED
        BY <1>a, <3>1, <3>2
    <2>7. \A k \in 1..(n + 1) : ws[k].stage = 2 /\ ws[k].value \in Originals => ws[k].pos \in DOMAIN acc.token
      BY <1>0, <1>1, <1>3 DEF w
    <2>9. Wrote(v, new, ws, n + 1, P)
      BY <2>3, <2>4, <2>6, <2>7 DEF Wrote
    <2> QED
      BY <2>9 DEF new, w
  <1>4. CASE w.stage = 2 /\ IsSynthetic(acc.vault, w.value)
    <2>1. new = acc
      BY <1>4 DEF Write
    <2>2. w.value \notin Originals
      BY <1>1, <1>4, SyntheticDisplay DEF PairsWithin
    <2> HIDE DEF new
    <2>3. \A k \in 1..(n + 1) : ws[k].stage = 2 /\ ws[k].value \in Originals => ws[k].pos \in DOMAIN acc.token
      BY <1>0, <1>1, <2>2
    <2>5. Wrote(v, acc, ws, n + 1, P)
      BY <1>a, <1>1, <2>3 DEF Wrote
    <2> QED
      BY <2>1, <2>5 DEF new
  <1>5. CASE w.stage = 2 /\ ~IsSynthetic(acc.vault, w.value)
    <2> DEFINE d == GetOrCreate(acc.vault, w.value, gen)
               u0 == AddMapping(acc.vault, w.value, d, NoId)
               u == AddMappingWithTokenId(u0, w.value, d, w.id)
    <2>1. d \in Displays /\ (w.value \in DOMAIN acc.vault.synth => d = acc.vault.synth[w.value])
      <3>1. CASE w.value \in DOMAIN acc.vault.synth
        <4>1. d = acc.vault.synth[w.value]
          BY <3>1 DEF GetOrCreate
        <4>2. <<w.value, d>> \in RowPairs(acc.vault)
          BY <1>1, <3>1, <4>1 DEF PairsWithin, Shape
        <4>3. PICK i \in DOMAIN acc.vault.rows : d = acc.vault.rows[i].display
          BY <4>2 DEF RowPairs
        <4> QED
          BY <1>1, <4>1, <4>3, RowTypes DEF PairsWithin
      <3>2. CASE w.value \notin DOMAIN acc.vault.synth
        <4>1. w.value \notin DOMAIN v.synth
          BY <1>1, <3>2 DEF Grows, KeepsForward
        <4> QED
          BY <1>2, <1>5, <3>2, <4>1 DEF GetOrCreate
      <3> QED
        BY <3>1, <3>2
    <2> HIDE DEF d
    <2>2. PairsWithin(u0, P) /\ Grows(acc.vault, u0) /\ <<w.value, d>> \in Given(u0, P)
      <3>1. /\ PairsWithin(u0, P) /\ KeepsForward(acc.vault, u0) /\ u0.full = acc.vault.full
            /\ w.value \in DOMAIN u0.synth /\ (w.value \in DOMAIN acc.vault.synth \/ u0.synth[w.value] = d)
        BY <1>1, <1>2, <2>1, AddWithin DEF AddedAs
      <3>2. u0.synth[w.value] = d
        BY <2>1, <3>1 DEF KeepsForward
      <3>3. <<w.value, d>> \in RowPairs(u0)
        BY <3>1, <3>2 DEF PairsWithin, Shape
      <3> QED
        BY <3>1, <3>3 DEF Grows, Given
    <2> HIDE DEF u0
    <2>3. Takes(u0, u, w.id, d, P)
      BY <1>2, <2>1, <2>2, AddTokenWithin
    <2>4. new = [acc EXCEPT !.vault = u, !.token = Put(@, w.pos, Token(w.id, d))]
      BY <1>5 DEF Write, d, u0
    <2> HIDE DEF u, new, w
    <2>5. new = [vault |-> u, token |-> Put(acc.token, w.pos, Token(w.id, d))]
          /\ new.vault = u /\ new.token = Put(acc.token, w.pos, Token(w.id, d))
      BY <1>1, <2>4
    <2>6. PairsWithin(u, P) /\ Grows(v, u) /\ Grows(acc.vault, u) /\ <<w.id, d>> \in DOMAIN u.full
      BY <1>1, <2>2, <2>3, GrowsOn DEF Takes
    <2>7. /\ DOMAIN acc.vault.full \subseteq DOMAIN u.full /\ RowPairs(acc.vault) \subseteq RowPairs(u)
          /\ <<w.value, d>> \in Given(u, P)
      BY <2>2, <2>3, <2>6 DEF Takes, Grows, KeepsForward, Given
    <2>8. /\ DOMAIN new.token = DOMAIN acc.token \cup {w.pos} /\ new.token[w.pos] = Token(w.id, d)
          /\ \A p \in DOMAIN acc.token : p # w.pos => new.token[p] = acc.token[p]
      BY <2>5 DEF Put
    <2>9. ASSUME NEW p \in DOMAIN new.token
          PROVE  \E k \in 1..(n + 1) : ws[k].stage = 2 /\ ws[k].pos = p /\ TokenFor(u, ws[k], new.token[p], P)
      <3>1. CASE p = w.pos
        <4>1. TokenFor(u, w, new.token[p], P)
          BY <2>1, <2>6, <2>7, <2>8, <3>1 DEF TokenFor
        <4> QED
          BY <1>a, <1>5, <3>1, <4>1 DEF w
      <3>2. CASE p # w.pos
        <4>1. p \in DOMAIN acc.token /\ new.token[p] = acc.token[p]
          BY <2>8, <2>9, <3>2
        <4>2. PICK k \in 1..n : ws[k].stage = 2 /\ ws[k].pos = p /\ TokenFor(acc.vault, ws[k], acc.token[p], P)
          BY <1>1, <4>1
        <4>3. TokenFor(u, ws[k], new.token[p], P)
          BY <2>7, <4>1, <4>2 DEF TokenFor, Given
        <4> QED
          BY <1>a, <4>2, <4>3
      <3> QED
        BY <3>1, <3>2
    <2>10. \A k \in 1..(n + 1) : ws[k].stage = 2 /\ ws[k].value \in Originals => ws[k].pos \in DOMAIN new.token
      BY <1>0, <1>1, <2>8 DEF w
    <2>12. Wrote(v, new, ws, n + 1, P)
      BY <2>5, <2>6, <2>9, <2>10 DEF Wrote
    <2> QED
      BY <2>12 DEF new, w
  <1> QED
    BY <1>2, <1>3, <1>4, <1>5

-----------------------------------------------------------------------------
(* Texts *)

Cell == Values \cup {Word, Close} \cup Tags

\* f is what FlattenSeq makes of the first n sequences, for every n.
Flattens(f, seqs, X) ==
  /\ f[0] = <<>>
  /\ \A n \in 1..Len(seqs) : f[n] = f[n - 1] \o seqs[n]
  /\ \A n \in 0..Len(seqs) : f[n] \in Seq(X)
  /\ FlattenSeq(seqs) = f[Len(seqs)]

\* One step of the recursion in FlattenSeq.
FlattenStep(seqs, f, i) == IF i = 1 THEN seqs[i] ELSE f[i - 1] \o seqs[i]

\* The recursion in FlattenSeq has a solution.
LEMMA FlattenSolved ==
  ASSUME NEW seqs, NEW N \in Nat
  PROVE  \E f : f = [i \in 1..N |-> FlattenStep(seqs, f, i)]
  <1> DEFINE Solved == {m \in Nat : \E f : f = [i \in 1..m |-> FlattenStep(seqs, f, i)]}
  <1>1. 0 \in Solved
    <2> DEFINE g == [i \in 1..0 |-> <<>>]
    <2>1. 1..0 = {}
      OBVIOUS
    <2>2. g = [i \in 1..0 |-> FlattenStep(seqs, g, i)]
      BY <2>1
    <2> QED
      BY <2>2
  <1>2. \A m \in Nat : m \in Solved => m + 1 \in Solved
    <2> SUFFICES ASSUME NEW m \in Nat, m \in Solved PROVE m + 1 \in Solved
      OBVIOUS
    <2>1. PICK f : f = [i \in 1..m |-> FlattenStep(seqs, f, i)]
      OBVIOUS
    <2> DEFINE g == [i \in 1..(m + 1) |-> IF i <= m THEN f[i] ELSE FlattenStep(seqs, f, i)]
    <2>2. \A i \in 1..(m + 1) : FlattenStep(seqs, g, i) = FlattenStep(seqs, f, i)
      BY DEF FlattenStep
    <2>3. \A i \in 1..(m + 1) : g[i] = FlattenStep(seqs, g, i)
      BY <2>1, <2>2
    <2>4. g = [i \in 1..(m + 1) |-> FlattenStep(seqs, g, i)]
      BY <2>3
    <2> HIDE DEF g
    <2>5. m + 1 \in Nat
      OBVIOUS
    <2>6. \E f1 : f1 = [i \in 1..(m + 1) |-> FlattenStep(seqs, f1, i)]
      BY <2>4, Zenon
    <2> QED
      BY <2>5, <2>6, Zenon
  <1>3. Nat \subseteq Solved
    BY <1>1, <1>2, NatInductionSet, Zenon
  <1> QED
    BY <1>3

\* FlattenSeq concatenates, one sequence after the other.
LEMMA FlattenFacts ==
  ASSUME NEW X, NEW seqs \in Seq(Seq(X))
  PROVE  \E f : Flattens(f, seqs, X)
  <1> DEFINE N == Len(seqs)
             F == CHOOSE f : f = [i \in 1..N |-> FlattenStep(seqs, f, i)]
             h == [n \in 0..N |-> IF n = 0 THEN <<>> ELSE F[n]]
  <1>0. N \in Nat /\ \A n \in 1..N : seqs[n] \in Seq(X)
    OBVIOUS
  <1>1. FlattenSeq(seqs) = IF N = 0 THEN seqs ELSE F[N]
    BY Zenon DEF FlattenSeq, FlattenStep
  <1>2. F = [i \in 1..N |-> FlattenStep(seqs, F, i)]
    BY <1>0, FlattenSolved, Zenon
  <1> HIDE DEF F
  <1>3. \A n \in 1..N : F[n] = FlattenStep(seqs, F, n)
    BY <1>2
  <1> HIDE DEF N
  <1>4. h[0] = <<>> /\ \A n \in 1..N : h[n] = F[n]
    BY <1>0
  <1> HIDE DEF h
  <1>5. ASSUME NEW n \in 1..N PROVE h[n] = h[n - 1] \o seqs[n]
    <2>1. CASE n = 1
      <3>1. h[n] = seqs[1]
        BY <1>3, <1>4, <2>1 DEF FlattenStep
      <3>2. <<>> \o seqs[1] = seqs[1]
        BY <1>0, <2>1, ConcatEmptySeq
      <3>3. n - 1 = 0 /\ seqs[n] = seqs[1]
        BY <2>1
      <3>4. h[n - 1] = <<>>
        BY <1>4, <3>3, Zenon
      <3> QED
        BY <3>1, <3>2, <3>3, <3>4, Zenon
    <2>2. CASE n # 1
      <3>1. n - 1 \in 1..N
        BY <1>0, <2>2
      <3> QED
        BY <1>3, <1>4, <2>2, <3>1 DEF FlattenStep
    <2> QED
      BY <2>1, <2>2
  <1> DEFINE T == {n \in Nat : n <= N => h[n] \in Seq(X)}
  <1>6. 0 \in T
    BY <1>4, EmptySeq
  <1>7. \A n \in Nat : n \in T => n + 1 \in T
    <2> SUFFICES ASSUME NEW n \in Nat, n \in T, n + 1 <= N PROVE h[n + 1] \in Seq(X)
      OBVIOUS
    <2>1. h[n] \in Seq(X) /\ n + 1 \in 1..N /\ (n + 1) - 1 = n
      BY <1>0
    <2>2. h[n + 1] = h[n] \o seqs[n + 1]
      BY <1>5, <2>1
    <2>3. seqs[n + 1] \in Seq(X)
      BY <1>0, <2>1
    <2> QED
      BY <2>1, <2>2, <2>3
  <1>8. Nat \subseteq T
    BY <1>6, <1>7, NatInductionSet, Zenon
  <1>9. \A n \in 0..N : h[n] \in Seq(X)
    BY <1>0, <1>8
  <1>10. FlattenSeq(seqs) = h[N]
    <2>1. CASE N = 0
      <3>1. seqs = <<>>
        BY <2>1 DEF N
      <3> QED
        BY <1>1, <1>4, <2>1, <3>1
    <2>2. CASE N # 0
      BY <1>0, <1>1, <1>4, <2>2
    <2> QED
      BY <2>1, <2>2
  <1>11. Flattens(h, seqs, X)
    BY <1>4, <1>5, <1>9, <1>10 DEF Flattens, N
  <1> QED
    BY <1>11

\* The pieces that a text is put together from again.
Pieces(cells, at, token) == [i \in DOMAIN cells |-> IF i \in at THEN token[i] ELSE <<cells[i]>>]

\* They are texts.
LEMMA PiecesType ==
  ASSUME NEW cells \in Seq(Cell), NEW at, NEW token, \A i \in DOMAIN cells \cap at : token[i] \in Seq(Cell)
  PROVE  Pieces(cells, at, token) \in Seq(Seq(Cell)) /\ Len(Pieces(cells, at, token)) = Len(cells)
  <1> DEFINE p == Pieces(cells, at, token)
  <1>1. DOMAIN cells = 1..Len(cells) /\ Len(cells) \in Nat /\ \A i \in DOMAIN cells : cells[i] \in Cell
    OBVIOUS
  <1>2. \A i \in DOMAIN cells : <<cells[i]>> \in Seq(Cell)
    BY <1>1
  <1>3. \A i \in 1..Len(cells) : (IF i \in at THEN token[i] ELSE <<cells[i]>>) \in Seq(Cell)
    BY <1>1, <1>2
  <1>4. p \in [1..Len(cells) -> Seq(Cell)]
    BY <1>1, <1>3 DEF Pieces
  <1> HIDE DEF p
  <1>5. p \in Seq(Seq(Cell)) /\ Len(p) = Len(cells)
    BY <1>1, <1>4
  <1> QED
    BY <1>5 DEF p

\* A text with tokens is a text.
LEMMA TokenisedType ==
  ASSUME NEW cells \in Seq(Cell), NEW at, NEW token, \A i \in DOMAIN cells \cap at : token[i] \in Seq(Cell)
  PROVE  Tokenised(cells, at, token) \in Seq(Cell)
  <1> DEFINE p == Pieces(cells, at, token)
  <1>1. p \in Seq(Seq(Cell))
    BY PiecesType
  <1>2. Tokenised(cells, at, token) = FlattenSeq(p)
    BY DEF Tokenised, Pieces
  <1> HIDE DEF p
  <1>3. PICK f : Flattens(f, p, Cell)
    BY <1>1, FlattenFacts
  <1>4. Len(p) \in 0..Len(p)
    BY <1>1
  <1> QED
    BY <1>2, <1>3, <1>4 DEF Flattens

\* A token is a text of three cells.
LEMMA TokenType ==
  ASSUME NEW id \in Nat, NEW d \in Displays
  PROVE  Token(id, d) \in Seq(Cell)
  <1>1. [id |-> id] \in Cell /\ d \in Cell /\ Close \in Cell
    BY DEF Cell, Tags, Values
  <1> QED
    BY <1>1 DEF Token

\* A token cell by cell.
LEMMA TokenCells ==
  ASSUME NEW id, NEW d
  PROVE  Len(Token(id, d)) = 3 /\ Token(id, d)[1] = [id |-> id] /\ Token(id, d)[2] = d /\ Token(id, d)[3] = Close
  BY DEF Token

\* The cells of a text that are replaced are replaced by tokens.
IsToken(s) == \E id \in Nat, d \in Displays : s = Token(id, d)
TokensAt(cells, at, token) == \A i \in DOMAIN cells \cap at : IsToken(token[i])

\* s is the beginning of u.
Begins(s, u) == Len(s) <= Len(u) /\ \A k \in 1..Len(s) : u[k] = s[k]

\* A concatenation cell by cell.
Concatenates(s, u, w) ==
  /\ Len(s) \in Nat /\ Len(u) \in Nat /\ Len(w) = Len(s) + Len(u)
  /\ Begins(s, w) /\ \A i \in 1..Len(u) : w[Len(s) + i] = u[i]

\* What concatenation does.
LEMMA ConcatFacts ==
  ASSUME NEW X, NEW s \in Seq(X), NEW u \in Seq(X)
  PROVE  Concatenates(s, u, s \o u)
  <1>1. Len(s) \in Nat /\ Len(u) \in Nat
    OBVIOUS
  <1>2. /\ Len(s \o u) = Len(s) + Len(u)
        /\ \A i \in 1..(Len(s) + Len(u)) : (s \o u)[i] = IF i <= Len(s) THEN s[i] ELSE u[i - Len(s)]
    BY ConcatProperties
  <1> DEFINE w == s \o u
             m == Len(s)
             n == Len(u)
  <1> HIDE DEF w, m, n
  <1>3. m \in Nat /\ n \in Nat /\ Len(w) = m + n /\ \A i \in 1..(m + n) : w[i] = IF i <= m THEN s[i] ELSE u[i - m]
    BY <1>1, <1>2 DEF w, m, n
  <1>4. \A i \in 1..m : w[i] = s[i]
    BY <1>3
  <1>5. ASSUME NEW i \in 1..n PROVE w[m + i] = u[i]
    <2>1. m + i \in 1..(m + n) /\ ~(m + i <= m) /\ (m + i) - m = i
      BY <1>3
    <2> QED
      BY <1>3, <2>1
  <1>6. m <= Len(w)
    BY <1>3
  <1> QED
    BY <1>3, <1>4, <1>5, <1>6 DEF Concatenates, Begins, w, m, n

\* Beginnings of beginnings.
LEMMA BeginsOn ==
  ASSUME NEW X, NEW s \in Seq(X), NEW u \in Seq(X), NEW w \in Seq(X), Begins(s, u), Begins(u, w)
  PROVE  Begins(s, w)
  <1>1. Len(s) \in Nat /\ Len(u) \in Nat /\ Len(w) \in Nat
    OBVIOUS
  <1> DEFINE m == Len(s)
             n == Len(u)
  <1>2. m \in Nat /\ n \in Nat /\ m <= n /\ n <= Len(w) /\ (\A k \in 1..m : u[k] = s[k]) /\ \A k \in 1..n : w[k] = u[k]
    BY <1>1 DEF Begins
  <1> HIDE DEF m, n
  <1>3. m <= Len(w) /\ \A k \in 1..m : w[k] = s[k]
    BY <1>1, <1>2
  <1> QED
    BY <1>3 DEF Begins, m

\* Concatenation only adds at the end.
LEMMA FlattenPrefix ==
  ASSUME NEW X, NEW seqs \in Seq(Seq(X)), NEW f, Flattens(f, seqs, X), NEW m \in 0..Len(seqs)
  PROVE  Begins(f[m], f[Len(seqs)])
  <1> DEFINE N == Len(seqs)
             T == {n \in Nat : m + n <= N => Begins(f[m], f[m + n])}
  <1>0. N \in Nat /\ m \in Nat /\ m <= N
    OBVIOUS
  <1>1. \A n \in 1..N : seqs[n] \in Seq(X)
    OBVIOUS
  <1>2. (\A n \in 0..N : f[n] \in Seq(X)) /\ \A n \in 1..N : f[n] = f[n - 1] \o seqs[n]
    BY DEF Flattens
  <1> HIDE DEF N
  <1>3. 0 \in T
    <2>1. f[m] \in Seq(X) /\ Len(f[m]) \in Nat
      BY <1>0, <1>2
    <2>2. Begins(f[m], f[m]) /\ m + 0 = m
      BY <1>0, <2>1 DEF Begins
    <2> QED
      BY <2>2
  <1>4. \A n \in Nat : n \in T => n + 1 \in T
    <2> SUFFICES ASSUME NEW n \in Nat, n \in T, m + (n + 1) <= N PROVE Begins(f[m], f[m + (n + 1)])
      OBVIOUS
    <2> DEFINE k == m + n
    <2>1. k + 1 = m + (n + 1) /\ k + 1 \in 1..N /\ (k + 1) - 1 = k /\ k \in 0..N /\ k + 1 \in 0..N /\ m \in 0..N
      BY <1>0
    <2>2. Begins(f[m], f[k])
      BY <1>0
    <2> HIDE DEF k
    <2>3. f[k] \in Seq(X) /\ f[m] \in Seq(X) /\ f[k + 1] \in Seq(X) /\ seqs[k + 1] \in Seq(X)
      BY <1>1, <1>2, <2>1
    <2>4. f[k + 1] = f[k] \o seqs[k + 1]
      BY <1>2, <2>1
    <2>5. Begins(f[k], f[k + 1])
      BY <2>3, <2>4, ConcatFacts DEF Concatenates
    <2>6. Begins(f[m], f[k + 1])
      BY <2>2, <2>3, <2>5, BeginsOn
    <2> QED
      BY <2>1, <2>6
  <1>5. Nat \subseteq T
    BY <1>3, <1>4, NatInductionSet, Zenon
  <1>6. N - m \in T /\ m + (N - m) = N
    BY <1>0, <1>5
  <1>7. Begins(f[m], f[N])
    BY <1>0, <1>6
  <1> QED
    BY <1>7 DEF N

\* Where the cells of a text are after some were replaced by tokens: cell j begins at pos[j].
Placed(out, cells, at, token, pos) ==
  /\ pos[1] = 1 /\ pos[Len(cells) + 1] = Len(out) + 1
  /\ \A j \in 1..(Len(cells) + 1) : pos[j] \in Nat \ {0}
  /\ \A j \in DOMAIN cells \cap at :
       /\ pos[j + 1] = pos[j] + 3 /\ pos[j] + 2 <= Len(out)
       /\ out[pos[j]] = token[j][1] /\ out[pos[j] + 1] = token[j][2] /\ out[pos[j] + 2] = token[j][3]
  /\ \A j \in DOMAIN cells \ at : pos[j + 1] = pos[j] + 1 /\ out[pos[j]] = cells[j] /\ pos[j] <= Len(out)

\* Tokens move what is behind them by two cells.
LEMMA TokenisedPlaces ==
  ASSUME NEW cells \in Seq(Cell), NEW at, NEW token, TokensAt(cells, at, token)
  PROVE  \E pos : Placed(Tokenised(cells, at, token), cells, at, token, pos)
  <1> DEFINE p == Pieces(cells, at, token)
             N == Len(cells)
  <1>0. N \in Nat /\ DOMAIN cells = 1..N
    OBVIOUS
  <1>1. \A i \in DOMAIN cells \cap at : token[i] \in Seq(Cell) /\ Len(token[i]) = 3
    <2> SUFFICES ASSUME NEW i \in DOMAIN cells \cap at PROVE token[i] \in Seq(Cell) /\ Len(token[i]) = 3
      OBVIOUS
    <2>1. PICK id \in Nat, d \in Displays : token[i] = Token(id, d)
      BY DEF TokensAt, IsToken
    <2>2. Token(id, d) \in Seq(Cell)
      BY TokenType
    <2>3. Len(Token(id, d)) = 3
      BY TokenCells
    <2> QED
      BY <2>1, <2>2, <2>3
  <1>2. p \in Seq(Seq(Cell)) /\ Len(p) = N
    BY <1>1, PiecesType
  <1>3. \A i \in 1..N : (i \in at => p[i] = token[i] /\ Len(p[i]) = 3) /\ (i \notin at => p[i] = <<cells[i]>>)
    BY <1>0, <1>1 DEF Pieces
  <1>4. Tokenised(cells, at, token) = FlattenSeq(p)
    BY DEF Tokenised, Pieces
  <1> HIDE DEF p
  <1>5. PICK f : Flattens(f, p, Cell)
    BY <1>2, FlattenFacts
  <1> DEFINE out == Tokenised(cells, at, token)
             pos == [j \in 1..(N + 1) |-> Len(f[j - 1]) + 1]
  <1>6. /\ f[0] = <<>> /\ out = f[N] /\ \A n \in 0..N : f[n] \in Seq(Cell)
        /\ \A n \in 1..N : f[n] = f[n - 1] \o p[n]
    BY <1>2, <1>4, <1>5 DEF Flattens
  <1>7. \A n \in 0..N : Begins(f[n], out)
    BY <1>2, <1>5, <1>6, FlattenPrefix
  <1> HIDE DEF out
  <1>8. \A j \in 1..(N + 1) : pos[j] = Len(f[j - 1]) + 1 /\ Len(f[j - 1]) \in Nat
    <2>1. \A j \in 1..(N + 1) : j - 1 \in 0..N
      BY <1>0
    <2> QED
      BY <1>6, <2>1
  <1>9. pos[1] = 1 /\ pos[N + 1] = Len(out) + 1
    <2>1. 1 \in 1..(N + 1) /\ N + 1 \in 1..(N + 1) /\ 1 - 1 = 0 /\ (N + 1) - 1 = N /\ Len(<<>>) = 0
      BY <1>0
    <2> QED
      BY <1>6, <1>8, <2>1
  <1> HIDE DEF pos, N
  <1>10. ASSUME NEW j \in 1..N
         PROVE  /\ pos[j] \in Nat \ {0} /\ pos[j + 1] = pos[j] + Len(p[j]) /\ pos[j] + Len(p[j]) - 1 <= Len(out)
                /\ \A i \in 1..Len(p[j]) : out[pos[j] + i - 1] = p[j][i]
    <2>1. j - 1 \in 0..N /\ j \in 0..N /\ j \in 1..(N + 1) /\ j + 1 \in 1..(N + 1) /\ (j + 1) - 1 = j
      BY <1>0
    <2>2. f[j] = f[j - 1] \o p[j] /\ f[j - 1] \in Seq(Cell) /\ f[j] \in Seq(Cell)
      BY <1>6, <2>1
    <2>12. p[j] \in Seq(Cell)
      BY <1>2
    <2>3. pos[j] = Len(f[j - 1]) + 1 /\ pos[j + 1] = Len(f[j]) + 1
      BY <1>8, <2>1
    <2>4. Begins(f[j], out)
      BY <1>7, <2>1
    <2>5. Len(out) \in Nat
      BY <1>0, <1>6
    <2> DEFINE a == Len(f[j - 1])
               b == Len(p[j])
    <2>6. a \in Nat /\ b \in Nat /\ Len(f[j]) = a + b /\ \A i \in 1..b : f[j][a + i] = p[j][i]
      <3>1. Concatenates(f[j - 1], p[j], f[j - 1] \o p[j])
        BY <2>2, <2>12, ConcatFacts, Zenon
      <3>2. Concatenates(f[j - 1], p[j], f[j])
        BY <2>2, <3>1, Zenon
      <3> QED
        BY <3>2 DEF Concatenates
    <2>7. a + b <= Len(out) /\ \A k \in 1..(a + b) : out[k] = f[j][k]
      BY <2>4, <2>6 DEF Begins
    <2> HIDE DEF a, b
    <2>8. pos[j] = a + 1 /\ pos[j + 1] = a + b + 1
      BY <2>3, <2>6 DEF a
    <2>9. ASSUME NEW i \in 1..b PROVE out[pos[j] + i - 1] = p[j][i]
      <3>0. a \in Nat /\ b \in Nat /\ pos[j] = a + 1 /\ i \in Nat /\ 1 <= i /\ i <= b
        BY <2>6, <2>8
      <3>1. a + i \in 1..(a + b) /\ pos[j] + i - 1 = a + i
        BY <3>0
      <3> QED
        BY <2>6, <2>7, <3>1
    <2>10. a \in Nat /\ b \in Nat /\ a + b <= Len(out)
      BY <2>6, <2>7
    <2>11. pos[j] \in Nat \ {0} /\ pos[j + 1] = pos[j] + b /\ pos[j] + b - 1 <= Len(out)
      BY <2>5, <2>8, <2>10
    <2> QED
      BY <2>9, <2>11 DEF b
  <1>11. ASSUME NEW j \in DOMAIN cells \cap at
         PROVE  /\ pos[j + 1] = pos[j] + 3 /\ pos[j] + 2 <= Len(out)
                /\ out[pos[j]] = token[j][1] /\ out[pos[j] + 1] = token[j][2] /\ out[pos[j] + 2] = token[j][3]
    <2>1. p[j] = token[j] /\ Len(p[j]) = 3 /\ j \in 1..N
      BY <1>0, <1>3
    <2>2. pos[j] \in Nat /\ pos[j] + 1 - 1 = pos[j] /\ pos[j] + 2 - 1 = pos[j] + 1 /\ pos[j] + 3 - 1 = pos[j] + 2
      BY <1>10, <2>1
    <2>3. 1 \in 1..3 /\ 2 \in 1..3 /\ 3 \in 1..3
      OBVIOUS
    <2>4. /\ out[pos[j] + 1 - 1] = token[j][1] /\ out[pos[j] + 2 - 1] = token[j][2] /\ out[pos[j] + 3 - 1] = token[j][3]
          /\ pos[j + 1] = pos[j] + 3 /\ pos[j] + 3 - 1 <= Len(out)
      BY <1>10, <2>1, <2>3
    <2> QED
      BY <2>2, <2>4
  <1>12. ASSUME NEW j \in DOMAIN cells \ at
         PROVE  pos[j + 1] = pos[j] + 1 /\ out[pos[j]] = cells[j] /\ pos[j] <= Len(out)
    <2>1. p[j] = <<cells[j]>> /\ j \in 1..N
      BY <1>0, <1>3
    <2>2. Len(p[j]) = 1 /\ p[j][1] = cells[j] /\ 1 \in 1..1
      BY <2>1
    <2>3. pos[j + 1] = pos[j] + 1 /\ out[pos[j] + 1 - 1] = cells[j] /\ pos[j] + 1 - 1 <= Len(out) /\ pos[j] \in Nat
      BY <1>10, <2>1, <2>2
    <2>4. pos[j] + 1 - 1 = pos[j]
      BY <2>3
    <2> QED
      BY <2>3, <2>4
  <1>13. \A j \in 1..(N + 1) : pos[j] \in Nat \ {0}
    BY <1>8
  <1>14. Placed(out, cells, at, token, pos)
    BY <1>9, <1>11, <1>12, <1>13 DEF Placed, N
  <1> QED
    BY <1>14 DEF out

\* Where a cell occurs.
PlacesOf(s, o) == {i \in DOMAIN s : s[i] = o}

\* There are finitely many.
LEMMA PlacesFinite ==
  ASSUME NEW X, NEW s \in Seq(X), NEW o
  PROVE  IsFiniteSet(PlacesOf(s, o)) /\ PlacesOf(s, o) \subseteq 1..Len(s)
  <1>1. DOMAIN s = 1..Len(s) /\ Len(s) \in Int /\ 1 \in Int
    OBVIOUS
  <1>2. IsFiniteSet(1..Len(s))
    BY <1>1, FS_Interval
  <1>3. PlacesOf(s, o) \subseteq 1..Len(s)
    BY <1>1 DEF PlacesOf
  <1> QED
    BY <1>2, <1>3, FS_Subset

\* How often a cell occurs in a text that got longer.
LEMMA MoreOccurrences ==
  ASSUME NEW X, NEW s \in Seq(X), NEW u \in Seq(X), NEW o
  PROVE  /\ (\A i \in 1..Len(u) : u[i] # o) => Occurrences(s \o u, o) = Occurrences(s, o)
         /\ Len(u) = 1 /\ u[1] = o => Occurrences(s \o u, o) = Occurrences(s, o) + 1
  <1> DEFINE w == s \o u
             m == Len(s)
             n == Len(u)
  <1>1. Concatenates(s, u, w)
    BY ConcatFacts, Zenon
  <1>2. w \in Seq(X)
    BY ConcatProperties
  <1>3. DOMAIN w = 1..Len(w) /\ DOMAIN s = 1..m
    BY <1>2
  <1> HIDE DEF w, m, n
  <1>4. /\ m \in Nat /\ n \in Nat /\ DOMAIN w = 1..(m + n) /\ DOMAIN s = 1..m
        /\ (\A i \in 1..m : w[i] = s[i]) /\ \A i \in 1..n : w[m + i] = u[i]
    BY <1>1, <1>3 DEF Concatenates, Begins, m, n
  <1>5. \A i \in 1..(m + n) : i \in 1..m \/ (i - m \in 1..n /\ i = m + (i - m))
    BY <1>4
  <1>6. ASSUME \A i \in 1..n : u[i] # o PROVE PlacesOf(w, o) = PlacesOf(s, o)
    <2>1. ASSUME NEW i \in DOMAIN w, w[i] = o PROVE i \in DOMAIN s /\ s[i] = o
      <3>1. CASE i \in 1..m
        BY <1>4, <2>1, <3>1
      <3>2. ASSUME i - m \in 1..n, i = m + (i - m) PROVE FALSE
        <4>1. w[m + (i - m)] = u[i - m] /\ u[i - m] # o
          BY <1>4, <1>6, <3>2
        <4> QED
          BY <2>1, <3>2, <4>1
      <3> QED
        BY <1>4, <1>5, <3>1, <3>2
    <2>2. ASSUME NEW i \in DOMAIN s, s[i] = o PROVE i \in DOMAIN w /\ w[i] = o
      BY <1>4, <2>2
    <2> QED
      BY <2>1, <2>2 DEF PlacesOf
  <1>7. ASSUME n = 1, u[1] = o PROVE PlacesOf(w, o) = PlacesOf(s, o) \cup {m + 1}
    <2>1. ASSUME NEW i \in DOMAIN w, w[i] = o PROVE i = m + 1 \/ (i \in DOMAIN s /\ s[i] = o)
      <3>1. i \in 1..m \/ i = m + 1
        BY <1>4, <1>7
      <3> QED
        BY <1>4, <2>1, <3>1
    <2>2. ASSUME NEW i \in DOMAIN s, s[i] = o PROVE i \in DOMAIN w /\ w[i] = o
      BY <1>4, <2>2
    <2>3. m + 1 \in DOMAIN w /\ w[m + 1] = o
      BY <1>4, <1>7
    <2> HIDE DEF w, m
    <2>4. \A i : i \in PlacesOf(w, o) <=> i \in PlacesOf(s, o) \cup {m + 1}
      BY <2>1, <2>2, <2>3 DEF PlacesOf
    <2> QED
      BY <2>4
  <1>8. IsFiniteSet(PlacesOf(s, o)) /\ m + 1 \notin PlacesOf(s, o)
    BY <1>4, PlacesFinite DEF m
  <1>9. ASSUME n = 1, u[1] = o PROVE Cardinality(PlacesOf(w, o)) = Cardinality(PlacesOf(s, o)) + 1
    BY <1>7, <1>8, <1>9, FS_AddElement
  <1> QED
    BY <1>6, <1>9 DEF Occurrences, PlacesOf, w, n

\* Occurrences that are left when some cells are replaced.
Left(cells, at, o, n) == {i \in 1..n : i \notin at /\ cells[i] = o}

\* A token is no original.
LEMMA TokenHidesAll ==
  ASSUME NEW s, IsToken(s), NEW o \in Originals
  PROVE  s \in Seq(Cell) /\ \A i \in 1..Len(s) : s[i] # o
  <1>1. PICK id \in Nat, d \in Displays : s = Token(id, d)
    BY DEF IsToken
  <1>2. s \in Seq(Cell)
    BY <1>1, TokenType
  <1>3. Len(s) = 3 /\ s[1] = [id |-> id] /\ s[2] = d /\ s[3] = Close
    BY <1>1, TokenCells
  <1>4. [id |-> id] # o
    <2>1. [id |-> id] \in Tags
      BY DEF Tags
    <2> QED
      BY <2>1, CellAssumption
  <1>5. d # o /\ Close # o
    BY CellAssumption
  <1> QED
    BY <1>2, <1>3, <1>4, <1>5

\* An original that is not replaced occurs as often as before.
LEMMA TokenisedOccurrences ==
  ASSUME NEW cells \in Seq(Cell), NEW at, NEW token, TokensAt(cells, at, token), NEW o \in Originals
  PROVE  Occurrences(Tokenised(cells, at, token), o) = Cardinality(Left(cells, at, o, Len(cells)))
  <1> DEFINE p == Pieces(cells, at, token)
             N == Len(cells)
             L(n) == Left(cells, at, o, n)
  <1>0. N \in Nat /\ DOMAIN cells = 1..N
    OBVIOUS
  <1>1. \A i \in DOMAIN cells \cap at : token[i] \in Seq(Cell) /\ \A k \in 1..Len(token[i]) : token[i][k] # o
    BY TokenHidesAll DEF TokensAt
  <1>2. p \in Seq(Seq(Cell)) /\ Len(p) = N
    BY <1>1, PiecesType
  <1>3. \A i \in 1..N : (i \in at => p[i] = token[i]) /\ (i \notin at => p[i] = <<cells[i]>>)
    BY <1>0 DEF Pieces
  <1>4. Tokenised(cells, at, token) = FlattenSeq(p)
    BY DEF Tokenised, Pieces
  <1> HIDE DEF p
  <1>5. PICK f : Flattens(f, p, Cell)
    BY <1>2, FlattenFacts
  <1>6. /\ f[0] = <<>> /\ Tokenised(cells, at, token) = f[N] /\ \A n \in 0..N : f[n] \in Seq(Cell)
        /\ \A n \in 1..N : f[n] = f[n - 1] \o p[n]
    BY <1>2, <1>4, <1>5 DEF Flattens
  <1> HIDE DEF N
  <1> DEFINE T == {n \in Nat : n <= N => IsFiniteSet(L(n)) /\ Occurrences(f[n], o) = Cardinality(L(n))}
  <1>7. 0 \in T
    <2>1. DOMAIN <<>> = {} /\ 1..0 = {}
      OBVIOUS
    <2>2. L(0) = {}
      BY <2>1 DEF Left
    <2>3. {i \in DOMAIN f[0] : f[0][i] = o} = {}
      BY <1>6, <2>1
    <2>4. IsFiniteSet({})
      BY FS_EmptySet
    <2> QED
      BY <2>2, <2>3, <2>4 DEF Occurrences
  <1>8. \A n \in Nat : n \in T => n + 1 \in T
    <2> SUFFICES ASSUME NEW n \in Nat, n \in T, n + 1 <= N
                 PROVE  IsFiniteSet(L(n + 1)) /\ Occurrences(f[n + 1], o) = Cardinality(L(n + 1))
      OBVIOUS
    <2>1. IsFiniteSet(L(n)) /\ Occurrences(f[n], o) = Cardinality(L(n)) /\ n + 1 \in 1..N /\ (n + 1) - 1 = n /\ n \in 0..N
      BY <1>0
    <2>2. f[n + 1] = f[n] \o p[n + 1] /\ f[n] \in Seq(Cell)
      BY <1>6, <2>1
    <2>3. p[n + 1] \in Seq(Cell)
      BY <1>2, <2>1
    <2>4. CASE n + 1 \in at \/ cells[n + 1] # o
      <3>1. L(n + 1) = L(n)
        BY <2>4 DEF Left
      <3>2. \A i \in 1..Len(p[n + 1]) : p[n + 1][i] # o
        <4>1. CASE n + 1 \in at
          BY <1>0, <1>1, <1>3, <2>1, <4>1
        <4>2. CASE n + 1 \notin at
          <5>1. p[n + 1] = <<cells[n + 1]>>
            BY <1>3, <2>1, <4>2
          <5>2. Len(p[n + 1]) = 1 /\ p[n + 1][1] = cells[n + 1] /\ 1..1 = {1}
            BY <5>1
          <5> QED
            BY <2>4, <4>2, <5>2
        <4> QED
          BY <4>1, <4>2
      <3>3. Occurrences(f[n + 1], o) = Occurrences(f[n], o)
        BY <2>2, <2>3, <3>2, MoreOccurrences
      <3> QED
        BY <2>1, <3>1, <3>3, Zenon
    <2>5. CASE n + 1 \notin at /\ cells[n + 1] = o
      <3>1. L(n + 1) = L(n) \cup {n + 1} /\ n + 1 \notin L(n)
        BY <2>5 DEF Left
      <3>2. Len(p[n + 1]) = 1 /\ p[n + 1][1] = o
        <4>1. p[n + 1] = <<cells[n + 1]>>
          BY <1>3, <2>1, <2>5
        <4> QED
          BY <2>5, <4>1
      <3>3. Occurrences(f[n + 1], o) = Occurrences(f[n], o) + 1
        BY <2>2, <2>3, <3>2, MoreOccurrences
      <3> HIDE DEF L
      <3>4. IsFiniteSet(L(n + 1)) /\ Cardinality(L(n + 1)) = Cardinality(L(n)) + 1
        BY <2>1, <3>1, FS_AddElement
      <3> QED
        BY <2>1, <3>3, <3>4
    <2> QED
      BY <2>4, <2>5
  <1>9. Nat \subseteq T
    BY <1>7, <1>8, NatInductionSet, Zenon
  <1>10. N \in T
    BY <1>0, <1>9
  <1>11. Occurrences(f[N], o) = Cardinality(L(N))
    BY <1>0, <1>10
  <1> QED
    BY <1>6, <1>11 DEF N

-----------------------------------------------------------------------------
(* The writes of a text, and of a request *)

Reply == [original : Originals, display : Displays, at : Nat, id : Nat]
Entry == [work : Seq(Cell), s1 : Seq(Reply), spans : Seq(Nat), found : SUBSET Nat]

\* What pipeline and vault make of a text: the spans are places of values.
EntryOK(e) ==
  e \in Entry /\ \A j \in DOMAIN e.spans : e.spans[j] \in DOMAIN e.work /\ e.work[e.spans[j]] \in Values

\* The pairs that the sidecar's replacements of a text will write.
ReplyPairs(e) == {<<e.s1[j].original, e.s1[j].display>> : j \in DOMAIN e.s1}

SlmWrite(e, j, first) ==
  [stage |-> 1, pos |-> 0, value |-> e.s1[j].original, display |-> e.s1[j].display, id |-> first + j - 1]
SpanWrite(e, j, first) ==
  [stage |-> 2, pos |-> e.spans[j], value |-> e.work[e.spans[j]], display |-> Word, id |-> first + Len(e.s1) + j - 1]

\* The writes of a text one by one.
WritesAre(e, first) ==
  LET ws == Writes(e, first) IN
  /\ Len(ws) = Len(e.s1) + Len(e.spans) /\ Len(ws) \in Nat
  /\ \A k \in 1..Len(ws) : \/ \E j \in DOMAIN e.s1 : ws[k] = SlmWrite(e, j, first)
                           \/ \E j \in DOMAIN e.spans : ws[k] = SpanWrite(e, j, first)
  /\ \A j \in DOMAIN e.s1 : \E k \in 1..Len(ws) : ws[k] = SlmWrite(e, j, first)
  /\ \A j \in DOMAIN e.spans : \E k \in 1..Len(ws) : ws[k] = SpanWrite(e, j, first)

\* Writes lists the sidecar's replacements, then the spans.
LEMMA WritesFacts ==
  ASSUME NEW e \in Entry, NEW first
  PROVE  WritesAre(e, first)
  <1> DEFINE a == [j \in DOMAIN e.s1 |-> SlmWrite(e, j, first)]
             b == [j \in DOMAIN e.spans |-> SpanWrite(e, j, first)]
             X == {SlmWrite(e, j, first) : j \in DOMAIN e.s1} \cup {SpanWrite(e, j, first) : j \in DOMAIN e.spans}
             m == Len(e.s1)
             n == Len(e.spans)
  <1>0. e.s1 \in Seq(Reply) /\ e.spans \in Seq(Nat)
    BY DEF Entry
  <1>1. m \in Nat /\ n \in Nat /\ DOMAIN e.s1 = 1..m /\ DOMAIN e.spans = 1..n
    BY <1>0
  <1>2. Writes(e, first) = a \o b
    BY DEF Writes, SlmWrite, SpanWrite
  <1>3. a \in [1..m -> X] /\ b \in [1..n -> X]
    BY <1>1
  <1>a. \A j \in 1..m : a[j] = SlmWrite(e, j, first)
    BY <1>1
  <1>b. \A j \in 1..n : b[j] = SpanWrite(e, j, first)
    BY <1>1
  <1> HIDE DEF a, b, X, m, n
  <1>4. a \in Seq(X) /\ b \in Seq(X) /\ Len(a) = m /\ Len(b) = n
    BY <1>1, <1>3
  <1>5. /\ Len(a \o b) = m + n
        /\ \A k \in 1..(m + n) : (a \o b)[k] = IF k <= m THEN a[k] ELSE b[k - m]
    BY <1>1, <1>4, ConcatProperties
  <1> DEFINE ws == a \o b
  <1> HIDE DEF ws
  <1>6. Len(ws) = m + n /\ \A k \in 1..(m + n) : ws[k] = IF k <= m THEN a[k] ELSE b[k - m]
    BY <1>5 DEF ws
  <1>7. ASSUME NEW k \in 1..(m + n)
        PROVE  \/ \E j \in 1..m : ws[k] = SlmWrite(e, j, first)
               \/ \E j \in 1..n : ws[k] = SpanWrite(e, j, first)
    <2>1. CASE k <= m
      BY <1>1, <1>6, <1>a, <2>1
    <2>2. CASE ~(k <= m)
      <3>1. k - m \in 1..n
        BY <1>1, <2>2
      <3>2. ws[k] = b[k - m]
        BY <1>6, <2>2
      <3> QED
        BY <1>b, <3>1, <3>2
    <2> QED
      BY <2>1, <2>2
  <1>8. ASSUME NEW j \in 1..m PROVE \E k \in 1..(m + n) : ws[k] = SlmWrite(e, j, first)
    <2>1. j \in 1..(m + n) /\ j <= m
      BY <1>1
    <2> QED
      BY <1>6, <1>a, <2>1
  <1>9. ASSUME NEW j \in 1..n PROVE \E k \in 1..(m + n) : ws[k] = SpanWrite(e, j, first)
    <2>1. m + j \in 1..(m + n) /\ ~(m + j <= m) /\ (m + j) - m = j
      BY <1>1
    <2>2. ws[m + j] = b[j]
      BY <1>6, <2>1
    <2> QED
      BY <1>b, <2>1, <2>2
  <1>10. m + n \in Nat
    BY <1>1
  <1>11. Writes(e, first) = ws
    BY <1>2 DEF ws
  <1> QED
    BY <1>1, <1>6, <1>7, <1>8, <1>9, <1>10, <1>11, ZenonT(60) DEF WritesAre, m, n

\* One step of the recursion that defines WrittenTo.
WrittenStep(v, ws, gen, f, n) ==
  IF n = 0 THEN [vault |-> v, token |-> <<>>] ELSE Write(f[n - 1], ws[n], gen)

\* WrittenTo solves its recursive definition.
LEMMA WrittenToDef ==
  ASSUME NEW v, NEW ws, NEW gen, Len(ws) \in Nat
  PROVE  WrittenTo(v, ws, gen) = [n \in 0..Len(ws) |-> WrittenStep(v, ws, gen, WrittenTo(v, ws, gen), n)]
  <1> DEFINE Solved == {m \in Nat : \E f : f = [n \in 0..m |-> WrittenStep(v, ws, gen, f, n)]}
  <1>1. 0 \in Solved
    <2> DEFINE g == [n \in 0..0 |-> [vault |-> v, token |-> <<>>]]
    <2>1. g = [n \in 0..0 |-> WrittenStep(v, ws, gen, g, n)]
      BY DEF WrittenStep
    <2> QED
      BY <2>1
  <1>2. \A m \in Nat : m \in Solved => m + 1 \in Solved
    <2> SUFFICES ASSUME NEW m \in Nat, m \in Solved PROVE m + 1 \in Solved
      OBVIOUS
    <2>1. PICK f : f = [n \in 0..m |-> WrittenStep(v, ws, gen, f, n)]
      OBVIOUS
    <2> DEFINE g == [n \in 0..(m + 1) |-> IF n <= m THEN f[n] ELSE WrittenStep(v, ws, gen, f, n)]
    <2>2. \A n \in 0..(m + 1) : WrittenStep(v, ws, gen, g, n) = WrittenStep(v, ws, gen, f, n)
      BY DEF WrittenStep
    <2>3. \A n \in 0..(m + 1) : g[n] = WrittenStep(v, ws, gen, g, n)
      BY <2>1, <2>2
    <2>4. g = [n \in 0..(m + 1) |-> WrittenStep(v, ws, gen, g, n)]
      BY <2>3
    <2> HIDE DEF g
    <2>5. m + 1 \in Nat
      OBVIOUS
    <2>6. \E f1 : f1 = [n \in 0..(m + 1) |-> WrittenStep(v, ws, gen, f1, n)]
      BY <2>4, Zenon
    <2> QED
      BY <2>5, <2>6, Zenon
  <1>3. Nat \subseteq Solved
    BY <1>1, <1>2, NatInductionSet, Zenon
  <1>4. PICK f : f = [n \in 0..Len(ws) |-> WrittenStep(v, ws, gen, f, n)]
    BY <1>3
  <1> QED
    BY <1>4, Zenon DEF WrittenTo, WrittenStep

\* All writes of a list that the vault can take have been made.
LEMMA WrittenWithin ==
  ASSUME NEW P, NEW v, PairsWithin(v, P), NEW ws, Len(ws) \in Nat, NEW gen,
         \A k \in 1..Len(ws) : WriteOK(ws[k], DOMAIN v.synth, gen, P)
  PROVE  Wrote(v, WrittenTo(v, ws, gen)[Len(ws)], ws, Len(ws), P)
  <1> DEFINE f == WrittenTo(v, ws, gen)
             T == {n \in Nat : n <= Len(ws) => Wrote(v, f[n], ws, n, P)}
  <1>1. f = [n \in 0..Len(ws) |-> WrittenStep(v, ws, gen, f, n)]
    BY WrittenToDef
  <1> HIDE DEF f
  <1>2. \A n \in 0..Len(ws) : f[n] = WrittenStep(v, ws, gen, f, n)
    BY <1>1
  <1>3. 0 \in T
    <2> DEFINE a == [vault |-> v, token |-> <<>>]
    <2>1. f[0] = a
      BY <1>2 DEF WrittenStep
    <2>2. a = [vault |-> a.vault, token |-> a.token] /\ a.vault = v /\ a.token = <<>> /\ DOMAIN <<>> = {}
      OBVIOUS
    <2>3. Grows(v, v)
      BY DEF Grows, KeepsForward
    <2>4. 1..0 = {}
      OBVIOUS
    <2> HIDE DEF a
    <2>5. Wrote(v, a, ws, 0, P)
      BY <2>2, <2>3, <2>4 DEF Wrote
    <2> QED
      BY <2>1, <2>5
  <1>4. \A n \in Nat : n \in T => n + 1 \in T
    <2> SUFFICES ASSUME NEW n \in Nat, n \in T, n + 1 <= Len(ws) PROVE Wrote(v, f[n + 1], ws, n + 1, P)
      OBVIOUS
    <2>1. Wrote(v, f[n], ws, n, P) /\ n + 1 \in 1..Len(ws)
      OBVIOUS
    <2>2. f[n + 1] = Write(f[n], ws[n + 1], gen)
      BY <1>2, <2>1 DEF WrittenStep
    <2>3. WriteOK(ws[n + 1], DOMAIN v.synth, gen, P)
      BY <2>1
    <2> QED
      BY <2>1, <2>2, <2>3, WriteStep
  <1>5. Nat \subseteq T
    BY <1>3, <1>4, NatInductionSet, Zenon
  <1> QED
    BY <1>5 DEF f

\* The values of a text can be written: the vault knows them, or there are synthetics for them.
CanWrite(e, known, gen, P) ==
  /\ ReplyPairs(e) \subseteq P
  /\ \A j \in DOMAIN e.spans :
       LET x == e.work[e.spans[j]] IN x \in known \/ gen[x] \in Displays

\* A token of the vault that stands for a value.
TokenOf(v, value, token, P) ==
  \E id \in Nat, d \in Displays : token = Token(id, d) /\ <<id, d>> \in DOMAIN v.full /\ <<value, d>> \in Given(v, P)

\* The tokens of a text: they stand at spans, for what is there, and every original in a span has one.
TokensOf(v, e, token, P) ==
  /\ \A p \in DOMAIN token : (\E j \in DOMAIN e.spans : e.spans[j] = p) /\ TokenOf(v, e.work[p], token[p], P)
  /\ \A j \in DOMAIN e.spans : e.work[e.spans[j]] \in Originals => e.spans[j] \in DOMAIN token

\* The text as it is forwarded.
SentOf(v, e, cells, P) ==
  \E token : cells = Tokenised(e.work, DOMAIN token, token) /\ TokensOf(v, e, token, P)

\* The writes of one text.
LEMMA EntryWritten ==
  ASSUME NEW P, NEW v, PairsWithin(v, P), NEW e, EntryOK(e), NEW first \in Nat, NEW gen,
         CanWrite(e, DOMAIN v.synth, gen, P)
  PROVE  LET wrote == WrittenTo(v, Writes(e, first), gen)[Len(Writes(e, first))] IN
         /\ PairsWithin(wrote.vault, P) /\ Grows(v, wrote.vault)
         /\ TokensOf(wrote.vault, e, wrote.token, P)
  <1> DEFINE ws == Writes(e, first)
             acc == WrittenTo(v, ws, gen)[Len(ws)]
             w == acc.vault
  <1>0. e \in Entry /\ e.s1 \in Seq(Reply) /\ e.spans \in Seq(Nat)
    BY DEF EntryOK, Entry
  <1>1. WritesAre(e, first)
    BY <1>0, WritesFacts
  <1>2. /\ Len(ws) \in Nat
        /\ \A k \in 1..Len(ws) : \/ \E j \in DOMAIN e.s1 : ws[k] = SlmWrite(e, j, first)
                                 \/ \E j \in DOMAIN e.spans : ws[k] = SpanWrite(e, j, first)
        /\ \A j \in DOMAIN e.s1 : \E k \in 1..Len(ws) : ws[k] = SlmWrite(e, j, first)
        /\ \A j \in DOMAIN e.spans : \E k \in 1..Len(ws) : ws[k] = SpanWrite(e, j, first)
    BY <1>1, Zenon DEF WritesAre
  <1> HIDE DEF ws
  <1>3. ASSUME NEW j \in DOMAIN e.s1 PROVE WriteOK(SlmWrite(e, j, first), DOMAIN v.synth, gen, P)
    <2>1. e.s1[j] \in Reply /\ j \in Nat /\ j >= 1
      BY <1>0
    <2>2. <<e.s1[j].original, e.s1[j].display>> \in P
      BY DEF CanWrite, ReplyPairs
    <2>3. e.s1[j].original \in Values /\ e.s1[j].display \in Displays /\ first + j - 1 \in Nat
      BY <2>1 DEF Reply, Values
    <2> QED
      BY <2>2, <2>3 DEF WriteOK, SlmWrite
  <1>4. ASSUME NEW j \in DOMAIN e.spans PROVE WriteOK(SpanWrite(e, j, first), DOMAIN v.synth, gen, P)
    <2>1. j \in Nat /\ j >= 1 /\ Len(e.s1) \in Nat
      BY <1>0
    <2>2. first + Len(e.s1) + j - 1 \in Nat
      BY <2>1
    <2>3. e.work[e.spans[j]] \in Values
      BY DEF EntryOK
    <2>4. LET x == e.work[e.spans[j]] IN x \in DOMAIN v.synth \/ gen[x] \in Displays
      BY DEF CanWrite
    <2>5. LET s == SpanWrite(e, j, first) IN
          s.stage = 2 /\ s.value = e.work[e.spans[j]] /\ s.id = first + Len(e.s1) + j - 1
      BY DEF SpanWrite
    <2> QED
      BY <2>2, <2>3, <2>4, <2>5 DEF WriteOK
  <1>5. \A k \in 1..Len(ws) : WriteOK(ws[k], DOMAIN v.synth, gen, P)
    BY <1>2, <1>3, <1>4
  <1>6. Wrote(v, acc, ws, Len(ws), P)
    BY <1>2, <1>5, WrittenWithin
  <1> HIDE DEF acc
  <1>7. ASSUME NEW p \in DOMAIN acc.token
        PROVE  (\E j \in DOMAIN e.spans : e.spans[j] = p) /\ TokenOf(w, e.work[p], acc.token[p], P)
    <2>1. PICK k \in 1..Len(ws) : ws[k].stage = 2 /\ ws[k].pos = p /\ TokenFor(w, ws[k], acc.token[p], P)
      BY <1>6 DEF Wrote
    <2>a. \A j \in DOMAIN e.s1 : SlmWrite(e, j, first).stage = 1
      BY DEF SlmWrite
    <2>b. ws[k].stage # 1
      BY <2>1
    <2>2. ~\E j \in DOMAIN e.s1 : ws[k] = SlmWrite(e, j, first)
      BY <2>a, <2>b, Zenon
    <2>3. PICK j \in DOMAIN e.spans : ws[k] = SpanWrite(e, j, first)
      BY <1>2, <2>2
    <2>4. ws[k].pos = e.spans[j] /\ ws[k].value = e.work[e.spans[j]] /\ ws[k].id = first + Len(e.s1) + j - 1
      BY <2>3 DEF SpanWrite
    <2>5. ws[k].id \in Nat
      BY <1>5 DEF WriteOK
    <2> QED
      BY <2>1, <2>4, <2>5 DEF TokenFor, TokenOf
  <1>8. ASSUME NEW j \in DOMAIN e.spans, e.work[e.spans[j]] \in Originals PROVE e.spans[j] \in DOMAIN acc.token
    <2>1. PICK k \in 1..Len(ws) : ws[k] = SpanWrite(e, j, first)
      BY <1>2
    <2>2. ws[k].stage = 2 /\ ws[k].pos = e.spans[j] /\ ws[k].value = e.work[e.spans[j]]
      BY <2>1 DEF SpanWrite
    <2> QED
      BY <1>6, <1>8, <2>2 DEF Wrote
  <1>10. PairsWithin(w, P) /\ Grows(v, w)
    BY <1>6 DEF Wrote
  <1>11. TokensOf(w, e, acc.token, P)
    BY <1>7, <1>8 DEF TokensOf
  <1> QED
    BY <1>10, <1>11 DEF acc, ws

\* One step of the recursion that defines AppliedTo.
AppliedStep(v, es, first, gen, f, n) ==
  IF n = 0 THEN [vault |-> v, out |-> <<>>] ELSE ApplyEntry(f[n - 1], es[n], first, gen)

\* AppliedTo solves its recursive definition.
LEMMA AppliedToDef ==
  ASSUME NEW v, NEW es, NEW first, NEW gen, Len(es) \in Nat
  PROVE  AppliedTo(v, es, first, gen)
           = [n \in 0..Len(es) |-> AppliedStep(v, es, first, gen, AppliedTo(v, es, first, gen), n)]
  <1> DEFINE Solved == {m \in Nat : \E f : f = [n \in 0..m |-> AppliedStep(v, es, first, gen, f, n)]}
  <1>1. 0 \in Solved
    <2> DEFINE g == [n \in 0..0 |-> [vault |-> v, out |-> <<>>]]
    <2>1. g = [n \in 0..0 |-> AppliedStep(v, es, first, gen, g, n)]
      BY DEF AppliedStep
    <2> QED
      BY <2>1
  <1>2. \A m \in Nat : m \in Solved => m + 1 \in Solved
    <2> SUFFICES ASSUME NEW m \in Nat, m \in Solved PROVE m + 1 \in Solved
      OBVIOUS
    <2>1. PICK f : f = [n \in 0..m |-> AppliedStep(v, es, first, gen, f, n)]
      OBVIOUS
    <2> DEFINE g == [n \in 0..(m + 1) |-> IF n <= m THEN f[n] ELSE AppliedStep(v, es, first, gen, f, n)]
    <2>2. \A n \in 0..(m + 1) : AppliedStep(v, es, first, gen, g, n) = AppliedStep(v, es, first, gen, f, n)
      BY DEF AppliedStep
    <2>3. \A n \in 0..(m + 1) : g[n] = AppliedStep(v, es, first, gen, g, n)
      BY <2>1, <2>2
    <2>4. g = [n \in 0..(m + 1) |-> AppliedStep(v, es, first, gen, g, n)]
      BY <2>3
    <2> HIDE DEF g
    <2>5. m + 1 \in Nat
      OBVIOUS
    <2>6. \E f1 : f1 = [n \in 0..(m + 1) |-> AppliedStep(v, es, first, gen, f1, n)]
      BY <2>4, Zenon
    <2> QED
      BY <2>5, <2>6, Zenon
  <1>3. Nat \subseteq Solved
    BY <1>1, <1>2, NatInductionSet, Zenon
  <1>4. PICK f : f = [n \in 0..Len(es) |-> AppliedStep(v, es, first, gen, f, n)]
    BY <1>3
  <1> QED
    BY <1>4, Zenon DEF AppliedTo, AppliedStep

\* What is forwarded for the first n texts, and the vault after them.
Applied(v, acc, es, n, P) ==
  /\ PairsWithin(acc.vault, P) /\ Grows(v, acc.vault)
  /\ acc.out \in Seq(Seq(Cell)) /\ Len(acc.out) = n
  /\ \A k \in 1..n : SentOf(acc.vault, es[k], acc.out[k], P)

\* A text that was forwarded keeps its tokens in the vault.
LEMMA SentGrows ==
  ASSUME NEW P, NEW v, NEW w, Grows(v, w), NEW e, NEW cells, SentOf(v, e, cells, P)
  PROVE  SentOf(w, e, cells, P)
  <1>1. PICK token : cells = Tokenised(e.work, DOMAIN token, token) /\ TokensOf(v, e, token, P)
    BY DEF SentOf
  <1>2. DOMAIN v.full \subseteq DOMAIN w.full /\ RowPairs(v) \subseteq RowPairs(w)
    BY DEF Grows, KeepsForward
  <1>3. \A p \in DOMAIN token : TokenOf(w, e.work[p], token[p], P)
    <2> SUFFICES ASSUME NEW p \in DOMAIN token PROVE TokenOf(w, e.work[p], token[p], P)
      OBVIOUS
    <2>1. TokenOf(v, e.work[p], token[p], P)
      BY <1>1 DEF TokensOf
    <2> QED
      BY <1>2, <2>1 DEF TokenOf, Given
  <1>4. TokensOf(w, e, token, P)
    BY <1>1, <1>2, <1>3 DEF TokensOf
  <1> QED
    BY <1>1, <1>4 DEF SentOf

\* One more text.
LEMMA ApplyStep ==
  ASSUME NEW P, NEW v, NEW acc, NEW es, NEW n \in Nat, NEW first \in Nat, NEW gen,
         Applied(v, acc, es, n, P), EntryOK(es[n + 1]), CanWrite(es[n + 1], DOMAIN v.synth, gen, P)
  PROVE  Applied(v, ApplyEntry(acc, es[n + 1], first, gen), es, n + 1, P)
  <1> DEFINE e == es[n + 1]
             wrote == WrittenTo(acc.vault, Writes(e, first), gen)[Len(Writes(e, first))]
             w == wrote.vault
             cells == Tokenised(e.work, DOMAIN wrote.token, wrote.token)
             new == ApplyEntry(acc, e, first, gen)
  <1>0. \A k \in 1..(n + 1) : k \in 1..n \/ k = n + 1
    OBVIOUS
  <1>1. /\ PairsWithin(acc.vault, P) /\ Grows(v, acc.vault) /\ acc.out \in Seq(Seq(Cell)) /\ Len(acc.out) = n
        /\ \A k \in 1..n : SentOf(acc.vault, es[k], acc.out[k], P)
    BY DEF Applied
  <1>2. CanWrite(e, DOMAIN acc.vault.synth, gen, P)
    <2>1. DOMAIN v.synth \subseteq DOMAIN acc.vault.synth
      BY <1>1 DEF Grows, KeepsForward
    <2> QED
      BY <2>1 DEF CanWrite
  <1>3. PairsWithin(w, P) /\ Grows(acc.vault, w) /\ TokensOf(w, e, wrote.token, P)
    BY <1>1, <1>2, EntryWritten
  <1>4. new = [vault |-> w, out |-> Append(acc.out, cells)]
    BY DEF ApplyEntry
  <1> HIDE DEF wrote, new, e
  <1>5. cells \in Seq(Cell)
    <2>1. e.work \in Seq(Cell)
      BY DEF EntryOK, Entry, e
    <2>2. \A p \in DOMAIN wrote.token : wrote.token[p] \in Seq(Cell)
      <3> SUFFICES ASSUME NEW p \in DOMAIN wrote.token PROVE wrote.token[p] \in Seq(Cell)
        OBVIOUS
      <3>1. PICK id \in Nat, d \in Displays : wrote.token[p] = Token(id, d)
        BY <1>3 DEF TokensOf, TokenOf
      <3> QED
        BY <3>1, TokenType
    <2> QED
      BY <2>1, <2>2, TokenisedType
  <1>6. SentOf(w, e, cells, P)
    BY <1>3 DEF SentOf
  <1> HIDE DEF cells, w
  <1>7. new.vault = w /\ new.out = Append(acc.out, cells)
    BY <1>4
  <1>8. /\ new.out \in Seq(Seq(Cell)) /\ Len(new.out) = n + 1
        /\ \A k \in 1..n : new.out[k] = acc.out[k]
        /\ new.out[n + 1] = cells
    BY <1>1, <1>5, <1>7
  <1>9. \A k \in 1..n : SentOf(w, es[k], new.out[k], P)
    BY <1>1, <1>3, <1>8, SentGrows
  <1>10. Grows(v, w)
    BY <1>1, <1>3, GrowsOn
  <1>11. Applied(v, new, es, n + 1, P)
    BY <1>0, <1>3, <1>6, <1>7, <1>8, <1>9, <1>10 DEF Applied, e
  <1> QED
    BY <1>11 DEF new, e

\* All texts of a request.
LEMMA AppliedWithin ==
  ASSUME NEW P, NEW v, PairsWithin(v, P), NEW es \in Seq(Entry), NEW first \in Nat, NEW gen,
         \A k \in DOMAIN es : EntryOK(es[k]) /\ CanWrite(es[k], DOMAIN v.synth, gen, P)
  PROVE  Applied(v, AppliedTo(v, es, first, gen)[Len(es)], es, Len(es), P)
  <1> DEFINE f == AppliedTo(v, es, first, gen)
             T == {n \in Nat : n <= Len(es) => Applied(v, f[n], es, n, P)}
  <1>0. Len(es) \in Nat /\ DOMAIN es = 1..Len(es)
    OBVIOUS
  <1>1. f = [n \in 0..Len(es) |-> AppliedStep(v, es, first, gen, f, n)]
    BY <1>0, AppliedToDef
  <1> HIDE DEF f
  <1>2. \A n \in 0..Len(es) : f[n] = AppliedStep(v, es, first, gen, f, n)
    BY <1>1
  <1>3. 0 \in T
    <2> DEFINE a == [vault |-> v, out |-> <<>>]
    <2>1. f[0] = a
      BY <1>0, <1>2 DEF AppliedStep
    <2>2. a.vault = v /\ a.out = <<>>
      OBVIOUS
    <2>3. Grows(v, v)
      BY DEF Grows, KeepsForward
    <2>4. 1..0 = {} /\ <<>> \in Seq(Seq(Cell)) /\ Len(<<>>) = 0
      OBVIOUS
    <2> HIDE DEF a
    <2>5. Applied(v, a, es, 0, P)
      BY <2>2, <2>3, <2>4 DEF Applied
    <2> QED
      BY <2>1, <2>5
  <1>4. \A n \in Nat : n \in T => n + 1 \in T
    <2> SUFFICES ASSUME NEW n \in Nat, n \in T, n + 1 <= Len(es) PROVE Applied(v, f[n + 1], es, n + 1, P)
      OBVIOUS
    <2>1. Applied(v, f[n], es, n, P) /\ n + 1 \in DOMAIN es
      BY <1>0
    <2>2. f[n + 1] = ApplyEntry(f[n], es[n + 1], first, gen)
      <3>1. n + 1 \in 0..Len(es) /\ n + 1 # 0 /\ (n + 1) - 1 = n
        BY <1>0, <2>1
      <3>2. f[n + 1] = AppliedStep(v, es, first, gen, f, n + 1)
        BY <1>2, <3>1, Zenon
      <3> QED
        BY <3>1, <3>2, Zenon DEF AppliedStep
    <2> QED
      BY <2>1, <2>2, ApplyStep
  <1>5. Nat \subseteq T
    BY <1>3, <1>4, NatInductionSet, Zenon
  <1> QED
    BY <1>0, <1>5 DEF f

-----------------------------------------------------------------------------
(* The invariant *)

\* Texts of a client.
Plain == Seq({Word} \cup Originals)

\* What the variables hold; the texts detected so far are the first ones of the request.
Types ==
  /\ slm \in BOOLEAN
  /\ pc \in [Tasks -> {"idle", "detect", "slm", "sent"}]
  /\ text \in [Tasks -> Seq(Plain)]
  /\ base \in [Tasks -> Nat]
  /\ done \in [Tasks -> Seq(Entry)]
  /\ sent \in [Tasks -> Seq(Seq(Cell))]
  /\ \A t \in Tasks : \A k \in DOMAIN done[t] : EntryOK(done[t][k])
  /\ \A t \in Tasks : Len(done[t]) <= Len(text[t]) /\ (pc[t] = "slm" => Len(done[t]) < Len(text[t]))
  /\ \A t \in Tasks : (pc[t] = "sent" => Len(done[t]) = Len(text[t])) /\ (pc[t] = "idle" => done[t] = <<>>)

\* All pairs of the vault were given out.
PairsInv == PairsWithin(vault, given) /\ RowPairs(vault) \subseteq given

\* A row that was stored by an earlier process makes a vault of the shape.
LEMMA LoadedShape ==
  ASSUME NEW v \in Loaded
  PROVE  PairsWithin(v, RowPairs(v))
  <1>1. CASE v = EmptyVault
    BY <1>1, EmptyWithin
  <1>2. CASE v # EmptyVault
    <2>1. PICK r \in [original : Originals, display : Displays, id : {NoId, 0}] :
            v = Reloaded([EmptyVault EXCEPT !.rows = <<r>>])
      BY <1>2 DEF Loaded
    <2> DEFINE rows == <<r>>
               P == {<<r.original, r.display>>}
    <2>2. v = RestoredTo(rows)[Len(rows)]
      BY <2>1 DEF Reloaded, EmptyVault
    <2>3. r \in Row
      BY DEF Row, Values, NoId
    <2>4. rows \in Seq(Row) /\ \A i \in DOMAIN rows : rows[i] = r
      BY <2>3
    <2> HIDE DEF rows
    <2>6. \A i \in DOMAIN rows : <<rows[i].original, rows[i].display>> \in P
      BY <2>3, <2>4
    <2>7. PairsWithin(v, P) /\ RowPairs(v) \subseteq P
      BY <2>2, <2>4, <2>6, RestoredWithin
    <2>8. Len(rows) = 1 /\ rows[1] = r
      BY DEF rows
    <2>9. <<r.original, r.display>> \in RowPairs(v)
      <3> DEFINE f == RestoredTo(rows)
      <3>1. f = [n \in 0..1 |-> RestoreStep(rows, f, n)]
        BY <2>8, RestoredToDef
      <3> HIDE DEF f
      <3>2. f[0] = EmptyVault /\ f[1] = Restore(f[0], r)
        BY <2>8, <3>1 DEF RestoreStep
      <3> DEFINE u == AddMapping(EmptyVault, r.original, r.display, r.id)
      <3>3. r.original \in Values /\ r.display \in Displays /\ r.id \in Nat \cup {NoId}
        BY <2>3 DEF Row
      <3>4. r.original \notin DOMAIN EmptyVault.synth
        BY EmptyMap DEF EmptyVault
      <3>5. PairsWithin(u, {}) /\ r.original \in DOMAIN u.synth /\ u.synth[r.original] = r.display
        <4>1. AddedAs(EmptyVault, u, r.original, r.display, {})
          BY <3>3, EmptyWithin, AddWithin
        <4> QED
          BY <3>4, <4>1 DEF AddedAs
      <3> HIDE DEF u
      <3>6. <<r.original, r.display>> \in RowPairs(u)
        BY <3>5 DEF PairsWithin, Shape
      <3>7. Restore(EmptyVault, r).rows = u.rows
        <4>1. u \in Vault
          BY <3>5 DEF PairsWithin, Shape
        <4> QED
          BY <4>1 DEF Restore, Indexed, u, Vault
      <3> QED
        BY <2>2, <2>8, <3>2, <3>6, <3>7 DEF RowPairs, f
    <2>10. P \subseteq RowPairs(v)
      BY <2>9
    <2> HIDE DEF P
    <2> QED
      BY <2>7, <2>10 DEF PairsWithin, Given
  <1> QED
    BY <1>1, <1>2

\* Initially the pairs are those of the rows.
LEMMA PipelineInit == Init => Types /\ PairsInv
  <1> SUFFICES ASSUME Init PROVE Types /\ PairsInv
    OBVIOUS
  <1>0. <<>> \in Seq(Plain) /\ <<>> \in Seq(Entry) /\ <<>> \in Seq(Seq(Cell)) /\ Len(<<>>) = 0 /\ DOMAIN <<>> = {}
    OBVIOUS
  <1>1. \A t \in Tasks : done[t] = <<>> /\ text[t] = <<>> /\ pc[t] = "idle"
    BY DEF Init
  <1>2. Types
    <2>1. \A t \in Tasks : Len(done[t]) <= Len(text[t]) /\ pc[t] # "slm" /\ pc[t] # "sent" /\ done[t] = <<>>
      BY <1>0, <1>1
    <2>2. \A t \in Tasks : DOMAIN done[t] = {}
      BY <1>0, <1>1, Zenon
    <2>3. slm \in BOOLEAN /\ pc \in [Tasks -> {"idle", "detect", "slm", "sent"}] /\ text \in [Tasks -> Seq(Plain)]
          /\ base \in [Tasks -> Nat] /\ done \in [Tasks -> Seq(Entry)] /\ sent \in [Tasks -> Seq(Seq(Cell))]
      BY <1>0 DEF Init
    <2> QED
      BY <2>1, <2>2, <2>3, Zenon DEF Types
  <1>3. PairsWithin(vault, given) /\ RowPairs(vault) \subseteq given
    BY LoadedShape DEF Init
  <1> QED
    BY <1>2, <1>3 DEF PairsInv

\* The positions that are left for Tiers 1 and 2, in order.
LEMMA AscendingType ==
  ASSUME NEW X, NEW cells \in Seq(X), NEW S
  PROVE  Ascending(cells, S) \in Seq(DOMAIN cells \cap S)
  <1> DEFINE seq == [i \in DOMAIN cells |-> i]
  <1>1. DOMAIN cells = 1..Len(cells) /\ Len(cells) \in Nat
    OBVIOUS
  <1>2. seq \in [1..Len(cells) -> Nat] /\ DOMAIN seq = DOMAIN cells /\ \A i \in DOMAIN cells : seq[i] = i
    BY <1>1
  <1> HIDE DEF seq
  <1>3. seq \in Seq(Nat)
    BY <1>1, <1>2
  <1>4. Picked(seq, S) \in Seq({seq[i] : i \in DOMAIN seq \cap S})
    BY <1>3, PickedType
  <1>5. {seq[i] : i \in DOMAIN seq \cap S} = DOMAIN cells \cap S
    BY <1>2
  <1>6. Picked(seq, S) \in Seq(DOMAIN cells \cap S)
    BY <1>4, <1>5, Zenon
  <1> QED
    BY <1>6 DEF Ascending, seq

\* An entry whose spans are positions of values.
LEMMA EntryFacts ==
  ASSUME NEW work \in Seq(Cell), NEW s1 \in Seq(Reply), NEW found, found \subseteq {i \in DOMAIN work : work[i] \in Values},
         NEW spans, spans \subseteq found
  PROVE  EntryOK([work |-> work, s1 |-> s1, spans |-> Ascending(work, spans), found |-> found])
  <1> DEFINE s == Ascending(work, spans)
             e == [work |-> work, s1 |-> s1, spans |-> s, found |-> found]
  <1>1. s \in Seq(DOMAIN work \cap spans)
    BY AscendingType
  <1> HIDE DEF s
  <1>2. \A j \in DOMAIN s : s[j] \in DOMAIN work /\ work[s[j]] \in Values
    BY <1>1
  <1>3. DOMAIN work \subseteq Nat
    OBVIOUS
  <1>4. s \in Seq(Nat)
    <2>1. DOMAIN work \cap spans \subseteq Nat
      BY <1>3
    <2> QED
      BY <1>1, <2>1, SeqMonotonic, Zenon
  <1>5. found \in SUBSET Nat
    BY <1>3
  <1>6. e \in Entry
    BY <1>4, <1>5 DEF Entry
  <1>7. e.work = work /\ e.spans = s
    OBVIOUS
  <1> HIDE DEF e
  <1>8. EntryOK(e)
    BY <1>2, <1>6, <1>7 DEF EntryOK
  <1> QED
    BY <1>8 DEF e, s

\* Noting an entry.
LEMMA NotedTypes ==
  ASSUME Types, NEW t \in Tasks, Len(done[t]) < Len(text[t]), pc[t] # "sent", NEW e, EntryOK(e),
         done' = [done EXCEPT ![t] = Append(@, e)], pc' = [pc EXCEPT ![t] = "detect"],
         UNCHANGED <<slm, text, base, sent>>
  PROVE  Types'
  <1>0. /\ done \in [Tasks -> Seq(Entry)] /\ text \in [Tasks -> Seq(Plain)]
        /\ \A u \in Tasks : \A k \in DOMAIN done[u] : EntryOK(done[u][k])
        /\ \A u \in Tasks : Len(done[u]) <= Len(text[u]) /\ (pc[u] = "slm" => Len(done[u]) < Len(text[u]))
        /\ \A u \in Tasks : (pc[u] = "sent" => Len(done[u]) = Len(text[u])) /\ (pc[u] = "idle" => done[u] = <<>>)
        /\ pc \in [Tasks -> {"idle", "detect", "slm", "sent"}]
    BY DEF Types
  <1>1. e \in Entry /\ done[t] \in Seq(Entry) /\ Len(done[t]) \in Nat /\ Len(text[t]) \in Nat
    BY <1>0 DEF EntryOK
  <1> DEFINE n == Len(done[t])
  <1>2. done'[t] = Append(done[t], e) /\ \A u \in Tasks : u # t => done'[u] = done[u]
    BY <1>0
  <1>3. /\ done'[t] \in Seq(Entry) /\ Len(done'[t]) = n + 1 /\ DOMAIN done'[t] = DOMAIN done[t] \cup {n + 1}
        /\ done'[t][n + 1] = e /\ \A k \in DOMAIN done[t] : done'[t][k] = done[t][k]
    BY <1>1, <1>2
  <1>4. done' \in [Tasks -> Seq(Entry)]
    BY <1>0, <1>1
  <1>5. \A u \in Tasks : \A k \in DOMAIN done'[u] : EntryOK(done'[u][k])
    BY <1>0, <1>2, <1>3
  <1>6. \A u \in Tasks : Len(done'[u]) <= Len(text[u]) /\ (pc'[u] = "slm" => Len(done'[u]) < Len(text[u]))
                         /\ (pc'[u] = "sent" => Len(done'[u]) = Len(text[u])) /\ (pc'[u] = "idle" => done'[u] = <<>>)
    BY <1>0, <1>1, <1>2, <1>3
  <1>7. pc' \in [Tasks -> {"idle", "detect", "slm", "sent"}]
    BY <1>0
  <1>8. Types'
    BY <1>4, <1>5, <1>6, <1>7 DEF Types
  <1> QED
    BY <1>8

\* The next text of a request is a sequence of cells.
LEMMA NextText ==
  ASSUME Types, NEW t \in Tasks, Len(done[t]) < Len(text[t])
  PROVE  text[t][Len(done[t]) + 1] \in Seq(Cell) /\ text[t][Len(done[t]) + 1] \in Plain
  <1>1. text[t] \in Seq(Plain) /\ done[t] \in Seq(Entry)
    BY DEF Types
  <1>2. Len(done[t]) + 1 \in DOMAIN text[t]
    BY <1>1
  <1>3. text[t][Len(done[t]) + 1] \in Plain
    BY <1>1, <1>2
  <1>4. {Word} \cup Originals \subseteq Cell
    BY DEF Cell, Values
  <1>5. Plain \subseteq Seq(Cell)
    BY <1>4 DEF Plain
  <1> QED
    BY <1>3, <1>5

\* The texts of a request are plain.
LEMMA RequestsPlain ==
  ASSUME NEW entries \in Requests
  PROVE  entries \in Seq(Plain)
  <1>1. \A c \in Texts : c \in Plain
    BY DEF Texts, SeqOf, Plain
  <1>2. entries \in SeqOf(Texts, MaxEntries)
    BY DEF Requests
  <1>3. PICK m \in 0..MaxEntries : entries \in [1..m -> Texts]
    BY <1>2 DEF SeqOf
  <1>4. entries \in [1..m -> Plain] /\ m \in Nat
    BY <1>1, <1>3, PipelineBounds
  <1> QED
    BY <1>4

\* What a step that leaves the vault alone leaves alone.
LEMMA SameVault ==
  ASSUME PairsInv, vault' = vault, given' = given
  PROVE  PairsInv'
  <1>1. PairsWithin(vault, given) /\ RowPairs(vault) \subseteq given
    BY DEF PairsInv
  <1>2. PairsWithin(vault', given') /\ RowPairs(vault') \subseteq given'
    BY <1>1
  <1> QED
    BY <1>2 DEF PairsInv

\* A request begins.
LEMMA BeginKeeps ==
  ASSUME Types, PairsInv, NEW t \in Tasks, NEW entries \in Requests, Begin(t, entries)
  PROVE  Types' /\ PairsInv'
  <1>1. /\ pc[t] = "idle" /\ pc' = [pc EXCEPT ![t] = "detect"] /\ text' = [text EXCEPT ![t] = entries]
        /\ slm' = slm /\ vault' = vault /\ base' = base /\ done' = done /\ sent' = sent /\ given' = given
    BY DEF Begin
  <1>2. entries \in Seq(Plain) /\ Len(entries) \in Nat
    BY RequestsPlain
  <1>3. done[t] = <<>> /\ Len(<<>>) = 0 /\ Len(done[t]) <= Len(entries)
    BY <1>1, <1>2 DEF Types
  <1>4. Types'
    BY <1>1, <1>2, <1>3 DEF Types
  <1> QED
    BY <1>1, <1>4, SameVault

\* The sidecar is asked.
LEMMA AskSlmKeeps ==
  ASSUME Types, PairsInv, NEW t \in Tasks, AskSlm(t)
  PROVE  Types' /\ PairsInv'
  <1>1. /\ Len(done[t]) < Len(text[t]) /\ pc' = [pc EXCEPT ![t] = "slm"]
        /\ base' = [base EXCEPT ![t] = MappingCount(vault)] /\ pc[t] = "detect"
        /\ slm' = slm /\ vault' = vault /\ text' = text /\ done' = done /\ sent' = sent /\ given' = given
    BY DEF AskSlm
  <1>2. MappingCount(vault) \in Nat
    BY FS_CardinalityType DEF PairsInv, PairsWithin, Shape, MappingCount
  <1>3. Types'
    BY <1>1, <1>2 DEF Types
  <1> QED
    BY <1>1, <1>3, SameVault

\* The response is through.
LEMMA FinishKeeps ==
  ASSUME Types, PairsInv, NEW t \in Tasks, Finish(t)
  PROVE  Types' /\ PairsInv'
  <1>1. /\ pc' = [pc EXCEPT ![t] = "idle"] /\ text' = [text EXCEPT ![t] = <<>>] /\ base' = [base EXCEPT ![t] = 0]
        /\ done' = [done EXCEPT ![t] = <<>>] /\ sent' = [sent EXCEPT ![t] = <<>>]
        /\ slm' = slm /\ vault' = vault /\ given' = given
    BY DEF Finish
  <1>0. <<>> \in Seq(Plain) /\ <<>> \in Seq(Entry) /\ <<>> \in Seq(Seq(Cell)) /\ Len(<<>>) = 0 /\ DOMAIN <<>> = {}
    OBVIOUS
  <1>2. done'[t] = <<>> /\ \A u \in Tasks : u # t => done'[u] = done[u]
    BY <1>1 DEF Types
  <1>3. Types'
    BY <1>0, <1>1, <1>2 DEF Types
  <1> QED
    BY <1>1, <1>3, SameVault

\* Tiers 1 and 2 see a text.
LEMMA DetectAloneKeeps ==
  ASSUME Types, PairsInv, NEW t \in Tasks, DetectAlone(t)
  PROVE  Types' /\ PairsInv'
  <1> DEFINE cells == text[t][Len(done[t]) + 1]
  <1>1. PICK found \in SUBSET {i \in DOMAIN cells : cells[i] \in Values} : Detected(t, cells, <<>>, found, found)
    BY DEF DetectAlone
  <1> DEFINE e == [work |-> cells, s1 |-> <<>>, spans |-> Ascending(cells, found), found |-> found]
  <1>2. /\ pc[t] = IF slm THEN "slm" ELSE "detect"
        /\ Len(done[t]) < Len(text[t]) /\ pc' = [pc EXCEPT ![t] = "detect"]
        /\ slm' = slm /\ vault' = vault /\ text' = text /\ base' = base /\ sent' = sent
        /\ done' = [done EXCEPT ![t] = Append(@, e)] /\ given' = given
    BY <1>1 DEF DetectAlone, Detected
  <1>3. cells \in Seq(Cell)
    BY <1>2, NextText
  <1>4. <<>> \in Seq(Reply)
    OBVIOUS
  <1> HIDE DEF cells
  <1>5. EntryOK(e)
    BY <1>3, <1>4, EntryFacts
  <1> HIDE DEF e
  <1>7. Types'
    <2>1. pc[t] # "sent"
      BY <1>2
    <2> QED
      BY <1>2, <1>5, <2>1, NotedTypes
  <1> QED
    BY <1>2, <1>7, SameVault

\* What a reply of the sidecar is.
ReplyOK(cells, reply) ==
  /\ DOMAIN reply \subseteq DOMAIN cells /\ DOMAIN reply # {}
  /\ \A i \in DOMAIN reply : cells[i] \in Originals /\ reply[i] \in Displays

\* A reply of the sidecar, seen part by part.
LEMMA RepliesFacts ==
  ASSUME NEW cells, NEW reply \in Replies(cells)
  PROVE  ReplyOK(cells, reply)
  <1>1. PICK at \in (SUBSET {i \in DOMAIN cells : cells[i] \in Originals}) \ {{}} : reply \in [at -> Displays]
    BY Zenon DEF Replies
  <1> QED
    BY <1>1 DEF ReplyOK

\* The numbers of a sequence rise.
Rises(s) == \A a, b \in DOMAIN s : a < b => s[a] < s[b]

\* Every position that is left for Tiers 1 and 2 is among their spans.
LEMMA AscendingOnto ==
  ASSUME NEW X, NEW cells \in Seq(X), NEW S, NEW i \in DOMAIN cells, i \in S
  PROVE  \E k \in DOMAIN Ascending(cells, S) : Ascending(cells, S)[k] = i
  <1> DEFINE seq == [j \in DOMAIN cells |-> j]
  <1>1. DOMAIN cells = 1..Len(cells) /\ Len(cells) \in Nat
    OBVIOUS
  <1>2. seq \in [1..Len(cells) -> Nat] /\ DOMAIN seq = DOMAIN cells /\ seq[i] = i
    BY <1>1
  <1>3. Ascending(cells, S) = Picked(seq, S)
    BY DEF Ascending
  <1> HIDE DEF seq
  <1>4. seq \in Seq(Nat)
    BY <1>1, <1>2
  <1>5. \E k \in DOMAIN Picked(seq, S) : Picked(seq, S)[k] = seq[i]
    BY <1>2, <1>4, PickedOnto
  <1> QED
    BY <1>2, <1>3, <1>5

\* Positions come in ascending order.
LEMMA AscendingRises ==
  ASSUME NEW X, NEW cells \in Seq(X), NEW S
  PROVE  Rises(Ascending(cells, S))
  <1> DEFINE seq == [j \in DOMAIN cells |-> j]
             f == PickedTo(seq, S)
             N == Len(cells)
             T == {n \in Nat : n <= N => f[n] \in Seq(1..n) /\ Rises(f[n])}
  <1>1. DOMAIN cells = 1..N /\ N \in Nat
    OBVIOUS
  <1>2. seq \in [1..N -> Nat] /\ \A i \in 1..N : seq[i] = i
    BY <1>1
  <1>3. Ascending(cells, S) = Picked(seq, S)
    BY DEF Ascending
  <1> HIDE DEF seq
  <1>4. seq \in Seq(Nat) /\ Len(seq) = N
    BY <1>1, <1>2
  <1>5. f[0] = <<>> /\ Picks(f, seq, S)
    BY <1>4, PickedToStep
  <1> HIDE DEF f, N
  <1>6. 0 \in T
    <2>1. <<>> \in Seq(1..0) /\ DOMAIN <<>> = {}
      OBVIOUS
    <2>2. Rises(<<>>)
      BY <2>1 DEF Rises
    <2> QED
      BY <1>5, <2>1, <2>2
  <1>7. ASSUME NEW n \in Nat, n \in T PROVE n + 1 \in T
    <2> SUFFICES ASSUME n + 1 <= N PROVE f[n + 1] \in Seq(1..(n + 1)) /\ Rises(f[n + 1])
      OBVIOUS
    <2>1. f[n] \in Seq(1..n) /\ Rises(f[n])
      BY <1>1, <1>7
    <2>2. n + 1 \in 1..N /\ (n + 1) - 1 = n
      BY <1>1
    <2>3. f[n + 1] = IF n + 1 \in S THEN Append(f[n], n + 1) ELSE f[n]
      BY <1>2, <1>4, <1>5, <2>2 DEF Picks
    <2>4. f[n] \in Seq(1..(n + 1))
      <3>1. 1..n \subseteq 1..(n + 1)
        OBVIOUS
      <3> QED
        BY <2>1, <3>1, SeqMonotonic, Zenon
    <2>5. Append(f[n], n + 1) \in Seq(1..(n + 1)) /\ Rises(Append(f[n], n + 1))
      <3> DEFINE g == f[n]
                 m == Len(g)
      <3>1. g \in Seq(1..n) /\ Rises(g)
        BY <2>1
      <3> HIDE DEF g
      <3>2. m \in Nat /\ DOMAIN g = 1..m /\ DOMAIN Append(g, n + 1) = 1..(m + 1) /\ Append(g, n + 1)[m + 1] = n + 1
            /\ \A i \in 1..m : Append(g, n + 1)[i] = g[i] /\ g[i] \in 1..n
        BY <3>1
      <3>3. Rises(Append(g, n + 1))
        BY <3>1, <3>2 DEF Rises
      <3> QED
        BY <2>4, <3>3 DEF g
    <2> QED
      BY <2>1, <2>3, <2>4, <2>5
  <1>8. Nat \subseteq T
    BY <1>6, <1>7, NatInductionSet, Zenon
  <1>9. N \in T
    BY <1>1, <1>8
  <1>10. Picked(seq, S) = f[N]
    BY <1>4 DEF Picked, f
  <1> QED
    BY <1>1, <1>3, <1>9, <1>10

\* The tokens of a reply: their numbers count from b in the order of the text.
SlmRank(reply)      == [i \in DOMAIN reply |-> Cardinality({j \in DOMAIN reply : j < i})]
SlmTokens(b, reply) == [i \in DOMAIN reply |-> Token(b + SlmRank(reply)[i], reply[i])]

\* A sequence of the numbers in S in ascending order.
Lists(order, S) == order \in Seq(S) /\ (\A i \in S : \E k \in DOMAIN order : order[k] = i) /\ Rises(order)

\* The sidecar's replacements at the positions order.
Replaced(cells, reply, order, b) ==
  [k \in DOMAIN order |-> [original |-> cells[order[k]], display |-> reply[order[k]],
                           at |-> order[k], id |-> b + SlmRank(reply)[order[k]]]]

\* Replacements that were made from a reply, from right to left.
MadeFrom(s1, cells, reply, b) ==
  /\ s1 \in Seq(Reply)
  /\ \A j \in DOMAIN s1 : /\ s1[j].at \in DOMAIN reply
                          /\ s1[j].original = cells[s1[j].at] /\ s1[j].display = reply[s1[j].at]
                          /\ s1[j].id = b + SlmRank(reply)[s1[j].at]
  /\ \A i \in DOMAIN reply : \E j \in DOMAIN s1 : s1[j].at = i
  /\ \A j, k \in DOMAIN s1 : j < k => s1[j].at > s1[k].at

\* The rank of a replacement is a number.
LEMMA RankType ==
  ASSUME NEW cells \in Seq(Cell), NEW reply, ReplyOK(cells, reply), NEW i \in DOMAIN reply
  PROVE  SlmRank(reply)[i] \in Nat
  <1>1. IsFiniteSet(DOMAIN cells)
    <2>1. DOMAIN cells = 1..Len(cells) /\ Len(cells) \in Int /\ 1 \in Int
      OBVIOUS
    <2> QED
      BY <2>1, FS_Interval
  <1>2. {j \in DOMAIN reply : j < i} \subseteq DOMAIN cells
    BY DEF ReplyOK
  <1>3. Cardinality({j \in DOMAIN reply : j < i}) \in Nat
    BY <1>1, <1>2, FS_Subset, FS_CardinalityType
  <1> QED
    BY <1>3 DEF SlmRank

\* The sidecar's replacements in the order they were made.
LEMMA ReversedReply ==
  ASSUME NEW cells \in Seq(Cell), NEW reply, ReplyOK(cells, reply), NEW order, Lists(order, DOMAIN reply), NEW b \in Nat
  PROVE  MadeFrom(Reverse(Replaced(cells, reply, order, b)), cells, reply, b)
  <1> DEFINE s1 == Reverse(Replaced(cells, reply, order, b))
             n == Len(order)
             s == Replaced(cells, reply, order, b)
  <1>1. n \in Nat /\ DOMAIN order = 1..n /\ \A k \in 1..n : order[k] \in DOMAIN reply
    BY DEF Lists
  <1>2. DOMAIN s = 1..n
    BY <1>1 DEF Replaced
  <1>3. ASSUME NEW k \in 1..n
        PROVE  /\ s[k] \in Reply /\ s[k].original = cells[order[k]] /\ s[k].display = reply[order[k]]
               /\ s[k].at = order[k] /\ s[k].id = b + SlmRank(reply)[order[k]]
    <2> DEFINE r == b + SlmRank(reply)[order[k]]
    <2>1. order[k] \in DOMAIN reply /\ order[k] \in Nat
      BY <1>1 DEF ReplyOK
    <2>2. r \in Nat
      BY <2>1, RankType
    <2>3. s[k] = [original |-> cells[order[k]], display |-> reply[order[k]], at |-> order[k], id |-> r]
      BY <1>1 DEF Replaced
    <2> HIDE DEF r, s
    <2>4. cells[order[k]] \in Originals /\ reply[order[k]] \in Displays
      BY <2>1 DEF ReplyOK
    <2> QED
      BY <2>1, <2>2, <2>3, <2>4 DEF Reply, r
  <1> HIDE DEF s, n
  <1>4. s \in Seq(Reply) /\ Len(s) = n
    <2>1. s = [k \in 1..n |-> s[k]]
      BY <1>1, <1>2 DEF s, Replaced
    <2>2. s \in [1..n -> Reply]
      BY <1>3, <2>1
    <2> QED
      BY <1>1, <2>2
  <1>5. s1 = [k \in 1..n |-> s[(n - k) + 1]]
    BY <1>4 DEF Reverse, s
  <1> HIDE DEF s1
  <1>6. \A k \in 1..n : (n - k) + 1 \in 1..n /\ (n - ((n - k) + 1)) + 1 = k
    BY <1>1
  <1>7. s1 \in [1..n -> Reply]
    BY <1>3, <1>5, <1>6
  <1>8. s1 \in Seq(Reply) /\ DOMAIN s1 = 1..n
    BY <1>1, <1>7
  <1>9. ASSUME NEW j \in DOMAIN s1
        PROVE  /\ s1[j].at = order[(n - j) + 1] /\ s1[j].at \in DOMAIN reply
               /\ s1[j].original = cells[s1[j].at] /\ s1[j].display = reply[s1[j].at]
               /\ s1[j].id = b + SlmRank(reply)[s1[j].at]
    <2>1. (n - j) + 1 \in 1..n /\ s1[j] = s[(n - j) + 1]
      BY <1>5, <1>6, <1>8
    <2> QED
      BY <1>1, <1>3, <2>1
  <1>10. ASSUME NEW i \in DOMAIN reply PROVE \E j \in DOMAIN s1 : s1[j].at = i
    <2>1. PICK k \in DOMAIN order : order[k] = i
      BY DEF Lists
    <2>2. k \in 1..n
      BY <1>1, <2>1
    <2>3. (n - k) + 1 \in DOMAIN s1 /\ (n - ((n - k) + 1)) + 1 = k
      BY <1>6, <1>8, <2>2
    <2>4. s1[(n - k) + 1].at = order[k]
      BY <1>9, <2>3
    <2> QED
      BY <2>1, <2>3, <2>4
  <1>11. ASSUME NEW j \in DOMAIN s1, NEW k \in DOMAIN s1, j < k PROVE s1[j].at > s1[k].at
    <2>1. (n - j) + 1 \in 1..n /\ (n - k) + 1 \in 1..n /\ (n - k) + 1 < (n - j) + 1
      BY <1>1, <1>8, <1>11
    <2>2. order[(n - k) + 1] < order[(n - j) + 1]
      BY <1>1, <2>1 DEF Lists, Rises
    <2>3. order[(n - k) + 1] \in Nat /\ order[(n - j) + 1] \in Nat
      BY <1>1, <2>1 DEF ReplyOK
    <2> QED
      BY <1>9, <2>2, <2>3
  <1>12. MadeFrom(s1, cells, reply, b)
    BY <1>8, <1>9, <1>10, <1>11 DEF MadeFrom
  <1> QED
    BY <1>12 DEF s1

\* The text in which the sidecar's replacements stand.
LEMMA SlmWorkType ==
  ASSUME NEW cells \in Seq(Cell), NEW reply, ReplyOK(cells, reply), NEW b \in Nat
  PROVE  /\ TokensAt(cells, DOMAIN reply, SlmTokens(b, reply))
         /\ Tokenised(cells, DOMAIN reply, SlmTokens(b, reply)) \in Seq(Cell)
  <1> DEFINE token == SlmTokens(b, reply)
  <1>1. ASSUME NEW i \in DOMAIN reply PROVE IsToken(token[i]) /\ token[i] \in Seq(Cell)
    <2>1. token[i] = Token(b + SlmRank(reply)[i], reply[i])
      BY DEF SlmTokens
    <2> HIDE DEF token
    <2>2. b + SlmRank(reply)[i] \in Nat /\ reply[i] \in Displays
      BY RankType DEF ReplyOK
    <2> QED
      BY <2>1, <2>2, TokenType DEF IsToken
  <1> HIDE DEF token
  <1>2. Tokenised(cells, DOMAIN reply, token) \in Seq(Cell)
    BY <1>1, TokenisedType
  <1> QED
    BY <1>1, <1>2 DEF token, TokensAt

\* The sidecar's replacements of a text, with the working text they make.
SlmMade(t, cells, reply, e) ==
  /\ ReplyOK(cells, reply) /\ EntryOK(e)
  /\ e.work = Tokenised(cells, DOMAIN reply, SlmTokens(base[t], reply))
  /\ MadeFrom(e.s1, cells, reply, base[t])
  /\ \E found, spans :
       /\ found \subseteq {i \in DOMAIN e.work : e.work[i] \in Values} /\ e.found = found
       /\ spans = Outside(found, {[from |-> i, to |-> i + TokenLen] : i \in DOMAIN reply})
       /\ e.spans = Ascending(e.work, spans)

\* The sidecar has answered for a text.
LEMMA SlmEntry ==
  ASSUME Types, NEW t \in Tasks, DetectWithSlm(t)
  PROVE  \E reply, e : SlmMade(t, text[t][Len(done[t]) + 1], reply, e) /\ done' = [done EXCEPT ![t] = Append(@, e)]
  <1> DEFINE cells == text[t][Len(done[t]) + 1]
  <1>1. PICK reply \in Replies(cells) : SlmReplied(t, cells, reply)
    BY DEF DetectWithSlm
  <1>2. pc[t] = "slm"
    BY DEF DetectWithSlm
  <1>3. Len(done[t]) < Len(text[t]) /\ base[t] \in Nat
    BY <1>2 DEF Types
  <1>4. cells \in Seq(Cell)
    BY <1>3, NextText
  <1>5. ReplyOK(cells, reply)
    BY RepliesFacts
  <1> HIDE DEF cells
  <1> DEFINE order == Ascending(cells, DOMAIN reply)
             work  == Tokenised(cells, DOMAIN reply, SlmTokens(base[t], reply))
             zones == {[from |-> i, to |-> i + TokenLen] : i \in DOMAIN reply}
             s1    == Reverse(Replaced(cells, reply, order, base[t]))
  <1>6. PICK found \in SUBSET {i \in DOMAIN work : work[i] \in Values} :
          Detected(t, work, s1, Outside(found, zones), found)
    BY <1>1, Zenon DEF SlmReplied, SlmTokens, SlmRank, Replaced
  <1>7. work \in Seq(Cell)
    BY <1>3, <1>4, <1>5, SlmWorkType, Zenon
  <1>8. Lists(order, DOMAIN reply)
    <2> DEFINE S == DOMAIN reply
    <2>1. DOMAIN cells \cap S = S
      BY <1>5 DEF ReplyOK
    <2> HIDE DEF S
    <2>2. Ascending(cells, S) \in Seq(S) /\ Rises(Ascending(cells, S))
      <3>1. Ascending(cells, S) \in Seq(DOMAIN cells \cap S)
        BY <1>4, AscendingType
      <3> QED
        BY <1>4, <2>1, <3>1, AscendingRises
    <2>3. \A i \in S : \E k \in DOMAIN Ascending(cells, S) : Ascending(cells, S)[k] = i
      <3> SUFFICES ASSUME NEW i \in S PROVE \E k \in DOMAIN Ascending(cells, S) : Ascending(cells, S)[k] = i
        OBVIOUS
      <3>1. i \in DOMAIN cells
        BY <2>1
      <3> QED
        BY <1>4, <3>1, AscendingOnto
    <2>4. Lists(Ascending(cells, S), S)
      BY <2>2, <2>3 DEF Lists
    <2> QED
      BY <2>4 DEF S
  <1> HIDE DEF order
  <1>9. MadeFrom(s1, cells, reply, base[t])
    BY <1>3, <1>4, <1>5, <1>8, ReversedReply, Zenon
  <1> DEFINE spans == Outside(found, zones)
             e == [work |-> work, s1 |-> s1, spans |-> Ascending(work, spans), found |-> found]
  <1>10. spans \subseteq found
    BY DEF Outside
  <1>11. done' = [done EXCEPT ![t] = Append(@, e)]
    BY <1>6, Zenon DEF Detected
  <1>12. EntryOK(e)
    <2> HIDE DEF work, s1, spans
    <2> QED
      BY <1>6, <1>7, <1>9, <1>10, EntryFacts DEF MadeFrom
  <1>13. e.work = work /\ e.s1 = s1 /\ e.spans = Ascending(work, spans) /\ e.found = found
    OBVIOUS
  <1>14. found \subseteq {i \in DOMAIN work : work[i] \in Values}
    BY <1>6
  <1> HIDE DEF e
  <1>15. \E f, x : /\ f \subseteq {i \in DOMAIN e.work : e.work[i] \in Values} /\ e.found = f
                  /\ x = Outside(f, {[from |-> i, to |-> i + TokenLen] : i \in DOMAIN reply})
                  /\ e.spans = Ascending(e.work, x)
    <2> HIDE DEF work, s1
    <2> QED
      BY <1>13, <1>14, Zenon
  <1>16. SlmMade(t, cells, reply, e)
    <2>1. e.work = Tokenised(cells, DOMAIN reply, SlmTokens(base[t], reply)) /\ MadeFrom(e.s1, cells, reply, base[t])
      BY <1>9, <1>13
    <2> QED
      BY <1>5, <1>12, <1>15, <2>1, Zenon DEF SlmMade
  <1> QED
    BY <1>11, <1>16 DEF cells

\* The sidecar has answered for a text: the types hold, the vault is left alone.
LEMMA DetectWithSlmKeeps ==
  ASSUME Types, PairsInv, NEW t \in Tasks, DetectWithSlm(t)
  PROVE  Types' /\ PairsInv'
  <1>1. /\ pc[t] = "slm" /\ pc' = [pc EXCEPT ![t] = "detect"]
        /\ slm' = slm /\ vault' = vault /\ text' = text /\ base' = base /\ sent' = sent /\ given' = given
    BY DEF DetectWithSlm
  <1>2. Len(done[t]) < Len(text[t])
    BY <1>1 DEF Types
  <1>3. PICK e : EntryOK(e) /\ done' = [done EXCEPT ![t] = Append(@, e)]
    BY SlmEntry DEF SlmMade
  <1>4. Types'
    BY <1>1, <1>2, <1>3, NotedTypes
  <1> QED
    BY <1>1, <1>4, SameVault

\* The values found in a request that the vault does not know.
FoundValues(e) == {e.work[i] : i \in Range(e.spans)}
NewValues(t)   == (UNION {FoundValues(e) : e \in Range(done[t])}) \ DOMAIN vault.synth

\* What the generator produces.
LEMMA GeneratedType ==
  ASSUME NEW t \in Tasks, NEW gen \in Generated(t)
  PROVE  gen \in [NewValues(t) -> Displays]
  BY DEF Generated, NewValues, FoundValues

\* What had been given out, and what the sidecar has replaced in a request.
SlmGiven(t) == given \cup SlmPairs(done[t])

\* Every text of a request can be written.
LEMMA GenCanWrite ==
  ASSUME Types, NEW t \in Tasks, NEW gen \in Generated(t), NEW k \in DOMAIN done[t]
  PROVE  CanWrite(done[t][k], DOMAIN vault.synth, gen, SlmGiven(t))
  <1> DEFINE e == done[t][k]
  <1>1. DOMAIN gen = NewValues(t) /\ \A x \in DOMAIN gen : gen[x] \in Displays
    BY GeneratedType
  <1>2. e \in Range(done[t])
    BY DEF Range
  <1> HIDE DEF e
  <1>3. ASSUME NEW j \in DOMAIN e.spans, e.work[e.spans[j]] \notin DOMAIN vault.synth
        PROVE  e.work[e.spans[j]] \in NewValues(t)
    <2>1. e.spans[j] \in Range(e.spans)
      BY DEF Range
    <2>2. e.work[e.spans[j]] \in FoundValues(e)
      BY <2>1 DEF FoundValues
    <2>3. FoundValues(e) \in {FoundValues(z) : z \in Range(done[t])}
      BY <1>2
    <2> QED
      BY <1>3, <2>2, <2>3 DEF NewValues
  <1>4. ReplyPairs(e) \subseteq SlmGiven(t)
    <2>1. ASSUME NEW j \in DOMAIN e.s1 PROVE <<e.s1[j].original, e.s1[j].display>> \in SlmPairs(done[t])
      <3>1. e.s1[j] \in Range(e.s1)
        BY DEF Range
      <3> QED
        BY <1>2, <3>1 DEF SlmPairs
    <2> QED
      BY <2>1 DEF ReplyPairs, SlmGiven
  <1>5. ASSUME NEW j \in DOMAIN e.spans, e.work[e.spans[j]] \notin DOMAIN vault.synth
        PROVE  gen[e.work[e.spans[j]]] \in Displays
    BY <1>1, <1>3, <1>5
  <1>6. CanWrite(e, DOMAIN vault.synth, gen, SlmGiven(t))
    BY <1>4, <1>5 DEF CanWrite
  <1> QED
    BY <1>6 DEF e

\* What a request forwards, and the vault after it.
LEMMA ApplyApplied ==
  ASSUME Types, PairsInv, NEW t \in Tasks, NEW gen \in Generated(t)
  PROVE  LET first == MappingCount(vault) IN
         Applied(vault, AppliedTo(vault, done[t], first, gen)[Len(done[t])], done[t], Len(done[t]), SlmGiven(t))
  <1>2. PairsWithin(vault, SlmGiven(t))
    BY DEF PairsWithin, PairsInv, SlmGiven, Given
  <1>3. MappingCount(vault) \in Nat
    BY FS_CardinalityType DEF PairsInv, PairsWithin, Shape, MappingCount
  <1>4. done[t] \in Seq(Entry) /\ \A k \in DOMAIN done[t] : EntryOK(done[t][k])
    BY DEF Types
  <1>5. \A k \in DOMAIN done[t] : EntryOK(done[t][k]) /\ CanWrite(done[t][k], DOMAIN vault.synth, gen, SlmGiven(t))
    BY <1>4, GenCanWrite
  <1> QED
    BY <1>2, <1>3, <1>4, <1>5, AppliedWithin

\* The vault is written and the request forwarded.
LEMMA ApplyKeeps ==
  ASSUME Types, PairsInv, NEW t \in Tasks, NEW gen \in Generated(t), Apply(t, gen)
  PROVE  Types' /\ PairsInv'
  <1> DEFINE first == MappingCount(vault)
             result == AppliedTo(vault, done[t], first, gen)[Len(done[t])]
  <1>1. Applied(vault, result, done[t], Len(done[t]), SlmGiven(t))
    BY ApplyApplied
  <1>2. /\ Len(done[t]) = Len(text[t]) /\ pc' = [pc EXCEPT ![t] = "sent"] /\ vault' = result.vault
        /\ sent' = [sent EXCEPT ![t] = result.out]
        /\ slm' = slm /\ text' = text /\ base' = base /\ done' = done
        /\ given' = given \cup RowPairs(result.vault) \cup SlmPairs(done[t])
    BY DEF Apply
  <1> HIDE DEF result, first
  <1>3. PairsWithin(vault', SlmGiven(t)) /\ result.out \in Seq(Seq(Cell))
    BY <1>1, <1>2 DEF Applied
  <1>4. Types'
    BY <1>2, <1>3 DEF Types
  <1>5. RowPairs(vault') \subseteq given' /\ SlmGiven(t) \subseteq given'
    BY <1>2 DEF SlmGiven
  <1>6. PairsWithin(vault', given')
    BY <1>3, <1>5 DEF PairsWithin, Given
  <1>7. PairsInv' <=> PairsWithin(vault', given') /\ RowPairs(vault') \subseteq given'
    BY DEF PairsInv
  <1> QED
    BY <1>4, <1>5, <1>6, <1>7

\* The vault is loaded from its records.
LEMMA ReloadKeeps ==
  ASSUME Types, PairsInv, Reload
  PROVE  Types' /\ PairsInv'
  <1>1. /\ vault' = RestoredTo(vault.rows)[Len(vault.rows)] /\ given' = given
        /\ slm' = slm /\ pc' = pc /\ text' = text /\ base' = base /\ done' = done /\ sent' = sent
    BY DEF Reload, Reloaded
  <1>2. Types'
    BY <1>1 DEF Types
  <1>3. vault.rows \in Seq(Row)
    BY DEF PairsInv, PairsWithin, Shape, Vault
  <1>4. \A i \in DOMAIN vault.rows : <<vault.rows[i].original, vault.rows[i].display>> \in given
    BY DEF PairsInv, RowPairs
  <1>5. PairsWithin(vault', given) /\ RowPairs(vault') \subseteq given
    BY <1>1, <1>3, <1>4, RestoredWithin
  <1>6. PairsInv' <=> PairsWithin(vault', given') /\ RowPairs(vault') \subseteq given'
    BY DEF PairsInv
  <1> QED
    BY <1>1, <1>2, <1>5, <1>6

\* Every step keeps the types and the pairs.
LEMMA PipelineStep == Types /\ PairsInv /\ [Next]_vars => Types' /\ PairsInv'
  <1> SUFFICES ASSUME Types, PairsInv, [Next]_vars PROVE Types' /\ PairsInv'
    OBVIOUS
  <1>1. CASE UNCHANGED vars
    <2>1. /\ slm' = slm /\ pc' = pc /\ text' = text /\ base' = base /\ done' = done /\ sent' = sent /\ vault' = vault
          /\ given' = given
      BY <1>1 DEF vars
    <2>2. Types'
      BY <2>1 DEF Types
    <2> QED
      BY <2>1, <2>2, SameVault
  <1>2. ASSUME NEW t \in Tasks, NEW entries \in Requests, Begin(t, entries) PROVE Types' /\ PairsInv'
    BY <1>2, BeginKeeps
  <1>3. ASSUME NEW t \in Tasks, AskSlm(t) PROVE Types' /\ PairsInv'
    BY <1>3, AskSlmKeeps
  <1>4. ASSUME NEW t \in Tasks, DetectAlone(t) PROVE Types' /\ PairsInv'
    BY <1>4, DetectAloneKeeps
  <1>5. ASSUME NEW t \in Tasks, DetectWithSlm(t) PROVE Types' /\ PairsInv'
    BY <1>5, DetectWithSlmKeeps
  <1>6. ASSUME NEW t \in Tasks, NEW gen \in Generated(t), Apply(t, gen) PROVE Types' /\ PairsInv'
    BY <1>6, ApplyKeeps
  <1>7. ASSUME NEW t \in Tasks, Finish(t) PROVE Types' /\ PairsInv'
    BY <1>7, FinishKeeps
  <1>8. CASE Reload
    BY <1>8, ReloadKeeps
  <1> QED
    BY <1>1, <1>2, <1>3, <1>4, <1>5, <1>6, <1>7, <1>8 DEF Next

\* Throughout, the vault has no pair that was not given out.
THEOREM PairsInvariant == Spec => [](Types /\ PairsInv)
  BY PipelineInit, PipelineStep, PTL DEF Spec

\* An original has one synthetic, and the levels of the cascade agree for every synthetic that has
\* stood for one original only: for any number of requests in any order, with any replacements by
\* the sidecar and whatever the generator (synth.rs) produces, its own repetitions included.
THEOREM VaultSoundAlways == Spec => []VaultSound
  <1>1. Types /\ PairsInv => VaultSound
    BY ShapeSound DEF PairsInv
  <1> QED
    BY <1>1, PairsInvariant, PTL

-----------------------------------------------------------------------------
(* The cascade *)

\* A token ends behind its begin, within the text.
LEMMA TokenEndIn ==
  ASSUME NEW cells \in Seq(Cell), NEW i \in 1..Len(cells)
  PROVE  TokenEnd(cells, i) \in i..Len(cells)
  <1>0. Len(cells) \in Nat /\ i \in Nat
    OBVIOUS
  <1>1. CASE ClosesAt(cells, i) = {}
    BY <1>0, <1>1 DEF TokenEnd
  <1>2. CASE ClosesAt(cells, i) # {}
    <2>1. ClosesAt(cells, i) \subseteq Nat /\ ClosesAt(cells, i) \subseteq i..Len(cells)
      BY <1>0 DEF ClosesAt
    <2>2. \E c \in ClosesAt(cells, i) : \A b \in ClosesAt(cells, i) : c <= b
      BY <1>2, <2>1, LeastNatural, Zenon
    <2>3. TokenEnd(cells, i) \in ClosesAt(cells, i)
      BY <1>2, <2>2, Zenon DEF TokenEnd
    <2> QED
      BY <2>1, <2>3
  <1> QED
    BY <1>1, <1>2

\* A token ends at the first Close.
LEMMA TokenEndIs ==
  ASSUME NEW cells \in Seq(Cell), NEW i \in 1..Len(cells), NEW last \in i..Len(cells), cells[last] = Close,
         \A c \in i..Len(cells) : c < last => cells[c] # Close
  PROVE  TokenEnd(cells, i) = last
  <1> DEFINE C == ClosesAt(cells, i)
             least == CHOOSE c \in C : \A b \in C : c <= b
  <1>0. Len(cells) \in Nat /\ i \in Nat /\ last \in Nat
    OBVIOUS
  <1>1. last \in C /\ C \subseteq Nat
    BY <1>0 DEF ClosesAt
  <1>2. \A b \in C : last <= b
    BY <1>0 DEF ClosesAt
  <1>3. TokenEnd(cells, i) = least
    BY <1>1, Zenon DEF TokenEnd
  <1> HIDE DEF C
  <1>4. least \in C /\ \A b \in C : least <= b
    BY <1>1, <1>2, Zenon
  <1> HIDE DEF least
  <1>5. least <= last /\ last <= least /\ least \in Nat
    BY <1>1, <1>2, <1>4
  <1>6. least = last
    BY <1>0, <1>5
  <1> QED
    BY <1>3, <1>6

\* One step of the recursion that defines UnmaskedEnds.
UnmaskStep(v, cells, f, n) ==
  IF n = 0 THEN <<>>
  ELSE LET i == Len(cells) - n + 1
           last == TokenEnd(cells, i)
       IN IF IsTag(cells[i]) THEN Resolved(v, cells, i, last) \o f[Len(cells) - last]
          ELSE <<Bare(v, cells[i])>> \o f[n - 1]

\* UnmaskedEnds solves its recursive definition: a token ends behind its begin.
LEMMA UnmaskedEndsDef ==
  ASSUME NEW v, NEW cells \in Seq(Cell)
  PROVE  UnmaskedEnds(v, cells) = [n \in 0..Len(cells) |-> UnmaskStep(v, cells, UnmaskedEnds(v, cells), n)]
  <1> DEFINE N == Len(cells)
             Solved == {m \in Nat : m <= N => \E f : f = [n \in 0..m |-> UnmaskStep(v, cells, f, n)]}
  <1>0. N \in Nat
    OBVIOUS
  <1>1. 0 \in Solved
    <2> DEFINE g == [n \in 0..0 |-> <<>>]
    <2>1. g = [n \in 0..0 |-> UnmaskStep(v, cells, g, n)]
      BY DEF UnmaskStep
    <2> QED
      BY <2>1
  <1>2. \A m \in Nat : m \in Solved => m + 1 \in Solved
    <2> SUFFICES ASSUME NEW m \in Nat, m \in Solved, m + 1 <= N
                 PROVE  \E f : f = [n \in 0..(m + 1) |-> UnmaskStep(v, cells, f, n)]
      OBVIOUS
    <2>1. PICK f : f = [n \in 0..m |-> UnmaskStep(v, cells, f, n)]
      BY <1>0
    <2> DEFINE g == [n \in 0..(m + 1) |-> IF n <= m THEN f[n] ELSE UnmaskStep(v, cells, f, n)]
    <2>2. \A n \in 0..(m + 1) : UnmaskStep(v, cells, g, n) = UnmaskStep(v, cells, f, n)
      <3> SUFFICES ASSUME NEW n \in 0..(m + 1), n # 0 PROVE UnmaskStep(v, cells, g, n) = UnmaskStep(v, cells, f, n)
        BY DEF UnmaskStep
      <3> DEFINE i == N - n + 1
                 last == TokenEnd(cells, i)
      <3>1. i \in 1..N /\ n - 1 \in 0..m /\ N - i = n - 1 /\ i \in Nat
        BY <1>0
      <3>2. last \in i..N
        BY <3>1, TokenEndIn
      <3> HIDE DEF last
      <3>3. N - last \in 0..m
        BY <1>0, <3>1, <3>2
      <3>4. g[n - 1] = f[n - 1] /\ g[N - last] = f[N - last]
        BY <3>1, <3>3
      <3> HIDE DEF g
      <3> QED
        BY <3>4 DEF UnmaskStep, last
    <2>3. \A n \in 0..(m + 1) : g[n] = UnmaskStep(v, cells, g, n)
      <3>1. \A n \in 0..m : f[n] = UnmaskStep(v, cells, f, n)
        BY <2>1
      <3>2. \A n \in 0..(m + 1) : g[n] = UnmaskStep(v, cells, f, n)
        BY <3>1
      <3> QED
        BY <2>2, <3>2
    <2>4. g = [n \in 0..(m + 1) |-> UnmaskStep(v, cells, g, n)]
      BY <2>3
    <2> HIDE DEF g
    <2> QED
      BY <2>4, Zenon
  <1>3. Nat \subseteq Solved
    BY <1>1, <1>2, NatInductionSet, Zenon
  <1>4. PICK f : f = [n \in 0..N |-> UnmaskStep(v, cells, f, n)]
    BY <1>0, <1>3
  <1> QED
    BY <1>4, Zenon DEF UnmaskedEnds, UnmaskStep

\* What stands for cell c in cells a to b - 1: c itself, or a token of the vault.
Kept(c, cells, a, b) == b = a + 1 /\ a <= Len(cells) /\ cells[a] = c
Hidden(v, c, cells, a, b) ==
  \E id \in Nat, d \in Displays :
    /\ b = a + 3 /\ a + 2 <= Len(cells)
    /\ cells[a] = [id |-> id] /\ cells[a + 1] = d /\ cells[a + 2] = Close
    /\ <<id, d>> \in DOMAIN v.full /\ v.full[<<id, d>>] = c
Shown(v, c, cells, a, b) == Kept(c, cells, a, b) \/ Hidden(v, c, cells, a, b)

\* cells says plain to who has the vault: cell j of plain begins at pos[j].
Decodes(v, plain, cells, pos) ==
  /\ pos[1] = 1 /\ pos[Len(plain) + 1] = Len(cells) + 1
  /\ \A j \in 1..(Len(plain) + 1) : pos[j] \in Nat \ {0}
  /\ \A j \in 1..Len(plain) : Shown(v, plain[j], cells, pos[j], pos[j + 1])

\* The cascade on a token of the vault.
LEMMA ResolvedToken ==
  ASSUME NEW v, NEW cells \in Seq(Cell), NEW i \in Nat \ {0}, i + 2 <= Len(cells), NEW id \in Nat, NEW d \in Displays,
         cells[i] = [id |-> id], cells[i + 1] = d, cells[i + 2] = Close, <<id, d>> \in DOMAIN v.full
  PROVE  IsTag(cells[i]) /\ TokenEnd(cells, i) = i + 2 /\ Resolved(v, cells, i, i + 2) = <<v.full[<<id, d>>]>>
  <1>0. Len(cells) \in Nat
    OBVIOUS
  <1>1. cells[i] \in Tags /\ cells[i].id = id
    BY DEF Tags
  <1>2. IsTag(cells[i]) /\ cells[i] # Close
    BY <1>1, CellAssumption DEF IsTag, Values
  <1>3. cells[i + 1] # Close
    BY CellAssumption
  <1>4. TokenEnd(cells, i) = i + 2
    <2>1. i \in 1..Len(cells) /\ i + 2 \in i..Len(cells)
      BY <1>0
    <2>2. \A c \in i..Len(cells) : c < i + 2 => c = i \/ c = i + 1
      BY <1>0
    <2>3. \A c \in i..Len(cells) : c < i + 2 => cells[c] # Close
      BY <1>2, <1>3, <2>2
    <2> QED
      BY <2>1, <2>3, TokenEndIs
  <1> DEFINE body == SubSeq(cells, i + 1, i + 2 - 1)
  <1>5. Len(body) = 1 /\ body[1] = d
    <2>1. i + 2 - 1 = i + 1 /\ i + 1 \in 1..Len(cells)
      BY <1>0
    <2>2. \A k \in (i + 1)..(i + 1) : cells[k] \in Cell
      BY <2>1
    <2>3. i + 1 \in Int /\ i + 1 <= i + 1 /\ (i + 1) - (i + 1) + 1 = 1 /\ 1 \in 1..1 /\ (i + 1) + 1 - 1 = i + 1
      OBVIOUS
    <2>4. /\ Len(SubSeq(cells, i + 1, i + 1)) = IF i + 1 <= i + 1 THEN (i + 1) - (i + 1) + 1 ELSE 0
          /\ \A k \in 1..((i + 1) - (i + 1) + 1) : SubSeq(cells, i + 1, i + 1)[k] = cells[(i + 1) + k - 1]
      BY <2>2, <2>3, SubSeqProperties
    <2>5. Len(SubSeq(cells, i + 1, i + 1)) = 1 /\ SubSeq(cells, i + 1, i + 1)[1] = d
      BY <2>3, <2>4
    <2> QED
      BY <2>1, <2>5, Zenon
  <1> HIDE DEF body
  <1>6. Resolved(v, cells, i, i + 2) = <<v.full[<<id, d>>]>>
    <2>1. {<<id, d>>} \cap DOMAIN v.full # {}
      OBVIOUS
    <2> QED
      BY <1>1, <1>5, <2>1 DEF Resolved, body
  <1> QED
    BY <1>2, <1>4, <1>6

\* What the cascade leaves as it is.
LEMMA BareCell ==
  ASSUME NEW v, Shape(v), NEW c \in {Word} \cup Originals
  PROVE  ~IsTag(c) /\ Bare(v, c) = c
  <1>1. ~IsSynthetic(v, c)
    <2>1. \A i \in DOMAIN v.rows : v.rows[i].display \in Displays
      BY RowTypes
    <2>2. c \notin Displays
      BY CellAssumption
    <2> QED
      BY <2>1, <2>2 DEF IsSynthetic
  <1> QED
    BY <1>1 DEF Bare, IsTag, Values

\* The cells of a text from the j-th on.
From(plain, j) == [k \in 1..(Len(plain) - j + 1) |-> plain[j + k - 1]]

\* One cell more.
LEMMA FromStep ==
  ASSUME NEW X, NEW plain \in Seq(X), NEW j \in 1..Len(plain)
  PROVE  From(plain, j) = <<plain[j]>> \o From(plain, j + 1) /\ From(plain, j + 1) \in Seq(X)
  <1> DEFINE n == Len(plain)
             a == From(plain, j)
             b == From(plain, j + 1)
  <1>0. n \in Nat /\ j \in Nat /\ 1 <= j /\ j <= n /\ \A k \in 1..n : plain[k] \in X
    OBVIOUS
  <1>1. n - (j + 1) + 1 = n - j /\ n - j \in Nat /\ n - j + 1 \in Nat
    BY <1>0
  <1>2. b = [k \in 1..(n - j) |-> plain[(j + 1) + k - 1]] /\ a = [k \in 1..(n - j + 1) |-> plain[j + k - 1]]
    BY <1>1 DEF From
  <1>3. \A k \in 1..(n - j) : (j + 1) + k - 1 \in 1..n
    BY <1>0
  <1>4. b \in [1..(n - j) -> X]
    BY <1>0, <1>2, <1>3
  <1> HIDE DEF a, b, n
  <1>5. b \in Seq(X) /\ Len(b) = n - j
    BY <1>1, <1>4
  <1> DEFINE h == <<plain[j]>>
             w == h \o b
  <1>6. h \in Seq(X) /\ Len(h) = 1 /\ h[1] = plain[j]
    BY DEF n
  <1>7. Concatenates(h, b, w)
    BY <1>5, <1>6, ConcatFacts, Zenon
  <1>8. w \in Seq(X)
    BY <1>5, <1>6, ConcatProperties
  <1> HIDE DEF h, w
  <1>9. Len(w) = 1 + (n - j) /\ w[1] = plain[j] /\ \A k \in 1..(n - j) : w[1 + k] = b[k]
    BY <1>5, <1>6, <1>7 DEF Concatenates, Begins
  <1>10. DOMAIN w = 1..(n - j + 1)
    BY <1>1, <1>8, <1>9
  <1>11. \A k \in 1..(n - j + 1) : w[k] = plain[j + k - 1]
    <2> SUFFICES ASSUME NEW k \in 1..(n - j + 1) PROVE w[k] = plain[j + k - 1]
      OBVIOUS
    <2>1. CASE k = 1
      <3>1. j + k - 1 = j
        BY <1>0, <2>1
      <3> QED
        BY <1>9, <2>1, <3>1
    <2>2. CASE k # 1
      <3>1. k - 1 \in 1..(n - j) /\ 1 + (k - 1) = k /\ (j + 1) + (k - 1) - 1 = j + k - 1
        BY <1>0, <1>1, <2>2
      <3>2. w[1 + (k - 1)] = b[k - 1]
        BY <1>9, <3>1
      <3>3. b[k - 1] = plain[(j + 1) + (k - 1) - 1]
        BY <1>2, <3>1
      <3> QED
        BY <3>1, <3>2, <3>3
    <2> QED
      BY <2>1, <2>2
  <1>12. w = [k \in 1..(n - j + 1) |-> w[k]]
    BY <1>8, <1>10
  <1>13. w = a
    BY <1>2, <1>11, <1>12
  <1> QED
    BY <1>5, <1>13 DEF a, b, w, h

\* The cascade gives back the text that cells says.
LEMMA UnmaskPlain ==
  ASSUME NEW v, Shape(v), NEW plain \in Plain, NEW cells \in Seq(Cell), NEW pos, Decodes(v, plain, cells, pos)
  PROVE  Unmask(v, cells) = plain
  <1> DEFINE N == Len(cells)
             n == Len(plain)
             f == UnmaskedEnds(v, cells)
             X == {Word} \cup Originals
  <1>0. N \in Nat /\ n \in Nat /\ plain \in Seq(X) /\ \A j \in 1..n : plain[j] \in X
    BY DEF Plain
  <1>a. N \in Nat
    BY <1>0
  <1>1. f = [k \in 0..N |-> UnmaskStep(v, cells, f, k)]
    BY UnmaskedEndsDef, Zenon
  <1> HIDE DEF f
  <1>2. \A k \in 0..N : f[k] = UnmaskStep(v, cells, f, k)
    BY <1>1
  <1>3. /\ pos[1] = 1 /\ pos[n + 1] = N + 1 /\ \A j \in 1..(n + 1) : pos[j] \in Nat \ {0}
        /\ \A j \in 1..n : Kept(plain[j], cells, pos[j], pos[j + 1]) \/ Hidden(v, plain[j], cells, pos[j], pos[j + 1])
    BY DEF Decodes, Shown
  <1> HIDE DEF N, n, X
  <1> DEFINE T == {m \in Nat : m <= n => f[N + 1 - pos[n + 1 - m]] = From(plain, n + 1 - m)}
  <1>4. 0 \in T
    <2>1. n + 1 - 0 = n + 1 /\ N + 1 - (N + 1) = 0 /\ 0 \in 0..N /\ n - (n + 1) + 1 = 0
      BY <1>0
    <2>2. f[0] = <<>>
      BY <1>2, <2>1, Zenon DEF UnmaskStep
    <2>3. 1..0 = {}
      OBVIOUS
    <2>4. From(plain, n + 1) = <<>>
      BY <2>1, <2>3 DEF From, n
    <2> QED
      BY <1>3, <2>1, <2>2, <2>4
  <1>5. \A m \in Nat : m \in T => m + 1 \in T
    <2> SUFFICES ASSUME NEW m \in Nat, m \in T, m + 1 <= n
                 PROVE  f[N + 1 - pos[n + 1 - (m + 1)]] = From(plain, n + 1 - (m + 1))
      OBVIOUS
    <2> DEFINE j == n + 1 - (m + 1)
    <2>1. j \in 1..n /\ j + 1 = n + 1 - m /\ j \in 1..(n + 1) /\ j + 1 \in 1..(n + 1) /\ m <= n
      BY <1>0
    <2>2. f[N + 1 - pos[j + 1]] = From(plain, j + 1)
      BY <2>1
    <2> HIDE DEF j
    <2> DEFINE i == pos[j]
               k == N + 1 - i
    <2>3. i \in Nat \ {0}
      BY <1>3, <2>1
    <2> HIDE DEF i
    <2>4. From(plain, j) = <<plain[j]>> \o From(plain, j + 1)
      BY <1>0, <2>1, FromStep DEF n
    <2>5. ASSUME Kept(plain[j], cells, pos[j], pos[j + 1]) PROVE f[k] = From(plain, j)
      <3>1. pos[j + 1] = i + 1 /\ i <= N /\ cells[i] = plain[j]
        BY <2>5 DEF Kept, N, i
      <3>a. i <= N
        BY <3>1
      <3>2. k \in 0..N /\ k # 0 /\ N - k + 1 = i /\ N + 1 - (i + 1) = k - 1
        BY <1>a, <2>3, <3>a
      <3>3. ~IsTag(cells[i]) /\ Bare(v, cells[i]) = plain[j]
        BY <1>0, <2>1, <3>1, BareCell DEF X
      <3> HIDE DEF k
      <3>4. f[k] = UnmaskStep(v, cells, f, k)
        BY <1>2, <3>2
      <3>5. f[k] = <<plain[j]>> \o f[k - 1]
        BY <3>2, <3>3, <3>4, Zenon DEF UnmaskStep, N
      <3> QED
        BY <2>2, <2>4, <3>1, <3>2, <3>5, Zenon
    <2>6. ASSUME Hidden(v, plain[j], cells, pos[j], pos[j + 1]) PROVE f[k] = From(plain, j)
      <3>1. PICK id \in Nat, d \in Displays :
              /\ pos[j + 1] = i + 3 /\ i + 2 <= N
              /\ cells[i] = [id |-> id] /\ cells[i + 1] = d /\ cells[i + 2] = Close
              /\ <<id, d>> \in DOMAIN v.full /\ v.full[<<id, d>>] = plain[j]
        BY <2>6 DEF Hidden, N, i
      <3>a. i + 2 <= N
        BY <3>1
      <3>2. k \in 0..N /\ k # 0 /\ N - k + 1 = i /\ N + 1 - (i + 3) = N - (i + 2)
        BY <1>a, <2>3, <3>a
      <3> HIDE DEF k
      <3>3. IsTag(cells[i]) /\ TokenEnd(cells, i) = i + 2 /\ Resolved(v, cells, i, i + 2) = <<plain[j]>>
        <4>1. /\ i + 2 <= Len(cells) /\ cells[i] = [id |-> id] /\ cells[i + 1] = d /\ cells[i + 2] = Close
              /\ <<id, d>> \in DOMAIN v.full
          BY <3>1, Zenon DEF N
        <4>2. /\ IsTag(cells[i]) /\ TokenEnd(cells, i) = i + 2
              /\ Resolved(v, cells, i, i + 2) = <<v.full[<<id, d>>]>>
          BY <2>3, <4>1, ResolvedToken, ZenonT(60)
        <4> QED
          BY <3>1, <4>2, Zenon
      <3>4. f[k] = UnmaskStep(v, cells, f, k)
        BY <1>2, <3>2
      <3>5. f[k] = <<plain[j]>> \o f[N - (i + 2)]
        BY <3>2, <3>3, <3>4, Zenon DEF UnmaskStep, N
      <3> QED
        BY <2>2, <2>4, <3>1, <3>2, <3>5, Zenon
    <2> QED
      BY <1>3, <2>1, <2>5, <2>6 DEF i, j
  <1>6. Nat \subseteq T
    BY <1>4, <1>5, NatInductionSet, Zenon
  <1>7. n \in T
    BY <1>0, <1>6, Zenon
  <1>10. n + 1 - n = 1 /\ N + 1 - 1 = N /\ n <= n
    BY <1>0
  <1>8. f[N] = From(plain, 1)
    BY <1>3, <1>7, <1>10
  <1>9. From(plain, 1) = plain
    <2>1. n - 1 + 1 = n /\ \A k \in 1..n : 1 + k - 1 = k
      BY <1>0
    <2>2. From(plain, 1) = [k \in 1..n |-> plain[k]]
      BY <2>1 DEF From, n
    <2>3. plain = [k \in 1..n |-> plain[k]]
      BY <1>0 DEF n
    <2> QED
      BY <2>2, <2>3
  <1> QED
    BY <1>8, <1>9 DEF Unmask, f, N

-----------------------------------------------------------------------------
(* The texts as they are noted and forwarded *)

\* Every original that was found is in a span or in the shadow, and every span was found and is
\* not in the shadow.
SpansOK(e) ==
  /\ e.found \subseteq DOMAIN e.work
  /\ \A j \in DOMAIN e.spans : e.spans[j] \in e.found /\ e.spans[j] \notin Shadow(e)
  /\ \A i \in e.found : e.work[i] \in Originals => i \in Shadow(e) \/ \E j \in DOMAIN e.spans : e.spans[j] = i

\* Spans that leave out no original that was found, but for those in the shadow.
LEMMA SpansCover ==
  ASSUME NEW e, NEW work \in Seq(Cell), e.work = work, NEW spans, e.spans = Ascending(work, spans),
         e.found \subseteq DOMAIN work, spans \subseteq e.found, \A i \in spans : i \notin Shadow(e),
         \A i \in e.found : work[i] \in Originals => i \in spans \/ i \in Shadow(e)
  PROVE  SpansOK(e) /\ \A j \in DOMAIN e.spans : e.spans[j] \in spans
  <1>1. e.spans \in Seq(DOMAIN work \cap spans)
    BY AscendingType
  <1>2. \A i \in spans : \E k \in DOMAIN e.spans : e.spans[k] = i
    <2> SUFFICES ASSUME NEW i \in spans PROVE \E k \in DOMAIN Ascending(work, spans) : Ascending(work, spans)[k] = i
      OBVIOUS
    <2>1. i \in DOMAIN work
      OBVIOUS
    <2> QED
      BY <2>1, AscendingOnto
  <1>3. \A j \in DOMAIN e.spans : e.spans[j] \in spans
    BY <1>1
  <1> QED
    BY <1>2, <1>3 DEF SpansOK

\* The leftmost token of a text: what is before it keeps its place, and so does its begin.
LEMMA FirstTokenPlaces ==
  ASSUME NEW cells \in Seq(Cell), NEW at, NEW i \in DOMAIN cells \cap at, \A j \in at : i <= j,
         NEW token, TokensAt(cells, at, token)
  PROVE  \E pos : Placed(Tokenised(cells, at, token), cells, at, token, pos) /\ pos[i] = i
  <1> DEFINE n == Len(cells)
             out == Tokenised(cells, at, token)
  <1>0. n \in Nat /\ DOMAIN cells = 1..n /\ i \in 1..n
    OBVIOUS
  <1>2. PICK pos : Placed(out, cells, at, token, pos)
    BY TokenisedPlaces, Zenon
  <1> HIDE DEF out, n
  <1>3. pos[1] = 1 /\ \A j \in DOMAIN cells \ at : pos[j + 1] = pos[j] + 1
    BY <1>2 DEF Placed
  <1> DEFINE T == {m \in Nat : m + 1 <= i => pos[m + 1] = m + 1}
  <1>4. 0 \in T
    BY <1>3
  <1>5. \A m \in Nat : m \in T => m + 1 \in T
    <2> SUFFICES ASSUME NEW m \in Nat, m \in T, (m + 1) + 1 <= i PROVE pos[(m + 1) + 1] = (m + 1) + 1
      OBVIOUS
    <2>1. pos[m + 1] = m + 1 /\ m + 1 \in DOMAIN cells /\ m + 1 \notin at
      BY <1>0
    <2> QED
      BY <1>3, <2>1
  <1>6. Nat \subseteq T
    BY <1>4, <1>5, NatInductionSet, Zenon
  <1>7. i - 1 \in T /\ (i - 1) + 1 = i
    BY <1>0, <1>6
  <1>8. pos[i] = i
    BY <1>0, <1>7
  <1> QED
    BY <1>2, <1>8 DEF out

\* The leftmost token of a text stands where its zone is.
LEMMA FirstTokenCells ==
  ASSUME NEW cells \in Seq(Cell), NEW at, NEW i \in DOMAIN cells \cap at, \A j \in at : i <= j,
         NEW token, TokensAt(cells, at, token), NEW x \in {i, i + 1, i + 2}
  PROVE  Tokenised(cells, at, token)[x] \notin Originals
  <1> DEFINE work == Tokenised(cells, at, token)
  <1>1. PICK pos : Placed(work, cells, at, token, pos) /\ pos[i] = i
    BY FirstTokenPlaces
  <1>2. work[i] = token[i][1] /\ work[i + 1] = token[i][2] /\ work[i + 2] = token[i][3]
    BY <1>1 DEF Placed
  <1> HIDE DEF work
  <1>3. PICK id \in Nat, d \in Displays : token[i] = Token(id, d)
    BY DEF TokensAt, IsToken
  <1>4. Token(id, d)[1] = [id |-> id] /\ Token(id, d)[2] = d /\ Token(id, d)[3] = Close
    BY TokenCells
  <1>5. [id |-> id] \notin Originals /\ d \notin Originals /\ Close \notin Originals
    <2>1. [id |-> id] \in Tags
      BY DEF Tags
    <2> QED
      BY <2>1, CellAssumption
  <1>6. work[x] \notin Originals
    BY <1>2, <1>3, <1>4, <1>5
  <1> QED
    BY <1>6 DEF work

\* What the pipeline notes when the sidecar made one replacement.
NotedOne(plain, e) ==
  \E i \in DOMAIN plain, d \in Displays :
    /\ e.work = Tokenised(plain, {i}, [x \in {i} |-> Token(e.s1[1].id, d)])
    /\ e.s1[1].original = plain[i] /\ e.s1[1].display = d
    /\ \A j \in DOMAIN e.spans : e.spans[j] \notin {i, i + 1, i + 2}

\* What the pipeline notes when the sidecar made at most one replacement.
NotedAs(plain, e) == (Len(e.s1) = 0 => e.work = plain) /\ (Len(e.s1) = 1 => NotedOne(plain, e))

\* What is outside of a set of zones.
LEMMA ZoneCells ==
  ASSUME NEW found, found \subseteq Nat, NEW S, S \subseteq Nat, NEW x \in found
  PROVE  x \in Outside(found, {[from |-> i, to |-> i + TokenLen] : i \in S})
           <=> \A i \in S : x \notin {i, i + 1, i + 2}
  <1> DEFINE z(i) == [from |-> i, to |-> i + 3]
  <1>1. \A i \in S : z(i).from = i /\ z(i).to = i + 3
    OBVIOUS
  <1> HIDE DEF z
  <1>2. x \in Outside(found, {z(i) : i \in S}) <=> \A i \in S : (x + 1 <= z(i).from \/ x >= z(i).to)
    BY DEF Outside
  <1>3. x \in Nat
    OBVIOUS
  <1>4. \A i \in S : (x + 1 <= i \/ x >= i + 3) <=> x \notin {i, i + 1, i + 2}
    BY <1>3
  <1>5. x \in Outside(found, {z(i) : i \in S}) <=> \A i \in S : x \notin {i, i + 1, i + 2}
    BY <1>1, <1>2, <1>4
  <1> QED
    BY <1>5 DEF z, TokenLen

\* The number of the only token of a reply.
OnlyToken(b, i, reply) == SlmRank(reply)[i] = 0 /\ SlmTokens(b, reply) = [x \in {i} |-> Token(b, reply[i])]

\* A reply with one replacement has only one token.
LEMMA OneSlmToken ==
  ASSUME NEW b \in Nat, NEW i \in Nat, NEW reply, DOMAIN reply = {i}
  PROVE  OnlyToken(b, i, reply)
  <1>1. {j \in {i} : j < i} = {}
    OBVIOUS
  <1>2. SlmRank(reply)[i] = 0
    <2>1. SlmRank(reply)[i] = Cardinality({j \in {i} : j < i})
      BY DEF SlmRank
    <2> QED
      BY <1>1, <2>1, FS_EmptySet
  <1>3. b + 0 = b
    OBVIOUS
  <1> QED
    BY <1>2, <1>3 DEF SlmTokens, OnlyToken

\* The zones of all replacements but the leftmost are the shadow.
LEMMA ShadowZones ==
  ASSUME NEW e, EntryOK(e), NEW cells \in Seq(Cell), NEW reply, ReplyOK(cells, reply), NEW b, MadeFrom(e.s1, cells, reply, b)
  PROVE  LET i == e.s1[Len(e.s1)].at IN
         /\ Len(e.s1) \in Nat \ {0} /\ i \in DOMAIN reply
         /\ \A j \in DOMAIN reply : i <= j
         /\ \A x \in Nat : x \in Shadow(e) <=> \E j \in DOMAIN reply \ {i} : x \in {j, j + 1, j + 2}
  <1> DEFINE s == e.s1
             n == Len(s)
             i == s[n].at
  <1>1. s \in Seq(Reply) /\ n \in Nat /\ DOMAIN s = 1..n
    BY DEF EntryOK, Entry
  <1>2. DOMAIN reply # {} /\ DOMAIN reply \subseteq Nat
    BY DEF ReplyOK
  <1>3. /\ \A j \in 1..n : s[j].at \in DOMAIN reply
        /\ \A x \in DOMAIN reply : \E j \in 1..n : s[j].at = x
        /\ \A j, k \in 1..n : j < k => s[j].at > s[k].at
    BY <1>1 DEF MadeFrom
  <1>4. n # 0 /\ n \in 1..n
    BY <1>1, <1>2, <1>3
  <1>5. i \in DOMAIN reply /\ i \in Nat
    BY <1>2, <1>3, <1>4
  <1>6. \A j \in 1..n : j # n => s[j].at > i /\ s[j].at # i
    <2> SUFFICES ASSUME NEW j \in 1..n, j # n PROVE s[j].at > i /\ s[j].at # i
      OBVIOUS
    <2>1. j < n
      BY <1>1
    <2>2. s[j].at > s[n].at
      BY <1>3, <1>4, <2>1
    <2>3. s[j].at \in Nat
      BY <1>2, <1>3
    <2> QED
      BY <1>5, <2>2, <2>3
  <1>7. \A j \in DOMAIN reply : i <= j
    <2> SUFFICES ASSUME NEW j \in DOMAIN reply PROVE i <= j
      OBVIOUS
    <2>1. PICK k \in 1..n : s[k].at = j
      BY <1>3
    <2> QED
      BY <1>2, <1>5, <1>6, <2>1
  <1>8. ASSUME NEW x \in Nat
        PROVE  x \in Shadow(e) <=> \E j \in DOMAIN reply \ {i} : x \in {j, j + 1, j + 2}
    <2>1. x \in Shadow(e) <=> \E k \in 1..(n - 1) : x \in s[k].at..(s[k].at + 3 - 1)
      BY DEF Shadow, TokenLen
    <2>2. \A k \in 1..(n - 1) : k \in 1..n /\ k # n /\ s[k].at \in Nat /\ s[k].at \in DOMAIN reply \ {i}
      <3> SUFFICES ASSUME NEW k \in 1..(n - 1) PROVE k \in 1..n /\ k # n /\ s[k].at \in Nat /\ s[k].at \in DOMAIN reply \ {i}
        OBVIOUS
      <3>1. k \in 1..n /\ k # n
        BY <1>1
      <3> QED
        BY <1>2, <1>3, <1>6, <3>1
    <2>3. \A k \in 1..(n - 1) : x \in s[k].at..(s[k].at + 3 - 1) <=> x \in {s[k].at, s[k].at + 1, s[k].at + 2}
      <3> SUFFICES ASSUME NEW k \in 1..(n - 1) PROVE x \in s[k].at..(s[k].at + 3 - 1) <=> x \in {s[k].at, s[k].at + 1, s[k].at + 2}
        OBVIOUS
      <3> DEFINE a == s[k].at
      <3>1. a \in Nat
        BY <2>2
      <3> HIDE DEF a
      <3>2. x \in a..(a + 3 - 1) <=> x \in {a, a + 1, a + 2}
        BY <3>1
      <3> QED
        BY <3>2 DEF a
    <2>4. ASSUME NEW j \in DOMAIN reply \ {i} PROVE \E k \in 1..(n - 1) : s[k].at = j
      <3>1. PICK k \in 1..n : s[k].at = j
        BY <1>3
      <3>2. k # n
        BY <3>1
      <3> QED
        BY <1>1, <3>1, <3>2
    <2> HIDE DEF s, n, i
    <2> QED
      BY <2>1, <2>2, <2>3, <2>4
  <1> QED
    BY <1>1, <1>4, <1>5, <1>7, <1>8

\* The sidecar has made replacements.
LEMMA SlmNoted ==
  ASSUME Types, NEW t \in Tasks, DetectWithSlm(t)
  PROVE  \E e : done' = [done EXCEPT ![t] = Append(@, e)] /\ SpansOK(e)
                /\ NotedAs(text[t][Len(done[t]) + 1], e)
  <1> DEFINE cells == text[t][Len(done[t]) + 1]
  <1>1. PICK reply, e : SlmMade(t, cells, reply, e) /\ done' = [done EXCEPT ![t] = Append(@, e)]
    BY SlmEntry
  <1>2. pc[t] = "slm"
    BY DEF DetectWithSlm
  <1>3. Len(done[t]) < Len(text[t]) /\ base[t] \in Nat
    BY <1>2 DEF Types
  <1>4. cells \in Seq(Cell)
    BY <1>3, NextText
  <1> HIDE DEF cells
  <1>5. /\ ReplyOK(cells, reply) /\ EntryOK(e)
        /\ e.work = Tokenised(cells, DOMAIN reply, SlmTokens(base[t], reply))
        /\ MadeFrom(e.s1, cells, reply, base[t])
    BY <1>1, Zenon DEF SlmMade
  <1>6. PICK spans : /\ e.found \subseteq {i \in DOMAIN e.work : e.work[i] \in Values}
                     /\ spans = Outside(e.found, {[from |-> i, to |-> i + TokenLen] : i \in DOMAIN reply})
                     /\ e.spans = Ascending(e.work, spans)
    BY <1>1, Zenon DEF SlmMade
  <1> DEFINE i == e.s1[Len(e.s1)].at
  <1>7. /\ Len(e.s1) \in Nat \ {0} /\ i \in DOMAIN reply /\ (\A j \in DOMAIN reply : i <= j)
        /\ \A x \in Nat : x \in Shadow(e) <=> \E j \in DOMAIN reply \ {i} : x \in {j, j + 1, j + 2}
    BY <1>4, <1>5, ShadowZones
  <1>8. e.work \in Seq(Cell)
    BY <1>5 DEF EntryOK, Entry
  <1>9. e.found \subseteq DOMAIN e.work /\ e.found \subseteq Nat /\ DOMAIN reply \subseteq Nat /\ i \in DOMAIN cells
    BY <1>4, <1>5, <1>6, <1>7, <1>8 DEF ReplyOK
  <1>10. \A x \in e.found : x \in spans <=> \A j \in DOMAIN reply : x \notin {j, j + 1, j + 2}
    BY <1>6, <1>9, ZoneCells
  <1>11. spans \subseteq e.found
    BY <1>6 DEF Outside
  <1>12. \A x \in {i, i + 1, i + 2} : e.work[x] \notin Originals
    <2>1. TokensAt(cells, DOMAIN reply, SlmTokens(base[t], reply))
      BY <1>3, <1>4, <1>5, SlmWorkType
    <2> HIDE DEF i
    <2> QED
      BY <1>4, <1>5, <1>7, <1>9, <2>1, FirstTokenCells
  <1>13. SpansOK(e) /\ \A j \in DOMAIN e.spans : e.spans[j] \in spans
    <2> HIDE DEF i
    <2>1. \A x \in spans : x \notin Shadow(e)
      BY <1>7, <1>9, <1>10, <1>11
    <2>2. \A x \in e.found : e.work[x] \in Originals => x \in spans \/ x \in Shadow(e)
      <3> SUFFICES ASSUME NEW x \in e.found, e.work[x] \in Originals, x \notin spans PROVE x \in Shadow(e)
        OBVIOUS
      <3>1. PICK j \in DOMAIN reply : x \in {j, j + 1, j + 2}
        BY <1>10
      <3>2. j # i
        BY <1>12, <3>1
      <3> QED
        BY <1>7, <1>9, <3>1, <3>2
    <2> QED
      BY <1>6, <1>8, <1>9, <1>11, <2>1, <2>2, SpansCover
  <1>14. ASSUME Len(e.s1) = 1 PROVE NotedOne(cells, e)
    <2>1. i = e.s1[1].at /\ DOMAIN e.s1 = {1}
      <3>1. e.s1 \in Seq(Reply)
        BY <1>5 DEF EntryOK, Entry
      <3> QED
        BY <1>14, <3>1
    <2>2. DOMAIN reply = {i}
      <3>1. \A x \in DOMAIN reply : \E j \in DOMAIN e.s1 : e.s1[j].at = x
        BY <1>5 DEF MadeFrom
      <3>2. \A x \in DOMAIN reply : x = i
        BY <2>1, <3>1
      <3> QED
        BY <1>7, <3>2
    <2>3. e.s1[1].original = cells[i] /\ e.s1[1].display = reply[i] /\ e.s1[1].id = base[t] + SlmRank(reply)[i]
      BY <1>5, <2>1 DEF MadeFrom
    <2> HIDE DEF i
    <2>4. SlmRank(reply)[i] = 0 /\ SlmTokens(base[t], reply) = [x \in {i} |-> Token(base[t], reply[i])]
      <3>1. i \in Nat
        BY <1>7, <1>9
      <3>2. base[t] \in Nat
        BY <1>3
      <3> DEFINE b == base[t]
      <3>3. b \in Nat
        BY <3>2
      <3> HIDE DEF b
      <3>4. OnlyToken(b, i, reply)
        BY <2>2, <3>1, <3>3, OneSlmToken
      <3> QED
        BY <3>4, Zenon DEF b, OnlyToken
    <2>5. e.s1[1].id = base[t]
      BY <1>3, <2>3, <2>4
    <2>6. e.work = Tokenised(cells, {i}, [x \in {i} |-> Token(e.s1[1].id, reply[i])])
      BY <1>5, <2>2, <2>4, <2>5, Zenon
    <2>7. \A j \in DOMAIN e.spans : e.spans[j] \notin {i, i + 1, i + 2}
      BY <1>7, <1>10, <1>11, <1>13
    <2>8. reply[i] \in Displays
      BY <1>5, <1>7 DEF ReplyOK
    <2> QED
      BY <1>9, <2>3, <2>6, <2>7, <2>8 DEF NotedOne
  <1>15. NotedAs(cells, e)
    BY <1>7, <1>14 DEF NotedAs
  <1> QED
    BY <1>1, <1>13, <1>15 DEF cells

\* Tiers 1 and 2 alone have seen a text.
LEMMA AloneNoted ==
  ASSUME Types, NEW t \in Tasks, DetectAlone(t)
  PROVE  \E e : done' = [done EXCEPT ![t] = Append(@, e)] /\ SpansOK(e) /\ NotedAs(text[t][Len(done[t]) + 1], e)
  <1> DEFINE cells == text[t][Len(done[t]) + 1]
  <1>1. PICK found \in SUBSET {i \in DOMAIN cells : cells[i] \in Values} : Detected(t, cells, <<>>, found, found)
    BY DEF DetectAlone
  <1> DEFINE e == [work |-> cells, s1 |-> <<>>, spans |-> Ascending(cells, found), found |-> found]
  <1>2. Len(done[t]) < Len(text[t]) /\ done' = [done EXCEPT ![t] = Append(@, e)]
    BY <1>1 DEF DetectAlone, Detected
  <1>3. cells \in Seq(Cell)
    BY <1>2, NextText
  <1>4. e.work = cells /\ e.s1 = <<>> /\ e.spans = Ascending(cells, found) /\ e.found = found /\ Len(<<>>) = 0
    OBVIOUS
  <1> HIDE DEF cells, e
  <1>5. Shadow(e) = {}
    <2>1. 1..(Len(e.s1) - 1) = {}
      BY <1>4
    <2> QED
      BY <2>1 DEF Shadow
  <1>6. SpansOK(e)
    BY <1>1, <1>3, <1>4, <1>5, SpansCover
  <1>7. NotedAs(cells, e)
    <2>1. Len(e.s1) = 0
      BY <1>4
    <2> QED
      BY <1>4, <2>1 DEF NotedAs
  <1> QED
    BY <1>2, <1>6, <1>7 DEF cells

-----------------------------------------------------------------------------
(* What is found is replaced *)

\* A text as it is forwarded: tokens stand at spans, and at every original in a span.
Forwarded(e, cells) ==
  \E token : /\ cells = Tokenised(e.work, DOMAIN token, token)
             /\ \A p \in DOMAIN token : IsToken(token[p]) /\ \E j \in DOMAIN e.spans : e.spans[j] = p
             /\ \A j \in DOMAIN e.spans : e.work[e.spans[j]] \in Originals => e.spans[j] \in DOMAIN token

\* What is forwarded with tokens of the vault is forwarded.
LEMMA SentForwarded ==
  ASSUME NEW P, NEW v, NEW e, NEW cells, SentOf(v, e, cells, P)
  PROVE  Forwarded(e, cells)
  <1>1. PICK token : cells = Tokenised(e.work, DOMAIN token, token) /\ TokensOf(v, e, token, P)
    BY DEF SentOf
  <1>2. \A p \in DOMAIN token : (\E j \in DOMAIN e.spans : e.spans[j] = p) /\ TokenOf(v, e.work[p], token[p], P)
    BY <1>1 DEF TokensOf
  <1>3. \A p \in DOMAIN token : IsToken(token[p])
    BY <1>2 DEF TokenOf, IsToken
  <1>4. \A j \in DOMAIN e.spans : e.work[e.spans[j]] \in Originals => e.spans[j] \in DOMAIN token
    BY <1>1 DEF TokensOf
  <1> QED
    BY <1>1, <1>2, <1>3, <1>4, Zenon DEF Forwarded

\* An original occurs in a forwarded text as often as it was missed or stands in the shadow.
LEMMA ForwardedFound ==
  ASSUME NEW e, EntryOK(e), SpansOK(e), NEW cells, Forwarded(e, cells), NEW o \in Originals
  PROVE  Occurrences(cells, o) = Cardinality({i \in DOMAIN e.work : e.work[i] = o /\ (i \in e.found => i \in Shadow(e))})
  <1>1. PICK token : /\ cells = Tokenised(e.work, DOMAIN token, token)
                     /\ \A p \in DOMAIN token : IsToken(token[p]) /\ \E j \in DOMAIN e.spans : e.spans[j] = p
                     /\ \A j \in DOMAIN e.spans : e.work[e.spans[j]] \in Originals => e.spans[j] \in DOMAIN token
    BY DEF Forwarded
  <1>2. e.work \in Seq(Cell) /\ DOMAIN e.work = 1..Len(e.work)
    BY DEF EntryOK, Entry
  <1>3. TokensAt(e.work, DOMAIN token, token)
    BY <1>1 DEF TokensAt
  <1>4. Occurrences(cells, o) = Cardinality(Left(e.work, DOMAIN token, o, Len(e.work)))
    BY <1>1, <1>2, <1>3, TokenisedOccurrences
  <1>5. \A i \in DOMAIN e.work : e.work[i] = o => (i \in DOMAIN token <=> i \in e.found /\ i \notin Shadow(e))
    BY <1>1 DEF SpansOK
  <1>6. Left(e.work, DOMAIN token, o, Len(e.work)) = {i \in DOMAIN e.work : e.work[i] = o /\ (i \in e.found => i \in Shadow(e))}
    BY <1>2, <1>5 DEF Left
  <1> QED
    BY <1>4, <1>6

\* The tokens that a text was forwarded with are still those of a vault that has grown, among more pairs.
LEMMA SentAmong ==
  ASSUME NEW P, NEW Q, P \subseteq Q, NEW v, NEW w, Grows(v, w), NEW e, NEW cells, SentOf(v, e, cells, P)
  PROVE  SentOf(w, e, cells, Q)
  <1>1. SentOf(w, e, cells, P)
    BY SentGrows
  <1>2. PICK token : cells = Tokenised(e.work, DOMAIN token, token) /\ TokensOf(w, e, token, P)
    BY <1>1 DEF SentOf
  <1>3. \A p \in DOMAIN token : TokenOf(w, e.work[p], token[p], Q)
    <2> SUFFICES ASSUME NEW p \in DOMAIN token PROVE TokenOf(w, e.work[p], token[p], Q)
      OBVIOUS
    <2>1. TokenOf(w, e.work[p], token[p], P)
      BY <1>2 DEF TokensOf
    <2> QED
      BY <2>1 DEF TokenOf, Given
  <1>4. TokensOf(w, e, token, Q)
    BY <1>2, <1>3 DEF TokensOf
  <1> QED
    BY <1>2, <1>4 DEF SentOf

\* The texts of the requests as they are noted, and as they are forwarded: with tokens of the vault that
\* stand for what they replace.
Noted(t, k)     == SpansOK(done[t][k]) /\ NotedAs(text[t][k], done[t][k])
ForwardOK(t, k) == SentOf(vault, done[t][k], sent[t][k], given) /\ ReplyPairs(done[t][k]) \subseteq given
TextInv ==
  /\ \A t \in Tasks : \A k \in DOMAIN done[t] : Noted(t, k)
  /\ \A t \in Tasks : pc[t] = "sent" => \A k \in DOMAIN done[t] : ForwardOK(t, k)

\* The entries of a request after one more was noted.
LEMMA NotedEntries ==
  ASSUME Types, NEW t \in Tasks, NEW e, done' = [done EXCEPT ![t] = Append(@, e)]
  PROVE  /\ \A u \in Tasks : u # t => done'[u] = done[u]
         /\ DOMAIN done'[t] = DOMAIN done[t] \cup {Len(done[t]) + 1}
         /\ done'[t][Len(done[t]) + 1] = e /\ \A k \in DOMAIN done[t] : done'[t][k] = done[t][k]
  <1>1. done \in [Tasks -> Seq(Entry)]
    BY DEF Types
  <1>2. done[t] \in Seq(Entry)
    BY <1>1
  <1>3. done'[t] = Append(done[t], e) /\ \A u \in Tasks : u # t => done'[u] = done[u]
    BY <1>1
  <1> DEFINE s == done[t]
  <1>4. s \in Seq(Entry)
    BY <1>2
  <1> HIDE DEF s
  <1>5. /\ DOMAIN Append(s, e) = DOMAIN s \cup {Len(s) + 1}
        /\ Append(s, e)[Len(s) + 1] = e /\ \A k \in DOMAIN s : Append(s, e)[k] = s[k]
    BY <1>4
  <1> QED
    BY <1>3, <1>5 DEF s

\* Requests that a step leaves alone.
LEMMA OthersKept ==
  ASSUME TextInv, NEW u \in Tasks, done'[u] = done[u], text'[u] = text[u]
  PROVE  \A k \in DOMAIN done'[u] : Noted(u, k)'
  BY DEF TextInv, Noted

\* So what they have forwarded, when the vault stays as it is.
LEMMA OthersSent ==
  ASSUME TextInv, NEW u \in Tasks, done'[u] = done[u], sent'[u] = sent[u], pc'[u] = pc[u],
         vault' = vault, given' = given
  PROVE  pc'[u] = "sent" => \A k \in DOMAIN done'[u] : ForwardOK(u, k)'
  BY DEF TextInv, ForwardOK

\* One more text is noted.
LEMMA NotedKeeps ==
  ASSUME Types, TextInv, NEW t \in Tasks, NEW e, SpansOK(e), NotedAs(text[t][Len(done[t]) + 1], e),
         done' = [done EXCEPT ![t] = Append(@, e)], pc' = [pc EXCEPT ![t] = "detect"],
         sent' = sent, text' = text, vault' = vault, given' = given
  PROVE  TextInv'
  <1>1. /\ \A u \in Tasks : u # t => done'[u] = done[u]
        /\ DOMAIN done'[t] = DOMAIN done[t] \cup {Len(done[t]) + 1}
        /\ done'[t][Len(done[t]) + 1] = e /\ \A k \in DOMAIN done[t] : done'[t][k] = done[t][k]
    BY NotedEntries
  <1>2. ASSUME NEW u \in Tasks, NEW k \in DOMAIN done'[u] PROVE Noted(u, k)'
    <2>1. CASE u # t
      BY <1>1, <2>1, OthersKept
    <2>2. CASE u = t /\ k \in DOMAIN done[t]
      <3>1. Noted(t, k)
        BY <2>2 DEF TextInv
      <3> QED
        BY <1>1, <2>2, <3>1 DEF Noted
    <2>3. CASE u = t /\ k = Len(done[t]) + 1
      BY <1>1, <2>3 DEF Noted
    <2> QED
      BY <1>1, <1>2, <2>1, <2>2, <2>3
  <1>3. pc \in [Tasks -> {"idle", "detect", "slm", "sent"}]
    BY DEF Types
  <1>4. pc'[t] = "detect" /\ \A u \in Tasks : u # t => pc'[u] = pc[u]
    BY <1>3
  <1>5. ASSUME NEW u \in Tasks, pc'[u] = "sent" PROVE \A k \in DOMAIN done'[u] : ForwardOK(u, k)'
    <2>1. u # t
      BY <1>4, <1>5
    <2> QED
      BY <1>1, <1>4, <1>5, <2>1, OthersSent
  <1> QED
    BY <1>2, <1>5 DEF TextInv

\* What Apply does, for every text of the request.
LEMMA ApplySent ==
  ASSUME Types, PairsInv, NEW t \in Tasks, NEW gen \in Generated(t), Apply(t, gen)
  PROVE  /\ Grows(vault, vault') /\ given \subseteq given' /\ SlmGiven(t) \subseteq given'
         /\ \A k \in DOMAIN done[t] : SentOf(vault', done[t][k], sent'[t][k], SlmGiven(t))
         /\ \A u \in Tasks : u # t => sent'[u] = sent[u] /\ pc'[u] = pc[u]
         /\ text' = text /\ done' = done
  <1> DEFINE first == MappingCount(vault)
             result == AppliedTo(vault, done[t], first, gen)[Len(done[t])]
  <1>1. Applied(vault, result, done[t], Len(done[t]), SlmGiven(t))
    BY ApplyApplied
  <1>2. /\ pc' = [pc EXCEPT ![t] = "sent"] /\ vault' = result.vault
        /\ sent' = [sent EXCEPT ![t] = result.out] /\ text' = text /\ done' = done
        /\ given' = given \cup RowPairs(result.vault) \cup SlmPairs(done[t])
    BY DEF Apply
  <1> HIDE DEF result
  <1>3. /\ pc \in [Tasks -> {"idle", "detect", "slm", "sent"}] /\ sent \in [Tasks -> Seq(Seq(Cell))]
        /\ done[t] \in Seq(Entry)
    BY DEF Types
  <1>4. sent'[t] = result.out /\ (\A u \in Tasks : u # t => sent'[u] = sent[u] /\ pc'[u] = pc[u])
    BY <1>2, <1>3
  <1>5. /\ Grows(vault, result.vault)
        /\ \A k \in 1..Len(done[t]) : SentOf(result.vault, done[t][k], result.out[k], SlmGiven(t))
    BY <1>1 DEF Applied
  <1>6. DOMAIN done[t] = 1..Len(done[t])
    BY <1>3
  <1>7. \A k \in DOMAIN done[t] : SentOf(vault', done[t][k], sent'[t][k], SlmGiven(t))
    BY <1>2, <1>4, <1>5, <1>6, Zenon
  <1>8. given \subseteq given' /\ SlmGiven(t) \subseteq given'
    BY <1>2 DEF SlmGiven
  <1>9. Grows(vault, vault')
    BY <1>2, <1>5
  <1> QED
    BY <1>2, <1>4, <1>7, <1>8, <1>9

\* A request is forwarded.
LEMMA ApplyTexts ==
  ASSUME Types, PairsInv, TextInv, NEW t \in Tasks, NEW gen \in Generated(t), Apply(t, gen)
  PROVE  TextInv'
  <1>1. /\ Grows(vault, vault') /\ given \subseteq given' /\ SlmGiven(t) \subseteq given'
        /\ \A k \in DOMAIN done[t] : SentOf(vault', done[t][k], sent'[t][k], SlmGiven(t))
        /\ \A u \in Tasks : u # t => sent'[u] = sent[u] /\ pc'[u] = pc[u]
        /\ text' = text /\ done' = done
    BY ApplySent
  <1>2. \A u \in Tasks : \A k \in DOMAIN done'[u] : Noted(u, k)'
    BY <1>1, OthersKept
  <1>3. ASSUME NEW k \in DOMAIN done[t] PROVE ForwardOK(t, k)'
    <2>1. SentOf(vault', done[t][k], sent'[t][k], given')
      <3>1. Grows(vault', vault')
        BY DEF Grows, KeepsForward
      <3> QED
        BY <1>1, <3>1, SentAmong
    <2>2. ReplyPairs(done[t][k]) \subseteq SlmGiven(t)
      BY GenCanWrite DEF CanWrite
    <2> QED
      BY <1>1, <2>1, <2>2 DEF ForwardOK
  <1>4. ASSUME NEW u \in Tasks, u # t, pc'[u] = "sent", NEW k \in DOMAIN done[u] PROVE ForwardOK(u, k)'
    <2>1. ForwardOK(u, k) /\ sent'[u] = sent[u]
      BY <1>1, <1>4 DEF TextInv
    <2>2. SentOf(vault, done[u][k], sent[u][k], given) /\ ReplyPairs(done[u][k]) \subseteq given
      BY <2>1 DEF ForwardOK
    <2>3. SentOf(vault', done[u][k], sent[u][k], given')
      BY <1>1, <2>2, SentAmong
    <2> QED
      BY <1>1, <2>1, <2>2, <2>3 DEF ForwardOK
  <1>5. \A u \in Tasks : pc'[u] = "sent" => \A k \in DOMAIN done'[u] : ForwardOK(u, k)'
    <2> SUFFICES ASSUME NEW u \in Tasks, pc'[u] = "sent", NEW k \in DOMAIN done[u] PROVE ForwardOK(u, k)'
      BY <1>1
    <2>1. CASE u = t
      BY <1>3, <2>1
    <2>2. CASE u # t
      BY <1>4, <2>2
    <2> QED
      BY <2>1, <2>2
  <1> QED
    BY <1>2, <1>5 DEF TextInv

\* Every step keeps the texts as they were noted and forwarded.
LEMMA TextStep == Types /\ PairsInv /\ TextInv /\ [Next]_vars => TextInv'
  <1> SUFFICES ASSUME Types, PairsInv, TextInv, [Next]_vars PROVE TextInv'
    OBVIOUS
  <1>0. /\ pc \in [Tasks -> {"idle", "detect", "slm", "sent"}] /\ done \in [Tasks -> Seq(Entry)]
        /\ sent \in [Tasks -> Seq(Seq(Cell))] /\ text \in [Tasks -> Seq(Plain)]
    BY DEF Types
  <1>a. DOMAIN <<>> = {}
    OBVIOUS
  <1>b. ASSUME NEW t \in Tasks, done'[t] = <<>>, vault' = vault, given' = given,
               \A u \in Tasks : u # t => /\ done'[u] = done[u] /\ sent'[u] = sent[u]
                                         /\ pc'[u] = pc[u] /\ text'[u] = text[u]
        PROVE  TextInv'
    <2>1. ASSUME NEW u \in Tasks
          PROVE  /\ \A k \in DOMAIN done'[u] : Noted(u, k)'
                 /\ pc'[u] = "sent" => \A k \in DOMAIN done'[u] : ForwardOK(u, k)'
      <3>1. CASE u = t
        BY <1>a, <1>b, <3>1
      <3>2. CASE u # t
        BY <1>b, <3>2, OthersKept, OthersSent
      <3> QED
        BY <3>1, <3>2
    <2> QED
      BY <2>1 DEF TextInv
  <1>1. CASE UNCHANGED vars
    <2>1. /\ done' = done /\ sent' = sent /\ pc' = pc /\ text' = text /\ vault' = vault /\ given' = given
      BY <1>1 DEF vars
    <2>2. TextInv'
      BY <2>1, OthersKept, OthersSent DEF TextInv
    <2> QED
      BY <2>2
  <1>2. ASSUME NEW t \in Tasks, NEW entries \in Requests, Begin(t, entries) PROVE TextInv'
    <2>1. /\ pc[t] = "idle" /\ pc' = [pc EXCEPT ![t] = "detect"] /\ text' = [text EXCEPT ![t] = entries]
          /\ done' = done /\ sent' = sent /\ vault' = vault /\ given' = given
      BY <1>2 DEF Begin
    <2>2. done'[t] = <<>>
      BY <2>1 DEF Types
    <2>3. \A u \in Tasks : u # t => pc'[u] = pc[u] /\ text'[u] = text[u]
      BY <1>0, <2>1
    <2> QED
      BY <1>b, <2>1, <2>2, <2>3
  <1>3. ASSUME NEW t \in Tasks, AskSlm(t) PROVE TextInv'
    <2>1. /\ pc' = [pc EXCEPT ![t] = "slm"] /\ text' = text
          /\ done' = done /\ sent' = sent /\ vault' = vault /\ given' = given
      BY <1>3 DEF AskSlm
    <2>2. \A u \in Tasks : pc'[u] = "sent" => pc'[u] = pc[u]
      BY <1>0, <2>1
    <2>3. \A u \in Tasks : \A k \in DOMAIN done'[u] : Noted(u, k)'
      BY <2>1, OthersKept
    <2>4. \A u \in Tasks : pc'[u] = "sent" => \A k \in DOMAIN done'[u] : ForwardOK(u, k)'
      BY <2>1, <2>2, OthersSent
    <2> QED
      BY <2>3, <2>4 DEF TextInv
  <1>4. ASSUME NEW t \in Tasks, DetectAlone(t) PROVE TextInv'
    <2>1. PICK e : /\ done' = [done EXCEPT ![t] = Append(@, e)] /\ SpansOK(e)
                   /\ NotedAs(text[t][Len(done[t]) + 1], e)
      BY <1>4, AloneNoted
    <2>2. /\ pc' = [pc EXCEPT ![t] = "detect"] /\ sent' = sent /\ text' = text /\ vault' = vault /\ given' = given
      BY <1>4 DEF DetectAlone
    <2> QED
      BY <2>1, <2>2, NotedKeeps
  <1>5. ASSUME NEW t \in Tasks, DetectWithSlm(t) PROVE TextInv'
    <2>1. PICK e : /\ done' = [done EXCEPT ![t] = Append(@, e)] /\ SpansOK(e)
                   /\ NotedAs(text[t][Len(done[t]) + 1], e)
      BY <1>5, SlmNoted
    <2>2. /\ pc' = [pc EXCEPT ![t] = "detect"] /\ sent' = sent /\ text' = text /\ vault' = vault /\ given' = given
      BY <1>5 DEF DetectWithSlm
    <2> QED
      BY <2>1, <2>2, NotedKeeps
  <1>6. ASSUME NEW t \in Tasks, NEW gen \in Generated(t), Apply(t, gen) PROVE TextInv'
    BY <1>6, ApplyTexts
  <1>7. ASSUME NEW t \in Tasks, Finish(t) PROVE TextInv'
    <2>1. /\ pc' = [pc EXCEPT ![t] = "idle"] /\ done' = [done EXCEPT ![t] = <<>>] /\ sent' = [sent EXCEPT ![t] = <<>>]
          /\ text' = [text EXCEPT ![t] = <<>>] /\ vault' = vault /\ given' = given
      BY <1>7 DEF Finish
    <2>2. /\ done'[t] = <<>>
          /\ \A u \in Tasks : u # t => done'[u] = done[u] /\ sent'[u] = sent[u] /\ pc'[u] = pc[u] /\ text'[u] = text[u]
      BY <1>0, <2>1
    <2> QED
      BY <1>b, <2>1, <2>2
  <1>8. CASE Reload
    <2>1. /\ \A u \in Tasks : pc[u] = "idle"
          /\ pc' = pc /\ done' = done /\ text' = text
      BY <1>8 DEF Reload
    <2>2. \A u \in Tasks : pc'[u] # "sent"
      BY <2>1
    <2>3. \A u \in Tasks : \A k \in DOMAIN done'[u] : Noted(u, k)'
      BY <2>1, OthersKept
    <2> QED
      BY <2>2, <2>3 DEF TextInv
  <1> QED
    BY <1>1, <1>2, <1>3, <1>4, <1>5, <1>6, <1>7, <1>8 DEF Next

\* Initially no text is noted or forwarded.
LEMMA TextInit == Init => TextInv
  <1> SUFFICES ASSUME Init PROVE TextInv
    OBVIOUS
  <1>1. \A t \in Tasks : done[t] = <<>> /\ pc[t] = "idle"
    BY DEF Init
  <1>2. DOMAIN <<>> = {}
    OBVIOUS
  <1> QED
    BY <1>1, <1>2 DEF TextInv

\* Throughout, what is forwarded is what was noted, with tokens of the vault that stand for what they replace.
THEOREM TextInvariant == Spec => []TextInv
  BY TextInit, TextStep, PairsInvariant, PTL DEF Spec

\* The texts of a request that was forwarded.
LEMMA ForwardedTexts ==
  ASSUME Types, TextInv, NEW t \in Tasks, pc[t] = "sent", NEW k \in DOMAIN text[t]
  PROVE  /\ k \in DOMAIN done[t] /\ EntryOK(done[t][k]) /\ text[t][k] \in Plain /\ sent[t] \in Seq(Seq(Cell))
         /\ Noted(t, k) /\ ForwardOK(t, k)
  <1>1. Len(done[t]) = Len(text[t]) /\ done[t] \in Seq(Entry) /\ text[t] \in Seq(Plain) /\ sent[t] \in Seq(Seq(Cell))
    BY DEF Types
  <1>2. k \in DOMAIN done[t] /\ text[t][k] \in Plain
    BY <1>1
  <1> QED
    BY <1>1, <1>2 DEF Types, TextInv

\* Whatever Tiers 1 and 2 find of originals is replaced in what is forwarded, for texts of any length, any
\* number of replacements by the sidecar and any number of requests, but for what stands in the shadow of a
\* second replacement.
THEOREM FoundIsReplacedAlways == Spec => []FoundIsReplaced
  <1>1. Types /\ TextInv => FoundIsReplaced
    <2> SUFFICES ASSUME Types, TextInv, NEW t \in Tasks, pc[t] = "sent", NEW k \in DOMAIN text[t], NEW o \in Originals
                 PROVE  LET e == done[t][k] IN
                        Occurrences(sent[t][k], o)
                          = Cardinality({i \in DOMAIN e.work : e.work[i] = o /\ (i \in e.found => i \in Shadow(e))})
      BY DEF FoundIsReplaced
    <2>1. EntryOK(done[t][k]) /\ SpansOK(done[t][k]) /\ SentOf(vault, done[t][k], sent[t][k], given)
      BY ForwardedTexts DEF Noted, ForwardOK
    <2>2. Forwarded(done[t][k], sent[t][k])
      BY <2>1, SentForwarded
    <2> QED
      BY <2>1, <2>2, ForwardedFound
  <1> QED
    BY <1>1, TextInvariant, PairsInvariant, PTL

-----------------------------------------------------------------------------
(* The echo *)

\* A token of the vault whose display value has stood for one original only stands for this one.
LEMMA FullIs ==
  ASSUME PairsInv, NEW id, NEW d, Sole(d), <<id, d>> \in DOMAIN vault.full, NEW o, <<o, d>> \in given
  PROVE  vault.full[<<id, d>>] = o
  <1>1. <<vault.full[<<id, d>>], d>> \in TokenPairs(vault)
    BY DEF TokenPairs
  <1>2. <<vault.full[<<id, d>>], d>> \in given
    BY <1>1 DEF PairsInv, PairsWithin, Given
  <1> QED
    BY <1>2 DEF Sole

\* All synthetics in a text have stood for one original only.
AllSole(cells) == \A d \in Range(cells) \cap Displays : Sole(d)

\* cells says plain to who has the vault.
Echoes(plain, cells) == \E pos : Decodes(vault, plain, cells, pos)

\* What stands for a cell of the working text: the cell, or a token of the vault for it.
LEMMA WorkShown ==
  ASSUME PairsInv, NEW e, EntryOK(e), NEW token, TokensOf(vault, e, token, given),
         NEW cells \in Seq(Cell), AllSole(cells),
         NEW pos, Placed(cells, e.work, DOMAIN token, token, pos), NEW q \in DOMAIN e.work
  PROVE  Shown(vault, e.work[q], cells, pos[q], pos[q + 1])
  <1>1. CASE q \in DOMAIN token
    <2>1. TokenOf(vault, e.work[q], token[q], given)
      BY <1>1 DEF TokensOf
    <2>2. PICK id \in Nat, d \in Displays :
            token[q] = Token(id, d) /\ <<id, d>> \in DOMAIN vault.full /\ <<e.work[q], d>> \in given
      BY <2>1 DEF TokenOf, Given, PairsInv
    <2>4. Token(id, d)[1] = [id |-> id] /\ Token(id, d)[2] = d /\ Token(id, d)[3] = Close
      BY TokenCells
    <2>5. /\ pos[q + 1] = pos[q] + 3 /\ pos[q] + 2 <= Len(cells)
          /\ cells[pos[q]] = token[q][1] /\ cells[pos[q] + 1] = token[q][2] /\ cells[pos[q] + 2] = token[q][3]
      BY <1>1 DEF Placed
    <2>6. cells[pos[q]] = [id |-> id] /\ cells[pos[q] + 1] = d /\ cells[pos[q] + 2] = Close
      BY <2>2, <2>4, <2>5, Zenon
    <2>8. pos[q] \in Nat
      <3>1. e.work \in Seq(Cell)
        BY DEF EntryOK, Entry
      <3>2. q \in 1..(Len(e.work) + 1)
        BY <3>1
      <3> QED
        BY <3>2 DEF Placed
    <2>9. d \in Range(cells)
      <3>1. pos[q] + 1 \in DOMAIN cells
        BY <2>5, <2>8
      <3> QED
        BY <2>6, <3>1 DEF Range
    <2>10. Sole(d)
      BY <2>9 DEF AllSole
    <2>3. vault.full[<<id, d>>] = e.work[q]
      BY <2>2, <2>10, FullIs
    <2>7. Hidden(vault, e.work[q], cells, pos[q], pos[q + 1])
      BY <2>2, <2>3, <2>5, <2>6, Zenon DEF Hidden
    <2> QED
      BY <2>7 DEF Shown
  <1>2. CASE q \notin DOMAIN token
    <2>1. pos[q + 1] = pos[q] + 1 /\ cells[pos[q]] = e.work[q] /\ pos[q] <= Len(cells)
      BY <1>2 DEF Placed
    <2> QED
      BY <2>1 DEF Shown, Kept
  <1> QED
    BY <1>1, <1>2

\* A text without a replacement by the sidecar is forwarded so that it can be read back.
LEMMA PlainEchoes ==
  ASSUME PairsInv, NEW e, EntryOK(e), NEW cells \in Seq(Cell), AllSole(cells), SentOf(vault, e, cells, given)
  PROVE  Echoes(e.work, cells)
  <1>1. PICK token : cells = Tokenised(e.work, DOMAIN token, token) /\ TokensOf(vault, e, token, given)
    BY DEF SentOf
  <1>2. e.work \in Seq(Cell) /\ DOMAIN e.work = 1..Len(e.work)
    BY DEF EntryOK, Entry
  <1>3. TokensAt(e.work, DOMAIN token, token)
    BY <1>1 DEF TokensOf, TokenOf, TokensAt, IsToken
  <1>4. PICK pos : Placed(cells, e.work, DOMAIN token, token, pos)
    BY <1>1, <1>2, <1>3, TokenisedPlaces
  <1>5. \A q \in 1..Len(e.work) : Shown(vault, e.work[q], cells, pos[q], pos[q + 1])
    BY <1>1, <1>2, <1>4, WorkShown
  <1>6. /\ pos[1] = 1 /\ pos[Len(e.work) + 1] = Len(cells) + 1
        /\ \A j \in 1..(Len(e.work) + 1) : pos[j] \in Nat \ {0}
    BY <1>4 DEF Placed
  <1>7. Decodes(vault, e.work, cells, pos)
    BY <1>5, <1>6 DEF Decodes
  <1> QED
    BY <1>7, Zenon DEF Echoes

\* So is a text with one.
LEMMA OneEchoes ==
  ASSUME PairsInv, NEW e, EntryOK(e), Len(e.s1) = 1, Known(e.s1[1]), NEW cells \in Seq(Cell), AllSole(cells),
         SentOf(vault, e, cells, given), ReplyPairs(e) \subseteq given, NEW plain \in Seq(Cell), NotedOne(plain, e)
  PROVE  Echoes(plain, cells)
  <1>1. PICK token : cells = Tokenised(e.work, DOMAIN token, token) /\ TokensOf(vault, e, token, given)
    BY DEF SentOf
  <1>2. e.work \in Seq(Cell) /\ DOMAIN e.work = 1..Len(e.work) /\ Len(e.work) \in Nat
    BY DEF EntryOK, Entry
  <1>3. TokensAt(e.work, DOMAIN token, token)
    BY <1>1 DEF TokensOf, TokenOf, TokensAt, IsToken
  <1>4. PICK pos2 : Placed(cells, e.work, DOMAIN token, token, pos2)
    BY <1>1, <1>2, <1>3, TokenisedPlaces
  <1>5. \A q \in 1..Len(e.work) : Shown(vault, e.work[q], cells, pos2[q], pos2[q + 1])
    BY <1>1, <1>2, <1>4, WorkShown
  <1>6. PICK i \in DOMAIN plain, d \in Displays :
          /\ e.work = Tokenised(plain, {i}, [x \in {i} |-> Token(e.s1[1].id, d)])
          /\ e.s1[1].original = plain[i] /\ e.s1[1].display = d
          /\ \A j \in DOMAIN e.spans : e.spans[j] \notin {i, i + 1, i + 2}
    BY DEF NotedOne
  <1> DEFINE first == e.s1[1].id
  <1>a. first \in Nat /\ DOMAIN e.s1 = {1}
    <2>1. e.s1 \in Seq(Reply)
      BY DEF EntryOK, Entry
    <2>2. e.s1[1] \in Reply /\ DOMAIN e.s1 = {1}
      BY <2>1
    <2> QED
      BY <2>2 DEF Reply
  <1> HIDE DEF first
  <1>b. e.work = Tokenised(plain, {i}, [x \in {i} |-> Token(first, d)])
    BY <1>6 DEF first
  <1> DEFINE one == [x \in {i} |-> Token(first, d)]
             n == Len(plain)
             W == Len(e.work)
  <1>7. one[i] = Token(first, d) /\ IsToken(one[i])
    <2>1. one[i] = Token(first, d)
      OBVIOUS
    <2> QED
      BY <1>a, <2>1, Zenon DEF IsToken
  <1>8. e.work = Tokenised(plain, {i}, one)
    BY <1>b
  <1> HIDE DEF one
  <1>9. PICK pos1 : Placed(e.work, plain, {i}, one, pos1) /\ pos1[i] = i
    <2>1. TokensAt(plain, {i}, one) /\ i \in DOMAIN plain \cap {i} /\ \A j \in {i} : i <= j
      BY <1>7 DEF TokensAt
    <2>2. \E pos : Placed(Tokenised(plain, {i}, one), plain, {i}, one, pos) /\ pos[i] = i
      <3> DEFINE at == {i}
      <3>1. TokensAt(plain, at, one) /\ i \in DOMAIN plain \cap at /\ \A j \in at : i <= j
        BY <2>1
      <3> HIDE DEF at
      <3>2. \E pos : Placed(Tokenised(plain, at, one), plain, at, one, pos) /\ pos[i] = i
        BY <3>1, FirstTokenPlaces
      <3> QED
        BY <3>2 DEF at
    <2> QED
      BY <1>8, <2>2, Zenon
  <1>10. n \in Nat /\ DOMAIN plain = 1..n /\ i \in 1..n /\ W \in Nat /\ DOMAIN e.work = 1..W
    BY <1>2
  <1>11. pos1[1] = 1 /\ pos1[n + 1] = W + 1 /\ \A j \in 1..(n + 1) : pos1[j] \in Nat \ {0}
    BY <1>9 DEF Placed
  <1>12. \A j \in DOMAIN plain \ {i} : pos1[j + 1] = pos1[j] + 1 /\ e.work[pos1[j]] = plain[j] /\ pos1[j] <= W
    BY <1>9 DEF Placed
  <1>13. /\ pos1[i + 1] = i + 3 /\ i + 2 <= W
         /\ e.work[i] = one[i][1] /\ e.work[i + 1] = one[i][2] /\ e.work[i + 2] = one[i][3]
    BY <1>9 DEF Placed
  <1>14. e.work[i] = [id |-> first] /\ e.work[i + 1] = d /\ e.work[i + 2] = Close
    <2>1. Token(first, d)[1] = [id |-> first] /\ Token(first, d)[2] = d /\ Token(first, d)[3] = Close
      BY TokenCells
    <2> QED
      BY <1>7, <1>13, <2>1, Zenon
  <1>15. /\ pos2[1] = 1 /\ pos2[W + 1] = Len(cells) + 1 /\ (\A q \in 1..(W + 1) : pos2[q] \in Nat \ {0})
         /\ \A q \in DOMAIN e.work \ DOMAIN token : pos2[q + 1] = pos2[q] + 1 /\ cells[pos2[q]] = e.work[q] /\ pos2[q] <= Len(cells)
    BY <1>4 DEF Placed
  <1> HIDE DEF n, W
  <1>16. i \notin DOMAIN token /\ i + 1 \notin DOMAIN token /\ i + 2 \notin DOMAIN token
    <2>1. \A p \in DOMAIN token : \E j \in DOMAIN e.spans : e.spans[j] = p
      BY <1>1 DEF TokensOf
    <2> QED
      BY <1>6, <2>1
  <1> DEFINE pos == [j \in 1..(n + 1) |-> pos2[pos1[j]]]
  <1>17. \A j \in 1..(n + 1) : pos1[j] \in 1..(W + 1)
    <2> SUFFICES ASSUME NEW j \in 1..(n + 1) PROVE pos1[j] \in 1..(W + 1)
      OBVIOUS
    <2>0. pos1[j] \in Nat \ {0}
      BY <1>11
    <2>1. CASE j = n + 1
      BY <1>10, <1>11, <2>1
    <2>2. CASE j = i
      BY <1>9, <1>10, <1>13, <2>2
    <2>3. CASE j \in DOMAIN plain \ {i}
      BY <1>10, <1>12, <2>0, <2>3
    <2>4. j = n + 1 \/ j = i \/ j \in DOMAIN plain \ {i}
      BY <1>10
    <2> QED
      BY <2>1, <2>2, <2>3, <2>4
  <1>18. \A j \in 1..(n + 1) : pos[j] = pos2[pos1[j]] /\ pos[j] \in Nat \ {0}
    BY <1>15, <1>17
  <1>19. pos[1] = 1 /\ pos[n + 1] = Len(cells) + 1
    BY <1>10, <1>11, <1>15, <1>18
  <1> HIDE DEF pos
  <1>20. ASSUME NEW j \in 1..n PROVE Shown(vault, plain[j], cells, pos[j], pos[j + 1])
    <2>0. j \in 1..(n + 1) /\ j + 1 \in 1..(n + 1)
      BY <1>10
    <2>1. pos[j] = pos2[pos1[j]] /\ pos[j + 1] = pos2[pos1[j + 1]]
      BY <1>18, <2>0
    <2>2. CASE j # i
      <3>1. pos1[j + 1] = pos1[j] + 1 /\ e.work[pos1[j]] = plain[j] /\ pos1[j] <= W
        BY <1>10, <1>12, <2>2
      <3>2. pos1[j] \in 1..W
        BY <1>10, <1>11, <2>0, <3>1
      <3>3. Shown(vault, e.work[pos1[j]], cells, pos2[pos1[j]], pos2[pos1[j] + 1])
        BY <1>5, <3>2 DEF W
      <3> QED
        BY <2>1, <3>1, <3>3
    <2>3. CASE j = i
      <3>1. i \in DOMAIN e.work /\ i + 1 \in DOMAIN e.work /\ i + 2 \in DOMAIN e.work /\ (i + 1) + 1 = i + 2 /\ (i + 2) + 1 = i + 3
        BY <1>10, <1>13
      <3>2. /\ pos2[i + 1] = pos2[i] + 1 /\ cells[pos2[i]] = e.work[i]
            /\ pos2[i + 2] = pos2[i + 1] + 1 /\ cells[pos2[i + 1]] = e.work[i + 1]
            /\ pos2[i + 3] = pos2[i + 2] + 1 /\ cells[pos2[i + 2]] = e.work[i + 2] /\ pos2[i + 2] <= Len(cells)
        BY <1>15, <1>16, <3>1
      <3>3. i \in 1..(W + 1)
        BY <1>10, <1>13
      <3>4. pos2[i] \in Nat
        BY <1>15, <3>3
      <3> DEFINE a == pos2[i]
      <3>5. pos2[i + 1] = a + 1 /\ pos2[i + 2] = a + 2 /\ pos2[i + 3] = a + 3
        <4>1. ASSUME NEW k \in Nat PROVE (k + 1) + 1 = k + 2 /\ (k + 2) + 1 = k + 3
          OBVIOUS
        <4>2. (pos2[i] + 1) + 1 = pos2[i] + 2 /\ (pos2[i] + 2) + 1 = pos2[i] + 3
          BY <3>4, <4>1, Zenon
        <4>3. pos2[i + 1] = pos2[i] + 1 /\ pos2[i + 2] = pos2[i + 1] + 1 /\ pos2[i + 3] = pos2[i + 2] + 1
          BY <3>2, Zenon
        <4>4. pos2[i + 2] = pos2[i] + 2
          BY <4>2, <4>3, Zenon
        <4>5. pos2[i + 3] = pos2[i] + 3
          BY <4>2, <4>3, <4>4, Zenon
        <4> QED
          BY <4>3, <4>4, <4>5, Zenon
      <3>6. /\ a + 2 <= Len(cells) /\ cells[a] = [id |-> first] /\ cells[a + 1] = d /\ cells[a + 2] = Close
        BY <1>14, <3>2, <3>5, Zenon
      <3>7. pos[j] = a /\ pos[j + 1] = a + 3
        BY <1>9, <1>13, <2>1, <2>3, <3>5, Zenon
      <3> HIDE DEF a
      <3>8. <<first, d>> \in DOMAIN vault.full
        BY <1>6 DEF Known, first
      <3>9. vault.full[<<first, d>>] = plain[j]
        <4>1. <<e.s1[1].original, e.s1[1].display>> \in ReplyPairs(e)
          BY <1>a DEF ReplyPairs
        <4>2. <<plain[i], d>> \in given
          BY <1>6, <4>1
        <4>3. a + 1 \in DOMAIN cells
          BY <3>4, <3>6 DEF a
        <4>4. d \in Range(cells)
          BY <3>6, <4>3 DEF Range
        <4>5. Sole(d)
          BY <4>4 DEF AllSole
        <4> QED
          BY <2>3, <3>8, <4>2, <4>5, FullIs
      <3>10. Hidden(vault, plain[j], cells, pos[j], pos[j + 1])
        BY <1>a, <3>6, <3>7, <3>8, <3>9, Zenon DEF Hidden
      <3> QED
        BY <3>10 DEF Shown
    <2> QED
      BY <2>2, <2>3
  <1>21. Decodes(vault, plain, cells, pos)
    BY <1>18, <1>19, <1>20 DEF Decodes, n
  <1> QED
    BY <1>21, Zenon DEF Echoes

\* A response that echoes a text gives the client its own text back, for texts of any length, any number of
\* requests, however they overlap, whatever the sidecar and the generator come up with, and any number of
\* evictions and restarts between requests: if each synthetic in it has stood for one original only, and the
\* sidecar made at most one replacement in it, whose token the vault has.
THEOREM EchoRestoredAlways == Spec => []EchoRestored
  <1>1. Types /\ PairsInv /\ TextInv => EchoRestored
    <2> SUFFICES ASSUME Types, PairsInv, TextInv, NEW t \in Tasks, pc[t] = "sent", NEW k \in DOMAIN text[t],
                        AllSole(sent[t][k]), Len(done[t][k].s1) <= 1, \A r \in Range(done[t][k].s1) : Known(r)
                 PROVE  Unmask(vault, sent[t][k]) = text[t][k]
      BY DEF EchoRestored, AllSole
    <2> DEFINE e == done[t][k]
               cells == sent[t][k]
               plain == text[t][k]
    <2>1. /\ EntryOK(e) /\ plain \in Plain /\ NotedAs(plain, e)
          /\ SentOf(vault, e, cells, given) /\ ReplyPairs(e) \subseteq given
      BY ForwardedTexts DEF Noted, ForwardOK
    <2> HIDE DEF e, cells, plain
    <2>2. plain \in Seq(Cell)
      <3>1. plain \in Seq({Word} \cup Originals)
        BY <2>1 DEF Plain
      <3>2. {Word} \cup Originals \subseteq Cell
        BY DEF Cell, Values
      <3> QED
        BY <3>1, <3>2
    <2>3. cells \in Seq(Cell)
      <3>1. PICK token : cells = Tokenised(e.work, DOMAIN token, token) /\ TokensOf(vault, e, token, given)
        BY <2>1 DEF SentOf
      <3>2. \A p \in DOMAIN token : token[p] \in Seq(Cell)
        <4> SUFFICES ASSUME NEW p \in DOMAIN token PROVE token[p] \in Seq(Cell)
          OBVIOUS
        <4>1. PICK id \in Nat, d \in Displays : token[p] = Token(id, d)
          BY <3>1 DEF TokensOf, TokenOf
        <4> QED
          BY <4>1, TokenType
      <3>3. e.work \in Seq(Cell)
        BY <2>1 DEF EntryOK, Entry
      <3> QED
        BY <3>1, <3>2, <3>3, TokenisedType
    <2>4. AllSole(cells) /\ Len(e.s1) <= 1 /\ \A r \in Range(e.s1) : Known(r)
      BY DEF e, cells
    <2>5. e.s1 \in Seq(Reply)
      BY <2>1 DEF EntryOK, Entry
    <2>6. CASE Len(e.s1) = 0
      <3>1. e.work = plain
        BY <2>1, <2>6 DEF NotedAs
      <3>2. Echoes(e.work, cells)
        BY <2>1, <2>3, <2>4, PlainEchoes
      <3> QED
        BY <2>1, <2>3, <3>1, <3>2, UnmaskPlain DEF Echoes, PairsInv, PairsWithin, cells, plain
    <2>7. CASE Len(e.s1) = 1
      <3>1. NotedOne(plain, e)
        BY <2>1, <2>7 DEF NotedAs
      <3>2. e.s1[1] \in Range(e.s1)
        BY <2>5, <2>7 DEF Range
      <3>3. Echoes(plain, cells)
        BY <2>1, <2>2, <2>3, <2>4, <2>7, <3>1, <3>2, OneEchoes
      <3> QED
        BY <2>1, <2>3, <3>3, UnmaskPlain DEF Echoes, PairsInv, PairsWithin, cells, plain
    <2>8. Len(e.s1) = 0 \/ Len(e.s1) = 1
      <3>1. Len(e.s1) \in Nat
        BY <2>5
      <3>2. Len(e.s1) <= 1
        BY <2>4
      <3>3. \A n \in Nat : n <= 1 => n = 0 \/ n = 1
        OBVIOUS
      <3> QED
        BY <3>1, <3>2, <3>3, Zenon
    <2> QED
      BY <2>6, <2>7, <2>8
  <1> QED
    BY <1>1, TextInvariant, PairsInvariant, PTL
=============================================================================
