---------------------------- MODULE Subsequences ----------------------------
(***************************************************************************)
(* The elements of a sequence at the positions of a set, in order.         *)
(* SelectSeq takes an operator as its test, which the provers cannot       *)
(* reason about; a set of positions says the same and can be quantified    *)
(* over.  Lines that a filter keeps, and the units of a read that carry    *)
(* text, are such subsequences.                                            *)
(***************************************************************************)
EXTENDS Integers, Sequences

\* The elements of I among the first n, for every n up to the length.
PickedTo(seq, I) ==
  LET upTo[n \in 0..Len(seq)] ==
        IF n = 0 THEN <<>> ELSE IF n \in I THEN Append(upTo[n - 1], seq[n]) ELSE upTo[n - 1]
  IN  upTo

Picked(seq, I) == PickedTo(seq, I)[Len(seq)]

\* All of short's elements are in long, in the same order.
Within(short, long) ==
  \E at \in [DOMAIN short -> DOMAIN long] :
    /\ \A i, j \in DOMAIN short : i < j => at[i] < at[j]
    /\ \A i \in DOMAIN short : short[i] = long[at[i]]
=============================================================================
