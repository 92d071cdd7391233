------------------------ MODULE MCReplacementBuffer ------------------------
(* ReplacementBuffer for TLC: a vault with two synthetics. *)
EXTENDS ReplacementBuffer

MCChars == {"a", "b", "1", "<", "p", "/"}
MCIds   == [i \in {"1"} |-> <<"o">>]

\* Synthetics of different lengths, one of which ends in the beginning of the
\* other; the originals have none of their characters.
TwoKeys == [k \in {<<"a", "b">>, <<"b", "1", "1">>} |-> IF Len(k) = 2 THEN <<"o">> ELSE <<"q", "o">>]

\* The vault of the run is one that StreamingEqualsOneShot speaks about.
ASSUME TwoKeysApart == Display = TwoKeys => Apart

\* A synthetic that begins with another one.
PrefixKeys == [k \in {<<"a", "b">>, <<"a", "b", "1">>} |-> IF Len(k) = 2 THEN <<"o">> ELSE <<"q">>]

\* An original that ends in the first character of a synthetic.
ChainedKey == [k \in {<<"a", "b">>} |-> <<"b", "a">>]
=============================================================================
