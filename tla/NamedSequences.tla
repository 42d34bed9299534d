--------------------------- MODULE NamedSequences ----------------------------
(* Sequences of records with a field "name", which stand for maps whose     *)
(* keys have an order, and what is taken from a sequence.                  *)
EXTENDS Integers, SequencesExt

Names(s) == {s[i].name : i \in DOMAIN s}

Get(s, name) == s[CHOOSE i \in DOMAIN s : s[i].name = name]

\* A map has one value for a key.
DistinctNames(s) == \A i, j \in DOMAIN s : s[i].name = s[j].name => i = j

\* The elements of s at the places P, in their order.
Picked(s, P) ==
    LET Upto[n \in 0..Len(s)] ==
            IF n = 0 THEN <<>> ELSE IF n \in P THEN Append(Upto[n - 1], s[n]) ELSE Upto[n - 1]
    IN  Upto[Len(s)]
==============================================================================
