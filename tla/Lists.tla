------------------------------- MODULE Lists -------------------------------
(***************************************************************************)
(* Lists of rows: what is left of one, and one of a set.                   *)
(***************************************************************************)
EXTENDS Naturals, Sequences, FiniteSets

\* the elements of s that are in S, in their order
Staying(s, S) ==
  LET kept[n \in 0 .. Len(s)] ==
        IF n = 0 THEN <<>>
        ELSE IF s[n] \in S THEN Append(kept[n - 1], s[n]) ELSE kept[n - 1]
  IN kept[Len(s)]

\* the numbers of S in their order
Ascending(S) ==
  CHOOSE s \in [1 .. Cardinality(S) -> S] : \A i, j \in DOMAIN s : i < j => s[i] < s[j]
=============================================================================
