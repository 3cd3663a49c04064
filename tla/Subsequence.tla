----------------------------- MODULE Subsequence -----------------------------
(* Array.prototype.filter, with the elements to keep given as a set.        *)
EXTENDS Naturals, Sequences

\* The elements of s that are in S, in order.
Among(s, S) ==
  LET f[k \in 0..Len(s)] ==
        IF k = 0 THEN <<>>
        ELSE IF s[k] \in S THEN Append(f[k - 1], s[k]) ELSE f[k - 1]
  IN f[Len(s)]
=============================================================================
