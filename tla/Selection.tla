------------------------------ MODULE Selection ------------------------------
(***************************************************************************)
(* SelectSeq for a set, written as a recursive function so that proofs can *)
(* be made about it.                                                       *)
(***************************************************************************)
EXTENDS Integers, Sequences

\* The elements of s that are in P, in their order.
Filter(s, P) ==
  LET f[n \in 0..Len(s)] ==
        IF n = 0 THEN <<>>
        ELSE IF s[n] \in P THEN Append(f[n - 1], s[n]) ELSE f[n - 1]
  IN  f[Len(s)]
=============================================================================
