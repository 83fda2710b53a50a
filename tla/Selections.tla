------------------------------ MODULE Selections ------------------------------
(***************************************************************************)
(* What is left of a sequence when some of its elements are taken out.     *)
(***************************************************************************)
EXTENDS Integers, Sequences

\* The elements of s at the positions in I, in their order.
Picked(s, I) ==
  LET Upto[n \in 0..Len(s)] ==
        IF n = 0 THEN <<>> ELSE IF n \in I THEN Append(Upto[n - 1], s[n]) ELSE Upto[n - 1]
  IN  Upto[Len(s)]

=============================================================================
